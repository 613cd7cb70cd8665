-------------------------- MODULE OperationContract --------------------------
(***************************************************************************)
(* What a project's long-running operations promise to its API clients,    *)
(* whatever queue, worker or retry policy carries them out: an operation   *)
(* is submitted once, only while every other one is finished, and once it  *)
(* is finished it stays finished, or, where Reopens, may be shown as       *)
(* running again.  Nothing ends a reopened operation, and while there is   *)
(* one the project accepts no other.                                       *)
(***************************************************************************)
CONSTANTS
  Ops,                  \* the identifiers of one project's operations
  Reopens               \* may a finished operation be reopened? (a Boolean)

VARIABLE phase          \* phase[o]: how far operation o has come

Phases == {"absent", "queued", "working", "finished", "reopened"}
Unfinished(o) == phase[o] \in {"queued", "working"}

\* Every operation has one of the phases of a request.
TypeOK == phase \in [Ops -> Phases]

Init == phase = [o \in Ops |-> "absent"]

Submit(o) ==
  /\ phase[o] = "absent"
  /\ \A p \in Ops : phase[p] \in {"absent", "finished"}
  /\ phase' = [phase EXCEPT ![o] = "queued"]

Begin(o) ==
  /\ phase[o] = "queued"
  /\ phase' = [phase EXCEPT ![o] = "working"]

\* An operation may fail before its first stage is ever announced.
Finish(o) ==
  /\ Unfinished(o)
  /\ phase' = [phase EXCEPT ![o] = "finished"]

Reopen(o) ==
  /\ Reopens
  /\ phase[o] = "finished"
  /\ phase' = [phase EXCEPT ![o] = "reopened"]

Next == \E o \in Ops : Submit(o) \/ Begin(o) \/ Finish(o) \/ Reopen(o)

Spec == Init /\ [][Next]_phase

\* An accepted operation does not stay unfinished, which would refuse every
\* later command of the project (projects.py ensure_idle answers 409).
AcceptedIsFinished == \A o \in Ops : (phase[o] = "queued") ~> (phase[o] = "finished")
=============================================================================

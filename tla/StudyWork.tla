------------------------------- MODULE StudyWork -------------------------------
(***************************************************************************)
(* What the agents that read the included studies have in common: an       *)
(* operation gives an activity a list of studies, the activity opens one   *)
(* transaction per study, and the transaction locks the row of the         *)
(* operation, reads what is stored, asks an agent and stores the answer.   *)
(*                                                                         *)
(* run_agent stores its agent_runs row before it asks, and that row shares *)
(* the project (a foreign key): requests that lock the project FOR UPDATE  *)
(* wait until the answer is stored, other agents do not.                   *)
(***************************************************************************)
EXTENDS Integers, Sequences, FiniteSets

CONSTANTS
  Studies,     \* the studies of the project
  Included,    \* Included[p]: those with a finally included report under protocol p
  Readable,    \* the sets of studies that may have a text at first
  BatchSize,   \* EXTRACTION_BATCH_SIZE
  Environments,  \* how often an activity is tried (RETRY.maximum_attempts), and
                 \* whether an attempt may go on after its operation ended
  MaxOps, MaxHuman, MaxFaults   \* bounds

ASSUME StudiesAssumption == IsFiniteSet(Studies) /\ Studies # {}
ASSUME IncludedAssumption ==
  Included \in Seq(SUBSET Studies) /\ Len(Included) > 0
ASSUME ReadableAssumption == Readable \subseteq SUBSET Studies
ASSUME WorkBoundsAssumption ==
  /\ BatchSize \in Nat \ {0}
  /\ Environments \subseteq [retries : Nat \ {0}, overlap : BOOLEAN]
  /\ MaxOps \in Nat /\ MaxHuman \in Nat /\ MaxFaults \in Nat

VARIABLES
  protocol,   \* the version of the latest protocol
  readable,   \* the studies with a parsed report
  ops,        \* the operations, oldest first
  attempts,   \* the attempts of activities that workers have
  environment,
  human,      \* human actions so far
  faults      \* failures so far

workVars == <<protocol, readable, ops, attempts, environment, human, faults>>

Protocols == 1..Len(Included)
Kinds == {"extract", "review", "assess"}

\* details: study_ids, attempted, extraction_schema_id (by its version).
Operation == [type : {"extraction", "risk_of_bias"},
              status : {"RUNNING", "COMPLETED", "PARTIAL"},
              stage : {"CORPUS", "SCHEMA", "PREPARE", "VALIDATE", "REVIEW", "FINISH", "ABORT", "CALL", "ENDED"},
              corpus : SUBSET Studies, attempted : SUBSET Studies, schema : Nat]

\* What a transaction has read before it asks: current rows, those in conflict, or
\* the version and the tool of the latest assessment.
NothingSeen == [rows |-> {}, conflicts |-> {}, version |-> 0, tool |-> "none"]

\* todo: the studies of batch ahead.  subject: the study of the open transaction.
NewAttempt(o, kind, n, batch) ==
  [op |-> o, kind |-> kind, n |-> n, live |-> TRUE, batch |-> batch, todo |-> batch,
   pc |-> "idle", subject |-> {}, seen |-> NothingSeen]

WorkInit ==
  /\ protocol = 1 /\ readable \in Readable
  /\ ops = <<>> /\ attempts = {} /\ environment \in Environments /\ human = 0 /\ faults = 0

-----------------------------------------------------------------------------
(* Locks                                                                   *)

Holding(o) == \E a \in attempts : a.op = o /\ a.pc # "idle"
Asking == \E a \in attempts : a.pc \in {"asking", "storing"}

Idle == \A o \in DOMAIN ops : ops[o].status # "RUNNING"

\* A transaction of the workflow's current operation, between those of the attempts.
Current(type, stage) ==
  /\ ops # <<>> /\ ops[Len(ops)].type = type /\ ops[Len(ops)].stage = stage
  /\ ~Holding(Len(ops))

Op == ops[Len(ops)]
Replace(a, b) == attempts' = (attempts \ {a}) \cup {b}

-----------------------------------------------------------------------------
(* Requests                                                                *)

\* start_operation, for an idle project.
Start(type) ==
  /\ Idle /\ ~Asking /\ Len(ops) < MaxOps
  /\ Included[protocol] # {}
  /\ ops' = Append(ops, [type |-> type, status |-> "RUNNING", stage |-> "CORPUS",
                         corpus |-> {}, attempted |-> {}, schema |-> 0])
  /\ UNCHANGED <<protocol, readable, attempts, environment, human, faults>>

\* A revised protocol is approved, and the full texts are screened again.
Revise ==
  /\ Idle /\ ~Asking /\ protocol < Len(Included)
  /\ protocol' = protocol + 1
  /\ UNCHANGED <<readable, ops, attempts, environment, human, faults>>

\* A full text arrives and is parsed, by an operation of its own.
Parse(s) ==
  /\ Idle /\ ~Asking
  /\ readable' = readable \cup {s}
  /\ UNCHANGED <<protocol, ops, attempts, environment, human, faults>>

\* A member of the project acts, which needs the lock of the project.
ByHuman == ~Asking /\ human < MaxHuman /\ human' = human + 1
           /\ UNCHANGED <<protocol, readable, ops, attempts, environment, faults>>

-----------------------------------------------------------------------------
(* Activities                                                              *)

Enter(stage) == ops' = [ops EXCEPT ![Len(ops)].stage = stage]

\* The workflow calls an activity on a batch of studies.
Call(kind, batch) ==
  /\ Enter("CALL")
  /\ attempts' = attempts \cup {NewAttempt(Len(ops), kind, 1, batch)}

\* Mutation of MayTake: the row of the operation is read without FOR UPDATE.
MayTakeShared(a, s) == a.pc = "idle" /\ s \in a.todo

\* The transaction of study s begins, under the lock of the operation.
MayTake(a, s) == a.pc = "idle" /\ s \in a.todo /\ ~Holding(a.op)

Take(a, s, seen) ==
  Replace(a, [a EXCEPT !.pc = "checked", !.subject = {s}, !.seen = seen])

\* Nothing to do for s.
Skip(a, s) == Replace(a, [a EXCEPT !.todo = @ \ {s}])

\* The transaction of the attempt's study ends.
Finished(a) ==
  [a EXCEPT !.pc = "idle", !.todo = @ \ a.subject, !.subject = {}, !.seen = NothingSeen]

\* run_agent stores its row, and asks.
Ask(a) ==
  /\ a.pc = "checked"
  /\ Replace(a, [a EXCEPT !.pc = "asking"])
  /\ UNCHANGED <<protocol, readable, ops, environment, human, faults>>

\* Mutation of AgentFails: the extraction goes on, too.
AgentFailsAnywhere(a) ==
  /\ a.pc = "asking" /\ faults < MaxFaults
  /\ Replace(a, Finished(a))
  /\ ops' = [ops EXCEPT ![a.op].attempted = @ \cup a.subject]
  /\ faults' = faults + 1
  /\ UNCHANGED <<protocol, readable, environment, human>>

\* The reviewer or the assessor fails, and the loop goes on without an answer.
AgentFails(a) ==
  /\ a.pc = "asking" /\ a.kind # "extract" /\ faults < MaxFaults
  /\ Replace(a, Finished(a))
  /\ faults' = faults + 1
  /\ UNCHANGED <<protocol, readable, ops, environment, human>>

\* The workflow has the answer of an activity: where it goes next.
AfterCall(kind) == IF kind = "extract" THEN "PREPARE" ELSE "FINISH"

Answer(a) ==
  /\ a.live /\ a.todo = {} /\ a.pc = "idle"
  /\ attempts' = attempts \ {a}
  /\ Enter(AfterCall(a.kind))
  /\ UNCHANGED <<protocol, readable, environment, human, faults>>

\* An attempt is retried, or it was the last one and the workflow ends PARTIAL.
Retry(a, rest) ==
  LET more == a.live /\ a.n < environment.retries IN
  /\ attempts' = (attempts \ {a}) \cup rest
                   \cup IF more THEN {NewAttempt(a.op, a.kind, a.n + 1, a.batch)} ELSE {}
  /\ IF a.live /\ ~more THEN Enter("ABORT") ELSE UNCHANGED ops

\* The worker dies or the extractor fails, and the transaction with it, or the answer
\* is lost, or the attempt times out and may go on.
Lose(a) ==
  /\ a.live /\ faults < MaxFaults
  /\ faults' = faults + 1
  /\ \E rest \in {{}, {[a EXCEPT !.live = FALSE]}} : Retry(a, rest)
  /\ UNCHANGED <<protocol, readable, environment, human>>

\* Another activity fails for good.
Abort ==
  /\ ~Idle /\ Op.stage \notin {"CALL", "ABORT"} /\ faults < MaxFaults
  /\ Enter("ABORT") /\ faults' = faults + 1
  /\ UNCHANGED <<protocol, readable, attempts, environment, human>>

\* finish_operation, in either branch.  In the calm environment nothing goes on.
Finish ==
  /\ ~Idle /\ Op.stage \in {"FINISH", "ABORT"} /\ ~Holding(Len(ops))
  /\ ops' = [ops EXCEPT ![Len(ops)] =
               [@ EXCEPT !.stage = "ENDED",
                         !.status = IF Op.stage = "FINISH" THEN "COMPLETED" ELSE "PARTIAL"]]
  /\ attempts' = IF environment.overlap THEN attempts ELSE {}
  /\ UNCHANGED <<protocol, readable, environment, human, faults>>

\* A late attempt stops.
LateEnds(a) ==
  /\ ~a.live
  /\ attempts' = attempts \ {a}
  /\ UNCHANGED <<protocol, readable, ops, environment, human, faults>>

=============================================================================

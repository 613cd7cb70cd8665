------------------------------- MODULE Screening -------------------------------
(***************************************************************************)
(* Which works of a project pass screening.                                *)
(*                                                                         *)
(* A screening round is an operation (a row of workflow_runs) over a fixed *)
(* list of works under one version of the protocol.  Its workflow asks for *)
(* batches of undecided works until there are none; the activity screens a *)
(* batch, one transaction per work, each holding the round's row while the *)
(* agent reads.  Humans decide at any time, also during a round.  An       *)
(* attempt of an activity that timed out may go on next to its retry, and  *)
(* after its round ended (a late attempt).                                 *)
(*                                                                         *)
(* The order of the works within a round is left out: an attempt may take  *)
(* them in any order.                                                      *)
(***************************************************************************)
EXTENDS Integers, FiniteSets, Sequences, FiniteSetsExt

CONSTANTS
  Works,         \* the records of the project
  Verdicts,      \* what the agent may say, see VerdictsAssumption
  HumanVerdicts, \* what a human may say
  BatchSize,     \* SCREENING_BATCH_SIZE
  LateAttempts,  \* may an attempt that timed out go on?
  Revisions,     \* bound on the versions of the protocol
  MaxRounds,     \* bound on the rounds
  MaxHuman,      \* bound on the human decisions
  MaxFaults      \* bound on failed attempts

ASSUME WorksAssumption == IsFiniteSet(Works)
ASSUME VerdictsAssumption ==
  /\ Verdicts \subseteq {"INCLUDE", "EXCLUDE", "UNCERTAIN"}
  /\ HumanVerdicts \subseteq {"INCLUDE", "EXCLUDE", "UNCERTAIN"}
ASSUME BoundsAssumption ==
  /\ BatchSize \in Nat \ {0} /\ LateAttempts \in BOOLEAN
  /\ Revisions \in Nat \ {0} /\ MaxRounds \in Nat /\ MaxHuman \in Nat /\ MaxFaults \in Nat

VARIABLES
  protocols,  \* the versions of the protocol
  rounds,     \* the screening operations
  decisions,  \* the rows of screening_decisions, by version, stage and work
  parsed,     \* works with a parsed document
  attempts,   \* attempts of the screening activity
  humans, faults

vars == <<protocols, rounds, decisions, parsed, attempts, humans, faults>>

Stages == {"TITLE_ABSTRACT", "FULL_TEXT"}
Protocol == [status : {"PROPOSED", "APPROVED", "SUPERSEDED"}, approved : BOOLEAN]

\* "STOPPING": the last attempt failed, the workflow has yet to say PARTIAL.
Round == [stage : Stages, protocol : Nat \ {0}, works : SUBSET Works,
          status : {"RUNNING", "STOPPING", "COMPLETED", "PARTIAL"}]

\* FULL_TEXT_UNAVAILABLE is an EXCLUDE of the system with that reason.
Row == ({"AI"} \X Verdicts) \cup ({"HUMAN"} \X HumanVerdicts)
         \cup {<<"SYSTEM", "FULL_TEXT_UNAVAILABLE">>}

\* works: still to screen.  open: the work of the open transaction, if any, and
\* whether a parsed document was found when it began.
NoWork == [begun |-> FALSE]
Attempt == [round : Nat \ {0}, live : BOOLEAN, works : SUBSET Works,
            open : {NoWork} \cup [begun : {TRUE}, work : Works, text : BOOLEAN]]

\* The project once its protocol has been generated.
Init ==
  /\ protocols = <<[status |-> "PROPOSED", approved |-> FALSE]>>
  /\ rounds = <<>>
  /\ decisions = [k \in (1..Revisions) \X Stages \X Works |-> <<>>]
  /\ parsed = {} /\ attempts = {}
  /\ humans = 0 /\ faults = 0

-----------------------------------------------------------------------------
(* Reading the tables                                                      *)

\* latest_protocol: its version is its position.
Latest == Len(protocols)

\* ensure_idle
Idle == \A r \in DOMAIN rounds : rounds[r].status \in {"COMPLETED", "PARTIAL"}

By(rows, who) == {i \in DOMAIN rows : rows[i][1] = who}

\* Mutation of Effective: the newest row wins, whoever wrote it.
EffectiveNewest(rows) == rows[Len(rows)]

\* effective_decisions: the latest decision, a human one before any other.
Effective(rows) ==
  rows[IF By(rows, "HUMAN") # {} THEN Max(By(rows, "HUMAN")) ELSE Len(rows)]

\* The keys of effective_decisions.
Decided(p, stage) == {w \in Works : decisions[<<p, stage, w>>] # <<>>}

Says(p, stage, w, verdicts) ==
  w \in Decided(p, stage) /\ Effective(decisions[<<p, stage, w>>])[2] \in verdicts

PassedTitles(p) == {w \in Works : Says(p, "TITLE_ABSTRACT", w, {"INCLUDE", "UNCERTAIN"})}

FinalIncluded(p) == {w \in Works : Says(p, "FULL_TEXT", w, {"INCLUDE"})}

\* research.operation locks the row of the round while a work is screened.
Locked(r) == \E a \in attempts : a.round = r /\ a.open # NoWork

-----------------------------------------------------------------------------
(* Requests                                                                *)

ApproveProtocol ==
  /\ Idle /\ protocols[Latest].status = "PROPOSED"
  /\ protocols' = [protocols EXCEPT ![Latest] = [status |-> "APPROVED", approved |-> TRUE]]
  /\ UNCHANGED <<rounds, decisions, parsed, attempts, humans, faults>>

\* Mutation of ReviseProtocol: the protocol is revised under a running round.
ReviseProtocolAnytime ==
  /\ Latest < Revisions
  /\ protocols' = Append([protocols EXCEPT ![Latest].status = "SUPERSEDED"],
                         [status |-> "PROPOSED", approved |-> FALSE])
  /\ UNCHANGED <<rounds, decisions, parsed, attempts, humans, faults>>

ReviseProtocol ==
  /\ Idle /\ Latest < Revisions
  /\ protocols[Latest].status \in {"PROPOSED", "APPROVED"}
  /\ protocols' = Append([protocols EXCEPT ![Latest].status = "SUPERSEDED"],
                         [status |-> "PROPOSED", approved |-> FALSE])
  /\ UNCHANGED <<rounds, decisions, parsed, attempts, humans, faults>>

Started(stage, works) ==
  /\ Idle /\ works # {} /\ Len(rounds) < MaxRounds
  /\ rounds' = Append(rounds, [stage |-> stage, protocol |-> Latest,
                               works |-> works, status |-> "RUNNING"])
  /\ UNCHANGED <<protocols, decisions, parsed, attempts, humans, faults>>

\* canonical_ids: discovery and deduplication change the works between rounds.
StartTitles ==
  /\ protocols[Latest].status = "APPROVED"
  /\ \E works \in SUBSET Works : Started("TITLE_ABSTRACT", works)

StartFullText ==
  /\ protocols[Latest].status = "APPROVED"
  /\ Started("FULL_TEXT", PassedTitles(Latest))

\* human_decision does not ask ensure_idle.  Its row refers to the round: it
\* waits for a transaction that holds the round.
HumanDecides(r, w, verdict) ==
  /\ humans < MaxHuman
  /\ rounds[r].stage = "TITLE_ABSTRACT" /\ w \in rounds[r].works
  /\ ~Locked(r)
  /\ decisions' = [decisions EXCEPT ![<<rounds[r].protocol, "TITLE_ABSTRACT", w>>] =
                                      Append(@, <<"HUMAN", verdict>>)]
  /\ humans' = humans + 1
  /\ UNCHANGED <<protocols, rounds, parsed, attempts, faults>>

\* A document arrives: a parsing operation, or a late attempt of one.
Parse(w) ==
  /\ Idle \/ LateAttempts
  /\ w \notin parsed
  /\ parsed' = parsed \cup {w}
  /\ UNCHANGED <<protocols, rounds, decisions, attempts, humans, faults>>

-----------------------------------------------------------------------------
(* The workflow of a round                                                 *)

Running(r) == rounds[r].status = "RUNNING" /\ ~\E a \in attempts : a.round = r /\ a.live

\* Mutation of Undecided: a decision of the system does not settle a work.
UndecidedByReaders(r) ==
  {w \in rounds[r].works :
     By(decisions[<<rounds[r].protocol, rounds[r].stage, w>>], "AI")
       \cup By(decisions[<<rounds[r].protocol, rounds[r].stage, w>>], "HUMAN") = {}}

Undecided(r) == rounds[r].works \ Decided(rounds[r].protocol, rounds[r].stage)

\* prepare_screening_batch insists on an approved protocol.
Ready(r) ==
  /\ Running(r) /\ ~Locked(r)
  /\ rounds[r].stage = "TITLE_ABSTRACT" => protocols[rounds[r].protocol].status = "APPROVED"

PrepareBatch(r) ==
  /\ Ready(r)
  /\ \E batch \in kSubset(Min({BatchSize, Cardinality(Undecided(r))}), Undecided(r)) :
       /\ batch # {}
       /\ attempts' = attempts \cup {[round |-> r, live |-> TRUE, works |-> batch, open |-> NoWork]}
  /\ UNCHANGED <<protocols, rounds, decisions, parsed, humans, faults>>

CompleteRound(r) ==
  /\ Ready(r) /\ Undecided(r) = {}
  /\ rounds' = [rounds EXCEPT ![r].status = "COMPLETED"]
  /\ UNCHANGED <<protocols, decisions, parsed, attempts, humans, faults>>

StopRound(r) ==
  /\ rounds[r].status = "STOPPING" /\ ~Locked(r)
  /\ rounds' = [rounds EXCEPT ![r].status = "PARTIAL"]
  /\ UNCHANGED <<protocols, decisions, parsed, attempts, humans, faults>>

-----------------------------------------------------------------------------
(* run_screening_batch and screen_full_text_batch                          *)

Becomes(a, b) == attempts' = (attempts \ {a}) \cup {b}
ProtocolOf(a) == rounds[a.round].protocol
StageOf(a) == rounds[a.round].stage

\* A transaction begins with a work that is still undecided ...
TakeWork(a, w) ==
  /\ ~Locked(a.round) /\ w \in a.works
  /\ Becomes(a, IF w \in Decided(ProtocolOf(a), StageOf(a))
                  THEN [a EXCEPT !.works = @ \ {w}]
                  ELSE [a EXCEPT !.open = [begun |-> TRUE, work |-> w, text |-> w \in parsed]])
  /\ UNCHANGED <<protocols, rounds, decisions, parsed, humans, faults>>

\* ... and inserts the answer of the agent, which reads passages of the document
\* at the full-text stage, or else of the system.
Answers(a) ==
  IF StageOf(a) = "FULL_TEXT" /\ ~a.open.text
    THEN {<<"SYSTEM", "FULL_TEXT_UNAVAILABLE">>} ELSE {"AI"} \X Verdicts

RowsOf(a) == decisions[<<ProtocolOf(a), StageOf(a), a.open.work>>]

\* The index screening_ai_once: one row of an AI per version, work and stage.
Rejected(a, row) == row[1] = "AI" /\ By(RowsOf(a), "AI") # {}

\* Mutation of Decide: the agent answers without a document.
DecideUnread(a) ==
  /\ a.open # NoWork
  /\ \E row \in {"AI"} \X Verdicts :
       /\ ~Rejected(a, row)
       /\ decisions' = [decisions EXCEPT ![<<ProtocolOf(a), StageOf(a), a.open.work>>] = Append(@, row)]
  /\ Becomes(a, [a EXCEPT !.works = @ \ {a.open.work}, !.open = NoWork])
  /\ UNCHANGED <<protocols, rounds, parsed, humans, faults>>

Decide(a) ==
  /\ a.open # NoWork
  /\ \E row \in Answers(a) :
       /\ ~Rejected(a, row)
       /\ decisions' = [decisions EXCEPT ![<<ProtocolOf(a), StageOf(a), a.open.work>>] = Append(@, row)]
  /\ Becomes(a, [a EXCEPT !.works = @ \ {a.open.work}, !.open = NoWork])
  /\ UNCHANGED <<protocols, rounds, parsed, humans, faults>>

\* The index refuses the row: the attempt fails, its retry skips the work.
Refused(a) ==
  /\ a.open # NoWork /\ \E row \in Answers(a) : Rejected(a, row)
  /\ IF a.live THEN Becomes(a, [a EXCEPT !.open = NoWork]) ELSE attempts' = attempts \ {a}
  /\ UNCHANGED <<protocols, rounds, decisions, parsed, humans, faults>>

EndBatch(a) ==
  /\ a.works = {} /\ (a.live => ~Locked(a.round))
  /\ attempts' = attempts \ {a}
  /\ UNCHANGED <<protocols, rounds, decisions, parsed, humans, faults>>

\* The agent fails, the worker dies, the database aborts the transaction, or the
\* attempt times out: it is retried or was the last one.  One that timed out may
\* go on.
AttemptFails(a) ==
  /\ a.live /\ faults < MaxFaults
  /\ faults' = faults + 1
  /\ \E rest \in {{}, IF LateAttempts THEN {[a EXCEPT !.live = FALSE]} ELSE {}} :
       \/ /\ attempts' = (attempts \ {a}) \cup {[a EXCEPT !.open = NoWork]} \cup rest
          /\ UNCHANGED rounds
       \/ /\ attempts' = (attempts \ {a}) \cup rest
          /\ rounds' = [rounds EXCEPT ![a.round].status = "STOPPING"]
  /\ UNCHANGED <<protocols, decisions, parsed, humans>>

-----------------------------------------------------------------------------
Worker ==
  \/ \E r \in DOMAIN rounds : PrepareBatch(r) \/ CompleteRound(r) \/ StopRound(r)
  \/ \E a \in attempts : Decide(a) \/ Refused(a) \/ EndBatch(a) \/ \E w \in Works : TakeWork(a, w)

Next ==
  \/ ApproveProtocol \/ ReviseProtocol \/ StartTitles \/ StartFullText
  \/ \E r \in DOMAIN rounds, w \in Works, verdict \in HumanVerdicts : HumanDecides(r, w, verdict)
  \/ \E w \in Works : Parse(w)
  \/ \E a \in attempts : AttemptFails(a)
  \/ Worker

Spec == Init /\ [][Next]_vars

\* The workers keep polling and an attempt that is open comes to an end.
FairSpec == Spec /\ WF_vars(Worker)

-----------------------------------------------------------------------------
(* Properties                                                              *)

Keys == (1..Revisions) \X Stages \X Works

\* Decisions and rounds are about pairs and revisions that exist.
TypeOK ==
  /\ protocols \in Seq(Protocol) /\ Latest \in 1..Revisions
  /\ rounds \in Seq(Round) /\ Len(rounds) <= MaxRounds
  /\ decisions \in [Keys -> Seq(Row)]
  /\ parsed \subseteq Works /\ attempts \subseteq Attempt
  /\ humans \in 0..MaxHuman /\ faults \in 0..MaxFaults

\* What a human decided stays the effective decision until a human decides again,
\* also when an agent that was already reading answers after it.
HumanStands ==
  [][\A k \in Keys :
       (decisions[k] # <<>> /\ Effective(decisions[k])[1] = "HUMAN"
          /\ By(decisions'[k], "HUMAN") = By(decisions[k], "HUMAN"))
       => Effective(decisions'[k]) = Effective(decisions[k])]_vars

\* A work of the final corpus has a document that was read, and was judged by its
\* title and abstract before, under the same version of the protocol.
FinalCorpusWasRead ==
  \A p \in 1..Revisions :
    FinalIncluded(p) \subseteq parsed \cap Decided(p, "TITLE_ABSTRACT")

\* The final corpus of a version only grows, whatever rounds and attempts come later: an
\* agent's answer is not followed by another, and a work leaves only when an attempt
\* that looked for its document before there was one says so after the agent.
FinalCorpusStays ==
  [][\A p \in 1..Revisions : \A w \in FinalIncluded(p) :
       \/ w \in FinalIncluded(p)'
       \/ \E a \in attempts : a.open # NoWork /\ a.open.work = w /\ ~a.open.text]_vars

\* No agent decides under a version of the protocol that has been replaced, unless
\* its attempt was given up for lost before.
AgentsFollowTheProtocol ==
  [][\A k \in Keys :
       (Len(decisions'[k]) > Len(decisions[k]) /\ decisions'[k][Len(decisions'[k])][1] # "HUMAN")
       => \/ k[1] = Latest /\ protocols[Latest].status = "APPROVED"
          \/ \E a \in attempts : ~a.live /\ ProtocolOf(a) = k[1]]_vars

\* Every round ends, the loop of its workflow included.
RoundsEnd ==
  \A r \in 1..MaxRounds :
    (r \in DOMAIN rounds /\ rounds[r].status = "RUNNING")
      ~> (r \in DOMAIN rounds /\ rounds[r].status \in {"COMPLETED", "PARTIAL"})

=============================================================================

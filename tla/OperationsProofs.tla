--------------------------- MODULE OperationsProofs ---------------------------
(***************************************************************************)
(* Theorems of Operations for every number of operations, requests,        *)
(* agents, retries and faults, and in every environment.                   *)
(***************************************************************************)
EXTENDS Operations, TLAPS

(* What a request knows while it holds the project row.                    *)
Locking ==
  \A c \in Clients :
    /\ client[c].pc \in {"starting", "editing"} <=> projectLock = c
    /\ client[c].pc \in {"starting", "editing"} =>
         client[c].seen = input /\ EnsureIdle
    /\ client[c].pc = "starting" => client[c].op \in Ops /\ ~Exists(client[c].op)
    /\ client[c].pc = "editing" => input < MaxInput
    /\ client[c].pc = "dispatching" => client[c].op \in Ops /\ Exists(client[c].op)

(* Temporal only knows committed rows, and an unfinished row is busy, which *)
(* is what ensure_idle looks for; so is a finished one that was reopened.   *)
Rows ==
  /\ \A o \in Ops : Unfinished(o) => Busy(o)
  /\ \A o \in Ops : row[o].done => row[o].status # "PENDING"
  /\ \A o \in Ops : ~Exists(o) => row[o] = NewRow
  /\ \A o \in Ops : wf[o].state # "none" => Exists(o) /\ wf[o].run \in 1..MaxRuns
  /\ \A a \in live : Exists(a.op)

Inv == TypeOK /\ Locking /\ Rows /\ AtMostOneUnfinished /\ InputsFrozen

USE NoClientAssumption, NoOpAssumption, AgentsAssumption, RetryAssumption,
    BoundsAssumption, EnvironmentAssumption

-----------------------------------------------------------------------------
(* The workflow's arithmetic.                                              *)

LEMMA StepArithmetic ==
  /\ FinishCompleted \in Steps /\ FinishFailed \in Steps
  /\ \A s \in Steps : s < FinishCompleted => AgentOf(s) \in 1..Agents /\ s + 1 \in Steps
  /\ 1 \in Steps
BY DEF FinishCompleted, FinishFailed, Steps, AgentOf

(* What every step of Temporal on a running execution keeps.               *)
WfType == [state : {"none", "running", "closed"}, run : 0..MaxRuns, step : Steps,
           n : 1..RetryLimit, reply : {"none", "ok", "refused"}]

TemporalFacts ==
  /\ wf \in [Ops -> WfType]
  /\ live \subseteq Attempt
  /\ \A o \in Ops : wf[o].state # "none" => Exists(o) /\ wf[o].run \in 1..MaxRuns
  /\ \A a \in live : Exists(a.op)

LEMMA TypeFacts == Inv => TemporalFacts
BY DEF Inv, TypeOK, Rows, TemporalFacts, WfType

LEMMA ScheduleFacts ==
  ASSUME TemporalFacts, UNCHANGED row,
         NEW o \in Ops, Exists(o), NEW run \in 1..MaxRuns, NEW step \in Steps,
         NEW n \in 1..RetryLimit, NEW kept \in SUBSET live,
         Schedule(o, run, step, n, kept)
  PROVE  TemporalFacts'
<1>1. wf' \in [Ops -> WfType]
  BY DEF TemporalFacts, Schedule, WfType
<1>2. live' \subseteq Attempt
  BY DEF TemporalFacts, Schedule, Attempt
<1>3. \A p \in Ops : wf'[p].state # "none" => Exists(p)' /\ wf'[p].run \in 1..MaxRuns
  BY DEF TemporalFacts, Schedule, Exists, WfType
<1>4. \A a \in live' : Exists(a.op)'
  BY DEF TemporalFacts, Schedule, Exists
<1> QED BY <1>1, <1>2, <1>3, <1>4 DEF TemporalFacts

LEMMA CloseFacts ==
  ASSUME TemporalFacts, UNCHANGED row, NEW o \in Ops, Exists(o),
         wf[o].run \in 1..MaxRuns, NEW kept \in SUBSET live, Close(o, kept)
  PROVE  TemporalFacts'
<1>1. wf' \in [Ops -> WfType]
  <2>1. wf \in [Ops -> WfType]
    BY DEF TemporalFacts
  <2>2. \A x \in WfType : [[x EXCEPT !.state = "closed"] EXCEPT !.reply = "none"] \in WfType
    BY DEF WfType
  <2>3. PICK y \in WfType : y = [[wf[o] EXCEPT !.state = "closed"] EXCEPT !.reply = "none"]
    BY <2>1, <2>2
  <2>4. wf' = [wf EXCEPT ![o] = y]
    BY <2>1, <2>3 DEF Close
  <2> QED BY <2>1, <2>4
<1>2. \A p \in Ops : wf'[p].run = wf[p].run /\ (p # o => wf'[p].state = wf[p].state)
  BY DEF TemporalFacts, Close, WfType
<1>3. \A p \in Ops : wf'[p].state # "none" => Exists(p)' /\ wf'[p].run \in 1..MaxRuns
  BY <1>2 DEF TemporalFacts, Exists
<1>4. live' \subseteq Attempt /\ \A a \in live' : Exists(a.op)'
  BY DEF TemporalFacts, Close, Exists
<1> QED BY <1>1, <1>3, <1>4 DEF TemporalFacts

LEMMA GiveUpFacts ==
  ASSUME TemporalFacts, UNCHANGED row, NEW o \in Ops, wf[o].state = "running",
         NEW kept \in SUBSET live,
         ActivityError(o, kept) \/ RetryOrGiveUp(o, kept)
  PROVE  TemporalFacts'
<1>1. Exists(o) /\ wf[o].run \in 1..MaxRuns
  BY DEF TemporalFacts
<1>2. ASSUME ActivityError(o, kept) PROVE TemporalFacts'
  <2>1. CASE wf[o].step < FinishFailed
    BY <1>1, <1>2, <2>1, ScheduleFacts, StepArithmetic DEF ActivityError
  <2>2. CASE ~(wf[o].step < FinishFailed)
    BY <1>1, <1>2, <2>2, CloseFacts DEF ActivityError
  <2> QED BY <2>1, <2>2
<1>3. CASE RetryOrGiveUp(o, kept) /\ wf[o].n < RetryLimit
  <2>1. wf[o].step \in Steps /\ wf[o].n + 1 \in 1..RetryLimit
    BY <1>3 DEF TemporalFacts, WfType
  <2> QED BY <1>1, <1>3, <2>1, ScheduleFacts DEF RetryOrGiveUp
<1>4. CASE RetryOrGiveUp(o, kept) /\ ~(wf[o].n < RetryLimit)
  BY <1>2, <1>4 DEF RetryOrGiveUp
<1> QED BY <1>2, <1>3, <1>4

LEMMA AnswersFacts ==
  ASSUME TemporalFacts, NEW a \in live, NEW reply \in {"ok", "refused"},
         Answers(a, reply), \A o \in Ops : Exists(o) => Exists(o)'
  PROVE  TemporalFacts'
<1>0. wf' = wf \/ wf' = [wf EXCEPT ![a.op] = [wf[a.op] EXCEPT !.reply = reply]]
  BY DEF Answers
<1>1. wf' \in [Ops -> WfType]
  <2>1. CASE wf' = wf
    BY <2>1 DEF TemporalFacts
  <2>2. ASSUME NEW x \in WfType PROVE [x EXCEPT !.reply = reply] \in WfType
    BY DEF WfType
  <2>3. wf \in [Ops -> WfType]
    BY DEF TemporalFacts
  <2>4. CASE wf' = [wf EXCEPT ![a.op] = [wf[a.op] EXCEPT !.reply = reply]]
    <3>1. CASE a.op \in Ops
      <4>1. PICK x \in WfType : x = [wf[a.op] EXCEPT !.reply = reply]
        BY <2>2, <2>3, <3>1
      <4> QED BY <2>3, <2>4, <4>1
    <3>2. CASE a.op \notin Ops
      BY <2>3, <2>4, <3>2
    <3> QED BY <3>1, <3>2
  <2> QED BY <1>0, <2>1, <2>4
<1>2. \A o \in Ops : wf'[o].state = wf[o].state /\ wf'[o].run = wf[o].run
  BY DEF TemporalFacts, Answers, WfType
<1>3. \A b \in live' : b \in live /\ b.op \in Ops
  BY DEF TemporalFacts, Answers, Attempt
<1> QED BY <1>1, <1>2, <1>3 DEF TemporalFacts

-----------------------------------------------------------------------------
(* Steps that change only wf, live and faults, and steps that change only  *)
(* the requests, keep everything the invariant says of the rest.           *)

LEMMA TemporalStep ==
  ASSUME Inv, TemporalFacts', faults' \in 0..MaxFaults,
         UNCHANGED <<row, input, basedOn, projectLock, client, made>>
  PROVE  Inv'
<1>1. TypeOK'
  BY DEF Inv, TypeOK, TemporalFacts, WfType
<1>2. Locking'
  BY DEF Inv, Locking, EnsureIdle, Busy, Exists
<1>3. Rows'
  BY DEF Inv, Rows, TemporalFacts, Unfinished, Exists, Busy
<1>4. AtMostOneUnfinished' /\ InputsFrozen'
  BY DEF Inv, AtMostOneUnfinished, InputsFrozen, Unfinished, Exists
<1> QED BY <1>1, <1>2, <1>3, <1>4 DEF Inv

LEMMA RequestStep ==
  ASSUME Inv, TypeOK', Locking', UNCHANGED <<row, input, basedOn, wf, live>>
  PROVE  Inv'
<1>1. Rows'
  BY DEF Inv, Rows, Unfinished, Exists, Busy
<1>2. AtMostOneUnfinished' /\ InputsFrozen'
  BY DEF Inv, AtMostOneUnfinished, InputsFrozen, Unfinished, Exists
<1> QED BY <1>1, <1>2 DEF Inv

LEMMA InitInv == Init => Inv
<1> SUFFICES ASSUME Init PROVE Inv
  OBVIOUS
<1> USE DEF Init, NewRow, IdleClient
<1>1. TypeOK
  BY StepArithmetic DEF TypeOK, Row, Client, Attempt, FailedStage
<1>2. Locking
  BY DEF Locking
<1>3. Rows
  BY DEF Rows, Unfinished, Exists
<1>4. AtMostOneUnfinished /\ InputsFrozen
  BY DEF AtMostOneUnfinished, InputsFrozen, Unfinished, Exists
<1> QED BY <1>1, <1>2, <1>3, <1>4 DEF Inv

(* Only the request that holds the project row adds an unfinished row, and *)
(* it still knows that there is none.                                      *)
LEMMA StartCommitsInv ==
  ASSUME Inv, NEW c \in Clients, StartCommits(c)
  PROVE  Inv'
<1>0. PICK o \in Ops : o = client[c].op
  BY DEF Inv, Locking, StartCommits
<1>1. /\ o \in Ops /\ ~Exists(o)
      /\ client[c].seen = input
      /\ \A p \in Ops : ~Unfinished(p)
      /\ projectLock = c
  BY <1>0 DEF Inv, Locking, EnsureIdle, Rows, StartCommits
<1>2. /\ row' = [row EXCEPT ![o] = [status |-> "PENDING", stage |-> 0, done |-> FALSE]]
      /\ basedOn' = [basedOn EXCEPT ![o] = input]
      /\ UNCHANGED <<input, wf, live, made, faults>>
      /\ projectLock' = NoClient
      /\ client' = [client EXCEPT ![c].pc = "dispatching"]
  BY <1>0, <1>1 DEF StartCommits
<1>3. \A p \in Ops : p # o => row'[p] = row[p] /\ basedOn'[p] = basedOn[p]
  BY <1>2 DEF Inv, TypeOK
<1>4. row'[o] = [status |-> "PENDING", stage |-> 0, done |-> FALSE] /\ basedOn'[o] = input
  BY <1>1, <1>2 DEF Inv, TypeOK
<1>5. TypeOK'
  <2>1. row' \in [Ops -> Row]
    BY <1>2 DEF Inv, TypeOK, Row, FailedStage
  <2>2. client' \in [Clients -> Client]
    <3>1. client \in [Clients -> Client]
      BY DEF Inv, TypeOK
    <3>2. PICK x \in Client : x = [client[c] EXCEPT !.pc = "dispatching"]
      BY <3>1 DEF Client
    <3>3. client' = [client EXCEPT ![c] = x]
      BY <1>2, <3>2
    <3> QED BY <3>1, <3>3
  <2> QED BY <1>2, <2>1, <2>2 DEF Inv, TypeOK
<1>6. \A d \in Clients : d # c => client'[d] = client[d] /\ client'[d].pc \notin {"starting", "editing"}
  BY <1>1, <1>2 DEF Inv, TypeOK, Locking
<1>7. client'[c].pc = "dispatching" /\ client'[c].op = o
  BY <1>0, <1>2 DEF Inv, TypeOK, Client
<1>8. Locking'
  <2>1. \A p \in Ops : Exists(p) => Exists(p)'
    BY <1>3, <1>4 DEF Exists
  <2>2. Exists(o)'
    BY <1>1, <1>4 DEF Exists
  <2> QED
    BY <1>1, <1>2, <1>6, <1>7, <2>1, <2>2 DEF Inv, Locking
<1>9. Rows'
  BY <1>1, <1>2, <1>3, <1>4 DEF Inv, Rows, Unfinished, Exists, Busy
<1>10. AtMostOneUnfinished' /\ InputsFrozen'
  BY <1>1, <1>2, <1>3, <1>4 DEF AtMostOneUnfinished, InputsFrozen, Unfinished, Exists
<1> QED BY <1>5, <1>8, <1>9, <1>10 DEF Inv

LEMMA RequestsInv ==
  ASSUME Inv, NEW c \in Clients, Requests(c)
  PROVE  Inv'
<1> USE DEF Inv
<1>1. ASSUME NEW o \in Ops, StartChecks(c, o) PROVE Inv'
  <2>1. TypeOK'
    BY <1>1 DEF StartChecks, TypeOK, Client
  <2>2. Locking'
    BY <1>1 DEF StartChecks, Locking, EnsureIdle, Busy, TypeOK, Client, Exists
  <2> QED BY <1>1, <2>1, <2>2, RequestStep DEF StartChecks
<1>2. ASSUME NEW o \in Ops, Polls(c, o) PROVE Inv'
  <2>1. TypeOK'
    BY <1>2 DEF Polls, TypeOK, Client
  <2>2. Locking'
    BY <1>2 DEF Polls, Locking, EnsureIdle, Busy, TypeOK, Client, Exists
  <2> QED BY <1>2, <2>1, <2>2, RequestStep DEF Polls
<1>3. CASE EditChecks(c)
  <2>1. TypeOK'
    BY <1>3 DEF EditChecks, TypeOK, Client
  <2>2. Locking'
    BY <1>3 DEF EditChecks, Locking, EnsureIdle, Busy, TypeOK, Client, Exists
  <2> QED BY <1>3, <2>1, <2>2, RequestStep DEF EditChecks
<1>4. CASE StartCommits(c)
  BY <1>4, StartCommitsInv
<1>5. CASE EditCommits(c)
  <2>1. /\ projectLock = c /\ client[c].seen = input /\ input < MaxInput
        /\ \A o \in Ops : ~Unfinished(o)
    BY <1>5 DEF EditCommits, Locking, EnsureIdle, Rows
  <2>2. TypeOK'
    BY <1>5, <2>1 DEF EditCommits, TypeOK, Client, IdleClient
  <2>3. Locking'
    BY <1>5, <2>1 DEF EditCommits, Locking, EnsureIdle, Busy, TypeOK, IdleClient, Exists
  <2>4. Rows' /\ AtMostOneUnfinished' /\ InputsFrozen'
    BY <1>5, <2>1 DEF EditCommits, Rows, AtMostOneUnfinished, InputsFrozen, Unfinished,
                      Exists, Busy
  <2> QED BY <2>2, <2>3, <2>4
<1>6. CASE Aborts(c)
  <2>1. TypeOK'
    BY <1>6 DEF Aborts, TypeOK, Client, IdleClient
  <2>2. Locking'
    BY <1>6 DEF Aborts, Locking, EnsureIdle, Busy, TypeOK, Client, IdleClient, Exists
  <2> QED BY <1>6, <2>1, <2>2, RequestStep DEF Aborts
<1>7. CASE DispatchArrives(c)
  <2> DEFINE o == client[c].op
  <2>1. o \in Ops /\ Exists(o)
    BY <1>7 DEF DispatchArrives, Locking
  <2>2. TemporalFacts' /\ UNCHANGED <<row, input, basedOn, projectLock, made, faults>>
    <3>1. CASE wf' = wf /\ live' = live
      BY <1>7, <3>1, TypeFacts DEF DispatchArrives, TemporalFacts, Exists
    <3>2. CASE wf[o].run < MaxRuns /\ Schedule(o, wf[o].run + 1, 1, 1, live)
      <4>1. wf[o].run + 1 \in 1..MaxRuns
        BY <2>1, <3>2 DEF TypeOK
      <4> QED BY <1>7, <2>1, <3>2, <4>1, TypeFacts, ScheduleFacts, StepArithmetic
              DEF DispatchArrives
    <3> QED BY <1>7, <3>1, <3>2 DEF DispatchArrives
  <2>3. client' = [client EXCEPT ![c] = IdleClient]
    BY <1>7 DEF DispatchArrives
  <2>4. client[c].pc = "dispatching"
    BY <1>7 DEF DispatchArrives
  <2>5. TypeOK'
    BY <2>2, <2>3 DEF TypeOK, TemporalFacts, WfType, Client, IdleClient
  <2>6. Locking'
    BY <2>2, <2>3, <2>4 DEF Locking, EnsureIdle, Busy, TypeOK, Client, IdleClient, Exists
  <2>7. Rows' /\ AtMostOneUnfinished' /\ InputsFrozen'
    BY <2>2 DEF Rows, TemporalFacts, AtMostOneUnfinished, InputsFrozen, Unfinished,
                Exists, Busy
  <2> QED BY <2>5, <2>6, <2>7
<1>8. CASE DispatchLost(c)
  <2>1. TypeOK'
    BY <1>8 DEF DispatchLost, TypeOK, Client, IdleClient
  <2>2. Locking'
    BY <1>8 DEF DispatchLost, Locking, EnsureIdle, Busy, TypeOK, Client, IdleClient, Exists
  <2> QED BY <1>8, <2>1, <2>2, RequestStep DEF DispatchLost
<1> QED BY <1>1, <1>2, <1>3, <1>4, <1>5, <1>6, <1>7, <1>8 DEF Requests

(* A transaction of an activity finds a committed row, and only finish     *)
(* takes it out of PENDING and RUNNING.                                    *)
LEMMA RowStep ==
  ASSUME Inv, NEW o \in Ops, Exists(o), NEW r \in Row,
         r.status # "NONE", r.done \/ r.status \in {"PENDING", "RUNNING"},
         r.done => r.status # "PENDING", row[o].done => r.done,
         row' = [row EXCEPT ![o] = r], projectLock = NoClient, TemporalFacts',
         UNCHANGED <<input, basedOn, projectLock, client, made, faults>>
  PROVE  Inv'
<1> USE DEF Inv
<1>1. \A p \in Ops : row'[p] = IF p = o THEN r ELSE row[p]
  BY DEF TypeOK
<1>2. \A p \in Ops : (Exists(p) => Exists(p)') /\ (Unfinished(p)' => Unfinished(p))
  BY <1>1 DEF Unfinished, Exists
<1>3. \A p \in Ops : ~Exists(p) => ~Exists(p)'
  BY <1>1 DEF Exists
<1>4. TypeOK'
  BY DEF TypeOK, TemporalFacts, WfType
<1>5. Locking'
  BY <1>2, <1>3 DEF Locking, TypeOK, Client
<1>6. Rows'
  BY <1>1, <1>2, <1>3 DEF Rows, TemporalFacts, Unfinished, Exists, Busy
<1>7. AtMostOneUnfinished' /\ InputsFrozen'
  BY <1>2 DEF AtMostOneUnfinished, InputsFrozen
<1> QED BY <1>4, <1>5, <1>6, <1>7

LEMMA CommitsInv ==
  ASSUME Inv, NEW a \in live, Commits(a)
  PROVE  Inv'
<1>1. a.op \in Ops /\ a.step \in Steps /\ Exists(a.op) /\ row[a.op] \in Row
  BY DEF Inv, TypeOK, Attempt, Rows
<1>2. TemporalFacts
  BY TypeFacts
<1>3. CASE SetOperationStage(a)
  <2> DEFINE r == [status |-> "RUNNING", stage |-> AgentOf(a.step), done |-> row[a.op].done]
  <2>1. AgentOf(a.step) \in 1..Agents
    BY <1>1, <1>3, StepArithmetic DEF SetOperationStage, IsStage
  <2>2. r \in Row
    BY <1>1, <2>1 DEF Row, FailedStage
  <2>3. CASE row' = row
    BY <1>2, <1>3, <2>3, AnswersFacts, TemporalStep
       DEF SetOperationStage, Exists, Inv, TypeOK
  <2>4. CASE row' = [row EXCEPT ![a.op] = r]
    <3>1. \A o \in Ops : Exists(o) => Exists(o)'
      BY <1>1, <2>4 DEF Exists, Inv, TypeOK
    <3>2. TemporalFacts'
      BY <1>2, <1>3, <3>1, AnswersFacts DEF SetOperationStage
    <3> QED BY <1>1, <1>3, <2>2, <2>4, <3>2, RowStep DEF SetOperationStage
  <2> QED BY <1>3, <2>3, <2>4 DEF SetOperationStage
<1>4. CASE GenerateResearchArtifact(a)
  <2> DEFINE i == AgentOf(a.step)
  <2>1. i \in 1..Agents
    BY <1>1, <1>4, StepArithmetic DEF GenerateResearchArtifact, IsGenerate
  <2>2. TemporalFacts'
    BY <1>2, <1>4, AnswersFacts DEF GenerateResearchArtifact, Exists
  <2>3. made' \in [Ops -> [1..Agents -> Nat]]
    <3> DEFINE m == [made[a.op] EXCEPT ![i] = made[a.op][i] + 1]
    <3>1. made \in [Ops -> [1..Agents -> Nat]]
      BY DEF Inv, TypeOK
    <3>2. m \in [1..Agents -> Nat]
      BY <1>1, <2>1, <3>1
    <3>3. made' = made \/ made' = [made EXCEPT ![a.op] = m]
      BY <1>4, <3>1 DEF GenerateResearchArtifact
    <3> QED BY <1>1, <3>1, <3>2, <3>3
  <2>4. UNCHANGED <<row, input, basedOn, projectLock, client, faults>>
    BY <1>4 DEF GenerateResearchArtifact
  <2>5. TypeOK'
    BY <2>2, <2>3, <2>4 DEF Inv, TypeOK, TemporalFacts, WfType
  <2>6. Locking'
    BY <2>4 DEF Inv, Locking, EnsureIdle, Busy, Exists
  <2>7. Rows' /\ AtMostOneUnfinished' /\ InputsFrozen'
    BY <2>2, <2>4 DEF Inv, Rows, TemporalFacts, AtMostOneUnfinished, InputsFrozen,
                      Unfinished, Exists, Busy
  <2> QED BY <2>5, <2>6, <2>7 DEF Inv
<1>5. CASE FinishOperation(a)
  <2> DEFINE completed == a.step = FinishCompleted
             r == [status |-> IF completed THEN "COMPLETED" ELSE "FAILED",
                   stage |-> IF completed THEN CompletedStage ELSE FailedStage,
                   done |-> TRUE]
  <2>1. r \in Row
    BY DEF Row, CompletedStage, FailedStage
  <2>2. CASE row' = row
    BY <1>2, <1>5, <2>2, AnswersFacts, TemporalStep DEF FinishOperation, Exists, Inv, TypeOK
  <2>3. CASE row' = [row EXCEPT ![a.op] = r]
    <3>1. TemporalFacts'
      BY <1>1, <1>2, <1>5, <2>3, AnswersFacts DEF FinishOperation, Exists, Inv, TypeOK
    <3>2. /\ projectLock = NoClient
          /\ UNCHANGED <<input, basedOn, projectLock, client, made, faults>>
      BY <1>5 DEF FinishOperation
    <3>3. r.status # "NONE" /\ r.status # "PENDING" /\ r.done
      OBVIOUS
    <3> HIDE DEF r
    <3> QED BY <1>1, <2>1, <2>3, <3>1, <3>2, <3>3, RowStep
  <2> QED BY <1>5, <2>2, <2>3 DEF FinishOperation
<1> QED BY <1>3, <1>4, <1>5 DEF Commits

LEMMA ServerInv ==
  ASSUME Inv,
         \/ \E a \in live : AttemptFails(a)
         \/ \E o \in Ops : AnswerArrives(o) \/ TimesOut(o)
  PROVE  Inv'
<1>1. TemporalFacts
  BY TypeFacts
<1>2. ASSUME NEW a \in live, AttemptFails(a) PROVE Inv'
  <2>1. a.op \in Ops
    BY DEF Inv, TypeOK, Attempt
  <2>2. faults' \in 0..MaxFaults
    BY <1>2 DEF AttemptFails, Inv, TypeOK
  <2>3. CASE IsWaitedFor(a)
    <3>1. TemporalFacts'
      BY <1>1, <1>2, <2>1, <2>3, GiveUpFacts DEF AttemptFails, IsWaitedFor
    <3> QED BY <1>2, <2>2, <3>1, TemporalStep DEF AttemptFails
  <2>4. CASE ~IsWaitedFor(a)
    <3>1. TemporalFacts'
      BY <1>1, <1>2, <2>4 DEF AttemptFails, TemporalFacts, Exists
    <3> QED BY <1>2, <2>2, <3>1, TemporalStep DEF AttemptFails
  <2> QED BY <2>3, <2>4
<1>3. ASSUME NEW o \in Ops, AnswerArrives(o) PROVE Inv'
  <2>1. wf[o].state = "running" /\ Exists(o) /\ wf[o].run \in 1..MaxRuns
    BY <1>1, <1>3 DEF AnswerArrives, TemporalFacts
  <2>2. wf[o].step \in Steps
    BY <1>1 DEF TemporalFacts, WfType
  <2>6. wf[o].reply \in {"none", "ok", "refused"}
    BY <1>1 DEF TemporalFacts, WfType
  <2>7. \/ ActivityError(o, live)
        \/ Close(o, live)
        \/ wf[o].step < FinishCompleted /\ Schedule(o, wf[o].run, wf[o].step + 1, 1, live)
    BY <1>3, <2>2, <2>6, StepArithmetic DEF AnswerArrives, Steps
  <2>8. TemporalFacts'
    BY <1>1, <1>3, <2>1, <2>2, <2>7, GiveUpFacts, CloseFacts, ScheduleFacts, StepArithmetic
       DEF AnswerArrives
  <2> QED BY <1>3, <2>8, TemporalStep DEF AnswerArrives, Inv, TypeOK
<1>4. ASSUME NEW o \in Ops, TimesOut(o) PROVE Inv'
  <2>1. faults' \in 0..MaxFaults
    BY <1>4 DEF TimesOut, Inv, TypeOK
  <2>2. TemporalFacts'
    BY <1>1, <1>4, GiveUpFacts DEF TimesOut
  <2> QED BY <1>4, <2>1, <2>2, TemporalStep DEF TimesOut
<1> QED BY <1>2, <1>3, <1>4

LEMMA NextInv == Inv /\ [Next]_vars => Inv'
<1> SUFFICES ASSUME Inv, [Next]_vars PROVE Inv'
  OBVIOUS
<1>1. CASE UNCHANGED vars
  BY <1>1 DEF vars, Inv, TypeOK, Locking, EnsureIdle, Rows, AtMostOneUnfinished,
              InputsFrozen, Unfinished, Exists, Busy
<1>2. ASSUME NEW c \in Clients, Requests(c) PROVE Inv'
  BY <1>2, RequestsInv
<1>3. ASSUME NEW a \in live, Commits(a) PROVE Inv'
  BY <1>3, CommitsInv
<1>4. CASE \/ \E a \in live : AttemptFails(a)
           \/ \E o \in Ops : AnswerArrives(o) \/ TimesOut(o)
  BY <1>4, ServerInv
<1> QED BY <1>1, <1>2, <1>3, <1>4 DEF Next

\* The inductive invariant holds in every reachable state: requests, rows and
\* Temporal's executions agree on which operations exist and are unfinished.
THEOREM Invariance == Spec => []Inv
<1>1. Init => Inv
  BY InitInv
<1>2. Inv /\ [Next]_vars => Inv'
  BY NextInv
<1> QED BY <1>1, <1>2, PTL DEF Spec

\* Every variable keeps its type (the rows, the requests, Temporal's state).
THEOREM TypeCorrect == Spec => []TypeOK
<1>1. Inv => TypeOK
  BY DEF Inv
<1> QED BY <1>1, Invariance, PTL

\* Start requests serialised by the project row and ensure_idle leave at most
\* one unfinished operation, in every environment.
THEOREM SingleFlight == Spec => []AtMostOneUnfinished
<1>1. Inv => AtMostOneUnfinished
  BY DEF Inv
<1> QED BY <1>1, Invariance, PTL

\* No edit of the idea, plan or protocol commits under an unfinished operation.
THEOREM FrozenInputs == Spec => []InputsFrozen
<1>1. Inv => InputsFrozen
  BY DEF Inv
<1> QED BY <1>1, Invariance, PTL

-----------------------------------------------------------------------------
(* Without late attempts and stale dispatches, a worker only ever has the  *)
(* attempt the server waits for, and after finish_operation committed the  *)
(* workflow never comes back to a stage.                                   *)

Calm == ~LateAttempts /\ ~StaleDispatch

OnlyWaitedFor == \A a \in live : IsWaitedFor(a) /\ wf[a.op].reply = "none"

PastFinish(o) == \/ wf[o].state = "closed"
                 \/ wf[o].state = "running" /\ wf[o].step >= FinishCompleted
DonePastFinish == \A o \in Ops : row[o].done => PastFinish(o)

CalmInv == OnlyWaitedFor /\ DonePastFinish

\* One step of Temporal on operation o, whose attempt has left the worker.
LEMMA CalmSchedule ==
  ASSUME TemporalFacts, CalmInv, UNCHANGED row,
         NEW o \in Ops, NEW run \in 1..MaxRuns, NEW step \in Steps, NEW n \in 1..RetryLimit,
         NEW kept \in SUBSET live, \A a \in kept : a.op # o,
         row[o].done => step >= FinishCompleted,
         Schedule(o, run, step, n, kept)
  PROVE  CalmInv'
<1> DEFINE b == [op |-> o, run |-> run, step |-> step, n |-> n]
<1>1. wf'[o] = [state |-> "running", run |-> run, step |-> step, n |-> n, reply |-> "none"]
  BY DEF Schedule, TemporalFacts
<1>2. \A p \in Ops : p # o => wf'[p] = wf[p]
  BY DEF Schedule, TemporalFacts
<1>3. live' = kept \cup {b}
  BY DEF Schedule
<1>4. IsWaitedFor(b)' /\ wf'[b.op].reply = "none"
  BY <1>1 DEF IsWaitedFor, Waiting
<1>5. \A a \in kept : IsWaitedFor(a)' /\ wf'[a.op].reply = "none"
  <2> SUFFICES ASSUME NEW a \in kept PROVE IsWaitedFor(a)' /\ wf'[a.op].reply = "none"
    OBVIOUS
  <2>1. a.op \in Ops /\ a.op # o /\ IsWaitedFor(a) /\ wf[a.op].reply = "none"
    BY DEF CalmInv, OnlyWaitedFor, TemporalFacts, Attempt
  <2> QED BY <1>2, <2>1 DEF IsWaitedFor, Waiting
<1>6. OnlyWaitedFor'
  BY <1>3, <1>4, <1>5 DEF OnlyWaitedFor
<1>7. DonePastFinish'
  BY <1>1, <1>2 DEF CalmInv, DonePastFinish, PastFinish
<1> QED BY <1>6, <1>7 DEF CalmInv

LEMMA CalmClose ==
  ASSUME TemporalFacts, CalmInv, UNCHANGED row, NEW o \in Ops,
         NEW kept \in SUBSET live, \A a \in kept : a.op # o, Close(o, kept)
  PROVE  CalmInv'
<1>1. wf'[o].state = "closed" /\ \A p \in Ops : p # o => wf'[p] = wf[p]
  BY DEF Close, TemporalFacts, WfType
<1>2. \A a \in live' : a \in kept /\ a.op \in Ops /\ a.op # o
  BY DEF Close, TemporalFacts, Attempt
<1>3. OnlyWaitedFor'
  <2> SUFFICES ASSUME NEW a \in live' PROVE IsWaitedFor(a)' /\ wf'[a.op].reply = "none"
    BY DEF OnlyWaitedFor
  <2>1. IsWaitedFor(a) /\ wf[a.op].reply = "none" /\ a.op \in Ops /\ a.op # o
    BY <1>2 DEF CalmInv, OnlyWaitedFor
  <2> QED BY <1>1, <2>1 DEF IsWaitedFor, Waiting
<1>4. DonePastFinish'
  BY <1>1 DEF CalmInv, DonePastFinish, PastFinish
<1> QED BY <1>3, <1>4 DEF CalmInv

LEMMA CalmGiveUp ==
  ASSUME TemporalFacts, CalmInv, UNCHANGED row, NEW o \in Ops, wf[o].state = "running",
         NEW kept \in SUBSET live, \A a \in kept : a.op # o,
         ActivityError(o, kept) \/ RetryOrGiveUp(o, kept)
  PROVE  CalmInv'
<1>1. wf[o].run \in 1..MaxRuns /\ wf[o].step \in Steps /\ wf[o].n \in 1..RetryLimit
  BY DEF TemporalFacts, WfType
<1>2. row[o].done => wf[o].step >= FinishCompleted
  BY DEF CalmInv, DonePastFinish, PastFinish
<1>3. FinishFailed >= FinishCompleted /\ FinishFailed \in Steps /\ 1 \in 1..RetryLimit
  BY StepArithmetic DEF FinishFailed, FinishCompleted
<1>4. ASSUME ActivityError(o, kept) PROVE CalmInv'
  <2>1. CASE wf[o].step < FinishFailed
    BY <1>1, <1>3, <1>4, <2>1, CalmSchedule DEF ActivityError
  <2>2. CASE ~(wf[o].step < FinishFailed)
    BY <1>4, <2>2, CalmClose DEF ActivityError
  <2> QED BY <2>1, <2>2
<1>5. CASE RetryOrGiveUp(o, kept) /\ wf[o].n < RetryLimit
  <2>1. wf[o].n + 1 \in 1..RetryLimit
    BY <1>1, <1>5
  <2> QED BY <1>1, <1>2, <1>5, <2>1, CalmSchedule DEF RetryOrGiveUp
<1>6. CASE RetryOrGiveUp(o, kept) /\ ~(wf[o].n < RetryLimit)
  BY <1>4, <1>6 DEF RetryOrGiveUp
<1> QED BY <1>4, <1>5, <1>6

LEMMA CalmSame == CalmInv /\ UNCHANGED <<row, wf, live>> => CalmInv'
BY DEF CalmInv, OnlyWaitedFor, DonePastFinish, PastFinish, IsWaitedFor, Waiting

\* Only the waited-for attempt of each operation is with a worker.
LEMMA OneAttempt ==
  ASSUME CalmInv, NEW a \in live
  PROVE  /\ \A b \in live : b.op = a.op => b = a
         /\ a = Waiting(a.op) /\ wf[a.op].state = "running"
BY DEF CalmInv, OnlyWaitedFor, IsWaitedFor

LEMMA CalmCommits ==
  ASSUME Inv, CalmInv, NEW a \in live, Commits(a)
  PROVE  CalmInv' /\ \A o \in Ops : row[o].done => row'[o] = row[o]
<1>1. TemporalFacts /\ a.op \in Ops /\ a.step = wf[a.op].step /\ wf[a.op].state = "running"
  BY TypeFacts, OneAttempt DEF TemporalFacts, Attempt, Waiting
<1>2. PICK reply \in {"ok", "refused"} : Answers(a, reply)
  BY DEF Commits, SetOperationStage, GenerateResearchArtifact, FinishOperation
<1>3. \A p \in Ops : /\ wf'[p].state = wf[p].state /\ wf'[p].step = wf[p].step
                     /\ wf'[p].run = wf[p].run /\ wf'[p].n = wf[p].n
                     /\ p # a.op => wf'[p].reply = wf[p].reply
  BY <1>1, <1>2 DEF Answers, TemporalFacts, WfType
<1>4. OnlyWaitedFor'
  <2> SUFFICES ASSUME NEW b \in live' PROVE IsWaitedFor(b)' /\ wf'[b.op].reply = "none"
    BY DEF OnlyWaitedFor
  <2>1. b \in live /\ b # a /\ b.op \in Ops
    BY <1>1, <1>2 DEF Answers, TemporalFacts, Attempt
  <2>2. b.op # a.op
    BY <2>1, OneAttempt
  <2> QED BY <1>3, <2>1, <2>2 DEF CalmInv, OnlyWaitedFor, IsWaitedFor, Waiting
<1>5. CASE SetOperationStage(a)
  <2>1. ~row[a.op].done
    BY <1>1, <1>5, StepArithmetic
       DEF SetOperationStage, IsStage, CalmInv, DonePastFinish, PastFinish, Steps,
           TemporalFacts, WfType
  <2>2. \A o \in Ops : row[o].done => row'[o] = row[o]
    BY <1>1, <1>5, <2>1 DEF SetOperationStage, Inv, TypeOK
  <2>3. \A o \in Ops : row'[o].done => row[o].done
    BY <1>1, <1>5 DEF SetOperationStage, Inv, TypeOK, Row
  <2> QED BY <1>3, <1>4, <2>2, <2>3 DEF CalmInv, DonePastFinish, PastFinish
<1>6. CASE GenerateResearchArtifact(a)
  <2>1. UNCHANGED row
    BY <1>6 DEF GenerateResearchArtifact
  <2> QED BY <1>3, <1>4, <2>1 DEF CalmInv, DonePastFinish, PastFinish
<1>7. CASE FinishOperation(a)
  <2>1. \A o \in Ops : row[o].done => row'[o] = row[o]
    BY <1>1, <1>7 DEF FinishOperation, Inv, TypeOK
  <2>2. \A o \in Ops : row'[o].done => row[o].done \/ o = a.op
    BY <1>1, <1>7 DEF FinishOperation, Inv, TypeOK
  <2>3. a.step >= FinishCompleted
    BY <1>7, StepArithmetic DEF FinishOperation, FinishCompleted, FinishFailed
  <2> QED BY <1>1, <1>3, <1>4, <2>1, <2>2, <2>3 DEF CalmInv, DonePastFinish, PastFinish
<1> QED BY <1>5, <1>6, <1>7 DEF Commits

LEMMA CalmStep ==
  ASSUME Calm, Inv, CalmInv, [Next]_vars
  PROVE  CalmInv' /\ \A o \in Ops : row[o].done => row'[o] = row[o]
<1>0. TemporalFacts
  BY TypeFacts
<1>1. CASE UNCHANGED vars
  BY <1>1, CalmSame DEF vars
<1>2. ASSUME NEW c \in Clients, Requests(c)
      PROVE  CalmInv' /\ \A o \in Ops : row[o].done => row'[o] = row[o]
  <2>1. CASE StartCommits(c)
    <3>1. PICK o \in Ops : o = client[c].op /\ ~Exists(o)
      BY <2>1 DEF StartCommits, Inv, Locking
    <3>2. ~row[o].done
      BY <3>1 DEF Inv, Rows, NewRow
    <3>3. \A p \in Ops : (row'[p].done <=> row[p].done) /\ (p # o => row'[p] = row[p])
      <4>1. row' = [row EXCEPT ![o] = [status |-> "PENDING", stage |-> 0, done |-> FALSE]]
        BY <2>1, <3>1 DEF StartCommits
      <4>2. \A p \in Ops : p # o => row'[p] = row[p]
        BY <4>1 DEF Inv, TypeOK
      <4>3. ~row'[o].done
        BY <4>1 DEF Inv, TypeOK
      <4> QED BY <3>2, <4>2, <4>3
    <3>4. UNCHANGED <<wf, live>>
      BY <2>1 DEF StartCommits
    <3> QED BY <3>2, <3>3, <3>4 DEF CalmInv, OnlyWaitedFor, DonePastFinish, PastFinish,
                                    IsWaitedFor, Waiting
  <2>2. CASE DispatchArrives(c) /\ ~UNCHANGED <<wf, live>>
    <3>1. PICK o \in Ops : o = client[c].op
      BY <2>2 DEF DispatchArrives, Inv, Locking
    <3>2. wf[o].state = "none" /\ wf[o].run < MaxRuns /\ UNCHANGED row
          /\ Schedule(o, wf[o].run + 1, 1, 1, live)
      BY <2>2, <3>1 DEF DispatchArrives, Calm
    <3>3. wf[o].run + 1 \in 1..MaxRuns
      BY <1>0, <3>2 DEF TemporalFacts, WfType
    <3>4. ~row[o].done /\ \A a \in live : a.op # o
      BY <3>2, OneAttempt DEF CalmInv, DonePastFinish, PastFinish
    <3> QED BY <1>0, <3>2, <3>3, <3>4, CalmSchedule, StepArithmetic
  <2>3. CASE ~StartCommits(c) /\ (DispatchArrives(c) => UNCHANGED <<wf, live>>)
    <3>1. UNCHANGED <<row, wf, live>>
      BY <1>2, <2>3 DEF Requests, StartChecks, Polls, EditChecks, EditCommits, Aborts,
                        DispatchArrives, DispatchLost
    <3> QED BY <3>1, CalmSame
  <2> QED BY <2>1, <2>2, <2>3
<1>3. ASSUME NEW a \in live, Commits(a)
      PROVE  CalmInv' /\ \A o \in Ops : row[o].done => row'[o] = row[o]
  BY <1>3, CalmCommits
<1>4. ASSUME NEW a \in live, AttemptFails(a)
      PROVE  CalmInv' /\ \A o \in Ops : row[o].done => row'[o] = row[o]
  <2>1. IsWaitedFor(a) /\ a.op \in Ops /\ wf[a.op].state = "running"
    BY <1>0 DEF CalmInv, OnlyWaitedFor, IsWaitedFor, TemporalFacts, Attempt
  <2>2. \A b \in live \ {a} : b.op # a.op
    BY OneAttempt
  <2>3. UNCHANGED row /\ RetryOrGiveUp(a.op, live \ {a})
    BY <1>4, <2>1 DEF AttemptFails
  <2> QED BY <1>0, <2>1, <2>2, <2>3, CalmGiveUp
<1>5. ASSUME NEW o \in Ops, TimesOut(o)
      PROVE  CalmInv' /\ \A p \in Ops : row[p].done => row'[p] = row[p]
  <2>1. wf[o].state = "running" /\ UNCHANGED row /\ RetryOrGiveUp(o, live \ {Waiting(o)})
    BY <1>5 DEF TimesOut, Calm
  <2>2. \A b \in live \ {Waiting(o)} : b.op # o
    BY OneAttempt
  <2> QED BY <1>0, <2>1, <2>2, CalmGiveUp
<1>6. ASSUME NEW o \in Ops, AnswerArrives(o)
      PROVE  CalmInv' /\ \A p \in Ops : row[p].done => row'[p] = row[p]
  <2>1. wf[o].state = "running" /\ UNCHANGED row /\ wf[o].reply # "none"
    BY <1>6 DEF AnswerArrives
  <2>2. \A b \in live : b.op # o
    BY <2>1 DEF CalmInv, OnlyWaitedFor
  <2>3. wf[o].step \in Steps /\ wf[o].run \in 1..MaxRuns /\ 1 \in 1..RetryLimit
    BY <1>0, <2>1 DEF TemporalFacts, WfType
  <2>4. wf[o].reply \in {"ok", "refused"}
    BY <1>0, <2>1 DEF TemporalFacts, WfType
  <2>5. \/ ActivityError(o, live)
        \/ Close(o, live)
        \/ wf[o].step < FinishCompleted /\ Schedule(o, wf[o].run, wf[o].step + 1, 1, live)
    BY <1>6, <2>3, <2>4, StepArithmetic DEF AnswerArrives, Steps
  <2>6. CASE ActivityError(o, live)
    BY <1>0, <2>1, <2>2, <2>6, CalmGiveUp
  <2>7. CASE Close(o, live)
    BY <1>0, <2>1, <2>2, <2>7, CalmClose
  <2>8. CASE wf[o].step < FinishCompleted /\ Schedule(o, wf[o].run, wf[o].step + 1, 1, live)
    <3>1. ~row[o].done
      BY <2>1, <2>3, <2>8, StepArithmetic DEF CalmInv, DonePastFinish, PastFinish, Steps
    <3>2. wf[o].step + 1 \in Steps
      BY <2>3, <2>8, StepArithmetic
    <3> QED BY <1>0, <2>1, <2>2, <2>3, <2>8, <3>1, <3>2, CalmSchedule
  <2> QED BY <2>1, <2>5, <2>6, <2>7, <2>8
<1> QED BY <1>1, <1>2, <1>3, <1>4, <1>5, <1>6 DEF Next

-----------------------------------------------------------------------------
(* Operations implements OperationContract.                                *)

\* What a row that Rows allows is for those who read its status.
LEMMA PhaseValues ==
  ASSUME NEW r \in Row,
         ~r.done => r.status \in {"NONE", "PENDING", "RUNNING"},
         r.done => r.status \notin {"NONE", "PENDING"}
  PROVE  /\ r.status = "NONE" => PhaseOf(r) = "absent"
         /\ r.status = "PENDING" => PhaseOf(r) = "queued"
         /\ ~r.done /\ r.status = "RUNNING" => PhaseOf(r) = "working"
         /\ r.done /\ r.status = "RUNNING" => PhaseOf(r) = "reopened"
         /\ r.done /\ r.status # "RUNNING" => PhaseOf(r) = "finished"
BY DEF PhaseOf, Row

LEMMA RowFacts ==
  ASSUME Inv, NEW o \in Ops
  PROVE  /\ row[o] \in Row /\ Phase[o] = PhaseOf(row[o])
         /\ ~row[o].done => row[o].status \in {"NONE", "PENDING", "RUNNING"}
         /\ row[o].done => row[o].status \notin {"NONE", "PENDING"}
BY DEF Inv, TypeOK, Rows, Phase, NewRow, Exists, Unfinished, Busy

LEMMA PhaseUnchanged ==
  ASSUME UNCHANGED row PROVE UNCHANGED Phase
BY DEF Phase

LEMMA PhaseSubmit ==
  ASSUME Inv, NEW c \in Clients, StartCommits(c)
  PROVE  \E o \in Ops : Contract!Submit(o)
<1>1. PICK o \in Ops : o = client[c].op
  BY DEF Inv, Locking, StartCommits
<1> DEFINE r == [status |-> "PENDING", stage |-> 0, done |-> FALSE]
<1>2. ~Exists(o) /\ EnsureIdle /\ row' = [row EXCEPT ![o] = r]
  BY <1>1 DEF Inv, Locking, StartCommits
<1>3. Phase[o] = "absent"
  BY <1>2, RowFacts, PhaseValues DEF Exists
<1>4. \A p \in Ops : Phase[p] \in {"absent", "finished"}
  <2> TAKE p \in Ops
  <2>1. row[p].status \notin {"PENDING", "RUNNING"}
    BY <1>2 DEF EnsureIdle, Busy
  <2> QED BY <2>1, RowFacts, PhaseValues
<1>5. PhaseOf(r) = "queued"
  BY DEF PhaseOf
<1>6. Phase' = [Phase EXCEPT ![o] = "queued"]
  BY <1>2, <1>5 DEF Inv, TypeOK, Phase
<1> QED BY <1>3, <1>4, <1>6 DEF Contract!Submit

\* A transaction of an activity begins, ends or reopens the operation, or
\* changes nothing a reader of the status sees.
LEMMA PhaseRow ==
  ASSUME Inv, NEW o \in Ops, Exists(o), NEW r \in Row,
         r.done \/ r.status = "RUNNING", r.status \notin {"NONE", "PENDING"},
         row[o].done => r.done,
         row[o].done /\ r # row[o] => r.status = "RUNNING",
         row[o].done /\ r # row[o] => LateAttempts \/ StaleDispatch,
         ~row[o].done /\ r.done => r.status # "RUNNING",
         row' = [row EXCEPT ![o] = r]
  PROVE  Contract!Next \/ UNCHANGED Phase
<1>1. Phase' = [Phase EXCEPT ![o] = PhaseOf(r)]
  BY DEF Phase, Inv, TypeOK
<1>2. row[o].status # "NONE"
  BY DEF Exists
<1>3. CASE r = row[o]
  BY <1>1, <1>3, RowFacts DEF Phase
<1>4. CASE row[o].done /\ r # row[o]
  <2>1. PhaseOf(r) = "reopened"
    BY <1>4, PhaseValues
  <2>2. CASE row[o].status = "RUNNING"
    <3>1. Phase[o] = "reopened"
      BY <1>4, <2>2, RowFacts, PhaseValues
    <3> QED BY <1>1, <2>1, <3>1 DEF Phase
  <2>3. CASE row[o].status # "RUNNING"
    <3>1. Phase[o] = "finished"
      BY <1>4, <2>3, RowFacts, PhaseValues
    <3>2. Contract!Reopen(o)
      BY <1>1, <1>4, <2>1, <3>1 DEF Contract!Reopen
    <3> QED BY <3>2 DEF Contract!Next
  <2> QED BY <2>2, <2>3
<1>5. CASE ~row[o].done
  <2>1. Phase[o] \in {"queued", "working"}
    BY <1>2, <1>5, RowFacts, PhaseValues
  <2>2. CASE r.done
    <3>1. PhaseOf(r) = "finished"
      BY <1>5, <2>2, PhaseValues
    <3>2. Contract!Finish(o)
      BY <1>1, <2>1, <3>1 DEF Contract!Finish, Contract!Unfinished
    <3> QED BY <3>2 DEF Contract!Next
  <2>3. CASE ~r.done
    <3>1. PhaseOf(r) = "working"
      BY <2>3, PhaseValues
    <3>2. CASE Phase[o] = "queued"
      <4>1. Contract!Begin(o)
        BY <1>1, <3>1, <3>2 DEF Contract!Begin
      <4> QED BY <4>1 DEF Contract!Next
    <3>3. CASE Phase[o] = "working"
      BY <1>1, <3>1, <3>3 DEF Phase
    <3> QED BY <2>1, <3>2, <3>3
  <2> QED BY <2>2, <2>3
<1> QED BY <1>3, <1>4, <1>5

LEMMA PhaseCommits ==
  ASSUME Inv, NEW a \in live, Commits(a),
         ~LateAttempts /\ ~StaleDispatch => \A o \in Ops : row[o].done => row'[o] = row[o]
  PROVE  Contract!Next \/ UNCHANGED Phase
<1>1. a.op \in Ops /\ a.step \in Steps /\ Exists(a.op) /\ row[a.op] \in Row
  BY DEF Inv, TypeOK, Attempt, Rows
<1>2. CASE SetOperationStage(a)
  <2> DEFINE r == [status |-> "RUNNING", stage |-> AgentOf(a.step), done |-> row[a.op].done]
  <2>1. r \in Row
    BY <1>1, <1>2, StepArithmetic DEF SetOperationStage, IsStage, Row, FailedStage
  <2>2. CASE row' = [row EXCEPT ![a.op] = r]
    <3>1. row'[a.op] = r
      BY <1>1, <2>2 DEF Inv, TypeOK
    <3>2. row[a.op].done /\ r # row[a.op] => LateAttempts \/ StaleDispatch
      BY <1>1, <3>1
    <3> QED BY <1>1, <2>1, <2>2, <3>2, PhaseRow
  <2>3. CASE row' = row
    BY <2>3, PhaseUnchanged
  <2> QED BY <1>2, <2>2, <2>3 DEF SetOperationStage
<1>3. CASE GenerateResearchArtifact(a)
  BY <1>3, PhaseUnchanged DEF GenerateResearchArtifact
<1>4. CASE FinishOperation(a)
  <2> DEFINE completed == a.step = FinishCompleted
             r == [status |-> IF completed THEN "COMPLETED" ELSE "FAILED",
                   stage |-> IF completed THEN CompletedStage ELSE FailedStage,
                   done |-> TRUE]
  <2>1. r \in Row /\ r.done /\ r.status \notin {"NONE", "PENDING", "RUNNING"}
    BY DEF Row, CompletedStage, FailedStage
  <2>2. CASE ~row[a.op].done
    <3>1. row' = [row EXCEPT ![a.op] = r]
      BY <1>4, <2>2 DEF FinishOperation
    <3> HIDE DEF r
    <3> QED BY <1>1, <2>1, <2>2, <3>1, PhaseRow
  <2>3. CASE row[a.op].done
    BY <1>4, <2>3, PhaseUnchanged DEF FinishOperation
  <2> QED BY <2>2, <2>3
<1> QED BY <1>2, <1>3, <1>4 DEF Commits

LEMMA PhaseStep ==
  ASSUME Inv, [Next]_vars,
         ~LateAttempts /\ ~StaleDispatch => \A o \in Ops : row[o].done => row'[o] = row[o]
  PROVE  Contract!Next \/ UNCHANGED Phase
<1>1. CASE UNCHANGED vars
  BY <1>1, PhaseUnchanged DEF vars
<1>2. ASSUME NEW c \in Clients, Requests(c) PROVE Contract!Next \/ UNCHANGED Phase
  <2>1. CASE StartCommits(c)
    BY <2>1, PhaseSubmit DEF Contract!Next
  <2>2. CASE ~StartCommits(c)
    <3>1. UNCHANGED row
      BY <1>2, <2>2 DEF Requests, StartChecks, Polls, EditChecks, EditCommits, Aborts,
                        DispatchArrives, DispatchLost
    <3> QED BY <3>1, PhaseUnchanged
  <2> QED BY <2>1, <2>2
<1>3. ASSUME NEW a \in live, Commits(a) PROVE Contract!Next \/ UNCHANGED Phase
  BY <1>3, PhaseCommits
<1>4. ASSUME NEW a \in live, AttemptFails(a) PROVE Contract!Next \/ UNCHANGED Phase
  BY <1>4, PhaseUnchanged DEF AttemptFails
<1>5. ASSUME NEW o \in Ops, AnswerArrives(o) \/ TimesOut(o)
      PROVE  Contract!Next \/ UNCHANGED Phase
  BY <1>5, PhaseUnchanged DEF AnswerArrives, TimesOut
<1> QED BY <1>1, <1>2, <1>3, <1>4, <1>5 DEF Next

\* Rows, requests, dispatches and at-least-once activities implement the
\* contract for those who read a row's status: one operation is accepted at a
\* time, it ends once, and it is shown as running again only where a late
\* attempt or a second execution may commit.
THEOREM Refinement == Spec => ImplementsContract
<1>1. Init => Contract!Init /\ CalmInv
  BY DEF Init, NewRow, Contract!Init, Phase, PhaseOf, CalmInv, OnlyWaitedFor, DonePastFinish
<1>2. Inv /\ (Calm => CalmInv) /\ [Next]_vars => (Calm => CalmInv)' /\ [Contract!Next]_Phase
  <2> SUFFICES ASSUME Inv, Calm => CalmInv, [Next]_vars
               PROVE  (Calm => CalmInv') /\ (Contract!Next \/ UNCHANGED Phase)
    BY DEF Calm
  <2>1. Calm => CalmInv' /\ \A o \in Ops : row[o].done => row'[o] = row[o]
    BY CalmStep
  <2> QED BY <2>1, PhaseStep DEF Calm
<1> QED BY <1>1, <1>2, Invariance, PTL DEF Spec, ImplementsContract, Contract!Spec

-----------------------------------------------------------------------------
(* In every environment: what a worker still has was scheduled at or before *)
(* the place the execution has reached, and finish_operation committed only *)
(* if this execution is past the stages, or is not the first.               *)

AttemptsAreOfThePast ==
  \A a \in live : /\ a.run <= wf[a.op].run
                  /\ a.run = wf[a.op].run => a.step <= wf[a.op].step
Ended(o) == wf[o].run > 0 /\ (wf[o].run > 1 \/ wf[o].step >= FinishCompleted)
DoneIsReached == \A o \in Ops : row[o].done => Ended(o)

PastInv == AttemptsAreOfThePast /\ DoneIsReached

\* A step of Temporal that moves execution o forward.
LEMMA PastForward ==
  ASSUME TemporalFacts, PastInv, UNCHANGED row, NEW o \in Ops,
         NEW run \in 1..MaxRuns, NEW step \in Steps, NEW n \in 1..RetryLimit,
         NEW kept \in SUBSET live, Schedule(o, run, step, n, kept),
         run > wf[o].run \/ (run = wf[o].run /\ step >= wf[o].step)
  PROVE  PastInv'
<1> DEFINE b == [op |-> o, run |-> run, step |-> step, n |-> n]
<1>1. wf'[o].run = run /\ wf'[o].step = step /\ \A p \in Ops : p # o => wf'[p] = wf[p]
  BY DEF Schedule, TemporalFacts
<1>2. wf[o].run \in 0..MaxRuns /\ wf[o].step \in Steps
  BY DEF TemporalFacts, WfType
<1>3. live' = kept \cup {b}
  BY DEF Schedule
<1>4. AttemptsAreOfThePast'
  <2> SUFFICES ASSUME NEW a \in live'
               PROVE  a.run <= wf'[a.op].run /\ (a.run = wf'[a.op].run => a.step <= wf'[a.op].step)
    BY DEF AttemptsAreOfThePast
  <2>1. CASE a = b
    BY <1>1, <2>1 DEF Steps
  <2>2. CASE a \in kept
    <3>1. /\ a.op \in Ops /\ a.run \in 1..MaxRuns /\ a.step \in Steps
          /\ a.run <= wf[a.op].run /\ (a.run = wf[a.op].run => a.step <= wf[a.op].step)
      BY <2>2 DEF TemporalFacts, Attempt, PastInv, AttemptsAreOfThePast
    <3>2. CASE a.op = o
      BY <1>1, <1>2, <3>1, <3>2 DEF Steps
    <3>3. CASE a.op # o
      BY <1>1, <3>1, <3>3
    <3> QED BY <3>2, <3>3
  <2> QED BY <1>3, <2>1, <2>2
<1>5. DoneIsReached'
  <2> SUFFICES ASSUME NEW p \in Ops, row[p].done
               PROVE  Ended(p)'
    BY DEF DoneIsReached
  <2>1. Ended(p)
    BY DEF PastInv, DoneIsReached
  <2>2. CASE p = o
    BY <1>1, <1>2, <2>1, <2>2 DEF Ended, Steps, FinishCompleted
  <2>3. CASE p # o
    BY <1>1, <2>1, <2>3 DEF Ended
  <2> QED BY <2>2, <2>3
<1> QED BY <1>4, <1>5 DEF PastInv

LEMMA PastSame ==
  ASSUME TemporalFacts, PastInv, live' \subseteq live,
         \A p \in Ops : wf'[p].run = wf[p].run /\ wf'[p].step = wf[p].step,
         \A p \in Ops : row'[p].done => row[p].done \/ Ended(p)
  PROVE  PastInv'
<1>1. \A a \in live : a.op \in Ops
  BY DEF TemporalFacts, Attempt
<1>2. AttemptsAreOfThePast'
  BY <1>1 DEF PastInv, AttemptsAreOfThePast
<1>3. DoneIsReached'
  BY DEF PastInv, DoneIsReached, Ended
<1> QED BY <1>2, <1>3 DEF PastInv

LEMMA PastClose ==
  ASSUME TemporalFacts, PastInv, UNCHANGED row, NEW o \in Ops,
         NEW kept \in SUBSET live, Close(o, kept)
  PROVE  PastInv'
<1>1. \A p \in Ops : wf'[p].run = wf[p].run /\ wf'[p].step = wf[p].step
  BY DEF Close, TemporalFacts, WfType
<1> QED BY <1>1, PastSame DEF Close

LEMMA PastGiveUp ==
  ASSUME TemporalFacts, PastInv, UNCHANGED row, NEW o \in Ops, wf[o].state = "running",
         NEW kept \in SUBSET live, ActivityError(o, kept) \/ RetryOrGiveUp(o, kept)
  PROVE  PastInv'
<1>1. wf[o].run \in 1..MaxRuns /\ wf[o].step \in Steps /\ wf[o].n \in 1..RetryLimit
  BY DEF TemporalFacts, WfType
<1>2. FinishFailed \in Steps /\ wf[o].step <= FinishFailed /\ 1 \in 1..RetryLimit
  BY <1>1, StepArithmetic DEF Steps
<1>3. ASSUME ActivityError(o, kept) PROVE PastInv'
  BY <1>1, <1>2, <1>3, PastForward, PastClose DEF ActivityError, Steps
<1>4. CASE RetryOrGiveUp(o, kept) /\ wf[o].n < RetryLimit
  <2>1. wf[o].n + 1 \in 1..RetryLimit
    BY <1>1, <1>4
  <2> QED BY <1>1, <1>4, <2>1, PastForward DEF RetryOrGiveUp, Steps
<1>5. CASE RetryOrGiveUp(o, kept) /\ ~(wf[o].n < RetryLimit)
  BY <1>3, <1>5 DEF RetryOrGiveUp
<1> QED BY <1>3, <1>4, <1>5

\* What one step may do to finished rows.
LateOnly ==
  \A o \in Ops : row[o].done /\ row'[o] # row[o] =>
    /\ row'[o].done /\ row'[o].status = "RUNNING"
    /\ \E a \in live \ live' : a.op = o /\ IsStage(a.step) /\ (a.run > 1 \/ ~IsWaitedFor(a))

LEMMA PastCommits ==
  ASSUME Inv, PastInv, NEW a \in live, Commits(a)
  PROVE  PastInv' /\ LateOnly
<1>1. /\ TemporalFacts /\ a.op \in Ops /\ a.step \in Steps /\ a.run \in 1..MaxRuns
      /\ wf[a.op].run \in 0..MaxRuns /\ wf[a.op].step \in Steps /\ row[a.op] \in Row
  BY TypeFacts DEF TemporalFacts, Attempt, WfType, Inv, TypeOK
<1>2. PICK reply \in {"ok", "refused"} : Answers(a, reply)
  BY DEF Commits, SetOperationStage, GenerateResearchArtifact, FinishOperation
<1>3. /\ \A p \in Ops : wf'[p].run = wf[p].run /\ wf'[p].step = wf[p].step
      /\ live' = live \ {a} /\ a \in live \ live'
  BY <1>1, <1>2 DEF Answers, TemporalFacts, WfType
<1>4. CASE SetOperationStage(a)
  <2>1. \A p \in Ops : /\ row'[p].done <=> row[p].done
                       /\ row'[p] # row[p] => p = a.op /\ row'[p].status = "RUNNING"
    BY <1>1, <1>4 DEF SetOperationStage, Inv, TypeOK, Row
  <2>2. PastInv'
    BY <1>1, <1>3, <2>1, PastSame
  <2>3. row[a.op].done => a.run > 1 \/ ~IsWaitedFor(a)
    <3> SUFFICES ASSUME row[a.op].done, IsWaitedFor(a) PROVE a.run > 1
      OBVIOUS
    <3>1. a.run = wf[a.op].run /\ a.step = wf[a.op].step
      BY DEF IsWaitedFor, Waiting
    <3>2. a.step < FinishCompleted
      BY <1>4 DEF SetOperationStage, IsStage
    <3>3. FinishCompleted \in Int
      BY DEF FinishCompleted
    <3> QED BY <1>1, <3>1, <3>2, <3>3 DEF PastInv, DoneIsReached, Ended, Steps
  <2>4. IsStage(a.step)
    BY <1>4 DEF SetOperationStage
  <2> QED BY <1>3, <2>1, <2>2, <2>3, <2>4 DEF LateOnly
<1>5. CASE GenerateResearchArtifact(a)
  <2>1. UNCHANGED row
    BY <1>5 DEF GenerateResearchArtifact
  <2> QED BY <1>1, <1>3, <2>1, PastSame DEF LateOnly
<1>6. CASE FinishOperation(a)
  <2>1. \A p \in Ops : /\ row[p].done => row'[p] = row[p]
                       /\ row'[p].done => row[p].done \/ p = a.op
    BY <1>1, <1>6 DEF FinishOperation, Inv, TypeOK
  <2>2. a.step >= FinishCompleted
    BY <1>6, StepArithmetic DEF FinishOperation, FinishCompleted, FinishFailed
  <2>3. Ended(a.op)
    <3>1. a.run <= wf[a.op].run /\ (a.run = wf[a.op].run => a.step <= wf[a.op].step)
      BY DEF PastInv, AttemptsAreOfThePast
    <3> QED BY <1>1, <2>2, <3>1 DEF Ended, Steps, FinishCompleted
  <2> QED BY <1>1, <1>3, <2>1, <2>3, PastSame DEF LateOnly
<1> QED BY <1>4, <1>5, <1>6 DEF Commits

LEMMA PastStep ==
  ASSUME Inv, PastInv, [Next]_vars
  PROVE  PastInv' /\ LateOnly
<1>0. TemporalFacts
  BY TypeFacts
<1>1. ASSUME UNCHANGED <<row, wf, live>> PROVE PastInv' /\ LateOnly
  BY <1>0, <1>1, PastSame DEF LateOnly
<1>2. ASSUME NEW c \in Clients, Requests(c) PROVE PastInv' /\ LateOnly
  <2>1. CASE StartCommits(c)
    <3>1. PICK o \in Ops : o = client[c].op /\ ~Exists(o)
      BY <2>1 DEF StartCommits, Inv, Locking
    <3> DEFINE r == [status |-> "PENDING", stage |-> 0, done |-> FALSE]
    <3>2. ~row[o].done /\ row' = [row EXCEPT ![o] = r] /\ UNCHANGED <<wf, live>>
      BY <2>1, <3>1 DEF StartCommits, Inv, Rows, NewRow
    <3>3. \A p \in Ops : p # o => row'[p] = row[p]
      BY <3>2 DEF Inv, TypeOK
    <3>4. ~row'[o].done
      BY <3>2 DEF Inv, TypeOK
    <3> QED BY <1>0, <3>2, <3>3, <3>4, PastSame DEF LateOnly
  <2>2. CASE DispatchArrives(c) /\ ~UNCHANGED <<wf, live>>
    <3>1. PICK o \in Ops : o = client[c].op
      BY <2>2 DEF DispatchArrives, Inv, Locking
    <3>2. wf[o].run < MaxRuns /\ UNCHANGED row /\ Schedule(o, wf[o].run + 1, 1, 1, live)
      BY <2>2, <3>1 DEF DispatchArrives
    <3>3. wf[o].run \in 0..MaxRuns /\ wf[o].step \in Steps /\ wf[o].run + 1 \in 1..MaxRuns
      BY <1>0, <3>2 DEF TemporalFacts, WfType
    <3> QED BY <1>0, <3>2, <3>3, PastForward, StepArithmetic DEF LateOnly
  <2>3. CASE ~StartCommits(c) /\ (DispatchArrives(c) => UNCHANGED <<wf, live>>)
    <3>1. UNCHANGED <<row, wf, live>>
      BY <1>2, <2>3 DEF Requests, StartChecks, Polls, EditChecks, EditCommits, Aborts,
                        DispatchArrives, DispatchLost
    <3> QED BY <1>1, <3>1
  <2> QED BY <2>1, <2>2, <2>3
<1>3. ASSUME NEW a \in live, Commits(a) PROVE PastInv' /\ LateOnly
  BY <1>3, PastCommits
<1>4. ASSUME NEW a \in live, AttemptFails(a) PROVE PastInv' /\ LateOnly
  <2>1. UNCHANGED row /\ a.op \in Ops
    BY <1>0, <1>4 DEF AttemptFails, TemporalFacts, Attempt
  <2>2. CASE IsWaitedFor(a)
    BY <1>0, <1>4, <2>1, <2>2, PastGiveUp DEF AttemptFails, IsWaitedFor, LateOnly
  <2>3. CASE ~IsWaitedFor(a)
    BY <1>0, <1>4, <2>1, <2>3, PastSame DEF AttemptFails, LateOnly
  <2> QED BY <2>2, <2>3
<1>5. ASSUME NEW o \in Ops, TimesOut(o) PROVE PastInv' /\ LateOnly
  BY <1>0, <1>5, PastGiveUp DEF TimesOut, LateOnly
<1>6. ASSUME NEW o \in Ops, AnswerArrives(o) PROVE PastInv' /\ LateOnly
  <2>1. /\ wf[o].state = "running" /\ UNCHANGED row /\ wf[o].reply \in {"ok", "refused"}
        /\ wf[o].step \in Steps /\ wf[o].run \in 1..MaxRuns /\ 1 \in 1..RetryLimit
    BY <1>0, <1>6 DEF AnswerArrives, TemporalFacts, WfType
  <2>2. \/ ActivityError(o, live)
        \/ Close(o, live)
        \/ wf[o].step < FinishCompleted /\ Schedule(o, wf[o].run, wf[o].step + 1, 1, live)
    BY <1>6, <2>1, StepArithmetic DEF AnswerArrives, Steps
  <2>3. wf[o].step < FinishCompleted => wf[o].step + 1 \in Steps
    BY <2>1, StepArithmetic
  <2> QED BY <1>0, <2>1, <2>2, <2>3, PastGiveUp, PastClose, PastForward DEF LateOnly, Steps
<1>7. CASE UNCHANGED vars
  BY <1>1, <1>7 DEF vars
<1> QED BY <1>2, <1>3, <1>4, <1>5, <1>6, <1>7 DEF Next

\* Only set_operation_stage can write a finished row, in an attempt that is
\* late or of a second execution, and it leaves completed_at; in every
\* environment.
THEOREM ReopeningIsLate == Spec => OnlyLateStagesReopen
<1>1. Init => PastInv
  BY DEF Init, NewRow, PastInv, AttemptsAreOfThePast, DoneIsReached
<1>2. Inv /\ PastInv /\ [Next]_vars => PastInv' /\ [LateOnly]_vars
  BY PastStep
<1> QED BY <1>1, <1>2, Invariance, PTL DEF Spec, OnlyLateStagesReopen, LateOnly

-----------------------------------------------------------------------------
(* The artifacts.  An attempt of a step, and an execution that is at that  *)
(* step, were scheduled after the artifact of every agent called before it *)
(* was stored; an answer says that the artifact of its own agent is.  Only *)
(* the except branch (FinishFailed) starts without them.                   *)

Reached(o, step) == \A i \in 1..Agents : 2 * i < step => made[o][i] = 1

AttemptsFollow == \A a \in live : a.step <= FinishCompleted => Reached(a.op, a.step)
ExecutionsFollow ==
  \A o \in Ops : wf[o].step <= FinishCompleted => Reached(o, wf[o].step)
AnswersAreTrue ==
  \A o \in Ops : wf[o].reply = "ok" /\ IsGenerate(wf[o].step) =>
    made[o][AgentOf(wf[o].step)] = 1

ArtifactInv == ArtifactOnce /\ AttemptsFollow /\ ExecutionsFollow /\ AnswersAreTrue

LEMMA GenerateStep ==
  ASSUME NEW step \in Steps, IsGenerate(step)
  PROVE  AgentOf(step) \in 1..Agents /\ step = 2 * AgentOf(step)
BY StepArithmetic DEF IsGenerate, AgentOf, FinishCompleted, FinishFailed, Steps

\* After its own answer an execution has reached the next step.
LEMMA ReachedNext ==
  ASSUME TypeOK, ArtifactInv, NEW o \in Ops, wf[o].reply = "ok",
         wf[o].step < FinishCompleted
  PROVE  Reached(o, wf[o].step + 1)
<1>1. PICK k \in Steps : k = wf[o].step
  BY DEF TypeOK
<1>2. SUFFICES ASSUME NEW i \in 1..Agents, 2 * i < k + 1 PROVE made[o][i] = 1
  BY <1>1 DEF Reached
<1>3. k \in Int /\ FinishCompleted \in Int /\ k < FinishCompleted
  BY <1>1 DEF Steps, FinishCompleted, FinishFailed
<1>4. CASE 2 * i < k
  BY <1>1, <1>3, <1>4 DEF ArtifactInv, ExecutionsFollow, Reached
<1>5. CASE ~(2 * i < k)
  <2>1. k = 2 * i
    BY <1>2, <1>3, <1>5
  <2>2. IsGenerate(k) /\ AgentOf(k) = i
    BY <1>3, <2>1 DEF IsGenerate, AgentOf
  <2> QED BY <1>1, <2>2 DEF ArtifactInv, AnswersAreTrue
<1> QED BY <1>4, <1>5

LEMMA ArtifactSchedule ==
  ASSUME TypeOK, ArtifactInv, UNCHANGED <<row, made>>,
         NEW o \in Ops, NEW run \in Nat, NEW step \in Steps, NEW n \in Nat,
         NEW kept \in SUBSET live, Schedule(o, run, step, n, kept),
         step <= FinishCompleted => Reached(o, step)
  PROVE  ArtifactInv'
<1>1. ArtifactOnce'
  BY DEF ArtifactInv, ArtifactOnce
<1>2. AttemptsFollow'
  BY DEF ArtifactInv, AttemptsFollow, Reached, Schedule
<1>3. ExecutionsFollow' /\ AnswersAreTrue'
  BY DEF TypeOK, ArtifactInv, ExecutionsFollow, AnswersAreTrue, Reached, Schedule
<1> QED BY <1>1, <1>2, <1>3 DEF ArtifactInv

LEMMA ArtifactClose ==
  ASSUME TypeOK, ArtifactInv, UNCHANGED <<row, made>>,
         NEW o \in Ops, NEW kept \in SUBSET live, Close(o, kept)
  PROVE  ArtifactInv'
<1>1. ArtifactOnce'
  BY DEF ArtifactInv, ArtifactOnce
<1>2. AttemptsFollow'
  BY DEF ArtifactInv, AttemptsFollow, Reached, Close
<1>3. \A p \in Ops : wf'[p].step = wf[p].step /\ (wf'[p].reply = "ok" => wf[p].reply = "ok")
  BY DEF TypeOK, Close
<1>4. ExecutionsFollow' /\ AnswersAreTrue'
  BY <1>3 DEF ArtifactInv, ExecutionsFollow, AnswersAreTrue, Reached
<1> QED BY <1>1, <1>2, <1>4 DEF ArtifactInv

LEMMA ArtifactGiveUp ==
  ASSUME TypeOK, ArtifactInv, UNCHANGED <<row, made>>,
         NEW o \in Ops, NEW kept \in SUBSET live,
         ActivityError(o, kept) \/ RetryOrGiveUp(o, kept)
  PROVE  ArtifactInv'
<1>1. /\ wf[o].run \in Nat /\ wf[o].n \in Nat /\ wf[o].n + 1 \in Nat /\ 1 \in Nat
      /\ wf[o].step \in Steps
  BY DEF TypeOK
<1>2. ASSUME ActivityError(o, kept) PROVE ArtifactInv'
  <2>1. ~(FinishFailed <= FinishCompleted)
    BY DEF FinishFailed, FinishCompleted
  <2> QED BY <1>1, <1>2, <2>1, StepArithmetic, ArtifactSchedule, ArtifactClose
          DEF ActivityError
<1>3. ASSUME RetryOrGiveUp(o, kept), wf[o].n < RetryLimit PROVE ArtifactInv'
  <2>1. wf[o].step <= FinishCompleted => Reached(o, wf[o].step)
    BY DEF ArtifactInv, ExecutionsFollow
  <2> QED BY <1>1, <1>3, <2>1, ArtifactSchedule DEF RetryOrGiveUp
<1>4. ASSUME RetryOrGiveUp(o, kept), ~(wf[o].n < RetryLimit) PROVE ArtifactInv'
  BY <1>2, <1>4 DEF RetryOrGiveUp
<1> QED BY <1>2, <1>3, <1>4

\* Nothing an attempt stores takes an artifact away.
LEMMA ReachedStays ==
  ASSUME NEW o \in Ops, NEW step \in Steps, Reached(o, step),
         \A i \in 1..Agents : made[o][i] = 1 => made'[o][i] = 1
  PROVE  Reached(o, step)'
BY DEF Reached

LEMMA ArtifactAnswers ==
  ASSUME TypeOK, ArtifactInv, NEW a \in live, NEW reply \in {"ok", "refused"},
         Answers(a, reply),
         \A o \in Ops : \A i \in 1..Agents : made[o][i] = 1 => made'[o][i] = 1,
         reply = "ok" /\ IsGenerate(a.step) => made'[a.op][AgentOf(a.step)] = 1
  PROVE  AttemptsFollow' /\ ExecutionsFollow' /\ AnswersAreTrue'
<1>1. /\ a.op \in Ops /\ a.step \in Steps
      /\ \A b \in live : b.op \in Ops /\ b.step \in Steps
  BY DEF TypeOK, Attempt
<1>2. /\ \A o \in Ops : wf'[o].step = wf[o].step /\ wf[o].step \in Steps
      /\ \A o \in Ops : wf'[o].reply = wf[o].reply
                        \/ (wf'[o].reply = reply /\ o = a.op /\ wf[o].step = a.step)
  BY <1>1 DEF TypeOK, Answers, IsWaitedFor, Waiting
<1>3. AttemptsFollow'
  BY <1>1, ReachedStays DEF ArtifactInv, AttemptsFollow, Answers
<1>4. ExecutionsFollow'
  BY <1>2, ReachedStays DEF ArtifactInv, ExecutionsFollow
<1>5. AnswersAreTrue'
  <2> SUFFICES ASSUME NEW o \in Ops, wf'[o].reply = "ok", IsGenerate(wf'[o].step)
               PROVE  made'[o][AgentOf(wf'[o].step)] = 1
    BY DEF AnswersAreTrue
  <2>1. IsGenerate(wf[o].step) /\ AgentOf(wf[o].step) \in 1..Agents
    BY <1>2, GenerateStep
  <2>2. CASE wf'[o].reply = wf[o].reply
    BY <1>2, <2>1, <2>2 DEF ArtifactInv, AnswersAreTrue
  <2>3. CASE wf'[o].reply = reply /\ o = a.op /\ wf[o].step = a.step
    BY <1>2, <2>1, <2>3
  <2> QED BY <1>2, <2>2, <2>3
<1> QED BY <1>3, <1>4, <1>5

LEMMA ArtifactCommits ==
  ASSUME TypeOK, ArtifactInv, NEW a \in live, Commits(a)
  PROVE  ArtifactInv'
<1>1. a.op \in Ops /\ a.step \in Steps
  BY DEF TypeOK, Attempt
<1>2. CASE SetOperationStage(a)
  <2>1. ArtifactOnce'
    BY <1>1, <1>2 DEF SetOperationStage, TypeOK, ArtifactInv, ArtifactOnce
  <2>2. ~IsGenerate(a.step)
    BY <1>1, <1>2 DEF SetOperationStage, IsStage, IsGenerate
  <2> QED BY <1>2, <2>1, <2>2, ArtifactAnswers DEF SetOperationStage, ArtifactInv
<1>3. CASE GenerateResearchArtifact(a)
  <2>1. PICK i \in 1..Agents : i = AgentOf(a.step)
    BY <1>1, <1>3, GenerateStep DEF GenerateResearchArtifact
  <2>2. made[a.op][i] \in Nat /\ made[a.op][i] <= 1
    BY <1>1 DEF TypeOK, ArtifactInv, ArtifactOnce
  <2>3. \/ (Answers(a, "ok") /\ made[a.op][i] = 1 /\ UNCHANGED made)
        \/ /\ Answers(a, "ok") /\ made[a.op][i] = 0
           /\ made' = [made EXCEPT ![a.op][i] = @ + 1]
        \/ Answers(a, "refused") /\ UNCHANGED made
    BY <1>3, <2>1, <2>2 DEF GenerateResearchArtifact
  <2>4. /\ \A o \in Ops : \A j \in 1..Agents : made'[o][j] <= 1
        /\ \A o \in Ops : \A j \in 1..Agents : made[o][j] = 1 => made'[o][j] = 1
        /\ (Answers(a, "ok") /\ made'[a.op][i] = 1) \/ Answers(a, "refused")
    <3>1. \A o \in Ops : \A j \in 1..Agents : made[o][j] \in Nat /\ made[o][j] <= 1
      BY DEF TypeOK, ArtifactInv, ArtifactOnce
    <3>2. CASE UNCHANGED made /\ ((Answers(a, "ok") /\ made[a.op][i] = 1) \/ Answers(a, "refused"))
      BY <3>1, <3>2
    <3>3. CASE /\ Answers(a, "ok") /\ made[a.op][i] = 0
               /\ made' = [made EXCEPT ![a.op][i] = @ + 1]
      <4>1. /\ made'[a.op][i] = 1
            /\ \A o \in Ops : \A j \in 1..Agents :
                 made'[o][j] = IF o = a.op /\ j = i THEN 1 ELSE made[o][j]
        <5>1. a.op \in Ops /\ i \in 1..Agents /\ made \in [Ops -> [1..Agents -> Nat]]
          BY <1>1, <2>1 DEF TypeOK
        <5>2. PICK m : m = [made[a.op] EXCEPT ![i] = made[a.op][i] + 1] /\ made' = [made EXCEPT ![a.op] = m]
          BY <3>3
        <5>3. m[i] = 1 /\ \A j \in 1..Agents : j # i => m[j] = made[a.op][j]
          BY <3>3, <5>1, <5>2
        <5>4. made'[a.op] = m /\ \A o \in Ops : o # a.op => made'[o] = made[o]
          BY <5>1, <5>2
        <5> QED BY <5>3, <5>4
      <4> QED BY <3>1, <3>3, <4>1
    <3> QED BY <2>3, <3>2, <3>3
  <2>5. ArtifactOnce'
    BY <1>3, <2>4 DEF GenerateResearchArtifact, ArtifactInv, ArtifactOnce
  <2> QED BY <2>1, <2>4, <2>5, ArtifactAnswers DEF ArtifactInv
<1>4. CASE FinishOperation(a)
  <2>1. UNCHANGED made /\ Answers(a, "ok")
    BY <1>4 DEF FinishOperation
  <2>2. \A o \in Ops : row'[o].status = "COMPLETED" =>
          row[o].status = "COMPLETED" \/ (o = a.op /\ a.step = FinishCompleted)
    BY <1>1, <1>4 DEF FinishOperation, TypeOK
  <2>3. a.step = FinishCompleted => \A i \in 1..Agents : made[a.op][i] = 1
    BY <1>1 DEF ArtifactInv, AttemptsFollow, Reached, FinishCompleted
  <2>4. ArtifactOnce'
    BY <2>1, <2>2, <2>3 DEF ArtifactInv, ArtifactOnce
  <2>5. ~IsGenerate(a.step)
    BY <1>4 DEF FinishOperation, IsGenerate, FinishCompleted, FinishFailed
  <2> QED BY <2>1, <2>4, <2>5, ArtifactAnswers DEF ArtifactInv
<1> QED BY <1>2, <1>3, <1>4 DEF Commits

LEMMA ArtifactStep ==
  ASSUME Inv, ArtifactInv, [Next]_vars
  PROVE  ArtifactInv'
<1>0. TypeOK
  BY DEF Inv
<1> USE <1>0 DEF ArtifactInv
<1>1. ASSUME UNCHANGED <<made, wf, live>>,
             \A o \in Ops : row'[o].status = "COMPLETED" => row[o].status = "COMPLETED"
      PROVE  ArtifactInv'
  BY <1>1 DEF ArtifactOnce, AttemptsFollow, ExecutionsFollow, AnswersAreTrue, Reached
<1>2. ASSUME NEW c \in Clients, Requests(c) PROVE ArtifactInv'
  <2>1. CASE DispatchArrives(c)
    <3>1. PICK o : o = client[c].op
      OBVIOUS
    <3>2. CASE UNCHANGED <<wf, live>>
      BY <1>1, <2>1, <3>2 DEF DispatchArrives
    <3>3. CASE (wf[o].state = "none" \/ (StaleDispatch /\ wf[o].state = "closed"))
               /\ Schedule(o, wf[o].run + 1, 1, 1, live)
      <4>1. o \in Ops
        BY <2>1, <3>1 DEF Inv, Locking, DispatchArrives
      <4>2. wf[o].run + 1 \in Nat /\ 1 \in Nat
        BY <4>1 DEF TypeOK
      <4>3. Reached(o, 1)
        BY DEF Reached
      <4> QED BY <2>1, <3>3, <4>1, <4>2, <4>3, StepArithmetic, ArtifactSchedule
              DEF DispatchArrives
    <3> QED BY <2>1, <3>1, <3>2, <3>3 DEF DispatchArrives
  <2>2. CASE StartCommits(c)
    <3>1. \A o \in Ops : row'[o].status = "COMPLETED" => row[o].status = "COMPLETED"
      BY <2>2 DEF StartCommits, TypeOK
    <3> QED BY <1>1, <2>2, <3>1 DEF StartCommits
  <2>3. CASE ~DispatchArrives(c) /\ ~StartCommits(c)
    BY <1>1, <1>2, <2>3 DEF Requests, StartChecks, Polls, EditChecks, EditCommits, Aborts,
                            DispatchLost
  <2> QED BY <2>1, <2>2, <2>3
<1>3. ASSUME NEW a \in live, Commits(a) PROVE ArtifactInv'
  BY <1>3, ArtifactCommits
<1>4. ASSUME NEW a \in live, AttemptFails(a) PROVE ArtifactInv'
  <2>1. a.op \in Ops
    BY DEF TypeOK, Attempt
  <2>2. CASE IsWaitedFor(a)
    BY <1>4, <2>1, <2>2, ArtifactGiveUp DEF AttemptFails
  <2>3. CASE ~IsWaitedFor(a)
    BY <1>4, <2>3 DEF AttemptFails, ArtifactOnce, AttemptsFollow, ExecutionsFollow,
                      AnswersAreTrue, Reached
  <2> QED BY <2>2, <2>3
<1>5. ASSUME NEW o \in Ops, AnswerArrives(o) PROVE ArtifactInv'
  <2>1. /\ wf[o].run \in Nat /\ 1 \in Nat /\ wf[o].step \in Steps
        /\ wf[o].reply \in {"none", "ok", "refused"}
    BY DEF TypeOK
  <2>2. \/ ActivityError(o, live)
        \/ Close(o, live)
        \/ /\ wf[o].reply = "ok" /\ wf[o].step < FinishCompleted
           /\ Schedule(o, wf[o].run, wf[o].step + 1, 1, live)
    BY <1>5, <2>1, StepArithmetic DEF AnswerArrives, Steps
  <2>3. UNCHANGED <<row, made>>
    BY <1>5 DEF AnswerArrives
  <2>4. CASE ActivityError(o, live) \/ Close(o, live)
    BY <2>3, <2>4, ArtifactGiveUp, ArtifactClose
  <2>5. CASE /\ wf[o].reply = "ok" /\ wf[o].step < FinishCompleted
             /\ Schedule(o, wf[o].run, wf[o].step + 1, 1, live)
    <3>1. wf[o].step + 1 \in Steps /\ Reached(o, wf[o].step + 1)
      BY <2>1, <2>5, StepArithmetic, ReachedNext
    <3> QED BY <2>1, <2>3, <2>5, <3>1, ArtifactSchedule
  <2> QED BY <2>2, <2>4, <2>5
<1>6. ASSUME NEW o \in Ops, TimesOut(o) PROVE ArtifactInv'
  BY <1>6, ArtifactGiveUp DEF TimesOut
<1>7. CASE UNCHANGED vars
  BY <1>1, <1>7 DEF vars
<1> QED BY <1>2, <1>3, <1>4, <1>5, <1>6, <1>7 DEF Next

\* A retried, late or restarted generate_research_artifact stores no second
\* artifact of an agent, and finish_operation records COMPLETED only when the
\* artifact of every agent is stored, in every environment.
THEOREM OneArtifactPerAgent == Spec => []ArtifactOnce
<1>1. Init => ArtifactInv
  BY StepArithmetic DEF Init, NewRow, ArtifactInv, ArtifactOnce, AttemptsFollow,
     ExecutionsFollow, AnswersAreTrue, Reached
<1>2. Inv /\ ArtifactInv /\ [Next]_vars => ArtifactInv'
  BY ArtifactStep
<1>3. ArtifactInv => ArtifactOnce
  BY DEF ArtifactInv
<1> QED BY <1>1, <1>2, <1>3, Invariance, PTL DEF Spec

=============================================================================

----------------------------- MODULE Operations -----------------------------
(***************************************************************************)
(* The life of one project's operations (rows of workflow_runs), from the  *)
(* HTTP command that starts one to the activity that finishes it:          *)
(*                                                                         *)
(*  - API clients whose transactions hold the project row FOR UPDATE while *)
(*    they check that the project is idle and insert or edit;              *)
(*  - the dispatch of a committed PENDING row to Temporal, which may fail, *)
(*    and is repeated by whoever polls the operation;                      *)
(*  - ResearchPlanningWorkflow: set_operation_stage and                    *)
(*    generate_research_artifact for each agent, then finish_operation;    *)
(*  - activities delivered at least once: an attempt may fail, its answer  *)
(*    may be lost, and the server schedules the next one up to RetryLimit. *)
(*                                                                         *)
(* Every query of the code is scoped by project_id, so one project is the  *)
(* whole state.  A transaction of an activity is one step: it locks its    *)
(* workflow_runs row before it reads anything it decides on.               *)
(***************************************************************************)
EXTENDS Integers

CONSTANTS
  Ops,            \* operation identifiers (uuid4, never reused)
  Clients,        \* concurrent API requests of the project's members
  NoClient,       \* the project row is not locked
  NoOp,           \* the request is about no operation
  Agents,         \* how many agents the workflow calls in turn
  RetryLimit,     \* RETRY.maximum_attempts
  LateAttempts,   \* may an attempt the server gave up on still commit?
  StaleDispatch,  \* may a dispatch reach Temporal after the workflow closed?
  MaxRuns,        \* bound on the executions of one workflow id
  MaxFaults,      \* bound on failed attempts, lost answers and lost dispatches
  MaxInput        \* bound on the edits of the project's inputs

ASSUME NoClientAssumption == NoClient \notin Clients
ASSUME NoOpAssumption == NoOp \notin Ops
ASSUME AgentsAssumption == Agents \in Nat \ {0}
ASSUME RetryAssumption == RetryLimit \in Nat \ {0}
ASSUME BoundsAssumption == MaxRuns \in Nat /\ MaxFaults \in Nat /\ MaxInput \in Nat
ASSUME EnvironmentAssumption == LateAttempts \in BOOLEAN /\ StaleDispatch \in BOOLEAN

VARIABLES
  row,          \* row[o]: the workflow_runs row of operation o
  input,        \* how often the inputs (idea, plan, protocol) were edited
  basedOn,      \* basedOn[o]: the value of input that o's details refer to
  projectLock,  \* the client whose transaction holds research_projects FOR UPDATE
  client,       \* client[c]: where request c is, and the operation it is about
  wf,           \* wf[o]: the Temporal execution of workflow id "research-<o>"
  live,         \* attempts a worker has been given and has not yet committed
  made,         \* made[o][i]: artifacts of agent i recorded by operation o
  faults        \* faults so far (bounded by MaxFaults)

vars == <<row, input, basedOn, projectLock, client, wf, live, made, faults>>

-----------------------------------------------------------------------------
(* The database row.  stage is the agent being announced: 0 is "PENDING",  *)
(* i is the upper-cased name of agent i, and the two last values are the   *)
(* outcomes that finish_operation stores as stage.                         *)

CompletedStage == Agents + 1
FailedStage == Agents + 2

Row == [status : {"NONE", "PENDING", "RUNNING", "COMPLETED", "FAILED"},
        stage : 0..FailedStage,
        done : BOOLEAN]                      \* completed_at is set

Exists(o) == row[o].status # "NONE"
Unfinished(o) == Exists(o) /\ ~row[o].done
Busy(o) == row[o].status \in {"PENDING", "RUNNING"}

\* Mutation of EnsureIdle: a queued operation is not looked for.
EnsureNoneRuns == \A o \in Ops : row[o].status # "RUNNING"

\* ensure_idle: no row of the project is PENDING or RUNNING.
EnsureIdle == \A o \in Ops : ~Busy(o)

-----------------------------------------------------------------------------
(* The workflow is a sequence of activities: 2i-1 announces agent i, 2i    *)
(* runs it, then finish COMPLETED; any ActivityError leads to the except   *)
(* branch, whose only activity is finish FAILED.                           *)

FinishCompleted == 2 * Agents + 1
FinishFailed == 2 * Agents + 2
Steps == 1..FinishFailed
AgentOf(step) == (step + 1) \div 2
IsStage(step) == step < FinishCompleted /\ step % 2 = 1
IsGenerate(step) == step < FinishCompleted /\ step % 2 = 0

Attempt == [op : Ops, run : 1..MaxRuns, step : Steps, n : 1..RetryLimit]

\* The attempt the server is waiting for.
Waiting(o) == [op |-> o, run |-> wf[o].run, step |-> wf[o].step, n |-> wf[o].n]
IsWaitedFor(a) == wf[a.op].state = "running" /\ Waiting(a.op) = a

\* Schedule an attempt of a step: the execution's state and the attempts a
\* worker has, those of `kept` and the new one.
Schedule(o, run, step, n, kept) ==
  /\ wf' = [wf EXCEPT ![o] = [state |-> "running", run |-> run, step |-> step,
                              n |-> n, reply |-> "none"]]
  /\ live' = kept \cup {[op |-> o, run |-> run, step |-> step, n |-> n]}

Close(o, kept) ==
  /\ wf' = [wf EXCEPT ![o].state = "closed", ![o].reply = "none"]
  /\ live' = kept

\* ActivityError in the try block runs finish FAILED; in the except branch it
\* fails the workflow, and nothing touches the row any more.
ActivityError(o, kept) ==
  IF wf[o].step < FinishFailed
    THEN Schedule(o, wf[o].run, FinishFailed, 1, kept)
    ELSE Close(o, kept)

\* Mutation of RetryOrGiveUp: the whole workflow is retried, not the activity.
RetryFromTheStart(o, kept) ==
  IF wf[o].n < RetryLimit
    THEN Schedule(o, wf[o].run, 1, wf[o].n + 1, kept)
    ELSE ActivityError(o, kept)

RetryOrGiveUp(o, kept) ==
  IF wf[o].n < RetryLimit
    THEN Schedule(o, wf[o].run, wf[o].step, wf[o].n + 1, kept)
    ELSE ActivityError(o, kept)

-----------------------------------------------------------------------------
(* Requests.  A transaction that holds the project row keeps it locked     *)
(* until it commits or aborts; `seen` is what it read of the inputs.       *)

IdleClient == [pc |-> "idle", op |-> NoOp, seen |-> 0]
Client == [pc : {"idle", "starting", "editing", "dispatching"},
           op : Ops \cup {NoOp}, seen : 0..MaxInput]

NewRow == [status |-> "NONE", stage |-> 0, done |-> FALSE]

Init ==
  /\ row = [o \in Ops |-> NewRow]
  /\ input = 0
  /\ basedOn = [o \in Ops |-> 0]
  /\ projectLock = NoClient
  /\ client = [c \in Clients |-> IdleClient]
  /\ wf = [o \in Ops |-> [state |-> "none", run |-> 0, step |-> 1, n |-> 1, reply |-> "none"]]
  /\ live = {}
  /\ made = [o \in Ops |-> [i \in 1..Agents |-> 0]]
  /\ faults = 0

-----------------------------------------------------------------------------
(* API requests                                                            *)

\* Mutation of EditChecks: the endpoint forgets ensure_idle.
EditChecksBusy(c) ==
  /\ client[c].pc = "idle" /\ projectLock = NoClient /\ input < MaxInput
  /\ projectLock' = c
  /\ client' = [client EXCEPT ![c] = [pc |-> "editing", op |-> NoOp, seen |-> input]]
  /\ UNCHANGED <<row, input, basedOn, wf, live, made, faults>>

\* Mutation of Polls: a request for an operation that was never dispatched
\* does not dispatch it.
PollsNothing(c, o) == client[c].pc = "idle" /\ row[o].status = "PENDING" /\ UNCHANGED vars

\* generate_plan, generate_strategy, start_search, ...: scoped_project locks
\* the project row, the endpoint reads the inputs, ensure_idle lets it pass.
StartChecks(c, o) ==
  /\ client[c].pc = "idle"
  /\ projectLock = NoClient
  /\ ~Exists(o) /\ \A d \in Clients : client[d].op # o   \* uuid4 is fresh
  /\ EnsureIdle
  /\ projectLock' = c
  /\ client' = [client EXCEPT ![c] = [pc |-> "starting", op |-> o, seen |-> input]]
  /\ UNCHANGED <<row, input, basedOn, wf, live, made, faults>>

\* start_operation inserts the PENDING row and commits, which releases the
\* project; the same request then dispatches the row.
StartCommits(c) ==
  LET o == client[c].op IN
  /\ client[c].pc = "starting"
  /\ row' = [row EXCEPT ![o] = [status |-> "PENDING", stage |-> 0, done |-> FALSE]]
  /\ basedOn' = [basedOn EXCEPT ![o] = client[c].seen]
  /\ projectLock' = NoClient
  /\ client' = [client EXCEPT ![c].pc = "dispatching"]
  /\ UNCHANGED <<input, wf, live, made, faults>>

\* add_idea, approve_plan, revise_protocol, ...: edits refused while busy.
EditChecks(c) ==
  /\ client[c].pc = "idle"
  /\ projectLock = NoClient
  /\ input < MaxInput
  /\ EnsureIdle
  /\ projectLock' = c
  /\ client' = [client EXCEPT ![c] = [pc |-> "editing", op |-> NoOp, seen |-> input]]
  /\ UNCHANGED <<row, input, basedOn, wf, live, made, faults>>

EditCommits(c) ==
  /\ client[c].pc = "editing"
  /\ input' = client[c].seen + 1
  /\ projectLock' = NoClient
  /\ client' = [client EXCEPT ![c] = IdleClient]
  /\ UNCHANGED <<row, basedOn, wf, live, made, faults>>

\* session_scope rolls back: the request failed or its process died.
Aborts(c) ==
  /\ client[c].pc \in {"starting", "editing"}
  /\ projectLock' = NoClient
  /\ client' = [client EXCEPT ![c] = IdleClient]
  /\ UNCHANGED <<row, input, basedOn, wf, live, made, faults>>

\* get_operation takes no lock: a row it reads as PENDING is dispatched again.
Polls(c, o) ==
  /\ client[c].pc = "idle"
  /\ row[o].status = "PENDING"
  /\ client' = [client EXCEPT ![c] = [pc |-> "dispatching", op |-> o, seen |-> 0]]
  /\ UNCHANGED <<row, input, basedOn, projectLock, wf, live, made, faults>>

\* start_workflow reaches Temporal.  A running workflow id is refused
\* (WorkflowAlreadyStartedError is swallowed); an id whose execution closed
\* is started anew, the server's default for workflow id reuse.
DispatchArrives(c) ==
  LET o == client[c].op IN
  /\ client[c].pc = "dispatching"
  /\ client' = [client EXCEPT ![c] = IdleClient]
  /\ \/ /\ wf[o].state = "running"
        /\ UNCHANGED <<wf, live>>
     \/ /\ wf[o].state = "none" \/ (StaleDispatch /\ wf[o].state = "closed")
        /\ wf[o].run < MaxRuns
        /\ Schedule(o, wf[o].run + 1, 1, 1, live)
  /\ UNCHANGED <<row, input, basedOn, projectLock, made, faults>>

\* Temporal is unreachable, wait_for times out, or the API process dies.
DispatchLost(c) ==
  /\ client[c].pc = "dispatching"
  /\ faults < MaxFaults
  /\ faults' = faults + 1
  /\ client' = [client EXCEPT ![c] = IdleClient]
  /\ UNCHANGED <<row, input, basedOn, projectLock, wf, live, made>>

-----------------------------------------------------------------------------
(* Transactions of the activities.  Each writes a project event or the     *)
(* project row, so it waits for a request that holds the project.          *)

\* The attempt's transaction is over; its answer is kept only if the server
\* still waits for this attempt.
Answers(a, reply) ==
  /\ live' = live \ {a}
  /\ wf' = IF IsWaitedFor(a) THEN [wf EXCEPT ![a.op].reply = reply] ELSE wf

\* Mutation of GenerateResearchArtifact: the row's details are not consulted.
GenerateAgain(a) ==
  /\ IsGenerate(a.step) /\ projectLock = NoClient
  /\ made' = [made EXCEPT ![a.op][AgentOf(a.step)] = @ + 1]
  /\ Answers(a, "ok")
  /\ UNCHANGED <<row, input, basedOn, projectLock, client, faults>>

\* set_operation_stage: it looks at the stage, never at completed_at.
SetOperationStage(a) ==
  /\ IsStage(a.step)
  /\ projectLock = NoClient
  /\ row' = IF row[a.op].stage = AgentOf(a.step) THEN row
            ELSE [row EXCEPT ![a.op] = [status |-> "RUNNING", stage |-> AgentOf(a.step),
                                        done |-> @.done]]
  /\ Answers(a, "ok")
  /\ UNCHANGED <<input, basedOn, projectLock, client, made, faults>>

\* generate_research_artifact: an artifact already in the row's details is
\* returned; otherwise the agent's result is stored with the row's details in
\* one transaction, or its failure is raised as non-retryable.
GenerateResearchArtifact(a) ==
  LET i == AgentOf(a.step) IN
  /\ IsGenerate(a.step)
  /\ projectLock = NoClient
  /\ \/ /\ made[a.op][i] > 0
        /\ Answers(a, "ok")
        /\ UNCHANGED made
     \/ /\ made[a.op][i] = 0
        /\ Answers(a, "ok")
        /\ made' = [made EXCEPT ![a.op][i] = @ + 1]
     \/ /\ made[a.op][i] = 0
        /\ Answers(a, "refused")
        /\ UNCHANGED made
  /\ UNCHANGED <<row, input, basedOn, projectLock, client, faults>>

\* Mutation of FinishOperation: completed_at is not looked at.
FinishAgain(a) ==
  LET completed == a.step = FinishCompleted IN
  /\ a.step \in {FinishCompleted, FinishFailed} /\ projectLock = NoClient
  /\ row' = [row EXCEPT ![a.op] = [status |-> IF completed THEN "COMPLETED" ELSE "FAILED",
                 stage |-> IF completed THEN CompletedStage ELSE FailedStage, done |-> TRUE]]
  /\ Answers(a, "ok")
  /\ UNCHANGED <<input, basedOn, projectLock, client, made, faults>>

\* finish_operation: the first one to commit decides the outcome.
FinishOperation(a) ==
  LET completed == a.step = FinishCompleted IN
  /\ a.step \in {FinishCompleted, FinishFailed}
  /\ projectLock = NoClient
  /\ row' = IF row[a.op].done THEN row
            ELSE [row EXCEPT ![a.op] =
                    [status |-> IF completed THEN "COMPLETED" ELSE "FAILED",
                     stage |-> IF completed THEN CompletedStage ELSE FailedStage,
                     done |-> TRUE]]
  /\ Answers(a, "ok")
  /\ UNCHANGED <<input, basedOn, projectLock, client, made, faults>>

Commits(a) == SetOperationStage(a) \/ GenerateResearchArtifact(a) \/ FinishOperation(a)

-----------------------------------------------------------------------------
(* Temporal: answers, failures, timeouts                                   *)

\* The workflow learns that its activity returned, or raised non-retryable.
AnswerArrives(o) ==
  /\ wf[o].state = "running" /\ wf[o].reply # "none"
  /\ CASE wf[o].reply = "refused" -> ActivityError(o, live)
       [] wf[o].reply = "ok" /\ wf[o].step >= FinishCompleted -> Close(o, live)
       [] OTHER -> Schedule(o, wf[o].run, wf[o].step + 1, 1, live)
  /\ UNCHANGED <<row, input, basedOn, projectLock, client, made, faults>>

\* An attempt raises a retryable error: its transaction rolled back.
AttemptFails(a) ==
  /\ faults < MaxFaults
  /\ faults' = faults + 1
  /\ IF IsWaitedFor(a) THEN RetryOrGiveUp(a.op, live \ {a})
     ELSE live' = live \ {a} /\ UNCHANGED wf
  /\ UNCHANGED <<row, input, basedOn, projectLock, client, made>>

\* start_to_close_timeout: the worker died, its answer was lost after the
\* commit, or it is still at work and may commit later (LateAttempts).
TimesOut(o) ==
  /\ wf[o].state = "running"
  /\ faults < MaxFaults
  /\ faults' = faults + 1
  /\ \/ RetryOrGiveUp(o, live \ {Waiting(o)})
     \/ LateAttempts /\ Waiting(o) \in live /\ RetryOrGiveUp(o, live)
  /\ UNCHANGED <<row, input, basedOn, projectLock, client, made>>

-----------------------------------------------------------------------------
Requests(c) ==
  \/ \E o \in Ops : StartChecks(c, o) \/ Polls(c, o)
  \/ EditChecks(c)
  \/ StartCommits(c) \/ EditCommits(c) \/ Aborts(c)
  \/ DispatchArrives(c) \/ DispatchLost(c)

Next ==
  \/ \E c \in Clients : Requests(c)
  \/ \E a \in live : Commits(a) \/ AttemptFails(a)
  \/ \E o \in Ops : AnswerArrives(o) \/ TimesOut(o)

Spec == Init /\ [][Next]_vars

\* A transaction ends, a dispatch reaches Temporal or is given up, an unfinished
\* operation keeps being polled (the web client polls every 1.5 s), a worker
\* runs the attempts it is given, and Temporal delivers answers.
Fairness ==
  /\ \A c \in Clients : WF_vars(StartCommits(c) \/ EditCommits(c) \/ Aborts(c))
                        /\ WF_vars(DispatchArrives(c))
  /\ \A o \in Ops : /\ WF_vars(\E c \in Clients : Polls(c, o))
                    /\ WF_vars(\E a \in live : a.op = o /\ Commits(a))
                    /\ WF_vars(AnswerArrives(o))

FairSpec == Spec /\ Fairness

-----------------------------------------------------------------------------
(* Properties                                                              *)

\* The rows, the workflows and their attempts have the states that the code gives them.
TypeOK ==
  /\ row \in [Ops -> Row]
  /\ input \in 0..MaxInput
  /\ basedOn \in [Ops -> 0..MaxInput]
  /\ projectLock \in Clients \cup {NoClient}
  /\ client \in [Clients -> Client]
  /\ wf \in [Ops -> [state : {"none", "running", "closed"}, run : 0..MaxRuns, step : Steps,
                     n : 1..RetryLimit, reply : {"none", "ok", "refused"}]]
  /\ live \subseteq Attempt
  /\ made \in [Ops -> [1..Agents -> Nat]]
  /\ faults \in 0..MaxFaults

\* Two concurrent requests never leave the project with two unfinished
\* operations, whatever is retried, delayed or polled (projects.py
\* scoped_project, ensure_idle, start_operation).
AtMostOneUnfinished ==
  \A o, p \in Ops : Unfinished(o) /\ Unfinished(p) => o = p

\* The idea, plan or protocol an unfinished operation was started from is not
\* edited under it: its activities read what the request checked.
InputsFrozen == \A o \in Ops : Unfinished(o) => basedOn[o] = input

\* A retried, late or restarted generate_research_artifact never stores a
\* second artifact of the same agent for one operation, and COMPLETED is only
\* recorded when every agent's artifact is stored, whatever answers were lost.
ArtifactOnce ==
  \A o \in Ops : \A i \in 1..Agents :
    made[o][i] <= 1 /\ (row[o].status = "COMPLETED" => made[o][i] = 1)

\* A finished row is never written again: its outcome is what the first
\* finish_operation recorded.  It needs an environment without late attempts
\* and stale dispatches.
FinishedStaysFinished == [][\A o \in Ops : row[o].done => row'[o] = row[o]]_vars

\* What can write a finished row, in any environment: set_operation_stage
\* alone, in an attempt the server no longer waits for or in a second execution
\* of the workflow.  The row keeps completed_at and shows RUNNING again; a
\* second finish_operation, a retry the server waits for, a request or a poll
\* never touch it.
OnlyLateStagesReopen ==
  [][\A o \in Ops : row[o].done /\ row'[o] # row[o] =>
       /\ row'[o].done /\ row'[o].status = "RUNNING"
       /\ \E a \in live \ live' :
            a.op = o /\ IsStage(a.step) /\ (a.run > 1 \/ ~IsWaitedFor(a))]_vars

\* The operation as its clients and ensure_idle see it, who look at the status:
\* finished when it is COMPLETED or FAILED, reopened when a status that was
\* final is RUNNING again.
PhaseOf(r) == CASE r.status = "NONE" -> "absent"
                [] r.status = "PENDING" -> "queued"
                [] r.status = "RUNNING" /\ ~r.done -> "working"
                [] r.status = "RUNNING" /\ r.done -> "reopened"
                [] r.status \in {"COMPLETED", "FAILED"} -> "finished"
Phase == [o \in Ops |-> PhaseOf(row[o])]

\* A finished operation is reopened only where a late attempt or a second
\* execution may commit.
Contract ==
  INSTANCE OperationContract WITH phase <- Phase, Reopens <- LateAttempts \/ StaleDispatch

\* Requests, activities and Temporal implement the contract: an operation is
\* accepted only while every other one is absent or finished for those who
\* read its status (ensure_idle), and it ends once (finish_operation).
ImplementsContract == Contract!Spec

\* An accepted operation ends, through crashes before the dispatch and retries.
AcceptedIsFinished == Contract!AcceptedIsFinished
=============================================================================

------------------------------- MODULE Discovery -------------------------------
(***************************************************************************)
(* One literature search: an operation that asks each provider query in    *)
(* parallel, then normalizes, deduplicates and verifies what was found.    *)
(*                                                                         *)
(* execute_provider_search locks its query row, looks for a run of this    *)
(* operation and query, and only then asks the provider, still holding the *)
(* lock.  An attempt that timed out may go on while its retry waits for    *)
(* the lock, or while the workflow records that the query failed.          *)
(***************************************************************************)
EXTENDS Integers, FiniteSets, Sequences

CONSTANTS
  Queries,       \* the queries of the search strategy
  Results,       \* the records providers may return
  LateAttempts,  \* may an attempt that timed out go on?
  MaxAttempts,   \* RETRY.maximum_attempts
  MaxFailures    \* bound on failures after the searches

ASSUME QueriesAssumption == IsFiniteSet(Queries) /\ Queries # {}
ASSUME BoundsAssumption ==
  LateAttempts \in BOOLEAN /\ MaxAttempts \in Nat \ {0} /\ MaxFailures \in Nat

VARIABLES
  stage,     \* where the workflow is
  call,      \* what the workflow knows of each search
  searches,  \* attempts of execute_provider_search
  runs,      \* the rows of search_runs: unique by operation and query
  normalized, workIds,  \* details["work_ids"], once normalized
  verified,  \* details["verified_work_ids"]
  checks,    \* the number of verification rows of each record
  verdict,   \* the status finalize_discovery has read off the runs
  status,    \* of the operation
  failures

searchVars == <<stage, call, searches, runs, normalized, workIds, verified, checks, verdict, status, failures>>

\* The workflow: gather, record the failures, then one activity after the other.
StageList == <<"SEARCHING", "RECORDING", "NORMALIZING", "DEDUPLICATING", "VERIFYING",
               "FINALIZING", "FINISHING", "ENDED">>

NoRun == [status |-> "none", found |-> {}]
Run == [status : {"COMPLETED", "PARTIAL", "FAILED"}, found : SUBSET Results]

\* n: the number of the attempt.  locked: holds the query, its look-up found no run.
SearchAttempt == [query : Queries, n : 1..MaxAttempts, live : BOOLEAN, locked : BOOLEAN]

SearchInit ==
  /\ stage = 1
  /\ call = [q \in Queries |-> "searching"]
  /\ searches = {[query |-> q, n |-> 1, live |-> TRUE, locked |-> FALSE] : q \in Queries}
  /\ runs = [q \in Queries |-> NoRun]
  /\ normalized = FALSE /\ workIds = {} /\ verified = {} /\ checks = [r \in Results |-> 0]
  /\ verdict = "none" /\ status = "RUNNING" /\ failures = 0

Reached(name) == StageList[stage] = name
Locked(q) == \E a \in searches : a.query = q /\ a.locked

-----------------------------------------------------------------------------
(* execute_provider_search                                                 *)

After == <<stage, normalized, workIds, verified, checks, verdict, status, failures>>
Answered(a) == call' = IF a.live THEN [call EXCEPT ![a.query] = "answered"] ELSE call

\* The query is locked: a run that exists is the answer.
FindRun(a) ==
  /\ ~a.locked /\ ~Locked(a.query) /\ runs[a.query] # NoRun
  /\ searches' = searches \ {a} /\ Answered(a)
  /\ UNCHANGED <<runs, After>>

LockQuery(a) ==
  /\ ~a.locked /\ ~Locked(a.query) /\ runs[a.query] = NoRun
  /\ searches' = (searches \ {a}) \cup {[a EXCEPT !.locked = TRUE]}
  /\ UNCHANGED <<call, runs, After>>

\* The first page is stored; PARTIAL says that the provider has more.
StorePage(a) ==
  /\ a.locked /\ runs[a.query] = NoRun
  /\ \E found \in SUBSET Results, more \in {"COMPLETED", "PARTIAL"} :
       runs' = [runs EXCEPT ![a.query] = [status |-> more, found |-> found]]
  /\ searches' = searches \ {a} /\ Answered(a)
  /\ UNCHANGED After

\* The provider fails, the attempt times out or dies: it is retried, or it was the
\* last one.  One that timed out may go on.
SearchFails(a) ==
  /\ a.live
  /\ \E rest \in {{}, IF LateAttempts THEN {[a EXCEPT !.live = FALSE]} ELSE {}} :
       IF a.n < MaxAttempts
         THEN /\ searches' = (searches \ {a}) \cup rest
                               \cup {[query |-> a.query, n |-> a.n + 1, live |-> TRUE, locked |-> FALSE]}
              /\ UNCHANGED call
         ELSE /\ searches' = (searches \ {a}) \cup rest
              /\ call' = [call EXCEPT ![a.query] = "failed"]
  /\ UNCHANGED <<runs, After>>

\* A late attempt dies in the end, if it does not answer.
LateDies(a) ==
  /\ ~a.live
  /\ searches' = searches \ {a}
  /\ UNCHANGED <<call, runs, After>>

-----------------------------------------------------------------------------
(* The workflow                                                            *)

Advance == stage' = stage + 1

\* An activity commits; its answer may be lost, and then it runs again.
Done == \/ Advance /\ UNCHANGED failures
        \/ failures < MaxFailures /\ failures' = failures + 1 /\ UNCHANGED stage

Gather ==
  /\ Reached("SEARCHING") /\ \A q \in Queries : call[q] # "searching"
  /\ Advance
  /\ UNCHANGED <<call, searches, runs, normalized, workIds, verified, checks, verdict, status, failures>>

\* Mutation of RecordFailure: a failure is noted, and no run is stored for it.
RecordFailureUnstored(q) ==
  /\ Reached("RECORDING") /\ call[q] = "failed"
  /\ call' = [call EXCEPT ![q] = "recorded"]
  /\ UNCHANGED <<runs, searches, After>>

\* Mutation of RecordFailure: a run that a late attempt stored is an error, and retried.
RecordFailureOnlyIfNew(q) ==
  /\ Reached("RECORDING") /\ call[q] = "failed" /\ ~Locked(q) /\ runs[q] = NoRun
  /\ runs' = [runs EXCEPT ![q] = [status |-> "FAILED", found |-> {}]]
  /\ call' = [call EXCEPT ![q] = "recorded"]
  /\ UNCHANGED <<searches, After>>

\* record_provider_failure waits for the lock too, and spares a run that exists.
RecordFailure(q) ==
  /\ Reached("RECORDING") /\ call[q] = "failed" /\ ~Locked(q)
  /\ runs' = [runs EXCEPT ![q] = IF @ # NoRun THEN @ ELSE [status |-> "FAILED", found |-> {}]]
  /\ call' = [call EXCEPT ![q] = "recorded"]
  /\ UNCHANGED <<searches, After>>

Recorded ==
  /\ Reached("RECORDING") /\ \A q \in Queries : call[q] # "failed"
  /\ Advance
  /\ UNCHANGED <<call, searches, runs, normalized, workIds, verified, checks, verdict, status, failures>>

Found == UNION {runs[q].found : q \in Queries}

\* normalize_discovery: done once, whatever is retried.
Normalize ==
  /\ Reached("NORMALIZING")
  /\ workIds' = IF normalized THEN workIds ELSE Found
  /\ normalized' = TRUE
  /\ Done
  /\ UNCHANGED <<call, searches, runs, verified, checks, verdict, status>>

Deduplicate ==
  /\ Reached("DEDUPLICATING")
  /\ Done
  /\ UNCHANGED <<call, searches, runs, normalized, workIds, verified, checks, verdict, status>>

\* verify_discovery: one transaction per work, under the lock of the operation.
VerifyOne(r) ==
  /\ Reached("VERIFYING") /\ r \in workIds \ verified
  /\ checks' = [checks EXCEPT ![r] = @ + 1]
  /\ verified' = verified \cup {r}
  /\ UNCHANGED <<stage, call, searches, runs, normalized, workIds, verdict, status, failures>>

VerifyEnds ==
  /\ Reached("VERIFYING") /\ workIds \subseteq verified
  /\ Done
  /\ UNCHANGED <<call, searches, runs, normalized, workIds, verified, checks, verdict, status>>

Statuses == {runs[q].status : q \in Queries} \ {"none"}

\* Mutation of Verdict: only a failed search makes the result partial.
VerdictLenient ==
  IF Statuses \subseteq {"FAILED"} THEN "FAILED"
  ELSE IF "FAILED" \in Statuses THEN "PARTIAL" ELSE "COMPLETED"

Verdict ==
  IF Statuses \subseteq {"FAILED"} THEN "FAILED"
  ELSE IF Statuses \subseteq {"COMPLETED"} THEN "COMPLETED" ELSE "PARTIAL"

\* finalize_discovery reads the runs in one transaction ...
ReadRuns ==
  /\ Reached("FINALIZING")
  /\ verdict' = Verdict
  /\ Advance
  /\ UNCHANGED <<call, searches, runs, normalized, workIds, verified, checks, status, failures>>

\* ... and finishes the operation in another, unless it was finished before.
FinishDiscovery ==
  /\ Reached("FINISHING")
  /\ status' = IF status = "RUNNING" THEN verdict ELSE status
  /\ Done
  /\ UNCHANGED <<call, searches, runs, normalized, workIds, verified, checks, verdict>>

\* An activity after the searches fails for good: the workflow says FAILED.
Abort ==
  /\ stage \in 2..6 /\ failures < MaxFailures
  /\ failures' = failures + 1
  /\ stage' = Len(StageList) /\ status' = "FAILED"
  /\ UNCHANGED <<call, searches, runs, normalized, workIds, verified, checks, verdict>>

-----------------------------------------------------------------------------
Search(a) == FindRun(a) \/ LockQuery(a) \/ StorePage(a) \/ SearchFails(a) \/ LateDies(a)

Workflow ==
  \/ Gather \/ Recorded \/ Normalize \/ Deduplicate \/ VerifyEnds \/ ReadRuns \/ FinishDiscovery
  \/ \E q \in Queries : RecordFailure(q)
  \/ \E r \in Results : VerifyOne(r)

SearchNext == (\E a \in searches : Search(a)) \/ Workflow \/ Abort

SearchSpec == SearchInit /\ [][SearchNext]_searchVars

\* Attempts end: a provider answers or the call times out.  Activities are retried.
FairSearchSpec == SearchSpec /\ WF_searchVars(\E a \in searches : Search(a)) /\ WF_searchVars(Workflow)

-----------------------------------------------------------------------------
(* Properties                                                              *)

SearchTypeOK ==
  /\ stage \in 1..8
  /\ call \in [Queries -> {"searching", "answered", "failed", "recorded"}]
  /\ searches \subseteq SearchAttempt
  /\ runs \in [Queries -> Run \cup {NoRun}]
  /\ normalized \in BOOLEAN /\ workIds \subseteq Results
  /\ verified \subseteq Results /\ checks \in [Results -> Nat]
  /\ verdict \in {"none", "COMPLETED", "PARTIAL", "FAILED"}
  /\ status \in {"RUNNING", "COMPLETED", "PARTIAL", "FAILED"}
  /\ failures \in 0..MaxFailures

\* A provider that is being asked is not asked for nothing: its answer will be the
\* run of the query, not a second one the unique index refuses.
AnswersAreStored == \A a \in searches : a.locked => runs[a.query] = NoRun

\* What a provider returned is normalized, even if an attempt given up for lost
\* returned it: nothing arrives after normalization.
NothingFoundIsLost == normalized => \A q \in Queries : runs[q].found \subseteq workIds

\* An operation says COMPLETED only of a search in which every query was exhausted,
\* and PARTIAL only if a query was answered.
StatusTellsTheRuns ==
  /\ status = "COMPLETED" => \A q \in Queries : runs[q].status = "COMPLETED"
  /\ status = "PARTIAL" => /\ \E q \in Queries : runs[q].status # "FAILED"
                          /\ \A q \in Queries : runs[q] # NoRun

\* A record is verified once per operation, and all are before it is COMPLETED or
\* PARTIAL.
VerifiedOnce ==
  /\ \A r \in Results : checks[r] <= 1
  /\ status \in {"COMPLETED", "PARTIAL"} => \A r \in workIds : checks[r] = 1

\* A query is declared failed only when no attempt is still asking its provider.
FailedMeansNobodyAsks ==
  [][\A q \in Queries : runs'[q].status = "FAILED" /\ runs[q] = NoRun => ~Locked(q)]_searchVars

\* The operation ends.
DiscoveryEnds == <>[](status # "RUNNING")

=============================================================================

------------------------------- MODULE Literature -------------------------------
(***************************************************************************)
(* The works of a project, over the searches that found them.  An          *)
(* operation turns the records that providers returned into works:         *)
(* normalize_discovery finds the work of a record by its DOI, by an        *)
(* identifier or by the provider's own record, or creates one, with the    *)
(* project locked.  deduplicate_discovery compares all works, takes those  *)
(* that share an identifier for one publication and leaves those whose     *)
(* titles look alike for a review.  What is merged is not deleted: it only *)
(* leaves the corpus that is screened.                                     *)
(*                                                                         *)
(* How one search is run, retried and verified is the subject of           *)
(* Discovery.  Here an attempt of an operation that has ended may still    *)
(* go on beside the next operation.                                        *)
(***************************************************************************)
EXTENDS Integers, Sequences, FiniteSets

CONSTANTS
  Records,     \* what providers may return: provider and id, the DOI, all identifiers, title
  Resembling,  \* the sets of two titles that are alike
  WorkIds,     \* the ids of works, in their order: random, so in any order of creation
  None,        \* no DOI
  Retries,     \* RETRY.maximum_attempts
  Late,        \* may an attempt that timed out go on?
  MaxOps, MaxFound, MaxFaults   \* bounds

ASSUME WorkIdsAssumption == WorkIds \subseteq Nat
ASSUME RecordsAssumption ==
  Records \subseteq [provider : STRING, id : STRING, doi : STRING \cup {None},
                    ids : SUBSET STRING, title : STRING]
ASSUME LiteratureBoundsAssumption ==
  /\ Retries \in Nat \ {0} /\ Late \in BOOLEAN
  /\ MaxOps \in Nat /\ MaxFound \in Nat /\ MaxFaults \in Nat

VARIABLES
  works,     \* the work records
  groups,    \* duplicate groups of two works, with what was decided
  ops,       \* the operations, oldest first
  attempts,  \* the attempts of activities that workers have
  faults

vars == <<works, groups, ops, attempts, faults>>

\* known: identifiers, by the provider that gave them.  seen: records of providers.
WorkRecord == [doi : STRING \cup {None}, title : STRING \cup {None},
               known : SUBSET (STRING \X STRING), seen : SUBSET (STRING \X STRING)]

NoWork == [doi |-> None, title |-> None, known |-> {}, seen |-> {}]
Nothing == [i \in WorkIds |-> NoWork]

\* The ids that a table has a row for.
OnFile(table) == {i \in WorkIds : table[i] # NoWork}

\* A pair in the order of the ids.  merge: MERGE, with the first as canonical, or REVIEW_REQUIRED.
Pair == {p \in [first : WorkIds, second : WorkIds, merge : BOOLEAN] : p.first < p.second}

Operation == [found : SUBSET Records, stage : {"NORMALIZING", "DEDUPLICATING", "ENDED"},
              normalized : BOOLEAN, deduplicated : BOOLEAN]

\* table, rest: the works as the transaction sees them, and the candidates to come.
\* matches, made: the pairs to look for, and the groups that the transaction inserted.
NewAttempt(o, stage, n) ==
  [op |-> o, stage |-> stage, n |-> n, live |-> TRUE, pc |-> "idle",
   table |-> Nothing, rest |-> {}, matches |-> {}, made |-> {}]

Init ==
  /\ works = Nothing /\ groups = {}
  /\ ops = <<>> /\ attempts = {} /\ faults = 0

-----------------------------------------------------------------------------
(* Records and works                                                       *)

\* Records that share a DOI are one candidate, those without are each their own.
Candidates(found) ==
  {{r \in found : r.doi = d} : d \in {r.doi : r \in found} \ {None}}
    \cup {{r} : r \in {s \in found : s.doi = None}}

Doi(candidate) == (CHOOSE r \in candidate : TRUE).doi
Known(candidate) == UNION {{r.provider} \X r.ids : r \in candidate}
Seen(candidate) == {<<r.provider, r.id>> : r \in candidate}

\* Mutation of SameWork: only a DOI tells that a publication is on file.
SameWorkByDoi(table, candidate) ==
  {i \in OnFile(table) : Doi(candidate) # None /\ table[i].doi = Doi(candidate)}

\* The works that the first successful query of persist_canonical_work finds.
SameWork(table, candidate) ==
  LET byDoi == {i \in OnFile(table) : Doi(candidate) # None /\ table[i].doi = Doi(candidate)}
      byIdentifier == {i \in OnFile(table) : table[i].known \cap Known(candidate) # {}}
      byRecord == {i \in OnFile(table) : table[i].seen \cap Seen(candidate) # {}}
  IN IF byDoi # {} THEN byDoi ELSE IF byIdentifier # {} THEN byIdentifier ELSE byRecord

\* The title of a new work is the longest; any will do here.
NewWork(candidate) ==
  [doi |-> Doi(candidate), title |-> (CHOOSE r \in candidate : TRUE).title, known |-> {}, seen |-> {}]

\* A work and what a candidate adds to it: its own DOI and title stay.
Extended(work, candidate) ==
  [work EXCEPT !.known = @ \cup Known(candidate), !.seen = @ \cup Seen(candidate)]

\* persist_canonical_work, into a work that was found or one of a new id.
Persist(table, candidate, id) ==
  [table EXCEPT ![id] = Extended(IF SameWork(table, candidate) = {} THEN NewWork(candidate) ELSE @,
                                 candidate)]

-----------------------------------------------------------------------------
(* Duplicates                                                              *)

External(i) == {k[2] : k \in works[i].known}

\* Stages A and B; C to E.
Exact(i, j) ==
  \/ works[i].doi # None /\ works[i].doi = works[j].doi
  \/ External(i) \cap External(j) # {}
Alike(i, j) == works[i].title = works[j].title \/ {works[i].title, works[j].title} \in Resembling

\* Mutation of Precedes: the works come in the order the database has at hand.
PrecedesByChance(i, j) == i # j

\* ORDER BY id.
Precedes(i, j) == i < j

\* find_duplicate_matches, with decision_for_tier: the strongest signal of a pair counts.
Matches ==
  {[first |-> p[1], second |-> p[2], merge |-> Exact(p[1], p[2])] :
     p \in {q \in OnFile(works) \X OnFile(works) :
              Precedes(q[1], q[2]) /\ (Exact(q[1], q[2]) \/ Alike(q[1], q[2]))}}

\* canonical_ids: what is screened.
Corpus == {i \in OnFile(works) : ~\E g \in groups : g.merge /\ g.second = i}

-----------------------------------------------------------------------------
(* Operations                                                              *)

Idle == \A o \in DOMAIN ops : ops[o].stage = "ENDED"
Op == ops[Len(ops)]
At(a, stage, pc) == a.stage = stage /\ a.pc = pc
Move(a, b) == attempts' = (attempts \ {a}) \cup {b}
OperationIsFree(o) == \A a \in attempts : a.op = o => a.pc \notin {"normalizing", "comparing"}

\* Mutation of ProjectIsFree: the project is not locked.
ProjectIsAlwaysFree == TRUE

\* Only normalize_discovery locks the project for longer than a step.
ProjectIsFree == \A a \in attempts : a.pc # "normalizing"

\* Rows that refer to the project share it until they are committed.
ProjectIsUnshared == \A a \in attempts : a.made = {}

\* start_search, and what the searches found.
Start ==
  /\ Idle /\ ProjectIsFree /\ ProjectIsUnshared /\ Len(ops) < MaxOps
  /\ \E found \in SUBSET Records :
       /\ found # {} /\ Cardinality(found) <= MaxFound
       /\ ops' = Append(ops, [found |-> found, stage |-> "NORMALIZING",
                              normalized |-> FALSE, deduplicated |-> FALSE])
  /\ UNCHANGED <<works, groups, attempts, faults>>

Call ==
  /\ ~Idle /\ ~\E a \in attempts : a.op = Len(ops) /\ a.live
  /\ attempts' = attempts \cup {NewAttempt(Len(ops), Op.stage, 1)}
  /\ UNCHANGED <<works, groups, ops, faults>>

\* The answer of an activity arrives.
Answer(a) ==
  /\ a.live /\ a.pc = "done"
  /\ attempts' = attempts \ {a}
  /\ ops' = [ops EXCEPT ![a.op].stage = IF @ = "NORMALIZING" THEN "DEDUPLICATING" ELSE "ENDED"]
  /\ UNCHANGED <<works, groups, faults>>

\* normalize_discovery: the operation and the project are locked.
BeginNormalize(a) ==
  /\ At(a, "NORMALIZING", "idle") /\ OperationIsFree(a.op)
  /\ IF ops[a.op].normalized THEN Move(a, [a EXCEPT !.pc = "done"])
     ELSE /\ ProjectIsFree /\ ProjectIsUnshared
          /\ Move(a, [a EXCEPT !.pc = "normalizing", !.table = works,
                               !.rest = Candidates(ops[a.op].found)])
  /\ UNCHANGED <<works, groups, ops, faults>>

\* The ids that no work has, in nobody's eyes.
FreeIds == {i \in WorkIds \ OnFile(works) : \A b \in attempts : i \notin OnFile(b.table)}

\* The candidates with a DOI come first.
Upcoming(a) ==
  LET withDoi == {c \in a.rest : Doi(c) # None} IN IF withDoi = {} THEN a.rest ELSE withDoi

\* normalize_and_persist, for one candidate.  Of several works that a query finds the
\* database gives any.
NormalizeOne(a) ==
  /\ At(a, "NORMALIZING", "normalizing")
  /\ \E candidate \in Upcoming(a) :
       LET same == SameWork(a.table, candidate) IN
       \E id \in IF same = {} THEN FreeIds ELSE same :
         Move(a, [a EXCEPT !.table = Persist(@, candidate, id), !.rest = @ \ {candidate}])
  /\ UNCHANGED <<works, groups, ops, faults>>

CommitNormalize(a) ==
  /\ At(a, "NORMALIZING", "normalizing") /\ a.rest = {}
  /\ works' = [i \in WorkIds |-> IF i \in OnFile(a.table) THEN a.table[i] ELSE works[i]]
  /\ ops' = [ops EXCEPT ![a.op].normalized = TRUE]
  /\ Move(a, [a EXCEPT !.pc = "done", !.table = Nothing])
  /\ UNCHANGED <<groups, faults>>

\* deduplicate_discovery: the works are read and compared, the project is not locked.
BeginDeduplicate(a) ==
  /\ At(a, "DEDUPLICATING", "idle") /\ OperationIsFree(a.op)
  /\ Move(a, IF ops[a.op].deduplicated THEN [a EXCEPT !.pc = "done"]
             ELSE [a EXCEPT !.pc = "comparing", !.matches = Matches])
  /\ UNCHANGED <<works, groups, ops, faults>>

\* find_group_containing_pair.
Grouped(m) == \E g \in groups : {g.first, g.second} = {m.first, m.second}

\* The pairs of an exact signal come first; within a stage the order is that of the
\* ids here, that of its groups in the code.
Before(m, n) ==
  IF m.merge # n.merge THEN m.merge
  ELSE m.first < n.first \/ (m.first = n.first /\ m.second <= n.second)
NextMatches(a) == {m \in a.matches : \A n \in a.matches : Before(m, n)}

\* persist_duplicate_match: two works that share a group are left as they are.  A new
\* group refers to the project, and waits until nobody has it locked.
DeduplicateOne(a) ==
  /\ At(a, "DEDUPLICATING", "comparing")
  /\ \E m \in NextMatches(a) :
       \/ Grouped(m) /\ Move(a, [a EXCEPT !.matches = @ \ {m}])
       \/ /\ ~Grouped(m) /\ ProjectIsFree
          /\ Move(a, [a EXCEPT !.matches = @ \ {m}, !.made = @ \cup {m}])
  /\ UNCHANGED <<works, groups, ops, faults>>

\* The event refers to the project, too.
CommitDeduplicate(a) ==
  /\ At(a, "DEDUPLICATING", "comparing") /\ a.matches = {} /\ ProjectIsFree
  /\ groups' = groups \cup a.made
  /\ ops' = [ops EXCEPT ![a.op].deduplicated = TRUE]
  /\ Move(a, [a EXCEPT !.pc = "done", !.made = {}])
  /\ UNCHANGED <<works, faults>>

\* The worker dies, the answer is lost, or the attempt times out and may go on; it
\* is retried, or was the last one and the operation ends.
Lose(a) ==
  LET more == a.n < Retries IN
  /\ a.live /\ faults < MaxFaults
  /\ faults' = faults + 1
  /\ \E rest \in {{}, IF Late /\ a.pc # "done" THEN {[a EXCEPT !.live = FALSE]} ELSE {}} :
       attempts' = (attempts \ {a}) \cup rest
                     \cup IF more THEN {NewAttempt(a.op, a.stage, a.n + 1)} ELSE {}
  /\ ops' = IF more THEN ops ELSE [ops EXCEPT ![a.op].stage = "ENDED"]
  /\ UNCHANGED <<works, groups>>

LateEnds(a) ==
  /\ ~a.live /\ attempts' = attempts \ {a}
  /\ UNCHANGED <<works, groups, ops, faults>>

Work(a) ==
  \/ BeginNormalize(a) \/ NormalizeOne(a) \/ CommitNormalize(a) \/ BeginDeduplicate(a)
  \/ DeduplicateOne(a) \/ CommitDeduplicate(a) \/ Answer(a) \/ LateEnds(a)

Next == Start \/ Call \/ \E a \in attempts : Work(a) \/ Lose(a)

Spec == Init /\ [][Next]_vars

-----------------------------------------------------------------------------
(* Properties                                                              *)

\* Works, groups and operations have the columns that the code gives them.
TypeOK ==
  /\ works \in [WorkIds -> WorkRecord]
  /\ groups \subseteq Pair
  /\ ops \in Seq(Operation)
  /\ faults \in 0..MaxFaults

\* Whatever operations and late attempts do side by side, a DOI has one work.
OneWorkPerDoi ==
  \A i, j \in OnFile(works) : works[i].doi # None /\ works[i].doi = works[j].doi => i = j

\* A record of which the works tell nothing.
Unheard(r) ==
  \A j \in OnFile(works) : /\ ({r.provider} \X r.ids) \cap works[j].known = {}
                           /\ <<r.provider, r.id>> \notin works[j].seen

\* A record or an identifier that is on file makes no new work, at no later search:
\* persist_canonical_work "returns the existing WorkRecord".
KnownRecordsMakeNoWork ==
  [][\A i \in OnFile(works') \ OnFile(works) :
       \E r \in Records : Unheard(r) /\ <<r.provider, r.id>> \in works'[i].seen]_vars

\* The works with which some are merged, on either side.
Closed(C) == \A g \in groups : g.merge => (g.first \in C <=> g.second \in C)

\* Merging never loses a publication: of the works that are merged with each other,
\* over however many searches, one stays in the corpus.
NoPublicationIsLost ==
  \A C \in SUBSET OnFile(works) : C # {} /\ Closed(C) => C \cap Corpus # {}

=============================================================================

---------------------------- MODULE LiteratureProofs ----------------------------
(***************************************************************************)
(* Theorems of the search for literature, for any records, works,          *)
(* operations, attempts and faults.                                        *)
(*                                                                         *)
(* First of Literature, the works over all searches: an attempt that       *)
(* normalizes has the project to itself, and what it has made so far is    *)
(* the works that were there and works for records that none of them has.  *)
(* Then of Discovery, the course of one search: an attempt that asks a     *)
(* provider is the only one of its query, and is done when normalization   *)
(* begins.                                                                 *)
(***************************************************************************)
EXTENDS Literature, Discovery, WellFoundedInduction, TLAPS

Attempt == [op : Nat, stage : {"NORMALIZING", "DEDUPLICATING", "ENDED"}, n : Nat, live : BOOLEAN,
            pc : {"idle", "normalizing", "comparing", "done"},
            table : [WorkIds -> WorkRecord], rest : SUBSET ((SUBSET Records) \ {{}}),
            matches : SUBSET Pair, made : SUBSET Pair]

\* No two works of a table have a DOI in common.
DoisDiffer(table) ==
  \A i, j \in OnFile(table) : table[i].doi # None /\ table[i].doi = table[j].doi => i = j

\* A work of the table was there, or was made for a record of which the works tell nothing.
Extends(table) ==
  /\ \A i \in OnFile(works) : /\ i \in OnFile(table)
                              /\ works[i].known \subseteq table[i].known
                              /\ works[i].seen \subseteq table[i].seen
  /\ \A i \in OnFile(table) \ OnFile(works) :
       \E r \in Records : Unheard(r) /\ <<r.provider, r.id>> \in table[i].seen

\* One attempt at most is normalizing, and has the project to itself.
OneNormalizes ==
  /\ \A a, b \in attempts : a.pc = "normalizing" /\ b.pc = "normalizing" => a = b
  /\ \A a \in attempts : a.pc = "normalizing" => DoisDiffer(a.table) /\ Extends(a.table)

Typed ==
  /\ TypeOK /\ attempts \subseteq Attempt
  /\ \A a \in attempts : a.op \in DOMAIN ops

Inv == Typed /\ DoisDiffer(works) /\ OneNormalizes

------------------------------------------------------------------------------
\* A record and what is made of it.
LEMMA CandidateTyped ==
  ASSUME NEW c \in (SUBSET Records) \ {{}}
  PROVE  /\ Doi(c) \in STRING \cup {None} /\ NewWork(c) \in WorkRecord
         /\ Known(c) \subseteq STRING \X STRING /\ Seen(c) \subseteq STRING \X STRING
         /\ NewWork(c).doi = Doi(c) /\ NewWork(c).known = {} /\ NewWork(c).seen = {}
         /\ \E r \in Records : r \in c
  <1>1. \A r \in c : /\ r \in Records /\ r.provider \in STRING /\ r.id \in STRING
                     /\ r.doi \in STRING \cup {None} /\ r.ids \in SUBSET STRING /\ r.title \in STRING
    BY RecordsAssumption
  <1>2. (CHOOSE r \in c : TRUE) \in c
    OBVIOUS
  <1>3. Known(c) \subseteq STRING \X STRING
    BY <1>1 DEF Known
  <1>4. Seen(c) \subseteq STRING \X STRING
    BY <1>1 DEF Seen
  <1>. QED
    BY <1>1, <1>2, <1>3, <1>4 DEF Doi, NewWork, WorkRecord

LEMMA CandidatesTyped ==
  ASSUME NEW found \in SUBSET Records
  PROVE  Candidates(found) \subseteq (SUBSET Records) \ {{}}
  BY DEF Candidates

\* What a candidate adds to a work.
LEMMA ExtendedTyped ==
  ASSUME NEW w \in WorkRecord, NEW c \in (SUBSET Records) \ {{}}
  PROVE  /\ Extended(w, c) \in WorkRecord /\ Extended(w, c).doi = w.doi
         /\ w.known \subseteq Extended(w, c).known /\ w.seen \subseteq Extended(w, c).seen
         /\ Seen(c) \subseteq Extended(w, c).seen
         /\ w # NoWork => Extended(w, c) # NoWork
  <1>1. Known(c) \subseteq STRING \X STRING /\ Seen(c) \subseteq STRING \X STRING
    BY CandidateTyped
  <1>2. /\ Extended(w, c).doi = w.doi /\ Extended(w, c).title = w.title
        /\ Extended(w, c).known = w.known \cup Known(c)
        /\ Extended(w, c).seen = w.seen \cup Seen(c)
    BY DEF Extended, WorkRecord
  <1>3. Extended(w, c) \in WorkRecord
    <2>1. w.known \cup Known(c) \in SUBSET (STRING \X STRING)
      BY <1>1 DEF WorkRecord
    <2>2. w.seen \cup Seen(c) \in SUBSET (STRING \X STRING)
      BY <1>1 DEF WorkRecord
    <2>. QED
      BY <2>1, <2>2 DEF Extended, WorkRecord
  <1>4. ASSUME Extended(w, c) = NoWork PROVE w = NoWork
    <2>1. w.doi = None /\ w.title = None /\ w.known = {} /\ w.seen = {}
      BY <1>2, <1>4 DEF NoWork
    <2>2. w = [doi |-> w.doi, title |-> w.title, known |-> w.known, seen |-> w.seen]
      BY DEF WorkRecord
    <2>. QED
      BY <2>1, <2>2 DEF NoWork
  <1>. QED
    BY <1>2, <1>3, <1>4

\* persist_canonical_work in a table that extends the works: a work that is made has
\* a DOI that no other has, and is for records that are unheard of.
LEMMA PersistExtends ==
  ASSUME works \in [WorkIds -> WorkRecord],
         NEW t \in [WorkIds -> WorkRecord], DoisDiffer(t), Extends(t),
         NEW c \in (SUBSET Records) \ {{}},
         NEW id \in IF SameWork(t, c) = {} THEN WorkIds \ (OnFile(t) \cup OnFile(works)) ELSE SameWork(t, c)
  PROVE  /\ Persist(t, c, id) \in [WorkIds -> WorkRecord]
         /\ DoisDiffer(Persist(t, c, id)) /\ Extends(Persist(t, c, id))
  <1>. DEFINE w == IF SameWork(t, c) = {} THEN NewWork(c) ELSE t[id]
  <1>0. SameWork(t, c) \subseteq OnFile(t) /\ OnFile(t) \subseteq WorkIds
    BY DEF SameWork, OnFile
  <1>1. w \in WorkRecord /\ id \in WorkIds
    BY <1>0, CandidateTyped
  <1>2. PICK x \in WorkRecord :
          /\ x = Extended(w, c) /\ x.doi = w.doi
          /\ w.known \subseteq x.known /\ w.seen \subseteq x.seen /\ Seen(c) \subseteq x.seen
          /\ w # NoWork => x # NoWork
    BY <1>1, ExtendedTyped
  <1>3. PICK u \in [WorkIds -> WorkRecord] : u = [t EXCEPT ![id] = x]
    OBVIOUS
  <1>4. Persist(t, c, id) = u
    BY <1>2, <1>3 DEF Persist
  <1>5. u[id] = x /\ \A i \in WorkIds : i # id => u[i] = t[i]
    BY <1>1, <1>3
  <1>6. CASE SameWork(t, c) = {}
    <2>1. id \notin OnFile(t) /\ id \notin OnFile(works) /\ w = NewWork(c)
      BY <1>6
    <2>2. OnFile(u) \subseteq OnFile(t) \cup {id} /\ OnFile(t) \subseteq OnFile(u)
      BY <1>5, <2>1 DEF OnFile
    <2>3. x.doi = Doi(c)
      BY <1>2, <2>1, CandidateTyped
    <2>4. \A i \in OnFile(t) : /\ Doi(c) # None => t[i].doi # Doi(c)
                               /\ t[i].known \cap Known(c) = {}
                               /\ t[i].seen \cap Seen(c) = {}
      BY <1>6 DEF SameWork
    <2>5. DoisDiffer(u)
      BY <1>0, <1>5, <2>1, <2>2, <2>3, <2>4 DEF DoisDiffer
    <2>6. PICK r \in Records : r \in c
      BY CandidateTyped
    <2>7. <<r.provider, r.id>> \in Seen(c) /\ ({r.provider} \X r.ids) \subseteq Known(c)
      BY <2>6 DEF Seen, Known
    <2>8. Unheard(r)
      BY <2>4, <2>7 DEF Unheard, Extends
    <2>9. <<r.provider, r.id>> \in u[id].seen
      BY <1>2, <1>5, <2>7
    <2>10. ASSUME NEW i \in OnFile(works)
           PROVE  i \in OnFile(u) /\ works[i].known \subseteq u[i].known /\ works[i].seen \subseteq u[i].seen
      BY <1>0, <1>5, <2>1, <2>2 DEF Extends
    <2>11. ASSUME NEW i \in OnFile(u) \ OnFile(works)
           PROVE  \E s \in Records : Unheard(s) /\ <<s.provider, s.id>> \in u[i].seen
      BY <1>0, <1>5, <2>2, <2>8, <2>9 DEF Extends
    <2>. QED
      BY <1>4, <2>5, <2>10, <2>11 DEF Extends
  <1>7. CASE SameWork(t, c) # {}
    <2>1. id \in OnFile(t) /\ w = t[id] /\ t[id] # NoWork
      BY <1>0, <1>7 DEF OnFile
    <2>2. OnFile(u) = OnFile(t)
      BY <1>2, <1>5, <2>1 DEF OnFile
    <2>3. \A i \in OnFile(t) : u[i].doi = t[i].doi /\ t[i].known \subseteq u[i].known /\ t[i].seen \subseteq u[i].seen
      BY <1>0, <1>2, <1>5, <2>1
    <2>4. DoisDiffer(u)
      BY <2>2, <2>3 DEF DoisDiffer
    <2>5. ASSUME NEW i \in OnFile(works)
          PROVE  i \in OnFile(u) /\ works[i].known \subseteq u[i].known /\ works[i].seen \subseteq u[i].seen
      BY <2>2, <2>3 DEF Extends
    <2>6. ASSUME NEW i \in OnFile(u) \ OnFile(works)
          PROVE  \E s \in Records : Unheard(s) /\ <<s.provider, s.id>> \in u[i].seen
      BY <2>2, <2>3 DEF Extends
    <2>. QED
      BY <1>4, <2>4, <2>5, <2>6 DEF Extends
  <1>. QED
    BY <1>6, <1>7

------------------------------------------------------------------------------
\* An attempt and its operation.
LEMMA AttemptFacts ==
  ASSUME Inv, NEW a \in attempts
  PROVE  /\ a \in Attempt /\ a.op \in DOMAIN ops /\ ops \in Seq(Operation)
         /\ ops[a.op] \in Operation
         /\ a.pc = "normalizing" => DoisDiffer(a.table) /\ Extends(a.table)
  BY DEF Inv, Typed, TypeOK, OneNormalizes

LEMMA OperationReplaced ==
  ASSUME NEW s \in Seq(Operation), NEW o \in DOMAIN s, NEW r \in Operation
  PROVE  /\ [s EXCEPT ![o] = r] \in Seq(Operation)
         /\ DOMAIN [s EXCEPT ![o] = r] = DOMAIN s
  OBVIOUS

\* A transaction that leaves the works alone.
LEMMA Transaction ==
  ASSUME Inv, NEW a \in attempts, NEW b \in Attempt, Move(a, b), b.op = a.op,
         UNCHANGED <<works, faults>>, groups' \subseteq Pair,
         ops' \in Seq(Operation), DOMAIN ops' = DOMAIN ops,
         b.pc = "normalizing" => /\ a.pc = "normalizing" \/ ProjectIsFree
                                 /\ DoisDiffer(b.table) /\ Extends(b.table)
  PROVE  Inv'
  <1>1. Typed'
    BY DEF Inv, Typed, TypeOK, Move
  <1>2. DoisDiffer(works)'
    BY DEF Inv, DoisDiffer, OnFile
  <1>3. \A t : Extends(t) => Extends(t)'
    BY DEF Extends, Unheard
  <1>4. OneNormalizes'
    <2>1. \A c \in attempts : c.pc = "normalizing" => DoisDiffer(c.table) /\ Extends(c.table)
      BY DEF Inv, OneNormalizes
    <2>2. \A c \in attempts' : c.pc = "normalizing" => DoisDiffer(c.table) /\ Extends(c.table)'
      BY <1>3, <2>1 DEF Move
    <2>3. \A c \in attempts \ {a} : b.pc = "normalizing" => c.pc # "normalizing"
      BY DEF Inv, OneNormalizes, ProjectIsFree
    <2>4. \A c, d \in attempts' : c.pc = "normalizing" /\ d.pc = "normalizing" => c = d
      BY <2>3 DEF Inv, OneNormalizes, Move
    <2>. QED
      BY <2>2, <2>4 DEF OneNormalizes
  <1>. QED
    BY <1>1, <1>2, <1>4 DEF Inv

\* A transaction that only ends.
LEMMA EndedAttempt ==
  ASSUME NEW a \in Attempt
  PROVE  \E b \in Attempt : b = [a EXCEPT !.pc = "done"] /\ b.op = a.op /\ b.pc = "done"
  <1>1. [a EXCEPT !.pc = "done"] \in Attempt
    BY DEF Attempt
  <1>2. [a EXCEPT !.pc = "done"].op = a.op /\ [a EXCEPT !.pc = "done"].pc = "done"
    BY DEF Attempt
  <1>. QED
    BY <1>1, <1>2

LEMMA BeginNormalizeKeepsInv ==
  ASSUME Inv, NEW a \in attempts, BeginNormalize(a)
  PROVE  Inv'
  <1>1. a \in Attempt /\ ops[a.op] \in Operation /\ UNCHANGED <<works, groups, ops, faults>>
    BY AttemptFacts DEF BeginNormalize
  <1>2. groups' \subseteq Pair /\ ops' \in Seq(Operation) /\ DOMAIN ops' = DOMAIN ops
    BY <1>1 DEF Inv, Typed, TypeOK
  <1>3. CASE Move(a, [a EXCEPT !.pc = "done"])
    <2>1. PICK b \in Attempt : b = [a EXCEPT !.pc = "done"] /\ b.op = a.op /\ b.pc = "done"
      BY <1>1, EndedAttempt
    <2>2. Move(a, b)
      BY <1>3, <2>1
    <2>. QED
      BY <1>1, <1>2, <2>1, <2>2, Transaction
  <1>4. CASE /\ ProjectIsFree
             /\ Move(a, [a EXCEPT !.pc = "normalizing", !.table = works,
                                  !.rest = Candidates(ops[a.op].found)])
    <2>1. PICK rest \in SUBSET ((SUBSET Records) \ {{}}) : rest = Candidates(ops[a.op].found)
      <3>1. ops[a.op].found \in SUBSET Records
        BY <1>1 DEF Operation
      <3>. QED
        BY <3>1, CandidatesTyped
    <2>2. PICK table \in [WorkIds -> WorkRecord] : table = works
      BY DEF Inv, Typed, TypeOK
    <2>. DEFINE b == [a EXCEPT !.pc = "normalizing", !.table = table, !.rest = rest]
    <2>3. b \in Attempt
      BY <1>1 DEF Attempt
    <2>4. b.op = a.op /\ b.table = table
      BY <1>1 DEF Attempt
    <2>5. Move(a, b)
      BY <1>4, <2>1, <2>2
    <2>6. DoisDiffer(table)
      BY <2>2 DEF Inv
    <2>7. Extends(table)
      BY <2>2 DEF Extends
    <2>. HIDE DEF b
    <2>. QED
      BY <1>1, <1>2, <1>4, <2>3, <2>4, <2>5, <2>6, <2>7, Transaction
  <1>. QED
    BY <1>3, <1>4 DEF BeginNormalize

LEMMA NormalizeOneKeepsInv ==
  ASSUME Inv, NEW a \in attempts, NormalizeOne(a)
  PROVE  Inv'
  <1>1. /\ a \in Attempt /\ a.pc = "normalizing" /\ DoisDiffer(a.table) /\ Extends(a.table)
        /\ UNCHANGED <<works, groups, ops, faults>>
    BY AttemptFacts DEF NormalizeOne, At
  <1>2. /\ groups' \subseteq Pair /\ ops' \in Seq(Operation) /\ DOMAIN ops' = DOMAIN ops
        /\ works \in [WorkIds -> WorkRecord]
    BY <1>1 DEF Inv, Typed, TypeOK
  <1>3. /\ a.table \in [WorkIds -> WorkRecord]
        /\ a.rest \in SUBSET ((SUBSET Records) \ {{}})
    BY <1>1 DEF Attempt
  <1>4. PICK c \in Upcoming(a) :
          \E id \in IF SameWork(a.table, c) = {} THEN FreeIds ELSE SameWork(a.table, c) :
            Move(a, [a EXCEPT !.table = Persist(@, c, id), !.rest = @ \ {c}])
    BY DEF NormalizeOne
  <1>5. PICK id \in IF SameWork(a.table, c) = {} THEN FreeIds ELSE SameWork(a.table, c) :
          Move(a, [a EXCEPT !.table = Persist(@, c, id), !.rest = @ \ {c}])
    BY <1>4
  <1>6. c \in (SUBSET Records) \ {{}}
    BY <1>3 DEF Upcoming
  <1>7. id \in IF SameWork(a.table, c) = {} THEN WorkIds \ (OnFile(a.table) \cup OnFile(works))
               ELSE SameWork(a.table, c)
    BY DEF FreeIds
  <1>8. PICK table \in [WorkIds -> WorkRecord] :
          table = Persist(a.table, c, id) /\ DoisDiffer(table) /\ Extends(table)
    BY <1>1, <1>2, <1>3, <1>6, <1>7, PersistExtends
  <1>9. PICK rest \in SUBSET ((SUBSET Records) \ {{}}) : rest = a.rest \ {c}
    BY <1>3
  <1>. DEFINE b == [a EXCEPT !.table = table, !.rest = rest]
  <1>10. b \in Attempt
    BY <1>1 DEF Attempt
  <1>11. b.op = a.op /\ b.table = table
    BY <1>1 DEF Attempt
  <1>12. Move(a, b)
    BY <1>5, <1>8, <1>9
  <1>. HIDE DEF b
  <1>. QED
    BY <1>1, <1>2, <1>8, <1>10, <1>11, <1>12, Transaction

\* What is committed is the table: nobody changed the works since it was read.
LEMMA CommittedTable ==
  ASSUME Inv, NEW a \in attempts, CommitNormalize(a)
  PROVE  works' = a.table /\ Extends(a.table)
  <1>1. /\ a \in Attempt /\ a.pc = "normalizing" /\ Extends(a.table)
        /\ works' = [i \in WorkIds |-> IF i \in OnFile(a.table) THEN a.table[i] ELSE works[i]]
    BY AttemptFacts DEF CommitNormalize, At
  <1>2. a.table \in [WorkIds -> WorkRecord]
    BY <1>1 DEF Attempt
  <1>3. \A i \in WorkIds : i \notin OnFile(a.table) => works[i] = a.table[i]
    BY <1>1 DEF Extends, OnFile
  <1>. QED
    BY <1>1, <1>2, <1>3

LEMMA CommitNormalizeKeepsInv ==
  ASSUME Inv, NEW a \in attempts, CommitNormalize(a)
  PROVE  Inv'
  <1>1. /\ a \in Attempt /\ a.pc = "normalizing" /\ DoisDiffer(a.table)
        /\ a.op \in DOMAIN ops /\ ops \in Seq(Operation) /\ ops[a.op] \in Operation
        /\ UNCHANGED <<groups, faults>>
    BY AttemptFacts DEF CommitNormalize, At
  <1>2. works' = a.table /\ a.table \in [WorkIds -> WorkRecord]
    BY <1>1, CommittedTable DEF Attempt
  <1>3. PICK r \in Operation : r = [ops[a.op] EXCEPT !.normalized = TRUE]
    BY <1>1 DEF Operation
  <1>4. ops' = [ops EXCEPT ![a.op] = r]
    BY <1>3 DEF CommitNormalize
  <1>5. ops' \in Seq(Operation) /\ DOMAIN ops' = DOMAIN ops
    BY <1>1, <1>4, OperationReplaced
  <1>6. PICK table \in [WorkIds -> WorkRecord] : table = Nothing
    <2>1. NoWork \in WorkRecord
      BY DEF NoWork, WorkRecord
    <2>. QED
      BY <2>1 DEF Nothing
  <1>. DEFINE b == [a EXCEPT !.pc = "done", !.table = table]
  <1>7. b \in Attempt
    BY <1>1 DEF Attempt
  <1>8. b.op = a.op /\ b.pc = "done"
    BY <1>1 DEF Attempt
  <1>9. attempts' = (attempts \ {a}) \cup {b}
    BY <1>6 DEF CommitNormalize, Move
  <1>. HIDE DEF b
  <1>10. Typed'
    BY <1>1, <1>2, <1>5, <1>7, <1>8, <1>9 DEF Inv, Typed, TypeOK
  <1>11. DoisDiffer(works)'
    BY <1>1, <1>2 DEF DoisDiffer, OnFile
  <1>12. \A c \in attempts' : c.pc # "normalizing"
    BY <1>1, <1>8, <1>9 DEF Inv, OneNormalizes
  <1>. QED
    BY <1>10, <1>11, <1>12 DEF Inv, OneNormalizes

\* Pairs that deduplicate_discovery compares are in the order of its query.
LEMMA MatchesAreOrdered == Matches \subseteq Pair
  <1>1. SUFFICES ASSUME NEW m \in Matches PROVE m \in Pair
    OBVIOUS
  <1>2. PICK p \in OnFile(works) \X OnFile(works) :
           /\ Precedes(p[1], p[2])
           /\ m = [first |-> p[1], second |-> p[2], merge |-> Exact(p[1], p[2])]
    BY <1>1 DEF Matches
  <1>3. p[1] \in WorkIds /\ p[2] \in WorkIds
    BY <1>2 DEF OnFile
  <1>4. Exact(p[1], p[2]) \in BOOLEAN
    BY DEF Exact
  <1>. QED
    BY <1>2, <1>3, <1>4 DEF Pair, Precedes

LEMMA BeginDeduplicateKeepsInv ==
  ASSUME Inv, NEW a \in attempts, BeginDeduplicate(a)
  PROVE  Inv'
  <1>1. a \in Attempt /\ a.pc = "idle" /\ UNCHANGED <<works, groups, ops, faults>>
    BY AttemptFacts DEF BeginDeduplicate, At
  <1>2. groups' \subseteq Pair /\ ops' \in Seq(Operation) /\ DOMAIN ops' = DOMAIN ops
    BY <1>1 DEF Inv, Typed, TypeOK
  <1>3. CASE Move(a, [a EXCEPT !.pc = "done"])
    <2>1. PICK b \in Attempt : b = [a EXCEPT !.pc = "done"] /\ b.op = a.op /\ b.pc = "done"
      BY <1>1, EndedAttempt
    <2>2. Move(a, b)
      BY <1>3, <2>1
    <2>. QED
      BY <1>1, <1>2, <2>1, <2>2, Transaction
  <1>4. CASE Move(a, [a EXCEPT !.pc = "comparing", !.matches = Matches])
    <2>1. PICK matches \in SUBSET Pair : matches = Matches
      BY MatchesAreOrdered
    <2>. DEFINE b == [a EXCEPT !.pc = "comparing", !.matches = matches]
    <2>2. b \in Attempt
      BY <1>1 DEF Attempt
    <2>3. b.op = a.op /\ b.pc = "comparing"
      BY <1>1 DEF Attempt
    <2>4. Move(a, b)
      BY <1>4, <2>1
    <2>. HIDE DEF b
    <2>. QED
      BY <1>1, <1>2, <2>2, <2>3, <2>4, Transaction
  <1>. QED
    BY <1>3, <1>4 DEF BeginDeduplicate, Move

LEMMA DeduplicateOneKeepsInv ==
  ASSUME Inv, NEW a \in attempts, DeduplicateOne(a)
  PROVE  Inv'
  <1>1. a \in Attempt /\ a.pc = "comparing" /\ UNCHANGED <<works, groups, ops, faults>>
    BY AttemptFacts DEF DeduplicateOne, At
  <1>2. groups' \subseteq Pair /\ ops' \in Seq(Operation) /\ DOMAIN ops' = DOMAIN ops
    BY <1>1 DEF Inv, Typed, TypeOK
  <1>3. PICK m \in a.matches :
          \/ Move(a, [a EXCEPT !.matches = @ \ {m}])
          \/ Move(a, [a EXCEPT !.matches = @ \ {m}, !.made = @ \cup {m}])
    BY DEF DeduplicateOne, NextMatches
  <1>4. a.matches \in SUBSET Pair /\ a.made \in SUBSET Pair
    BY <1>1 DEF Attempt
  <1>. DEFINE skipped == [a EXCEPT !.matches = @ \ {m}]
  <1>. DEFINE grouped == [a EXCEPT !.matches = @ \ {m}, !.made = @ \cup {m}]
  <1>5. /\ skipped \in Attempt /\ skipped.op = a.op /\ skipped.pc = "comparing"
        /\ grouped \in Attempt /\ grouped.op = a.op /\ grouped.pc = "comparing"
    <2>1. a.matches \ {m} \in SUBSET Pair /\ a.made \cup {m} \in SUBSET Pair
      BY <1>4
    <2>. QED
      BY <1>1, <2>1 DEF Attempt
  <1>6. PICK b : Move(a, b) /\ (b = skipped \/ b = grouped)
    BY <1>3
  <1>7. b \in Attempt /\ b.op = a.op /\ b.pc = "comparing"
    BY <1>5, <1>6
  <1>. HIDE DEF skipped, grouped
  <1>. QED
    BY <1>1, <1>2, <1>6, <1>7, Transaction

LEMMA CommitDeduplicateKeepsInv ==
  ASSUME Inv, NEW a \in attempts, CommitDeduplicate(a)
  PROVE  Inv'
  <1>1. /\ a \in Attempt /\ a.op \in DOMAIN ops /\ ops \in Seq(Operation) /\ ops[a.op] \in Operation
        /\ UNCHANGED <<works, faults>>
    BY AttemptFacts DEF CommitDeduplicate
  <1>2. groups' \subseteq Pair
    <2>1. a.made \subseteq Pair /\ groups \subseteq Pair
      BY <1>1 DEF Attempt, Inv, Typed, TypeOK
    <2>. QED
      BY <2>1 DEF CommitDeduplicate
  <1>3. PICK r \in Operation : r = [ops[a.op] EXCEPT !.deduplicated = TRUE]
    BY <1>1 DEF Operation
  <1>4. ops' = [ops EXCEPT ![a.op] = r]
    BY <1>3 DEF CommitDeduplicate
  <1>5. ops' \in Seq(Operation) /\ DOMAIN ops' = DOMAIN ops
    BY <1>1, <1>4, OperationReplaced
  <1>. DEFINE b == [a EXCEPT !.pc = "done", !.made = {}]
  <1>6. b \in Attempt
    BY <1>1 DEF Attempt
  <1>7. b.op = a.op /\ b.pc = "done"
    BY <1>1 DEF Attempt
  <1>8. Move(a, b)
    BY DEF CommitDeduplicate
  <1>. HIDE DEF b
  <1>. QED
    BY <1>1, <1>2, <1>5, <1>6, <1>7, <1>8, Transaction

\* Requests and the workflow leave the works alone; attempts are added or leave.
LEMMA WorkflowKeepsInv ==
  ASSUME Inv, UNCHANGED <<works, groups>>, faults' \in 0..MaxFaults,
         ops' \in Seq(Operation), attempts' \subseteq Attempt,
         \A b \in attempts' : b.op \in DOMAIN ops',
         \A b \in attempts' : b.pc = "normalizing" => b \in attempts
  PROVE  Inv'
  <1>1. Typed'
    <2>1. TypeOK'
      BY DEF Inv, Typed, TypeOK
    <2>. QED
      BY <2>1, Zenon DEF Typed
  <1>2. DoisDiffer(works)' /\ \A t : Extends(t) => Extends(t)'
    BY DEF Inv, DoisDiffer, OnFile, Extends, Unheard
  <1>3. OneNormalizes'
    <2>1. \A c \in attempts : c.pc = "normalizing" => DoisDiffer(c.table) /\ Extends(c.table)
      BY DEF Inv, OneNormalizes
    <2>2. \A c \in attempts' : c.pc = "normalizing" => DoisDiffer(c.table) /\ Extends(c.table)'
      BY <1>2, <2>1
    <2>3. \A c, d \in attempts' : c.pc = "normalizing" /\ d.pc = "normalizing" => c = d
      BY DEF Inv, OneNormalizes
    <2>. QED
      BY <2>2, <2>3 DEF OneNormalizes
  <1>. QED
    BY <1>1, <1>2, <1>3 DEF Inv

LEMMA NewAttemptTyped ==
  ASSUME NEW o \in Nat, NEW at \in {"NORMALIZING", "DEDUPLICATING", "ENDED"}, NEW n \in Nat
  PROVE  /\ NewAttempt(o, at, n) \in Attempt
         /\ NewAttempt(o, at, n).op = o /\ NewAttempt(o, at, n).pc = "idle"
  <1>1. Nothing \in [WorkIds -> WorkRecord]
    <2>1. NoWork \in WorkRecord
      BY DEF NoWork, WorkRecord
    <2>. QED
      BY <2>1 DEF Nothing
  <1>. QED
    BY <1>1 DEF Attempt, NewAttempt

LEMMA StartKeepsInv ==
  ASSUME Inv, Start
  PROVE  Inv'
  <1>1. PICK found \in SUBSET Records :
          ops' = Append(ops, [found |-> found, stage |-> "NORMALIZING",
                              normalized |-> FALSE, deduplicated |-> FALSE])
    BY DEF Start
  <1>2. [found |-> found, stage |-> "NORMALIZING", normalized |-> FALSE, deduplicated |-> FALSE] \in Operation
    BY DEF Operation
  <1>3. ops \in Seq(Operation)
    BY DEF Inv, Typed, TypeOK
  <1>4. ops' \in Seq(Operation) /\ DOMAIN ops \subseteq DOMAIN ops'
    BY <1>1, <1>2, <1>3
  <1>. QED
    BY <1>4, WorkflowKeepsInv DEF Start, Inv, Typed, TypeOK

LEMMA CallKeepsInv ==
  ASSUME Inv, Call
  PROVE  Inv'
  <1>1. ops \in Seq(Operation) /\ ~Idle
    BY DEF Inv, Typed, TypeOK, Call
  <1>2. Len(ops) \in DOMAIN ops /\ Len(ops) \in Nat /\ ops[Len(ops)] \in Operation
    BY <1>1 DEF Idle
  <1>3. Op.stage \in {"NORMALIZING", "DEDUPLICATING", "ENDED"}
    BY <1>2 DEF Op, Operation
  <1>4. PICK b \in Attempt : b = NewAttempt(Len(ops), Op.stage, 1) /\ b.op = Len(ops) /\ b.pc = "idle"
    BY <1>2, <1>3, NewAttemptTyped
  <1>5. attempts' = attempts \cup {b}
    BY <1>4 DEF Call
  <1>. QED
    BY <1>1, <1>2, <1>4, <1>5, WorkflowKeepsInv DEF Call, Inv, Typed, TypeOK

LEMMA AnswerKeepsInv ==
  ASSUME Inv, NEW a \in attempts, Answer(a)
  PROVE  Inv'
  <1>1. a.op \in DOMAIN ops /\ ops \in Seq(Operation) /\ ops[a.op] \in Operation
    BY AttemptFacts
  <1>2. PICK r \in Operation :
          r = [ops[a.op] EXCEPT !.stage = IF @ = "NORMALIZING" THEN "DEDUPLICATING" ELSE "ENDED"]
    BY <1>1 DEF Operation
  <1>3. ops' = [ops EXCEPT ![a.op] = r]
    BY <1>2 DEF Answer
  <1>4. ops' \in Seq(Operation) /\ DOMAIN ops' = DOMAIN ops
    BY <1>1, <1>3, OperationReplaced
  <1>. QED
    BY <1>4, WorkflowKeepsInv DEF Answer, Inv, Typed, TypeOK

LEMMA LoseKeepsInv ==
  ASSUME Inv, NEW a \in attempts, Lose(a)
  PROVE  Inv'
  <1>1. /\ a \in Attempt /\ a.op \in DOMAIN ops /\ ops \in Seq(Operation) /\ ops[a.op] \in Operation
        /\ UNCHANGED <<works, groups>>
    BY AttemptFacts DEF Lose
  <1>2. PICK late \in Attempt : late = [a EXCEPT !.live = FALSE]
    BY <1>1 DEF Attempt
  <1>3. late.op = a.op /\ late.pc = a.pc /\ late.table = a.table
    BY <1>1, <1>2 DEF Attempt
  <1>4. PICK new \in Attempt : new = NewAttempt(a.op, a.stage, a.n + 1) /\ new.op = a.op /\ new.pc = "idle"
    <2>1. a.op \in Nat /\ a.stage \in {"NORMALIZING", "DEDUPLICATING", "ENDED"} /\ a.n + 1 \in Nat
      BY <1>1 DEF Attempt
    <2>. QED
      BY <2>1, NewAttemptTyped
  <1>5. attempts' \subseteq (attempts \ {a}) \cup {late, new}
    BY <1>2, <1>4 DEF Lose
  <1>6. ops' \in Seq(Operation) /\ DOMAIN ops' = DOMAIN ops
    <2>1. PICK r \in Operation : r = [ops[a.op] EXCEPT !.stage = "ENDED"]
      BY <1>1 DEF Operation
    <2>2. [ops EXCEPT ![a.op] = r] \in Seq(Operation) /\ DOMAIN [ops EXCEPT ![a.op] = r] = DOMAIN ops
      BY <1>1, OperationReplaced
    <2>3. ops' = ops \/ ops' = [ops EXCEPT ![a.op] = r]
      BY <2>1 DEF Lose
    <2>. QED
      BY <1>1, <2>2, <2>3
  <1>7. faults' \in 0..MaxFaults
    BY LiteratureBoundsAssumption DEF Lose, Inv, Typed, TypeOK
  <1>8. Typed'
    BY <1>1, <1>3, <1>4, <1>5, <1>6, <1>7 DEF Inv, Typed, TypeOK
  <1>9. DoisDiffer(works)' /\ \A t : Extends(t) => Extends(t)'
    BY <1>1 DEF Inv, DoisDiffer, OnFile, Extends, Unheard
  <1>10. OneNormalizes'
    <2>1. \A c \in attempts \ {a} : a.pc = "normalizing" => c.pc # "normalizing"
      BY DEF Inv, OneNormalizes
    <2>2. \A c, d \in attempts' : c.pc = "normalizing" /\ d.pc = "normalizing" => c = d
      BY <1>3, <1>4, <1>5, <2>1 DEF Inv, OneNormalizes
    <2>3. \A c \in attempts' : c.pc = "normalizing" => DoisDiffer(c.table) /\ Extends(c.table)
      BY <1>3, <1>4, <1>5 DEF Inv, OneNormalizes
    <2>. QED
      BY <1>9, <2>2, <2>3 DEF OneNormalizes
  <1>. QED
    BY <1>8, <1>9, <1>10 DEF Inv

LEMMA InvInit == Init => Inv
  <1> SUFFICES ASSUME Init PROVE Inv
    OBVIOUS
  <1>1. NoWork \in WorkRecord
    BY DEF NoWork, WorkRecord
  <1>2. TypeOK
    BY <1>1, LiteratureBoundsAssumption DEF Init, TypeOK, Nothing
  <1>3. DoisDiffer(works)
    BY DEF Init, Nothing, DoisDiffer, OnFile
  <1>. QED
    BY <1>2, <1>3 DEF Init, Inv, Typed, OneNormalizes

LEMMA InvStep ==
  ASSUME Inv, [Next]_vars
  PROVE  Inv'
  <1>1. CASE Start
    BY <1>1, StartKeepsInv
  <1>2. CASE Call
    BY <1>2, CallKeepsInv
  <1>3. ASSUME NEW a \in attempts, Work(a) \/ Lose(a) PROVE Inv'
    <2>1. CASE BeginNormalize(a)
      BY <2>1, BeginNormalizeKeepsInv
    <2>2. CASE NormalizeOne(a)
      BY <2>2, NormalizeOneKeepsInv
    <2>3. CASE CommitNormalize(a)
      BY <2>3, CommitNormalizeKeepsInv
    <2>4. CASE BeginDeduplicate(a)
      BY <2>4, BeginDeduplicateKeepsInv
    <2>5. CASE CommitDeduplicate(a)
      BY <2>5, CommitDeduplicateKeepsInv
    <2>6. CASE Answer(a)
      BY <2>6, AnswerKeepsInv
    <2>7. CASE LateEnds(a)
      BY <2>7, WorkflowKeepsInv DEF LateEnds, Inv, Typed, TypeOK
    <2>8. CASE Lose(a)
      BY <2>8, LoseKeepsInv
    <2>9. CASE DeduplicateOne(a)
      BY <2>9, DeduplicateOneKeepsInv
    <2>. QED
      BY <1>3, <2>1, <2>2, <2>3, <2>4, <2>5, <2>6, <2>7, <2>8, <2>9 DEF Work
  <1>4. CASE UNCHANGED vars
    BY <1>4, WorkflowKeepsInv DEF vars, Inv, Typed, TypeOK
  <1>. QED
    BY <1>1, <1>2, <1>3, <1>4 DEF Next

LEMMA Invariant == Spec => []Inv
  <1>1. Inv /\ [Next]_vars => Inv'
    BY InvStep
  <1>. QED
    BY InvInit, <1>1, PTL DEF Spec

\* Ids have a lowest in every set.
LEMMA LowestId ==
  ASSUME NEW C \in SUBSET WorkIds, C # {}
  PROVE  \E x \in C : \A y \in C : ~(y < x)
  <1>1. C \subseteq Nat
    BY WorkIdsAssumption
  <1>2. PICK x \in C : \A y \in C : <<y, x>> \notin OpToRel(<, Nat)
    BY <1>1, NatLessThanWellFounded, WFMin
  <1>. QED
    BY <1>1, <1>2 DEF OpToRel

\* The lowest of some works that are closed under merging is in the corpus: who
\* would remove it is lower, and one of them.
LEMMA LowestStays == Inv => NoPublicationIsLost
  <1>. SUFFICES ASSUME Inv, NEW C \in SUBSET OnFile(works), C # {}, Closed(C)
                PROVE  C \cap Corpus # {}
    BY DEF NoPublicationIsLost
  <1>1. C \in SUBSET WorkIds
    BY DEF OnFile
  <1>2. PICK x \in C : \A y \in C : ~(y < x)
    BY <1>1, LowestId
  <1>3. ASSUME NEW g \in groups, g.merge, g.second = x PROVE FALSE
    <2>1. g.first \in C
      BY <1>3 DEF Closed
    <2>2. g.first < g.second
      BY DEF Inv, Typed, TypeOK, Pair
    <2>. QED
      BY <1>2, <1>3, <2>1, <2>2
  <1>. QED
    BY <1>2, <1>3 DEF Corpus

\* Works, groups, operations and faults keep their types; a group is two works in the
\* order of their ids.
THEOREM TypeCorrect == Spec => []TypeOK
  <1>1. Inv => TypeOK
    BY DEF Inv, Typed
  <1>. QED
    BY Invariant, <1>1, PTL

\* normalize_discovery locks the project, so that nobody makes a work between its
\* look-up of a DOI and its insert: no two works have a DOI in common, whatever
\* searches, retries and late attempts overlap.
THEOREM OneWork == Spec => []OneWorkPerDoi
  <1>1. Inv => OneWorkPerDoi
    BY DEF Inv, DoisDiffer, OneWorkPerDoi
  <1>. QED
    BY Invariant, <1>1, PTL

\* persist_canonical_work makes a work for records only that no work has, and of which
\* no work has an identifier.
THEOREM NewsMakesWorks == Spec => KnownRecordsMakeNoWork
  <1>. DEFINE ForNews == \A i \in OnFile(works') \ OnFile(works) :
                \E r \in Records : Unheard(r) /\ <<r.provider, r.id>> \in works'[i].seen
  <1>1. ASSUME Inv, [Next]_vars PROVE ForNews
    <2>1. CASE UNCHANGED works
      BY <2>1
    <2>2. ASSUME NEW a \in attempts, CommitNormalize(a) PROVE ForNews
      BY <1>1, <2>2, CommittedTable DEF Extends
    <2>. QED
      BY <1>1, <2>1, <2>2 DEF Next, vars, Start, Call, Work, BeginNormalize, NormalizeOne,
         BeginDeduplicate, DeduplicateOne, CommitDeduplicate, Answer, LateEnds, Lose
  <1>2. Inv /\ [Next]_vars => [ForNews]_vars
    BY <1>1
  <1>. QED
    BY Invariant, <1>2, PTL DEF Spec, KnownRecordsMakeNoWork

\* Whatever searches find and however their attempts interleave, of the works that
\* find_duplicate_matches has merged with each other one is screened.
THEOREM MergingLosesNothing == Spec => []NoPublicationIsLost
  <1>. QED
    BY Invariant, LowestStays, PTL

------------------------------------------------------------------------------
(* One search.                                                               *)

(* The lock of a query: one attempt has it, and it saw no run.             *)
OneLocker ==
  \A a, b \in searches : a.locked /\ b.locked /\ a.query = b.query => a = b

(* A live attempt is the one the workflow waits for.                       *)
LiveIsAwaited ==
  /\ \A a \in searches : a.live => call[a.query] = "searching"
  /\ \A a, b \in searches : a.live /\ b.live /\ a.query = b.query => a = b

(* The workflow passes the gather when no call is open, and starts to      *)
(* normalize when every query has a run.                                   *)
StoredByStage ==
  /\ \A q \in Queries : call[q] \in {"answered", "recorded"} => runs[q] # NoRun
  /\ stage > 1 => \A q \in Queries : call[q] # "searching"
  /\ stage \in 3..7 => \A q \in Queries : runs[q] # NoRun
  /\ normalized => stage > 2 /\ \A q \in Queries : runs[q] # NoRun

(* What the stages after the searches have done.                           *)
DoneByStage ==
  /\ \A r \in Results : checks[r] = IF r \in verified THEN 1 ELSE 0
  /\ stage \in {6, 7} => workIds \subseteq verified
  /\ verdict # "none" => /\ stage > 6
                         /\ \A q \in Queries : runs[q] # NoRun
                         /\ verdict = Verdict
                         /\ workIds \subseteq verified
  /\ stage = 7 => verdict # "none"
  /\ status # "RUNNING" => stage > 6
  /\ status \in {"COMPLETED", "PARTIAL"} => verdict = status

SearchInv ==
  /\ SearchTypeOK /\ AnswersAreStored /\ NothingFoundIsLost
  /\ OneLocker /\ LiveIsAwaited /\ StoredByStage /\ DoneByStage

USE QueriesAssumption, BoundsAssumption

-----------------------------------------------------------------------------
(* Where the workflow is.                                                  *)
LEMMA Positions ==
  ASSUME stage \in 1..8
  PROVE  /\ Reached("SEARCHING") <=> stage = 1
         /\ Reached("RECORDING") <=> stage = 2
         /\ Reached("NORMALIZING") <=> stage = 3
         /\ Reached("DEDUPLICATING") <=> stage = 4
         /\ Reached("VERIFYING") <=> stage = 5
         /\ Reached("FINALIZING") <=> stage = 6
         /\ Reached("FINISHING") <=> stage = 7
BY DEF Reached, StageList

LEMMA LastStage == Len(StageList) = 8
BY DEF StageList

LEMMA SearchInvInit == SearchInit => SearchInv
<1> SUFFICES ASSUME SearchInit PROVE SearchInv
  OBVIOUS
<1>1. \A a \in searches : a \in SearchAttempt /\ ~a.locked /\ call[a.query] = "searching"
  <2>1. ASSUME NEW a \in searches
        PROVE  a \in SearchAttempt /\ ~a.locked /\ call[a.query] = "searching"
    <3>1. PICK q \in Queries : a = [query |-> q, n |-> 1, live |-> TRUE, locked |-> FALSE]
      BY DEF SearchInit
    <3>2. 1 \in 1..MaxAttempts
      OBVIOUS
    <3> QED BY <3>1, <3>2 DEF SearchInit, SearchAttempt
  <2> QED BY <2>1
<1>2. \A a, b \in searches : a.query = b.query => a = b
  <2>1. \A a \in searches : a = [query |-> a.query, n |-> 1, live |-> TRUE, locked |-> FALSE]
    BY DEF SearchInit
  <2> QED BY <2>1
<1>3. SearchTypeOK
  <2>1. searches \subseteq SearchAttempt
    BY <1>1
  <2>2. call \in [Queries -> {"searching", "answered", "failed", "recorded"}]
        /\ runs \in [Queries -> Run \cup {NoRun}] /\ checks \in [Results -> Nat]
    BY DEF SearchInit
  <2>3. /\ stage \in 1..8 /\ failures \in 0..MaxFailures
        /\ verdict = "none" /\ status = "RUNNING"
    BY DEF SearchInit
  <2>4. normalized \in BOOLEAN /\ workIds \subseteq Results /\ verified \subseteq Results
    BY DEF SearchInit
  <2> QED BY <2>1, <2>2, <2>3, <2>4 DEF SearchTypeOK
<1>4. AnswersAreStored /\ OneLocker /\ LiveIsAwaited
  BY <1>1, <1>2 DEF AnswersAreStored, OneLocker, LiveIsAwaited
<1>5. NothingFoundIsLost /\ StoredByStage /\ DoneByStage
  BY DEF SearchInit, NothingFoundIsLost, StoredByStage, DoneByStage
<1> QED BY <1>3, <1>4, <1>5 DEF SearchInv

(* A step that changes nothing but the attempts.                           *)
LEMMA OnlyAttempts ==
  ASSUME SearchInv, UNCHANGED runs, UNCHANGED After, UNCHANGED call,
         searches' \subseteq SearchAttempt,
         AnswersAreStored', OneLocker', LiveIsAwaited'
  PROVE  SearchInv'
<1>1. SearchTypeOK'
  BY DEF SearchInv, SearchTypeOK, After
<1>2. NothingFoundIsLost' /\ StoredByStage'
  BY DEF SearchInv, NothingFoundIsLost, StoredByStage, After
<1>3. DoneByStage'
  <2>1. Verdict' = Verdict
    BY DEF Verdict, Statuses
  <2> QED BY <2>1 DEF SearchInv, DoneByStage, After
<1> QED BY <1>1, <1>2, <1>3 DEF SearchInv

LEMMA FindRunInv == ASSUME SearchInv, NEW a \in searches, FindRun(a) PROVE SearchInv'
<1>1. a \in SearchAttempt /\ a.query \in Queries /\ runs[a.query] # NoRun
  BY DEF FindRun, SearchInv, SearchTypeOK, SearchAttempt
<1>2. call' \in [Queries -> {"searching", "answered", "failed", "recorded"}]
  BY <1>1 DEF FindRun, Answered, SearchInv, SearchTypeOK
<1>3. SearchTypeOK'
  BY <1>2 DEF FindRun, SearchInv, SearchTypeOK, After
<1>4. AnswersAreStored' /\ NothingFoundIsLost' /\ OneLocker'
  BY DEF FindRun, SearchInv, AnswersAreStored, NothingFoundIsLost,
     OneLocker, After
<1>5. LiveIsAwaited'
  <2>1. ASSUME NEW b \in searches', b.live PROVE call'[b.query] = "searching"
    <3>1. b \in searches /\ b # a /\ b.query \in Queries
      BY <2>1 DEF FindRun, SearchInv, SearchTypeOK, SearchAttempt
    <3>2. call[b.query] = "searching" /\ (a.live => b.query # a.query)
      BY <2>1, <3>1 DEF SearchInv, LiveIsAwaited
    <3> QED BY <3>1, <3>2, <1>1 DEF FindRun, Answered, SearchInv, SearchTypeOK
  <2> QED BY <2>1 DEF FindRun, SearchInv, LiveIsAwaited
<1>6. StoredByStage'
  BY <1>1 DEF FindRun, Answered, SearchInv, SearchTypeOK, StoredByStage,
     After
<1>7. DoneByStage'
  <2>1. Verdict' = Verdict
    BY DEF FindRun, Verdict, Statuses
  <2> QED BY <2>1 DEF FindRun, SearchInv, DoneByStage, After
<1> QED BY <1>3, <1>4, <1>5, <1>6, <1>7 DEF SearchInv

LEMMA LockQueryInv == ASSUME SearchInv, NEW a \in searches, LockQuery(a) PROVE SearchInv'
<1> DEFINE holder == [a EXCEPT !.locked = TRUE]
<1>1. /\ a \in SearchAttempt /\ a.query \in Queries
      /\ holder \in SearchAttempt /\ holder.query = a.query
      /\ holder.live = a.live /\ holder.locked
      /\ searches' = (searches \ {a}) \cup {holder}
      /\ runs[a.query] = NoRun
      /\ \A b \in searches : b.locked => b.query # a.query
  BY DEF LockQuery, Locked, SearchInv, SearchTypeOK, SearchAttempt
<1> HIDE DEF holder
<1>2. searches' \subseteq SearchAttempt
  BY <1>1 DEF SearchInv, SearchTypeOK
<1>3. AnswersAreStored'
  BY <1>1 DEF LockQuery, SearchInv, AnswersAreStored
<1>4. OneLocker'
  BY <1>1 DEF SearchInv, OneLocker
<1>5. LiveIsAwaited'
  BY <1>1 DEF LockQuery, SearchInv, LiveIsAwaited
<1> QED BY <1>2, <1>3, <1>4, <1>5, OnlyAttempts DEF LockQuery

LEMMA StorePageInv == ASSUME SearchInv, NEW a \in searches, StorePage(a) PROVE SearchInv'
<1>1. a \in SearchAttempt /\ a.query \in Queries /\ runs[a.query] = NoRun /\ a.locked
  BY DEF StorePage, SearchInv, SearchTypeOK, SearchAttempt
<1>2. PICK found \in SUBSET Results, more \in {"COMPLETED", "PARTIAL"} :
        runs' = [runs EXCEPT ![a.query] = [status |-> more, found |-> found]]
  BY DEF StorePage
<1>3. /\ runs' \in [Queries -> Run \cup {NoRun}] /\ runs'[a.query] # NoRun
      /\ \A q \in Queries : q # a.query => runs'[q] = runs[q]
  BY <1>1, <1>2 DEF SearchInv, SearchTypeOK, Run, NoRun
<1>4. call' \in [Queries -> {"searching", "answered", "failed", "recorded"}]
  BY <1>1 DEF StorePage, Answered, SearchInv, SearchTypeOK
<1>5. SearchTypeOK'
  BY <1>3, <1>4 DEF StorePage, SearchInv, SearchTypeOK, After
<1>6. AnswersAreStored' /\ OneLocker'
  <2>1. ASSUME NEW b \in searches', b.locked PROVE runs'[b.query] = NoRun
    <3>1. b \in searches /\ b # a /\ b.query \in Queries
      BY <2>1 DEF StorePage, SearchInv, SearchTypeOK, SearchAttempt
    <3>2. b.query # a.query /\ runs[b.query] = NoRun
      BY <1>1, <2>1, <3>1 DEF SearchInv, OneLocker, AnswersAreStored
    <3> QED BY <1>3, <3>1, <3>2
  <2> QED BY <2>1 DEF StorePage, SearchInv, OneLocker, AnswersAreStored
<1>7. ~normalized /\ stage \notin 3..7 /\ verdict = "none"
  BY <1>1 DEF SearchInv, StoredByStage, DoneByStage
<1>8. NothingFoundIsLost'
  BY <1>7 DEF StorePage, After, NothingFoundIsLost
<1>9. LiveIsAwaited'
  <2>1. ASSUME NEW b \in searches', b.live PROVE call'[b.query] = "searching"
    <3>1. b \in searches /\ b # a /\ b.query \in Queries
      BY <2>1 DEF StorePage, SearchInv, SearchTypeOK, SearchAttempt
    <3>2. call[b.query] = "searching" /\ (a.live => b.query # a.query)
      BY <2>1, <3>1 DEF SearchInv, LiveIsAwaited
    <3> QED BY <3>1, <3>2, <1>1 DEF StorePage, Answered, SearchInv, SearchTypeOK
  <2> QED BY <2>1 DEF StorePage, SearchInv, LiveIsAwaited
<1>10. StoredByStage'
  BY <1>1, <1>3, <1>7 DEF StorePage, Answered, SearchInv, SearchTypeOK,
     StoredByStage, After
<1>11. DoneByStage'
  BY <1>7 DEF StorePage, SearchInv, DoneByStage, After
<1> QED BY <1>5, <1>6, <1>8, <1>9, <1>10, <1>11 DEF SearchInv

LEMMA SearchFailsInv == ASSUME SearchInv, NEW a \in searches, SearchFails(a) PROVE SearchInv'
<1> DEFINE late == [a EXCEPT !.live = FALSE]
           again == [query |-> a.query, n |-> a.n + 1, live |-> TRUE, locked |-> FALSE]
<1>1. PICK rest \in {{}, IF LateAttempts THEN {late} ELSE {}} :
        IF a.n < MaxAttempts
          THEN searches' = (searches \ {a}) \cup rest \cup {again} /\ UNCHANGED call
          ELSE /\ searches' = (searches \ {a}) \cup rest
               /\ call' = [call EXCEPT ![a.query] = "failed"]
  BY DEF SearchFails
<1>2. /\ a \in SearchAttempt /\ a.query \in Queries /\ a.live /\ UNCHANGED <<runs, After>>
      /\ late \in SearchAttempt /\ late.query = a.query /\ ~late.live /\ late.locked = a.locked
      /\ a.n < MaxAttempts => again \in SearchAttempt
      /\ again.query = a.query /\ again.live /\ ~again.locked
  <2>1. a \in SearchAttempt /\ a.query \in Queries /\ a.n \in 1..MaxAttempts
    BY DEF SearchInv, SearchTypeOK, SearchAttempt
  <2>2. late \in SearchAttempt /\ late.query = a.query /\ ~late.live /\ late.locked = a.locked
    BY <2>1 DEF SearchAttempt
  <2>3. a.n < MaxAttempts => again \in SearchAttempt
    BY <2>1 DEF SearchAttempt
  <2>4. again.query = a.query /\ again.live /\ ~again.locked
    OBVIOUS
  <2> QED BY <2>1, <2>2, <2>3, <2>4 DEF SearchFails
<1> HIDE DEF late, again
<1>3. \A b \in rest : b = late
  BY <1>1
<1>4. call[a.query] = "searching" /\ \A b \in searches : b.live /\ b.query = a.query => b = a
  BY <1>2 DEF SearchInv, LiveIsAwaited
<1>5. searches' \subseteq SearchAttempt
  BY <1>1, <1>2, <1>3 DEF SearchInv, SearchTypeOK
<1>6. AnswersAreStored' /\ OneLocker'
  <2>1. ASSUME NEW b \in searches', b.locked
        PROVE  \E c \in searches : c.locked /\ c.query = b.query
                 /\ ((b = late /\ c = a) \/ (b = c /\ c # a))
    <3>1. b # again
      BY <1>2, <2>1
    <3>2. b \in searches \ {a} \/ b = late
      BY <1>1, <1>3, <3>1
    <3>3. CASE b \in searches \ {a}
      BY <2>1, <3>3
    <3>4. CASE b = late
      <4>1. a \in searches /\ a.locked /\ a.query = b.query
        BY <1>2, <2>1, <3>4
      <4> QED BY <3>4, <4>1
    <3> QED BY <3>2, <3>3, <3>4
  <2>2. AnswersAreStored'
    BY <1>2, <2>1 DEF SearchInv, AnswersAreStored
  <2>3. ASSUME NEW b \in searches', NEW c \in searches', b.locked, c.locked, b.query = c.query
        PROVE  b = c
    <3>1. PICK d \in searches : d.locked /\ d.query = b.query
                 /\ ((b = late /\ d = a) \/ (b = d /\ d # a))
      BY <2>1, <2>3
    <3>2. PICK e \in searches : e.locked /\ e.query = c.query
                 /\ ((c = late /\ e = a) \/ (c = e /\ e # a))
      BY <2>1, <2>3
    <3>3. d = e
      BY <2>3, <3>1, <3>2 DEF SearchInv, OneLocker
    <3> QED BY <3>1, <3>2, <3>3
  <2> QED BY <2>2, <2>3 DEF OneLocker
<1>7. CASE a.n < MaxAttempts
  <2>1. LiveIsAwaited'
    BY <1>1, <1>2, <1>3, <1>4, <1>7 DEF SearchInv, LiveIsAwaited
  <2> QED BY <1>1, <1>2, <1>5, <1>6, <1>7, <2>1, OnlyAttempts
<1>8. CASE ~(a.n < MaxAttempts)
  <2>1. /\ call' \in [Queries -> {"searching", "answered", "failed", "recorded"}]
        /\ call'[a.query] = "failed"
        /\ \A q \in Queries : q # a.query => call'[q] = call[q]
        /\ searches' = (searches \ {a}) \cup rest
    BY <1>1, <1>2, <1>8 DEF SearchInv, SearchTypeOK
  <2>2. LiveIsAwaited'
    <3>1. ASSUME NEW b \in searches', b.live
          PROVE  b \in searches /\ b.query \in Queries /\ b.query # a.query
      <4>1. b \in searches /\ b # a
        BY <1>2, <1>3, <2>1, <3>1
      <4> QED BY <1>4, <3>1, <4>1 DEF SearchInv, SearchTypeOK, SearchAttempt
    <3> QED BY <2>1, <3>1 DEF SearchInv, LiveIsAwaited
  <2>3. StoredByStage' /\ NothingFoundIsLost'
    BY <1>2, <2>1 DEF SearchInv, StoredByStage, NothingFoundIsLost, After
  <2>4. DoneByStage'
    <3>1. Verdict' = Verdict
      BY <1>2 DEF Verdict, Statuses
    <3> QED BY <1>2, <3>1 DEF SearchInv, DoneByStage, After
  <2>5. SearchTypeOK'
    BY <1>2, <1>5, <2>1 DEF SearchInv, SearchTypeOK, After
  <2> QED BY <1>6, <2>2, <2>3, <2>4, <2>5 DEF SearchInv
<1> QED BY <1>7, <1>8

LEMMA LateDiesInv == ASSUME SearchInv, NEW a \in searches, LateDies(a) PROVE SearchInv'
<1>1. searches' \subseteq searches /\ UNCHANGED <<call, runs, After>>
  BY DEF LateDies
<1>2. searches' \subseteq SearchAttempt
  BY <1>1 DEF SearchInv, SearchTypeOK
<1>3. AnswersAreStored' /\ OneLocker' /\ LiveIsAwaited'
  BY <1>1 DEF SearchInv, AnswersAreStored, OneLocker, LiveIsAwaited
<1> QED BY <1>1, <1>2, <1>3, OnlyAttempts

-----------------------------------------------------------------------------
(* The workflow.                                                           *)

LEMMA RecordFailureInv ==
  ASSUME SearchInv, NEW q \in Queries, RecordFailure(q)
  PROVE  SearchInv'
<1> DEFINE new == IF runs[q] # NoRun THEN runs[q] ELSE [status |-> "FAILED", found |-> {}]
<1>1. stage = 2 /\ call[q] = "failed" /\ ~Locked(q)
  BY Positions DEF RecordFailure, SearchInv, SearchTypeOK
<1>2. new \in Run /\ new # NoRun /\ (runs[q] # NoRun => new = runs[q])
  BY DEF SearchInv, SearchTypeOK, Run, NoRun
<1>3. runs' = [runs EXCEPT ![q] = new] /\ call' = [call EXCEPT ![q] = "recorded"]
  BY DEF RecordFailure
<1> HIDE DEF new
<1>4. /\ runs' \in [Queries -> Run \cup {NoRun}] /\ runs'[q] = new
      /\ \A p \in Queries : p # q => runs'[p] = runs[p]
  BY <1>2, <1>3 DEF SearchInv, SearchTypeOK
<1>5. /\ call' \in [Queries -> {"searching", "answered", "failed", "recorded"}]
      /\ call'[q] = "recorded" /\ \A p \in Queries : p # q => call'[p] = call[p]
  BY <1>3 DEF SearchInv, SearchTypeOK
<1>6. SearchTypeOK'
  BY <1>4, <1>5 DEF RecordFailure, SearchInv, SearchTypeOK, After
<1>7. AnswersAreStored' /\ OneLocker'
  <2>1. ASSUME NEW b \in searches, b.locked PROVE b.query \in Queries /\ b.query # q
    BY <1>1, <2>1 DEF Locked, SearchInv, SearchTypeOK, SearchAttempt
  <2> QED BY <1>4, <2>1 DEF RecordFailure, SearchInv, AnswersAreStored, OneLocker
<1>8. LiveIsAwaited'
  <2>1. ASSUME NEW b \in searches, b.live PROVE b.query \in Queries /\ b.query # q
    BY <1>1, <2>1 DEF SearchInv, LiveIsAwaited, SearchTypeOK, SearchAttempt
  <2> QED BY <1>5, <2>1 DEF RecordFailure, SearchInv, LiveIsAwaited
<1>9. ~normalized /\ verdict = "none"
  BY <1>1 DEF SearchInv, StoredByStage, DoneByStage
<1>10. StoredByStage' /\ NothingFoundIsLost' /\ DoneByStage'
  <2>1. UNCHANGED After /\ stage' = 2 /\ ~normalized' /\ verdict' = "none"
    BY <1>1, <1>9 DEF RecordFailure, After
  <2>2. DoneByStage'
    BY <2>1 DEF SearchInv, DoneByStage, After
  <2>3. StoredByStage' /\ NothingFoundIsLost'
    BY <1>2, <1>4, <1>5, <2>1 DEF SearchInv, StoredByStage, NothingFoundIsLost,
       After
  <2> QED BY <2>2, <2>3
<1> QED BY <1>6, <1>7, <1>8, <1>10 DEF SearchInv

(* The steps of the workflow that leave the searches alone keep what is    *)
(* known of them.                                                          *)
LEMMA SearchesAlone ==
  ASSUME SearchInv, UNCHANGED <<call, searches, runs>>
  PROVE  /\ AnswersAreStored' /\ OneLocker' /\ LiveIsAwaited'
         /\ Verdict' = Verdict
BY DEF SearchInv, AnswersAreStored, OneLocker, LiveIsAwaited, Verdict,
   Statuses

LEMMA GatherInv == ASSUME SearchInv, Gather PROVE SearchInv'
<1>1. stage = 1 /\ stage' = 2 /\ \A q \in Queries : call[q] # "searching"
  BY Positions DEF Gather, Advance, SearchInv, SearchTypeOK
<1>2. SearchTypeOK' /\ NothingFoundIsLost'
  BY <1>1 DEF Gather, SearchInv, SearchTypeOK, NothingFoundIsLost
<1>3. StoredByStage' /\ DoneByStage'
  BY <1>1 DEF Gather, SearchInv, StoredByStage, DoneByStage
<1> QED BY <1>2, <1>3, SearchesAlone DEF Gather, SearchInv

LEMMA RecordedInv == ASSUME SearchInv, Recorded PROVE SearchInv'
<1>1. stage = 2 /\ stage' = 3 /\ \A q \in Queries : call[q] # "failed"
  BY Positions DEF Recorded, Advance, SearchInv, SearchTypeOK
<1>2. \A q \in Queries : runs[q] # NoRun
  BY <1>1 DEF SearchInv, SearchTypeOK, StoredByStage
<1>3. SearchTypeOK' /\ NothingFoundIsLost'
  BY <1>1 DEF Recorded, SearchInv, SearchTypeOK, NothingFoundIsLost
<1>4. StoredByStage' /\ DoneByStage'
  BY <1>1, <1>2 DEF Recorded, SearchInv, StoredByStage, DoneByStage
<1> QED BY <1>3, <1>4, SearchesAlone DEF Recorded, SearchInv

LEMMA DoneMoves ==
  ASSUME stage \in 1..7, failures \in 0..MaxFailures, Done
  PROVE  stage' \in {stage, stage + 1} /\ stage' \in 1..8 /\ failures' \in 0..MaxFailures
BY DEF Done, Advance

LEMMA NormalizeInv == ASSUME SearchInv, Normalize PROVE SearchInv'
<1>1. stage = 3 /\ stage' \in {3, 4} /\ failures' \in 0..MaxFailures
  BY Positions, DoneMoves DEF Normalize, SearchInv, SearchTypeOK
<1>2. \A q \in Queries : /\ runs[q] # NoRun /\ runs[q] \in Run
                         /\ runs[q].found \subseteq Results
  BY <1>1 DEF SearchInv, SearchTypeOK, StoredByStage, Run
<1>3. Found \subseteq Results
  BY <1>2 DEF Found
<1>4. SearchTypeOK'
  BY <1>1, <1>3 DEF Normalize, SearchInv, SearchTypeOK
<1>5. NothingFoundIsLost'
  BY DEF Normalize, Found, SearchInv, NothingFoundIsLost
<1>6. StoredByStage' /\ DoneByStage'
  <2>1. verdict = "none" /\ status = "RUNNING"
    BY <1>1 DEF SearchInv, SearchTypeOK, DoneByStage
  <2> QED BY <1>1, <1>2, <2>1 DEF Normalize, SearchInv, StoredByStage, DoneByStage
<1> QED BY <1>4, <1>5, <1>6, SearchesAlone DEF Normalize, SearchInv

LEMMA DeduplicateInv == ASSUME SearchInv, Deduplicate PROVE SearchInv'
<1>1. stage = 4 /\ stage' \in {4, 5} /\ failures' \in 0..MaxFailures
  BY Positions, DoneMoves DEF Deduplicate, SearchInv, SearchTypeOK
<1>2. SearchTypeOK' /\ NothingFoundIsLost'
  BY <1>1 DEF Deduplicate, SearchInv, SearchTypeOK, NothingFoundIsLost
<1>3. StoredByStage' /\ DoneByStage'
  BY <1>1 DEF Deduplicate, SearchInv, StoredByStage, DoneByStage
<1> QED BY <1>2, <1>3, SearchesAlone DEF Deduplicate, SearchInv

LEMMA VerifyOneInv == ASSUME SearchInv, NEW r \in Results, VerifyOne(r) PROVE SearchInv'
<1>1. stage = 5 /\ stage' = 5 /\ r \notin verified
  BY Positions DEF VerifyOne, SearchInv, SearchTypeOK
<1>2. checks[r] = 0
  BY <1>1 DEF SearchInv, DoneByStage
<1>3. checks' \in [Results -> Nat] /\ checks'[r] = 1
      /\ \A s \in Results : s # r => checks'[s] = checks[s]
  BY <1>2 DEF VerifyOne, SearchInv, SearchTypeOK
<1>4. SearchTypeOK' /\ NothingFoundIsLost'
  BY <1>3 DEF VerifyOne, SearchInv, SearchTypeOK, NothingFoundIsLost
<1>5. StoredByStage'
  BY <1>1 DEF VerifyOne, SearchInv, StoredByStage
<1>6. DoneByStage'
  <2>1. \A s \in Results : checks'[s] = IF s \in verified' THEN 1 ELSE 0
    BY <1>3 DEF VerifyOne, SearchInv, DoneByStage
  <2>2. verdict = "none" /\ status = "RUNNING"
    BY <1>1 DEF SearchInv, SearchTypeOK, DoneByStage
  <2> QED BY <1>1, <2>1, <2>2 DEF VerifyOne, DoneByStage
<1> QED BY <1>4, <1>5, <1>6, SearchesAlone DEF VerifyOne, SearchInv

LEMMA VerifyEndsInv == ASSUME SearchInv, VerifyEnds PROVE SearchInv'
<1>1. stage = 5 /\ stage' \in {5, 6} /\ failures' \in 0..MaxFailures /\ workIds \subseteq verified
  BY Positions, DoneMoves DEF VerifyEnds, SearchInv, SearchTypeOK
<1>2. SearchTypeOK' /\ NothingFoundIsLost'
  BY <1>1 DEF VerifyEnds, SearchInv, SearchTypeOK, NothingFoundIsLost
<1>3. StoredByStage' /\ DoneByStage'
  BY <1>1 DEF VerifyEnds, SearchInv, StoredByStage, DoneByStage
<1> QED BY <1>2, <1>3, SearchesAlone DEF VerifyEnds, SearchInv

LEMMA ReadRunsInv == ASSUME SearchInv, ReadRuns PROVE SearchInv'
<1>1. stage = 6 /\ stage' = 7
  BY Positions DEF ReadRuns, Advance, SearchInv, SearchTypeOK
<1>2. Verdict \in {"COMPLETED", "PARTIAL", "FAILED"}
  BY DEF Verdict
<1>3. SearchTypeOK' /\ NothingFoundIsLost'
  BY <1>1, <1>2 DEF ReadRuns, SearchInv, SearchTypeOK, NothingFoundIsLost
<1>4. StoredByStage'
  BY <1>1 DEF ReadRuns, SearchInv, StoredByStage
<1>5. DoneByStage'
  <2>1. /\ workIds \subseteq verified /\ status = "RUNNING"
        /\ \A q \in Queries : runs[q] # NoRun
    BY <1>1 DEF SearchInv, SearchTypeOK, DoneByStage, StoredByStage
  <2>2. verdict' = Verdict' /\ verdict' # "none"
    BY <1>2, SearchesAlone DEF ReadRuns
  <2> QED BY <1>1, <2>1, <2>2 DEF ReadRuns, SearchInv, DoneByStage
<1> QED BY <1>3, <1>4, <1>5, SearchesAlone DEF ReadRuns, SearchInv

LEMMA FinishInv == ASSUME SearchInv, FinishDiscovery PROVE SearchInv'
<1>1. stage = 7 /\ stage' \in {7, 8} /\ failures' \in 0..MaxFailures /\ verdict # "none"
  BY Positions, DoneMoves DEF FinishDiscovery, SearchInv, SearchTypeOK, DoneByStage
<1>2. SearchTypeOK' /\ NothingFoundIsLost'
  BY <1>1 DEF FinishDiscovery, SearchInv, SearchTypeOK, NothingFoundIsLost
<1>3. StoredByStage' /\ DoneByStage'
  <2>1. Verdict' = Verdict
    BY SearchesAlone DEF FinishDiscovery
  <2> QED BY <1>1, <2>1 DEF FinishDiscovery, SearchInv, SearchTypeOK, StoredByStage,
     DoneByStage
<1> QED BY <1>2, <1>3, SearchesAlone DEF FinishDiscovery, SearchInv

LEMMA AbortInv == ASSUME SearchInv, Abort PROVE SearchInv'
<1>1. stage \in 2..6 /\ stage' = 8 /\ failures' \in 0..MaxFailures
  BY LastStage DEF Abort, SearchInv, SearchTypeOK
<1>2. SearchTypeOK' /\ NothingFoundIsLost'
  BY <1>1 DEF Abort, SearchInv, SearchTypeOK, NothingFoundIsLost
<1>3. StoredByStage' /\ DoneByStage'
  <2>1. verdict = "none"
    BY <1>1 DEF SearchInv, DoneByStage
  <2> QED BY <1>1, <2>1 DEF Abort, SearchInv, StoredByStage, DoneByStage
<1> QED BY <1>2, <1>3, SearchesAlone DEF Abort, SearchInv

-----------------------------------------------------------------------------
LEMMA SearchInvStep == SearchInv /\ [SearchNext]_searchVars => SearchInv'
<1> SUFFICES ASSUME SearchInv, [SearchNext]_searchVars PROVE SearchInv'
  OBVIOUS
<1>1. ASSUME NEW a \in searches, Search(a) PROVE SearchInv'
  BY <1>1, FindRunInv, LockQueryInv, StorePageInv, SearchFailsInv, LateDiesInv DEF Search
<1>2. CASE Workflow
  BY <1>2, GatherInv, RecordedInv, NormalizeInv, DeduplicateInv, VerifyEndsInv, ReadRunsInv,
     FinishInv, RecordFailureInv, VerifyOneInv DEF Workflow
<1>3. CASE Abort
  BY <1>3, AbortInv
<1>4. CASE UNCHANGED searchVars
  <2>1. UNCHANGED <<call, searches, runs, After>> /\ searches' \subseteq SearchAttempt
    BY <1>4 DEF searchVars, After, SearchInv, SearchTypeOK
  <2> QED BY <2>1, SearchesAlone, OnlyAttempts
<1> QED BY <1>1, <1>2, <1>3, <1>4 DEF SearchNext

LEMMA SearchInvariant == SearchSpec => []SearchInv
BY SearchInvInit, SearchInvStep, PTL DEF SearchSpec

(* Every variable keeps its type: no attempt beyond RETRY's limit.         *)
THEOREM SearchesAreTyped == SearchSpec => []SearchTypeOK
BY SearchInvariant, PTL DEF SearchInv

(* execute_provider_search asks a provider only for an answer that it will *)
(* be able to store.                                                       *)
THEOREM EveryAnswerCounts == SearchSpec => []AnswersAreStored
BY SearchInvariant, PTL DEF SearchInv

(* normalize_discovery sees everything the providers ever returned, late   *)
(* attempts included.                                                      *)
THEOREM NothingArrivesLate == SearchSpec => []NothingFoundIsLost
BY SearchInvariant, PTL DEF SearchInv

LEMMA DoneIsVerified == SearchInv => VerifiedOnce
BY DEF SearchInv, DoneByStage, VerifiedOnce, SearchTypeOK

(* verify_discovery checks every work once, however often it is started.   *)
THEOREM OneVerification == SearchSpec => []VerifiedOnce
BY SearchInvariant, DoneIsVerified, PTL

LEMMA VerdictIsTrue == SearchInv => StatusTellsTheRuns
<1> SUFFICES ASSUME SearchInv PROVE StatusTellsTheRuns
  OBVIOUS
<1>1. ASSUME status \in {"COMPLETED", "PARTIAL"}
      PROVE  /\ status = Verdict
             /\ \A q \in Queries : runs[q] # NoRun /\ runs[q].status \in Statuses
  <2>1. verdict = status /\ verdict = Verdict /\ \A q \in Queries : runs[q] # NoRun
    BY <1>1 DEF SearchInv, DoneByStage
  <2>2. \A q \in Queries : runs[q].status # "none"
    BY <2>1 DEF SearchInv, SearchTypeOK, Run
  <2> QED BY <2>1, <2>2 DEF Statuses
<1>2. status = "COMPLETED" => \A q \in Queries : runs[q].status = "COMPLETED"
  <2>1. Verdict = "COMPLETED" => Statuses \subseteq {"COMPLETED"}
    BY DEF Verdict
  <2> QED BY <1>1, <2>1
<1>3. status = "PARTIAL" => \E q \in Queries : runs[q].status # "FAILED"
  <2>1. Verdict = "PARTIAL" => \E x \in Statuses : x # "FAILED"
    BY DEF Verdict
  <2> QED BY <1>1, <2>1 DEF Statuses
<1> QED BY <1>1, <1>2, <1>3 DEF StatusTellsTheRuns

(* The status finalize_discovery stores is true of the runs.               *)
THEOREM HonestStatus == SearchSpec => []StatusTellsTheRuns
BY SearchInvariant, VerdictIsTrue, PTL

(* record_provider_failure waits for whoever is asking the provider.       *)
LEMMA FailureStep ==
  ASSUME SearchInv, [SearchNext]_searchVars,
         NEW q \in Queries, runs'[q].status = "FAILED", runs[q] = NoRun
  PROVE  ~Locked(q)
<1>1. runs[q].status # "FAILED"
  BY DEF NoRun
<1>2. runs' # runs
  BY <1>1
<1>3. ASSUME NEW a \in searches, StorePage(a) PROVE FALSE
  <2>1. PICK found \in SUBSET Results, more \in {"COMPLETED", "PARTIAL"} :
          runs' = [runs EXCEPT ![a.query] = [status |-> more, found |-> found]]
    BY <1>3 DEF StorePage
  <2> QED BY <1>1, <2>1 DEF SearchInv, SearchTypeOK
<1>4. ASSUME NEW p \in Queries, RecordFailure(p) PROVE ~Locked(q)
  BY <1>1, <1>4 DEF RecordFailure, SearchInv, SearchTypeOK
<1>5. ASSUME NEW a \in searches, Search(a) PROVE FALSE
  BY <1>2, <1>3, <1>5 DEF Search, FindRun, LockQuery, SearchFails,
     LateDies
<1>6. CASE Workflow
  BY <1>2, <1>4, <1>6 DEF Workflow, Gather, Recorded, Normalize,
     Deduplicate, VerifyEnds,
     ReadRuns, FinishDiscovery, VerifyOne
<1> QED BY <1>2, <1>5, <1>6 DEF SearchNext, Abort, searchVars

(* A query is declared failed only when no attempt is asking its provider: *)
(* the answer would come too late to be stored.                            *)
THEOREM FailureIsFinal == SearchSpec => FailedMeansNobodyAsks
<1>1. SearchInv /\ [SearchNext]_searchVars =>
        [\A q \in Queries :
           runs'[q].status = "FAILED" /\ runs[q] = NoRun => ~Locked(q)]_searchVars
  BY FailureStep
<1> QED BY <1>1, SearchInvariant, PTL DEF SearchSpec, FailedMeansNobodyAsks

=============================================================================

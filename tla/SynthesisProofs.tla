---------------------------- MODULE SynthesisProofs ----------------------------
(***************************************************************************)
(* What the synthesis, the claims, the plans and the manuscripts of a      *)
(* project are to the operations that made them, for any number of values, *)
(* claims, operations, corrections, failures and late attempts.            *)
(*                                                                         *)
(* One attempt of an operation is between its reading and its storing at a *)
(* time: what it stores is a detail that the operation did not have, what  *)
(* it read of the evidence is current or noted as missed, and the highest  *)
(* version it read is the question's or was passed by another operation    *)
(* (OperationInv, AttemptInv).                                             *)
(***************************************************************************)
EXTENDS Synthesis, TLAPS

Attempt == [op : Nat, stage : 1..5, n : Nat, live : BOOLEAN,
            pc : {"idle", "reading", "asking", "storing", "done"},
            read : [rows : SUBSET Rows, missed : SUBSET Values, number : Nat, active : SUBSET Nat]]

IsBusy(a) == a.pc \in {"reading", "asking", "storing"}

\* An operation has one attempt at work and one that it waits for, at most.
Turns ==
  /\ \A a, b \in attempts : a.op = b.op /\ IsBusy(a) /\ IsBusy(b) => a = b
  /\ \A a, b \in attempts : a.op = b.op /\ a.live /\ b.live => a = b

\* The number n is the highest of a question's versions.
IsLatest(n, q) == n \in Versions(q) \cup {0} /\ \A m \in Versions(q) : m <= n

\* What an attempt at work has read is so or is noted, and what it makes is missing.
Holds(a) ==
  /\ a.stage \in {2, 3, 4}
  /\ a.stage = 2 => ops[a.op].synthesis = 0
  /\ a.stage = 3 => ops[a.op].claims = {}
  /\ a.stage = 4 => ops[a.op].plan = 0
  /\ \A row \in a.read.rows : row \in CurrentRows \/ row[1] \in a.read.missed
  /\ a.stage = 2 /\ a.pc = "storing" =>
       LET q == ops[a.op].question IN
       \/ a.read.number + 1 \in Versions(q)
       \/ IsLatest(a.read.number, q) /\ a.read.active = Active \cap OfQuestion(q)

Sound(a) ==
  /\ a.op \in DOMAIN ops
  /\ a.live => a.stage = ops[a.op].stage
  /\ a.stage = 5 \/ (a.stage = 4 /\ a.pc = "done") => ops[a.op].plan # 0
  /\ IsBusy(a) => Holds(a)

AttemptInv == attempts \subseteq Attempt /\ Turns /\ \A a \in attempts : Sound(a)

\* The details of an operation name what there is, each made from the one before.
Consistent(op) ==
  /\ op.stage = 5 => op.plan # 0
  /\ op.claims \subseteq DOMAIN claims
  /\ \A i \in op.claims : claims[i].verified
  /\ op.plan \in 0..Len(plans)
  /\ op.plan # 0 => plans[op.plan] \subseteq op.claims
  /\ op.manuscript \in 0..Len(manuscripts)
  /\ op.manuscript # 0 => op.plan # 0 /\ manuscripts[op.manuscript] = op.plan

OperationInv == \A o \in DOMAIN ops : Consistent(ops[o])

EvidenceTyped ==
  /\ questions \in Nat
  /\ evidence \in [Values -> [row : Nat \ {0}, verification : Verifications]]

\* Of the syntheses of question q the newest is the only one that is active.
Newest(q) ==
  OfQuestion(q) # {} =>
    \E i \in OfQuestion(q) : /\ Active \cap OfQuestion(q) = {i}
                             /\ \A j \in OfQuestion(q) \ {i} : syntheses[j].version < syntheses[i].version

NewestInv == \A q \in Nat : Newest(q)

Inv ==
  /\ TypeOK /\ EvidenceTyped
  /\ NewestInv /\ NothingIsOrphaned
  /\ AttemptInv /\ OperationInv

------------------------------------------------------------------------------
(* Operators                                                                 *)

\* The stages by their numbers.
LEMMA StageNames ==
  /\ Len(Stages) = 6
  /\ \A k \in 1..5 :
       /\ Stages[k] = "READINESS" <=> k = 1
       /\ Stages[k] = "SYNTHESIS" <=> k = 2
       /\ Stages[k] = "CLAIMS" <=> k = 3
       /\ Stages[k] = "PLANNING" <=> k = 4
       /\ Stages[k] = "PREPARE" <=> k = 5
  BY DEF Stages

\* The table t is s with rows after it.
Grows(s, t) == DOMAIN s \subseteq DOMAIN t /\ \A i \in DOMAIN s : t[i] = s[i]

\* A row is appended.
LEMMA AppendGrows ==
  ASSUME NEW S, NEW s \in Seq(S), NEW x \in S
  PROVE  /\ Append(s, x) \in Seq(S)
         /\ Len(Append(s, x)) = Len(s) + 1
         /\ DOMAIN Append(s, x) = DOMAIN s \cup {Len(s) + 1}
         /\ Len(s) + 1 \notin DOMAIN s /\ Len(s) + 1 # 0
         /\ Grows(s, Append(s, x))
         /\ Append(s, x)[Len(s) + 1] = x
  BY DEF Grows

\* A place in s, or none, is a place in t, where the same row is.
LEMMA PlaceStays ==
  ASSUME NEW S, NEW T, NEW s \in Seq(S), NEW t \in Seq(T), Grows(s, t), NEW i \in 0..Len(s)
  PROVE  i \in 0..Len(t) /\ (i # 0 => t[i] = s[i])
  <1>1. CASE i = 0
    <2>1. Len(t) \in Nat
      OBVIOUS
    <2>. QED
      BY <1>1, <2>1
  <1>2. CASE i # 0
    <2>1. i \in DOMAIN s
      BY <1>2
    <2>2. i \in DOMAIN t /\ t[i] = s[i]
      BY <2>1 DEF Grows
    <2>. QED
      BY <2>2
  <1>. QED
    BY <1>1, <1>2

LEMMA GrowsSelf == \A s : Grows(s, s)
  BY DEF Grows

\* The rows of one operation change.
LEMMA OperationReplaced ==
  ASSUME NEW s \in Seq(Operation), NEW o \in DOMAIN s, NEW r \in Operation
  PROVE  LET t == [s EXCEPT ![o] = r] IN
         /\ t \in Seq(Operation) /\ DOMAIN t = DOMAIN s /\ Len(t) = Len(s)
         /\ t[o] = r /\ \A p \in DOMAIN s : p # o => t[p] = s[p]
  OBVIOUS

LEMMA RowsTyped == EvidenceTyped => CurrentRows \subseteq Rows
  BY DEF EvidenceTyped, CurrentRows, Rows

LEMMA ActiveNumbers == syntheses \in Seq(SynthesisRow) => Active \subseteq Nat
  BY DEF Active

\* The details of an operation are kept once they are there.
Keeps(op, r) ==
  /\ op.synthesis # 0 => r.synthesis = op.synthesis
  /\ op.plan # 0 => r.plan = op.plan
  /\ op.manuscript # 0 => r.manuscript = op.manuscript

\* Rows that come after the ones an operation names are no concern of it.
LEMMA ConsistentStays ==
  ASSUME NEW r \in Operation, Consistent(r), TypeOK,
         Grows(claims, claims'), Grows(plans, plans'), Grows(manuscripts, manuscripts'),
         plans' \in Seq(SUBSET DOMAIN claims'), manuscripts' \in Seq(DOMAIN plans')
  PROVE  Consistent(r)'
  <1>1. r.claims \subseteq DOMAIN claims' /\ \A i \in r.claims : claims'[i] = claims[i]
    BY DEF Consistent, Grows
  <1>2. r.plan \in 0..Len(plans') /\ (r.plan # 0 => plans'[r.plan] = plans[r.plan])
    <2>1. plans \in Seq(SUBSET DOMAIN claims) /\ r.plan \in 0..Len(plans)
      BY DEF Consistent, TypeOK
    <2>. QED
      BY <2>1, PlaceStays
  <1>3. /\ r.manuscript \in 0..Len(manuscripts')
        /\ r.manuscript # 0 => manuscripts'[r.manuscript] = manuscripts[r.manuscript]
    <2>1. manuscripts \in Seq(DOMAIN plans) /\ r.manuscript \in 0..Len(manuscripts)
      BY DEF Consistent, TypeOK
    <2>. QED
      BY <2>1, PlaceStays
  <1>. QED
    BY <1>1, <1>2, <1>3 DEF Consistent

\* The versions of question q are what they were, or one is added to them.
Kept(q) == Versions(q)' = Versions(q) /\ (Active \cap OfQuestion(q))' = Active \cap OfQuestion(q)
Added(q) ==
  /\ Versions(q) \subseteq Versions(q)'
  /\ \E n \in Nat : IsLatest(n, q) /\ n + 1 \in Versions(q)'

SynthesesStay == \A q \in Nat : Kept(q) \/ Added(q)

LEMMA SameSynthesesStay ==
  ASSUME UNCHANGED syntheses PROVE SynthesesStay
  BY DEF SynthesesStay, Kept, Versions, OfQuestion, Active

LEMMA NewestStays ==
  ASSUME NewestInv, UNCHANGED syntheses PROVE NewestInv'
  <1>1. ASSUME NEW q \in Nat PROVE Newest(q)'
    BY DEF NewestInv, Newest, Active, OfQuestion
  <1>. QED
    BY <1>1 DEF NewestInv

LEMMA VersionsTyped ==
  ASSUME syntheses \in Seq(SynthesisRow), NEW q PROVE Versions(q) \subseteq Nat
  <1>1. ASSUME NEW i \in DOMAIN syntheses PROVE syntheses[i].version \in Nat
    <2>1. syntheses[i] \in SynthesisRow
      OBVIOUS
    <2>. QED
      BY <2>1 DEF SynthesisRow
  <1>. QED
    BY <1>1 DEF Versions, OfQuestion

\* Two highest versions are one.
LEMMA OneLatest ==
  ASSUME syntheses \in Seq(SynthesisRow), NEW q \in Nat, NEW m \in Nat, NEW n \in Nat,
         IsLatest(m, q), IsLatest(n, q)
  PROVE  m = n
  <1>1. Versions(q) \subseteq Nat
    BY VersionsTyped
  <1>. QED
    BY <1>1 DEF IsLatest

\* An attempt at work for an operation whose details nobody touches.
LEMMA HoldsStays ==
  ASSUME Inv, NEW c \in attempts, IsBusy(c), c.op \in DOMAIN ops', ops'[c.op].synthesis = ops[c.op].synthesis,
         ops'[c.op].claims = ops[c.op].claims, ops'[c.op].plan = ops[c.op].plan,
         ops'[c.op].question = ops[c.op].question,
         CurrentRows' = CurrentRows, SynthesesStay
  PROVE  Holds(c)'
  <1>1. /\ Holds(c) /\ c \in Attempt /\ syntheses \in Seq(SynthesisRow)
        /\ c.op \in DOMAIN ops /\ ops[c.op] \in Operation
    BY DEF Inv, AttemptInv, Sound, TypeOK
  <1>2. PICK q \in Nat : q = ops[c.op].question
    BY <1>1 DEF Operation
  <1>3. ASSUME c.stage = 2, c.pc = "storing"
        PROVE  \/ c.read.number + 1 \in Versions(q)'
               \/ IsLatest(c.read.number, q)' /\ c.read.active = (Active \cap OfQuestion(q))'
    <2>1. \/ c.read.number + 1 \in Versions(q)
          \/ IsLatest(c.read.number, q) /\ c.read.active = Active \cap OfQuestion(q)
      BY <1>1, <1>2, <1>3 DEF Holds
    <2>2. CASE Kept(q)
      BY <2>1, <2>2 DEF Kept, IsLatest
    <2>3. CASE Added(q)
      <3>1. c.read.number \in Nat
        BY <1>1 DEF Attempt
      <3>2. PICK n \in Nat : IsLatest(n, q) /\ n + 1 \in Versions(q)'
        BY <2>3 DEF Added
      <3>3. IsLatest(c.read.number, q) => c.read.number = n
        BY <1>1, <3>1, <3>2, OneLatest
      <3>. QED
        BY <2>1, <2>3, <3>2, <3>3 DEF Added
    <2>. QED
      BY <2>2, <2>3 DEF SynthesesStay
  <1>4. \A row \in c.read.rows : row \in CurrentRows' \/ row[1] \in c.read.missed
    BY <1>1 DEF Holds
  <1>5. ops'[c.op].question = q
    BY <1>2
  <1>6. /\ c.stage \in {2, 3, 4}
        /\ c.stage = 2 => ops'[c.op].synthesis = 0
        /\ c.stage = 3 => ops'[c.op].claims = {}
        /\ c.stage = 4 => ops'[c.op].plan = 0
    BY <1>1 DEF Holds
  <1>. QED
    BY <1>3, <1>4, <1>5, <1>6 DEF Holds

\* A transaction of one attempt: it goes from a to b, its operation from what it was to r,
\* and rows may come to the tables that r names.
LEMMA Transaction ==
  ASSUME Inv, NEW a \in attempts, NEW b \in Attempt, Move(a, b),
         b.op = a.op, b.stage = a.stage, b.live = a.live,
         IsBusy(a) \/ ~Busy(a.op),
         NEW r \in Operation, ops' = [ops EXCEPT ![a.op] = r],
         r.stage = ops[a.op].stage, Keeps(ops[a.op], r),
         UNCHANGED <<questions, evidence>>,
         Grows(claims, claims'), Grows(plans, plans'), Grows(manuscripts, manuscripts'),
         syntheses' \in Seq(SynthesisRow), claims' \in Seq(Claim),
         plans' \in Seq(SUBSET DOMAIN claims'), manuscripts' \in Seq(DOMAIN plans'),
         SynthesesStay,
         NewestInv',
         \A i \in DOMAIN syntheses' \ DOMAIN syntheses : r.synthesis = i,
         \A i \in DOMAIN plans' \ DOMAIN plans : r.plan = i,
         \A i \in DOMAIN manuscripts' \ DOMAIN manuscripts : r.manuscript = i,
         Sound(b)', Consistent(r)'
  PROVE  Inv'
  <1>1. a.op \in DOMAIN ops /\ ops \in Seq(Operation)
    BY DEF Inv, AttemptInv, Sound, TypeOK
  <1>2. /\ ops' \in Seq(Operation) /\ DOMAIN ops' = DOMAIN ops
        /\ ops'[a.op] = r /\ \A o \in DOMAIN ops : o # a.op => ops'[o] = ops[o]
    BY <1>1, OperationReplaced
  <1>3. TypeOK' /\ EvidenceTyped' /\ CurrentRows' = CurrentRows
    BY <1>2 DEF Inv, TypeOK, EvidenceTyped, CurrentRows
  <1>4. \A o \in DOMAIN ops : Keeps(ops[o], ops'[o])
    BY <1>2 DEF Keeps
  <1>5. NothingIsOrphaned'
    <2>1. \A i \in DOMAIN syntheses : \E o \in DOMAIN ops : ops'[o].synthesis = i
      <3>1. \A i \in DOMAIN syntheses : i # 0
        BY DEF Inv, TypeOK
      <3>. QED
        BY <1>4, <3>1 DEF Inv, NothingIsOrphaned, Keeps
    <2>2. \A i \in DOMAIN plans : \E o \in DOMAIN ops : ops'[o].plan = i
      <3>1. \A i \in DOMAIN plans : i # 0
        BY DEF Inv, TypeOK
      <3>. QED
        BY <1>4, <3>1 DEF Inv, NothingIsOrphaned, Keeps
    <2>3. \A i \in DOMAIN manuscripts : \E o \in DOMAIN ops : ops'[o].manuscript = i
      <3>1. \A i \in DOMAIN manuscripts : i # 0
        BY DEF Inv, TypeOK
      <3>. QED
        BY <1>4, <3>1 DEF Inv, NothingIsOrphaned, Keeps
    <2>. QED
      BY <1>1, <1>2, <2>1, <2>2, <2>3 DEF NothingIsOrphaned
  <1>6. OperationInv'
    <2>0. \A o \in DOMAIN ops' : ops'[o] \in Operation /\ o \in DOMAIN ops
      BY <1>2
    <2> SUFFICES ASSUME NEW o \in DOMAIN ops'
                 PROVE  Consistent(ops[o])'
      BY DEF OperationInv
    <2>1. PICK p \in Operation : p = ops'[o]
      BY <2>0
    <2>2. Consistent(p)'
      <3>1. CASE o = a.op
        BY <1>2, <2>1, <3>1
      <3>2. CASE o # a.op
        <4>1. Consistent(p)
          BY <1>2, <2>0, <2>1, <3>2 DEF Inv, OperationInv
        <4>. QED
          BY <4>1, ConsistentStays DEF Inv
      <3>. QED
        BY <3>1, <3>2
    <2>. QED
      BY <2>1, <2>2 DEF Consistent
  <1>7. attempts' = (attempts \ {a}) \cup {b}
    BY DEF Move
  <1>8. Turns'
    <2>1. \A c \in attempts \ {a} : c.op = b.op /\ IsBusy(c) => ~IsBusy(b) \/ ~IsBusy(a)
      BY DEF Inv, AttemptInv, Turns
    <2>2. \A c \in attempts : c.op = a.op /\ IsBusy(c) => Busy(a.op)
      BY DEF Busy, IsBusy
    <2>3. \A c \in attempts \ {a} : c.op = b.op => ~IsBusy(c)
      BY <2>2 DEF Inv, AttemptInv, Turns
    <2>4. \A c \in attempts \ {a} : c.op = b.op /\ c.live => ~b.live
      BY DEF Inv, AttemptInv, Turns
    <2>. QED
      BY <1>7, <2>3, <2>4 DEF Inv, AttemptInv, Turns
  <1>9. ASSUME NEW c \in attempts \ {a} PROVE Sound(c)'
    <2>1. c \in Attempt /\ Sound(c) /\ c.op \in DOMAIN ops
      BY DEF Inv, AttemptInv, Sound
    <2>2. /\ ops'[c.op].stage = ops[c.op].stage
          /\ ops[c.op].plan # 0 => ops'[c.op].plan # 0
      BY <1>2, <1>4, <2>1 DEF Keeps
    <2>3. ASSUME IsBusy(c) PROVE Holds(c)'
      <3>1. c.op # a.op
        BY <2>3 DEF Inv, AttemptInv, Turns, Busy, IsBusy
      <3>2. ops'[c.op] = ops[c.op]
        BY <1>2, <2>1, <3>1
      <3>. QED
        BY <1>2, <1>3, <2>1, <2>3, <3>2, HoldsStays
    <2>. QED
      BY <1>2, <2>1, <2>2, <2>3 DEF Sound, IsBusy
  <1>10. AttemptInv'
    BY <1>7, <1>8, <1>9 DEF Inv, AttemptInv
  <1>. QED
    BY <1>3, <1>5, <1>6, <1>10 DEF Inv

\* An operation stays consistent with tables that stay.
LEMMA SameTables ==
  ASSUME NEW o, Consistent(ops[o]), UNCHANGED claims, UNCHANGED plans, UNCHANGED manuscripts,
         ops'[o].claims = ops[o].claims, ops'[o].plan = ops[o].plan,
         ops'[o].manuscript = ops[o].manuscript, ops'[o].stage = 5 => ops'[o].plan # 0
  PROVE  Consistent(ops[o])'
  BY DEF Consistent

\* An attempt ends: it is gone or goes on unawaited, another may be called in its
\* place, and the operation may go to a stage.
LEMMA Departure ==
  ASSUME Inv, NEW a \in attempts,
         NEW rest \in SUBSET {[a EXCEPT !.live = FALSE]},
         NEW fresh \in SUBSET {NewAttempt(a.op, a.stage, a.n + 1)},
         attempts' = (attempts \ {a}) \cup rest \cup fresh,
         UNCHANGED <<questions, evidence, artifacts>>, NEW k \in 0..6,
         \/ ops' = ops /\ (fresh = {} \/ a.live)
         \/ /\ a.live /\ fresh = {}
            /\ ops' = [ops EXCEPT ![a.op].stage = k] /\ (k = 5 => ops[a.op].plan # 0)
  PROVE  Inv'
  <1>1. /\ a \in Attempt /\ Sound(a) /\ a.op \in DOMAIN ops /\ ops \in Seq(Operation)
        /\ UNCHANGED <<questions, evidence, syntheses, claims, plans, manuscripts>>
    BY DEF Inv, AttemptInv, Sound, TypeOK, artifacts
  <1>2. PICK late \in Attempt : late = [a EXCEPT !.live = FALSE]
    BY <1>1 DEF Attempt
  <1>3. /\ late.op = a.op /\ late.stage = a.stage /\ late.pc = a.pc /\ late.read = a.read
        /\ late.live = FALSE
    BY <1>1, <1>2 DEF Attempt
  <1>4. PICK new \in Attempt : new = NewAttempt(a.op, a.stage, a.n + 1)
    <2>1. /\ a.op \in Nat /\ a.stage \in 1..5 /\ a.n + 1 \in Nat
      BY <1>1 DEF Attempt
    <2>2. NothingRead \in [rows : SUBSET Rows, missed : SUBSET Values, number : Nat, active : SUBSET Nat]
      BY DEF NothingRead
    <2>. QED
      BY <2>1, <2>2 DEF Attempt, NewAttempt
  <1>5. new.op = a.op /\ new.stage = a.stage /\ new.pc = "idle" /\ new.live
    BY <1>4 DEF NewAttempt
  <1>6. \A c \in attempts' : c \in attempts \ {a} \/ (c = late /\ rest # {}) \/ (c = new /\ fresh # {})
    BY <1>2, <1>4
  <1>7. /\ ops' \in Seq(Operation) /\ DOMAIN ops' = DOMAIN ops
        /\ \A o \in DOMAIN ops :
             /\ ops'[o].synthesis = ops[o].synthesis /\ ops'[o].claims = ops[o].claims
             /\ ops'[o].plan = ops[o].plan /\ ops'[o].manuscript = ops[o].manuscript
             /\ ops'[o].question = ops[o].question
             /\ ops'[o].stage = ops[o].stage \/ (o = a.op /\ a.live /\ fresh = {})
             /\ ops'[o].stage = 5 => ops'[o].plan # 0
    <2>1. CASE ops' = ops
      BY <1>1, <2>1 DEF Inv, OperationInv, Consistent
    <2>2. CASE /\ a.live /\ fresh = {}
               /\ ops' = [ops EXCEPT ![a.op].stage = k] /\ (k = 5 => ops[a.op].plan # 0)
      <3>1. PICK r \in Operation : r = [ops[a.op] EXCEPT !.stage = k]
        <4>1. k \in 1..Len(Stages) \cup {0} /\ ops[a.op] \in Operation
          BY <1>1, StageNames
        <4>. QED
          BY <4>1 DEF Operation
      <3>2. /\ r.synthesis = ops[a.op].synthesis /\ r.claims = ops[a.op].claims
            /\ r.plan = ops[a.op].plan /\ r.manuscript = ops[a.op].manuscript /\ r.stage = k
            /\ r.question = ops[a.op].question
        BY <1>1, <3>1 DEF Operation
      <3>3. ops' = [ops EXCEPT ![a.op] = r]
        BY <2>2, <3>1
      <3>4. /\ ops' \in Seq(Operation) /\ DOMAIN ops' = DOMAIN ops
            /\ ops'[a.op] = r /\ \A p \in DOMAIN ops : p # a.op => ops'[p] = ops[p]
        BY <1>1, <3>3, OperationReplaced
      <3>5. \A o \in DOMAIN ops : ops[o].stage = 5 => ops[o].plan # 0
        BY DEF Inv, OperationInv, Consistent
      <3>. QED
        BY <1>1, <2>2, <3>2, <3>4, <3>5
    <2>. QED
      BY <2>1, <2>2
  <1>8. TypeOK' /\ EvidenceTyped' /\ NothingIsOrphaned' /\ NewestInv'
    <2>1. TypeOK' /\ EvidenceTyped'
      BY <1>1, <1>7 DEF Inv, TypeOK, EvidenceTyped
    <2>2. NothingIsOrphaned'
      <3>1. /\ \A i \in DOMAIN syntheses : \E o \in DOMAIN ops : ops[o].synthesis = i
            /\ \A i \in DOMAIN plans : \E o \in DOMAIN ops : ops[o].plan = i
            /\ \A i \in DOMAIN manuscripts : \E o \in DOMAIN ops : ops[o].manuscript = i
        BY DEF Inv, NothingIsOrphaned
      <3>2. \A o \in DOMAIN ops :
              /\ ops'[o].synthesis = ops[o].synthesis
              /\ ops'[o].plan = ops[o].plan /\ ops'[o].manuscript = ops[o].manuscript
        BY <1>7
      <3>3. /\ \A i \in DOMAIN syntheses : \E o \in DOMAIN ops : ops'[o].synthesis = i
            /\ \A i \in DOMAIN plans : \E o \in DOMAIN ops : ops'[o].plan = i
            /\ \A i \in DOMAIN manuscripts : \E o \in DOMAIN ops : ops'[o].manuscript = i
        BY <3>1, <3>2
      <3>4. syntheses' = syntheses /\ plans' = plans /\ manuscripts' = manuscripts
            /\ DOMAIN ops' = DOMAIN ops
        BY <1>1, <1>7
      <3>. QED
        BY <3>3, <3>4, Zenon DEF NothingIsOrphaned
    <2>3. NewestInv'
      BY <1>1, NewestStays DEF Inv
    <2>. QED
      BY <2>1, <2>2, <2>3
  <1>9. OperationInv'
    <2>1. ASSUME NEW o \in DOMAIN ops PROVE Consistent(ops[o])'
      <3>1. Consistent(ops[o])
        BY DEF Inv, OperationInv
      <3>2. /\ ops'[o].claims = ops[o].claims /\ ops'[o].plan = ops[o].plan
            /\ ops'[o].manuscript = ops[o].manuscript /\ (ops'[o].stage = 5 => ops'[o].plan # 0)
        BY <1>7
      <3>. QED
        BY <1>1, <3>1, <3>2, SameTables
    <2>. QED
      BY <1>7, <2>1 DEF OperationInv
  <1>10. Turns'
    <2>1. \A c \in attempts \ {a} : c.op = a.op => ~(IsBusy(c) /\ IsBusy(a)) /\ ~(c.live /\ a.live)
      BY DEF Inv, AttemptInv, Turns
    <2>2. fresh # {} => a.live
      OBVIOUS
    <2>3. ~IsBusy(new) /\ (IsBusy(late) => IsBusy(a)) /\ ~late.live
      BY <1>3, <1>5 DEF IsBusy
    <2>. QED
      BY <1>3, <1>5, <1>6, <2>1, <2>2, <2>3 DEF Inv, AttemptInv, Turns
  <1>11. ASSUME NEW c \in attempts' PROVE Sound(c)'
    <2>0. CurrentRows' = CurrentRows /\ SynthesesStay
      BY <1>1, SameSynthesesStay DEF CurrentRows
    <2>1. CASE c \in attempts \ {a}
      <3>1. c \in Attempt /\ Sound(c) /\ c.op \in DOMAIN ops
        BY <2>1 DEF Inv, AttemptInv, Sound
      <3>2. IsBusy(c) => Holds(c)'
        BY <1>1, <1>7, <2>0, <2>1, <3>1, HoldsStays
      <3>3. c.live => ops'[c.op].stage = ops[c.op].stage
        BY <1>7, <2>1, <3>1 DEF Inv, AttemptInv, Turns
      <3>. QED
        BY <1>7, <3>1, <3>2, <3>3 DEF Sound, IsBusy
    <2>2. CASE c = late
      <3>1. IsBusy(a) => Holds(a)'
        BY <1>1, <1>7, <2>0, HoldsStays
      <3>2. IsBusy(late) => Holds(late)'
        BY <1>3, <3>1 DEF Holds, IsBusy
      <3>. QED
        BY <1>1, <1>3, <1>7, <2>2, <3>2 DEF Sound, IsBusy
    <2>3. CASE c = new /\ fresh # {}
      BY <1>1, <1>5, <1>7, <2>3 DEF Sound, IsBusy
    <2>. QED
      BY <1>6, <2>1, <2>2, <2>3
  <1>12. attempts' \subseteq Attempt
    BY <1>6 DEF Inv, AttemptInv
  <1>. QED
    BY <1>8, <1>9, <1>10, <1>11, <1>12 DEF Inv, AttemptInv

LEMMA RaisesKeepsInv ==
  ASSUME Inv, NEW a \in attempts, Raises(a), UNCHANGED <<questions, evidence, artifacts>>
  PROVE  Inv'
  <1>1. attempts' = (attempts \ {a}) \cup {} \cup {}
    BY DEF Raises
  <1>2. PICK k \in 0..6 : k = 0
    OBVIOUS
  <1>3. \/ ops' = ops
        \/ a.live /\ ops' = [ops EXCEPT ![a.op].stage = k] /\ (k = 5 => ops[a.op].plan # 0)
    BY <1>2 DEF Raises
  <1>. QED
    BY <1>1, <1>3, Departure

LEMMA FailsKeepsInv ==
  ASSUME Inv, NEW a \in attempts, NEW rest \in SUBSET {[a EXCEPT !.live = FALSE]},
         Fails(a, rest), UNCHANGED <<questions, evidence, artifacts>>
  PROVE  Inv'
  <1>. DEFINE more == a.live /\ a.n < Retries
              fresh == IF more THEN {NewAttempt(a.op, a.stage, a.n + 1)} ELSE {}
  <1>1. attempts' = (attempts \ {a}) \cup rest \cup fresh
    BY DEF Fails
  <1>2. fresh \in SUBSET {NewAttempt(a.op, a.stage, a.n + 1)}
    OBVIOUS
  <1>3. \/ ops' = ops /\ (fresh = {} \/ a.live)
        \/ a.live /\ fresh = {} /\ ops' = [ops EXCEPT ![a.op].stage = 0]
    BY DEF Fails
  <1>4. PICK called \in SUBSET {NewAttempt(a.op, a.stage, a.n + 1)} : called = fresh
    BY <1>2
  <1>. HIDE DEF more, fresh
  <1>5. attempts' = (attempts \ {a}) \cup rest \cup called
    BY <1>1, <1>4
  <1>6. \/ ops' = ops /\ (called = {} \/ a.live)
        \/ a.live /\ called = {} /\ ops' = [ops EXCEPT ![a.op].stage = 0]
    BY <1>3, <1>4
  <1>7. PICK k \in 0..6 : k = 0
    OBVIOUS
  <1>8. \/ ops' = ops /\ (called = {} \/ a.live)
        \/ /\ a.live /\ called = {}
           /\ ops' = [ops EXCEPT ![a.op].stage = k] /\ (k = 5 => ops[a.op].plan # 0)
    BY <1>6, <1>7
  <1>. QED
    BY <1>5, <1>8, Departure, Zenon

LEMMA AnswerKeepsInv ==
  ASSUME Inv, NEW a \in attempts, Answer(a)
  PROVE  Inv'
  <1>1. a \in Attempt /\ Sound(a) /\ a.op \in DOMAIN ops
    BY DEF Inv, AttemptInv, Sound
  <1>2. ops[a.op].stage = a.stage /\ a.stage \in 1..5
    BY <1>1 DEF Answer, Sound, Attempt
  <1>3. PICK k \in 0..6 : k = AfterStage(a.op) /\ (k = 5 => a.stage = 4)
    BY <1>2, StageNames DEF AfterStage
  <1>4. ops' = [ops EXCEPT ![a.op].stage = k] /\ (k = 5 => ops[a.op].plan # 0)
    BY <1>1, <1>3 DEF Answer, Sound
  <1>5. attempts' = (attempts \ {a}) \cup {} \cup {}
    BY DEF Answer
  <1>6. a.live /\ UNCHANGED <<questions, evidence, artifacts>>
    BY DEF Answer
  <1>. QED
    BY <1>4, <1>5, <1>6, Departure

LEMMA EndsKeepInv ==
  ASSUME Inv, NEW a \in attempts, Lose(a) \/ AgentFails(a) \/ NumberTaken(a) \/ LateEnds(a)
  PROVE  Inv'
  <1>1. CASE Lose(a)
    <2>1. PICK rest \in SUBSET {[a EXCEPT !.live = FALSE]} : Fails(a, rest)
      BY <1>1 DEF Lose
    <2>. QED
      BY <1>1, <2>1, FailsKeepsInv DEF Lose
  <1>2. CASE AgentFails(a)
    BY <1>2, RaisesKeepsInv DEF AgentFails
  <1>3. CASE NumberTaken(a)
    <2>1. Fails(a, {}) /\ {} \in SUBSET {[a EXCEPT !.live = FALSE]}
      BY <1>3 DEF NumberTaken
    <2>. QED
      BY <1>3, <2>1, FailsKeepsInv DEF NumberTaken
  <1>4. CASE LateEnds(a)
    <2>1. attempts' = (attempts \ {a}) \cup {} \cup {} /\ ops' = ops
          /\ UNCHANGED <<questions, evidence, artifacts>>
      BY <1>4 DEF LateEnds
    <2>2. 0 \in 0..6
      OBVIOUS
    <2>. QED
      BY <2>1, <2>2, Departure
  <1>. QED
    BY <1>1, <1>2, <1>3, <1>4

------------------------------------------------------------------------------
(* Requests, other operations and the workflow: no attempt moves.            *)

\* What attempts know is of the details of operations, of the evidence and of the
\* versions of syntheses.
LEMMA AttemptsUntouched ==
  ASSUME Inv, attempts' = attempts, DOMAIN ops \subseteq DOMAIN ops',
         \A o \in DOMAIN ops :
           /\ ops'[o].stage = ops[o].stage /\ ops'[o].question = ops[o].question
           /\ ops'[o].synthesis = ops[o].synthesis /\ ops'[o].claims = ops[o].claims
           /\ ops'[o].plan = ops[o].plan,
         CurrentRows' = CurrentRows, SynthesesStay
  PROVE  AttemptInv'
  <1>1. ASSUME NEW c \in attempts PROVE Sound(c)'
    <2>1. c \in Attempt /\ Sound(c) /\ c.op \in DOMAIN ops
      BY DEF Inv, AttemptInv, Sound
    <2>2. IsBusy(c) => Holds(c)'
      BY <2>1, HoldsStays
    <2>. QED
      BY <2>1, <2>2 DEF Sound, IsBusy
  <1>. QED
    BY <1>1 DEF Inv, AttemptInv, Turns

LEMMA StartKeepsInv ==
  ASSUME Inv, NEW kind \in Kinds, Start(kind)
  PROVE  Inv'
  <1>. DEFINE new == [kind |-> kind, status |-> "RUNNING", stage |-> 1, question |-> 0,
                      synthesis |-> 0, claims |-> {}, plan |-> 0, manuscript |-> 0]
  <1>1. /\ ops' = Append(ops, new) /\ attempts' = attempts
        /\ UNCHANGED <<questions, evidence, syntheses, claims, plans, manuscripts>>
    BY DEF Start, artifacts
  <1>2. PICK r \in Operation : r = new
    <2>1. 1 \in 1..Len(Stages) \cup {0} /\ 0 \in Nat
      BY StageNames
    <2>. QED
      BY <2>1 DEF Operation
  <1>3. /\ r.stage = 1 /\ r.synthesis = 0 /\ r.claims = {} /\ r.plan = 0 /\ r.manuscript = 0
        /\ ops' = Append(ops, r)
    BY <1>1, <1>2
  <1>. HIDE DEF new
  <1>4. ops \in Seq(Operation)
    BY DEF Inv, TypeOK
  <1>5. /\ ops' \in Seq(Operation) /\ DOMAIN ops' = DOMAIN ops \cup {Len(ops) + 1}
        /\ ops'[Len(ops) + 1] = r
        /\ DOMAIN ops \subseteq DOMAIN ops' /\ \A o \in DOMAIN ops : ops'[o] = ops[o]
    BY <1>3, <1>4, AppendGrows DEF Grows
  <1>6. TypeOK' /\ EvidenceTyped'
    BY <1>1, <1>5 DEF Inv, TypeOK, EvidenceTyped
  <1>7. NothingIsOrphaned'
    BY <1>1, <1>5 DEF Inv, NothingIsOrphaned
  <1>8. NewestInv'
    BY <1>1, NewestStays DEF Inv
  <1>9. OperationInv'
    <2>1. ASSUME NEW o \in DOMAIN ops PROVE Consistent(ops[o])
      BY DEF Inv, OperationInv
    <2>2. Consistent(r)
      <3>1. plans \in Seq(SUBSET DOMAIN claims) /\ manuscripts \in Seq(DOMAIN plans)
        BY DEF Inv, TypeOK
      <3>. QED
        BY <1>3, <3>1 DEF Consistent
    <2>. QED
      BY <1>1, <1>5, <2>1, <2>2 DEF OperationInv, Consistent
  <1>10. AttemptInv'
    <2>1. CurrentRows' = CurrentRows /\ SynthesesStay
      BY <1>1, SameSynthesesStay DEF CurrentRows
    <2>. QED
      BY <1>1, <1>5, <2>1, AttemptsUntouched
  <1>. QED
    BY <1>6, <1>7, <1>8, <1>9, <1>10 DEF Inv

\* A correction is noted by the attempts that have read the row before.
LEMMA CorrectKeepsInv ==
  ASSUME Inv, NEW v \in Values, Correct(v)
  PROVE  Inv'
  <1>1. /\ ~Asking /\ UNCHANGED <<questions, syntheses, claims, plans, manuscripts, ops>>
        /\ evidence' = [evidence EXCEPT ![v] = [row |-> @.row + 1, verification |-> "UNVERIFIED"]]
        /\ attempts' = {IF a.pc = "reading" THEN [a EXCEPT !.read.missed = @ \cup {v}] ELSE a : a \in attempts}
    BY DEF Correct, ByHuman, artifacts
  <1>2. EvidenceTyped'
    BY <1>1 DEF Inv, EvidenceTyped, Verifications
  <1>3. \A row \in CurrentRows : row \in CurrentRows' \/ row[1] = v
    BY <1>1 DEF Inv, EvidenceTyped, CurrentRows
  <1>4. TypeOK' /\ NothingIsOrphaned' /\ OperationInv' /\ NewestInv'
    <2>1. TypeOK' /\ NothingIsOrphaned' /\ OperationInv'
      BY <1>1 DEF Inv, TypeOK, NothingIsOrphaned, OperationInv, Consistent
    <2>2. NewestInv'
      BY <1>1, NewestStays DEF Inv
    <2>. QED
      BY <2>1, <2>2
  <1>5. ASSUME NEW c \in attempts
        PROVE  LET d == IF c.pc = "reading" THEN [c EXCEPT !.read.missed = @ \cup {v}] ELSE c IN
               /\ d \in Attempt /\ Sound(d)'
               /\ d.op = c.op /\ d.live = c.live /\ d.pc = c.pc
    <2>1. c \in Attempt /\ Sound(c)
      BY DEF Inv, AttemptInv
    <2>2. CASE c.pc = "reading"
      <3>1. PICK read \in [rows : SUBSET Rows, missed : SUBSET Values, number : Nat, active : SUBSET Nat] :
              /\ read = [c.read EXCEPT !.missed = @ \cup {v}]
              /\ read.rows = c.read.rows /\ read.missed = c.read.missed \cup {v}
        <4>1. c.read \in [rows : SUBSET Rows, missed : SUBSET Values, number : Nat, active : SUBSET Nat]
          BY <2>1 DEF Attempt
        <4>. DEFINE read == [c.read EXCEPT !.missed = @ \cup {v}]
        <4>2. /\ read \in [rows : SUBSET Rows, missed : SUBSET Values, number : Nat, active : SUBSET Nat]
              /\ read.rows = c.read.rows /\ read.missed = c.read.missed \cup {v}
          BY <4>1
        <4>. QED
          BY <4>2
      <3>2. PICK d \in Attempt :
              /\ d = [c EXCEPT !.read.missed = @ \cup {v}] /\ d.read = read
              /\ d.op = c.op /\ d.stage = c.stage /\ d.live = c.live /\ d.pc = c.pc
        <4>. DEFINE d == [c EXCEPT !.read = read]
        <4>1. /\ d \in Attempt /\ d.read = read
              /\ d.op = c.op /\ d.stage = c.stage /\ d.live = c.live /\ d.pc = c.pc
          BY <2>1 DEF Attempt
        <4>2. d = [c EXCEPT !.read.missed = @ \cup {v}]
          BY <2>1, <3>1 DEF Attempt
        <4>. QED
          BY <4>1, <4>2
      <3>3. \A row \in c.read.rows : row \in CurrentRows \/ row[1] \in c.read.missed
        BY <2>1, <2>2 DEF Sound, IsBusy, Holds
      <3>4. \A row \in d.read.rows : row \in CurrentRows' \/ row[1] \in d.read.missed
        BY <1>3, <3>1, <3>2, <3>3
      <3>5. Holds(d)'
        BY <1>1, <2>1, <2>2, <3>2, <3>4 DEF Sound, IsBusy, Holds
      <3>6. Sound(d)'
        BY <1>1, <2>1, <2>2, <3>2, <3>5 DEF Sound
      <3>. QED
        BY <2>2, <3>2, <3>6
    <2>3. CASE c.pc # "reading"
      <3>1. ~IsBusy(c)
        BY <1>1, <2>3 DEF Asking, IsBusy
      <3>2. Sound(c)'
        BY <1>1, <2>1, <3>1 DEF Sound, IsBusy
      <3>. QED
        BY <2>1, <2>3, <3>2
    <2>. QED
      BY <2>2, <2>3
  <1>6. Turns' /\ attempts' \subseteq Attempt
    <2>1. ASSUME NEW x \in attempts'
          PROVE  \E c \in attempts :
                   /\ x = IF c.pc = "reading" THEN [c EXCEPT !.read.missed = @ \cup {v}] ELSE c
                   /\ x \in Attempt /\ x.op = c.op /\ x.live = c.live /\ x.pc = c.pc
      BY <1>1, <1>5
    <2>2. ASSUME NEW x \in attempts', NEW y \in attempts', x.op = y.op,
                 (IsBusy(x) /\ IsBusy(y)) \/ (x.live /\ y.live)
          PROVE  x = y
      <3>1. PICK c \in attempts :
              /\ x = IF c.pc = "reading" THEN [c EXCEPT !.read.missed = @ \cup {v}] ELSE c
              /\ x \in Attempt /\ x.op = c.op /\ x.live = c.live /\ x.pc = c.pc
        BY <2>1
      <3>2. PICK d \in attempts :
              /\ y = IF d.pc = "reading" THEN [d EXCEPT !.read.missed = @ \cup {v}] ELSE d
              /\ y \in Attempt /\ y.op = d.op /\ y.live = d.live /\ y.pc = d.pc
        BY <2>1
      <3>3. c = d
        BY <2>2, <3>1, <3>2 DEF Inv, AttemptInv, Turns, IsBusy
      <3>. QED
        BY <3>1, <3>2, <3>3
    <2>. QED
      BY <2>1, <2>2 DEF Turns
  <1>7. AttemptInv'
    BY <1>1, <1>5, <1>6 DEF AttemptInv
  <1>. QED
    BY <1>2, <1>4, <1>7 DEF Inv

\* Verifications, the research plan and what is said of a synthesis are no concern of
\* attempts.
LEMMA OthersKeepInv ==
  ASSUME Inv, (\E i \in DOMAIN syntheses : Approve(i)) \/ OtherOperations \/ Replan
  PROVE  Inv'
  <1>1. UNCHANGED <<claims, plans, manuscripts, ops, attempts>>
    BY DEF Approve, OtherOperations, Replan, ByHuman, artifacts
  <1>2. EvidenceTyped' /\ CurrentRows' = CurrentRows
    <2>1. CASE UNCHANGED evidence
      BY <2>1 DEF Inv, EvidenceTyped, CurrentRows, Approve, OtherOperations, Replan
    <2>2. ASSUME NEW v \in Values, NEW result \in {"VERIFIED", "CONFLICT"}, UNCHANGED questions,
                 evidence' = [evidence EXCEPT ![v].verification = result]
          PROVE  EvidenceTyped' /\ CurrentRows' = CurrentRows
      <3>1. evidence \in [Values -> [row : Nat \ {0}, verification : Verifications]] /\ questions \in Nat
        BY DEF Inv, EvidenceTyped
      <3>2. evidence' \in [Values -> [row : Nat \ {0}, verification : Verifications]]
        BY <2>2, <3>1 DEF Verifications
      <3>3. \A w \in Values : evidence'[w].row = evidence[w].row
        BY <2>2, <3>1
      <3>. QED
        BY <2>2, <3>1, <3>2, <3>3 DEF EvidenceTyped, CurrentRows
    <2>. QED
      BY <2>1, <2>2 DEF Approve, OtherOperations, Replan
  <1>3. /\ syntheses' \in Seq(SynthesisRow) /\ DOMAIN syntheses' = DOMAIN syntheses /\ Active' = Active
        /\ \A i \in DOMAIN syntheses :
             syntheses'[i].question = syntheses[i].question /\ syntheses'[i].version = syntheses[i].version
    <2>1. syntheses \in Seq(SynthesisRow)
      BY DEF Inv, TypeOK
    <2>2. CASE UNCHANGED syntheses
      BY <2>1, <2>2 DEF Active
    <2>3. ASSUME NEW i \in DOMAIN syntheses, Approve(i) PROVE <1>3
      <3>1. syntheses' = [syntheses EXCEPT ![i].status = "APPROVED"]
            /\ syntheses[i].status # "SUPERSEDED"
        BY <2>3 DEF Approve, Active
      <3>2. PICK x \in SynthesisRow : x = [syntheses[i] EXCEPT !.status = "APPROVED"]
        <4>1. syntheses[i] \in SynthesisRow
          BY <2>1
        <4>. QED
          BY <4>1 DEF SynthesisRow
      <3>3. /\ x.status = "APPROVED"
            /\ x.question = syntheses[i].question /\ x.version = syntheses[i].version
        BY <2>1, <3>2 DEF SynthesisRow
      <3>4. syntheses' = [syntheses EXCEPT ![i] = x]
        BY <3>1, <3>2
      <3>5. /\ syntheses' \in Seq(SynthesisRow) /\ DOMAIN syntheses' = DOMAIN syntheses
            /\ syntheses'[i] = x
            /\ \A j \in DOMAIN syntheses : j # i => syntheses'[j] = syntheses[j]
        BY <2>1, <3>4
      <3>. QED
        BY <3>1, <3>3, <3>5 DEF Active
    <2>. QED
      BY <2>2, <2>3 DEF OtherOperations, Replan, artifacts
  <1>4. \A q \in Nat : OfQuestion(q)' = OfQuestion(q)
    BY <1>3 DEF OfQuestion
  <1>5. AttemptInv'
    <2>1. \A q \in Nat : Versions(q)' = Versions(q)
      BY <1>3, <1>4 DEF Versions, OfQuestion
    <2>2. SynthesesStay
      BY <1>3, <1>4, <2>1 DEF SynthesesStay, Kept
    <2>. QED
      BY <1>1, <1>2, <2>2, AttemptsUntouched
  <1>6. TypeOK' /\ NothingIsOrphaned' /\ OperationInv'
    <2>1. TypeOK'
      BY <1>1, <1>3 DEF Inv, TypeOK
    <2>2. NothingIsOrphaned'
      BY <1>1, <1>3 DEF Inv, NothingIsOrphaned
    <2>3. OperationInv'
      BY <1>1 DEF Inv, OperationInv, Consistent
    <2>. QED
      BY <2>1, <2>2, <2>3
  <1>7. NewestInv'
    <2>1. \A q : OfQuestion(q) \subseteq DOMAIN syntheses
      BY DEF OfQuestion
    <2>. QED
      BY <1>3, <1>4, <2>1 DEF Inv, NewestInv, Newest
  <1>. QED
    BY <1>2, <1>5, <1>6, <1>7 DEF Inv

LEMMA CallKeepsInv ==
  ASSUME Inv, Call
  PROVE  Inv'
  <1>1. /\ UNCHANGED <<questions, evidence, syntheses, claims, plans, manuscripts, ops>>
        /\ Op.stage \in 1..5 /\ ~\E a \in attempts : a.op = Len(ops) /\ a.live
        /\ attempts' = attempts \cup {NewAttempt(Len(ops), Op.stage, 1)}
        /\ ~Idle
    BY StageNames DEF Call, artifacts
  <1>2. ops \in Seq(Operation) /\ Len(ops) \in DOMAIN ops /\ Op = ops[Len(ops)]
    BY <1>1 DEF Inv, TypeOK, Idle, Op
  <1>3. PICK new \in Attempt : new = NewAttempt(Len(ops), Op.stage, 1)
    <2>1. NothingRead \in [rows : SUBSET Rows, missed : SUBSET Values, number : Nat, active : SUBSET Nat]
      BY DEF NothingRead
    <2>2. Len(ops) \in Nat /\ 1 \in Nat
      BY <1>2
    <2>. QED
      BY <1>1, <2>1, <2>2 DEF Attempt, NewAttempt
  <1>4. new.op = Len(ops) /\ new.stage = ops[Len(ops)].stage /\ new.pc = "idle" /\ new.live
    BY <1>2, <1>3 DEF NewAttempt
  <1>5. Sound(new)'
    <2>1. ops[Len(ops)].stage = 5 => ops[Len(ops)].plan # 0
      BY <1>2 DEF Inv, OperationInv, Consistent
    <2>. QED
      BY <1>1, <1>2, <1>4, <2>1 DEF Sound, IsBusy
  <1>6. ASSUME NEW c \in attempts PROVE Sound(c)'
    <2>1. c \in Attempt /\ Sound(c) /\ c.op \in DOMAIN ops
      BY DEF Inv, AttemptInv, Sound
    <2>2. CurrentRows' = CurrentRows /\ SynthesesStay
      BY <1>1, SameSynthesesStay DEF CurrentRows
    <2>3. IsBusy(c) => Holds(c)'
      BY <1>1, <2>1, <2>2, HoldsStays
    <2>. QED
      BY <1>1, <2>1, <2>3 DEF Sound, IsBusy
  <1>7. Turns'
    BY <1>1, <1>3, <1>4 DEF Inv, AttemptInv, Turns, IsBusy
  <1>8. AttemptInv'
    BY <1>1, <1>3, <1>5, <1>6, <1>7 DEF Inv, AttemptInv
  <1>9. TypeOK' /\ EvidenceTyped' /\ NothingIsOrphaned' /\ OperationInv'
    BY <1>1 DEF Inv, TypeOK, EvidenceTyped, NothingIsOrphaned, OperationInv, Consistent
  <1>10. NewestInv'
    BY <1>1, NewestStays DEF Inv
  <1>. QED
    BY <1>8, <1>9, <1>10 DEF Inv

LEMMA FinishKeepsInv ==
  ASSUME Inv, Finish
  PROVE  Inv'
  <1>1. UNCHANGED <<questions, evidence, syntheses, claims, plans, manuscripts, attempts>> /\ ~Idle
    BY DEF Finish, artifacts
  <1>2. ops \in Seq(Operation) /\ Len(ops) \in DOMAIN ops
    BY <1>1 DEF Inv, TypeOK, Idle
  <1>3. PICK status \in {"PARTIAL", "COMPLETED"} : ops' = [ops EXCEPT ![Len(ops)].status = status]
    BY DEF Finish
  <1>4. PICK r \in Operation : r = [ops[Len(ops)] EXCEPT !.status = status]
    <2>1. ops[Len(ops)] \in Operation
      BY <1>2
    <2>. QED
      BY <2>1 DEF Operation
  <1>5. /\ r.stage = ops[Len(ops)].stage /\ r.synthesis = ops[Len(ops)].synthesis
        /\ r.claims = ops[Len(ops)].claims /\ r.plan = ops[Len(ops)].plan
        /\ r.manuscript = ops[Len(ops)].manuscript /\ r.question = ops[Len(ops)].question
    BY <1>2, <1>4 DEF Operation
  <1>6. /\ ops' \in Seq(Operation) /\ DOMAIN ops' = DOMAIN ops
        /\ ops'[Len(ops)] = r /\ \A p \in DOMAIN ops : p # Len(ops) => ops'[p] = ops[p]
    BY <1>2, <1>3, <1>4, OperationReplaced
  <1>7. \A o \in DOMAIN ops :
          /\ ops'[o].stage = ops[o].stage /\ ops'[o].synthesis = ops[o].synthesis
          /\ ops'[o].claims = ops[o].claims /\ ops'[o].plan = ops[o].plan
          /\ ops'[o].manuscript = ops[o].manuscript /\ ops'[o].question = ops[o].question
    BY <1>5, <1>6
  <1>8. AttemptInv'
    <2>1. CurrentRows' = CurrentRows /\ SynthesesStay
      BY <1>1, SameSynthesesStay DEF CurrentRows
    <2>. QED
      BY <1>1, <1>6, <1>7, <2>1, AttemptsUntouched
  <1>9. TypeOK' /\ EvidenceTyped'
    BY <1>1, <1>6 DEF Inv, TypeOK, EvidenceTyped
  <1>10. NothingIsOrphaned'
    BY <1>1, <1>6, <1>7 DEF Inv, NothingIsOrphaned
  <1>11. OperationInv'
    BY <1>1, <1>6, <1>7 DEF Inv, OperationInv, Consistent
  <1>12. NewestInv'
    BY <1>1, NewestStays DEF Inv
  <1>. QED
    BY <1>8, <1>9, <1>10, <1>11, <1>12 DEF Inv

------------------------------------------------------------------------------
(* The transactions                                                          *)

\* What an attempt is when it is done, and when it reads.
LEMMA DoneAttempt ==
  ASSUME NEW a \in Attempt
  PROVE  \E b \in Attempt :
           /\ b = [a EXCEPT !.pc = "done", !.read = NothingRead]
           /\ b.op = a.op /\ b.stage = a.stage /\ b.live = a.live /\ b.pc = "done"
  <1>1. NothingRead \in [rows : SUBSET Rows, missed : SUBSET Values, number : Nat, active : SUBSET Nat]
    BY DEF NothingRead
  <1>. DEFINE b == [a EXCEPT !.pc = "done", !.read = NothingRead]
  <1>2. b \in Attempt
    BY <1>1 DEF Attempt
  <1>3. b.op = a.op /\ b.stage = a.stage /\ b.live = a.live /\ b.pc = "done"
    BY DEF Attempt
  <1>. QED
    BY <1>2, <1>3

LEMMA ReadingAttempt ==
  ASSUME NEW a \in Attempt, NEW rows \in SUBSET Rows
  PROVE  \E b \in Attempt :
           /\ b = [a EXCEPT !.pc = "reading", !.read.rows = rows]
           /\ b.op = a.op /\ b.stage = a.stage /\ b.live = a.live /\ b.pc = "reading"
           /\ b.read.rows = rows
  <1>1. a.read \in [rows : SUBSET Rows, missed : SUBSET Values, number : Nat, active : SUBSET Nat]
    BY DEF Attempt
  <1>2. PICK read \in [rows : SUBSET Rows, missed : SUBSET Values, number : Nat, active : SUBSET Nat] :
          read = [a.read EXCEPT !.rows = rows] /\ read.rows = rows
    <2>. DEFINE read == [a.read EXCEPT !.rows = rows]
    <2>1. read \in [rows : SUBSET Rows, missed : SUBSET Values, number : Nat, active : SUBSET Nat] /\ read.rows = rows
      BY <1>1
    <2>. QED
      BY <2>1
  <1>. DEFINE b == [a EXCEPT !.pc = "reading", !.read = read]
  <1>3. b = [a EXCEPT !.pc = "reading", !.read.rows = rows]
    BY <1>2 DEF Attempt
  <1>4. b \in Attempt
    BY <1>2 DEF Attempt
  <1>5. b.op = a.op /\ b.stage = a.stage /\ b.live = a.live /\ b.pc = "reading" /\ b.read = read
    BY DEF Attempt
  <1>. QED
    BY <1>2, <1>3, <1>4, <1>5

LEMMA AttemptFacts ==
  ASSUME Inv, NEW a \in attempts
  PROVE  /\ a \in Attempt /\ a.op \in DOMAIN ops /\ ops \in Seq(Operation)
         /\ ops[a.op] \in Operation /\ a.stage \in 1..5
         /\ Consistent(ops[a.op]) /\ Sound(a)
         /\ [ops EXCEPT ![a.op] = ops[a.op]] = ops
         /\ Keeps(ops[a.op], ops[a.op])
  <1>1. a \in Attempt /\ a.op \in DOMAIN ops /\ ops \in Seq(Operation) /\ Sound(a)
    BY DEF Inv, AttemptInv, Sound, TypeOK
  <1>2. ops[a.op] \in Operation /\ [ops EXCEPT ![a.op] = ops[a.op]] = ops /\ a.stage \in 1..5
    BY <1>1 DEF Attempt
  <1>. QED
    BY <1>1, <1>2 DEF Inv, OperationInv, Keeps

\* A transaction that ends the activity: only what it wrote needs a look.
LEMMA DoneKeepsInv ==
  ASSUME Inv, NEW a \in attempts, Done(a), IsBusy(a) \/ ~Busy(a.op),
         NEW r \in Operation, ops' = [ops EXCEPT ![a.op] = r],
         r.stage = ops[a.op].stage, Keeps(ops[a.op], r), a.stage \in {4, 5} => r.plan # 0,
         UNCHANGED <<questions, evidence>>,
         Grows(claims, claims'), Grows(plans, plans'), Grows(manuscripts, manuscripts'),
         syntheses' \in Seq(SynthesisRow), claims' \in Seq(Claim),
         plans' \in Seq(SUBSET DOMAIN claims'), manuscripts' \in Seq(DOMAIN plans'),
         SynthesesStay,
         NewestInv',
         \A i \in DOMAIN syntheses' \ DOMAIN syntheses : r.synthesis = i,
         \A i \in DOMAIN plans' \ DOMAIN plans : r.plan = i,
         \A i \in DOMAIN manuscripts' \ DOMAIN manuscripts : r.manuscript = i,
         Consistent(r)'
  PROVE  Inv'
  <1>1. a \in Attempt /\ Sound(a) /\ a.op \in DOMAIN ops /\ ops \in Seq(Operation)
    BY AttemptFacts
  <1>2. PICK b \in Attempt :
          /\ b = [a EXCEPT !.pc = "done", !.read = NothingRead]
          /\ b.op = a.op /\ b.stage = a.stage /\ b.live = a.live /\ b.pc = "done"
    BY <1>1, DoneAttempt
  <1>4. ops'[a.op] = r /\ DOMAIN ops' = DOMAIN ops
    BY <1>1, OperationReplaced
  <1>5. Sound(b)'
    BY <1>1, <1>2, <1>4 DEF Sound, IsBusy
  <1>6. Move(a, b)
    BY <1>2 DEF Done
  <1>. QED
    BY <1>2, <1>5, <1>6, Transaction

\* The same for one that leaves the tables alone.
LEMMA FoundKeepsInv ==
  ASSUME Inv, NEW a \in attempts, Done(a), ~Busy(a.op),
         NEW r \in Operation, ops' = [ops EXCEPT ![a.op] = r],
         r.stage = ops[a.op].stage, Keeps(ops[a.op], r), a.stage \in {4, 5} => r.plan # 0,
         UNCHANGED <<questions, evidence, artifacts>>, Consistent(r)
  PROVE  Inv'
  <1>1. UNCHANGED <<questions, evidence, syntheses, claims, plans, manuscripts>>
    BY DEF artifacts
  <1>2. /\ syntheses' \in Seq(SynthesisRow) /\ claims' \in Seq(Claim)
        /\ plans' \in Seq(SUBSET DOMAIN claims') /\ manuscripts' \in Seq(DOMAIN plans')
        /\ NewestInv'
    BY <1>1, NewestStays DEF Inv, TypeOK
  <1>3. /\ DOMAIN syntheses' \ DOMAIN syntheses = {} /\ DOMAIN plans' \ DOMAIN plans = {}
        /\ DOMAIN manuscripts' \ DOMAIN manuscripts = {}
    BY <1>1
  <1>4. Consistent(r)'
    BY <1>1 DEF Consistent
  <1>5. /\ Grows(claims, claims') /\ Grows(plans, plans') /\ Grows(manuscripts, manuscripts')
        /\ SynthesesStay
    BY <1>1, GrowsSelf, SameSynthesesStay
  <1>. QED
    BY <1>1, <1>2, <1>3, <1>4, <1>5, DoneKeepsInv

\* An attempt reads or asks, and stays at work.
LEMMA ReadingKeepsInv ==
  ASSUME Inv, NEW a \in attempts, NEW b \in Attempt, Move(a, b),
         b.op = a.op, b.stage = a.stage, b.live = a.live, IsBusy(b),
         IsBusy(a) \/ ~Busy(a.op), Holds(b),
         UNCHANGED <<questions, evidence, artifacts, ops>>
  PROVE  Inv'
  <1>1. UNCHANGED <<questions, evidence, syntheses, claims, plans, manuscripts>>
    BY DEF artifacts
  <1>2. /\ syntheses' \in Seq(SynthesisRow) /\ claims' \in Seq(Claim)
        /\ plans' \in Seq(SUBSET DOMAIN claims') /\ manuscripts' \in Seq(DOMAIN plans')
        /\ NewestInv'
    BY <1>1, NewestStays DEF Inv, TypeOK
  <1>3. /\ DOMAIN syntheses' \ DOMAIN syntheses = {} /\ DOMAIN plans' \ DOMAIN plans = {}
        /\ DOMAIN manuscripts' \ DOMAIN manuscripts = {}
    BY <1>1
  <1>4. PICK r \in Operation : r = ops[a.op]
    BY AttemptFacts
  <1>5. ops' = [ops EXCEPT ![a.op] = r] /\ Keeps(ops[a.op], r) /\ r.stage = ops[a.op].stage
    BY <1>4, AttemptFacts
  <1>6. Consistent(r)'
    BY <1>1, <1>4, AttemptFacts DEF Consistent
  <1>7. /\ Grows(claims, claims') /\ Grows(plans, plans') /\ Grows(manuscripts, manuscripts')
        /\ SynthesesStay
    BY <1>1, GrowsSelf, SameSynthesesStay
  <1>8. Sound(b)'
    <2>1. Sound(a)
      BY AttemptFacts
    <2>2. Holds(b)'
      BY <1>1 DEF Holds, CurrentRows, Active, OfQuestion, Versions, IsLatest
    <2>. QED
      BY <2>1, <2>2 DEF Sound, IsBusy, Holds
  <1>. QED
    BY <1>1, <1>2, <1>3, <1>5, <1>6, <1>7, <1>8, Transaction

\* A stage that finds what it was to make already there.
LEMMA NothingNewKeepsInv ==
  ASSUME Inv, NEW a \in attempts, Done(a), ~Busy(a.op), UNCHANGED <<questions, evidence, artifacts, ops>>,
         a.stage = 4 => ops[a.op].plan # 0
  PROVE  Inv'
  <1>1. PICK r \in Operation : r = ops[a.op]
    BY AttemptFacts
  <1>2. ops' = [ops EXCEPT ![a.op] = r] /\ Keeps(ops[a.op], r) /\ r.stage = ops[a.op].stage
    BY <1>1, AttemptFacts
  <1>3. a.stage \in {4, 5} => r.plan # 0
    BY <1>1, AttemptFacts DEF Sound
  <1>4. Consistent(r)
    BY <1>1, AttemptFacts
  <1>. QED
    BY <1>2, <1>3, <1>4, FoundKeepsInv

LEMMA CheckReadinessKeepsInv ==
  ASSUME Inv, NEW a \in attempts, CheckReadiness(a)
  PROVE  Inv'
  <1>1. a.stage = 1 /\ ~Busy(a.op)
    BY AttemptFacts, StageNames DEF CheckReadiness, Begins, At
  <1>2. CASE Ready
    <2>1. /\ Done(a) /\ ops' = [ops EXCEPT ![a.op].question = questions]
          /\ UNCHANGED <<questions, evidence, artifacts>>
      BY <1>2 DEF CheckReadiness
    <2>2. questions \in Nat
      BY DEF Inv, EvidenceTyped
    <2>3. PICK r \in Operation : r = [ops[a.op] EXCEPT !.question = questions]
      BY <2>2, AttemptFacts DEF Operation
    <2>4. /\ r.stage = ops[a.op].stage /\ r.synthesis = ops[a.op].synthesis
          /\ r.claims = ops[a.op].claims /\ r.plan = ops[a.op].plan
          /\ r.manuscript = ops[a.op].manuscript
      BY <2>3, AttemptFacts DEF Operation
    <2>5. Consistent(r) /\ Keeps(ops[a.op], r)
      BY <2>4, AttemptFacts DEF Consistent, Keeps
    <2>6. ops' = [ops EXCEPT ![a.op] = r]
      BY <2>1, <2>3
    <2>7. a.stage \in {4, 5} => r.plan # 0
      BY <1>1
    <2>. QED
      BY <1>1, <2>1, <2>4, <2>5, <2>6, <2>7, FoundKeepsInv, Zenon
  <1>3. CASE ~Ready
    BY <1>3, RaisesKeepsInv DEF CheckReadiness
  <1>. QED
    BY <1>2, <1>3

\* An attempt reads what the stage is about.
LEMMA ReadsKeepsInv ==
  ASSUME Inv, NEW a \in attempts, NEW rows \in SUBSET Rows, Reads(a, rows), ~Busy(a.op),
         UNCHANGED <<questions, evidence, artifacts, ops>>,
         a.stage \in {2, 3, 4},
         a.stage = 2 => ops[a.op].synthesis = 0,
         a.stage = 3 => ops[a.op].claims = {},
         a.stage = 4 => ops[a.op].plan = 0,
         rows \subseteq CurrentRows
  PROVE  Inv'
  <1>1. a \in Attempt
    BY AttemptFacts
  <1>2. PICK b \in Attempt :
          /\ b = [a EXCEPT !.pc = "reading", !.read.rows = rows]
          /\ b.op = a.op /\ b.stage = a.stage /\ b.live = a.live /\ b.pc = "reading"
          /\ b.read.rows = rows
    BY <1>1, ReadingAttempt
  <1>3. Move(a, b)
    BY <1>2 DEF Reads
  <1>4. IsBusy(b) /\ Holds(b)
    BY <1>2 DEF IsBusy, Holds
  <1>. QED
    BY <1>2, <1>3, <1>4, ReadingKeepsInv

LEMMA AsksAgentKeepsInv ==
  ASSUME Inv, NEW a \in attempts, AsksAgent(a)
  PROVE  Inv'
  <1>1. a \in Attempt /\ a.pc = "reading" /\ UNCHANGED <<questions, evidence, artifacts, ops>>
    BY AttemptFacts DEF AsksAgent
  <1>2. IsBusy(a) /\ Holds(a)
    BY <1>1, AttemptFacts DEF Sound, IsBusy
  <1>3. PICK b \in Attempt :
          /\ b = [a EXCEPT !.pc = "asking"] /\ b.pc = "asking"
          /\ b.op = a.op /\ b.stage = a.stage /\ b.live = a.live /\ b.read = a.read
    <2>. DEFINE b == [a EXCEPT !.pc = "asking"]
    <2>1. /\ b \in Attempt /\ b.pc = "asking"
          /\ b.op = a.op /\ b.stage = a.stage /\ b.live = a.live /\ b.read = a.read
      BY <1>1 DEF Attempt
    <2>. QED
      BY <2>1
  <1>4. Move(a, b)
    BY <1>3 DEF AsksAgent
  <1>5. IsBusy(b) /\ Holds(b)
    BY <1>2, <1>3 DEF IsBusy, Holds
  <1>. QED
    BY <1>1, <1>2, <1>3, <1>4, <1>5, ReadingKeepsInv

LEMMA BeginSynthesisKeepsInv ==
  ASSUME Inv, NEW a \in attempts, BeginSynthesis(a)
  PROVE  Inv'
  <1>1. a.stage = 2 /\ ~Busy(a.op) /\ UNCHANGED <<questions, evidence, artifacts>>
    BY AttemptFacts, StageNames DEF BeginSynthesis, Begins, At
  <1>2. CASE Done(a) /\ UNCHANGED ops
    BY <1>1, <1>2, NothingNewKeepsInv
  <1>3. ASSUME NEW i \in Shown, ops[a.op].synthesis = 0, Done(a),
               ops' = [ops EXCEPT ![a.op].synthesis = i]
        PROVE  Inv'
    <2>1. i \in Nat
      BY DEF Inv, TypeOK, Shown, Active
    <2>2. PICK r \in Operation : r = [ops[a.op] EXCEPT !.synthesis = i]
      BY <2>1, AttemptFacts DEF Operation
    <2>3. /\ r.stage = ops[a.op].stage /\ r.claims = ops[a.op].claims
          /\ r.plan = ops[a.op].plan /\ r.manuscript = ops[a.op].manuscript
      BY <2>2, AttemptFacts DEF Operation
    <2>4. Consistent(r) /\ Keeps(ops[a.op], r)
      BY <1>3, <2>3, AttemptFacts DEF Consistent, Keeps
    <2>5. ops' = [ops EXCEPT ![a.op] = r]
      BY <1>3, <2>2
    <2>6. a.stage \in {4, 5} => r.plan # 0
      BY <1>1
    <2>. QED
      BY <1>1, <1>3, <2>3, <2>4, <2>5, <2>6, FoundKeepsInv, Zenon
  <1>4. CASE ops[a.op].synthesis = 0 /\ Reads(a, CurrentRows) /\ UNCHANGED ops
    <2>1. PICK rows \in SUBSET Rows : rows = CurrentRows
      BY RowsTyped DEF Inv
    <2>2. Reads(a, rows)
      BY <1>4, <2>1 DEF Reads
    <2>. QED
      BY <1>1, <1>4, <2>1, <2>2, ReadsKeepsInv
  <1>. QED
    BY <1>2, <1>3, <1>4 DEF BeginSynthesis

\* The highest version of a question is that of its newest synthesis.
LEMMA LatestVersion ==
  ASSUME Inv, NEW q \in Nat
  PROVE  Latest(Versions(q)) \in Nat /\ IsLatest(Latest(Versions(q)), q)
  <1>1. Versions(q) \subseteq Nat
    BY VersionsTyped DEF Inv, TypeOK
  <1>2. CASE Versions(q) = {}
    BY <1>2 DEF Latest, IsLatest
  <1>3. CASE Versions(q) # {}
    <2>1. PICK i \in OfQuestion(q) : \A j \in OfQuestion(q) \ {i} : syntheses[j].version < syntheses[i].version
      BY <1>3 DEF Inv, NewestInv, Newest, Versions
    <2>2. syntheses[i].version \in Versions(q) /\ \A m \in Versions(q) : m <= syntheses[i].version
      BY <1>1, <2>1 DEF Versions
    <2>3. /\ Latest(Versions(q)) \in Versions(q)
          /\ \A m \in Versions(q) : m <= Latest(Versions(q))
      BY <1>3, <2>2 DEF Latest
    <2>. QED
      BY <1>1, <2>3 DEF IsLatest
  <1>. QED
    BY <1>2, <1>3

LEMMA ReadVersionsKeepsInv ==
  ASSUME Inv, NEW a \in attempts, ReadVersions(a)
  PROVE  Inv'
  <1>1. a.stage \in {2, 4} /\ a.pc = "asking" /\ UNCHANGED <<questions, evidence, artifacts, ops>>
    BY AttemptFacts, StageNames DEF ReadVersions, At
  <1>2. a \in Attempt /\ IsBusy(a) /\ Holds(a)
    BY <1>1, AttemptFacts DEF Sound, IsBusy
  <1>3. PICK q \in Nat : q = ops[a.op].question
    BY AttemptFacts DEF Operation
  <1>4. /\ Active \cap OfQuestion(q) \in SUBSET Nat /\ a.read.active \in SUBSET Nat
        /\ Latest(Versions(q)) \in Nat /\ IsLatest(Latest(Versions(q)), q)
        /\ Len(plans) \in Nat
    <2>1. Active \subseteq Nat /\ Len(plans) \in Nat
      BY ActiveNumbers DEF Inv, TypeOK
    <2>2. a.read.active \in SUBSET Nat
      BY <1>2 DEF Attempt
    <2>. QED
      BY <2>1, <2>2, LatestVersion
  <1>5. PICK active \in SUBSET Nat, number \in Nat :
          IF a.stage = 2 THEN active = Active \cap OfQuestion(q) /\ number = Latest(Versions(q))
          ELSE active = a.read.active /\ number = Len(plans)
    BY <1>4
  <1>6. PICK b \in Attempt :
          /\ b = [a EXCEPT !.pc = "storing", !.read.active = active, !.read.number = number]
          /\ b.op = a.op /\ b.stage = a.stage /\ b.live = a.live /\ b.pc = "storing"
          /\ b.read.rows = a.read.rows /\ b.read.missed = a.read.missed
          /\ b.read.active = active /\ b.read.number = number
    <2>1. a.read \in [rows : SUBSET Rows, missed : SUBSET Values, number : Nat, active : SUBSET Nat]
      BY <1>2 DEF Attempt
    <2>2. PICK read \in [rows : SUBSET Rows, missed : SUBSET Values, number : Nat, active : SUBSET Nat] :
            /\ read = [a.read EXCEPT !.active = active, !.number = number]
            /\ read.rows = a.read.rows /\ read.missed = a.read.missed
            /\ read.active = active /\ read.number = number
      <3>. DEFINE read == [a.read EXCEPT !.active = active, !.number = number]
      <3>1. /\ read \in [rows : SUBSET Rows, missed : SUBSET Values, number : Nat, active : SUBSET Nat]
            /\ read.rows = a.read.rows /\ read.missed = a.read.missed
            /\ read.active = active /\ read.number = number
        BY <2>1
      <3>. QED
        BY <3>1
    <2>. DEFINE b == [a EXCEPT !.pc = "storing", !.read = read]
    <2>3. b = [a EXCEPT !.pc = "storing", !.read.active = active, !.read.number = number]
      BY <1>2, <2>2 DEF Attempt
    <2>4. b \in Attempt
      BY <1>2, <2>2 DEF Attempt
    <2>5. b.op = a.op /\ b.stage = a.stage /\ b.live = a.live /\ b.pc = "storing" /\ b.read = read
      BY <1>2 DEF Attempt
    <2>6. PICK c \in Attempt : c = b
      BY <2>4
    <2>. HIDE DEF b
    <2>. QED
      BY <2>2, <2>3, <2>5, <2>6
  <1>7. Move(a, b)
    <2>1. CASE a.stage = 2
      <3>1. Move(a, [a EXCEPT !.pc = "storing", !.read.active = Active \cap OfQuestion(q),
                              !.read.number = Latest(Versions(q))])
        BY <1>3, <2>1, StageNames DEF ReadVersions, At
      <3>. QED
        BY <1>5, <1>6, <2>1, <3>1
    <2>2. CASE a.stage = 4
      <3>1. Move(a, [a EXCEPT !.pc = "storing", !.read.number = Len(plans)])
        BY <2>2, StageNames DEF ReadVersions, At
      <3>2. active = a.read.active /\ number = Len(plans)
        BY <1>5, <2>2
      <3>3. PICK read : read = a.read /\ read \in [rows : SUBSET Rows, missed : SUBSET Values, number : Nat, active : SUBSET Nat]
        BY <1>2 DEF Attempt
      <3>4. [read EXCEPT !.active = active, !.number = number] = [read EXCEPT !.number = number]
        BY <3>2, <3>3
      <3>5. [a EXCEPT !.pc = "storing", !.read.active = active, !.read.number = number]
              = [a EXCEPT !.pc = "storing", !.read.number = number]
        BY <1>2, <3>2, <3>3, <3>4 DEF Attempt
      <3>. QED
        BY <1>6, <3>1, <3>2, <3>5
    <2>. QED
      BY <1>1, <2>1, <2>2
  <1>8. a.stage = 2 => IsLatest(number, q) /\ active = Active \cap OfQuestion(q)
    BY <1>4, <1>5
  <1>9. IsBusy(b) /\ Holds(b)
    BY <1>2, <1>3, <1>6, <1>8 DEF Holds, IsBusy
  <1>. QED
    BY <1>1, <1>2, <1>6, <1>7, <1>9, ReadingKeepsInv

\* Nobody made a version of the question since the numbers were read: the new one is
\* the highest, and replaces all that were active.
LEMMA StoreSynthesisKeepsInv ==
  ASSUME Inv, NEW a \in attempts, StoreSynthesis(a)
  PROVE  Inv'
  <1>1. /\ a.stage = 2 /\ a.pc = "storing" /\ Done(a) /\ IsBusy(a)
        /\ a.read.number + 1 \notin Versions(ops[a.op].question)
        /\ UNCHANGED <<questions, evidence, claims, plans, manuscripts>>
    BY AttemptFacts, StageNames DEF StoreSynthesis, At, NumberIsFree, IsBusy
  <1>2. PICK q \in Nat : q = ops[a.op].question
    BY AttemptFacts DEF Operation
  <1>3. PICK n \in Nat : n = a.read.number
    BY AttemptFacts DEF Attempt
  <1>4. /\ ops[a.op].synthesis = 0 /\ IsLatest(n, q)
        /\ a.read.active = Active \cap OfQuestion(q) /\ a.read.rows \subseteq Rows
    BY <1>1, <1>2, <1>3, AttemptFacts DEF Sound, Holds, Attempt
  <1>5. /\ syntheses \in Seq(SynthesisRow) /\ Len(syntheses) \in Nat
        /\ DOMAIN syntheses = 1..Len(syntheses)
        /\ \A i \in DOMAIN syntheses : syntheses[i] \in SynthesisRow
    BY DEF Inv, TypeOK
  <1>6. PICK new \in SynthesisRow :
          /\ new = [question |-> q, version |-> n + 1, status |-> "GENERATED", evidence |-> a.read.rows]
          /\ new.question = q /\ new.version = n + 1 /\ new.status = "GENERATED"
    <2>. DEFINE new == [question |-> q, version |-> n + 1, status |-> "GENERATED", evidence |-> a.read.rows]
    <2>1. a.read.rows \in SUBSET Rows /\ n + 1 \in Nat
      BY <1>4
    <2>2. new \in SynthesisRow
      BY <2>1 DEF SynthesisRow
    <2>3. new.question = q /\ new.version = n + 1 /\ new.status = "GENERATED"
      OBVIOUS
    <2>. QED
      BY <2>2, <2>3
  <1>. DEFINE old == [i \in DOMAIN syntheses |->
                        IF i \in a.read.active THEN [syntheses[i] EXCEPT !.status = "SUPERSEDED"]
                        ELSE syntheses[i]]
  <1>7. ASSUME NEW i \in DOMAIN syntheses
        PROVE  /\ old[i] \in SynthesisRow
               /\ old[i].question = syntheses[i].question /\ old[i].version = syntheses[i].version
               /\ old[i].status # "SUPERSEDED" <=> i \in Active /\ i \notin OfQuestion(q)
    <2>1. syntheses[i] \in SynthesisRow
      BY <1>5
    <2>2. CASE i \in a.read.active
      <3>1. old[i] = [syntheses[i] EXCEPT !.status = "SUPERSEDED"]
        BY <2>2
      <3>2. /\ old[i] \in SynthesisRow /\ old[i].status = "SUPERSEDED"
            /\ old[i].question = syntheses[i].question /\ old[i].version = syntheses[i].version
        BY <2>1, <3>1 DEF SynthesisRow
      <3>. QED
        BY <1>4, <2>2, <3>2
    <2>3. CASE i \notin a.read.active
      <3>1. old[i] = syntheses[i]
        BY <2>3
      <3>2. old[i].status # "SUPERSEDED" <=> i \in Active
        BY <3>1 DEF Active
      <3>. QED
        BY <1>4, <2>1, <2>3, <3>1, <3>2
    <2>. QED
      BY <2>2, <2>3
  <1>8. old \in Seq(SynthesisRow) /\ Len(old) = Len(syntheses) /\ DOMAIN old = DOMAIN syntheses
    <2>1. old \in [1..Len(syntheses) -> SynthesisRow]
      BY <1>5, <1>7
    <2>. HIDE DEF old
    <2>. QED
      BY <1>5, <2>1
  <1>9. syntheses' = Append(old, new)
    BY <1>2, <1>3, <1>6 DEF StoreSynthesis, WithSynthesis
  <1>. HIDE DEF old
  <1>10. PICK k \in Nat : k = Len(syntheses) + 1
    BY <1>5
  <1>11. /\ syntheses' \in Seq(SynthesisRow)
         /\ DOMAIN syntheses' = DOMAIN syntheses \cup {k} /\ k \notin DOMAIN syntheses
         /\ syntheses'[k] = new /\ \A i \in DOMAIN syntheses : syntheses'[i] = old[i]
    BY <1>8, <1>9, <1>10, AppendGrows DEF Grows
  <1>12. /\ OfQuestion(q)' = OfQuestion(q) \cup {k} /\ Active' = (Active \ OfQuestion(q)) \cup {k}
         /\ \A p \in Nat \ {q} : OfQuestion(p)' = OfQuestion(p)
    <2>1. OfQuestion(q)' = OfQuestion(q) \cup {k}
      BY <1>6, <1>7, <1>11 DEF OfQuestion
    <2>2. Active' = (Active \ OfQuestion(q)) \cup {k}
      BY <1>6, <1>7, <1>11 DEF Active
    <2>3. \A p \in Nat \ {q} : OfQuestion(p)' = OfQuestion(p)
      BY <1>6, <1>7, <1>11 DEF OfQuestion
    <2>. QED
      BY <2>1, <2>2, <2>3
  <1>13. \A i \in DOMAIN syntheses : syntheses'[i].version = syntheses[i].version
    BY <1>7, <1>11
  <1>14. ASSUME NEW p \in Nat
         PROVE  \A i \in OfQuestion(p) : i # k /\ i \in DOMAIN syntheses
    BY <1>11 DEF OfQuestion
  <1>15. ASSUME NEW p \in Nat, p # q
         PROVE  (Active \cap OfQuestion(p))' = Active \cap OfQuestion(p) /\ Versions(p)' = Versions(p)
    <2>1. OfQuestion(p) \cap OfQuestion(q) = {}
      BY <1>15 DEF OfQuestion
    <2>2. (Active \cap OfQuestion(p))' = Active \cap OfQuestion(p)
      BY <1>12, <1>14, <1>15, <2>1
    <2>3. OfQuestion(p)' = OfQuestion(p) /\ \A i \in OfQuestion(p) : syntheses'[i].version = syntheses[i].version
      BY <1>12, <1>13, <1>14, <1>15
    <2>4. Versions(p)' = Versions(p)
      BY <2>3 DEF Versions
    <2>. QED
      BY <2>2, <2>4
  <1>16. Versions(q) \subseteq Versions(q)' /\ n + 1 \in Versions(q)'
    <2>1. \A i \in OfQuestion(q) : syntheses'[i].version = syntheses[i].version
      BY <1>13, <1>14
    <2>. QED
      BY <1>6, <1>11, <1>12, <2>1 DEF Versions
  <1>17. SynthesesStay
    BY <1>4, <1>15, <1>16 DEF SynthesesStay, Kept, Added
  <1>18. NewestInv'
    <2>1. ASSUME NEW p \in Nat, p # q PROVE Newest(p)'
      <3>1. Newest(p)
        BY DEF Inv, NewestInv
      <3>2. \A i \in OfQuestion(p) : syntheses'[i].version = syntheses[i].version
        BY <1>13, <1>14
      <3>. QED
        BY <1>12, <1>15, <2>1, <3>1, <3>2 DEF Newest
    <2>2. Newest(q)'
      <3>1. (Active \cap OfQuestion(q))' = {k}
        BY <1>12
      <3>2. ASSUME NEW j \in OfQuestion(q)' \ {k} PROVE syntheses'[j].version < syntheses'[k].version
        <4>1. j \in OfQuestion(q) /\ syntheses'[j].version = syntheses[j].version /\ j \in DOMAIN syntheses
          BY <1>12, <1>13, <1>14
        <4>2. syntheses[j].version \in Versions(q) /\ syntheses[j].version \in Nat
          BY <1>5, <4>1 DEF Versions, SynthesisRow
        <4>. QED
          BY <1>4, <1>6, <1>11, <4>1, <4>2 DEF IsLatest
      <3>. QED
        BY <1>12, <3>1, <3>2 DEF Newest
    <2>. QED
      BY <2>1, <2>2 DEF NewestInv
  <1>19. PICK r \in Operation : r = [ops[a.op] EXCEPT !.synthesis = k]
    BY AttemptFacts DEF Operation
  <1>20. /\ r.stage = ops[a.op].stage /\ r.claims = ops[a.op].claims
         /\ r.plan = ops[a.op].plan /\ r.manuscript = ops[a.op].manuscript
         /\ r.synthesis = k
    BY <1>19, AttemptFacts DEF Operation
  <1>21. Consistent(r) /\ Keeps(ops[a.op], r)
    BY <1>4, <1>20, AttemptFacts DEF Consistent, Keeps
  <1>22. ops' = [ops EXCEPT ![a.op] = r]
    BY <1>10, <1>19 DEF StoreSynthesis
  <1>23. /\ claims' \in Seq(Claim) /\ plans' \in Seq(SUBSET DOMAIN claims')
         /\ manuscripts' \in Seq(DOMAIN plans')
         /\ Grows(claims, claims') /\ Grows(plans, plans') /\ Grows(manuscripts, manuscripts')
    BY <1>1, GrowsSelf DEF Inv, TypeOK
  <1>24. /\ \A i \in DOMAIN syntheses' \ DOMAIN syntheses : r.synthesis = i
         /\ \A i \in DOMAIN plans' \ DOMAIN plans : r.plan = i
         /\ \A i \in DOMAIN manuscripts' \ DOMAIN manuscripts : r.manuscript = i
    BY <1>1, <1>11, <1>20
  <1>25. Consistent(r)'
    BY <1>1, <1>21 DEF Consistent
  <1>26. (a.stage \in {4, 5} => r.plan # 0) /\ UNCHANGED <<questions, evidence>>
    BY <1>1
  <1>. QED
    BY <1>1, <1>11, <1>17, <1>18, <1>20, <1>21, <1>22, <1>23, <1>24, <1>25, <1>26, DoneKeepsInv

LEMMA BeginClaimsKeepsInv ==
  ASSUME Inv, NEW a \in attempts, BeginClaims(a)
  PROVE  Inv'
  <1>1. a.stage = 3 /\ ~Busy(a.op) /\ UNCHANGED <<questions, evidence, artifacts>>
    BY AttemptFacts, StageNames DEF BeginClaims, Begins, At
  <1>2. CASE Done(a) /\ UNCHANGED ops
    BY <1>1, <1>2, NothingNewKeepsInv
  <1>3. CASE /\ ops[a.op].claims = {} /\ Done(a)
             /\ ops' = [ops EXCEPT ![a.op].claims = Reusable(a.op)]
    <2>1. Reusable(a.op) \in SUBSET Nat
      BY DEF Inv, TypeOK, Reusable
    <2>2. PICK r \in Operation : r = [ops[a.op] EXCEPT !.claims = Reusable(a.op)]
      BY <2>1, AttemptFacts DEF Operation
    <2>3. /\ r.stage = ops[a.op].stage /\ r.synthesis = ops[a.op].synthesis
          /\ r.plan = ops[a.op].plan /\ r.manuscript = ops[a.op].manuscript
          /\ r.claims = Reusable(a.op)
      BY <2>2, AttemptFacts DEF Operation
    <2>4. Consistent(r) /\ Keeps(ops[a.op], r)
      <3>1. Consistent(ops[a.op])
        BY AttemptFacts
      <3>. QED
        BY <1>3, <2>3, <3>1 DEF Consistent, Keeps, Reusable
    <2>5. ops' = [ops EXCEPT ![a.op] = r]
      BY <1>3, <2>2
    <2>6. a.stage \in {4, 5} => r.plan # 0
      BY <1>1
    <2>. QED
      BY <1>1, <1>3, <2>3, <2>4, <2>5, <2>6, FoundKeepsInv, Zenon
  <1>4. CASE ops[a.op].claims = {} /\ Reads(a, CurrentRows) /\ UNCHANGED ops
    <2>1. PICK rows \in SUBSET Rows : rows = CurrentRows
      BY RowsTyped DEF Inv
    <2>2. Reads(a, rows)
      BY <1>4, <2>1 DEF Reads
    <2>. QED
      BY <1>1, <1>4, <2>1, <2>2, ReadsKeepsInv
  <1>. QED
    BY <1>2, <1>3, <1>4 DEF BeginClaims, ClaimContext

\* Rows are appended.
LEMMA ConcatGrows ==
  ASSUME NEW S, NEW s \in Seq(S), NEW t \in Seq(S)
  PROVE  /\ s \o t \in Seq(S) /\ DOMAIN (s \o t) = 1..Len(s) + Len(t)
         /\ Grows(s, s \o t)
         /\ \A i \in 1..Len(t) : (s \o t)[Len(s) + i] = t[i]
  BY DEF Grows

\* What the agents proposed: a sequence of claims, each of the rows the attempt has read.
LEMMA ProposedClaims ==
  ASSUME Inv, NEW a \in attempts, At(a, "CLAIMS", "asking"),
         NEW n \in Candidates, NEW proposed \in [1..n -> Proposals(a)]
  PROVE  /\ proposed \in Seq(Claim) /\ Len(proposed) = n /\ n \in Nat
         /\ \A i \in 1..n : \A row \in proposed[i].cites : row \in CurrentRows \/ row[1] \in a.read.missed
  <1>1. /\ a.read.rows \subseteq Rows
        /\ \A row \in a.read.rows : row \in CurrentRows \/ row[1] \in a.read.missed
    BY AttemptFacts DEF At, Sound, IsBusy, Holds, Attempt
  <1>2. Proposals(a) \subseteq Claim
    <2>1. 0..Len(syntheses) \subseteq Nat
      BY DEF Inv, TypeOK
    <2>. QED
      BY <1>1, <2>1 DEF Proposals, Claim
  <1>3. n \in Nat
    BY SynthesisBoundsAssumption
  <1>4. \A i \in 1..n : proposed[i] \in Proposals(a)
    OBVIOUS
  <1>5. \A i \in 1..n : proposed[i].cites \subseteq a.read.rows
    BY <1>4 DEF Proposals
  <1>6. proposed \in Seq(Claim) /\ Len(proposed) = n
    BY <1>2, <1>3
  <1>. QED
    BY <1>1, <1>3, <1>5, <1>6

LEMMA StoreClaimsKeepsInv ==
  ASSUME Inv, NEW a \in attempts, StoreClaims(a)
  PROVE  Inv'
  <1>1. /\ a.stage = 3 /\ IsBusy(a) /\ At(a, "CLAIMS", "asking")
        /\ UNCHANGED <<questions, evidence, syntheses, plans, manuscripts>>
    BY AttemptFacts, StageNames DEF StoreClaims, At, IsBusy
  <1>2. CASE Raises(a) /\ UNCHANGED claims
    <2>1. UNCHANGED <<questions, evidence, artifacts>>
      BY <1>1, <1>2 DEF artifacts
    <2>. QED
      BY <1>2, <2>1, RaisesKeepsInv
  <1>3. CASE ~(Raises(a) /\ UNCHANGED claims)
    <2>1. PICK n \in Candidates : \E proposed \in [1..n -> Proposals(a)] :
            LET accepted == {Len(claims) + i : i \in {j \in 1..n : proposed[j].verified}} IN
            /\ claims' = claims \o proposed
            /\ ops' = [ops EXCEPT ![a.op].claims = accepted]
            /\ Done(a)
      BY <1>3 DEF StoreClaims, Batches
    <2>2. PICK proposed \in [1..n -> Proposals(a)] :
            LET accepted == {Len(claims) + i : i \in {j \in 1..n : proposed[j].verified}} IN
            /\ claims' = claims \o proposed
            /\ ops' = [ops EXCEPT ![a.op].claims = accepted]
            /\ Done(a)
      BY <2>1
    <2>. DEFINE made == {Len(claims) + i : i \in {j \in 1..n : proposed[j].verified}}
    <2>3. PICK accepted : accepted = made
      OBVIOUS
    <2>4. claims' = claims \o proposed /\ ops' = [ops EXCEPT ![a.op].claims = accepted] /\ Done(a)
      BY <2>2, <2>3
    <2>5. proposed \in Seq(Claim) /\ Len(proposed) = n /\ n \in Nat
      BY <1>1, ProposedClaims
    <2>6. claims \in Seq(Claim)
      BY DEF Inv, TypeOK
    <2>7. /\ claims' \in Seq(Claim) /\ DOMAIN claims' = 1..Len(claims) + n
          /\ Grows(claims, claims')
          /\ \A i \in 1..n : claims'[Len(claims) + i] = proposed[i]
      BY <2>4, <2>5, <2>6, ConcatGrows
    <2>8. \A k \in accepted : \E i \in 1..n : k = Len(claims) + i /\ proposed[i].verified
      BY <2>3
    <2>. HIDE DEF made
    <2>9. /\ accepted \subseteq DOMAIN claims' /\ accepted \in SUBSET Nat
          /\ \A k \in accepted : claims'[k].verified
      BY <2>5, <2>6, <2>7, <2>8
    <2>10. PICK r \in Operation : r = [ops[a.op] EXCEPT !.claims = accepted]
      BY <2>9, AttemptFacts DEF Operation
    <2>11. /\ r.stage = ops[a.op].stage /\ r.synthesis = ops[a.op].synthesis
           /\ r.plan = ops[a.op].plan /\ r.manuscript = ops[a.op].manuscript
           /\ r.claims = accepted
      BY <2>10, AttemptFacts DEF Operation
    <2>12. ops' = [ops EXCEPT ![a.op] = r]
      BY <2>4, <2>10
    <2>13. Consistent(r)' /\ Keeps(ops[a.op], r)
      <3>1. Consistent(ops[a.op]) /\ ops[a.op].claims = {}
        BY <1>1, AttemptFacts DEF Sound, Holds
      <3>. QED
        BY <1>1, <2>9, <2>11, <3>1 DEF Consistent, Keeps
    <2>14. /\ syntheses' \in Seq(SynthesisRow) /\ manuscripts' \in Seq(DOMAIN plans')
           /\ NewestInv'
      BY <1>1, NewestStays DEF Inv, TypeOK
    <2>15. plans' \in Seq(SUBSET DOMAIN claims')
      <3>1. DOMAIN claims \subseteq DOMAIN claims'
        BY <2>7 DEF Grows
      <3>2. plans \in Seq(SUBSET DOMAIN claims)
        BY DEF Inv, TypeOK
      <3>3. \A i \in 1..Len(plans) : plans[i] \in SUBSET DOMAIN claims'
        BY <3>1, <3>2
      <3>. QED
        BY <1>1, <3>2, <3>3
    <2>16. Grows(plans, plans') /\ Grows(manuscripts, manuscripts')
      BY <1>1, GrowsSelf
    <2>17. /\ \A i \in DOMAIN syntheses' \ DOMAIN syntheses : r.synthesis = i
           /\ \A i \in DOMAIN plans' \ DOMAIN plans : r.plan = i
           /\ \A i \in DOMAIN manuscripts' \ DOMAIN manuscripts : r.manuscript = i
      BY <1>1
    <2>18. (a.stage \in {4, 5} => r.plan # 0) /\ UNCHANGED <<questions, evidence>> /\ SynthesesStay
      BY <1>1, SameSynthesesStay
    <2>. QED
      BY <1>1, <2>4, <2>7, <2>11, <2>12, <2>13, <2>14, <2>15, <2>16, <2>17, <2>18, DoneKeepsInv
  <1>. QED
    BY <1>2, <1>3

LEMMA BeginPlanKeepsInv ==
  ASSUME Inv, NEW a \in attempts, BeginPlan(a)
  PROVE  Inv'
  <1>1. a.stage = 4 /\ ~Busy(a.op) /\ UNCHANGED <<questions, evidence, artifacts>>
    BY AttemptFacts, StageNames DEF BeginPlan, Begins, At
  <1>2. CASE Done(a) /\ UNCHANGED ops /\ ops[a.op].plan # 0
    BY <1>1, <1>2, NothingNewKeepsInv
  <1>3. CASE /\ ops[a.op].plan = 0 /\ PlanFits(a.op) /\ Done(a)
             /\ ops' = [ops EXCEPT ![a.op].plan = Len(plans)]
    <2>1. /\ plans \in Seq(SUBSET DOMAIN claims) /\ Len(plans) \in 0..Len(plans) /\ Len(plans) # 0
          /\ plans[Len(plans)] = ops[a.op].claims
      BY <1>3 DEF Inv, TypeOK, PlanFits
    <2>2. PICK r \in Operation : r = [ops[a.op] EXCEPT !.plan = Len(plans)]
      <3>1. Len(plans) \in Nat
        BY <2>1
      <3>. QED
        BY <3>1, AttemptFacts DEF Operation
    <2>3. /\ r.stage = ops[a.op].stage /\ r.synthesis = ops[a.op].synthesis
          /\ r.claims = ops[a.op].claims /\ r.manuscript = ops[a.op].manuscript
          /\ r.plan = Len(plans)
      BY <2>2, AttemptFacts DEF Operation
    <2>4. Consistent(r) /\ Keeps(ops[a.op], r)
      <3>1. Consistent(ops[a.op])
        BY AttemptFacts
      <3>. QED
        BY <1>3, <2>1, <2>3, <3>1 DEF Consistent, Keeps
    <2>5. ops' = [ops EXCEPT ![a.op] = r]
      BY <1>3, <2>2
    <2>6. a.stage \in {4, 5} => r.plan # 0
      BY <2>1, <2>3
    <2>. QED
      BY <1>1, <1>3, <2>3, <2>4, <2>5, <2>6, FoundKeepsInv, Zenon
  <1>4. CASE ops[a.op].plan = 0 /\ Reads(a, {}) /\ UNCHANGED ops
    <2>1. PICK rows \in SUBSET Rows : rows = {}
      OBVIOUS
    <2>2. Reads(a, rows)
      BY <1>4, <2>1 DEF Reads
    <2>. QED
      BY <1>1, <1>4, <2>1, <2>2, ReadsKeepsInv
  <1>. QED
    BY <1>2, <1>3, <1>4 DEF BeginPlan

LEMMA StorePlanKeepsInv ==
  ASSUME Inv, NEW a \in attempts, StorePlan(a)
  PROVE  Inv'
  <1>1. /\ a.stage = 4 /\ IsBusy(a) /\ Done(a)
        /\ UNCHANGED <<questions, evidence, syntheses, claims, manuscripts>>
    BY AttemptFacts, StageNames DEF StorePlan, At, IsBusy
  <1>2. PICK planned \in SUBSET ops[a.op].claims : plans' = Append(plans, planned)
    BY DEF StorePlan
  <1>3. ops[a.op].plan = 0 /\ Consistent(ops[a.op])
    BY <1>1, AttemptFacts DEF Sound, Holds
  <1>4. plans \in Seq(SUBSET DOMAIN claims) /\ planned \in SUBSET DOMAIN claims
    BY <1>3 DEF Inv, TypeOK, Consistent
  <1>5. /\ plans' \in Seq(SUBSET DOMAIN claims) /\ Len(plans') = Len(plans) + 1
        /\ DOMAIN plans' = DOMAIN plans \cup {Len(plans) + 1} /\ Len(plans) + 1 # 0
        /\ Grows(plans, plans') /\ plans'[Len(plans) + 1] = planned
    BY <1>2, <1>4, AppendGrows
  <1>6. PICK r \in Operation : r = [ops[a.op] EXCEPT !.plan = Len(plans) + 1]
    <2>1. Len(plans) + 1 \in Nat
      BY <1>4
    <2>. QED
      BY <2>1, AttemptFacts DEF Operation
  <1>7. /\ r.stage = ops[a.op].stage /\ r.synthesis = ops[a.op].synthesis
        /\ r.claims = ops[a.op].claims /\ r.manuscript = ops[a.op].manuscript
        /\ r.plan = Len(plans) + 1
    BY <1>6, AttemptFacts DEF Operation
  <1>8. ops' = [ops EXCEPT ![a.op] = r]
    BY <1>6 DEF StorePlan
  <1>9. Consistent(r)' /\ Keeps(ops[a.op], r)
    <2>1. Len(plans) + 1 \in 0..Len(plans')
      BY <1>4, <1>5
    <2>2. r.manuscript = 0 /\ 0 \in 0..Len(manuscripts)
      <3>1. manuscripts \in Seq(DOMAIN plans)
        BY DEF Inv, TypeOK
      <3>. QED
        BY <1>3, <1>7, <3>1 DEF Consistent
    <2>. QED
      BY <1>1, <1>3, <1>5, <1>7, <2>1, <2>2 DEF Consistent, Keeps
  <1>10. /\ syntheses' \in Seq(SynthesisRow) /\ claims' \in Seq(Claim)
         /\ plans' \in Seq(SUBSET DOMAIN claims')
         /\ NewestInv'
    BY <1>1, <1>5, NewestStays DEF Inv, TypeOK
  <1>11. manuscripts' \in Seq(DOMAIN plans')
    <2>1. manuscripts \in Seq(DOMAIN plans) /\ DOMAIN plans \subseteq DOMAIN plans'
      BY <1>5 DEF Inv, TypeOK
    <2>2. \A i \in 1..Len(manuscripts) : manuscripts[i] \in DOMAIN plans'
      BY <2>1
    <2>. QED
      BY <1>1, <2>1, <2>2
  <1>12. Grows(claims, claims') /\ Grows(manuscripts, manuscripts')
    BY <1>1, GrowsSelf
  <1>13. /\ \A i \in DOMAIN syntheses' \ DOMAIN syntheses : r.synthesis = i
         /\ \A i \in DOMAIN plans' \ DOMAIN plans : r.plan = i
         /\ \A i \in DOMAIN manuscripts' \ DOMAIN manuscripts : r.manuscript = i
    BY <1>1, <1>5, <1>7
  <1>14. (a.stage \in {4, 5} => r.plan # 0) /\ UNCHANGED <<questions, evidence>> /\ SynthesesStay
    BY <1>1, <1>5, <1>7, SameSynthesesStay
  <1>. QED
    BY <1>1, <1>5, <1>7, <1>8, <1>9, <1>10, <1>11, <1>12, <1>13, <1>14, DoneKeepsInv

LEMMA PrepareManuscriptKeepsInv ==
  ASSUME Inv, NEW a \in attempts, PrepareManuscript(a)
  PROVE  Inv'
  <1>1. /\ a.stage = 5 /\ ~Busy(a.op) /\ Done(a)
        /\ UNCHANGED <<questions, evidence, syntheses, claims, plans>>
    BY AttemptFacts, StageNames DEF PrepareManuscript, Begins, At
  <1>2. CASE UNCHANGED <<manuscripts, ops>>
    BY <1>1, <1>2, NothingNewKeepsInv DEF artifacts
  <1>3. CASE /\ ops[a.op].manuscript = 0
             /\ manuscripts' = Append(manuscripts, ops[a.op].plan)
             /\ ops' = [ops EXCEPT ![a.op].manuscript = Len(manuscripts) + 1]
    <2>1. ops[a.op].plan # 0 /\ Consistent(ops[a.op])
      BY <1>1, AttemptFacts DEF Sound
    <2>2. /\ manuscripts \in Seq(DOMAIN plans) /\ plans \in Seq(SUBSET DOMAIN claims)
          /\ ops[a.op].plan \in DOMAIN plans
      BY <2>1 DEF Inv, TypeOK, Consistent
    <2>3. /\ manuscripts' \in Seq(DOMAIN plans) /\ Len(manuscripts') = Len(manuscripts) + 1
          /\ DOMAIN manuscripts' = DOMAIN manuscripts \cup {Len(manuscripts) + 1}
          /\ Len(manuscripts) + 1 # 0 /\ Grows(manuscripts, manuscripts')
          /\ manuscripts'[Len(manuscripts) + 1] = ops[a.op].plan
      BY <1>3, <2>2, AppendGrows
    <2>4. PICK r \in Operation : r = [ops[a.op] EXCEPT !.manuscript = Len(manuscripts) + 1]
      <3>1. Len(manuscripts) + 1 \in Nat
        BY <2>2
      <3>. QED
        BY <3>1, AttemptFacts DEF Operation
    <2>5. /\ r.stage = ops[a.op].stage /\ r.synthesis = ops[a.op].synthesis
          /\ r.claims = ops[a.op].claims /\ r.plan = ops[a.op].plan
          /\ r.manuscript = Len(manuscripts) + 1
      BY <2>4, AttemptFacts DEF Operation
    <2>6. ops' = [ops EXCEPT ![a.op] = r]
      BY <1>3, <2>4
    <2>7. Consistent(r)' /\ Keeps(ops[a.op], r)
      <3>1. Len(manuscripts) + 1 \in 0..Len(manuscripts')
        BY <2>2, <2>3
      <3>. QED
        BY <1>1, <1>3, <2>1, <2>3, <2>5, <3>1 DEF Consistent, Keeps
    <2>8. /\ syntheses' \in Seq(SynthesisRow) /\ claims' \in Seq(Claim)
          /\ plans' \in Seq(SUBSET DOMAIN claims') /\ manuscripts' \in Seq(DOMAIN plans')
          /\ NewestInv'
      BY <1>1, <2>3, NewestStays DEF Inv, TypeOK
    <2>9. Grows(claims, claims') /\ Grows(plans, plans')
      BY <1>1, GrowsSelf
    <2>10. /\ \A i \in DOMAIN syntheses' \ DOMAIN syntheses : r.synthesis = i
           /\ \A i \in DOMAIN plans' \ DOMAIN plans : r.plan = i
           /\ \A i \in DOMAIN manuscripts' \ DOMAIN manuscripts : r.manuscript = i
      BY <1>1, <2>3, <2>5
    <2>11. (a.stage \in {4, 5} => r.plan # 0) /\ UNCHANGED <<questions, evidence>> /\ SynthesesStay
      BY <1>1, <2>1, <2>5, SameSynthesesStay
    <2>. QED
      BY <1>1, <2>3, <2>5, <2>6, <2>7, <2>8, <2>9, <2>10, <2>11, DoneKeepsInv
  <1>. QED
    BY <1>2, <1>3 DEF PrepareManuscript

------------------------------------------------------------------------------
(* The specification                                                         *)

LEMMA InvInit == Init => Inv
  <1> SUFFICES ASSUME Init PROVE Inv
    OBVIOUS
  <1>1. TypeOK /\ NewestInv /\ NothingIsOrphaned /\ OperationInv
    BY DEF Init, TypeOK, NewestInv, Newest, OfQuestion, NothingIsOrphaned, OperationInv
  <1>2. EvidenceTyped
    BY DEF Init, EvidenceTyped, Verifications
  <1>3. AttemptInv
    BY DEF Init, AttemptInv, Turns
  <1>. QED
    BY <1>1, <1>2, <1>3 DEF Inv

LEMMA InvStep ==
  ASSUME Inv, [Next]_vars
  PROVE  Inv'
  <1>1. CASE \E kind \in Kinds : Start(kind)
    BY <1>1, StartKeepsInv
  <1>2. CASE \E v \in Values : Correct(v)
    BY <1>2, CorrectKeepsInv
  <1>7. CASE (\E i \in DOMAIN syntheses : Approve(i)) \/ OtherOperations \/ Replan
    BY <1>7, OthersKeepInv
  <1>3. CASE Call
    BY <1>3, CallKeepsInv
  <1>4. CASE Finish
    BY <1>4, FinishKeepsInv
  <1>5. ASSUME NEW a \in attempts, Work(a) \/ Lose(a) \/ AgentFails(a) PROVE Inv'
    <2>1. CASE CheckReadiness(a)
      BY <2>1, CheckReadinessKeepsInv
    <2>2. CASE BeginSynthesis(a)
      BY <2>2, BeginSynthesisKeepsInv
    <2>3. CASE ReadVersions(a)
      BY <2>3, ReadVersionsKeepsInv
    <2>4. CASE StoreSynthesis(a)
      BY <2>4, StoreSynthesisKeepsInv
    <2>5. CASE BeginClaims(a)
      BY <2>5, BeginClaimsKeepsInv
    <2>6. CASE StoreClaims(a)
      BY <2>6, StoreClaimsKeepsInv
    <2>7. CASE BeginPlan(a)
      BY <2>7, BeginPlanKeepsInv
    <2>8. CASE StorePlan(a)
      BY <2>8, StorePlanKeepsInv
    <2>9. CASE PrepareManuscript(a)
      BY <2>9, PrepareManuscriptKeepsInv
    <2>10. CASE Answer(a)
      BY <2>10, AnswerKeepsInv
    <2>12. CASE AsksAgent(a)
      BY <2>12, AsksAgentKeepsInv
    <2>11. CASE NumberTaken(a) \/ LateEnds(a) \/ Lose(a) \/ AgentFails(a)
      BY <2>11, EndsKeepInv
    <2>. QED
      BY <1>5, <2>1, <2>2, <2>3, <2>4, <2>5, <2>6, <2>7, <2>8, <2>9, <2>10, <2>11, <2>12 DEF Work
  <1>6. CASE UNCHANGED vars
    <2>1. UNCHANGED <<questions, evidence, syntheses, claims, plans, manuscripts, ops, attempts>>
      BY <1>6 DEF vars, artifacts
    <2>2. AttemptInv'
      <3>1. CurrentRows' = CurrentRows /\ SynthesesStay
        BY <2>1, SameSynthesesStay DEF CurrentRows
      <3>. QED
        BY <2>1, <3>1, AttemptsUntouched
    <2>3. TypeOK' /\ EvidenceTyped' /\ NothingIsOrphaned'
      BY <2>1 DEF Inv, TypeOK, EvidenceTyped, NothingIsOrphaned
    <2>4. NewestInv'
      BY <2>1, NewestStays DEF Inv
    <2>5. OperationInv'
      BY <2>1 DEF Inv, OperationInv, Consistent
    <2>. QED
      BY <2>2, <2>3, <2>4, <2>5 DEF Inv
  <1>. QED
    BY <1>1, <1>2, <1>3, <1>4, <1>5, <1>6, <1>7 DEF Next

LEMMA Invariant == Spec => []Inv
  <1>1. Inv /\ [Next]_vars => Inv'
    BY InvStep
  <1>. QED
    BY InvInit, <1>1, PTL DEF Spec

\* The tables hold what their columns allow: plans of claims that exist, manuscripts
\* of plans that exist (the rows the activities write, and details of operations).
THEOREM TypeCorrect == Spec => []TypeOK
  <1>1. Inv => TypeOK
    BY DEF Inv
  <1>. QED
    BY Invariant, <1>1, PTL

\* generate_synthesis replaces the syntheses of its research question: the newest of
\* each question is the only one of it that is not SUPERSEDED, whatever attempts were
\* late, whoever approved what, and whenever the research plan was made anew.
THEOREM NewestCounts == Spec => []NewestIsActive
  <1>1. Inv => NewestIsActive
    <2>1. questions \in Nat => 1..questions \subseteq Nat
      OBVIOUS
    <2>. QED
      BY <2>1 DEF Inv, EvidenceTyped, NewestInv, Newest, NewestIsActive
  <1>. QED
    BY Invariant, <1>1, PTL

\* The activities note what they made in the details with the rows themselves: no
\* retry of a stage makes a synthesis, a plan or a manuscript that nobody names.
THEOREM NothingMadeTwice == Spec => []NothingIsOrphaned
  <1>1. Inv => NothingIsOrphaned
    BY DEF Inv
  <1>. QED
    BY Invariant, <1>1, PTL

\* build_and_verify_claims gives an operation claims that the reviewer accepted, its own
\* or those of another operation; the plan and the manuscript are of those.
THEOREM OnlyVerifiedClaimsAreWritten == Spec => []ManuscriptsRestOnVerifiedClaims
  <1>1. ASSUME Inv PROVE ManuscriptsRestOnVerifiedClaims
    <2>1. ASSUME NEW o \in DOMAIN ops, ops[o].manuscript # 0,
                 NEW i \in plans[manuscripts[ops[o].manuscript]]
          PROVE  claims[i].verified
      BY <1>1, <2>1 DEF Inv, OperationInv, Consistent
    <2>. QED
      BY <2>1 DEF ManuscriptsRestOnVerifiedClaims
  <1>. QED
    BY Invariant, <1>1, PTL

\* build_and_verify_claims reads the evidence itself, and shares the project from its
\* first agent run until its claims are stored: they cite rows that are current then,
\* also when values were corrected since the synthesis, except for those corrected
\* between the reading and the agent run.
THEOREM ClaimsAreCurrent == Spec => ClaimsRestOnCurrentValues
  <1>. DEFINE Current == \A i \in DOMAIN claims' \ DOMAIN claims : \A row \in claims'[i].cites :
                           \/ row \in CurrentRows
                           \/ \E a \in attempts \ attempts' : At(a, "CLAIMS", "asking") /\ row[1] \in a.read.missed
  <1>1. ASSUME Inv, [Next]_vars PROVE Current
    <2>1. CASE UNCHANGED claims
      BY <2>1
    <2>2. ASSUME NEW a \in attempts, StoreClaims(a) PROVE Current
      <3>1. CASE UNCHANGED claims
        BY <3>1
      <3>2. CASE ~UNCHANGED claims
        <4>0. /\ Done(a) /\ At(a, "CLAIMS", "asking") /\ a \in Attempt
              /\ \E n \in Candidates : \E proposed \in [1..n -> Proposals(a)] : claims' = claims \o proposed
          BY <1>1, <2>2, <3>2, AttemptFacts DEF StoreClaims, Batches
        <4>1. PICK n \in Candidates : \E proposed \in [1..n -> Proposals(a)] : claims' = claims \o proposed
          BY <4>0
        <4>2. PICK proposed \in [1..n -> Proposals(a)] : claims' = claims \o proposed
          BY <4>1
        <4>3. /\ proposed \in Seq(Claim) /\ Len(proposed) = n /\ n \in Nat
              /\ \A i \in 1..n : \A row \in proposed[i].cites : row \in CurrentRows \/ row[1] \in a.read.missed
          BY <1>1, <4>0, ProposedClaims
        <4>4. claims \in Seq(Claim)
          BY <1>1 DEF Inv, TypeOK
        <4>5. a \notin attempts'
          <5>1. PICK b : b = [a EXCEPT !.pc = "done", !.read = NothingRead] /\ b.pc = "done"
            BY <4>0, DoneAttempt
          <5>. QED
            BY <4>0, <5>1 DEF Done, Move, At
        <4>6. ASSUME NEW i \in DOMAIN claims' \ DOMAIN claims, NEW row \in claims'[i].cites
              PROVE  row \in CurrentRows \/ row[1] \in a.read.missed
          <5>1. i \in Len(claims) + 1..Len(claims) + n
            BY <4>2, <4>3, <4>4
          <5>2. claims'[i] = proposed[i - Len(claims)] /\ i - Len(claims) \in 1..n
            BY <4>2, <4>3, <4>4, <5>1
          <5>. QED
            BY <4>3, <4>6, <5>2
        <4>. QED
          BY <4>0, <4>5, <4>6
      <3>. QED
        BY <3>1, <3>2
    <2>. QED
      BY <1>1, <2>1, <2>2 DEF Next, vars, artifacts, Start, Correct, Approve, OtherOperations, Replan,
         Call, Finish, Work, CheckReadiness, AsksAgent, BeginSynthesis, ReadVersions, StoreSynthesis,
         BeginClaims, BeginPlan, StorePlan, PrepareManuscript, Answer, NumberTaken, LateEnds, Lose,
         AgentFails
  <1>2. Inv /\ [Next]_vars => [Current]_vars
    BY <1>1
  <1>. QED
    BY Invariant, <1>2, PTL DEF Spec, ClaimsRestOnCurrentValues

=============================================================================

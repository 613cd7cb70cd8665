----------------------------- MODULE ScreeningProofs -----------------------------
(***************************************************************************)
(* Screening with any number of works, versions of the protocol, rounds,   *)
(* attempts and human decisions.  Decisions are only ever added, one row   *)
(* at a time; who may add which row follows from the round that is running *)
(* and from what the open transaction has read.                            *)
(***************************************************************************)
EXTENDS Screening, FiniteSetTheorems, WellFoundedInduction, TLAPS

\* What an attempt refers to exists, and a document that was found stays.
AttemptIsSound(a) ==
  /\ a \in Attempt
  /\ a.round \in DOMAIN rounds /\ a.works \subseteq rounds[a.round].works
  /\ a.open # NoWork => a.open.work \in a.works /\ (a.open.text => a.open.work \in parsed)

\* The workflow waits for one attempt, and goes on when it has its answer.
OneIsAwaited ==
  /\ \A a \in attempts : a.live => rounds[a.round].status = "RUNNING"
  /\ \A a, b \in attempts : a.live /\ b.live /\ a.round = b.round => a = b

AttemptsAreSound == OneIsAwaited /\ \A a \in attempts : AttemptIsSound(a)

\* A round that has not ended is under the latest protocol, which is approved, and
\* what is read in full has passed the titles.
Active(r) == rounds[r].status \in {"RUNNING", "STOPPING"}

RoundIsSound(r) ==
  /\ rounds[r].protocol <= Latest
  /\ Active(r) => rounds[r].protocol = Latest /\ protocols[Latest].status = "APPROVED"
  /\ rounds[r].stage = "FULL_TEXT" =>
       rounds[r].works \subseteq Decided(rounds[r].protocol, "TITLE_ABSTRACT")

RoundsAreSound == \A r \in DOMAIN rounds : RoundIsSound(r)

\* A decision of the full-text stage is not a human's, and follows its reading.
ReadInFull(p, w) ==
  \A i \in DOMAIN decisions[<<p, "FULL_TEXT", w>>] :
    /\ decisions[<<p, "FULL_TEXT", w>>][i][1] # "HUMAN"
    /\ decisions[<<p, "FULL_TEXT", w>>][i][2] = "INCLUDE" => w \in parsed
    /\ w \in Decided(p, "TITLE_ABSTRACT")

\* The agent's rows of a key, without counting them.
OnceByAgent(k) == \A i, j \in By(decisions[k], "AI") : i = j

RowsAreSound ==
  /\ \A p \in 1..Revisions : \A w \in Works : ReadInFull(p, w)
  /\ \A k \in Keys : OnceByAgent(k)

Inv == TypeOK /\ AttemptsAreSound /\ RoundsAreSound /\ RowsAreSound

-----------------------------------------------------------------------------
(* Rows                                                                    *)

\* The rows of one key, with one more.
Added(k, row) == decisions' = [decisions EXCEPT ![k] = Append(@, row)]

LEMMA ByOfAppend ==
  ASSUME NEW rows \in Seq(Row), NEW row \in Row, NEW who
  PROVE  /\ By(Append(rows, row), who) = IF row[1] = who THEN By(rows, who) \cup {Len(rows) + 1}
                                         ELSE By(rows, who)
         /\ By(rows, who) \subseteq 1..Len(rows)
  <1>. DEFINE new == Append(rows, row)
  <1>1. DOMAIN new = (DOMAIN rows) \cup {Len(rows) + 1} /\ new[Len(rows) + 1] = row
    OBVIOUS
  <1>2. \A i \in DOMAIN rows : new[i] = rows[i] /\ i # Len(rows) + 1
    OBVIOUS
  <1>3. DOMAIN rows = 1..Len(rows)
    OBVIOUS
  <1>. HIDE DEF new
  <1>4. By(new, who) = IF row[1] = who THEN By(rows, who) \cup {Len(rows) + 1} ELSE By(rows, who)
    BY <1>1, <1>2 DEF By
  <1>5. By(rows, who) \subseteq 1..Len(rows)
    BY <1>3 DEF By
  <1>. QED
    BY <1>4, <1>5 DEF new

LEMMA AddedRows ==
  ASSUME decisions \in [Keys -> Seq(Row)], NEW k \in Keys, NEW row \in Row, Added(k, row)
  PROVE  /\ decisions' \in [Keys -> Seq(Row)]
         /\ decisions'[k] = Append(decisions[k], row)
         /\ \A j \in Keys \ {k} : decisions'[j] = decisions[j]
  BY DEF Added

\* A set of positions has a last one.
LEMMA LastPosition ==
  ASSUME NEW n \in Nat, NEW C \in SUBSET (1..n), C # {}
  PROVE  Max(C) \in C
  <1>. DEFINE left == {n - x : x \in C}
  <1>7. \A x \in C : x \in Nat /\ n - x \in Nat
    OBVIOUS
  <1>1. left \subseteq Nat /\ left # {}
    BY <1>7
  <1>2. PICK m \in left : \A y \in left : <<y, m>> \notin OpToRel(<, Nat)
    BY <1>1, NatLessThanWellFounded, WFMin
  <1>3. PICK x \in C : m = n - x
    BY <1>2
  <1>4. \A y \in C : n - y \in left /\ n - y \in Nat /\ m \in Nat
    BY <1>1, <1>2
  <1>5. \A y \in C : ~(n - y < n - x)
    BY <1>2, <1>3, <1>4 DEF OpToRel
  <1>6. \A y \in C : x >= y
    <2>. SUFFICES ASSUME NEW y \in C PROVE x >= y
      OBVIOUS
    <2>. QED
      BY <1>5, <1>7
  <1>. QED
    BY <1>6 DEF Max

-----------------------------------------------------------------------------
(* What goes on                                                            *)

\* Rounds are added, and otherwise change their status only.
RoundsGoOn ==
  /\ rounds' \in Seq(Round) /\ Len(rounds') <= MaxRounds
  /\ DOMAIN rounds \subseteq DOMAIN rounds'
  /\ \A r \in DOMAIN rounds : /\ rounds'[r].stage = rounds[r].stage
                              /\ rounds'[r].protocol = rounds[r].protocol
                              /\ rounds'[r].works = rounds[r].works

\* Who is decided remains so.
RowsGoOn ==
  /\ decisions' \in [Keys -> Seq(Row)]
  /\ \A k \in Keys : decisions[k] # <<>> => decisions'[k] # <<>>

LEMMA SameRounds ==
  ASSUME Inv, UNCHANGED rounds
  PROVE  RoundsGoOn
  BY DEF Inv, TypeOK, RoundsGoOn

LEMMA StatusChanges ==
  ASSUME Inv, NEW r \in DOMAIN rounds, NEW status \in {"RUNNING", "STOPPING", "COMPLETED", "PARTIAL"},
         rounds' = [rounds EXCEPT ![r].status = status]
  PROVE  /\ RoundsGoOn /\ DOMAIN rounds' = DOMAIN rounds
         /\ rounds'[r].status = status
         /\ \A q \in DOMAIN rounds \ {r} : rounds'[q] = rounds[q]
  <1>. DEFINE new == [rounds[r] EXCEPT !.status = status]
  <1>1. rounds \in Seq(Round) /\ rounds[r] \in Round /\ Len(rounds) <= MaxRounds
    BY DEF Inv, TypeOK
  <1>2. /\ new \in Round /\ new.status = status /\ new.stage = rounds[r].stage
        /\ new.protocol = rounds[r].protocol /\ new.works = rounds[r].works
    BY <1>1 DEF Round
  <1>3. rounds' = [rounds EXCEPT ![r] = new]
    OBVIOUS
  <1>. HIDE DEF new
  <1>4. /\ rounds' \in Seq(Round) /\ Len(rounds') = Len(rounds) /\ DOMAIN rounds' = DOMAIN rounds
        /\ rounds'[r] = new /\ \A q \in DOMAIN rounds \ {r} : rounds'[q] = rounds[q]
    BY <1>1, <1>2, <1>3
  <1>5. \A q \in DOMAIN rounds : q = r \/ q \in DOMAIN rounds \ {r}
    OBVIOUS
  <1>6. RoundsGoOn
    BY <1>1, <1>2, <1>4, <1>5 DEF RoundsGoOn
  <1>. QED
    BY <1>2, <1>4, <1>6

LEMMA SameRows ==
  ASSUME Inv, UNCHANGED decisions
  PROVE  RowsGoOn
  BY DEF Inv, TypeOK, RowsGoOn

LEMMA AddedGoesOn ==
  ASSUME Inv, NEW k \in Keys, NEW row \in Row, Added(k, row)
  PROVE  RowsGoOn
  <1>1. decisions \in [Keys -> Seq(Row)]
    BY DEF Inv, TypeOK
  <1>2. /\ decisions' \in [Keys -> Seq(Row)] /\ decisions'[k] = Append(decisions[k], row)
        /\ \A j \in Keys \ {k} : decisions'[j] = decisions[j]
    BY <1>1, AddedRows
  <1>3. decisions'[k] # <<>>
    BY <1>1, <1>2
  <1>. QED
    BY <1>2, <1>3 DEF RowsGoOn

LEMMA DecidedGrows ==
  ASSUME RowsGoOn, NEW p \in 1..Revisions
  PROVE  Decided(p, "TITLE_ABSTRACT") \subseteq Decided(p, "TITLE_ABSTRACT")'
  BY DEF RowsGoOn, Decided, Keys, Stages

-----------------------------------------------------------------------------
(* The parts of the invariant, one by one                                  *)

\* An attempt is replaced by others of its round, of which one at most is awaited.
LEMMA AttemptsReplaced ==
  ASSUME Inv, RoundsGoOn, parsed \subseteq parsed', NEW a \in attempts, NEW rest,
         attempts' = (attempts \ {a}) \cup rest,
         \A b \in rest : AttemptIsSound(b) /\ b.round = a.round /\ (b.live => a.live),
         \A b, c \in rest : b.live /\ c.live => b = c,
         \A c \in attempts' : c.live => rounds'[c.round].status = "RUNNING"
  PROVE  AttemptsAreSound'
  <1>1. ASSUME NEW c, AttemptIsSound(c) PROVE AttemptIsSound(c)'
    BY <1>1 DEF AttemptIsSound, RoundsGoOn
  <1>2. \A c \in attempts' : AttemptIsSound(c)'
    BY <1>1 DEF Inv, AttemptsAreSound
  <1>3. \A b, c \in attempts' : b.live /\ c.live /\ b.round = c.round => b = c
    BY DEF Inv, AttemptsAreSound, OneIsAwaited
  <1>. QED
    BY <1>2, <1>3 DEF AttemptsAreSound, OneIsAwaited

LEMMA AttemptsKept ==
  ASSUME Inv, RoundsGoOn, parsed \subseteq parsed', attempts' = attempts,
         \A c \in attempts : c.live => rounds'[c.round].status = "RUNNING"
  PROVE  AttemptsAreSound'
  <1>1. ASSUME NEW c, AttemptIsSound(c) PROVE AttemptIsSound(c)'
    BY <1>1 DEF AttemptIsSound, RoundsGoOn
  <1>2. \A c \in attempts' : AttemptIsSound(c)'
    BY <1>1 DEF Inv, AttemptsAreSound
  <1>. QED
    BY <1>2 DEF Inv, AttemptsAreSound, OneIsAwaited

\* Rounds that are there do not become active.
LEMMA RoundsKept ==
  ASSUME Inv, RoundsGoOn, RowsGoOn, UNCHANGED protocols, DOMAIN rounds' = DOMAIN rounds,
         \A r \in DOMAIN rounds : Active(r)' => Active(r)
  PROVE  RoundsAreSound'
  <1>. SUFFICES ASSUME NEW r \in DOMAIN rounds PROVE RoundIsSound(r)'
    BY DEF RoundsAreSound
  <1>1. RoundIsSound(r) /\ rounds[r] \in Round /\ Latest \in 1..Revisions
    BY DEF Inv, TypeOK, RoundsAreSound
  <1>2. PICK p : p = rounds[r].protocol /\ p = rounds'[r].protocol /\ p \in 1..Revisions
    <2>1. rounds[r].protocol \in Nat \ {0} /\ Latest \in Nat /\ Latest <= Revisions /\ Revisions \in Nat
      BY <1>1, BoundsAssumption DEF Round
    <2>2. rounds[r].protocol \in 1..Revisions
      BY <1>1, <2>1 DEF RoundIsSound
    <2>. QED
      BY <2>2 DEF RoundsGoOn
  <1>3. Decided(p, "TITLE_ABSTRACT") \subseteq Decided(p, "TITLE_ABSTRACT")'
    BY <1>2, DecidedGrows
  <1>4. Latest' = Latest
    BY DEF Latest
  <1>5. rounds'[r].works = rounds[r].works /\ rounds'[r].stage = rounds[r].stage
    BY DEF RoundsGoOn
  <1>6. rounds[r].stage = "FULL_TEXT" => rounds[r].works \subseteq Decided(p, "TITLE_ABSTRACT")
    BY <1>1, <1>2 DEF RoundIsSound
  <1>7. (rounds[r].stage = "FULL_TEXT" => rounds[r].works \subseteq Decided(rounds[r].protocol, "TITLE_ABSTRACT"))'
    <2>. SUFFICES ASSUME rounds'[r].stage = "FULL_TEXT", NEW w \in rounds'[r].works
                  PROVE  w \in Works /\ decisions'[<<rounds'[r].protocol, "TITLE_ABSTRACT", w>>] # <<>>
      BY DEF Decided
    <2>1. w \in Decided(p, "TITLE_ABSTRACT")'
      BY <1>3, <1>5, <1>6
    <2>. QED
      BY <1>2, <2>1 DEF Decided
  <1>8. (Active(r) => rounds[r].protocol = Latest /\ protocols[Latest].status = "APPROVED")'
    BY <1>1, <1>2, <1>4 DEF RoundIsSound
  <1>9. (rounds[r].protocol <= Latest)'
    BY <1>1, <1>2, <1>4 DEF RoundIsSound
  <1>. QED
    BY <1>7, <1>8, <1>9 DEF RoundIsSound

LEMMA RowsKept ==
  ASSUME Inv, UNCHANGED decisions, parsed \subseteq parsed'
  PROVE  RowsAreSound'
  <1>1. \A p \in 1..Revisions : \A w \in Works : ReadInFull(p, w)'
    BY DEF Inv, RowsAreSound, ReadInFull, Decided
  <1>2. \A k \in Keys : OnceByAgent(k)'
    BY DEF Inv, RowsAreSound, OnceByAgent
  <1>. QED
    BY <1>1, <1>2 DEF RowsAreSound

\* One more row, which the agent has not given before, and which is of a human or
\* says what the document says.
LEMMA RowAdded ==
  ASSUME Inv, NEW p \in 1..Revisions, NEW stage \in Stages, NEW w \in Works, NEW row \in Row,
         Added(<<p, stage, w>>, row), parsed' = parsed,
         row[1] = "AI" => By(decisions[<<p, stage, w>>], "AI") = {},
         stage = "FULL_TEXT" => /\ row[1] # "HUMAN" /\ w \in Decided(p, "TITLE_ABSTRACT")
                                /\ row[2] = "INCLUDE" => w \in parsed
  PROVE  RowsAreSound'
  <1>. DEFINE k == <<p, stage, w>>
  <1>1. k \in Keys /\ decisions \in [Keys -> Seq(Row)]
    BY DEF Keys, Inv, TypeOK
  <1>2. /\ decisions'[k] = Append(decisions[k], row) /\ decisions[k] \in Seq(Row)
        /\ \A j \in Keys \ {k} : decisions'[j] = decisions[j]
    BY <1>1, AddedRows
  <1>3. ASSUME NEW j \in Keys PROVE OnceByAgent(j)'
    <2>1. OnceByAgent(j)
      BY DEF Inv, RowsAreSound
    <2>2. CASE j # k
      BY <1>2, <2>1, <2>2 DEF OnceByAgent
    <2>3. CASE j = k
      <3>1. By(decisions'[k], "AI") = IF row[1] = "AI" THEN By(decisions[k], "AI") \cup {Len(decisions[k]) + 1}
                                     ELSE By(decisions[k], "AI")
        <4>1. PICK rows : rows = decisions[k] /\ rows \in Seq(Row)
          BY <1>2
        <4>2. By(Append(rows, row), "AI") = IF row[1] = "AI" THEN By(rows, "AI") \cup {Len(rows) + 1}
                                           ELSE By(rows, "AI")
          BY <4>1, ByOfAppend
        <4>. QED
          BY <1>2, <4>1, <4>2
      <3>. QED
        BY <2>1, <2>3, <3>1 DEF OnceByAgent
    <2>. QED
      BY <2>2, <2>3
  <1>4. ASSUME NEW q \in 1..Revisions, NEW v \in Works PROVE ReadInFull(q, v)'
    <2>. DEFINE j == <<q, "FULL_TEXT", v>>
    <2>1. ReadInFull(q, v) /\ j \in Keys
      BY DEF Inv, RowsAreSound, Keys, Stages
    <2>2. Decided(q, "TITLE_ABSTRACT") \subseteq Decided(q, "TITLE_ABSTRACT")'
      BY <1>1, AddedGoesOn, DecidedGrows
    <2>3. CASE j # k
      <3>1. decisions'[j] = decisions[j]
        BY <1>2, <2>1, <2>3
      <3>. QED
        BY <2>1, <2>2, <3>1 DEF ReadInFull
    <2>4. CASE j = k
      <3>1. q = p /\ v = w /\ stage = "FULL_TEXT"
        BY <2>4
      <3>2. DOMAIN decisions'[k] = DOMAIN decisions[k] \cup {Len(decisions[k]) + 1}
        BY <1>2
      <3>3. /\ decisions'[k][Len(decisions[k]) + 1] = row
            /\ \A i \in DOMAIN decisions[k] : decisions'[k][i] = decisions[k][i]
        <4>1. PICK rows : rows = decisions[k] /\ rows \in Seq(Row)
          BY <1>2
        <4>2. Append(rows, row)[Len(rows) + 1] = row /\ \A i \in DOMAIN rows : Append(rows, row)[i] = rows[i]
          BY <4>1
        <4>. QED
          BY <1>2, <4>1, <4>2
      <3>. QED
        BY <2>1, <2>2, <2>4, <3>1, <3>2, <3>3 DEF ReadInFull
    <2>. QED
      BY <2>3, <2>4
  <1>. QED
    BY <1>3, <1>4 DEF RowsAreSound

LEMMA Assembled ==
  ASSUME Inv, RoundsGoOn, RowsGoOn, AttemptsAreSound', RoundsAreSound', RowsAreSound',
         protocols' \in Seq(Protocol), Len(protocols') \in 1..Revisions, parsed' \subseteq Works,
         humans' \in 0..MaxHuman, faults' \in 0..MaxFaults
  PROVE  Inv'
  <1>1. attempts' \subseteq Attempt
    BY DEF AttemptsAreSound, AttemptIsSound
  <1>. QED
    BY <1>1 DEF Inv, TypeOK, RoundsGoOn, RowsGoOn, Latest

LEMMA Typed ==
  ASSUME Inv
  PROVE  /\ protocols \in Seq(Protocol) /\ Len(protocols) \in 1..Revisions /\ parsed \subseteq Works
         /\ humans \in 0..MaxHuman /\ faults \in 0..MaxFaults
         /\ rounds \in Seq(Round) /\ decisions \in [Keys -> Seq(Row)]
         /\ Len(protocols) \in Nat
  BY BoundsAssumption DEF Inv, TypeOK, Latest

-----------------------------------------------------------------------------
(* Requests                                                                *)

LEMMA ProtocolChanges ==
  ASSUME Inv, Idle, UNCHANGED <<rounds, decisions, parsed, attempts, humans, faults>>,
         protocols' \in Seq(Protocol), Len(protocols') \in 1..Revisions, Len(protocols') >= Len(protocols)
  PROVE  Inv'
  <1>1. RoundsGoOn /\ RowsGoOn /\ RowsAreSound'
    BY SameRounds, SameRows, RowsKept
  <1>2. AttemptsAreSound'
    BY <1>1, AttemptsKept DEF Inv, AttemptsAreSound, OneIsAwaited
  <1>3. RoundsAreSound'
    <2>. SUFFICES ASSUME NEW r \in DOMAIN rounds PROVE RoundIsSound(r)'
      BY DEF RoundsAreSound
    <2>1. RoundIsSound(r) /\ rounds[r] \in Round
      BY Typed DEF Inv, RoundsAreSound
    <2>2. ~Active(r)'
      BY DEF Idle, Active
    <2>3. (rounds[r].protocol <= Latest)'
      <3>1. rounds[r].protocol \in Nat /\ rounds[r].protocol <= Len(protocols)
        BY <2>1 DEF RoundIsSound, Round, Latest
      <3>. QED
        BY <3>1, Typed, BoundsAssumption DEF Latest
    <2>. QED
      BY <2>1, <2>2, <2>3 DEF RoundIsSound, Decided
  <1>. QED
    BY <1>1, <1>2, <1>3, Typed, Assembled

LEMMA ApproveProtocolKeepsInv ==
  ASSUME Inv, ApproveProtocol
  PROVE  Inv'
  <1>. DEFINE new == [status |-> "APPROVED", approved |-> TRUE]
  <1>1. new \in Protocol /\ protocols' = [protocols EXCEPT ![Len(protocols)] = new]
    BY DEF ApproveProtocol, Latest, Protocol
  <1>. HIDE DEF new
  <1>2. protocols' \in Seq(Protocol) /\ Len(protocols') = Len(protocols)
    BY <1>1, Typed
  <1>. QED
    BY <1>2, Typed, ProtocolChanges DEF ApproveProtocol

LEMMA ReviseProtocolKeepsInv ==
  ASSUME Inv, ReviseProtocol
  PROVE  Inv'
  <1>. DEFINE new == [status |-> "PROPOSED", approved |-> FALSE]
              old == [protocols[Len(protocols)] EXCEPT !.status = "SUPERSEDED"]
              olds == [protocols EXCEPT ![Len(protocols)] = old]
  <1>1. Len(protocols) \in DOMAIN protocols /\ protocols[Len(protocols)] \in Protocol
    BY Typed
  <1>2. new \in Protocol /\ old \in Protocol /\ protocols' = Append(olds, new)
    BY <1>1 DEF ReviseProtocol, Latest, Protocol
  <1>. HIDE DEF new, old
  <1>3. olds \in Seq(Protocol) /\ Len(olds) = Len(protocols)
    BY <1>2, Typed
  <1>. HIDE DEF olds
  <1>4. protocols' \in Seq(Protocol) /\ Len(protocols') = Len(protocols) + 1
    BY <1>2, <1>3
  <1>5. Len(protocols) < Revisions
    BY DEF ReviseProtocol, Latest
  <1>6. Len(protocols') \in 1..Revisions /\ Len(protocols') >= Len(protocols)
    BY <1>4, <1>5, Typed, BoundsAssumption
  <1>. QED
    BY <1>4, <1>6, ProtocolChanges DEF ReviseProtocol

\* Works that are read in full have passed the titles.
LEMMA StartedKeepsInv ==
  ASSUME Inv, NEW stage \in Stages, NEW works \in SUBSET Works, Started(stage, works),
         protocols[Latest].status = "APPROVED",
         stage = "FULL_TEXT" => works \subseteq Decided(Latest, "TITLE_ABSTRACT")
  PROVE  Inv'
  <1>1. PICK new : /\ new = [stage |-> stage, protocol |-> Latest, works |-> works, status |-> "RUNNING"]
                   /\ rounds' = Append(rounds, new)
    BY DEF Started
  <1>2. UNCHANGED <<protocols, decisions, parsed, attempts, humans, faults>> /\ Idle
    BY DEF Started
  <1>3. new \in Round
    BY <1>1, Typed DEF Round, Latest
  <1>4. /\ rounds' \in Seq(Round) /\ DOMAIN rounds' = DOMAIN rounds \cup {Len(rounds) + 1}
        /\ Len(rounds') = Len(rounds) + 1 /\ rounds'[Len(rounds) + 1] = new
        /\ \A r \in DOMAIN rounds : rounds'[r] = rounds[r]
    BY <1>1, <1>3, Typed
  <1>5. RoundsGoOn
    <2>1. Len(rounds) < MaxRounds /\ Len(rounds) \in Nat
      BY Typed DEF Started
    <2>2. Len(rounds') <= MaxRounds
      BY <1>4, <2>1, BoundsAssumption
    <2>. QED
      BY <1>4, <2>2 DEF RoundsGoOn
  <1>6. RowsGoOn /\ RowsAreSound'
    BY <1>2, SameRows, RowsKept
  <1>7. AttemptsAreSound'
    <2>1. \A c \in attempts : c.live => rounds'[c.round].status = "RUNNING"
      BY <1>4 DEF Inv, AttemptsAreSound, OneIsAwaited, AttemptIsSound
    <2>. QED
      BY <1>2, <1>5, <2>1, AttemptsKept
  <1>8. RoundsAreSound'
    <2>1. ASSUME NEW r \in DOMAIN rounds PROVE RoundIsSound(r)'
      <3>1. RoundIsSound(r)
        BY DEF Inv, RoundsAreSound
      <3>. QED
        BY <1>2, <1>4, <3>1 DEF RoundIsSound, Decided, Latest, Active
    <2>2. ASSUME NEW r, r = Len(rounds) + 1 PROVE RoundIsSound(r)'
      <3>1. /\ rounds'[r] = new /\ new.protocol = Latest /\ new.works = works /\ new.stage = stage
            /\ Latest' = Latest /\ Latest \in Nat
        BY <1>1, <1>2, <1>4, <2>2, Typed DEF Latest
      <3>2. (rounds[r].protocol <= Latest)'
        BY <3>1
      <3>3. (Active(r) => rounds[r].protocol = Latest /\ protocols[Latest].status = "APPROVED")'
        BY <1>2, <3>1
      <3>4. (rounds[r].stage = "FULL_TEXT" => rounds[r].works \subseteq Decided(rounds[r].protocol, "TITLE_ABSTRACT"))'
        BY <1>2, <3>1 DEF Decided
      <3>. QED
        BY <3>2, <3>3, <3>4 DEF RoundIsSound
    <2>. QED
      BY <1>4, <2>1, <2>2 DEF RoundsAreSound
  <1>. QED
    BY <1>2, <1>5, <1>6, <1>7, <1>8, Typed, Assembled

LEMMA StartKeepsInv ==
  ASSUME Inv, StartTitles \/ StartFullText
  PROVE  Inv'
  <1>1. CASE StartTitles
    BY <1>1, StartedKeepsInv DEF StartTitles, Stages
  <1>2. CASE StartFullText
    <2>1. PassedTitles(Latest) \in SUBSET Works /\ PassedTitles(Latest) \subseteq Decided(Latest, "TITLE_ABSTRACT")
      BY DEF PassedTitles, Says
    <2>. QED
      BY <1>2, <2>1, StartedKeepsInv DEF StartFullText, Stages
  <1>. QED
    BY <1>1, <1>2

LEMMA HumanDecidesKeepsInv ==
  ASSUME Inv, NEW r \in DOMAIN rounds, NEW w \in Works, NEW verdict \in HumanVerdicts,
         HumanDecides(r, w, verdict)
  PROVE  Inv'
  <1>1. PICK p : p = rounds[r].protocol
    OBVIOUS
  <1>2. p \in 1..Revisions
    <2>1. RoundIsSound(r) /\ rounds[r] \in Round
      BY Typed DEF Inv, RoundsAreSound
    <2>. QED
      BY <1>1, <2>1, Typed, BoundsAssumption DEF RoundIsSound, Round, Latest
  <1>3. PICK row : row = <<"HUMAN", verdict>>
    OBVIOUS
  <1>4. row \in Row /\ row[1] = "HUMAN"
    BY <1>3 DEF Row
  <1>5. Added(<<p, "TITLE_ABSTRACT", w>>, row)
    BY <1>1, <1>3 DEF HumanDecides, Added
  <1>6. UNCHANGED <<protocols, rounds, parsed, attempts, faults>> /\ humans' \in 0..MaxHuman
    BY Typed, BoundsAssumption DEF HumanDecides
  <1>7. <<p, "TITLE_ABSTRACT", w>> \in Keys /\ "TITLE_ABSTRACT" \in Stages
    BY <1>2 DEF Keys, Stages
  <1>8. RowsAreSound'
    BY <1>2, <1>4, <1>5, <1>6, <1>7, RowAdded
  <1>9. RowsGoOn /\ RoundsGoOn
    BY <1>4, <1>5, <1>6, <1>7, AddedGoesOn, SameRounds
  <1>10. RoundsAreSound'
    BY <1>6, <1>9, RoundsKept DEF Active
  <1>11. AttemptsAreSound'
    BY <1>6, <1>9, AttemptsKept DEF Inv, AttemptsAreSound, OneIsAwaited
  <1>. QED
    BY <1>6, <1>8, <1>9, <1>10, <1>11, Typed, Assembled

LEMMA ParseKeepsInv ==
  ASSUME Inv, NEW w \in Works, Parse(w)
  PROVE  Inv'
  <1>1. UNCHANGED <<protocols, rounds, decisions, attempts, humans, faults>> /\ parsed' = parsed \cup {w}
    BY DEF Parse
  <1>2. RowsGoOn /\ RoundsGoOn /\ RowsAreSound'
    BY <1>1, SameRows, SameRounds, RowsKept
  <1>3. RoundsAreSound'
    BY <1>1, <1>2, RoundsKept DEF Active
  <1>4. AttemptsAreSound'
    BY <1>1, <1>2, AttemptsKept DEF Inv, AttemptsAreSound, OneIsAwaited
  <1>. QED
    BY <1>1, <1>2, <1>3, <1>4, Typed, Assembled

-----------------------------------------------------------------------------
(* Rounds                                                                  *)

\* A round that has no attempt that is awaited changes its status.
LEMMA RoundEndsKeepsInv ==
  ASSUME Inv, NEW r \in DOMAIN rounds, NEW status \in {"COMPLETED", "PARTIAL"},
         rounds' = [rounds EXCEPT ![r].status = status],
         UNCHANGED <<protocols, decisions, parsed, attempts, humans, faults>>,
         \A a \in attempts : a.round = r => ~a.live
  PROVE  Inv'
  <1>1. /\ RoundsGoOn /\ DOMAIN rounds' = DOMAIN rounds
        /\ rounds'[r].status = status
        /\ \A q \in DOMAIN rounds \ {r} : rounds'[q] = rounds[q]
    BY StatusChanges
  <1>2. RowsGoOn /\ RowsAreSound'
    BY SameRows, RowsKept
  <1>3. \A q \in DOMAIN rounds : Active(q)' => Active(q)
    BY <1>1 DEF Active
  <1>4. RoundsAreSound'
    BY <1>1, <1>2, <1>3, RoundsKept
  <1>5. \A a \in attempts : a.live => rounds'[a.round].status = "RUNNING"
    BY <1>1 DEF Inv, AttemptsAreSound, OneIsAwaited, AttemptIsSound
  <1>6. AttemptsAreSound'
    BY <1>1, <1>5, AttemptsKept
  <1>. QED
    BY <1>1, <1>2, <1>4, <1>6, Typed, Assembled

LEMMA CompleteRoundKeepsInv ==
  ASSUME Inv, NEW r \in DOMAIN rounds, CompleteRound(r) \/ StopRound(r)
  PROVE  Inv'
  <1>1. \A a \in attempts : a.round = r => ~a.live
    BY DEF CompleteRound, Ready, Running, StopRound, Inv, AttemptsAreSound, OneIsAwaited
  <1>2. PICK status \in {"COMPLETED", "PARTIAL"} : rounds' = [rounds EXCEPT ![r].status = status]
    BY DEF CompleteRound, StopRound
  <1>. QED
    BY <1>1, <1>2, RoundEndsKeepsInv DEF CompleteRound, StopRound

LEMMA PrepareBatchKeepsInv ==
  ASSUME Inv, NEW r \in DOMAIN rounds, PrepareBatch(r)
  PROVE  Inv'
  <1>1. PICK batch, new :
          /\ batch \in kSubset(Min({BatchSize, Cardinality(Undecided(r))}), Undecided(r))
          /\ new = [round |-> r, live |-> TRUE, works |-> batch, open |-> NoWork]
          /\ attempts' = attempts \cup {new}
    BY DEF PrepareBatch
  <1>2. batch \subseteq Undecided(r)
    BY <1>1 DEF kSubset
  <1>3. rounds[r] \in Round /\ r \in Nat \ {0}
    BY Typed
  <1>4. batch \in SUBSET rounds[r].works /\ rounds[r].works \in SUBSET Works
    BY <1>2, <1>3 DEF Undecided, Round
  <1>5. new \in Attempt /\ new.round = r /\ new.live /\ new.works = batch /\ new.open = NoWork
    BY <1>1, <1>3, <1>4 DEF Attempt
  <1>6. UNCHANGED <<protocols, rounds, decisions, parsed, humans, faults>> /\ rounds[r].status = "RUNNING"
        /\ \A a \in attempts : a.round = r => ~a.live
    BY DEF PrepareBatch, Ready, Running
  <1>7. RowsGoOn /\ RoundsGoOn /\ RowsAreSound'
    BY <1>6, SameRows, SameRounds, RowsKept
  <1>8. RoundsAreSound'
    BY <1>6, <1>7, RoundsKept DEF Active
  <1>9. ASSUME NEW c \in attempts' PROVE AttemptIsSound(c)'
    <2>1. AttemptIsSound(c)
      BY <1>1, <1>4, <1>5 DEF Inv, AttemptsAreSound, AttemptIsSound
    <2>. QED
      BY <1>6, <2>1 DEF AttemptIsSound
  <1>11. \A c \in attempts' : c.live => rounds'[c.round].status = "RUNNING"
    BY <1>1, <1>5, <1>6 DEF Inv, AttemptsAreSound, OneIsAwaited
  <1>12. ASSUME NEW c \in attempts', NEW d \in attempts', c.live, d.live, c.round = d.round PROVE c = d
    <2>1. CASE c \in attempts /\ d \in attempts
      BY <1>12, <2>1 DEF Inv, AttemptsAreSound, OneIsAwaited
    <2>2. CASE c = new \/ d = new
      <3>1. c.round = r /\ d.round = r
        BY <1>5, <1>12, <2>2
      <3>. QED
        BY <1>1, <1>6, <1>12, <3>1
    <2>. QED
      BY <1>1, <2>1, <2>2
  <1>10. OneIsAwaited'
    BY <1>11, <1>12 DEF OneIsAwaited
  <1>. QED
    BY <1>6, <1>7, <1>8, <1>9, <1>10, Typed, Assembled DEF AttemptsAreSound

-----------------------------------------------------------------------------
(* Attempts                                                                *)

\* The transaction of an attempt.
OpenWork == {NoWork} \cup [begun : {TRUE}, work : Works, text : BOOLEAN]

LEMMA AttemptHas ==
  ASSUME Inv, NEW a \in attempts
  PROVE  /\ a \in Attempt /\ a.round \in DOMAIN rounds /\ rounds[a.round] \in Round
         /\ a.works \in SUBSET Works /\ a.live \in BOOLEAN /\ a.open \in OpenWork
         /\ AttemptIsSound(a) /\ RoundIsSound(a.round)
         /\ ProtocolOf(a) \in 1..Revisions /\ StageOf(a) \in Stages
  <1>1. AttemptIsSound(a) /\ RoundIsSound(a.round) /\ a.round \in DOMAIN rounds
    BY DEF Inv, AttemptsAreSound, RoundsAreSound, AttemptIsSound
  <1>2. a \in Attempt /\ rounds[a.round] \in Round
    BY <1>1, Typed DEF AttemptIsSound
  <1>3. a.works \in SUBSET Works /\ a.live \in BOOLEAN /\ a.open \in OpenWork
    BY <1>2 DEF Attempt, OpenWork
  <1>4. ProtocolOf(a) \in 1..Revisions
    BY <1>1, <1>2, Typed, BoundsAssumption DEF ProtocolOf, RoundIsSound, Round, Latest
  <1>5. StageOf(a) \in Stages
    BY <1>2 DEF StageOf, Round
  <1>. QED
    BY <1>1, <1>2, <1>3, <1>4, <1>5

\* What can become of an attempt.
LEMMA ChangedAttempt ==
  ASSUME Inv, NEW a \in attempts, NEW works \in SUBSET a.works, NEW live \in BOOLEAN, NEW open \in OpenWork,
         open # NoWork => open.work \in works /\ (open.text => open.work \in parsed)
  PROVE  AttemptIsSound([a EXCEPT !.works = works, !.live = live, !.open = open])
  <1>1. PICK b : b = [a EXCEPT !.works = works, !.live = live, !.open = open]
    OBVIOUS
  <1>2. a \in Attempt /\ a.works \in SUBSET Works
    BY AttemptHas
  <1>3. b.round = a.round /\ b.works = works /\ b.live = live /\ b.open = open /\ b \in Attempt
    BY <1>1, <1>2 DEF Attempt, OpenWork
  <1>4. AttemptIsSound(b)
    BY <1>3, AttemptHas DEF AttemptIsSound
  <1>. QED
    BY <1>1, <1>4

\* An attempt changes, or ends, and nothing but attempts does.
LEMMA MoveKeepsInv ==
  ASSUME Inv, NEW a \in attempts, NEW rest,
         UNCHANGED <<protocols, rounds, decisions, parsed, humans>>, faults' \in 0..MaxFaults,
         attempts' = (attempts \ {a}) \cup rest,
         \A b \in rest : AttemptIsSound(b) /\ b.round = a.round /\ (b.live => a.live),
         \A b, c \in rest : b.live /\ c.live => b = c
  PROVE  Inv'
  <1>1. RowsGoOn /\ RoundsGoOn /\ RowsAreSound'
    BY SameRows, SameRounds, RowsKept
  <1>2. RoundsAreSound'
    BY <1>1, RoundsKept DEF Active
  <1>3. \A c \in attempts' : c.live => rounds'[c.round].status = "RUNNING"
    BY DEF Inv, AttemptsAreSound, OneIsAwaited
  <1>4. AttemptsAreSound'
    BY <1>1, <1>3, AttemptsReplaced
  <1>. QED
    BY <1>1, <1>2, <1>4, Typed, Assembled

LEMMA TakeWorkKeepsInv ==
  ASSUME Inv, NEW a \in attempts, NEW w \in Works, TakeWork(a, w)
  PROVE  Inv'
  <1>1. /\ a \in Attempt /\ a.works \in SUBSET Works /\ a.live \in BOOLEAN /\ a.open \in OpenWork
        /\ AttemptIsSound(a) /\ w \in a.works /\ a.round \in DOMAIN rounds
    BY AttemptHas DEF TakeWork
  <1>2. a.open = NoWork
    BY DEF TakeWork, Locked
  <1>3. PICK b : /\ b = IF w \in Decided(ProtocolOf(a), StageOf(a)) THEN [a EXCEPT !.works = @ \ {w}]
                        ELSE [a EXCEPT !.open = [begun |-> TRUE, work |-> w, text |-> w \in parsed]]
                 /\ attempts' = (attempts \ {a}) \cup {b}
    BY DEF TakeWork, Becomes
  <1>4. AttemptIsSound(b) /\ b.round = a.round /\ b.live = a.live
    <2>1. CASE w \in Decided(ProtocolOf(a), StageOf(a))
      <3>1. b.round = a.round /\ b.live = a.live /\ b.works = a.works \ {w} /\ b.open = NoWork /\ b \in Attempt
        BY <1>1, <1>2, <1>3, <2>1 DEF Attempt
      <3>. QED
        BY <1>1, <3>1 DEF AttemptIsSound
    <2>2. CASE w \notin Decided(ProtocolOf(a), StageOf(a))
      <3>1. PICK open : open = [begun |-> TRUE, work |-> w, text |-> w \in parsed]
        OBVIOUS
      <3>2. open \in OpenWork /\ open.work = w /\ (open.text => w \in parsed)
        <4>1. CASE w \in parsed
          <5>1. open = [begun |-> TRUE, work |-> w, text |-> TRUE]
            BY <3>1, <4>1
          <5>. QED
            BY <4>1, <5>1 DEF OpenWork
        <4>2. CASE w \notin parsed
          <5>2. (w \in parsed) = FALSE
            BY <4>2
          <5>1. open = [begun |-> TRUE, work |-> w, text |-> FALSE]
            BY <3>1, <5>2, Zenon
          <5>. QED
            BY <4>2, <5>1 DEF OpenWork
        <4>. QED
          BY <4>1, <4>2
      <3>3. b = [a EXCEPT !.open = open]
        BY <1>3, <2>2, <3>1
      <3>4. b.round = a.round /\ b.live = a.live /\ b.works = a.works /\ b.open = open /\ b \in Attempt
        BY <1>1, <3>2, <3>3 DEF Attempt, OpenWork
      <3>. QED
        BY <1>1, <3>2, <3>4 DEF AttemptIsSound
    <2>. QED
      BY <2>1, <2>2
  <1>5. UNCHANGED <<protocols, rounds, decisions, parsed, humans>> /\ faults' \in 0..MaxFaults
    BY Typed DEF TakeWork
  <1>. QED
    <2>1. PICK rest : rest = {b} /\ attempts' = (attempts \ {a}) \cup rest
      BY <1>3
    <2>2. \A d \in rest : AttemptIsSound(d) /\ d.round = a.round /\ (d.live => a.live)
      BY <1>4, <2>1
    <2>3. \A d, x \in rest : d.live /\ x.live => d = x
      BY <2>1
    <2>. QED
      BY <1>5, <2>1, <2>2, <2>3, MoveKeepsInv

\* An attempt without its transaction, and one that goes on after its time.
LEMMA Closed ==
  ASSUME Inv, NEW a \in attempts
  PROVE  /\ AttemptIsSound([a EXCEPT !.open = NoWork])
         /\ [a EXCEPT !.open = NoWork].round = a.round /\ [a EXCEPT !.open = NoWork].live = a.live
         /\ AttemptIsSound([a EXCEPT !.live = FALSE])
         /\ [a EXCEPT !.live = FALSE].round = a.round /\ [a EXCEPT !.live = FALSE].live = FALSE
  <1>1. a \in Attempt /\ AttemptIsSound(a)
    BY AttemptHas
  <1>2. PICK b : b = [a EXCEPT !.open = NoWork]
    OBVIOUS
  <1>3. b \in Attempt /\ b.round = a.round /\ b.live = a.live /\ b.works = a.works /\ b.open = NoWork
    BY <1>1, <1>2 DEF Attempt
  <1>4. PICK c : c = [a EXCEPT !.live = FALSE]
    OBVIOUS
  <1>5. c \in Attempt /\ c.round = a.round /\ c.live = FALSE /\ c.works = a.works /\ c.open = a.open
    BY <1>1, <1>4 DEF Attempt
  <1>6. AttemptIsSound(b) /\ AttemptIsSound(c)
    BY <1>1, <1>3, <1>5 DEF AttemptIsSound
  <1>. QED
    BY <1>2, <1>3, <1>4, <1>5, <1>6

LEMMA RefusedKeepsInv ==
  ASSUME Inv, NEW a \in attempts, Refused(a)
  PROVE  Inv'
  <1>1. UNCHANGED <<protocols, rounds, decisions, parsed, humans>> /\ faults' \in 0..MaxFaults
    BY Typed DEF Refused
  <1>2. PICK b : b = [a EXCEPT !.open = NoWork]
    OBVIOUS
  <1>3. AttemptIsSound(b) /\ b.round = a.round /\ b.live = a.live
    BY <1>2, Closed
  <1>4. PICK rest \in {{b}, {}} : attempts' = (attempts \ {a}) \cup rest
    BY <1>2 DEF Refused, Becomes
  <1>5. \A d \in rest : AttemptIsSound(d) /\ d.round = a.round /\ (d.live => a.live)
    BY <1>3
  <1>6. \A d, x \in rest : d.live /\ x.live => d = x
    OBVIOUS
  <1>. QED
    BY <1>1, <1>4, <1>5, <1>6, MoveKeepsInv

LEMMA EndBatchKeepsInv ==
  ASSUME Inv, NEW a \in attempts, EndBatch(a)
  PROVE  Inv'
  <1>1. UNCHANGED <<protocols, rounds, decisions, parsed, humans>> /\ faults' \in 0..MaxFaults
    BY Typed DEF EndBatch
  <1>2. PICK rest : rest = {} /\ attempts' = (attempts \ {a}) \cup rest
    BY DEF EndBatch
  <1>3. /\ \A b \in rest : AttemptIsSound(b) /\ b.round = a.round /\ (b.live => a.live)
        /\ \A b, c \in rest : b.live /\ c.live => b = c
    BY <1>2
  <1>. QED
    BY <1>1, <1>2, <1>3, MoveKeepsInv

LEMMA AttemptFailsKeepsInv ==
  ASSUME Inv, NEW a \in attempts, AttemptFails(a)
  PROVE  Inv'
  <1>1. UNCHANGED <<protocols, decisions, parsed, humans>> /\ a.live
    BY DEF AttemptFails
  <1>2. faults' \in 0..MaxFaults
    BY Typed, BoundsAssumption DEF AttemptFails
  <1>3. PICK b, c : b = [a EXCEPT !.open = NoWork] /\ c = [a EXCEPT !.live = FALSE]
    OBVIOUS
  <1>4. /\ AttemptIsSound(b) /\ b.round = a.round /\ b.live = a.live
        /\ AttemptIsSound(c) /\ c.round = a.round /\ c.live = FALSE
    BY <1>3, Closed
  <1>5. PICK rest \in {{}, IF LateAttempts THEN {c} ELSE {}} :
          \/ attempts' = (attempts \ {a}) \cup {b} \cup rest /\ UNCHANGED rounds
          \/ /\ attempts' = (attempts \ {a}) \cup rest
             /\ rounds' = [rounds EXCEPT ![a.round].status = "STOPPING"]
    BY <1>3 DEF AttemptFails
  <1>6. \A d \in rest : d = c
    OBVIOUS
  <1>7. CASE attempts' = (attempts \ {a}) \cup {b} \cup rest /\ UNCHANGED rounds
    <2>1. PICK all : all = {b} \cup rest
      OBVIOUS
    <2>2. attempts' = (attempts \ {a}) \cup all
      BY <1>7, <2>1
    <2>3. \A d \in all : AttemptIsSound(d) /\ d.round = a.round /\ (d.live => a.live)
      BY <1>4, <1>6, <2>1
    <2>4. \A d, x \in all : d.live /\ x.live => d = x
      BY <1>4, <1>6, <2>1
    <2>. QED
      BY <1>1, <1>2, <1>7, <2>2, <2>3, <2>4, MoveKeepsInv
  <1>8. CASE /\ attempts' = (attempts \ {a}) \cup rest
             /\ rounds' = [rounds EXCEPT ![a.round].status = "STOPPING"]
    <2>1. a.round \in DOMAIN rounds /\ rounds[a.round].status = "RUNNING"
      BY <1>1, AttemptHas DEF Inv, AttemptsAreSound, OneIsAwaited
    <2>2. /\ RoundsGoOn /\ DOMAIN rounds' = DOMAIN rounds
          /\ rounds'[a.round].status = "STOPPING"
          /\ \A q \in DOMAIN rounds \ {a.round} : rounds'[q] = rounds[q]
      BY <1>8, <2>1, StatusChanges
    <2>3. RowsGoOn /\ RowsAreSound'
      BY <1>1, SameRows, RowsKept
    <2>4. RoundsAreSound'
      <3>1. \A q \in DOMAIN rounds : Active(q)' => Active(q)
        BY <2>1, <2>2 DEF Active
      <3>. QED
        BY <1>1, <2>2, <2>3, <3>1, RoundsKept
    <2>5. ASSUME NEW d \in attempts', d.live PROVE rounds'[d.round].status = "RUNNING"
      <3>1. d \in attempts /\ d # a
        BY <1>4, <1>6, <1>8, <2>5
      <3>2. d.round # a.round /\ rounds[d.round].status = "RUNNING" /\ d.round \in DOMAIN rounds
        BY <1>1, <2>5, <3>1, AttemptHas DEF Inv, AttemptsAreSound, OneIsAwaited
      <3>. QED
        BY <2>2, <3>2
    <2>6. AttemptsAreSound'
      <3>1. \A d \in rest : AttemptIsSound(d) /\ d.round = a.round /\ (d.live => a.live)
        BY <1>4, <1>6
      <3>2. \A d, x \in rest : d.live /\ x.live => d = x
        BY <1>6
      <3>. QED
        BY <1>1, <1>8, <2>2, <2>5, <3>1, <3>2, AttemptsReplaced
    <2>. QED
      BY <1>1, <1>2, <2>2, <2>3, <2>4, <2>6, Typed, Assembled
  <1>. QED
    BY <1>5, <1>7, <1>8

-----------------------------------------------------------------------------
(* Decisions                                                               *)

\* The row that an attempt adds, and its key.
LEMMA DecideAdds ==
  ASSUME Inv, NEW a \in attempts, Decide(a)
  PROVE  \E w \in Works, row \in Row :
           /\ a.open # NoWork /\ w = a.open.work /\ w \in a.works
           /\ Added(<<ProtocolOf(a), StageOf(a), w>>, row)
           /\ row[1] = "AI" => By(decisions[<<ProtocolOf(a), StageOf(a), w>>], "AI") = {}
           /\ row[1] # "HUMAN"
           /\ StageOf(a) = "FULL_TEXT" /\ row[2] = "INCLUDE" => w \in parsed
           /\ row[1] = "AI" \/ ~a.open.text
  <1>1. a.open # NoWork /\ a.open \in OpenWork /\ AttemptIsSound(a)
    BY AttemptHas DEF Decide
  <1>2. a.open.work \in Works /\ a.open.work \in a.works /\ (a.open.text => a.open.work \in parsed)
    BY <1>1 DEF OpenWork, AttemptIsSound
  <1>3. PICK w \in Works : w = a.open.work
    BY <1>2
  <1>4. PICK row \in Answers(a) : ~Rejected(a, row) /\ Added(<<ProtocolOf(a), StageOf(a), w>>, row)
    BY <1>3 DEF Decide, Added
  <1>5. row \in Row /\ row[1] # "HUMAN"
    BY <1>4 DEF Answers, Row
  <1>6. row[1] = "AI" => By(decisions[<<ProtocolOf(a), StageOf(a), w>>], "AI") = {}
    BY <1>3, <1>4 DEF Rejected, RowsOf
  <1>7. StageOf(a) = "FULL_TEXT" /\ row[2] = "INCLUDE" => w \in parsed
    BY <1>2, <1>3, <1>4 DEF Answers
  <1>8. row[1] = "AI" \/ ~a.open.text
    BY <1>4 DEF Answers
  <1>. QED
    BY <1>1, <1>2, <1>3, <1>4, <1>5, <1>6, <1>7, <1>8

LEMMA DecideKeepsInv ==
  ASSUME Inv, NEW a \in attempts, Decide(a)
  PROVE  Inv'
  <1>1. PICK p \in 1..Revisions, stage \in Stages : p = ProtocolOf(a) /\ stage = StageOf(a)
    BY AttemptHas
  <1>2. PICK w \in Works, row \in Row :
           /\ a.open # NoWork /\ w = a.open.work /\ w \in a.works
           /\ Added(<<p, stage, w>>, row)
           /\ row[1] = "AI" => By(decisions[<<p, stage, w>>], "AI") = {}
           /\ row[1] # "HUMAN"
           /\ stage = "FULL_TEXT" /\ row[2] = "INCLUDE" => w \in parsed
    BY <1>1, DecideAdds
  <1>3. UNCHANGED <<protocols, rounds, parsed, humans, faults>>
    BY DEF Decide
  <1>4. <<p, stage, w>> \in Keys
    BY DEF Keys
  <1>5. AttemptIsSound(a) /\ RoundIsSound(a.round) /\ a \in Attempt /\ a.works \in SUBSET Works
    BY AttemptHas
  <1>6. stage = "FULL_TEXT" => w \in Decided(p, "TITLE_ABSTRACT")
    BY <1>1, <1>2, <1>5 DEF AttemptIsSound, RoundIsSound, ProtocolOf, StageOf
  <1>7. RowsAreSound'
    BY <1>2, <1>3, <1>6, RowAdded
  <1>8. RowsGoOn /\ RoundsGoOn
    BY <1>2, <1>3, <1>4, AddedGoesOn, SameRounds
  <1>9. RoundsAreSound'
    BY <1>3, <1>8, RoundsKept DEF Active
  <1>10. PICK b : /\ b = [a EXCEPT !.works = @ \ {w}, !.open = NoWork]
                  /\ attempts' = (attempts \ {a}) \cup {b}
    BY <1>2 DEF Decide, Becomes
  <1>11. b.round = a.round /\ b.live = a.live /\ b.works = a.works \ {w} /\ b.open = NoWork /\ b \in Attempt
    BY <1>5, <1>10 DEF Attempt
  <1>12. AttemptIsSound(b)
    BY <1>5, <1>11 DEF AttemptIsSound
  <1>13. \A c \in attempts' : c.live => rounds'[c.round].status = "RUNNING"
    BY <1>3, <1>10, <1>11 DEF Inv, AttemptsAreSound, OneIsAwaited
  <1>14. AttemptsAreSound'
    <2>1. PICK rest : rest = {b} /\ attempts' = (attempts \ {a}) \cup rest
      BY <1>10
    <2>2. \A d \in rest : AttemptIsSound(d) /\ d.round = a.round /\ (d.live => a.live)
      BY <1>11, <1>12, <2>1
    <2>3. \A d, x \in rest : d.live /\ x.live => d = x
      BY <2>1
    <2>4. parsed \subseteq parsed'
      BY <1>3
    <2>. QED
      BY <1>8, <1>13, <2>1, <2>2, <2>3, <2>4, AttemptsReplaced
  <1>. QED
    BY <1>3, <1>7, <1>8, <1>9, <1>14, Typed, Assembled

-----------------------------------------------------------------------------
(* The invariant                                                           *)

LEMMA InitHolds ==
  ASSUME Init
  PROVE  Inv
  <1>. DEFINE first == [status |-> "PROPOSED", approved |-> FALSE]
  <1>1. protocols = <<first>> /\ first \in Protocol
    BY DEF Init, Protocol
  <1>. HIDE DEF first
  <1>2. protocols \in Seq(Protocol) /\ Len(protocols) = 1
    BY <1>1
  <1>3. rounds = <<>> /\ attempts = {} /\ parsed = {} /\ humans = 0 /\ faults = 0
        /\ \A k \in Keys : decisions[k] = <<>>
    BY DEF Init, Keys
  <1>4. TypeOK
    <2>1. decisions \in [Keys -> Seq(Row)]
      BY DEF Init, Keys
    <2>2. rounds \in Seq(Round) /\ Len(rounds) <= MaxRounds
      BY <1>3, BoundsAssumption
    <2>3. Latest \in 1..Revisions
      BY <1>2, BoundsAssumption DEF Latest
    <2>. QED
      BY <1>2, <1>3, <2>1, <2>2, <2>3, BoundsAssumption DEF TypeOK
  <1>5. AttemptsAreSound /\ RoundsAreSound
    BY <1>3 DEF AttemptsAreSound, OneIsAwaited, RoundsAreSound
  <1>6. RowsAreSound
    BY <1>3 DEF RowsAreSound, ReadInFull, OnceByAgent, By, Keys, Stages
  <1>. QED
    BY <1>4, <1>5, <1>6 DEF Inv

LEMMA StepKeepsInv ==
  ASSUME Inv, [Next]_vars
  PROVE  Inv'
  <1>1. CASE ApproveProtocol
    BY <1>1, ApproveProtocolKeepsInv
  <1>2. CASE ReviseProtocol
    BY <1>2, ReviseProtocolKeepsInv
  <1>3. CASE StartTitles \/ StartFullText
    BY <1>3, StartKeepsInv
  <1>4. ASSUME NEW r \in DOMAIN rounds, NEW w \in Works, NEW verdict \in HumanVerdicts,
               HumanDecides(r, w, verdict)
        PROVE  Inv'
    BY <1>4, HumanDecidesKeepsInv
  <1>5. ASSUME NEW w \in Works, Parse(w) PROVE Inv'
    BY <1>5, ParseKeepsInv
  <1>6. ASSUME NEW a \in attempts, AttemptFails(a) PROVE Inv'
    BY <1>6, AttemptFailsKeepsInv
  <1>7. CASE Worker
    <2>1. ASSUME NEW r \in DOMAIN rounds, PrepareBatch(r) \/ CompleteRound(r) \/ StopRound(r) PROVE Inv'
      BY <2>1, PrepareBatchKeepsInv, CompleteRoundKeepsInv
    <2>2. ASSUME NEW a \in attempts, Decide(a) PROVE Inv'
      BY <2>2, DecideKeepsInv
    <2>3. ASSUME NEW a \in attempts, Refused(a) \/ EndBatch(a) PROVE Inv'
      BY <2>3, RefusedKeepsInv, EndBatchKeepsInv
    <2>4. ASSUME NEW a \in attempts, NEW w \in Works, TakeWork(a, w) PROVE Inv'
      BY <2>4, TakeWorkKeepsInv
    <2>. QED
      BY <1>7, <2>1, <2>2, <2>3, <2>4 DEF Worker
  <1>8. CASE UNCHANGED vars
    <2>1. UNCHANGED <<protocols, rounds, decisions, parsed, attempts, humans, faults>>
      BY <1>8 DEF vars
    <2>2. RowsGoOn /\ RoundsGoOn /\ RowsAreSound'
      BY <2>1, SameRows, SameRounds, RowsKept
    <2>3. RoundsAreSound'
      BY <2>1, <2>2, RoundsKept DEF Active
    <2>4. AttemptsAreSound'
      BY <2>1, <2>2, AttemptsKept DEF Inv, AttemptsAreSound, OneIsAwaited
    <2>. QED
      BY <2>1, <2>2, <2>3, <2>4, Typed, Assembled
  <1>. QED
    BY <1>1, <1>2, <1>3, <1>4, <1>5, <1>6, <1>7, <1>8 DEF Next

LEMMA InvAlways == Spec => []Inv
  <1>. QED
    BY InitHolds, StepKeepsInv, PTL DEF Spec

-----------------------------------------------------------------------------
(* What is promised                                                        *)

\* The rows of protocols, rounds and decisions keep the enumerations of enums.py.
THEOREM TypeCorrect == Spec => []TypeOK
  <1>1. Inv => TypeOK
    BY DEF Inv
  <1>. QED
    BY <1>1, InvAlways, PTL

\* A work of the final corpus was judged by its title, and its document was read, under
\* the protocol it is included by (final_included_work_ids).
THEOREM CorpusWasRead == Spec => []FinalCorpusWasRead
  <1>1. ASSUME Inv, NEW p \in 1..Revisions, NEW w \in FinalIncluded(p)
        PROVE  w \in parsed /\ w \in Decided(p, "TITLE_ABSTRACT")
    <2>1. PICK rows : rows = decisions[<<p, "FULL_TEXT", w>>]
      OBVIOUS
    <2>2. w \in Works /\ <<p, "FULL_TEXT", w>> \in Keys
      BY DEF FinalIncluded, Keys, Stages
    <2>3. rows \in Seq(Row) /\ rows # <<>> /\ Effective(rows)[2] = "INCLUDE"
      BY <1>1, <2>1, <2>2, Typed DEF FinalIncluded, Says, Decided
    <2>4. \A i \in DOMAIN rows : /\ rows[i][1] # "HUMAN"
                                 /\ rows[i][2] = "INCLUDE" => w \in parsed
                                 /\ w \in Decided(p, "TITLE_ABSTRACT")
      BY <1>1, <2>1, <2>2 DEF Inv, RowsAreSound, ReadInFull
    <2>5. By(rows, "HUMAN") = {}
      BY <2>4 DEF By
    <2>6. Effective(rows) = rows[Len(rows)] /\ Len(rows) \in DOMAIN rows
      BY <2>3, <2>5 DEF Effective
    <2>. QED
      BY <2>3, <2>4, <2>6
  <1>2. Inv => FinalCorpusWasRead
    BY <1>1 DEF FinalCorpusWasRead
  <1>. QED
    BY <1>2, InvAlways, PTL

-----------------------------------------------------------------------------
(* What a step does not do                                                 *)

\* Only a decision of an attempt or of a human writes a row, one at the end of one key.
LEMMA WhoWrites ==
  ASSUME Inv, [Next]_vars
  PROVE  \/ UNCHANGED decisions
         \/ \E k \in Keys, row \in Row :
              /\ Added(k, row)
              /\ row[1] = "HUMAN" \/ \E a \in attempts : Decide(a) /\ k[1] = ProtocolOf(a)
  <1>1. ASSUME NEW r \in DOMAIN rounds, NEW w \in Works, NEW verdict \in HumanVerdicts,
               HumanDecides(r, w, verdict)
        PROVE  \E k \in Keys, row \in Row : Added(k, row) /\ row[1] = "HUMAN"
    <2>1. PICK p : p = rounds[r].protocol
      OBVIOUS
    <2>2. p \in 1..Revisions
      <3>1. RoundIsSound(r) /\ rounds[r] \in Round
        BY Typed DEF Inv, RoundsAreSound
      <3>. QED
        BY <2>1, <3>1, Typed, BoundsAssumption DEF RoundIsSound, Round, Latest
    <2>3. PICK row, k : row = <<"HUMAN", verdict>> /\ k = <<p, "TITLE_ABSTRACT", w>>
      OBVIOUS
    <2>4. row \in Row /\ row[1] = "HUMAN" /\ k \in Keys
      BY <2>2, <2>3 DEF Row, Keys, Stages
    <2>5. Added(k, row)
      BY <1>1, <2>1, <2>3 DEF HumanDecides, Added
    <2>. QED
      BY <2>4, <2>5
  <1>2. ASSUME NEW a \in attempts, Decide(a)
        PROVE  \E k \in Keys, row \in Row : Added(k, row) /\ k[1] = ProtocolOf(a)
    <2>1. PICK w \in Works, row \in Row : Added(<<ProtocolOf(a), StageOf(a), w>>, row)
      BY <1>2, DecideAdds
    <2>2. PICK k : k = <<ProtocolOf(a), StageOf(a), w>>
      OBVIOUS
    <2>3. k \in Keys /\ k[1] = ProtocolOf(a)
      BY <2>2, AttemptHas DEF Keys
    <2>. QED
      BY <2>1, <2>2, <2>3
  <1>3. ASSUME NEW r \in DOMAIN rounds, PrepareBatch(r) \/ CompleteRound(r) \/ StopRound(r)
        PROVE  UNCHANGED decisions
    BY <1>3 DEF PrepareBatch, CompleteRound, StopRound
  <1>4. ASSUME NEW a \in attempts, Refused(a) \/ EndBatch(a) \/ AttemptFails(a) PROVE UNCHANGED decisions
    BY <1>4 DEF Refused, EndBatch, AttemptFails
  <1>5. ASSUME NEW a \in attempts, NEW w \in Works, TakeWork(a, w) PROVE UNCHANGED decisions
    BY <1>5 DEF TakeWork
  <1>6. ASSUME NEW w \in Works, Parse(w) PROVE UNCHANGED decisions
    BY <1>6 DEF Parse
  <1>7. CASE ApproveProtocol \/ ReviseProtocol \/ StartTitles \/ StartFullText \/ UNCHANGED vars
    BY <1>7 DEF ApproveProtocol, ReviseProtocol, StartTitles, StartFullText, Started, vars
  <1>. QED
    BY <1>1, <1>2, <1>3, <1>4, <1>5, <1>6, <1>7 DEF Next, Worker

\* What a human decided remains effective until a human decides again, for any agent
\* that was reading meanwhile (effective_decisions).
THEOREM HumansPrevail == Spec => HumanStands
  <1>. DEFINE Stands(rows, new) ==
                rows # <<>> /\ Effective(rows)[1] = "HUMAN" /\ By(new, "HUMAN") = By(rows, "HUMAN")
                  => Effective(new) = Effective(rows)
  <1>1. ASSUME NEW rows \in Seq(Row), NEW row \in Row PROVE Stands(rows, Append(rows, row))
    <2>. SUFFICES ASSUME rows # <<>>, Effective(rows)[1] = "HUMAN",
                         By(Append(rows, row), "HUMAN") = By(rows, "HUMAN")
                  PROVE  Effective(Append(rows, row)) = Effective(rows)
      OBVIOUS
    <2>1. By(rows, "HUMAN") # {}
      <3>. SUFFICES ASSUME By(rows, "HUMAN") = {} PROVE FALSE
        OBVIOUS
      <3>1. Effective(rows) = rows[Len(rows)] /\ Len(rows) \in DOMAIN rows
        BY DEF Effective
      <3>. QED
        BY <3>1 DEF By
    <2>2. PICK n, last : n = Len(rows) /\ last = Max(By(rows, "HUMAN"))
      OBVIOUS
    <2>3. n \in Nat /\ By(rows, "HUMAN") \in SUBSET (1..n)
      BY <2>2, ByOfAppend
    <2>4. last \in By(rows, "HUMAN")
      BY <2>1, <2>2, <2>3, LastPosition
    <2>5. last \in DOMAIN rows
      BY <2>4 DEF By
    <2>6. Append(rows, row)[last] = rows[last]
      BY <2>5
    <2>. QED
      BY <2>1, <2>2, <2>6 DEF Effective
  <1>2. ASSUME Inv, [Next]_vars, NEW k \in Keys PROVE Stands(decisions[k], decisions'[k])
    <2>1. CASE decisions'[k] = decisions[k]
      BY <2>1
    <2>2. CASE decisions'[k] # decisions[k]
      <3>1. PICK j \in Keys, row \in Row : Added(j, row)
        BY <1>2, <2>2, WhoWrites
      <3>2. decisions \in [Keys -> Seq(Row)]
        BY <1>2, Typed
      <3>3. j = k /\ decisions'[k] = Append(decisions[k], row)
        BY <2>2, <3>1, <3>2, AddedRows
      <3>4. PICK rows \in Seq(Row) : rows = decisions[k]
        BY <3>2
      <3>5. Stands(rows, Append(rows, row))
        BY <1>1
      <3>. HIDE DEF Stands
      <3>. QED
        BY <3>3, <3>4, <3>5
    <2>. QED
      BY <2>1, <2>2
  <1>3. Inv /\ [Next]_vars =>
          [\A k \in Keys :
             (decisions[k] # <<>> /\ Effective(decisions[k])[1] = "HUMAN"
                /\ By(decisions'[k], "HUMAN") = By(decisions[k], "HUMAN"))
             => Effective(decisions'[k]) = Effective(decisions[k])]_vars
    BY <1>2
  <1>. QED
    BY <1>3, InvAlways, PTL DEF Spec, HumanStands

\* No agent writes under a version of the protocol that has been replaced, or is not
\* approved, but one whose attempt was given up (ensure_idle, prepare_screening_batch).
THEOREM ProtocolIsFollowed == Spec => AgentsFollowTheProtocol
  <1>1. ASSUME Inv, [Next]_vars, NEW k \in Keys, Len(decisions'[k]) > Len(decisions[k]),
               decisions'[k][Len(decisions'[k])][1] # "HUMAN"
        PROVE  \/ k[1] = Latest /\ protocols[Latest].status = "APPROVED"
               \/ \E a \in attempts : ~a.live /\ ProtocolOf(a) = k[1]
    <2>1. decisions \in [Keys -> Seq(Row)]
      BY <1>1, Typed
    <2>2. decisions'[k] # decisions[k]
      BY <1>1, <2>1
    <2>3. PICK j \in Keys, row \in Row :
            /\ Added(j, row)
            /\ row[1] = "HUMAN" \/ \E a \in attempts : Decide(a) /\ j[1] = ProtocolOf(a)
      BY <1>1, <2>2, WhoWrites
    <2>4. j = k /\ decisions'[k] = Append(decisions[k], row)
      BY <2>1, <2>2, <2>3, AddedRows
    <2>5. row[1] # "HUMAN"
      <3>1. PICK rows \in Seq(Row) : rows = decisions[k]
        BY <2>1
      <3>2. Append(rows, row)[Len(Append(rows, row))] = row
        OBVIOUS
      <3>. QED
        BY <1>1, <2>4, <3>1, <3>2
    <2>6. PICK a \in attempts : Decide(a) /\ k[1] = ProtocolOf(a)
      BY <2>3, <2>4, <2>5
    <2>7. CASE a.live
      <3>1. rounds[a.round].status = "RUNNING" /\ RoundIsSound(a.round)
        BY <1>1, <2>7, AttemptHas DEF Inv, AttemptsAreSound, OneIsAwaited
      <3>. QED
        BY <2>6, <3>1 DEF RoundIsSound, Active, ProtocolOf
    <2>. QED
      BY <2>6, <2>7
  <1>2. Inv /\ [Next]_vars =>
          [\A k \in Keys :
             (Len(decisions'[k]) > Len(decisions[k]) /\ decisions'[k][Len(decisions'[k])][1] # "HUMAN")
             => \/ k[1] = Latest /\ protocols[Latest].status = "APPROVED"
                \/ \E a \in attempts : ~a.live /\ ProtocolOf(a) = k[1]]_vars
    BY <1>1
  <1>. QED
    BY <1>2, InvAlways, PTL DEF Spec, AgentsFollowTheProtocol

\* Under one version a work leaves the final corpus only by the answer of an attempt
\* that found no document when it looked: the index screening_ai_once refuses a second
\* answer of the agent, for rounds, retries and late attempts in any number.
THEOREM CorpusStays == Spec => FinalCorpusStays
  <1>1. ASSUME Inv, [Next]_vars, NEW p \in 1..Revisions, NEW w \in FinalIncluded(p),
               w \notin FinalIncluded(p)'
        PROVE  \E a \in attempts : a.open # NoWork /\ a.open.work = w /\ ~a.open.text
    <2>1. PICK k : k = <<p, "FULL_TEXT", w>>
      OBVIOUS
    <2>2. w \in Works /\ k \in Keys
      BY <2>1 DEF FinalIncluded, Keys, Stages
    <2>3. decisions \in [Keys -> Seq(Row)]
      BY <1>1, Typed
    <2>4. decisions'[k] # decisions[k]
      BY <1>1, <2>1 DEF FinalIncluded, Says, Decided
    <2>5. PICK j \in Keys, new \in Row :
            Added(j, new) /\ (new[1] = "HUMAN" \/ \E a \in attempts : Decide(a))
      BY <1>1, <2>4, WhoWrites
    <2>6. j = k /\ decisions'[k] = Append(decisions[k], new)
      BY <2>2, <2>3, <2>4, <2>5, AddedRows
    <2>7. new[1] # "HUMAN"
      <3>1. PICK rows \in Seq(Row) : rows = decisions[k]
        BY <2>2, <2>3
      <3>2. /\ Len(rows) + 1 \in DOMAIN Append(rows, new)
            /\ Append(rows, new)[Len(rows) + 1] = new
        OBVIOUS
      <3>3. RowsAreSound'
        BY <1>1, StepKeepsInv DEF Inv
      <3>4. \A i \in DOMAIN decisions'[k] : decisions'[k][i][1] # "HUMAN"
        BY <2>1, <2>2, <3>3 DEF RowsAreSound, ReadInFull
      <3>. QED
        BY <2>6, <3>1, <3>2, <3>4
    <2>8. PICK a \in attempts : Decide(a)
      BY <2>5, <2>7
    <2>9. PICK x \in Works, row \in Row :
            /\ a.open # NoWork /\ x = a.open.work
            /\ Added(<<ProtocolOf(a), StageOf(a), x>>, row)
            /\ row[1] = "AI" => By(decisions[<<ProtocolOf(a), StageOf(a), x>>], "AI") = {}
            /\ row[1] = "AI" \/ ~a.open.text
      BY <1>1, <2>8, DecideAdds
    <2>10. PICK i : i = <<ProtocolOf(a), StageOf(a), x>>
      OBVIOUS
    <2>11. i \in Keys
      BY <1>1, <2>10, AttemptHas DEF Keys
    <2>12. i = k
      BY <2>2, <2>3, <2>4, <2>9, <2>10, <2>11, AddedRows
    <2>13. x = w
      BY <2>1, <2>10, <2>12
    <2>14. By(decisions[k], "AI") # {}
      <3>1. PICK rows \in Seq(Row) : rows = decisions[k]
        BY <2>2, <2>3
      <3>2. rows # <<>> /\ Effective(rows)[2] = "INCLUDE"
        BY <2>1, <3>1 DEF FinalIncluded, Says, Decided
      <3>3. \A n \in DOMAIN rows : rows[n][1] # "HUMAN"
        BY <1>1, <2>1, <2>2, <3>1 DEF Inv, RowsAreSound, ReadInFull
      <3>4. Effective(rows) = rows[Len(rows)] /\ Len(rows) \in DOMAIN rows
        BY <3>2, <3>3 DEF Effective, By
      <3>5. rows[Len(rows)] \in Row /\ rows[Len(rows)][1] # "HUMAN" /\ rows[Len(rows)][2] = "INCLUDE"
        BY <3>2, <3>3, <3>4
      <3>6. rows[Len(rows)][1] = "AI"
        BY <3>5 DEF Row
      <3>. QED
        BY <3>1, <3>4, <3>6 DEF By
    <2>15. ~a.open.text
      BY <2>9, <2>10, <2>12, <2>14
    <2>. QED
      BY <2>9, <2>13, <2>15
  <1>2. Inv /\ [Next]_vars =>
          [\A p \in 1..Revisions : \A w \in FinalIncluded(p) :
             \/ w \in FinalIncluded(p)'
             \/ \E a \in attempts : a.open # NoWork /\ a.open.work = w /\ ~a.open.text]_vars
    BY <1>1
  <1>. QED
    BY <1>2, InvAlways, PTL DEF Spec, FinalCorpusStays

=============================================================================

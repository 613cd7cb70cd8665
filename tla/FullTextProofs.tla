----------------------------- MODULE FullTextProofs -----------------------------
(***************************************************************************)
(* Documents of any number of works, uploaded and acquired side by side:   *)
(* the same bytes are on file once, and what is said to be available is    *)
(* there.  The reason is the row of the acquisition, which one transaction *)
(* holds from before it looks whether the bytes are on file until it has   *)
(* stored them, and for which an upload waits.                             *)
(***************************************************************************)
EXTENDS FullText, TLAPS

Transaction == [pc : {"idle", "read", "searching", "settling"}, inserts : BOOLEAN,
                shares : BOOLEAN, found : SUBSET Contents, new : BOOLEAN]

AttemptRow == [op : Nat, n : Nat, live : BOOLEAN, batch : SUBSET Items, todo : SUBSET Items,
               subject : SUBSET Items, tx : Transaction]

\* An attempt of an acquisition, and the work it is at.
AttemptIsTyped(a) ==
  /\ a \in AttemptRow
  /\ a.op \in DOMAIN ops
  /\ ops[a.op].kind = "full_text" => a.batch \subseteq Works \X {0} /\ a.todo \subseteq Works \X {0}
  /\ a.tx.pc # "idle" => \E w \in Works : a.subject = {<<w, 0>>}

Typed == TypeOK /\ \A a \in attempts : AttemptIsTyped(a)

\* The transaction has the row of the acquisition of w.
HasRow(a, w) == a.subject = {<<w, 0>>} /\ a.tx.pc \in {"searching", "settling"}

\* A row is held by one transaction.
OneHolder == \A a, b \in attempts : \A w \in Works : HasRow(a, w) /\ HasRow(b, w) => a = b

\* What a transaction knows of the document it found.
Knows(a) ==
  \A w \in Works : a.subject = {<<w, 0>>} /\ a.tx.pc = "settling" =>
    \/ a.tx.found = {} /\ ~a.tx.new
    \/ \E c \in Contents : a.tx.found = {c} /\ (a.tx.new <=> ~Holds(w, c))

FoundIsTrue == \A a \in attempts : Knows(a)

Inv == Typed /\ OneHolder /\ FoundIsTrue /\ AvailableIsHeld /\ OneAssetPerContent

-----------------------------------------------------------------------------
(* Assets                                                                  *)

\* The contents that are on file for each work stay the same.
SameContents ==
  \A w \in Works :
    /\ DOMAIN assets'[w] = DOMAIN assets[w]
    /\ \A i \in DOMAIN assets[w] : assets'[w][i].content = assets[w][i].content

LEMMA WorkOfSubject ==
  ASSUME NEW a, NEW w \in Works, a.subject = {<<w, 0>>}
  PROVE  WorkOf(a) = w
  <1>1. \A v \in Works : a.subject = {<<v, 0>>} => v = w
    <2>. SUFFICES ASSUME NEW v \in Works, {<<w, 0>>} = {<<v, 0>>} PROVE v = w
      OBVIOUS
    <2>1. <<w, 0>> = <<v, 0>>
      OBVIOUS
    <2>. QED
      BY <2>1
  <1>. QED
    BY <1>1 DEF WorkOf

\* A document that is stored is one more, and the others stay.
LEMMA StoredIsHeld ==
  ASSUME NEW rows \in Seq(Asset), NEW c \in Contents
  PROVE  /\ Stored(rows, c) \in Seq(Asset) /\ Stored(rows, c) # <<>>
         /\ Len(Stored(rows, c)) = Len(rows) + 1
         /\ \A i \in 1..Len(rows) : Stored(rows, c)[i] = rows[i]
         /\ Stored(rows, c)[Len(rows) + 1].content = c
  <1>. DEFINE new == [content |-> c, status |-> "AVAILABLE", documents |-> 0]
  <1>1. new \in Asset /\ new.content = c
    BY DEF Asset
  <1>2. Stored(rows, c) = Append(rows, new)
    BY DEF Stored
  <1>. HIDE DEF new
  <1>. QED
    BY <1>1, <1>2

\* Nothing that depends on the contents on file changes with their status.
LEMMA ContentsMatter ==
  ASSUME Typed, SameContents, assets' \in [Works -> Seq(Asset)], acquisitions' = acquisitions
  PROVE  /\ \A w \in Works : \A c \in Contents : Holds(w, c)' <=> Holds(w, c)
         /\ AvailableIsHeld => AvailableIsHeld'
         /\ OneAssetPerContent => OneAssetPerContent'
  <1>1. \A w \in Works : \A c \in Contents : Holds(w, c)' <=> Holds(w, c)
    BY DEF SameContents, Holds
  <1>2. OneAssetPerContent => OneAssetPerContent'
    BY DEF SameContents, OneAssetPerContent
  <1>3. \A w \in Works : assets[w] # <<>> => assets'[w] # <<>>
    BY DEF SameContents, Typed, TypeOK
  <1>. QED
    BY <1>1, <1>2, <1>3 DEF AvailableIsHeld

-----------------------------------------------------------------------------
(* Operations and attempts                                                 *)

\* Operations are not removed and do not change their kind.
OpsGoOn ==
  /\ ops' \in Seq(Operation) /\ DOMAIN ops \subseteq DOMAIN ops'
  /\ \A o \in DOMAIN ops : ops'[o].kind = ops[o].kind

LEMMA OpReplaced ==
  ASSUME ops \in Seq(Operation), NEW o \in DOMAIN ops, NEW new \in Operation,
         new.kind = ops[o].kind, ops' = [ops EXCEPT ![o] = new]
  PROVE  OpsGoOn
  <1>1. ops' \in Seq(Operation) /\ DOMAIN ops' = DOMAIN ops
    OBVIOUS
  <1>2. ASSUME NEW i \in DOMAIN ops PROVE ops'[i].kind = ops[i].kind
    <2>1. CASE i = o
      <3>1. ops'[i] = new
        BY <2>1
      <3>. QED
        BY <2>1, <3>1
    <2>2. CASE i # o
      <3>1. ops'[i] = ops[i]
        BY <2>2
      <3>. QED
        BY <3>1
    <2>. QED
      BY <2>1, <2>2
  <1>3. \A i \in DOMAIN ops : ops'[i].kind = ops[i].kind
    BY <1>2
  <1>4. DOMAIN ops \subseteq DOMAIN ops'
    BY <1>1
  <1>. QED
    BY ONLY <1>1, <1>3, <1>4 DEF OpsGoOn

LEMMA EnterGoesOn ==
  ASSUME ops \in Seq(Operation), ops # <<>>,
         NEW stage \in {"PREPARE", "CALL", "FINISH", "ABORT", "ENDED"}, Enter(stage)
  PROVE  OpsGoOn
  <1>. DEFINE new == [ops[Len(ops)] EXCEPT !.stage = stage]
  <1>1. Len(ops) \in DOMAIN ops /\ ops[Len(ops)] \in Operation
    OBVIOUS
  <1>2. new \in Operation /\ new.kind = ops[Len(ops)].kind
    BY <1>1 DEF Operation
  <1>3. ops' = [ops EXCEPT ![Len(ops)] = new]
    BY DEF Enter
  <1>. HIDE DEF new
  <1>. QED
    BY <1>1, <1>2, <1>3, OpReplaced

LEMMA AttemptedGoesOn ==
  ASSUME ops \in Seq(Operation), NEW o \in DOMAIN ops, NEW items \in SUBSET Items,
         ops' = [ops EXCEPT ![o].attempted = @ \cup items]
  PROVE  OpsGoOn
  <1>. DEFINE new == [ops[o] EXCEPT !.attempted = @ \cup items]
  <1>1. ops[o] \in Operation
    OBVIOUS
  <1>2. new \in Operation /\ new.kind = ops[o].kind
    BY <1>1 DEF Operation
  <1>3. ops' = [ops EXCEPT ![o] = new]
    OBVIOUS
  <1>. HIDE DEF new
  <1>. QED
    BY <1>2, <1>3, OpReplaced

\* Attempts that stay, and attempts that are new, are typed.
LEMMA StaysTyped ==
  ASSUME Typed, OpsGoOn, NEW c \in attempts
  PROVE  AttemptIsTyped(c)'
  BY DEF Typed, OpsGoOn, AttemptIsTyped

LEMMA NewIsTyped ==
  ASSUME NEW o \in DOMAIN ops', ops' \in Seq(Operation), NEW n \in Nat, NEW batch \in SUBSET Items,
         ops'[o].kind = "full_text" => batch \subseteq Works \X {0}
  PROVE  AttemptIsTyped(NewAttempt(o, n, batch))' /\ NewAttempt(o, n, batch).tx.pc = "idle"
  BY DEF AttemptIsTyped, NewAttempt, NoTransaction, AttemptRow, Transaction

\* The contents of works stay, or nobody else is at them.
Undisturbed(others) ==
  \A w \in Works : \/ \A c \in Contents : Holds(w, c)' <=> Holds(w, c)
                  \/ \A d \in others : ~HasRow(d, w)

\* One attempt becomes another, which takes no row that is held; new ones are idle.
LEMMA OneReplaces ==
  ASSUME Inv, NEW a \in attempts, NEW b,
         \A w \in Works : HasRow(b, w) => HasRow(a, w) \/ ~RowIsHeld(w),
         \A c \in attempts' : c \in attempts \ {a} \/ c = b \/ c.tx.pc = "idle",
         Undisturbed(attempts \ {a}), Knows(b)'
  PROVE  OneHolder' /\ FoundIsTrue'
  <1>1. ASSUME NEW c \in attempts \ {a}, NEW w \in Works, HasRow(c, w), HasRow(b, w) PROVE FALSE
    <2>1. RowIsHeld(w)
      BY <1>1 DEF RowIsHeld, HasRow
    <2>2. c = a
      BY <1>1, <2>1 DEF Inv, OneHolder
    <2>. QED
      BY <2>2
  <1>2. OneHolder'
    <2>. SUFFICES ASSUME NEW c \in attempts', NEW d \in attempts', NEW w \in Works,
                         HasRow(c, w), HasRow(d, w)
                  PROVE  c = d
      BY DEF OneHolder, HasRow
    <2>1. c.tx.pc # "idle" /\ d.tx.pc # "idle"
      BY DEF HasRow
    <2>2. c \in attempts \ {a} \/ c = b
      BY <2>1
    <2>3. d \in attempts \ {a} \/ d = b
      BY <2>1
    <2>. QED
      BY <1>1, <2>2, <2>3 DEF Inv, OneHolder
  <1>3. ASSUME NEW c \in attempts \ {a} PROVE Knows(c)'
    <2>1. Knows(c)
      BY <1>3 DEF Inv, FoundIsTrue
    <2>. SUFFICES ASSUME NEW w \in Works, c.subject = {<<w, 0>>}, c.tx.pc = "settling"
                  PROVE  \/ c.tx.found = {} /\ ~c.tx.new
                         \/ \E x \in Contents : c.tx.found = {x} /\ (c.tx.new <=> ~Holds(w, x)')
      BY DEF Knows
    <2>2. HasRow(c, w)
      BY DEF HasRow
    <2>3. \A x \in Contents : Holds(w, x)' <=> Holds(w, x)
      BY <1>3, <2>2 DEF Undisturbed
    <2>. QED
      BY <2>1, <2>3 DEF Knows
  <1>4. ASSUME NEW c \in attempts', c.tx.pc = "idle" PROVE Knows(c)'
    BY <1>4 DEF Knows
  <1>. QED
    BY <1>2, <1>3, <1>4 DEF FoundIsTrue

\* No attempt takes a row or learns of a document.
LEMMA NobodyTakes ==
  ASSUME Inv, \A c \in attempts' : c \in attempts \/ c.tx.pc = "idle", Undisturbed(attempts)
  PROVE  OneHolder' /\ FoundIsTrue'
  <1>1. OneHolder'
    BY DEF Inv, OneHolder, HasRow
  <1>2. ASSUME NEW c \in attempts', c \in attempts PROVE Knows(c)'
    <2>1. Knows(c)
      BY <1>2 DEF Inv, FoundIsTrue
    <2>. SUFFICES ASSUME NEW w \in Works, c.subject = {<<w, 0>>}, c.tx.pc = "settling"
                  PROVE  \/ c.tx.found = {} /\ ~c.tx.new
                         \/ \E x \in Contents : c.tx.found = {x} /\ (c.tx.new <=> ~Holds(w, x)')
      BY DEF Knows
    <2>2. HasRow(c, w)
      BY DEF HasRow
    <2>3. \A x \in Contents : Holds(w, x)' <=> Holds(w, x)
      BY <1>2, <2>2 DEF Undisturbed
    <2>. QED
      BY <2>1, <2>3 DEF Knows
  <1>3. ASSUME NEW c \in attempts', c.tx.pc = "idle" PROVE Knows(c)'
    BY <1>3 DEF Knows
  <1>. QED
    BY <1>1, <1>2, <1>3 DEF FoundIsTrue

\* As long as the rows of works stay, it is enough to mind the rest.
LEMMA RowsStay ==
  ASSUME Inv, UNCHANGED <<acquisitions, assets>>
  PROVE  AvailableIsHeld' /\ OneAssetPerContent' /\ \A others : Undisturbed(others)
  BY DEF Inv, AvailableIsHeld, OneAssetPerContent, Undisturbed, Holds

-----------------------------------------------------------------------------
(* Steps that leave the rows of works alone                                *)

RequestIsTyped(r) == r = NoRequest \/ r \in [open : {TRUE}, work : Works, content : Contents]

\* Attempts end or begin.
LEMMA NobodyMoves ==
  ASSUME Inv, UNCHANGED <<acquisitions, assets>>, RequestIsTyped(request'), OpsGoOn,
         \A c \in attempts' : c \in attempts \/ (AttemptIsTyped(c)' /\ c.tx.pc = "idle")
  PROVE  Inv'
  <1>1. AvailableIsHeld' /\ OneAssetPerContent' /\ Undisturbed(attempts)
    BY RowsStay
  <1>2. OneHolder' /\ FoundIsTrue'
    BY <1>1, NobodyTakes
  <1>3. TypeOK'
    BY DEF Inv, Typed, TypeOK, OpsGoOn, RequestIsTyped
  <1>4. \A c \in attempts : AttemptIsTyped(c)'
    BY StaysTyped DEF Inv
  <1>. QED
    BY <1>1, <1>2, <1>3, <1>4 DEF Inv, Typed

\* One attempt moves on.
LEMMA OneMoves ==
  ASSUME Inv, UNCHANGED <<acquisitions, assets, request>>, OpsGoOn,
         NEW a \in attempts, NEW b, AttemptIsTyped(b)', Knows(b)',
         \A w \in Works : HasRow(b, w) => HasRow(a, w) \/ ~RowIsHeld(w),
         \A c \in attempts' : \/ c \in attempts \ {a} \/ c = b
                              \/ AttemptIsTyped(c)' /\ c.tx.pc = "idle"
  PROVE  Inv'
  <1>1. AvailableIsHeld' /\ OneAssetPerContent' /\ Undisturbed(attempts \ {a})
    BY RowsStay
  <1>2. OneHolder' /\ FoundIsTrue'
    BY <1>1, OneReplaces
  <1>3. TypeOK'
    BY DEF Inv, Typed, TypeOK, OpsGoOn
  <1>4. \A c \in attempts : AttemptIsTyped(c)'
    BY StaysTyped DEF Inv
  <1>. QED
    BY <1>1, <1>2, <1>3, <1>4 DEF Inv, Typed

LEMMA OpsStay ==
  ASSUME Inv, UNCHANGED ops
  PROVE  OpsGoOn
  BY DEF Inv, Typed, TypeOK, OpsGoOn

LEMMA EnterKeepsOps ==
  ASSUME Inv, ops # <<>>,
         NEW stage \in {"PREPARE", "CALL", "FINISH", "ABORT", "ENDED"}, Enter(stage)
  PROVE  OpsGoOn
  BY EnterGoesOn DEF Inv, Typed, TypeOK

LEMMA AttemptHasOp ==
  ASSUME Inv, NEW a \in attempts
  PROVE  a.op \in DOMAIN ops /\ ops \in Seq(Operation) /\ ops # <<>>
  BY DEF Inv, Typed, TypeOK, AttemptIsTyped

\* What takes the place of an attempt that fails.
LEMMA FailsGoesOn ==
  ASSUME Inv, NEW a \in attempts, NEW rest, Fails(a, rest)
  PROVE  /\ OpsGoOn
         /\ \A c \in attempts' : \/ c \in attempts \ {a} \/ c \in rest
                                 \/ AttemptIsTyped(c)' /\ c.tx.pc = "idle"
  <1>1. OpsGoOn
    BY AttemptHasOp, EnterKeepsOps, OpsStay DEF Fails
  <1>2. AttemptIsTyped(a)'
    BY <1>1, StaysTyped DEF Inv
  <1>3. a.op \in DOMAIN ops' /\ ops' \in Seq(Operation) /\ a.n + 1 \in Nat /\ a.batch \in SUBSET Items
    BY <1>1, <1>2 DEF AttemptIsTyped, AttemptRow, OpsGoOn
  <1>4. ops'[a.op].kind = "full_text" => a.batch \subseteq Works \X {0}
    BY <1>2 DEF AttemptIsTyped
  <1>. DEFINE new == NewAttempt(a.op, a.n + 1, a.batch)
  <1>5. AttemptIsTyped(new)' /\ new.tx.pc = "idle"
    BY <1>3, <1>4, NewIsTyped
  <1>. HIDE DEF new
  <1>6. \A c \in attempts' : c \in attempts \ {a} \/ c \in rest \/ c = new
    BY DEF Fails, new
  <1>. QED
    BY <1>1, <1>5, <1>6

LEMMA FailsKeepsInv ==
  ASSUME Inv, NEW a \in attempts, Fails(a, {}), UNCHANGED <<acquisitions, assets, request>>
  PROVE  Inv'
  <1>1. OpsGoOn /\ \A c \in attempts' : c \in attempts \/ (AttemptIsTyped(c)' /\ c.tx.pc = "idle")
    BY FailsGoesOn
  <1>2. RequestIsTyped(request')
    BY DEF Inv, Typed, TypeOK, RequestIsTyped
  <1>. QED
    BY <1>1, <1>2, NobodyMoves

LEMMA LoseKeepsInv ==
  ASSUME Inv, NEW a \in attempts, Lose(a)
  PROVE  Inv'
  <1>1. UNCHANGED <<acquisitions, assets, request>>
    BY DEF Lose
  <1>2. PICK rest \in {{}, IF Late THEN {[a EXCEPT !.live = FALSE]} ELSE {}} : Fails(a, rest)
    BY DEF Lose
  <1>. DEFINE b == [a EXCEPT !.live = FALSE]
  <1>3. OpsGoOn /\ \A c \in attempts' : \/ c \in attempts \ {a} \/ c \in rest
                                        \/ AttemptIsTyped(c)' /\ c.tx.pc = "idle"
    BY <1>2, FailsGoesOn
  <1>4. AttemptIsTyped(a)' /\ Knows(a)
    BY <1>3, StaysTyped DEF Inv, FoundIsTrue
  <1>5. /\ b \in AttemptRow /\ b.op = a.op /\ b.batch = a.batch /\ b.todo = a.todo
        /\ b.subject = a.subject /\ b.tx = a.tx
    BY <1>4 DEF AttemptIsTyped, AttemptRow
  <1>6. \A c \in rest : c = b
    OBVIOUS
  <1>. HIDE DEF b
  <1>7. AttemptIsTyped(b)'
    BY <1>4, <1>5 DEF AttemptIsTyped
  <1>8. Knows(b)'
    BY <1>1, <1>4, <1>5 DEF Knows, Holds
  <1>9. \A w \in Works : HasRow(b, w) => HasRow(a, w)
    BY <1>5 DEF HasRow
  <1>. QED
    BY <1>1, <1>3, <1>6, <1>7, <1>8, <1>9, OneMoves

-----------------------------------------------------------------------------
(* Operations                                                              *)

LEMMA StartKeepsInv ==
  ASSUME Inv, NEW works \in SUBSET Works, NEW kind \in {"full_text", "parsing"}, Start(kind, works)
  PROVE  Inv'
  <1>. DEFINE new == [kind |-> kind, status |-> "RUNNING", stage |-> "PREPARE",
                      works |-> works, attempted |-> {}]
  <1>1. new \in Operation /\ ops' = Append(ops, new) /\ ops \in Seq(Operation)
    BY DEF Start, Operation, Inv, Typed, TypeOK
  <1>. HIDE DEF new
  <1>2. OpsGoOn
    BY <1>1 DEF OpsGoOn
  <1>3. UNCHANGED <<acquisitions, assets, attempts>> /\ RequestIsTyped(request')
    BY DEF Start, Inv, Typed, TypeOK, RequestIsTyped
  <1>. QED
    BY <1>2, <1>3, NobodyMoves

LEMMA BeginUploadKeepsInv ==
  ASSUME Inv, NEW w \in Works, NEW c \in Contents, BeginUpload(w, c)
  PROVE  Inv'
  <1>1. UNCHANGED <<acquisitions, assets, attempts, ops>> /\ RequestIsTyped(request')
    BY DEF BeginUpload, RequestIsTyped
  <1>. QED
    BY <1>1, OpsStay, NobodyMoves

LEMMA PrepareBatchKeepsInv ==
  ASSUME Inv, PrepareBatch
  PROVE  Inv'
  <1>1. UNCHANGED <<acquisitions, assets>> /\ RequestIsTyped(request')
    BY DEF PrepareBatch, Inv, Typed, TypeOK, RequestIsTyped
  <1>2. OpsGoOn
    <2>1. ops # <<>>
      BY DEF PrepareBatch, Idle, Inv, Typed, TypeOK
    <2>. QED
      BY <2>1, EnterKeepsOps DEF PrepareBatch
  <1>3. CASE Pending = {}
    BY <1>1, <1>2, <1>3, NobodyMoves DEF PrepareBatch
  <1>4. CASE Pending # {}
    <2>1. PICK batch, o, new :
            /\ batch \in SUBSET Pending
            /\ o = Len(ops) /\ new = NewAttempt(o, 1, batch) /\ attempts' = attempts \cup {new}
      BY <1>4 DEF PrepareBatch
    <2>2. ops \in Seq(Operation) /\ assets \in [Works -> Seq(Asset)] /\ ops # <<>>
      BY DEF PrepareBatch, Idle, Inv, Typed, TypeOK
    <2>3. o \in DOMAIN ops /\ Op \in Operation /\ Op = ops[o]
      BY <2>1, <2>2 DEF Op
    <2>4. Op.works \in SUBSET Works
      BY <2>3 DEF Operation
    <2>5. batch \in SUBSET Items
      <3>1. \A w \in Works : Len(assets[w]) \in Nat
        BY <2>2
      <3>. QED
        BY <2>1, <2>4, <3>1 DEF Pending, Items
    <2>6. Op.kind = "full_text" => batch \subseteq Works \X {0}
      BY <2>1, <2>4 DEF Pending
    <2>7. ops'[o].kind = Op.kind /\ o \in DOMAIN ops' /\ ops' \in Seq(Operation)
      BY <1>2, <2>3 DEF OpsGoOn
    <2>8. AttemptIsTyped(NewAttempt(o, 1, batch))' /\ NewAttempt(o, 1, batch).tx.pc = "idle"
      <3>1. ops'[o].kind = "full_text" => batch \subseteq Works \X {0}
        BY <2>6, <2>7
      <3>. QED
        BY <2>5, <2>7, <3>1, NewIsTyped
    <2>9. AttemptIsTyped(new)' /\ new.tx.pc = "idle"
      BY <2>1, <2>8
    <2>. QED
      BY <1>1, <1>2, <2>1, <2>9, NobodyMoves
  <1>. QED
    BY <1>3, <1>4

LEMMA FinishKeepsInv ==
  ASSUME Inv, Finish
  PROVE  Inv'
  <1>. DEFINE new == [ops[Len(ops)] EXCEPT !.stage = "ENDED",
                        !.status = IF Op.stage = "FINISH" THEN "COMPLETED" ELSE "PARTIAL"]
  <1>1. ops \in Seq(Operation) /\ ops # <<>>
    BY DEF Finish, Idle, Inv, Typed, TypeOK
  <1>2. Len(ops) \in DOMAIN ops /\ ops[Len(ops)] \in Operation
    BY <1>1
  <1>3. new \in Operation /\ new.kind = ops[Len(ops)].kind
    BY <1>2 DEF Operation
  <1>4. ops' = [ops EXCEPT ![Len(ops)] = new]
    BY DEF Finish
  <1>. HIDE DEF new
  <1>5. OpsGoOn
    BY <1>1, <1>2, <1>3, <1>4, OpReplaced
  <1>6. UNCHANGED <<acquisitions, assets, attempts>> /\ RequestIsTyped(request')
    BY DEF Finish, Inv, Typed, TypeOK, RequestIsTyped
  <1>. QED
    BY <1>5, <1>6, NobodyMoves

\* Attempts that end, and an upload that the database aborts.
LEMMA EndsKeepInv ==
  ASSUME Inv, NEW a \in attempts, Answer(a) \/ LateEnds(a) \/ AbortUpload(a)
  PROVE  Inv'
  <1>1. OpsGoOn
    BY AttemptHasOp, EnterKeepsOps, OpsStay DEF Answer, LateEnds, AbortUpload
  <1>2. UNCHANGED <<acquisitions, assets>> /\ attempts' \subseteq attempts
    BY DEF Answer, LateEnds, AbortUpload
  <1>3. RequestIsTyped(request')
    BY DEF Answer, LateEnds, AbortUpload, Inv, Typed, TypeOK, RequestIsTyped
  <1>. QED
    BY <1>1, <1>2, <1>3, NobodyMoves

-----------------------------------------------------------------------------
(* Acquisitions                                                            *)

\* The work a transaction is at.
LEMMA BusyAtWork ==
  ASSUME Inv, NEW a \in attempts, a.tx.pc # "idle"
  PROVE  /\ WorkOf(a) \in Works /\ a.subject = {<<WorkOf(a), 0>>}
         /\ \A w \in Works : a.subject = {<<w, 0>>} => w = WorkOf(a)
  <1>1. PICK w \in Works : a.subject = {<<w, 0>>}
    BY DEF Inv, Typed, AttemptIsTyped
  <1>2. WorkOf(a) = w
    BY <1>1, WorkOfSubject
  <1>. QED
    BY <1>1, <1>2, WorkOfSubject

LEMMA TakeWorkKeepsInv ==
  ASSUME Inv, NEW a \in attempts, NEW item \in a.todo, TakeWork(a, item)
  PROVE  Inv'
  <1>1. AttemptIsTyped(a) /\ UNCHANGED <<acquisitions, assets, ops, request>>
    BY DEF Inv, Typed, TakeWork
  <1>2. PICK w \in Works : item = <<w, 0>>
    BY <1>1 DEF TakeWork, AttemptIsTyped
  <1>3. PICK b, tx : /\ tx \in Transaction /\ tx.pc = "read"
                     /\ b = [a EXCEPT !.subject = {item}, !.tx = tx]
                     /\ attempts' = (attempts \ {a}) \cup {b}
    <2>. DEFINE tx == [NoTransaction EXCEPT !.pc = "read", !.inserts = acquisitions[item[1]] = "NOT_REQUESTED"]
    <2>1. tx \in Transaction /\ tx.pc = "read"
      BY DEF Transaction, NoTransaction
    <2>2. attempts' = (attempts \ {a}) \cup {[a EXCEPT !.subject = {item}, !.tx = tx]}
      BY DEF TakeWork, Replace
    <2>. HIDE DEF tx
    <2>. QED
      BY <2>1, <2>2
  <1>4. item \in Items
    BY <1>2 DEF Items
  <1>5. /\ b \in AttemptRow /\ b.op = a.op /\ b.batch = a.batch /\ b.todo = a.todo
        /\ b.subject = {<<w, 0>>} /\ b.tx = tx
    BY <1>1, <1>2, <1>3, <1>4 DEF AttemptIsTyped, AttemptRow
  <1>6. AttemptIsTyped(b)'
    BY <1>1, <1>5 DEF AttemptIsTyped
  <1>7. Knows(b)' /\ \A v \in Works : ~HasRow(b, v)
    BY <1>3, <1>5 DEF Knows, HasRow
  <1>. QED
    BY <1>1, <1>3, <1>6, <1>7, OpsStay, OneMoves

\* A transaction goes on at its work.
LEMMA MovesKeepsInv ==
  ASSUME Inv, NEW a \in attempts, a.tx.pc # "idle", NEW tx \in Transaction, Move(a, tx),
         UNCHANGED <<acquisitions, assets, ops, request>>,
         HasRow(a, WorkOf(a)) \/ ~RowIsHeld(WorkOf(a)),
         \/ tx.pc # "settling"
         \/ tx.found = {} /\ ~tx.new
         \/ \E c \in Contents : tx.found = {c} /\ (tx.new <=> ~Holds(WorkOf(a), c))
  PROVE  Inv'
  <1>1. AttemptIsTyped(a)
    BY DEF Inv, Typed
  <1>2. PICK b : b = [a EXCEPT !.tx = tx] /\ attempts' = (attempts \ {a}) \cup {b}
    BY DEF Move, Replace
  <1>3. /\ b \in AttemptRow /\ b.op = a.op /\ b.batch = a.batch /\ b.todo = a.todo
        /\ b.subject = a.subject /\ b.tx = tx
    BY <1>1, <1>2 DEF AttemptIsTyped, AttemptRow
  <1>4. AttemptIsTyped(b)'
    BY <1>1, <1>3 DEF AttemptIsTyped
  <1>5. \A w \in Works : b.subject = {<<w, 0>>} => w = WorkOf(a)
    BY <1>3, BusyAtWork
  <1>6. Knows(b)
    BY <1>3, <1>5 DEF Knows
  <1>7. Knows(b)'
    BY <1>6 DEF Knows, Holds
  <1>8. \A w \in Works : HasRow(b, w) => HasRow(a, w) \/ ~RowIsHeld(w)
    BY <1>5 DEF HasRow
  <1>. QED
    BY <1>2, <1>4, <1>7, <1>8, OpsStay, OneMoves

LEMMA SearchKeepsInv ==
  ASSUME Inv, NEW a \in attempts, Search(a)
  PROVE  Inv'
  <1>1. a.tx \in Transaction
    BY DEF Inv, Typed, AttemptIsTyped, AttemptRow
  <1>2. PICK tx \in Transaction : Move(a, tx) /\ tx.pc = "searching"
    <2>1. CASE a.tx.inserts
      <3>. DEFINE tx == [a.tx EXCEPT !.pc = "searching", !.shares = TRUE]
      <3>1. tx \in Transaction /\ tx.pc = "searching"
        BY <1>1 DEF Transaction
      <3>2. Move(a, tx)
        BY <2>1 DEF Search
      <3>. HIDE DEF tx
      <3>. QED
        BY <3>1, <3>2
    <2>2. CASE ~a.tx.inserts
      <3>. DEFINE tx == [a.tx EXCEPT !.pc = "searching"]
      <3>1. tx \in Transaction /\ tx.pc = "searching"
        BY <1>1 DEF Transaction
      <3>2. Move(a, tx)
        BY <2>2 DEF Search
      <3>. HIDE DEF tx
      <3>. QED
        BY <3>1, <3>2
    <2>. QED
      BY <2>1, <2>2
  <1>3. UNCHANGED <<acquisitions, assets, ops, request>> /\ a.tx.pc # "idle" /\ ~RowIsHeld(WorkOf(a))
    BY DEF Search
  <1>4. tx.pc # "settling"
    BY <1>2
  <1>. QED
    BY <1>2, <1>3, <1>4, MovesKeepsInv

LEMMA DownloadKeepsInv ==
  ASSUME Inv, NEW a \in attempts, Download(a)
  PROVE  Inv'
  <1>1. a.tx \in Transaction
    BY DEF Inv, Typed, AttemptIsTyped, AttemptRow
  <1>2. UNCHANGED <<acquisitions, assets, ops, request>> /\ a.tx.pc = "searching"
    BY DEF Download
  <1>3. WorkOf(a) \in Works /\ HasRow(a, WorkOf(a))
    BY <1>2, BusyAtWork DEF HasRow
  <1>4. PICK found, new : /\ found \in {{}} \cup {{c} : c \in IF WorkOf(a) \in Located THEN Online[WorkOf(a)] ELSE {}}
                          /\ new = (\E c \in found : ~Holds(WorkOf(a), c))
                          /\ Move(a, [a.tx EXCEPT !.pc = "settling", !.found = found, !.new = new,
                                                  !.shares = @ \/ new])
    BY DEF Download
  <1>5. Online[WorkOf(a)] \subseteq Contents
    BY <1>3, ContentsAssumption
  <1>6. found \in SUBSET Contents /\ new \in BOOLEAN
    BY <1>4, <1>5
  <1>7. \/ found = {} /\ ~new
        \/ \E c \in Contents : found = {c} /\ (new <=> ~Holds(WorkOf(a), c))
    BY <1>4, <1>5
  <1>8. PICK tx \in Transaction : tx.pc = "settling" /\ tx.found = found /\ tx.new = new /\ Move(a, tx)
    <2>. DEFINE tx == [a.tx EXCEPT !.pc = "settling", !.found = found, !.new = new, !.shares = @ \/ new]
    <2>1. tx \in Transaction /\ tx.pc = "settling" /\ tx.found = found /\ tx.new = new
      BY <1>1, <1>6 DEF Transaction
    <2>2. Move(a, tx)
      BY <1>4
    <2>. HIDE DEF tx
    <2>. QED
      BY <2>1, <2>2
  <1>. QED
    BY <1>2, <1>3, <1>7, <1>8, MovesKeepsInv

-----------------------------------------------------------------------------
(* Commits                                                                 *)

\* The rows of one work are written, with one more document at most, which is new.
LEMMA OneWorkWritten ==
  ASSUME Inv, NEW w \in Works, NEW rows, NEW status \in Outcomes,
         assets' = [assets EXCEPT ![w] = rows],
         acquisitions' = [acquisitions EXCEPT ![w] = status],
         \/ rows = assets[w]
         \/ \E c \in Contents : ~Holds(w, c) /\ rows = Stored(assets[w], c),
         status = "AVAILABLE" => rows # <<>>
  PROVE  /\ assets' \in [Works -> Seq(Asset)] /\ acquisitions' \in [Works -> Outcomes]
         /\ AvailableIsHeld' /\ OneAssetPerContent'
         /\ \A v \in Works \ {w} : \A c \in Contents : Holds(v, c)' <=> Holds(v, c)
  <1>1. assets \in [Works -> Seq(Asset)] /\ acquisitions \in [Works -> Outcomes]
    BY DEF Inv, Typed, TypeOK
  <1>2. rows \in Seq(Asset)
    BY <1>1, StoredIsHeld
  <1>3. /\ assets'[w] = rows /\ acquisitions'[w] = status
        /\ \A v \in Works \ {w} : assets'[v] = assets[v] /\ acquisitions'[v] = acquisitions[v]
    BY <1>1
  <1>4. assets' \in [Works -> Seq(Asset)] /\ acquisitions' \in [Works -> Outcomes]
    BY <1>1, <1>2
  <1>5. AvailableIsHeld'
    BY <1>3 DEF Inv, AvailableIsHeld
  <1>6. \A i, j \in DOMAIN rows : rows[i].content = rows[j].content => i = j
    <2>1. CASE rows = assets[w]
      BY <2>1 DEF Inv, OneAssetPerContent
    <2>2. ASSUME NEW c \in Contents, ~Holds(w, c), rows = Stored(assets[w], c)
          PROVE  \A i, j \in DOMAIN rows : rows[i].content = rows[j].content => i = j
      <3>1. assets[w] \in Seq(Asset)
        BY <1>1
      <3>. DEFINE n == Len(assets[w])
      <3>2. /\ n \in Nat /\ DOMAIN rows = 1..(n + 1) /\ rows[n + 1].content = c
            /\ \A i \in 1..n : rows[i] = assets[w][i]
        <4>1. PICK old \in Seq(Asset) : old = assets[w] /\ rows = Stored(old, c)
          BY <2>2, <3>1
        <4>2. /\ Len(rows) = Len(old) + 1 /\ rows[Len(old) + 1].content = c
              /\ \A i \in 1..Len(old) : rows[i] = old[i]
          BY <4>1, StoredIsHeld
        <4>3. Len(old) \in Nat /\ DOMAIN rows = 1..(Len(old) + 1)
          BY <1>2, <4>2
        <4>. QED
          BY <4>1, <4>2, <4>3
      <3>3. \A i \in 1..n : assets[w][i].content # c
        BY <2>2, <3>1 DEF Holds
      <3>4. \A i, j \in 1..n : assets[w][i].content = assets[w][j].content => i = j
        BY <3>1 DEF Inv, OneAssetPerContent
      <3>. HIDE DEF n
      <3>5. \A i \in DOMAIN rows : i \in 1..n \/ i = n + 1
        BY <3>2
      <3>. QED
        BY <3>2, <3>3, <3>4, <3>5
    <2>. QED
      BY <2>1, <2>2
  <1>7. OneAssetPerContent'
    BY <1>3, <1>6 DEF Inv, OneAssetPerContent
  <1>8. \A v \in Works \ {w} : \A c \in Contents : Holds(v, c)' <=> Holds(v, c)
    BY <1>3 DEF Holds
  <1>. QED
    BY <1>4, <1>5, <1>7, <1>8

\* The upload waited for the row of its work, so nobody has it.
LEMMA CommitUploadKeepsInv ==
  ASSUME Inv, CommitUpload
  PROVE  Inv'
  <1>1. PICK w, c : w = request.work /\ c = request.content
    OBVIOUS
  <1>2. w \in Works /\ c \in Contents
    <2>1. request # NoRequest
      BY DEF CommitUpload, NoRequest
    <2>2. request \in [open : {TRUE}, work : Works, content : Contents]
      BY <2>1 DEF Inv, Typed, TypeOK
    <2>. QED
      BY <1>1, <2>2
  <1>3. PICK rows : rows = IF Holds(w, c) THEN assets[w] ELSE Stored(assets[w], c)
    OBVIOUS
  <1>4. assets \in [Works -> Seq(Asset)] /\ acquisitions \in [Works -> Outcomes]
    BY DEF Inv, Typed, TypeOK
  <1>5. assets' = [assets EXCEPT ![w] = rows] /\ acquisitions' = [acquisitions EXCEPT ![w] = "AVAILABLE"]
    BY <1>1, <1>3 DEF CommitUpload
  <1>6. rows # <<>>
    <2>1. CASE Holds(w, c)
      BY <1>3, <2>1 DEF Holds
    <2>2. CASE ~Holds(w, c)
      BY <1>2, <1>3, <1>4, <2>2, StoredIsHeld
    <2>. QED
      BY <2>1, <2>2
  <1>7. "AVAILABLE" \in Outcomes
    BY DEF Outcomes, Settled
  <1>8. rows = assets[w] \/ \E x \in Contents : ~Holds(w, x) /\ rows = Stored(assets[w], x)
    BY <1>2, <1>3
  <1>9. /\ assets' \in [Works -> Seq(Asset)] /\ acquisitions' \in [Works -> Outcomes]
        /\ AvailableIsHeld' /\ OneAssetPerContent'
        /\ \A v \in Works \ {w} : \A x \in Contents : Holds(v, x)' <=> Holds(v, x)
    BY <1>2, <1>5, <1>6, <1>7, <1>8, OneWorkWritten
  <1>10. attempts' = attempts /\ ops' = ops /\ request' = NoRequest
    BY DEF CommitUpload
  <1>11. \A a \in attempts : ~HasRow(a, w)
    BY <1>1 DEF CommitUpload, RowIsHeld, HasRow
  <1>12. Undisturbed(attempts)
    BY <1>9, <1>11 DEF Undisturbed
  <1>13. OneHolder' /\ FoundIsTrue'
    BY <1>10, <1>12, NobodyTakes
  <1>14. OpsGoOn
    BY <1>10, OpsStay
  <1>15. TypeOK'
    BY <1>9, <1>10, <1>14 DEF TypeOK, OpsGoOn
  <1>16. \A a \in attempts' : AttemptIsTyped(a)'
    BY <1>10, <1>14, StaysTyped DEF Inv
  <1>. QED
    BY <1>9, <1>13, <1>15, <1>16 DEF Inv, Typed

\* The transaction has had the row since before it looked what is on file.
LEMMA CommitWorkKeepsInv ==
  ASSUME Inv, NEW a \in attempts, CommitWork(a)
  PROVE  Inv'
  <1>1. AttemptIsTyped(a) /\ a.tx.pc = "settling" /\ request' = request
    BY DEF Inv, Typed, CommitWork
  <1>2. PICK w \in Works : w = WorkOf(a) /\ a.subject = {<<w, 0>>}
    BY <1>1, BusyAtWork
  <1>3. HasRow(a, w)
    BY <1>1, <1>2 DEF HasRow
  <1>4. assets \in [Works -> Seq(Asset)] /\ ops \in Seq(Operation)
    BY DEF Inv, Typed, TypeOK
  <1>5. \/ a.tx.found = {} /\ ~a.tx.new
        \/ \E c \in Contents : a.tx.found = {c} /\ (a.tx.new <=> ~Holds(w, c))
    BY <1>1, <1>2 DEF Inv, FoundIsTrue, Knows
  <1>23. PICK stored : stored = CHOOSE c \in Contents : a.tx.found = {c}
    BY Zenon
  <1>6. PICK rows : rows = IF a.tx.new THEN Stored(assets[w], stored) ELSE assets[w]
    OBVIOUS
  <1>7. PICK status : status = Outcome(a)
    OBVIOUS
  <1>8. /\ assets' = [assets EXCEPT ![w] = rows] /\ acquisitions' = [acquisitions EXCEPT ![w] = status]
        /\ ops' = [ops EXCEPT ![a.op].attempted = @ \cup a.subject]
        /\ attempts' = (attempts \ {a}) \cup {[a EXCEPT !.todo = @ \ a.subject, !.subject = {}, !.tx = NoTransaction]}
    BY <1>2, <1>23, <1>6, <1>7 DEF CommitWork, Replace
  <1>9. \A c \in Contents : a.tx.found = {c} => stored = c
    BY <1>23
  <1>10. /\ rows = assets[w] \/ \E c \in Contents : ~Holds(w, c) /\ rows = Stored(assets[w], c)
         /\ a.tx.found # {} => rows # <<>>
    <2>1. CASE a.tx.found = {} /\ ~a.tx.new
      BY <1>6, <2>1
    <2>2. ASSUME NEW c \in Contents, a.tx.found = {c}, a.tx.new <=> ~Holds(w, c)
          PROVE  /\ rows = assets[w] \/ \E x \in Contents : ~Holds(w, x) /\ rows = Stored(assets[w], x)
                 /\ a.tx.found # {} => rows # <<>>
      <3>1. CASE Holds(w, c)
        BY <1>6, <2>2, <3>1 DEF Holds
      <3>2. CASE ~Holds(w, c)
        <4>1. rows = Stored(assets[w], c)
          BY <1>6, <1>9, <2>2, <3>2
        <4>2. rows # <<>>
          BY <1>4, <4>1, StoredIsHeld
        <4>. QED
          BY <3>2, <4>1, <4>2
      <3>. QED
        BY <3>1, <3>2
    <2>. QED
      BY <1>5, <2>1, <2>2
  <1>11. status \in Outcomes /\ (status = "AVAILABLE" => a.tx.found # {})
    BY <1>7 DEF Outcome, Outcomes, Settled
  <1>12. /\ assets' \in [Works -> Seq(Asset)] /\ acquisitions' \in [Works -> Outcomes]
         /\ AvailableIsHeld' /\ OneAssetPerContent'
         /\ \A v \in Works \ {w} : \A c \in Contents : Holds(v, c)' <=> Holds(v, c)
    BY <1>8, <1>10, <1>11, OneWorkWritten
  <1>13. \A d \in attempts \ {a} : ~HasRow(d, w)
    BY <1>3 DEF Inv, OneHolder
  <1>14. Undisturbed(attempts \ {a})
    BY <1>12, <1>13 DEF Undisturbed
  <1>15. OpsGoOn
    BY <1>1, <1>4, <1>8, AttemptedGoesOn DEF AttemptIsTyped, AttemptRow
  <1>16. PICK b : /\ b = [a EXCEPT !.todo = @ \ a.subject, !.subject = {}, !.tx = NoTransaction]
                  /\ attempts' = (attempts \ {a}) \cup {b}
    BY <1>8
  <1>17. /\ b \in AttemptRow /\ b.op = a.op /\ b.batch = a.batch /\ b.todo \subseteq a.todo
         /\ b.tx.pc = "idle"
    BY <1>1, <1>16 DEF AttemptIsTyped, AttemptRow, Transaction, NoTransaction
  <1>18. Knows(b)' /\ \A v \in Works : ~HasRow(b, v)
    BY <1>17 DEF Knows, HasRow
  <1>19. OneHolder' /\ FoundIsTrue'
    BY <1>14, <1>16, <1>18, OneReplaces
  <1>20. TypeOK'
    BY <1>1, <1>12, <1>15 DEF TypeOK, OpsGoOn, Inv, Typed
  <1>21. \A c \in attempts : AttemptIsTyped(c)'
    BY <1>15, StaysTyped DEF Inv
  <1>22. AttemptIsTyped(b)'
    BY <1>17, <1>21 DEF AttemptIsTyped
  <1>. QED
    BY <1>12, <1>16, <1>19, <1>20, <1>21, <1>22 DEF Inv, Typed

\* An asset that is read keeps its bytes, whether the parser can read them or not.
WithRead(rows, i) == [rows EXCEPT ![i] = Parsed(rows[i])]

LEMMA ReadKeepsContents ==
  ASSUME NEW rows \in Seq(Asset), NEW i
  PROVE  /\ WithRead(rows, i) \in Seq(Asset) /\ DOMAIN WithRead(rows, i) = DOMAIN rows
         /\ \A j \in DOMAIN rows : WithRead(rows, i)[j].content = rows[j].content
  <1>. DEFINE new == WithRead(rows, i)
  <1>1. ASSUME NEW asset \in Asset PROVE Parsed(asset) \in Asset /\ Parsed(asset).content = asset.content
    BY DEF Parsed, Asset
  <1>2. i \in DOMAIN rows => Parsed(rows[i]) \in Asset /\ Parsed(rows[i]).content = rows[i].content
    BY <1>1
  <1>3. DOMAIN new = DOMAIN rows /\ \A j \in DOMAIN rows : new[j] = IF j = i THEN Parsed(rows[i]) ELSE rows[j]
    BY DEF WithRead
  <1>. HIDE DEF new
  <1>4. new \in Seq(Asset)
    <2>1. CASE i \in DOMAIN rows
      BY <1>2, <2>1 DEF new, WithRead
    <2>2. CASE i \notin DOMAIN rows
      <3>1. new = rows
        BY <2>2 DEF new, WithRead
      <3>. QED
        BY <3>1
    <2>. QED
      BY <2>1, <2>2
  <1>5. ASSUME NEW j \in DOMAIN rows PROVE new[j].content = rows[j].content
    <2>1. CASE j = i
      BY <1>2, <1>3, <2>1
    <2>2. CASE j # i
      BY <1>3, <2>2
    <2>. QED
      BY <2>1, <2>2
  <1>. QED
    BY <1>3, <1>4, <1>5 DEF new

\* One transaction reads one asset.
LEMMA ReadAssetKeepsInv ==
  ASSUME Inv, NEW a \in attempts, NEW item \in a.todo, ReadAsset(a, item)
  PROVE  Inv'
  <1>1. AttemptIsTyped(a) /\ acquisitions' = acquisitions /\ request' = request /\ a.tx.pc = "idle"
    BY DEF Inv, Typed, ReadAsset, OperationIsHeld
  <1>2. item \in Items
    BY <1>1 DEF AttemptIsTyped, AttemptRow
  <1>3. PICK w \in Works, i \in Nat : item = <<w, i>>
    BY <1>2 DEF Items
  <1>4. assets \in [Works -> Seq(Asset)] /\ ops \in Seq(Operation)
    BY DEF Inv, Typed, TypeOK
  <1>5. PICK rows : /\ assets' = [assets EXCEPT ![w] = rows]
                    /\ rows = WithRead(assets[w], i)
    BY <1>3 DEF ReadAsset, WithRead
  <1>6. /\ rows \in Seq(Asset) /\ DOMAIN rows = DOMAIN assets[w]
        /\ \A j \in DOMAIN assets[w] : rows[j].content = assets[w][j].content
    <2>1. PICK old : old = assets[w] /\ old \in Seq(Asset)
      BY <1>4
    <2>2. rows = WithRead(old, i)
      BY <1>5, <2>1
    <2>3. /\ rows \in Seq(Asset) /\ DOMAIN rows = DOMAIN old
          /\ \A j \in DOMAIN old : rows[j].content = old[j].content
      BY <2>1, <2>2, ReadKeepsContents
    <2>. QED
      BY <2>1, <2>3
  <1>7. assets'[w] = rows /\ \A v \in Works \ {w} : assets'[v] = assets[v]
    BY <1>4, <1>5
  <1>8. assets' \in [Works -> Seq(Asset)]
    BY <1>4, <1>5, <1>6
  <1>9. SameContents
    BY <1>6, <1>7 DEF SameContents
  <1>10. /\ \A v \in Works : \A c \in Contents : Holds(v, c)' <=> Holds(v, c)
         /\ AvailableIsHeld' /\ OneAssetPerContent'
    BY <1>1, <1>8, <1>9, ContentsMatter DEF Inv
  <1>11. Undisturbed(attempts \ {a})
    BY <1>10 DEF Undisturbed
  <1>12. ops' = [ops EXCEPT ![a.op].attempted = @ \cup {item}]
    BY DEF ReadAsset
  <1>13. OpsGoOn
    <2>1. {item} \in SUBSET Items /\ a.op \in DOMAIN ops
      BY <1>1, <1>2 DEF AttemptIsTyped
    <2>. QED
      BY <1>4, <1>12, <2>1, AttemptedGoesOn
  <1>14. PICK b : b = [a EXCEPT !.todo = @ \ {item}] /\ attempts' = (attempts \ {a}) \cup {b}
    BY DEF ReadAsset, Replace
  <1>15. /\ b \in AttemptRow /\ b.op = a.op /\ b.batch = a.batch /\ b.todo \subseteq a.todo
         /\ b.tx = a.tx
    BY <1>1, <1>14 DEF AttemptIsTyped, AttemptRow
  <1>16. Knows(b)' /\ \A v \in Works : ~HasRow(b, v)
    BY <1>1, <1>15 DEF Knows, HasRow
  <1>17. OneHolder' /\ FoundIsTrue'
    BY <1>11, <1>14, <1>16, OneReplaces
  <1>18. TypeOK'
    BY <1>1, <1>8, <1>13 DEF TypeOK, OpsGoOn, Inv, Typed
  <1>19. \A c \in attempts : AttemptIsTyped(c)'
    BY <1>13, StaysTyped DEF Inv
  <1>20. AttemptIsTyped(b)'
    BY <1>1, <1>15, <1>19 DEF AttemptIsTyped
  <1>. QED
    BY <1>10, <1>14, <1>17, <1>18, <1>19, <1>20 DEF Inv, Typed

-----------------------------------------------------------------------------
(* The invariant                                                           *)

LEMMA InitHolds ==
  ASSUME Init
  PROVE  Inv
  <1>1. TypeOK
    BY DEF Init, TypeOK, Outcomes
  <1>2. attempts = {}
    BY DEF Init
  <1>3. AvailableIsHeld /\ OneAssetPerContent
    BY DEF Init, AvailableIsHeld, OneAssetPerContent
  <1>. QED
    BY <1>1, <1>2, <1>3 DEF Inv, Typed, OneHolder, FoundIsTrue

LEMMA WorkKeepsInv ==
  ASSUME Inv, NEW a \in attempts, Work(a)
  PROVE  Inv'
  <1>1. CASE \E item \in a.todo : TakeWork(a, item)
    BY <1>1, TakeWorkKeepsInv
  <1>2. CASE \E item \in a.todo : ReadAsset(a, item)
    BY <1>2, ReadAssetKeepsInv
  <1>3. CASE Search(a)
    BY <1>3, SearchKeepsInv
  <1>4. CASE Download(a)
    BY <1>4, DownloadKeepsInv
  <1>5. CASE CommitWork(a)
    BY <1>5, CommitWorkKeepsInv
  <1>6. CASE RowExists(a)
    BY <1>6, FailsKeepsInv DEF RowExists
  <1>7. CASE Answer(a) \/ LateEnds(a)
    BY <1>7, EndsKeepInv
  <1>. QED
    BY <1>1, <1>2, <1>3, <1>4, <1>5, <1>6, <1>7 DEF Work

LEMMA StepKeepsInv ==
  ASSUME Inv, [Next]_vars
  PROVE  Inv'
  <1>1. CASE Requests
    BY <1>1, StartKeepsInv, BeginUploadKeepsInv DEF Requests
  <1>2. CASE CommitUpload
    BY <1>2, CommitUploadKeepsInv
  <1>3. CASE PrepareBatch \/ Finish
    BY <1>3, PrepareBatchKeepsInv, FinishKeepsInv
  <1>4. ASSUME NEW a \in attempts, Work(a) PROVE Inv'
    BY <1>4, WorkKeepsInv
  <1>5. ASSUME NEW a \in attempts, AbortUpload(a) PROVE Inv'
    BY <1>5, EndsKeepInv
  <1>6. ASSUME NEW a \in attempts, AbortAcquisition(a) PROVE Inv'
    BY <1>6, FailsKeepsInv DEF AbortAcquisition
  <1>7. ASSUME NEW a \in attempts, Lose(a) PROVE Inv'
    BY <1>7, LoseKeepsInv
  <1>8. CASE UNCHANGED vars
    <2>1. OpsGoOn /\ RequestIsTyped(request') /\ UNCHANGED <<acquisitions, assets, attempts>>
      BY <1>8, OpsStay DEF vars, Inv, Typed, TypeOK, RequestIsTyped
    <2>. QED
      BY <2>1, NobodyMoves
  <1>. QED
    BY <1>1, <1>2, <1>3, <1>4, <1>5, <1>6, <1>7, <1>8 DEF Next, Workers, Database

LEMMA InvAlways == Spec => []Inv
  <1>1. Init => Inv
    BY InitHolds
  <1>2. Inv /\ [Next]_vars => Inv'
    BY StepKeepsInv
  <1>. QED
    BY <1>1, <1>2, PTL DEF Spec

-----------------------------------------------------------------------------
(* What is promised                                                        *)

\* The rows of acquisitions, assets and operations keep the enumerations of enums.py,
\* and an upload that holds the project is of a work and its bytes.
THEOREM TypeCorrect == Spec => []TypeOK
  <1>1. Inv => TypeOK
    BY DEF Inv, Typed
  <1>. QED
    BY <1>1, InvAlways, PTL

\* However uploads, acquisitions and their retries interleave, a work that the
\* database calls AVAILABLE has a document (acquire_full_text_batch, upload_full_text).
THEOREM AvailableMeansHeld == Spec => []AvailableIsHeld
  <1>1. Inv => AvailableIsHeld
    BY DEF Inv
  <1>. QED
    BY <1>1, InvAlways, PTL

\* The row of the acquisition keeps an upload and every other acquisition of the work
\* out between the look whether the bytes are on file and the insert, so that no insert
\* meets the unique constraint (FullTextAcquisitionService._store_asset).
THEOREM BytesAreStoredOnce == Spec => []OneAssetPerContent
  <1>1. Inv => OneAssetPerContent
    BY DEF Inv
  <1>. QED
    BY <1>1, InvAlways, PTL

=============================================================================

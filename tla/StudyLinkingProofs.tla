-------------------------- MODULE StudyLinkingProofs --------------------------
(***************************************************************************)
(* Proofs about StudyLinking for any number of reports, signals, builds,   *)
(* retries and human decisions, also those between two reads of a pass.    *)
(* What the pass sees is sound, committed or not, up to the reports that   *)
(* a human moved under it: each operation on the tables (CreateStudy,      *)
(* Merge, and those of a human) takes sound tables to sound tables.        *)
(***************************************************************************)
EXTENDS StudyLinking, TLAPS

Study == [status : Statuses, supersededBy : Nat]

\* The rows of study_works refer to studies; a report that was not built has no
\* study and no LINK decision.
Referential(d) ==
  /\ d.links \subseteq (DOMAIN d.study) \X Works
  /\ \A w \in Works : d.founded[w] = 0 => d.linked[w] = 0 /\ StudiesOf(d, w) = {}

Sound(d, others) ==
  d \in Tables /\ Referential(d) /\ OneStudyEach(d, others) /\ Explained(d)

-----------------------------------------------------------------------------
\* The parts of tables, and their types.
LEMMA StudyPart ==
  ASSUME NEW d, d \in Tables
  PROVE  /\ d.study \in Seq(Study) /\ Len(d.study) \in Nat
         /\ DOMAIN d.study = 1..Len(d.study)
         /\ \A s \in DOMAIN d.study : d.study[s] \in Study
<1>1. d.study \in Seq(Study)
  BY DEF Tables, Study
<1> QED
  BY <1>1

LEMMA OtherParts ==
  ASSUME NEW d, d \in Tables
  PROVE  /\ d.links \subseteq (Nat \ {0}) \X Works
         /\ d.founded \in [Works -> Nat] /\ d.linked \in [Works -> Nat]
BY DEF Tables

\* Giving a study to a report that has none keeps the tables sound.
LEMMA CreateStudySound ==
  ASSUME NEW d, NEW R, Sound(d, R), NEW w \in Works, StudiesOf(d, w) = {}
  PROVE  /\ Sound(CreateStudy(d, w), R)
         /\ DOMAIN d.study \subseteq DOMAIN CreateStudy(d, w).study
         /\ d.links \subseteq CreateStudy(d, w).links
         /\ \A x \in Works : d.founded[x] # 0 => CreateStudy(d, w).founded[x] # 0
<1> DEFINE n == Len(d.study) + 1
           new == [status |-> "CANDIDATE", supersededBy |-> 0]
           study == Append(d.study, new)
           links == d.links \cup {<<n, w>>}
           founded == [d.founded EXCEPT ![w] = n]
           e == CreateStudy(d, w)
<1>0. d \in Tables
  BY DEF Sound
<1>1. /\ d.study \in Seq(Study) /\ n \in Nat \ {0} /\ DOMAIN d.study = 1..(n - 1)
      /\ d.founded \in [Works -> Nat] /\ d.linked \in [Works -> Nat]
  BY <1>0, StudyPart, OtherParts
<1>2. d.links \subseteq (DOMAIN d.study) \X Works
  BY DEF Sound, Referential
<1>3. new \in Study
  BY DEF Statuses, Study
<1>4. e = [d EXCEPT !.study = study, !.links = links, !.founded = founded]
  BY DEF CreateStudy
<1> HIDE DEF e, new
<1>5. study \in Seq(Study) /\ DOMAIN study = 1..n
  BY <1>1, <1>3
<1> HIDE DEF study
<1>6. links \subseteq (1..n) \X Works
  BY <1>1, <1>2
<1>7. \A x \in Works, s \in Nat : <<s, x>> \in links <=> <<s, x>> \in d.links \/ (s = n /\ x = w)
  OBVIOUS
<1>8. \A x \in Works : <<n, x>> \notin d.links
  BY <1>1, <1>2
<1>9. d.links \subseteq links
  OBVIOUS
<1> HIDE DEF links, n
<1>10. founded \in [Works -> Nat] /\ founded[w] = n /\ \A x \in Works \ {w} : founded[x] = d.founded[x]
  BY <1>1
<1> HIDE DEF founded
<1>11. /\ e.study = study /\ e.links = links /\ e.founded = founded
       /\ e.linked = d.linked
  BY <1>0, <1>4 DEF Tables
<1>12. e \in Tables
  <2>1. links \in SUBSET ((Nat \ {0}) \X Works)
    BY <1>1, <1>6
  <2> QED
    BY <1>0, <1>4, <1>5, <1>10, <2>1 DEF Tables, Study
<1>13. \A x \in Works \ {w} : StudiesOf(e, x) = StudiesOf(d, x)
  BY <1>1, <1>5, <1>7, <1>8, <1>11 DEF StudiesOf
<1>14. StudiesOf(e, w) = {n}
  <2>1. \A s \in DOMAIN d.study : <<s, w>> \notin d.links
    BY DEF StudiesOf
  <2> QED
    BY <1>1, <1>5, <1>7, <1>11, <2>1 DEF StudiesOf
<1>15. d.founded[w] = 0 /\ d.linked[w] = 0
  BY DEF Sound, Explained, Referential
<1>16. Named(e, w) = n /\ \A x \in Works \ {w} : Named(e, x) = Named(d, x)
  BY <1>10, <1>11, <1>15 DEF Named
<1>17. Referential(e)
  BY <1>1, <1>5, <1>6, <1>10, <1>11, <1>13 DEF Sound, Referential
<1>18. OneStudyEach(e, R)
  BY <1>13, <1>14, <1>16 DEF Sound, OneStudyEach
<1>19. Explained(e)
  BY <1>10, <1>11, <1>13, <1>14, <1>16 DEF Sound, Explained
<1>20. /\ DOMAIN d.study \subseteq DOMAIN e.study /\ d.links \subseteq e.links
       /\ \A x \in Works : d.founded[x] # 0 => e.founded[x] # 0
  BY <1>1, <1>5, <1>9, <1>10, <1>11
<1> QED
  BY <1>12, <1>17, <1>18, <1>19, <1>20 DEF Sound, e

\* What moving a report does to the rows of study_works.
LEMMA MoveFacts ==
  ASSUME NEW links, NEW w, NEW from, NEW to, NEW s, NEW x
  PROVE  <<s, x>> \in Move(links, w, from, to) <=>
           \/ <<s, x>> \in links /\ ~(s = from /\ x = w)
           \/ s = to /\ x = w
BY DEF Move

\* Tables that differ from sound ones by the move of a built report, statuses and
\* the decision that explains the move are sound, if the report was where it was
\* moved from, or is one of those a human moved under a pass.
LEMMA MovedSound ==
  ASSUME NEW d, NEW R, Sound(d, R), NEW w \in Works, d.founded[w] # 0,
         NEW from, <<from, w>> \in d.links \/ w \in R,
         NEW to \in DOMAIN d.study,
         NEW e, e \in Tables, DOMAIN e.study = DOMAIN d.study,
         e.links = Move(d.links, w, from, to), e.founded = d.founded,
         e.linked = [d.linked EXCEPT ![w] = to]
  PROVE  Sound(e, R)
<1>1. /\ d \in Tables /\ DOMAIN d.study \subseteq Nat \ {0}
      /\ d.founded \in [Works -> Nat] /\ d.linked \in [Works -> Nat]
  BY StudyPart, OtherParts DEF Sound
<1>2. \A x \in Works \ {w} : StudiesOf(e, x) = StudiesOf(d, x)
  BY MoveFacts DEF StudiesOf
<1>3. Named(e, w) = to /\ \A x \in Works \ {w} : Named(e, x) = Named(d, x)
  BY <1>1 DEF Named
<1>4. to \in StudiesOf(e, w)
  BY MoveFacts DEF StudiesOf
<1>5. w \notin R => StudiesOf(e, w) = {to}
  <2> SUFFICES ASSUME w \notin R, NEW s \in StudiesOf(e, w) PROVE s = to
    BY <1>4
  <2>1. d.links \subseteq (DOMAIN d.study) \X Works /\ from \in StudiesOf(d, w)
    BY DEF Sound, Referential, StudiesOf
  <2>2. from = Named(d, w) /\ \A t \in StudiesOf(d, w) : t = from
    BY <2>1 DEF Sound, OneStudyEach
  <2> QED
    BY <2>2, MoveFacts DEF StudiesOf
<1>6. Referential(e)
  <2>1. e.links \subseteq (DOMAIN e.study) \X Works
    BY DEF Sound, Referential, Move
  <2> QED
    BY <1>1, <1>2, <2>1 DEF Sound, Referential
<1>7. OneStudyEach(e, R)
  BY <1>2, <1>3, <1>5 DEF Sound, OneStudyEach
<1>8. Explained(e)
  BY <1>2, <1>3, <1>4 DEF Sound, Explained
<1> QED
  BY <1>6, <1>7, <1>8 DEF Sound

\* Superseding a study and changing the status of one keep the rows' types.
LEMMA SupersededFacts ==
  ASSUME NEW study \in Seq(Study), NEW s \in DOMAIN study, NEW by \in Nat
  PROVE  /\ Superseded(study, s, by) \in Seq(Study)
         /\ DOMAIN Superseded(study, s, by) = DOMAIN study
<1>1. [status |-> "MERGED", supersededBy |-> by] \in Study
  BY DEF Study, Statuses
<1> QED
  BY <1>1 DEF Superseded

LEMMA StatusFacts ==
  ASSUME NEW study \in Seq(Study), NEW s \in DOMAIN study, NEW status \in Statuses
  PROVE  /\ WithStatus(study, s, status) \in Seq(Study)
         /\ DOMAIN WithStatus(study, s, status) = DOMAIN study
<1>1. study[s] \in Study
  OBVIOUS
<1>2. [study[s] EXCEPT !.status = status] \in Study
  BY <1>1 DEF Study
<1> QED
  BY <1>2 DEF WithStatus

\* _merge keeps the tables sound, on a current reading of the report's study and,
\* for a report that a human moved meanwhile, on a stale one.
LEMMA MergeSound ==
  ASSUME NEW d, NEW R, Sound(d, R), NEW r \in Works, d.founded[r] # 0,
         NEW keep \in DOMAIN d.study, NEW absorbed \in DOMAIN d.study,
         <<absorbed, r>> \in d.links \/ r \in R
  PROVE  Sound(Merge(d, keep, absorbed, r), R)
<1> DEFINE study == Superseded(d.study, absorbed, keep)
           links == Move(d.links, r, absorbed, keep)
           linked == [d.linked EXCEPT ![r] = keep]
           e == Merge(d, keep, absorbed, r)
<1>0. d \in Tables
  BY DEF Sound
<1>1. /\ d.study \in Seq(Study) /\ keep \in Nat \ {0}
      /\ d.linked \in [Works -> Nat] /\ d.links \subseteq (Nat \ {0}) \X Works
  BY <1>0, StudyPart, OtherParts
<1>2. study \in Seq(Study) /\ DOMAIN study = DOMAIN d.study
  BY <1>1, SupersededFacts
<1>3. links \in SUBSET ((Nat \ {0}) \X Works)
  BY <1>1 DEF Move
<1>4. linked \in [Works -> Nat]
  BY <1>1
<1>5. e = [d EXCEPT !.links = links, !.study = study, !.linked = linked]
  BY DEF Merge
<1> HIDE DEF e, study, links, linked
<1>6. e \in Tables
  BY <1>0, <1>2, <1>3, <1>4, <1>5 DEF Tables, Study
<1>7. e.study = study /\ e.links = links /\ e.linked = linked /\ e.founded = d.founded
  BY <1>0, <1>5 DEF Tables
<1>8. /\ DOMAIN e.study = DOMAIN d.study /\ e.links = Move(d.links, r, absorbed, keep)
      /\ e.linked = [d.linked EXCEPT ![r] = keep]
  BY <1>2, <1>7 DEF links, linked
<1>9. Sound(e, R)
  BY <1>6, <1>7, <1>8, MovedSound
<1> QED
  BY <1>9 DEF e

\* Tables that differ from sound ones by a status are sound.
LEMMA StatusSound ==
  ASSUME NEW d, NEW R, Sound(d, R), NEW s \in DOMAIN d.study, NEW status \in Statuses
  PROVE  Sound([d EXCEPT !.study = WithStatus(@, s, status)], R)
<1> DEFINE study == WithStatus(d.study, s, status)
           e == [d EXCEPT !.study = study]
<1>1. d \in Tables /\ d.study \in Seq(Study)
  BY StudyPart DEF Sound
<1>2. study \in Seq(Study) /\ DOMAIN study = DOMAIN d.study
  BY <1>1, StatusFacts
<1> HIDE DEF study
<1>3. /\ e \in Tables /\ e.study = study /\ e.links = d.links
      /\ e.founded = d.founded /\ e.linked = d.linked
  BY <1>1, <1>2 DEF Tables, Study
<1> HIDE DEF e
<1>4. \A x \in Works : StudiesOf(e, x) = StudiesOf(d, x) /\ Named(e, x) = Named(d, x)
  BY <1>2, <1>3 DEF StudiesOf, Named
<1>5. Sound(e, R)
  BY <1>2, <1>3, <1>4 DEF Sound, Referential, OneStudyEach, Explained
<1> QED
  BY <1>5 DEF e, study

\* Tables that are sound up to some reports are sound up to more.
LEMMA SoundGrows ==
  ASSUME NEW d, NEW R, NEW S, R \subseteq S, Sound(d, R)
  PROVE  Sound(d, S)
BY DEF Sound, OneStudyEach

-----------------------------------------------------------------------------
\* What the pass has read: the left study of its pair exists, and so does the right
\* one; the report is still in that one, unless a human moved it meanwhile.
Reading ==
  /\ pass.at # NoPair => pass.left \in DOMAIN Seen.study
  /\ pass.right # 0 => /\ pass.at # NoPair /\ pass.right \in DOMAIN Seen.study
                       /\ Seen.founded[pass.at[2]] # 0
                       /\ <<pass.right, pass.at[2]>> \in Seen.links \/ pass.at[2] \in raced

\* The inductive invariant: the committed tables are sound, and so is what an open
\* transaction sees.
Inv == TypeOK /\ Sound(db, raced) /\ Sound(Seen, raced) /\ Reading

LEMMA InitInv == Init => Inv
<1> SUFFICES ASSUME Init PROVE Inv
  OBVIOUS
<1>1. db = NoTables /\ Seen = db /\ raced = {} /\ pass = NoPass
  BY DEF Init, Seen, NoPass
<1>2. <<>> \in Seq(Study) /\ DOMAIN <<>> = {}
  OBVIOUS
<1>3. NoTables \in Tables
  BY <1>2 DEF NoTables, Tables, Study
<1>4. Sound(db, raced)
  BY <1>1, <1>2, <1>3
  DEF NoTables, Sound, Referential, OneStudyEach, Explained, Named, StudiesOf
<1>5. NoPass \in Pass
  BY <1>3 DEF NoPass, Pass
<1>6. TypeOK
  BY <1>1, <1>3, <1>5, BoundsAssumption DEF Init, TypeOK
<1>7. Reading
  BY <1>1 DEF Reading, NoPass
<1> QED
  BY <1>1, <1>4, <1>6, <1>7 DEF Inv

\* The parts of the open transaction, and their types.
LEMMA PassParts ==
  ASSUME pass \in Pass
  PROVE  /\ pass.phase \in {"none", "create", "link", "judge"} /\ pass.locked \in BOOLEAN
         /\ pass.d \in Tables /\ pass.todo \subseteq Works \X Works
         /\ pass.pairs \subseteq Works \X Works /\ pass.at \in (Works \X Works) \cup {NoPair}
         /\ pass.left \in Nat /\ pass.right \in Nat
BY DEF Pass

\* The pass with its pair behind it has read nothing.
LEMMA PastFacts ==
  ASSUME pass \in Pass
  PROVE  /\ Past \in Pass /\ Past.at = NoPair /\ Past.right = 0
         /\ Past.locked = pass.locked /\ Past.d = pass.d /\ Past.pairs = pass.pairs
BY DEF Pass, Past

\* A step of the transaction that only reads.
LEMMA ReadStep ==
  ASSUME Inv, UNCHANGED <<db, op, raced, builds, decisions, faults>>,
         pass' \in Pass, pass'.locked = pass.locked, pass'.d = pass.d, Reading'
  PROVE  Inv'
<1>1. Seen' = Seen /\ Sound(Seen, raced) /\ Sound(db, raced) /\ TypeOK
  BY DEF Inv, Seen
<1>2. Sound(db', raced') /\ Sound(Seen', raced')
  BY <1>1
<1>3. TypeOK'
  BY <1>1 DEF TypeOK
<1> QED
  BY <1>2, <1>3 DEF Inv

\* A step of the transaction that writes, and has read nothing it still needs.
LEMMA WriteStep ==
  ASSUME Inv, UNCHANGED <<db, op, raced, builds, decisions, faults>>,
         NEW d, NEW done \in Pass, Writes(d, done), Sound(d, raced), Reading'
  PROVE  Inv'
<1>1. Sound(db, raced) /\ TypeOK /\ d \in Tables
  BY DEF Inv, Sound
<1>2. pass' \in Pass /\ Seen' = d
  BY <1>1 DEF Writes, Pass, Seen
<1>3. Sound(db', raced') /\ Sound(Seen', raced')
  BY <1>1, <1>2
<1>4. TypeOK'
  BY <1>1, <1>2 DEF TypeOK
<1> QED
  BY <1>3, <1>4 DEF Inv

\* A step that closes the transaction, whether it published its tables or not.
LEMMA CloseStep ==
  ASSUME Inv, UNCHANGED <<raced, builds, decisions>>, pass' = NoPass, faults' \in 0..MaxFaults,
         op' \in {NoOp} \cup [state : {"pending", "linked"}, works : Corpora],
         Sound(db', raced)
  PROVE  Inv'
<1>1. Seen' = db' /\ NoPass \in Pass
  <2>1. <<>> \in Seq(Study)
    OBVIOUS
  <2>2. NoTables \in Tables
    BY <2>1 DEF NoTables, Tables, Study
  <2> QED
    BY <2>2 DEF Seen, NoPass, Pass
<1>2. Sound(db', raced') /\ Sound(Seen', raced') /\ db' \in Tables
  BY <1>1 DEF Sound
<1>3. Reading'
  BY DEF Reading, NoPass
<1>4. TypeOK'
  BY <1>1, <1>2 DEF Inv, TypeOK
<1> QED
  BY <1>2, <1>3, <1>4 DEF Inv

\* A human decision that leaves the tables sound, drops no study and moves the
\* report a pass has read only if that is remembered.
LEMMA DecisionStep ==
  ASSUME Inv, Decides, raced' \subseteq Works, raced \subseteq raced', Sound(db', raced'),
         DOMAIN db'.study = DOMAIN db.study, db'.founded = db.founded,
         pass.right # 0 => \/ pass.at[2] \in raced'
                           \/ /\ <<pass.right, pass.at[2]>> \in db.links
                              => <<pass.right, pass.at[2]>> \in db'.links
  PROVE  Inv'
<1>1. ~pass.locked /\ pass' = pass /\ TypeOK /\ Reading
  BY DEF Decides, Inv
<1>2. Seen = db /\ Seen' = db'
  BY <1>1 DEF Seen
<1>3. TypeOK'
  BY <1>1, BoundsAssumption DEF TypeOK, Decides, Sound
<1>4. Reading'
  BY <1>1, <1>2 DEF Reading
<1> QED
  BY <1>2, <1>3, <1>4 DEF Inv

\* A status set by a human.
LEMMA HumanStatus ==
  ASSUME Inv, Decides, UNCHANGED raced, NEW w \in Works, NEW s \in StudiesOf(db, w),
         NEW status \in Statuses, db' = [db EXCEPT !.study = WithStatus(@, s, status)]
  PROVE  Inv'
<1>1. db \in Tables /\ Sound(db, raced) /\ raced' \subseteq Works /\ s \in DOMAIN db.study
  BY DEF Inv, TypeOK, StudiesOf
<1>2. Sound(db', raced')
  BY <1>1, StatusSound
<1>3. DOMAIN WithStatus(db.study, s, status) = DOMAIN db.study
  BY DEF WithStatus
<1>4. DOMAIN db'.study = DOMAIN db.study /\ db'.founded = db.founded /\ db'.links = db.links
  BY <1>1, <1>3 DEF Tables
<1> QED
  BY <1>1, <1>2, <1>4, DecisionStep

\* No step of link_studies, of its retries or of a human makes the tables unsound.
THEOREM StepInv == Inv /\ [Next]_vars => Inv'
<1> SUFFICES ASSUME Inv, [Next]_vars PROVE Inv'
  OBVIOUS
<1>0. /\ pass \in Pass /\ db \in Tables /\ Sound(db, raced) /\ Sound(Seen, raced) /\ Reading
      /\ raced \subseteq Works
  BY DEF Inv, TypeOK
<1>1. CASE PassBegins
  <2>1. pass' \in Pass /\ pass'.locked = pass.locked /\ pass'.d = pass.d
        /\ pass'.at = pass.at /\ pass'.left = pass.left /\ pass'.right = pass.right
    BY <1>0, <1>1 DEF PassBegins, Pass
  <2>2. Seen' = Seen /\ raced' = raced
    BY <1>1, <2>1 DEF Seen, PassBegins
  <2>3. Reading'
    BY <1>0, <2>1, <2>2 DEF Reading
  <2> QED
    BY <1>1, <2>1, <2>3, ReadStep DEF PassBegins
<1>2. CASE PassTurnsToSignals
  <2>1. SignalsIn(Registered \cup Strong \cup Weak) \in SUBSET (Works \X Works)
    BY DEF SignalsIn
  <2>2. pass' \in Pass /\ pass'.locked = pass.locked /\ pass'.d = pass.d
        /\ pass'.at = pass.at /\ pass'.left = pass.left /\ pass'.right = pass.right
    BY <1>0, <1>2, <2>1 DEF PassTurnsToSignals, Pass
  <2>3. Seen' = Seen /\ raced' = raced
    BY <1>2, <2>2 DEF Seen, PassTurnsToSignals
  <2>4. Reading'
    BY <1>0, <2>2, <2>3 DEF Reading
  <2> QED
    BY <1>2, <2>2, <2>4, ReadStep DEF PassTurnsToSignals
<1>3. CASE PassTurnsToPairs
  <2>1. pass' \in Pass /\ pass'.locked = pass.locked /\ pass'.d = pass.d
        /\ pass'.at = pass.at /\ pass'.left = pass.left /\ pass'.right = pass.right
    BY <1>0, <1>3 DEF PassTurnsToPairs, Pass
  <2>2. Seen' = Seen /\ raced' = raced
    BY <1>3, <2>1 DEF Seen, PassTurnsToPairs
  <2>3. Reading'
    BY <1>0, <2>1, <2>2 DEF Reading
  <2> QED
    BY <1>3, <2>1, <2>3, ReadStep DEF PassTurnsToPairs
<1>4. CASE PassCommits
  <2>1. db' = Seen /\ Sound(db', raced)
    BY <1>0, <1>4 DEF PassCommits
  <2>2. op' \in {NoOp} \cup [state : {"pending", "linked"}, works : Corpora]
    BY <1>4 DEF PassCommits, Inv, TypeOK, NoOp
  <2>3. faults' \in 0..MaxFaults
    BY <1>4 DEF PassCommits, Inv, TypeOK
  <2> QED
    BY <1>4, <2>1, <2>2, <2>3, CloseStep DEF PassCommits
<1>5. CASE AttemptLost
  <2>1. op' \in {NoOp} \cup [state : {"pending", "linked"}, works : Corpora]
    BY <1>5 DEF AttemptLost, Inv, TypeOK, NoOp
  <2>2. faults' \in 0..MaxFaults
    BY <1>5, BoundsAssumption DEF AttemptLost, Inv, TypeOK
  <2>3. Sound(db', raced)
    BY <1>0, <1>5 DEF AttemptLost
  <2> QED
    BY <1>5, <2>1, <2>2, <2>3, CloseStep DEF AttemptLost
<1>6. CASE Finish
  <2>1. TypeOK'
    BY <1>6 DEF Finish, Inv, TypeOK
  <2>2. Seen' = Seen /\ UNCHANGED <<db, pass, raced>>
    BY <1>6 DEF Finish, Seen
  <2> QED
    BY <1>0, <2>1, <2>2 DEF Inv, Reading
<1>7. CASE BuildStudies
  <2>1. PICK works \in Corpora : op' = [state |-> "pending", works |-> works]
    BY <1>7 DEF BuildStudies
  <2>2. TypeOK'
    BY <1>7, <2>1, BoundsAssumption DEF BuildStudies, Inv, TypeOK
  <2>3. Seen' = Seen /\ UNCHANGED <<db, pass, raced>>
    BY <1>7 DEF BuildStudies, Seen
  <2> QED
    BY <1>0, <2>2, <2>3 DEF Inv, Reading
<1>8. ASSUME NEW w \in Works, PassCreates(w) PROVE Inv'
  <2> DEFINE d == CreateStudy(Seen, w)
  <2>1. StudiesOf(Seen, w) = {} /\ Writes(d, pass)
    BY <1>8 DEF PassCreates, Homeless
  <2>2. /\ Sound(d, raced) /\ DOMAIN Seen.study \subseteq DOMAIN d.study
        /\ Seen.links \subseteq d.links
        /\ \A x \in Works : Seen.founded[x] # 0 => d.founded[x] # 0
    BY <1>0, <2>1, CreateStudySound
  <2> HIDE DEF d
  <2>3. pass'.at = pass.at /\ pass'.left = pass.left /\ pass'.right = pass.right /\ Seen' = d
    BY <1>0, <2>1 DEF Writes, Pass, Seen
  <2>4. raced' = raced
    BY <1>8 DEF PassCreates
  <2>5. pass.at # NoPair => pass.at[2] \in Works
    BY <1>0, PassParts
  <2>6. Reading'
    BY <1>0, <2>2, <2>3, <2>4, <2>5 DEF Reading
  <2> QED
    BY <1>0, <1>8, <2>1, <2>2, <2>6, WriteStep DEF PassCreates
<1>9. ASSUME NEW s \in Works \X Works, PassReadsLeft(s) PROVE Inv'
  <2>1. PICK study \in StudiesOf(Seen, s[1]) :
          pass' = [pass EXCEPT !.todo = @ \ {s}, !.at = s, !.left = study]
    BY <1>9 DEF PassReadsLeft
  <2>2. study \in DOMAIN Seen.study /\ study \in Nat /\ pass.at = NoPair
    BY <1>0, <1>9, StudyPart DEF StudiesOf, Sound, PassReadsLeft
  <2>3. /\ pass' \in Pass /\ pass'.locked = pass.locked /\ pass'.d = pass.d
        /\ pass'.at = s /\ pass'.left = study /\ pass'.right = pass.right
    BY <1>0, <2>1, <2>2 DEF Pass
  <2>4. Seen' = Seen /\ pass'.right = 0
    <3>1. db' = db
      BY <1>9 DEF PassReadsLeft
    <3>2. Seen' = Seen
      BY <2>3, <3>1 DEF Seen
    <3> QED
      BY <1>0, <2>2, <2>3, <3>2 DEF Reading
  <2>5. Reading'
    BY <2>2, <2>3, <2>4 DEF Reading
  <2> QED
    BY <1>9, <2>3, <2>5, ReadStep DEF PassReadsLeft
<1>10. CASE PassReadsRight
  <2>1. PICK study \in StudiesOf(Seen, pass.at[2]) :
          \/ pass' = Past
          \/ pass' = [Past EXCEPT !.pairs = @ \cup {pass.at}]
          \/ pass' = [pass EXCEPT !.right = study]
    BY <1>10 DEF PassReadsRight
  <2>2. pass.at # NoPair /\ pass.at \in Works \X Works /\ raced' = raced
    BY <1>0, <1>10, PassParts DEF PassReadsRight
  <2>3. /\ study \in DOMAIN Seen.study /\ <<study, pass.at[2]>> \in Seen.links
        /\ study \in Nat /\ Seen.founded[pass.at[2]] # 0
    BY <1>0, <2>2, StudyPart DEF StudiesOf, Sound, Referential
  <2>4. CASE pass' = Past
    <3>1. Reading'
      BY <1>0, <2>4, PastFacts DEF Reading
    <3> QED
      BY <1>0, <1>10, <2>4, <3>1, PastFacts, ReadStep DEF PassReadsRight
  <2>5. CASE pass' = [Past EXCEPT !.pairs = @ \cup {pass.at}]
    <3>1. /\ pass' \in Pass /\ pass'.at = NoPair /\ pass'.right = 0
          /\ pass'.locked = pass.locked /\ pass'.d = pass.d
      BY <1>0, <2>2, <2>5, PastFacts DEF Pass
    <3>2. Reading'
      BY <3>1 DEF Reading
    <3> QED
      BY <1>10, <3>1, <3>2, ReadStep DEF PassReadsRight
  <2>6. CASE pass' = [pass EXCEPT !.right = study]
    <3>1. /\ pass' \in Pass /\ pass'.at = pass.at /\ pass'.left = pass.left
          /\ pass'.right = study /\ pass'.locked = pass.locked /\ pass'.d = pass.d
      BY <1>0, <2>3, <2>6 DEF Pass
    <3>2. Seen' = Seen
      BY <1>10, <3>1 DEF Seen, PassReadsRight
    <3>3. Reading'
      BY <1>0, <2>2, <2>3, <3>1, <3>2 DEF Reading
    <3> QED
      BY <1>10, <3>1, <3>3, ReadStep DEF PassReadsRight
  <2> QED
    BY <2>1, <2>4, <2>5, <2>6
<1>11. ASSUME pass.right # 0
       PROVE  /\ Sound(Merge(Seen, pass.left, pass.right, pass.at[2]), raced)
              /\ Sound([Seen EXCEPT !.study = WithStatus(@, pass.right, "NEEDS_REVIEW")], raced)
  <2>1. /\ pass.at[2] \in Works /\ Seen.founded[pass.at[2]] # 0
        /\ pass.left \in DOMAIN Seen.study /\ pass.right \in DOMAIN Seen.study
        /\ <<pass.right, pass.at[2]>> \in Seen.links \/ pass.at[2] \in raced
    BY <1>0, <1>11, PassParts DEF Reading
  <2>2. "NEEDS_REVIEW" \in Statuses
    BY DEF Statuses
  <2> QED
    BY <1>0, <2>1, <2>2, MergeSound, StatusSound
<1>12. ASSUME NEW d, Writes(d, Past) PROVE Reading'
  <2>1. pass'.at = NoPair /\ pass'.right = 0
    BY <1>0, <1>12, PastFacts DEF Writes, Pass
  <2> QED
    BY <2>1 DEF Reading
<1>13. CASE PassLinks
  <2>1. Writes(Merge(Seen, pass.left, pass.right, pass.at[2]), Past) /\ pass.right # 0
    BY <1>13 DEF PassLinks
  <2>2. Reading' /\ Past \in Pass
    BY <1>0, <1>12, <2>1, PastFacts
  <2> QED
    BY <1>11, <1>13, <2>1, <2>2, WriteStep DEF PassLinks
<1>14. CASE PassJudges
  <2>1. PICK d \in {Seen, [Seen EXCEPT !.study = WithStatus(@, pass.right, "NEEDS_REVIEW")],
                    Merge(Seen, pass.left, pass.right, pass.at[2])} : Writes(d, Past)
    BY <1>14 DEF PassJudges
  <2>2. Sound(d, raced) /\ Reading' /\ Past \in Pass
    BY <1>0, <1>11, <1>12, <1>14, <2>1, PastFacts DEF PassJudges
  <2> QED
    BY <1>14, <2>1, <2>2, WriteStep DEF PassJudges
<1>15. ASSUME NEW w \in Works, HumanKeepsSeparate(w) PROVE Inv'
  <2>1. "CONFIRMED" \in Statuses
    BY DEF Statuses
  <2> QED
    BY <1>15, <2>1, HumanStatus DEF HumanKeepsSeparate
<1>16. ASSUME NEW w \in Works, HumanIsUncertain(w) PROVE Inv'
  <2>1. "NEEDS_REVIEW" \in Statuses
    BY DEF Statuses
  <2> QED
    BY <1>16, <2>1, HumanStatus DEF HumanIsUncertain
<1>17. ASSUME NEW w \in Works, NEW t \in DOMAIN db.study, HumanLinks(w, t) PROVE Inv'
  <2>1. PICK c \in StudiesOf(db, w) :
          /\ db' = [db EXCEPT
                     !.links = Move(db.links, w, c, t),
                     !.study = WithStatus(SupersedeIfEmpty(db.study, Move(db.links, w, c, t), c, t),
                                          t, "CONFIRMED"),
                     !.linked = [db.linked EXCEPT ![w] = t]]
          /\ raced' = IF t # c /\ ReadByPass(w) THEN raced \cup {w} ELSE raced
    BY <1>17 DEF HumanLinks
  <2> DEFINE links == Move(db.links, w, c, t)
             some == SupersedeIfEmpty(db.study, links, c, t)
             study == WithStatus(some, t, "CONFIRMED")
             linked == [db.linked EXCEPT ![w] = t]
  <2>2. /\ db.study \in Seq(Study) /\ c \in DOMAIN db.study /\ t \in Nat \ {0}
        /\ <<c, w>> \in db.links
        /\ db.linked \in [Works -> Nat] /\ db.links \subseteq (Nat \ {0}) \X Works
        /\ "CONFIRMED" \in Statuses
    BY <1>0, StudyPart, OtherParts DEF StudiesOf, Statuses
  <2>3. some \in Seq(Study) /\ DOMAIN some = DOMAIN db.study
    <3>1. /\ Superseded(db.study, c, t) \in Seq(Study)
          /\ DOMAIN Superseded(db.study, c, t) = DOMAIN db.study
      BY <2>2, SupersededFacts
    <3> QED
      BY <2>2, <3>1 DEF SupersedeIfEmpty
  <2> HIDE DEF some
  <2>4. study \in Seq(Study) /\ DOMAIN study = DOMAIN db.study
    BY <2>2, <2>3, StatusFacts
  <2>5. links \in SUBSET ((Nat \ {0}) \X Works) /\ linked \in [Works -> Nat]
    BY <2>2 DEF Move
  <2>6. db' = [db EXCEPT !.links = links, !.study = study, !.linked = linked]
    BY <2>1 DEF some
  <2> HIDE DEF study, links, linked
  <2>7. db' \in Tables
    BY <1>0, <2>4, <2>5, <2>6 DEF Tables, Study
  <2>8. db'.links = links /\ db'.study = study /\ db'.linked = linked
        /\ db'.founded = db.founded
    BY <1>0, <2>6 DEF Tables
  <2>9. /\ db'.links = Move(db.links, w, c, t) /\ db'.linked = [db.linked EXCEPT ![w] = t]
        /\ DOMAIN db'.study = DOMAIN db.study /\ db.founded[w] # 0
    BY <1>0, <2>4, <2>8 DEF links, linked, Sound, Referential
  <2>10. Sound(db', raced)
    <3>1. <<c, w>> \in db.links \/ w \in raced
      BY <2>2
    <3>2. db'.founded = db.founded
      BY <2>8
    <3> HIDE DEF links, linked
    <3> QED
      BY <1>0, <2>7, <2>9, <3>1, <3>2, MovedSound
  <2>11. raced' \subseteq Works /\ raced \subseteq raced'
    BY <1>0, <2>1
  <2>12. Sound(db', raced')
    BY <2>10, <2>11, SoundGrows
  <2>13. ASSUME pass.right # 0, pass.at[2] \notin raced',
                <<pass.right, pass.at[2]>> \in db.links
         PROVE  <<pass.right, pass.at[2]>> \in db'.links
    <3>1. pass.at[2] = w => t = c
      BY <2>1, <2>13 DEF ReadByPass
    <3> QED
      BY <2>9, <2>13, <3>1, MoveFacts
  <2>14. Decides
    BY <1>17 DEF HumanLinks
  <2> QED
    BY <2>8, <2>9, <2>11, <2>12, <2>13, <2>14, DecisionStep
<1>18. CASE UNCHANGED vars
  <2>1. Seen' = Seen /\ TypeOK'
    BY <1>18 DEF vars, Seen, Inv, TypeOK
  <2> QED
    BY <1>0, <1>18, <2>1 DEF vars, Inv, Reading
<1> QED
  BY <1>1, <1>2, <1>3, <1>4, <1>5, <1>6, <1>7, <1>8, <1>9, <1>10, <1>13, <1>14, <1>15, <1>16,
     <1>17, <1>18
  DEF Next

\* The tables keep their types in every reachable state, committed or not.
THEOREM TypeCorrect == Spec => []TypeOK
<1>1. Inv => TypeOK
  BY DEF Inv
<1> QED
  BY <1>1, InitInv, StepInv, PTL DEF Spec

\* However often reports are built, judged, retried and moved by humans, between
\* any two reads of a pass: a report is in a second study only if a human moved it
\* after the pass had read its study and before the pass acted on that.
THEOREM OneStudy == Spec => []OneStudyUnlessRaced
<1>1. Inv => OneStudyUnlessRaced
  BY DEF Inv, Sound, OneStudyUnlessRaced
<1> QED
  BY <1>1, InitInv, StepInv, PTL DEF Spec

\* The study that the audit trail names for a report is one it is in, whatever
\* passes act on stale readings and whatever attempts fail.
THEOREM AuditTrail == Spec => []MovesAreExplained
<1>1. Inv => MovesAreExplained
  BY DEF Inv, Sound, MovesAreExplained
<1> QED
  BY <1>1, InitInv, StepInv, PTL DEF Spec

=============================================================================

------------------------ MODULE ManuscriptReviewProofs ------------------------
(***************************************************************************)
(* The versions of a manuscript are one line, and a completed one keeps    *)
(* its text, for any number of sections, versions, councils, attempts and  *)
(* faults and in every environment: edits clone the newest version, a      *)
(* revision that cloned an older one loses its number, and only the first  *)
(* version, unfinished, is ever written in place.                          *)
(***************************************************************************)
EXTENDS ManuscriptReview, TLAPS

Op == [kind : {"none", "generation", "revision", "review"},
       step : {"none", "write", "complete", "council", "revise", "finalize"},
       at : Nat, round : Nat, version : Nat, issue : SUBSET Issue, n : 0..RetryLimit,
       reply : {"none", "ok", "zero", "refused"}, base : Nat, picked : SUBSET Issue,
       seen : Statuses]

\* The types, and that what an operation names exists.
Typed ==
  /\ versions \in Seq(Version) /\ versions # <<>>
  /\ status \in Statuses
  /\ issues \subseteq Issue
  /\ reports \subseteq DOMAIN versions
  /\ councils \in Nat /\ faults \in 0..MaxFaults
  /\ environment \in Environments
  /\ op \in Op
  /\ op.base \in 0..Len(versions) /\ op.version \in 0..Len(versions)
  /\ op.step # "none" => op.version # 0
  /\ op.step = "none" => op.reply = "none"
  /\ op.picked \subseteq {Id(i) : i \in issues}

\* Whoever clones a version makes the clone current.
NewestIsCurrent == current = Len(versions)

\* A section is only written into the first version, while that is a draft.
WritesADraft ==
  /\ op.step = "write" => op.version = 1 /\ op.at \in Sections /\ versions[1].status = "DRAFT"
  /\ op.step = "complete" => op.version = 1

\* What a transaction has read, nobody keeps after it; a revision reads issues of sections.
ReadsEnd ==
  /\ op.reply # "none" \/ op.step \notin {"revise", "finalize"} => op.base = 0
  /\ op.base = 0 => op.picked = {}
  /\ op.step = "revise" => \A i \in op.picked : i.section \in Sections

Inv == Typed /\ ReadsEnd /\ NewestIsCurrent /\ WritesADraft /\ VersionsAreLinear

-----------------------------------------------------------------------------
(* Operators                                                               *)

\* A clone is a version more; the others stay as they are.
LEMMA CloneAppends ==
  ASSUME versions \in Seq(Version), NEW v \in 1..Len(versions), NEW by \in {"AGENT", "USER"},
         NEW section \in [Sections -> {"PLANNED", "COMPLETE", "NEEDS_REVIEW"}],
         NEW written \in SUBSET Sections
  PROVE  LET clone == Clone(v, by, section, written) IN
         /\ clone \in Seq(Version)
         /\ Len(clone) = Len(versions) + 1
         /\ \A w \in 1..Len(versions) : clone[w] = versions[w]
         /\ clone[Len(versions) + 1].num = versions[v].num + 1
         /\ clone[Len(versions) + 1].parent = v
  <1>. DEFINE new == [num |-> versions[v].num + 1, parent |-> v, by |-> by,
                      status |-> "COMPLETE", section |-> section, written |-> written]
  <1>1. versions[v] \in Version
    OBVIOUS
  <1>2. new \in Version
    BY <1>1 DEF Version
  <1>3. Clone(v, by, section, written) = Append(versions, new)
    BY DEF Clone
  <1>4. /\ new.num = versions[v].num + 1
        /\ new.parent = v
    OBVIOUS
  <1>. HIDE DEF new
  <1>. QED
    BY <1>2, <1>3, <1>4

\* A clone of the newest version continues the line.
LEMMA CloneContinues ==
  ASSUME versions \in Seq(Version), VersionsAreLinear, versions # <<>>,
         NEW by \in {"AGENT", "USER"},
         NEW section \in [Sections -> {"PLANNED", "COMPLETE", "NEEDS_REVIEW"}],
         NEW written \in SUBSET Sections,
         versions' = Clone(Len(versions), by, section, written)
  PROVE  /\ VersionsAreLinear'
         /\ versions' \in Seq(Version) /\ versions' # <<>>
         /\ Len(versions') = Len(versions) + 1
         /\ \A w \in 1..Len(versions) : versions'[w] = versions[w]
  <1>1. Len(versions) \in 1..Len(versions)
    OBVIOUS
  <1>2. /\ versions' \in Seq(Version)
        /\ Len(versions') = Len(versions) + 1
        /\ \A w \in 1..Len(versions) : versions'[w] = versions[w]
        /\ versions'[Len(versions) + 1].num = versions[Len(versions)].num + 1
        /\ versions'[Len(versions) + 1].parent = Len(versions)
    BY <1>1, CloneAppends
  <1>3. versions[Len(versions)].num = Len(versions)
    BY <1>1 DEF VersionsAreLinear
  <1>4. ASSUME NEW w \in DOMAIN versions'
        PROVE  versions'[w].num = w /\ versions'[w].parent = w - 1
    <2>1. CASE w \in 1..Len(versions)
      <3>1. versions'[w] = versions[w]
        BY <1>2, <2>1
      <3>2. versions[w].num = w /\ versions[w].parent = w - 1
        BY <2>1 DEF VersionsAreLinear
      <3>. QED
        BY <3>1, <3>2
    <2>2. CASE w = Len(versions) + 1
      BY <1>2, <1>3, <2>2
    <2>. QED
      BY <1>2, <1>4, <2>1, <2>2
  <1>. QED
    BY <1>2, <1>4 DEF VersionsAreLinear

\* A number that is free follows that of the newest version.
LEMMA FreeNumberIsNext ==
  ASSUME versions \in Seq(Version), VersionsAreLinear,
         NEW v \in 1..Len(versions), ~NumberTaken(v)
  PROVE  v = Len(versions)
  <1>1. CASE v < Len(versions)
    <2>1. v + 1 \in DOMAIN versions
      BY <1>1
    <2>. QED
      BY <2>1 DEF NumberTaken, VersionsAreLinear
  <1>. QED
    BY <1>1

LEMMA NoOpIsTyped == NoOp \in Op /\ NoOp.base = 0 /\ NoOp.version = 0 /\ NoOp.picked = {}
                     /\ NoOp.step = "none" /\ NoOp.reply = "none"
  BY BoundsAssumption DEF NoOp, Op, Statuses

-----------------------------------------------------------------------------
(* Every step keeps the invariant                                          *)

LEMMA InvInit == Init => Inv
  <1>. SUFFICES ASSUME Init PROVE Inv
    OBVIOUS
  <1>. DEFINE first == [num |-> 1, parent |-> 0, by |-> "AGENT", status |-> "DRAFT",
                        section |-> [s \in Sections |-> "PLANNED"], written |-> {}]
  <1>1. first \in Version
    BY DEF Version
  <1>2. versions = <<first>>
    BY DEF Init
  <1>3. op \in Op /\ op.base = 0 /\ op.version = 1 /\ op.picked = {} /\ op.at = 1
       /\ op.step = "write"
    <2>1. op = [kind |-> "generation", step |-> "write", at |-> 1, round |-> 1, version |-> 1,
                issue |-> {}, n |-> 1, reply |-> "none", base |-> 0, picked |-> {},
                seen |-> "DRAFT"]
      BY DEF Init, NoOp
    <2>2. 1 \in 0..RetryLimit
      BY BoundsAssumption
    <2>. QED
      BY <2>1, <2>2 DEF Op, Statuses
  <1>4. 1 \in Sections
    BY SectionsAssumption DEF Sections
  <1>. HIDE DEF first
  <1>5. Typed
    BY <1>1, <1>2, <1>3, BoundsAssumption DEF Init, Typed, Statuses
  <1>6. versions[1].num = 1 /\ versions[1].parent = 0 /\ versions[1].status = "DRAFT"
    BY <1>2 DEF first
  <1>7. VersionsAreLinear
    BY <1>2, <1>6 DEF VersionsAreLinear
  <1>8. NewestIsCurrent /\ WritesADraft
    BY <1>2, <1>3, <1>4, <1>6 DEF Init, NewestIsCurrent, WritesADraft
  <1>9. ReadsEnd
    BY <1>3 DEF ReadsEnd
  <1>. QED
    BY <1>5, <1>7, <1>8, <1>9 DEF Inv

\* A step that leaves the versions alone needs to mind the rest only.
LEMMA VersionsUntouched ==
  ASSUME Inv, UNCHANGED <<versions, current, environment>>,
         status' \in Statuses, issues' \subseteq Issue, reports' \subseteq DOMAIN versions,
         councils' \in Nat, faults' \in 0..MaxFaults, op' \in Op,
         op'.base \in 0..Len(versions), op'.version \in 0..Len(versions),
         op'.step # "none" => op'.version # 0, op'.step = "none" => op'.reply = "none",
         op'.picked \subseteq {Id(i) : i \in issues'},
         op'.step = "write" => op'.version = 1 /\ op'.at \in Sections /\ versions[1].status = "DRAFT",
         op'.step = "complete" => op'.version = 1,
         ReadsEnd'
  PROVE  Inv'
  <1>1. Typed'
    BY DEF Inv, Typed
  <1>2. NewestIsCurrent' /\ WritesADraft' /\ VersionsAreLinear'
    BY DEF Inv, NewestIsCurrent, WritesADraft, VersionsAreLinear
  <1>. QED
    BY <1>1, <1>2 DEF Inv

\* The next step of a workflow is called.
LEMMA NextStepIsTyped ==
  ASSUME op \in Op, NEW step \in {"write", "complete", "council", "revise", "finalize"},
         NEW at \in Nat, NEW round \in Nat, NextStep(step, at, round)
  PROVE  /\ op' \in Op
         /\ op'.step = step /\ op'.at = at /\ op'.version = op.version
         /\ op'.base = op.base /\ op'.picked = op.picked
  <1>1. 1 \in 0..RetryLimit
    BY BoundsAssumption
  <1>. QED
    BY <1>1 DEF NextStep, Op

\* An operation that is over, or a step of it that starts over.
LEMMA EndsIsTyped ==
  ASSUME Inv, UNCHANGED <<versions, current, status, issues, reports, councils, environment>>,
         faults' \in 0..MaxFaults, op' = NoOp
  PROVE  Inv'
  <1>. QED
    BY NoOpIsTyped, VersionsUntouched DEF Inv, Typed, ReadsEnd

LEMMA RetryIsTyped ==
  ASSUME Inv, UNCHANGED <<versions, current, status, issues, reports, councils, environment>>,
         faults' \in 0..MaxFaults, Retry
  PROVE  Inv'
  <1>1. CASE op' = NoOp
    BY <1>1, EndsIsTyped
  <1>2. CASE op.n < RetryLimit /\ op' = [op EXCEPT !.n = @ + 1, !.reply = "none", !.base = 0, !.picked = {}]
    <2>1. op \in Op
      BY DEF Inv, Typed
    <2>2. op.n + 1 \in 0..RetryLimit
      BY <1>2, <2>1, BoundsAssumption DEF Op
    <2>3. op' \in Op
      BY <1>2, <2>1, <2>2 DEF Op
    <2>4. /\ op'.base = 0 /\ op'.picked = {}
          /\ op'.step = op.step /\ op'.version = op.version /\ op'.at = op.at
          /\ op'.reply = "none"
      BY <1>2, <2>1 DEF Op
    <2>. QED
      BY <2>3, <2>4, VersionsUntouched DEF Inv, Typed, WritesADraft, ReadsEnd
  <1>. QED
    BY <1>1, <1>2 DEF Retry

\* The workflow goes to its next step, or ends.
LEMMA AdvancesKeepsInv ==
  ASSUME Inv, Advances, UNCHANGED environment
  PROVE  Inv'
  <1>1. /\ op \in Op /\ op.base = 0 /\ op.picked = {}
        /\ UNCHANGED <<versions, current, status, issues, reports, councils, faults>>
    BY DEF Inv, Typed, ReadsEnd, Advances
  <1>2. CASE op' = NoOp
    BY <1>1, <1>2, EndsIsTyped DEF Inv, Typed
  <1>3. ASSUME NEW step \in {"write", "complete", "council", "revise", "finalize"},
               NEW at \in Nat, NEW round \in Nat, NextStep(step, at, round),
               op.version # 0,
               step = "write" => op.step = "write" /\ at \in Sections,
               step = "complete" => op.step = "write"
        PROVE  Inv'
    <2>1. /\ op' \in Op
          /\ op'.step = step /\ op'.at = at /\ op'.version = op.version
          /\ op'.base = op.base /\ op'.picked = op.picked
      BY <1>1, <1>3, NextStepIsTyped
    <2>. QED
      BY <1>1, <1>3, <2>1, VersionsUntouched DEF Inv, Typed, WritesADraft, ReadsEnd
  <1>4. op.step # "none" => op.version # 0
    BY DEF Inv, Typed
  <1>5. /\ op.at \in Nat /\ op.round \in Nat /\ op.round + 1 \in Nat
        /\ op.step \in {"none", "write", "complete", "council", "revise", "finalize"}
    BY <1>1 DEF Op
  <1>6. CASE op.step = "write"
    <2>1. op.at \in Sections
      BY <1>6 DEF Inv, WritesADraft
    <2>2. op.at < NSections => op.at + 1 \in Sections
      BY <2>1, SectionsAssumption DEF Sections
    <2>3. \/ op' = NoOp
          \/ op.at < NSections /\ NextStep("write", op.at + 1, 1)
          \/ NextStep("complete", op.at, 1)
      BY <1>6 DEF Advances, AfterWrite, Ends
    <2>. QED
      BY <1>2, <1>3, <1>4, <1>5, <1>6, <2>1, <2>2, <2>3
  <1>7. CASE op.step = "complete"
    <2>1. op' = NoOp \/ NextStep("council", op.at, 1)
      BY <1>7 DEF Advances, Ends
    <2>. QED
      BY <1>2, <1>3, <1>4, <1>5, <1>7, <2>1
  <1>8. CASE op.step = "council"
    <2>1. \/ op' = NoOp
          \/ NextStep("revise", op.at, op.round)
          \/ NextStep("finalize", op.at, op.round)
      BY <1>8 DEF Advances, AfterCouncil, Ends
    <2>. QED
      BY <1>2, <1>3, <1>4, <1>5, <1>8, <2>1
  <1>9. CASE op.step = "revise"
    <2>1. \/ op' = NoOp
          \/ NextStep("finalize", op.at, op.round)
          \/ NextStep("council", op.at, op.round + 1)
      BY <1>9 DEF Advances, AfterRevise, Ends
    <2>. QED
      BY <1>2, <1>3, <1>4, <1>5, <1>9, <2>1
  <1>10. CASE op.step = "finalize"
    BY <1>2, <1>10 DEF Advances, Ends
  <1>11. op.step # "none"
    BY DEF Inv, Typed, Advances
  <1>. QED
    BY <1>5, <1>6, <1>7, <1>8, <1>9, <1>10, <1>11

\* A version is replaced by one of the same number and parent.
LEMMA VersionReplaced ==
  ASSUME versions \in Seq(Version), VersionsAreLinear, NEW v \in 1..Len(versions),
         NEW new \in Version, new.num = versions[v].num, new.parent = versions[v].parent,
         versions' = [versions EXCEPT ![v] = new]
  PROVE  /\ versions' \in Seq(Version) /\ Len(versions') = Len(versions)
         /\ versions'[v] = new
         /\ \A w \in DOMAIN versions \ {v} : versions'[w] = versions[w]
         /\ VersionsAreLinear'
  <1>1. /\ versions' \in Seq(Version) /\ Len(versions') = Len(versions)
        /\ DOMAIN versions' = DOMAIN versions /\ DOMAIN versions = 1..Len(versions)
        /\ versions'[v] = new
        /\ \A w \in DOMAIN versions \ {v} : versions'[w] = versions[w]
    OBVIOUS
  <1>2. ASSUME NEW w \in DOMAIN versions PROVE versions'[w].num = w /\ versions'[w].parent = w - 1
    <2>1. versions[w].num = w /\ versions[w].parent = w - 1
      BY DEF VersionsAreLinear
    <2>2. CASE w = v
      BY <1>1, <2>1, <2>2
    <2>3. CASE w # v
      BY <1>1, <2>1, <2>3
    <2>. QED
      BY <2>2, <2>3
  <1>. QED
    BY <1>1, <1>2 DEF VersionsAreLinear

\* What a version is when a section of it is written.
LEMMA SectionWritten ==
  ASSUME NEW r \in Version, NEW s \in Sections
  PROVE  LET new == [r EXCEPT !.section[s] = "COMPLETE", !.written = @ \cup {s}] IN
         /\ new \in Version /\ new.num = r.num /\ new.parent = r.parent /\ new.status = r.status
  <1>. DEFINE sections == [r.section EXCEPT ![s] = "COMPLETE"]
  <1>1. sections \in [Sections -> {"PLANNED", "COMPLETE", "NEEDS_REVIEW"}]
    BY DEF Version
  <1>2. [r EXCEPT !.section[s] = "COMPLETE", !.written = @ \cup {s}]
          = [r EXCEPT !.section = sections, !.written = r.written \cup {s}]
    BY DEF Version
  <1>. HIDE DEF sections
  <1>. QED
    BY <1>1, <1>2 DEF Version

\* The section that is written is one of the draft.
LEMMA WrittenVersion ==
  ASSUME Inv, WriteSection
  PROVE  \/ versions' = versions
         \/ \E new \in Version :
              /\ new.num = versions[1].num /\ new.parent = versions[1].parent
              /\ new.status = "DRAFT"
              /\ versions' = [versions EXCEPT ![1] = new]
  <1>1. /\ op.version = 1 /\ op.at \in Sections /\ versions[1].status = "DRAFT"
        /\ versions \in Seq(Version) /\ 1 \in DOMAIN versions /\ versions[1] \in Version
    BY DEF Inv, Typed, WritesADraft, WriteSection, Doing
  <1>. DEFINE new == [versions[1] EXCEPT !.section[op.at] = "COMPLETE", !.written = @ \cup {op.at}]
  <1>2. /\ new \in Version /\ new.num = versions[1].num /\ new.parent = versions[1].parent
        /\ new.status = "DRAFT"
    BY <1>1, SectionWritten
  <1>3. CASE versions' # versions
    <2>1. versions' = [versions EXCEPT ![1].section[op.at] = "COMPLETE",
                                       ![1].written = @ \cup {op.at}]
      BY <1>1, <1>3 DEF WriteSection
    <2>2. versions' = [versions EXCEPT ![1] = new]
      BY <1>1, <2>1
    <2>. HIDE DEF new
    <2>. QED
      BY <1>2, <2>2
  <1>. QED
    BY <1>3

LEMMA WriteSectionKeepsInv ==
  ASSUME Inv, WriteSection, UNCHANGED environment
  PROVE  Inv'
  <1>1. /\ op \in Op /\ op.step = "write" /\ op.version = 1 /\ op.at \in Sections
        /\ versions[1].status = "DRAFT"
        /\ versions \in Seq(Version) /\ 1 \in 1..Len(versions)
    BY DEF Inv, Typed, WritesADraft, WriteSection, Doing
  <1>2. /\ op' \in Op
        /\ op'.base = op.base /\ op'.picked = op.picked /\ op'.step = op.step
        /\ op'.version = op.version /\ op'.at = op.at
    BY <1>1 DEF WriteSection, Reply, Op
  <1>3. UNCHANGED <<current, status, issues, reports, councils, faults>>
    BY DEF WriteSection
  <1>4. CASE versions' = versions
    BY <1>1, <1>2, <1>3, <1>4, VersionsUntouched DEF Inv, Typed, ReadsEnd
  <1>5. ASSUME NEW new \in Version,
               new.num = versions[1].num, new.parent = versions[1].parent, new.status = "DRAFT",
               versions' = [versions EXCEPT ![1] = new]
        PROVE  Inv'
    <2>1. /\ versions' \in Seq(Version) /\ Len(versions') = Len(versions)
          /\ versions'[1] = new /\ VersionsAreLinear'
      BY <1>1, <1>5, VersionReplaced DEF Inv
    <2>2. Typed'
      BY <1>1, <1>2, <1>3, <2>1 DEF Inv, Typed
    <2>3. NewestIsCurrent'
      BY <1>3, <2>1 DEF Inv, NewestIsCurrent
    <2>4. WritesADraft' /\ ReadsEnd'
      BY <1>1, <1>2, <1>5, <2>1 DEF WritesADraft, ReadsEnd, Inv
    <2>. QED
      BY <2>1, <2>2, <2>3, <2>4 DEF Inv
  <1>. QED
    BY <1>4, <1>5, WrittenVersion

\* Completing a version changes its status.
LEMMA CompletedVersion ==
  ASSUME Inv, CompleteVersion
  PROVE  \/ versions' = versions
         \/ /\ versions[1] \in Version /\ 1 \in DOMAIN versions
            /\ versions' = [versions EXCEPT ![1] = [versions[1] EXCEPT !.status = "COMPLETE"]]
  BY DEF Inv, Typed, WritesADraft, CompleteVersion, Doing

LEMMA CompleteVersionKeepsInv ==
  ASSUME Inv, CompleteVersion, UNCHANGED environment
  PROVE  Inv'
  <1>1. /\ op \in Op /\ op.step = "complete" /\ op.version = 1
        /\ versions \in Seq(Version) /\ 1 \in 1..Len(versions)
    BY DEF Inv, Typed, WritesADraft, CompleteVersion, Doing
  <1>2. /\ op' \in Op
        /\ op'.base = op.base /\ op'.picked = op.picked /\ op'.step = op.step
        /\ op'.version = op.version
    BY <1>1 DEF CompleteVersion, Reply, Op
  <1>3. UNCHANGED <<current, issues, reports, councils, faults>> /\ status' \in Statuses
    BY DEF CompleteVersion, Inv, Typed, Statuses
  <1>4. CASE versions' = versions
    BY <1>1, <1>2, <1>3, <1>4, VersionsUntouched DEF Inv, Typed, ReadsEnd
  <1>5. CASE versions' = [versions EXCEPT ![1] = [versions[1] EXCEPT !.status = "COMPLETE"]]
    <2>. DEFINE new == [versions[1] EXCEPT !.status = "COMPLETE"]
    <2>1. new \in Version /\ new.num = versions[1].num /\ new.parent = versions[1].parent
      <3>1. versions[1] \in Version
        BY <1>1
      <3>. QED
        BY <3>1 DEF Version
    <2>. HIDE DEF new
    <2>2. /\ versions' \in Seq(Version) /\ Len(versions') = Len(versions) /\ VersionsAreLinear'
      <3>1. versions' = [versions EXCEPT ![1] = new]
        BY <1>5 DEF new
      <3>. QED
        BY <1>1, <2>1, <3>1, VersionReplaced DEF Inv
    <2>3. Typed'
      BY <1>1, <1>2, <1>3, <2>2 DEF Inv, Typed
    <2>4. NewestIsCurrent' /\ WritesADraft' /\ ReadsEnd'
      BY <1>1, <1>2, <1>3, <2>2 DEF Inv, NewestIsCurrent, WritesADraft, ReadsEnd
    <2>. QED
      BY <2>2, <2>3, <2>4 DEF Inv
  <1>. QED
    BY <1>4, <1>5, CompletedVersion

\* Ids of issues are issues, and rows that change their status keep their id.
LEMMA IdIsTyped == \A i \in Issue : Id(i) \in Issue /\ Id(Id(i)) = Id(i)
  BY DEF Id, Issue

LEMMA StatusKeepsId ==
  \A i \in Issue : \A st \in {"OPEN", "RESOLVED", "DISMISSED"} :
    [i EXCEPT !.status = st] \in Issue /\ Id([i EXCEPT !.status = st]) = Id(i)
  BY DEF Id, Issue

\* Open rows are their own id.
LEMMA OpenIsId == \A i \in Issue : i.status = "OPEN" => Id(i) = i
  BY DEF Id, Issue

LEMMA RunCouncilKeepsInv ==
  ASSUME Inv, RunCouncil, UNCHANGED environment
  PROVE  Inv'
  <1>1. /\ op \in Op /\ op.step = "council" /\ op.version # 0 /\ op.version \in 1..Len(versions)
        /\ councils \in Nat
    BY DEF Inv, Typed, RunCouncil, Doing
  <1>2. /\ op' \in Op
        /\ op'.base = op.base /\ op'.picked = op.picked /\ op'.step = op.step
        /\ op'.version = op.version
    BY <1>1 DEF RunCouncil, Reply, Op
  <1>3. issues' \subseteq Issue /\ issues \subseteq issues'
    <2>1. PICK found \in SUBSET [section : Sections \cup {NoSection}, severity : {"MAJOR", "MINOR"}] :
            issues' = issues \cup
              {[version |-> op.version, run |-> councils + 1, section |-> f.section,
                severity |-> f.severity, status |-> "OPEN"] : f \in found}
      BY DEF RunCouncil
    <2>2. ASSUME NEW f \in found
          PROVE  [version |-> op.version, run |-> councils + 1, section |-> f.section,
                  severity |-> f.severity, status |-> "OPEN"] \in Issue
      BY <1>1, <2>2 DEF Issue
    <2>3. issues \subseteq Issue
      BY DEF Inv, Typed
    <2>. QED
      BY <2>1, <2>2, <2>3
  <1>4. reports' \subseteq DOMAIN versions
    BY <1>1 DEF RunCouncil, Inv, Typed
  <1>5. /\ UNCHANGED <<versions, current, status, faults>> /\ councils' \in Nat
    BY <1>1 DEF RunCouncil
  <1>. QED
    BY <1>1, <1>2, <1>3, <1>4, <1>5, VersionsUntouched DEF Inv, Typed, ReadsEnd

LEMMA ReviseReadsKeepsInv ==
  ASSUME Inv, ReviseReads, UNCHANGED environment
  PROVE  Inv'
  <1>1. op \in Op /\ op.step = "revise" /\ op.reply = "none" /\ op.base = 0
    BY DEF Inv, Typed, ReviseReads, Doing
  <1>2. ToRevise \subseteq issues /\ \A i \in ToRevise : Id(i) = i
    BY OpenIsId DEF ToRevise, OpenIssues, Inv, Typed
  <1>3. ToRevise \subseteq {Id(i) : i \in issues}
    BY <1>2
  <1>4. current \in 0..Len(versions)
    BY DEF Inv, Typed, NewestIsCurrent
  <1>5. CASE op' = [op EXCEPT !.reply = "zero"]
    <2>1. /\ op' \in Op
          /\ op'.base = op.base /\ op'.picked = op.picked /\ op'.step = op.step
          /\ op'.version = op.version
      BY <1>1, <1>5 DEF Op
    <2>. QED
      BY <1>1, <2>1, VersionsUntouched DEF ReviseReads, Inv, Typed, ReadsEnd
  <1>6. CASE op' = [op EXCEPT !.base = current, !.picked = ToRevise]
    <2>1. /\ op' \in Op
          /\ op'.base = current /\ op'.picked = ToRevise /\ op'.step = op.step
          /\ op'.version = op.version /\ op'.reply = "none"
      <3>1. current \in Nat /\ ToRevise \in SUBSET Issue
        BY <1>2, <1>4 DEF Inv, Typed
      <3>. QED
        BY <1>1, <1>6, <3>1 DEF Op
    <2>2. current # 0
      BY DEF Inv, Typed, NewestIsCurrent
    <2>3. \A i \in ToRevise : i.section \in Sections
      BY DEF ToRevise, OpenIssues, Inv, Typed, Issue
    <2>4. ReadsEnd'
      BY <1>1, <2>1, <2>2, <2>3 DEF ReadsEnd
    <2>. QED
      BY <1>1, <1>3, <1>4, <2>1, <2>4, VersionsUntouched DEF ReviseReads, Inv, Typed
  <1>. QED
    BY <1>5, <1>6 DEF ReviseReads

LEMMA FinalizeReadsKeepsInv ==
  ASSUME Inv, FinalizeReads, UNCHANGED environment
  PROVE  Inv'
  <1>1. op \in Op /\ op.step = "finalize" /\ op.reply = "none"
    BY DEF Inv, Typed, FinalizeReads, Doing
  <1>. DEFINE blockers == Majors(OpenIssues(current))
  <1>2. blockers \subseteq issues /\ \A i \in blockers : Id(i) = i
    BY OpenIsId DEF Majors, OpenIssues, Inv, Typed
  <1>3. blockers \subseteq {Id(i) : i \in issues} /\ blockers \in SUBSET Issue
    BY <1>2 DEF Inv, Typed
  <1>4. current \in 0..Len(versions) /\ current \in Nat /\ status \in Statuses
    BY DEF Inv, Typed, NewestIsCurrent
  <1>. HIDE DEF blockers
  <1>5. op' = [op EXCEPT !.base = current, !.picked = blockers, !.seen = status]
    BY DEF FinalizeReads, blockers
  <1>6. /\ op' \in Op
        /\ op'.base = current /\ op'.picked = blockers /\ op'.step = op.step
        /\ op'.version = op.version /\ op'.reply = "none"
    BY <1>1, <1>3, <1>4, <1>5 DEF Op
  <1>7. ReadsEnd'
    <2>1. current # 0
      BY DEF Inv, Typed, NewestIsCurrent
    <2>. QED
      BY <1>1, <1>6, <2>1 DEF ReadsEnd
  <1>. QED
    BY <1>1, <1>3, <1>4, <1>6, <1>7, VersionsUntouched DEF FinalizeReads, Inv, Typed

LEMMA FinalizeCommitsKeepsInv ==
  ASSUME Inv, FinalizeCommits, UNCHANGED environment
  PROVE  Inv'
  <1>1. op \in Op /\ op.step = "finalize"
    BY DEF Inv, Typed, FinalizeCommits, Doing
  <1>2. /\ op' \in Op
        /\ op'.base = 0 /\ op'.picked = {} /\ op'.step = op.step
        /\ op'.version = op.version
    BY <1>1 DEF FinalizeCommits, Op
  <1>3. status' \in Statuses
    BY DEF FinalizeCommits, Inv, Typed, Statuses
  <1>. QED
    BY <1>1, <1>2, <1>3, VersionsUntouched DEF FinalizeCommits, Inv, Typed, ReadsEnd

LEMMA RefusesKeepsInv ==
  ASSUME Inv, Refuses, UNCHANGED environment
  PROVE  Inv'
  <1>1. op \in Op /\ op.step \in {"write", "council", "revise"}
    BY DEF Inv, Typed, Refuses, Doing
  <1>2. /\ op' \in Op
        /\ op'.base = 0 /\ op'.picked = {} /\ op'.step = op.step /\ op'.at = op.at
        /\ op'.version = op.version
    BY <1>1 DEF Refuses, Op
  <1>. QED
    BY <1>1, <1>2, VersionsUntouched DEF Refuses, Inv, Typed, WritesADraft, ReadsEnd

LEMMA AttemptLostKeepsInv ==
  ASSUME Inv, AttemptLost, UNCHANGED environment
  PROVE  Inv'
  <1>1. faults' \in 0..MaxFaults
    BY BoundsAssumption DEF Inv, Typed, AttemptLost
  <1>. QED
    BY <1>1, RetryIsTyped DEF AttemptLost

\* A revision whose base is still the newest version continues the line.
LEMMA ReviseCommitsKeepsInv ==
  ASSUME Inv, ReviseCommits, UNCHANGED environment
  PROVE  Inv'
  <1>1. /\ op \in Op /\ op.step = "revise" /\ op.base \in 1..Len(versions)
        /\ versions \in Seq(Version) /\ versions # <<>> /\ faults \in 0..MaxFaults
    BY DEF Inv, Typed, ReviseCommits, Doing
  <1>2. UNCHANGED <<status, reports, councils, faults>>
    BY DEF ReviseCommits
  <1>3. CASE NumberTaken(op.base)
    BY <1>1, <1>2, <1>3, RetryIsTyped DEF ReviseCommits
  <1>4. CASE ~NumberTaken(op.base)
    <2>. DEFINE written == versions[op.base].written \cup {i.section : i \in op.picked}
                section == [s \in Sections |-> "COMPLETE"]
    <2>1. op.base = Len(versions)
      BY <1>1, <1>4, FreeNumberIsNext DEF Inv
    <2>2. written \in SUBSET Sections
      <3>1. versions[op.base] \in Version
        BY <1>1
      <3>. QED
        BY <1>1, <3>1 DEF Version, Inv, ReadsEnd
    <2>3. section \in [Sections -> {"PLANNED", "COMPLETE", "NEEDS_REVIEW"}]
      OBVIOUS
    <2>4. /\ versions' = Clone(op.base, "AGENT", section, written)
          /\ current' = Len(versions) + 1
          /\ issues' = {IF Id(i) \in op.picked
                          THEN [i EXCEPT !.status = "RESOLVED"] ELSE i : i \in issues}
          /\ op' = [op EXCEPT !.reply = "ok", !.version = Len(versions) + 1, !.base = 0,
                              !.picked = {}]
      BY <1>4 DEF ReviseCommits
    <2>. HIDE DEF written, section
    <2>5. /\ VersionsAreLinear'
          /\ versions' \in Seq(Version) /\ versions' # <<>>
          /\ Len(versions') = Len(versions) + 1
      BY <1>1, <2>1, <2>2, <2>3, <2>4, CloneContinues DEF Inv
    <2>6. /\ op' \in Op
          /\ op'.base = 0 /\ op'.picked = {} /\ op'.step = "revise"
          /\ op'.version = Len(versions) + 1
      <3>1. Len(versions) + 1 \in Nat
        BY <1>1
      <3>. QED
        BY <1>1, <2>4, <3>1 DEF Op
    <2>7. issues' \subseteq Issue
      BY <2>4, StatusKeepsId DEF Inv, Typed
    <2>8. Typed'
      BY <1>1, <1>2, <2>5, <2>6, <2>7 DEF Inv, Typed
    <2>9. NewestIsCurrent' /\ WritesADraft' /\ ReadsEnd'
      BY <2>4, <2>5, <2>6 DEF NewestIsCurrent, WritesADraft, ReadsEnd
    <2>. QED
      BY <2>5, <2>8, <2>9 DEF Inv
  <1>. QED
    BY <1>3, <1>4

LEMMA EditSectionKeepsInv ==
  ASSUME Inv, NEW s \in Sections, EditSection(s), UNCHANGED environment
  PROVE  Inv'
  <1>. DEFINE written == versions[current].written \cup {s}
              section == [x \in Sections |-> IF x = s THEN "NEEDS_REVIEW" ELSE "COMPLETE"]
  <1>1. /\ versions \in Seq(Version) /\ versions # <<>> /\ current = Len(versions)
        /\ op \in Op
    BY DEF Inv, Typed, NewestIsCurrent
  <1>2. written \in SUBSET Sections
    <2>1. versions[current] \in Version
      BY <1>1
    <2>. QED
      BY <2>1 DEF Version
  <1>3. section \in [Sections -> {"PLANNED", "COMPLETE", "NEEDS_REVIEW"}]
    OBVIOUS
  <1>4. /\ versions' = Clone(current, "USER", section, written)
        /\ current' = Len(versions) + 1
        /\ status' \in Statuses
        /\ UNCHANGED <<issues, reports, councils, op, faults>>
    BY DEF EditSection, Statuses
  <1>. HIDE DEF written, section
  <1>5. /\ VersionsAreLinear'
        /\ versions' \in Seq(Version) /\ versions' # <<>>
        /\ Len(versions') = Len(versions) + 1
        /\ \A w \in 1..Len(versions) : versions'[w] = versions[w]
    BY <1>1, <1>2, <1>3, <1>4, CloneContinues DEF Inv
  <1>6. Typed'
    BY <1>1, <1>4, <1>5 DEF Inv, Typed
  <1>7. NewestIsCurrent' /\ ReadsEnd'
    BY <1>4, <1>5 DEF Inv, NewestIsCurrent, ReadsEnd
  <1>8. WritesADraft'
    <2>1. versions'[1] = versions[1]
      BY <1>1, <1>5
    <2>. QED
      BY <1>4, <2>1 DEF Inv, WritesADraft
  <1>. QED
    BY <1>5, <1>6, <1>7, <1>8 DEF Inv

LEMMA DismissIssueKeepsInv ==
  ASSUME Inv, NEW i \in issues, DismissIssue(i), UNCHANGED environment
  PROVE  Inv'
  <1>. DEFINE dismissed == [i EXCEPT !.status = "DISMISSED"]
  <1>1. i \in Issue /\ issues \subseteq Issue
    BY DEF Inv, Typed
  <1>2. dismissed \in Issue /\ Id(dismissed) = Id(i)
    BY <1>1, StatusKeepsId
  <1>3. issues' = (issues \ {i}) \cup {dismissed}
    BY DEF DismissIssue
  <1>. HIDE DEF dismissed
  <1>4. issues' \subseteq Issue /\ {Id(j) : j \in issues} \subseteq {Id(j) : j \in issues'}
    BY <1>1, <1>2, <1>3
  <1>. QED
    BY <1>4, VersionsUntouched DEF DismissIssue, Inv, Typed, WritesADraft, ReadsEnd

LEMMA StartsKeepInv ==
  ASSUME Inv, UNCHANGED environment,
         StartReview \/ \E i \in issues : StartRevision(i)
  PROVE  Inv'
  <1>1. current \in 1..Len(versions) /\ \A i \in issues : Id(i) \in Issue
    BY IdIsTyped DEF Inv, Typed, NewestIsCurrent
  <1>2. 1 \in 0..RetryLimit
    BY BoundsAssumption
  <1>3. \E kind \in {"revision", "review"}, step \in {"revise", "council"}, issue \in SUBSET Issue :
          op' = [kind |-> kind, step |-> step, at |-> 0, round |-> 0, version |-> current,
                 issue |-> issue, n |-> 1, reply |-> "none", base |-> 0, picked |-> {},
                 seen |-> "DRAFT"]
    <2>1. CASE StartReview
      <3>1. op' = [kind |-> "review", step |-> "council", at |-> 0, round |-> 0, version |-> current,
                   issue |-> {}, n |-> 1, reply |-> "none", base |-> 0, picked |-> {},
                   seen |-> "DRAFT"]
        BY <2>1 DEF StartReview, NoOp
      <3>. QED
        BY <3>1
    <2>2. ASSUME NEW i \in issues, StartRevision(i)
          PROVE  op' = [kind |-> "revision", step |-> "revise", at |-> 0, round |-> 0, version |-> current,
                        issue |-> {Id(i)}, n |-> 1, reply |-> "none", base |-> 0, picked |-> {},
                        seen |-> "DRAFT"]
      BY <2>2 DEF StartRevision, NoOp
    <2>. QED
      BY <1>1, <2>1, <2>2
  <1>4. /\ op' \in Op /\ op'.version = current /\ op'.base = 0 /\ op'.picked = {}
        /\ op'.step \in {"revise", "council"}
    <2>1. current \in Nat
      BY <1>1 DEF Inv, Typed
    <2>. QED
      BY <1>2, <1>3, <2>1 DEF Op, Statuses
  <1>5. UNCHANGED <<versions, current, status, issues, reports, councils, faults>>
    BY DEF StartReview, StartRevision
  <1>. QED
    BY <1>1, <1>4, <1>5, VersionsUntouched DEF Inv, Typed, ReadsEnd

\* One step per action.
LEMMA InvStep == Inv /\ [Next]_vars => Inv'
  <1>. SUFFICES ASSUME Inv, [Next]_vars PROVE Inv'
    OBVIOUS
  <1>1. CASE UNCHANGED vars
    BY <1>1 DEF vars, Inv, Typed, NewestIsCurrent, WritesADraft, ReadsEnd, VersionsAreLinear
  <1>2. CASE Next
    <2>1. UNCHANGED environment
      BY <1>2 DEF Next
    <2>2. CASE Work
      BY <2>1, <2>2, WriteSectionKeepsInv, CompleteVersionKeepsInv, RunCouncilKeepsInv,
         ReviseReadsKeepsInv, ReviseCommitsKeepsInv, FinalizeReadsKeepsInv,
         FinalizeCommitsKeepsInv DEF Work
    <2>3. CASE Refuses \/ Advances \/ AttemptLost
      BY <2>1, <2>3, RefusesKeepsInv, AdvancesKeepsInv, AttemptLostKeepsInv
    <2>4. CASE Author
      BY <2>1, <2>4, EditSectionKeepsInv, DismissIssueKeepsInv, StartsKeepInv DEF Author
    <2>. QED
      BY <1>2, <2>2, <2>3, <2>4 DEF Next
  <1>. QED
    BY <1>1, <1>2

LEMMA InvImpliesTypeOK == Inv => TypeOK
  BY DEF Inv, Typed, NewestIsCurrent, Op, TypeOK

\* The texts of completed versions, in one step.
TextsStay ==
  \A v \in DOMAIN versions : versions[v].status = "COMPLETE" =>
    /\ versions'[v].section = versions[v].section
    /\ versions'[v].written = versions[v].written

LEMMA CompletedTextsStay == Inv /\ [Next]_vars => TextsStay
  <1>. SUFFICES ASSUME Inv, [Next]_vars, versions' # versions PROVE TextsStay
    BY DEF TextsStay
  <1>1. versions \in Seq(Version) /\ versions # <<>> /\ op \in Op /\ UNCHANGED environment
    BY DEF Inv, Typed, Next, vars
  <1>2. CASE WriteSection
    BY <1>1, <1>2, WrittenVersion DEF TextsStay, Inv, WritesADraft, WriteSection, Doing
  <1>3. CASE CompleteVersion
    <2>1. versions[1] \in Version /\ versions' = [versions EXCEPT ![1] = [versions[1] EXCEPT !.status = "COMPLETE"]]
      BY <1>3, CompletedVersion
    <2>2. [versions[1] EXCEPT !.status = "COMPLETE"].section = versions[1].section
      BY <2>1 DEF Version
    <2>3. [versions[1] EXCEPT !.status = "COMPLETE"].written = versions[1].written
      BY <2>1 DEF Version
    <2>. QED
      BY <1>1, <2>1, <2>2, <2>3 DEF TextsStay
  <1>4. CASE ReviseCommits
    <2>1. op.base \in 1..Len(versions)
      BY <1>4 DEF ReviseCommits, Inv, Typed
    <2>2. versions' = Clone(op.base, "AGENT", [s \in Sections |-> "COMPLETE"],
                            versions[op.base].written \cup {i.section : i \in op.picked})
      BY <1>4 DEF ReviseCommits
    <2>3. versions[op.base].written \cup {i.section : i \in op.picked} \in SUBSET Sections
      <3>1. versions[op.base] \in Version
        BY <1>1, <2>1
      <3>2. \A i \in op.picked : i.section \in Sections
        BY <1>4 DEF ReviseCommits, Doing, Inv, ReadsEnd
      <3>. QED
        BY <3>1, <3>2 DEF Version
    <2>4. \A w \in 1..Len(versions) : versions'[w] = versions[w]
      BY <1>1, <2>1, <2>2, <2>3, CloneAppends
    <2>. QED
      BY <1>1, <2>4 DEF TextsStay
  <1>5. ASSUME NEW s \in Sections, EditSection(s) PROVE TextsStay
    <2>1. current \in 1..Len(versions)
      BY <1>1 DEF Inv, NewestIsCurrent
    <2>2. versions[current].written \cup {s} \in SUBSET Sections
      <3>1. versions[current] \in Version
        BY <1>1, <2>1
      <3>. QED
        BY <3>1 DEF Version
    <2>3. versions' = Clone(current, "USER",
                            [x \in Sections |-> IF x = s THEN "NEEDS_REVIEW" ELSE "COMPLETE"],
                            versions[current].written \cup {s})
      BY <1>5 DEF EditSection
    <2>4. \A w \in 1..Len(versions) : versions'[w] = versions[w]
      BY <1>1, <2>1, <2>2, <2>3, CloneAppends
    <2>. QED
      BY <1>1, <2>4 DEF TextsStay
  <1>. QED
    BY <1>2, <1>3, <1>4, <1>5
       DEF Next, vars, Work, Author, Refuses, Advances, AttemptLost, RunCouncil, ReviseReads,
           FinalizeReads, FinalizeCommits, DismissIssue, StartRevision, StartReview

------------------------------------------------------------------------------
(* What a calm operation knows.  Nobody moves the manuscript under it and no *)
(* answer is lost, so that what it has read still holds when it commits, and *)
(* nothing but its own revision makes a version current that the council has *)
(* not read.  It may have to try again, and must not run out of attempts: an *)
(* operation that is given up leaves the status as it was.                   *)

\* No activity uses up its attempts.
AttemptsSuffice == MaxFaults < RetryLimit

\* The operation works on the current version, and what it has read is so.
WorksOnCurrent ==
  /\ op.kind = "none" => op.step = "none"
  /\ op.kind # "none" => op.version = current /\ op.n <= faults + 1
  /\ op.base # 0 => op.base = current
  /\ op.step = "finalize" /\ op.base # 0 =>
       op.picked = Majors(OpenIssues(current)) /\ op.seen = status

\* From the end of a council to the revision that changes the text, and whenever
\* the review is finalized, the council has read the current version.
MustBeRead ==
  \/ op.step = "finalize"
  \/ op.step = "council" /\ op.reply # "none"
  \/ op.step = "revise" /\ op.kind = "generation" /\ op.reply # "ok"
CouncilHasRead == MustBeRead => current \in reports

\* The statuses on the way: an unwritten manuscript is not READY, and what was just
\* finalized as READY has no open MAJOR issue.
StatusIsTrue ==
  /\ op.step \in {"write", "complete"} => status # "READY_FOR_AUTHOR_REVIEW"
  /\ op.reply = "refused" => op.step = "complete"
  /\ op.step = "finalize" /\ op.reply # "none" /\ status = "READY_FOR_AUTHOR_REVIEW" =>
       Majors(OpenIssues(current)) = {}

CalmInv == WorksOnCurrent /\ CouncilHasRead /\ StatusIsTrue /\ ReadyIsReviewed

\* An operation is at one of its steps, or there is none.
LEMMA OperationFields ==
  ASSUME Inv
  PROVE  /\ op \in Op /\ faults \in Nat /\ current \in Nat \ {0}
         /\ op.step \in {"none", "write", "complete", "council", "revise", "finalize"}
         /\ op.reply \in {"none", "ok", "zero", "refused"}
         /\ op.n \in Nat /\ op.kind \in {"none", "generation", "revision", "review"}
  <1>1. faults \in Nat /\ op \in Op /\ current \in Nat \ {0}
    BY DEF Inv, Typed, NewestIsCurrent
  <1>. QED
    BY <1>1 DEF Op

\* An attempt that commits nothing but its reply.
LEMMA RepliesKeepCalm ==
  ASSUME Inv, CalmInv, NEW r \in {"ok", "zero"}, Reply(r),
         op.step \notin {"none", "finalize"}, op.base = 0, op.reply = "none",
         current' = current, reports \subseteq reports',
         op.step = "council" => current \in reports',
         op.step \in {"write", "complete"} => status' # "READY_FOR_AUTHOR_REVIEW",
         op.step = "revise" /\ op.kind = "generation" => r = "zero",
         faults' = faults
  PROVE  CalmInv'
  <1>1. op \in Op
    BY OperationFields
  <1>2. /\ op'.reply = r /\ op'.step = op.step /\ op'.kind = op.kind /\ op'.base = 0
        /\ op'.version = op.version /\ op'.n = op.n
    BY <1>1 DEF Reply, Op
  <1>3. op.kind # "none"
    BY DEF CalmInv, WorksOnCurrent
  <1>4. WorksOnCurrent'
    BY <1>2, <1>3 DEF CalmInv, WorksOnCurrent
  <1>5. CouncilHasRead'
    <2>1. CASE op.step = "council"
      BY <1>2, <2>1 DEF CouncilHasRead
    <2>2. CASE op.step = "revise" /\ op.kind = "generation"
      <3>1. op.reply # "ok" => current \in reports
        BY <2>2 DEF CalmInv, CouncilHasRead, MustBeRead
      <3>. QED
        BY <1>2, <2>2, <3>1 DEF CouncilHasRead
    <2>. QED
      BY <1>2, <2>1, <2>2 DEF CouncilHasRead, MustBeRead
  <1>6. StatusIsTrue'
    BY <1>2 DEF StatusIsTrue
  <1>7. ReadyIsReviewed'
    BY <1>2, <1>3 DEF ReadyIsReviewed, Running
  <1>. QED
    BY <1>4, <1>5, <1>6, <1>7 DEF CalmInv

\* The other actions keep the manuscript and go on with the operation: what they
\* leave behind is what the four parts say of it.
LEMMA WriteSectionKeepsCalm ==
  ASSUME Inv, CalmInv, WriteSection
  PROVE  CalmInv'
  <1>1. op.base = 0 /\ op.reply = "none" /\ op.step = "write"
    BY DEF Inv, ReadsEnd, WriteSection, Doing
  <1>. QED
    BY <1>1, RepliesKeepCalm DEF WriteSection, CalmInv, StatusIsTrue

LEMMA RunCouncilKeepsCalm ==
  ASSUME Inv, CalmInv, RunCouncil
  PROVE  CalmInv'
  <1>1. op.base = 0 /\ op.reply = "none" /\ op.step = "council"
    BY DEF Inv, ReadsEnd, RunCouncil, Doing
  <1>2. op.version = current
    BY <1>1 DEF CalmInv, WorksOnCurrent
  <1>3. reports \subseteq reports' /\ current \in reports'
    BY <1>2 DEF RunCouncil
  <1>. QED
    BY <1>1, <1>3, RepliesKeepCalm DEF RunCouncil

LEMMA CompleteVersionKeepsCalm ==
  ASSUME Inv, CalmInv, CompleteVersion
  PROVE  CalmInv'
  <1>1. op \in Op /\ op.base = 0 /\ op.reply = "none" /\ op.step = "complete"
    BY OperationFields DEF Inv, ReadsEnd, CompleteVersion, Doing
  <1>2. CASE Reply("ok") /\ status' = "IN_REVIEW"
    BY <1>1, <1>2, RepliesKeepCalm DEF CompleteVersion
  <1>3. CASE Reply("refused") /\ UNCHANGED status
    <2>1. /\ op'.reply = "refused" /\ op'.step = "complete" /\ op'.kind = op.kind
          /\ op'.base = 0 /\ op'.version = op.version /\ op'.n = op.n
      BY <1>1, <1>3 DEF Reply, Op
    <2>2. op.kind # "none" /\ status # "READY_FOR_AUTHOR_REVIEW"
      BY <1>1 DEF CalmInv, WorksOnCurrent, StatusIsTrue
    <2>. QED
      BY <1>3, <2>1, <2>2 DEF CompleteVersion, CalmInv, WorksOnCurrent, CouncilHasRead,
         MustBeRead, StatusIsTrue, ReadyIsReviewed, Running
  <1>. QED
    BY <1>2, <1>3 DEF CompleteVersion

LEMMA ReviseReadsKeepsCalm ==
  ASSUME Inv, CalmInv, ReviseReads
  PROVE  CalmInv'
  <1>1. op \in Op /\ op.base = 0 /\ op.reply = "none" /\ op.step = "revise"
    BY OperationFields DEF ReviseReads, Doing
  <1>2. CASE Reply("zero")
    BY <1>1, <1>2, RepliesKeepCalm DEF ReviseReads
  <1>3. CASE op' = [op EXCEPT !.base = current, !.picked = ToRevise]
    <2>1. /\ op'.base = current /\ op'.reply = "none" /\ op'.step = "revise"
          /\ op'.kind = op.kind /\ op'.version = op.version /\ op'.n = op.n
      BY <1>1, <1>3 DEF Op
    <2>2. op.kind # "none"
      BY <1>1 DEF CalmInv, WorksOnCurrent
    <2>. QED
      BY <1>1, <2>1, <2>2 DEF ReviseReads, CalmInv, WorksOnCurrent, CouncilHasRead,
         MustBeRead, StatusIsTrue, ReadyIsReviewed, Running
  <1>. QED
    BY <1>2, <1>3 DEF ReviseReads, Reply

\* Nobody else took the number: the base is still the newest version.
LEMMA ReviseCommitsKeepsCalm ==
  ASSUME Inv, CalmInv, ReviseCommits
  PROVE  CalmInv'
  <1>1. op \in Op /\ op.base = current /\ op.step = "revise"
    BY OperationFields DEF ReviseCommits, Doing, CalmInv, WorksOnCurrent
  <1>2. ~NumberTaken(op.base)
    <2>1. current = Len(versions) /\ versions \in Seq(Version) /\ versions # <<>>
      BY DEF Inv, NewestIsCurrent, Typed
    <2>2. \A w \in 1..Len(versions) : versions[w].num = w
      BY <2>1 DEF Inv, VersionsAreLinear
    <2>3. Len(versions) \in 1..Len(versions) /\ DOMAIN versions = 1..Len(versions)
      BY <2>1
    <2>. QED
      BY <1>1, <2>1, <2>2, <2>3 DEF NumberTaken
  <1>3. /\ current' = Len(versions) + 1
        /\ op' = [op EXCEPT !.reply = "ok", !.version = Len(versions) + 1, !.base = 0,
                            !.picked = {}]
        /\ faults' = faults
    BY <1>2 DEF ReviseCommits
  <1>4. /\ op'.base = 0 /\ op'.reply = "ok" /\ op'.step = "revise" /\ op'.kind = op.kind
        /\ op'.version = current' /\ op'.n = op.n
    BY <1>1, <1>3 DEF Op
  <1>5. op.kind # "none"
    BY <1>1 DEF CalmInv, WorksOnCurrent
  <1>. QED
    BY <1>3, <1>4, <1>5 DEF CalmInv, WorksOnCurrent, CouncilHasRead, MustBeRead,
       StatusIsTrue, ReadyIsReviewed, Running

LEMMA FinalizeReadsKeepsCalm ==
  ASSUME Inv, CalmInv, FinalizeReads
  PROVE  CalmInv'
  <1>1. op \in Op /\ op.step = "finalize" /\ op.reply = "none"
    BY OperationFields DEF FinalizeReads, Doing
  <1>2. /\ op'.base = current /\ op'.reply = "none" /\ op'.step = "finalize"
        /\ op'.kind = op.kind /\ op'.version = op.version /\ op'.n = op.n
        /\ op'.picked = Majors(OpenIssues(current)) /\ op'.seen = status
    BY <1>1 DEF FinalizeReads, Op
  <1>3. op.kind # "none"
    BY <1>1 DEF CalmInv, WorksOnCurrent
  <1>4. UNCHANGED <<current, status, issues, reports, faults>>
    BY DEF FinalizeReads
  <1>5. Majors(OpenIssues(current))' = Majors(OpenIssues(current))
    BY <1>4 DEF Majors, OpenIssues
  <1>. QED
    BY <1>1, <1>2, <1>3, <1>4, <1>5 DEF CalmInv, WorksOnCurrent, CouncilHasRead,
       MustBeRead, StatusIsTrue, ReadyIsReviewed, Running

\* The issues counted are still the open ones, and the status loaded is the status.
LEMMA FinalizeCommitsKeepsCalm ==
  ASSUME Inv, CalmInv, FinalizeCommits
  PROVE  CalmInv'
  <1>1. op \in Op /\ op.step = "finalize" /\ op.reply = "none" /\ op.base # 0
    BY OperationFields DEF FinalizeCommits, Doing
  <1>2. /\ op'.base = 0 /\ op'.reply = "ok" /\ op'.step = "finalize"
        /\ op'.kind = op.kind /\ op'.version = op.version /\ op'.n = op.n
    BY <1>1 DEF FinalizeCommits, Op
  <1>3. /\ op.kind # "none" /\ op.seen = status
        /\ op.picked = Majors(OpenIssues(current))
    BY <1>1 DEF CalmInv, WorksOnCurrent
  <1>4. UNCHANGED <<current, issues, reports, faults>>
    BY DEF FinalizeCommits
  <1>5. Majors(OpenIssues(current))' = Majors(OpenIssues(current))
    BY <1>4 DEF Majors, OpenIssues
  <1>6. status' = "READY_FOR_AUTHOR_REVIEW" => Majors(OpenIssues(current)) = {}
    BY <1>3 DEF FinalizeCommits
  <1>. QED
    BY <1>1, <1>2, <1>3, <1>4, <1>5, <1>6 DEF CalmInv, WorksOnCurrent, CouncilHasRead,
       MustBeRead, StatusIsTrue, ReadyIsReviewed, Running

\* Between the activities: finalize is entered from a council, or from a revision of a
\* generation that found nothing to revise in a version the council has read.
LEMMA NextStepKeepsCalm ==
  ASSUME Inv, CalmInv, op.step # "none", op.base = 0,
         UNCHANGED <<current, status, issues, reports, faults>>,
         NEW step \in {"write", "complete", "council", "revise", "finalize"},
         NEW at \in Nat, NEW round \in Nat, NextStep(step, at, round),
         step \in {"write", "complete"} => op.step = "write",
         step = "finalize" => current \in reports,
         step = "revise" /\ op.kind = "generation" => current \in reports
  PROVE  CalmInv'
  <1>1. op \in Op /\ faults \in Nat
    BY OperationFields
  <1>2. /\ op'.step = step /\ op'.kind = op.kind /\ op'.base = 0 /\ op'.n = 1
        /\ op'.version = op.version /\ op'.reply = "none"
    BY <1>1 DEF NextStep, Op
  <1>3. op.kind # "none"
    BY DEF CalmInv, WorksOnCurrent
  <1>4. 1 <= faults + 1
    BY <1>1
  <1>. QED
    BY <1>2, <1>3, <1>4 DEF CalmInv, WorksOnCurrent, CouncilHasRead, MustBeRead,
       StatusIsTrue, ReadyIsReviewed, Running

LEMMA AdvancesKeepsCalm ==
  ASSUME Inv, CalmInv, Advances
  PROVE  CalmInv'
  <1>1. /\ op \in Op /\ op.base = 0 /\ op.reply # "none" /\ op.step # "none"
        /\ UNCHANGED <<current, status, issues, reports, faults>>
    BY OperationFields DEF Advances, Inv, ReadsEnd, Typed
  <1>2. /\ op.at \in Nat /\ op.at + 1 \in Nat /\ op.round \in Nat /\ op.round + 1 \in Nat
        /\ 1 \in Nat /\ op.kind # "none"
    BY <1>1 DEF Op, CalmInv, WorksOnCurrent
  <1>3. ASSUME op' = NoOp, op.step \in {"complete", "finalize"} PROVE CalmInv'
    <2>1. op'.step = "none" /\ op'.kind = "none" /\ op'.base = 0 /\ op'.reply = "none"
      BY <1>3 DEF NoOp
    <2>2. Majors(OpenIssues(current))' = Majors(OpenIssues(current))
      BY <1>1 DEF Majors, OpenIssues
    <2>3. status = "READY_FOR_AUTHOR_REVIEW" =>
            current \in reports /\ Majors(OpenIssues(current)) = {}
      BY <1>1, <1>3 DEF CalmInv, CouncilHasRead, MustBeRead, StatusIsTrue
    <2>. QED
      BY <1>1, <2>1, <2>2, <2>3 DEF CalmInv, WorksOnCurrent, CouncilHasRead, MustBeRead,
         StatusIsTrue, ReadyIsReviewed, Running
  <1>4. CASE op.reply = "refused"
    BY <1>3, <1>4 DEF Advances, Ends, CalmInv, StatusIsTrue
  <1>5. CASE op.reply # "refused" /\ op.step = "write"
    <2>1. NextStep("write", op.at + 1, 1) \/ NextStep("complete", op.at, 1)
      BY <1>5 DEF Advances, AfterWrite
    <2>. QED
      BY <1>1, <1>2, <1>5, <2>1, NextStepKeepsCalm
  <1>6. CASE op.reply # "refused" /\ op.step = "complete"
    <2>1. NextStep("council", op.at, 1)
      BY <1>6 DEF Advances
    <2>. QED
      BY <1>1, <1>2, <1>6, <2>1, NextStepKeepsCalm
  <1>7. CASE op.reply # "refused" /\ op.step = "council"
    <2>1. NextStep("revise", op.at, op.round) \/ NextStep("finalize", op.at, op.round)
      BY <1>7 DEF Advances, AfterCouncil
    <2>2. current \in reports
      BY <1>1, <1>7 DEF CalmInv, CouncilHasRead, MustBeRead
    <2>. QED
      BY <1>1, <1>2, <1>7, <2>1, <2>2, NextStepKeepsCalm
  <1>8. CASE op.reply # "refused" /\ op.step = "revise"
    <2>1. \/ op.kind = "generation" /\ op.reply = "zero" /\ NextStep("finalize", op.at, op.round)
          \/ NextStep("council", op.at, op.round + 1)
      BY <1>8 DEF Advances, AfterRevise
    <2>2. op.kind = "generation" /\ op.reply = "zero" => current \in reports
      BY <1>8 DEF CalmInv, CouncilHasRead, MustBeRead
    <2>. QED
      BY <1>1, <1>2, <1>8, <2>1, <2>2, NextStepKeepsCalm
  <1>9. CASE op.reply # "refused" /\ op.step = "finalize"
    BY <1>3, <1>9 DEF Advances, Ends
  <1>. QED
    BY <1>1, <1>4, <1>5, <1>6, <1>7, <1>8, <1>9, OperationFields

\* An attempt that fails has another one left.
LEMMA AttemptLostKeepsCalm ==
  ASSUME Inv, CalmInv, Calm, AttemptsSuffice, AttemptLost
  PROVE  CalmInv'
  <1>1. /\ op \in Op /\ op.reply = "none" /\ op.kind # "none"
        /\ op.n \in Nat /\ faults \in Nat /\ MaxFaults \in Nat /\ RetryLimit \in Nat
        /\ op.n <= faults + 1 /\ faults < MaxFaults /\ faults' = faults + 1
    BY OperationFields, BoundsAssumption
       DEF AttemptLost, Running, Calm, CalmInv, WorksOnCurrent
  <1>2. op.n < RetryLimit /\ op.n + 1 <= faults' + 1
    BY <1>1 DEF AttemptsSuffice
  <1>3. op' = [op EXCEPT !.n = @ + 1, !.reply = "none", !.base = 0, !.picked = {}]
    BY <1>2 DEF AttemptLost, Retry
  <1>4. /\ op'.step = op.step /\ op'.kind = op.kind /\ op'.base = 0 /\ op'.n = op.n + 1
        /\ op'.version = op.version /\ op'.reply = "none"
    BY <1>1, <1>3 DEF Op
  <1>. QED
    BY <1>1, <1>2, <1>4 DEF AttemptLost, CalmInv, WorksOnCurrent, CouncilHasRead,
       MustBeRead, StatusIsTrue, ReadyIsReviewed, Running

\* The author acts between operations.
LEMMA AuthorKeepsCalm ==
  ASSUME Inv, CalmInv, Calm, Author
  PROVE  CalmInv'
  <1>1. op \in Op /\ faults \in Nat
    BY OperationFields
  <1>2. op.kind = "none" /\ op.step = "none" /\ op.base = 0 /\ op.reply = "none"
    <2>1. op.kind = "none"
      BY DEF Author, Calm, EditSection, DismissIssue, StartRevision, StartReview, Running
    <2>. QED
      BY <2>1 DEF CalmInv, WorksOnCurrent, Inv, ReadsEnd, Typed
  <1>3. CASE \E s \in Sections : EditSection(s)
    BY <1>2, <1>3 DEF EditSection, CalmInv, WorksOnCurrent, CouncilHasRead, MustBeRead,
       StatusIsTrue, ReadyIsReviewed, Running
  <1>4. ASSUME NEW i \in issues, DismissIssue(i) PROVE CalmInv'
    <2>1. UNCHANGED <<current, status, reports, op, faults>>
      BY <1>4 DEF DismissIssue
    <2>2. Majors(OpenIssues(current))' \subseteq Majors(OpenIssues(current))
      <3>1. issues' = (issues \ {i}) \cup {[i EXCEPT !.status = "DISMISSED"]}
        BY <1>4 DEF DismissIssue
      <3>2. [i EXCEPT !.status = "DISMISSED"].status # "OPEN"
        BY DEF Inv, Typed, Issue
      <3>. QED
        BY <2>1, <3>1, <3>2 DEF Majors, OpenIssues
    <2>. QED
      BY <1>2, <2>1, <2>2 DEF CalmInv, WorksOnCurrent, CouncilHasRead, MustBeRead,
         StatusIsTrue, ReadyIsReviewed, Running
  <1>5. ASSUME NEW i \in issues, StartRevision(i) PROVE CalmInv'
    <2>1. /\ op'.step = "revise" /\ op'.kind = "revision" /\ op'.base = 0 /\ op'.n = 1
          /\ op'.version = current /\ op'.reply = "none"
          /\ UNCHANGED <<current, status, issues, reports, faults>>
      BY <1>5 DEF StartRevision, NoOp
    <2>2. 1 <= faults + 1
      BY <1>1
    <2>. QED
      BY <2>1, <2>2 DEF CalmInv, WorksOnCurrent, CouncilHasRead, MustBeRead,
         StatusIsTrue, ReadyIsReviewed, Running
  <1>6. ASSUME StartReview PROVE CalmInv'
    <2>1. /\ op'.step = "council" /\ op'.kind = "review" /\ op'.base = 0 /\ op'.n = 1
          /\ op'.version = current /\ op'.reply = "none"
          /\ UNCHANGED <<current, status, issues, reports, faults>>
      BY <1>6 DEF StartReview, NoOp
    <2>2. 1 <= faults + 1
      BY <1>1
    <2>. QED
      BY <2>1, <2>2 DEF CalmInv, WorksOnCurrent, CouncilHasRead, MustBeRead,
         StatusIsTrue, ReadyIsReviewed, Running
  <1>. QED
    BY <1>3, <1>4, <1>5, <1>6 DEF Author

LEMMA CalmStep ==
  ASSUME AttemptsSuffice, Inv, Calm => CalmInv, [Next]_vars
  PROVE  (Calm => CalmInv)'
  <1>. SUFFICES ASSUME Calm, CalmInv, UNCHANGED environment PROVE CalmInv'
    BY DEF Calm, Next, vars
  <1>1. CASE UNCHANGED vars
    <2>1. UNCHANGED <<current, status, issues, reports, op, faults>>
      BY <1>1 DEF vars
    <2>2. Majors(OpenIssues(current))' = Majors(OpenIssues(current))
      BY <2>1 DEF Majors, OpenIssues
    <2>. QED
      BY <2>1, <2>2 DEF CalmInv, WorksOnCurrent, CouncilHasRead, MustBeRead, StatusIsTrue,
         ReadyIsReviewed, Running
  <1>2. CASE Work
    BY <1>2, WriteSectionKeepsCalm, CompleteVersionKeepsCalm, RunCouncilKeepsCalm,
       ReviseReadsKeepsCalm, ReviseCommitsKeepsCalm, FinalizeReadsKeepsCalm,
       FinalizeCommitsKeepsCalm DEF Work
  <1>3. ~Refuses
    BY DEF Refuses, Calm
  <1>4. CASE Advances \/ AttemptLost \/ Author
    BY <1>4, AdvancesKeepsCalm, AttemptLostKeepsCalm, AuthorKeepsCalm
  <1>. QED
    BY <1>1, <1>2, <1>3, <1>4 DEF Next

-----------------------------------------------------------------------------
(* Theorems                                                                *)

\* The variables keep their types, and an operation names versions and issues
\* that exist, whatever the author does meanwhile.
THEOREM TypeCorrect == Spec => []TypeOK
  <1>. QED
    BY InvInit, InvStep, InvImpliesTypeOK, PTL DEF Spec

\* Edits and revisions, however they race, leave one line of versions: nobody's
\* text ends on a branch.
THEOREM OneLine == Spec => []VersionsAreLinear
  <1>1. Inv => VersionsAreLinear
    BY DEF Inv
  <1>. QED
    BY <1>1, InvInit, InvStep, PTL DEF Spec

\* No activity, retry or edit changes the text of a completed version.
THEOREM CompletedTextsStand == Spec => CompleteVersionsImmutable
  <1>1. Inv /\ [Next]_vars => [TextsStay]_vars
    BY CompletedTextsStay
  <1>2. CompleteVersionsImmutable <=> [][TextsStay]_vars
    BY PTL DEF CompleteVersionsImmutable, TextsStay
  <1>. QED
    BY <1>1, <1>2, InvInit, InvStep, PTL DEF Spec

\* An author who waits for operations to end, on a server that loses and refuses
\* nothing, is handed no READY manuscript whose current version the council has not
\* read or that has an open MAJOR issue, as long as no activity uses up its attempts.
THEOREM HandedOverReviewed ==
  ASSUME AttemptsSuffice
  PROVE  Spec => []ReadyWasReviewed
  <1>1. Init => (Calm => CalmInv)
    <2>. SUFFICES ASSUME Init PROVE CalmInv
      OBVIOUS
    <2>1. /\ op.step = "write" /\ op.kind = "generation" /\ op.base = 0 /\ op.n = 1
          /\ op.version = 1 /\ op.reply = "none"
          /\ current = 1 /\ status = "DRAFT" /\ faults = 0
      BY DEF Init, NoOp
    <2>. QED
      BY <2>1 DEF CalmInv, WorksOnCurrent, CouncilHasRead, MustBeRead, StatusIsTrue,
         ReadyIsReviewed, Running
  <1>2. Inv /\ (Calm => CalmInv) /\ [Next]_vars => (Calm => CalmInv)'
    BY CalmStep
  <1>3. (Calm => CalmInv) => ReadyWasReviewed
    BY DEF CalmInv, ReadyWasReviewed
  <1>. QED
    BY <1>1, <1>2, <1>3, InvInit, InvStep, PTL DEF Spec

==============================================================================

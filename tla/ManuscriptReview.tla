--------------------------- MODULE ManuscriptReview ---------------------------
(***************************************************************************)
(* A manuscript from its first, unwritten version to the author: the part  *)
(* of ManuscriptGenerationWorkflow after prepare_manuscript, and the       *)
(* ManuscriptRevisionWorkflow and ManuscriptReviewWorkflow an author       *)
(* starts later, against an author who edits sections and dismisses issues *)
(* whenever the API lets them (neither endpoint asks ensure_idle).         *)
(*                                                                         *)
(* One workflow runs at a time (module Operations).  A transaction of an   *)
(* activity locks its workflow_runs row first, so two attempts of one      *)
(* activity never interleave; revise_open_issues and finalize read and     *)
(* write in separate steps, because the author's requests do not need that *)
(* row.  BLOCKING and MAJOR issues are treated alike by every query and    *)
(* are one severity here.                                                  *)
(***************************************************************************)
EXTENDS Integers, Sequences, FiniteSets

CONSTANTS
  NSections,     \* sections of the plan, in writing order
  NoSection,     \* an issue about the manuscript as a whole
  RetryLimit,    \* attempts of an activity (research_workflows.RETRY)
  Environments,  \* the sets of things that may happen, see EnvironmentsAssumption
  MaxVersions,   \* bound: the author edits only while there are fewer versions
  MaxCouncils,   \* bound: the author starts only while there were fewer councils
  MaxFaults      \* bound on failed attempts and lost answers

Sections == 1..NSections

ASSUME SectionsAssumption == NSections \in Nat \ {0} /\ NoSection \notin Sections
ASSUME BoundsAssumption ==
  RetryLimit \in Nat \ {0} /\ MaxVersions \in Nat \ {0} /\ MaxCouncils \in Nat /\ MaxFaults \in Nat
\* "lost": an activity commits and its answer is lost.  "refusal": an agent's
\* output is refused, which is not retried.  "edits", "dismissals": the author
\* acts while an operation runs, not only between operations.
ASSUME EnvironmentsAssumption ==
  Environments \subseteq SUBSET {"lost", "refusal", "edits", "dismissals"}

VARIABLES
  versions,   \* versions[v]: the row of manuscript_versions and its sections
  current,    \* manuscript.current_version_id
  status,     \* manuscript.status
  issues,     \* the rows of review_issues
  reports,    \* versions with the reports of a whole council
  councils,   \* runs of the council so far
  op,         \* the running workflow and its operation's details
  faults,
  environment \* one of Environments, for the whole behaviour

vars == <<versions, current, status, issues, reports, councils, op, faults, environment>>

Statuses == {"DRAFT", "IN_REVIEW", "REVISION_REQUIRED", "NEEDS_AUTHOR_REVIEW",
             "READY_FOR_AUTHOR_REVIEW"}
Version == [num : Nat \ {0}, parent : Nat, by : {"AGENT", "USER"},
            status : {"DRAFT", "COMPLETE"},
            section : [Sections -> {"PLANNED", "COMPLETE", "NEEDS_REVIEW"}],
            written : SUBSET Sections]             \* sections that have a text
Issue == [version : Nat \ {0}, run : Nat \ {0}, section : Sections \cup {NoSection},
          severity : {"MAJOR", "MINOR"}, status : {"OPEN", "RESOLVED", "DISMISSED"}]
Id(i) == [i EXCEPT !.status = "OPEN"]              \* the row, whatever its status

\* base, picked and seen are what the transaction at work has read: the current
\* version, issues and the manuscript's status.
NoOp == [kind |-> "none", step |-> "none", at |-> 0, round |-> 0, version |-> 0, issue |-> {},
         n |-> 0, reply |-> "none", base |-> 0, picked |-> {}, seen |-> "DRAFT"]

\* prepare_manuscript: version 1 is current at once, its sections PLANNED.
Init ==
  /\ versions = << [num |-> 1, parent |-> 0, by |-> "AGENT", status |-> "DRAFT",
                    section |-> [s \in Sections |-> "PLANNED"], written |-> {}] >>
  /\ current = 1
  /\ status = "DRAFT"
  /\ issues = {} /\ reports = {} /\ councils = 0 /\ faults = 0
  /\ environment \in Environments
  /\ op = [NoOp EXCEPT !.kind = "generation", !.step = "write", !.at = 1,
                       !.round = 1, !.version = 1, !.n = 1]

Running == op.kind # "none"
OpenIssues(v) == {i \in issues : i.version = v /\ i.status = "OPEN"}
Majors(set) == {i \in set : i.severity = "MAJOR"}

-----------------------------------------------------------------------------
(* Activities: each commits, or refuses, and leaves a reply.               *)

Doing(step) == op.step = step /\ op.reply = "none"
Reply(r) == op' = [op EXCEPT !.reply = r]

\* The output of an agent fails its validation: nothing is stored.
Refuses ==
  /\ "refusal" \in environment
  /\ \/ Doing("write") /\ versions[op.version].section[op.at] # "COMPLETE"
     \/ Doing("council")
     \/ Doing("revise") /\ op.base # 0
  /\ op' = [op EXCEPT !.reply = "refused", !.base = 0, !.picked = {}]
  /\ UNCHANGED <<versions, current, status, issues, reports, councils, faults>>

\* Mutation of WriteSection: the text goes into the manuscript's current version.
WriteSectionOfCurrent ==
  /\ Doing("write")
  /\ Reply("ok")
  /\ versions' = [versions EXCEPT ![current].section[op.at] = "COMPLETE",
                                  ![current].written = @ \cup {op.at}]
  /\ UNCHANGED <<current, status, issues, reports, councils, faults>>

\* write_manuscript_section: a COMPLETE section is returned as it is; the
\* trigger protect_complete_manuscript_section refuses a completed version.
WriteSection ==
  LET done == versions[op.version].section[op.at] = "COMPLETE" IN
  /\ Doing("write")
  /\ Reply("ok")
  /\ versions' = IF done THEN versions
                 ELSE [versions EXCEPT ![op.version].section[op.at] = "COMPLETE",
                                       ![op.version].written = @ \cup {op.at}]
  /\ UNCHANGED <<current, status, issues, reports, councils, faults>>

\* complete_manuscript_version: of the version the operation wrote.
CompleteVersion ==
  /\ Doing("complete")
  /\ IF \E s \in Sections : versions[op.version].section[s] # "COMPLETE"
       THEN Reply("refused") /\ UNCHANGED <<versions, status>>
       ELSE /\ Reply("ok")
            /\ versions' = [versions EXCEPT ![op.version].status = "COMPLETE"]
            /\ status' = "IN_REVIEW"
  /\ UNCHANGED <<current, issues, reports, councils, faults>>

\* run_reviewer_council: reports and issues on the version in the operation's
\* details, added again by every execution.  At most one issue per run here.
RunCouncil ==
  /\ Doing("council")
  /\ councils' = councils + 1
  /\ \E found \in SUBSET [section : Sections \cup {NoSection}, severity : {"MAJOR", "MINOR"}] :
       /\ Cardinality(found) <= 1
       /\ issues' = issues \cup
            {[version |-> op.version, run |-> councils + 1, section |-> f.section,
              severity |-> f.severity, status |-> "OPEN"] : f \in found}
  /\ reports' = reports \cup {op.version}
  /\ Reply("ok")
  /\ UNCHANGED <<versions, current, status, faults>>

\* revise_open_issues works on the manuscript's current version: the issue the
\* author asked for, or every open MAJOR one, if it is about a section.
ToRevise == {i \in OpenIssues(current) :
               /\ i.section # NoSection
               /\ IF op.issue # {}
                    THEN Id(i) \in op.issue
                    ELSE i.severity = "MAJOR"}

ReviseReads ==
  /\ Doing("revise") /\ op.base = 0
  /\ op' = IF ToRevise = {} THEN [op EXCEPT !.reply = "zero"]
           ELSE [op EXCEPT !.base = current, !.picked = ToRevise]
  /\ UNCHANGED <<versions, current, status, issues, reports, councils, faults>>

\* The clone of version v, in the states its sections are given.
Clone(v, by, section, written) ==
  Append(versions, [num |-> versions[v].num + 1, parent |-> v, by |-> by,
                    status |-> "COMPLETE", section |-> section, written |-> written])

\* Mutation of NumberTaken: the table has no such constraint.
NumberNeverTaken(v) == FALSE

\* UniqueConstraint("manuscript_id", "version")
NumberTaken(v) == \E w \in DOMAIN versions : versions[w].num = versions[v].num + 1

\* Mutation of Retry: one attempt too many.
RetryOneMore ==
  IF op.n <= RetryLimit
    THEN op' = [op EXCEPT !.n = @ + 1, !.reply = "none", !.base = 0, !.picked = {}]
    ELSE op' = NoOp

\* Mutation of Retry: the transaction is repeated on what it had read.
RetryOnStaleRead ==
  IF op.n <= RetryLimit THEN op' = [op EXCEPT !.reply = "none"] ELSE op' = NoOp

Retry ==
  IF op.n < RetryLimit
    THEN op' = [op EXCEPT !.n = @ + 1, !.reply = "none", !.base = 0, !.picked = {}]
    ELSE op' = NoOp

\* The rows picked are updated by id, whatever their status is by now.
ReviseCommits ==
  /\ Doing("revise") /\ op.base # 0
  /\ IF NumberTaken(op.base)
       THEN Retry /\ UNCHANGED <<versions, current, issues>>
       ELSE /\ versions' = Clone(op.base, "AGENT", [s \in Sections |-> "COMPLETE"],
                                 versions[op.base].written \cup {i.section : i \in op.picked})
            /\ current' = Len(versions) + 1
            /\ issues' = {IF Id(i) \in op.picked
                            THEN [i EXCEPT !.status = "RESOLVED"] ELSE i : i \in issues}
            /\ op' = [op EXCEPT !.reply = "ok", !.version = Len(versions) + 1, !.base = 0,
                                !.picked = {}]
  /\ UNCHANGED <<status, reports, councils, faults>>

\* finalize_manuscript_review counts the current version's open MAJOR issues...
FinalizeReads ==
  /\ Doing("finalize") /\ op.base = 0
  /\ op' = [op EXCEPT !.base = current, !.picked = Majors(OpenIssues(current)),
                      !.seen = status]
  /\ UNCHANGED <<versions, current, status, issues, reports, councils, faults>>

\* ... and assigns the status, which is no UPDATE when it is the one it loaded.
FinalizeCommits ==
  LET outcome == IF op.picked = {} THEN "READY_FOR_AUTHOR_REVIEW" ELSE "NEEDS_AUTHOR_REVIEW" IN
  /\ Doing("finalize") /\ op.base # 0
  /\ status' = IF outcome = op.seen THEN status ELSE outcome
  /\ op' = [op EXCEPT !.reply = "ok", !.base = 0, !.picked = {}]
  /\ UNCHANGED <<versions, current, issues, reports, councils, faults>>

Work == WriteSection \/ CompleteVersion \/ RunCouncil \/ ReviseReads \/ ReviseCommits
        \/ FinalizeReads \/ FinalizeCommits

-----------------------------------------------------------------------------
(* The workflows                                                           *)

NextStep(step, at, round) ==
  op' = [op EXCEPT !.step = step, !.at = at, !.round = round, !.n = 1, !.reply = "none"]

\* finish_operation and the end of the workflow, COMPLETED or PARTIAL.
Ends == op' = NoOp

\* The sections are written in turn, then the version is completed.
AfterWrite ==
  IF op.at < NSections THEN NextStep("write", op.at + 1, 1) ELSE NextStep("complete", op.at, 1)

\* After a council: generation has two rounds of revision, the others none.
AfterCouncil ==
  IF op.kind = "generation" /\ op.round <= 2
    THEN NextStep("revise", op.at, op.round)
    ELSE NextStep("finalize", op.at, op.round)

\* Mutation of AfterRevise: the second revision is not reviewed.
AfterReviseUnreviewed ==
  IF op.kind = "generation" /\ (op.reply = "zero" \/ op.round = 2)
    THEN NextStep("finalize", op.at, op.round)
    ELSE NextStep("council", op.at, op.round + 1)

\* `revised = revise_open_issues; if not revised: break; run_reviewer_council`,
\* while ManuscriptRevisionWorkflow runs the council in any case.
AfterRevise ==
  IF op.kind = "generation" /\ op.reply = "zero"
    THEN NextStep("finalize", op.at, op.round)
    ELSE NextStep("council", op.at, op.round + 1)

Advances ==
  /\ op.reply # "none"
  /\ CASE op.reply = "refused" -> Ends
       [] op.reply # "refused" /\ op.step = "write" -> AfterWrite
       [] op.reply # "refused" /\ op.step = "complete" -> NextStep("council", op.at, 1)
       [] op.reply # "refused" /\ op.step = "council" -> AfterCouncil
       [] op.reply # "refused" /\ op.step = "revise" -> AfterRevise
       [] op.reply # "refused" /\ op.step = "finalize" -> Ends
  /\ UNCHANGED <<versions, current, status, issues, reports, councils, faults>>

\* An attempt fails before it commits, or its answer never arrives.
AttemptLost ==
  /\ Running
  /\ op.reply = "none" \/ "lost" \in environment
  /\ faults < MaxFaults
  /\ faults' = faults + 1
  /\ Retry
  /\ UNCHANGED <<versions, current, status, issues, reports, councils>>

-----------------------------------------------------------------------------
(* The author                                                              *)

\* edit_section clones the current version; every other section is COMPLETE.
EditSection(s) ==
  /\ "edits" \in environment \/ ~Running
  /\ Len(versions) < MaxVersions
  /\ versions' = Clone(current, "USER",
                       [x \in Sections |-> IF x = s THEN "NEEDS_REVIEW" ELSE "COMPLETE"],
                       versions[current].written \cup {s})
  /\ current' = Len(versions) + 1
  /\ status' = "REVISION_REQUIRED"
  /\ UNCHANGED <<issues, reports, councils, op, faults>>

\* dismiss_issue
DismissIssue(i) ==
  /\ "dismissals" \in environment \/ ~Running
  /\ i.status # "DISMISSED"
  /\ issues' = (issues \ {i}) \cup {[i EXCEPT !.status = "DISMISSED"]}
  /\ UNCHANGED <<versions, current, status, reports, councils, op, faults>>

\* revise_issue: of any issue of the project, whatever its version and status.
StartRevision(i) ==
  /\ ~Running
  /\ councils < MaxCouncils
  /\ op' = [NoOp EXCEPT !.kind = "revision", !.step = "revise", !.version = current, !.n = 1,
                        !.issue = {Id(i)}]
  /\ UNCHANGED <<versions, current, status, issues, reports, councils, faults>>

\* rereview: the council on the current version.
StartReview ==
  /\ ~Running
  /\ councils < MaxCouncils
  /\ op' = [NoOp EXCEPT !.kind = "review", !.step = "council", !.version = current, !.n = 1]
  /\ UNCHANGED <<versions, current, status, issues, reports, councils, faults>>

Author == \/ \E s \in Sections : EditSection(s)
          \/ \E i \in issues : DismissIssue(i) \/ StartRevision(i)
          \/ StartReview

Next == /\ Work \/ Refuses \/ Advances \/ AttemptLost \/ Author
        /\ UNCHANGED environment

Spec == Init /\ [][Next]_vars

\* Workers run the activities they are given, Temporal delivers answers; no
\* agent is bound to refuse.
FairSpec == Spec /\ WF_vars(Work /\ UNCHANGED environment)
                 /\ WF_vars(Advances /\ UNCHANGED environment)

-----------------------------------------------------------------------------
(* Properties                                                              *)

\* Versions, issues and operations refer to rows that exist.
TypeOK ==
  /\ versions \in Seq(Version)
  /\ current \in DOMAIN versions
  /\ status \in Statuses
  /\ issues \subseteq Issue
  /\ reports \subseteq DOMAIN versions
  /\ councils \in Nat /\ faults \in 0..MaxFaults
  /\ op.kind \in {"none", "generation", "revision", "review"}
  /\ op.base \in {0} \cup DOMAIN versions /\ op.version \in {0} \cup DOMAIN versions
  /\ op.picked \subseteq issues \cup {Id(i) : i \in issues}
  /\ op.n \in 0..RetryLimit
  /\ environment \in Environments

\* The text of a completed version never changes again, although a generation
\* may still be writing while the author's edits make other versions current
\* (write_manuscript_section, revise_open_issues and edit_section only clone).
CompleteVersionsImmutable ==
  [][\A v \in DOMAIN versions : versions[v].status = "COMPLETE" =>
       /\ versions'[v].section = versions[v].section
       /\ versions'[v].written = versions[v].written]_vars

\* The versions form one line, each numbered and derived from the one before
\* it, although an edit and a revision may clone the same one: no author's text
\* is silently left on a branch (UniqueConstraint of manuscript_versions).
VersionsAreLinear ==
  \A v \in DOMAIN versions : versions[v].num = v /\ versions[v].parent = v - 1

\* What follows holds of an author who waits for operations to end, when nothing
\* is lost or refused; README, section 5, says what becomes of it otherwise.
Calm == environment = {}

\* What is handed to the author as READY_FOR_AUTHOR_REVIEW has been through the
\* council in its current version and has no open BLOCKING or MAJOR issue, also
\* after the author revised, edited or asked for another review
\* (finalize_manuscript_review).
ReadyIsReviewed ==
  ~Running /\ status = "READY_FOR_AUTHOR_REVIEW"
    => current \in reports /\ Majors(OpenIssues(current)) = {}

\* ReadyIsReviewed of a calm author and server.
ReadyWasReviewed == Calm => ReadyIsReviewed

\* Every operation ends, although an edit of the author makes a revision start
\* over on the version it lost against.
OperationEnds == Running ~> ~Running

=============================================================================

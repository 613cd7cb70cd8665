----------------------------- MODULE StudyLinking -----------------------------
(***************************************************************************)
(* Which study each report (a screened work) belongs to.                   *)
(*                                                                         *)
(* The activity link_studies gives every work of its operation a study of  *)
(* its own, then merges reports of one study: those that state the same    *)
(* trial registration at once, other candidates as StudyLinker judges      *)
(* them.  It runs in one transaction.  Until its first write that refers   *)
(* to the project (a new study, a decision, the run of an agent) it reads  *)
(* what is committed, statement by statement; from that write on it holds  *)
(* the project row KEY SHARE, and works on a private copy of the tables    *)
(* that PassCommits publishes and a failed attempt drops.                  *)
(* A human may link, separate or flag any built report as long as no pass  *)
(* holds the project, also between two reads of one: human_link_decision   *)
(* does not ask ensure_idle.                                               *)
(***************************************************************************)
EXTENDS Integers, FiniteSets, Sequences, Functions

CONSTANTS
  Works,        \* the reports that may pass title and abstract screening
  Registered,   \* pairs of works that state a common trial registration
  Strong,       \* pairs with a common sample size and two common authors
  Weak,         \* pairs with a common author
  Human,        \* does a human decide about links?
  Excludes,     \* may a work that was built fail screening later?
  MaxBuilds,    \* bound on the operations
  MaxDecisions, \* bound on the human decisions
  MaxFaults     \* bound on failed attempts and lost answers

Pairs == {{a, b} : a, b \in Works} \ {{a} : a \in Works}

ASSUME WorksAssumption == IsFiniteSet(Works)
ASSUME SignalsAssumption ==
  /\ Registered \subseteq Pairs /\ Strong \subseteq Pairs /\ Weak \subseteq Pairs
  /\ Registered \cap Strong = {} /\ Registered \cap Weak = {} /\ Strong \cap Weak = {}
ASSUME BoundsAssumption ==
  Human \in BOOLEAN /\ Excludes \in BOOLEAN /\ MaxBuilds \in Nat /\ MaxDecisions \in Nat /\ MaxFaults \in Nat

VARIABLES
  db,         \* the committed tables, see Tables
  op,         \* the operation: its works in order, and what it waits for
  pass,       \* the open transaction of link_studies, see Pass
  raced,      \* history: reports a human moved between a pass's reading of their
              \* study and what it did about that study
  builds, decisions, faults

vars == <<db, op, pass, raced, builds, decisions, faults>>

Statuses == {"CANDIDATE", "CONFIRMED", "NEEDS_REVIEW", "MERGED"}

\* study: the rows of studies, never deleted.  links: the rows of study_works,
\* <<study, work>>.  founded[w]: the study created for w.  linked[w]: the study of
\* the latest LINK decision about w.
Tables == [study : Seq([status : Statuses, supersededBy : Nat]),
           links : SUBSET ((Nat \ {0}) \X Works),
           founded : [Works -> Nat], linked : [Works -> Nat]]

StudiesOf(d, w) == {s \in DOMAIN d.study : <<s, w>> \in d.links}
ReportsOf(d, s) == {w \in Works : <<s, w>> \in d.links}

\* locked: the project row is held, and d is the private copy.  todo: the pairs to
\* come, at: the one in turn, left and right: the studies read for it, 0 before.
\* pairs: those put aside for the agent.
NoPair == <<>>
NoTables == [study |-> <<>>, links |-> {}, founded |-> [w \in Works |-> 0],
             linked |-> [w \in Works |-> 0]]
NoPass == [phase |-> "none", locked |-> FALSE, d |-> NoTables, todo |-> {}, pairs |-> {},
           at |-> NoPair, left |-> 0, right |-> 0]
Pass == [phase : {"none", "create", "link", "judge"}, locked : BOOLEAN, d : Tables,
         todo : SUBSET (Works \X Works), pairs : SUBSET (Works \X Works),
         at : (Works \X Works) \cup {NoPair}, left : Nat, right : Nat]

\* What the next statement of the pass reads.
Seen == IF pass.locked THEN pass.d ELSE db

NoOp == [state |-> "none", works |-> <<>>]

Init ==
  /\ db = NoTables
  /\ op = NoOp /\ pass = NoPass /\ raced = {}
  /\ builds = 0 /\ decisions = 0 /\ faults = 0

-----------------------------------------------------------------------------
(* Operations on the tables                                                *)

\* create_study
CreateStudy(d, w) ==
  LET s == Len(d.study) + 1 IN
  [d EXCEPT !.study = Append(@, [status |-> "CANDIDATE", supersededBy |-> 0]),
            !.links = @ \cup {<<s, w>>},
            !.founded = [@ EXCEPT ![w] = s]]

\* Mutation of Move: the row of w is copied, not moved.
Copy(links, w, from, to) == links \cup {<<to, w>>}

\* detach_work and attach_work: the row of w goes from one study to the other; a
\* row that is not there is not missed, one that is there already is kept.
Move(links, w, from, to) == (links \ {<<from, w>>}) \cup {<<to, w>>}

Superseded(study, s, by) == [study EXCEPT ![s] = [status |-> "MERGED", supersededBy |-> by]]
WithStatus(study, s, status) == [study EXCEPT ![s] = [@ EXCEPT !.status = status]]

\* Mutation of Merge: the decision is recorded against the absorbed study.
MergeMisrecorded(d, keep, absorbed, w) ==
  [d EXCEPT !.links = Move(@, w, absorbed, keep),
            !.study = Superseded(@, absorbed, keep),
            !.linked = [@ EXCEPT ![w] = absorbed]]

\* _merge: report w moves to the kept study, the absorbed one is superseded,
\* both as they were read.
Merge(d, keep, absorbed, w) ==
  [d EXCEPT !.links = Move(@, w, absorbed, keep),
            !.study = Superseded(@, absorbed, keep),
            !.linked = [@ EXCEPT ![w] = keep]]

-----------------------------------------------------------------------------
(* find_link_signals: pairs in the order of the operation's works, the     *)
(* strongest tier first.  A signal is <<left, right>>.                     *)

Listed(w) == w \in Range(op.works)
Precedes(a, b) == \E i, j \in DOMAIN op.works : i < j /\ op.works[i] = a /\ op.works[j] = b
SignalsIn(pairs) == {s \in Works \X Works : Precedes(s[1], s[2]) /\ {s[1], s[2]} \in pairs}

Tier(s) == IF {s[1], s[2]} \in Registered THEN 0 ELSE IF {s[1], s[2]} \in Strong THEN 1 ELSE 2

Earlier(s, t) ==
  \/ Tier(s) < Tier(t)
  \/ /\ Tier(s) = Tier(t)
     /\ Precedes(s[1], t[1]) \/ (s[1] = t[1] /\ Precedes(s[2], t[2]))

FirstOf(signals, s) == s \in signals /\ \A t \in signals \ {s} : Earlier(s, t)

-----------------------------------------------------------------------------
(* The transaction of link_studies                                         *)

PassBegins ==
  /\ op.state = "pending" /\ pass = NoPass
  /\ pass' = [pass EXCEPT !.phase = "create"]
  /\ UNCHANGED <<db, op, raced, builds, decisions, faults>>

\* A write that refers to the project waits for a human who holds it; humans wait
\* from then on.
Writes(d, done) == pass' = [done EXCEPT !.locked = TRUE, !.d = d]

Homeless(w) == Listed(w) /\ StudiesOf(Seen, w) = {}

\* Every work that has no study yet gets one, in the order of the works.
PassCreates(w) ==
  /\ pass.phase = "create"
  /\ Homeless(w) /\ \A x \in Works : Homeless(x) /\ x # w => Precedes(w, x)
  /\ Writes(CreateStudy(Seen, w), pass)
  /\ UNCHANGED <<db, op, raced, builds, decisions, faults>>

PassTurnsToSignals ==
  /\ pass.phase = "create" /\ \A w \in Works : ~Homeless(w)
  /\ pass' = [pass EXCEPT !.phase = "link", !.todo = SignalsIn(Registered \cup Strong \cup Weak)]
  /\ UNCHANGED <<db, op, raced, builds, decisions, faults>>

\* The pass with its pair behind it.
Past == [pass EXCEPT !.at = NoPair, !.left = 0, !.right = 0]

\* study_for_work for the left report of the next pair, then for the right one:
\* pairs of one study are passed over, and those without a common registration
\* put aside for the agent.
PassReadsLeft(s) ==
  /\ pass.at = NoPair /\ FirstOf(pass.todo, s)
  /\ \E study \in StudiesOf(Seen, s[1]) :
       pass' = [pass EXCEPT !.todo = @ \ {s}, !.at = s, !.left = study]
  /\ UNCHANGED <<db, op, raced, builds, decisions, faults>>

PassReadsRight ==
  /\ pass.at # NoPair /\ pass.right = 0
  /\ \E study \in StudiesOf(Seen, pass.at[2]) :
       \/ study = pass.left /\ pass' = Past
       \/ /\ study # pass.left /\ pass.phase = "link" /\ Tier(pass.at) # 0
          /\ pass' = [Past EXCEPT !.pairs = @ \cup {pass.at}]
       \/ /\ study # pass.left /\ (pass.phase = "judge" \/ Tier(pass.at) = 0)
          /\ pass' = [pass EXCEPT !.right = study]
  /\ UNCHANGED <<db, op, raced, builds, decisions, faults>>

\* A shared registration merges two studies without asking anyone.
PassLinks ==
  /\ pass.phase = "link" /\ pass.right # 0
  /\ Writes(Merge(Seen, pass.left, pass.right, pass.at[2]), Past)
  /\ UNCHANGED <<db, op, raced, builds, decisions, faults>>

PassTurnsToPairs ==
  /\ pass.phase = "link" /\ pass.todo = {} /\ pass.at = NoPair
  /\ pass' = [pass EXCEPT !.phase = "judge", !.todo = pass.pairs, !.pairs = {}]
  /\ UNCHANGED <<db, op, raced, builds, decisions, faults>>

\* run_agent stores the run first; StudyLinker says same, separate or uncertain
\* (or nothing usable) of the two reports.
PassJudges ==
  /\ pass.phase = "judge" /\ pass.right # 0
  /\ \E d \in {Seen, [Seen EXCEPT !.study = WithStatus(@, pass.right, "NEEDS_REVIEW")],
               Merge(Seen, pass.left, pass.right, pass.at[2])} : Writes(d, Past)
  /\ UNCHANGED <<db, op, raced, builds, decisions, faults>>

PassCommits ==
  /\ op.state = "pending" /\ pass.phase = "judge" /\ pass.todo = {} /\ pass.at = NoPair
  /\ db' = Seen
  /\ pass' = NoPass
  /\ op' = [op EXCEPT !.state = "linked"]
  /\ UNCHANGED <<raced, builds, decisions, faults>>

\* The attempt fails and rolls back, or its answer is lost after the commit:
\* it is retried, or the operation ends PARTIAL after the last attempt.
AttemptLost ==
  /\ op.state # "none" /\ faults < MaxFaults
  /\ faults' = faults + 1
  /\ pass' = NoPass
  /\ op' \in {[op EXCEPT !.state = "pending"], NoOp}
  /\ UNCHANGED <<db, raced, builds, decisions>>

\* calculate_study_progress counts; finish_operation ends the operation.
Finish ==
  /\ op.state = "linked"
  /\ op' = NoOp
  /\ UNCHANGED <<db, pass, raced, builds, decisions, faults>>

-----------------------------------------------------------------------------
(* Requests                                                                *)

\* build_studies: the works that passed screening under the latest protocol,
\* ordered by their first decision under it (a revised protocol reorders them).
Corpora == UNION {{f \in [1..n -> Works] : IsInjective(f)} : n \in 1..Cardinality(Works)}

BuildStudies ==
  /\ op.state = "none" /\ builds < MaxBuilds
  /\ \E works \in Corpora :
       /\ Excludes \/ \A w \in Works : db.founded[w] # 0 => w \in Range(works)
       /\ op' = [state |-> "pending", works |-> works]
  /\ builds' = builds + 1
  /\ UNCHANGED <<db, pass, raced, decisions, faults>>

\* human_link_decision locks the project row: not once link_studies has written.
Decides ==
  /\ Human /\ ~pass.locked
  /\ decisions < MaxDecisions
  /\ decisions' = decisions + 1
  /\ UNCHANGED <<op, pass, builds, faults>>

\* A study that has lost its last report is superseded.
SupersedeIfEmpty(study, links, s, by) ==
  IF \E w \in Works : <<s, w>> \in links THEN study ELSE Superseded(study, s, by)

\* The pass has read the study of report w, and has yet to act on it.
ReadByPass(w) == pass.right # 0 /\ pass.at[2] = w

\* LINK to any study of the project: the current one (nothing moves), or a
\* superseded one, which is CONFIRMED by that.
HumanLinks(w, target) ==
  /\ Decides
  /\ \E current \in StudiesOf(db, w) :
       LET links == Move(db.links, w, current, target)
           study == SupersedeIfEmpty(db.study, links, current, target)
       IN /\ db' = [db EXCEPT !.links = links,
                              !.study = WithStatus(study, target, "CONFIRMED"),
                              !.linked = [@ EXCEPT ![w] = target]]
          /\ raced' = IF target # current /\ ReadByPass(w) THEN raced \cup {w} ELSE raced

HumanKeepsSeparate(w) ==
  /\ Decides /\ UNCHANGED raced
  /\ \E current \in StudiesOf(db, w) :
       db' = [db EXCEPT !.study = WithStatus(@, current, "CONFIRMED")]

HumanIsUncertain(w) ==
  /\ Decides /\ UNCHANGED raced
  /\ \E current \in StudiesOf(db, w) :
       db' = [db EXCEPT !.study = WithStatus(@, current, "NEEDS_REVIEW")]

-----------------------------------------------------------------------------
Next ==
  \/ PassBegins \/ PassTurnsToSignals \/ PassReadsRight \/ PassLinks
  \/ PassTurnsToPairs \/ PassJudges \/ PassCommits
  \/ AttemptLost \/ Finish \/ BuildStudies
  \/ \E w \in Works : PassCreates(w) \/ HumanKeepsSeparate(w) \/ HumanIsUncertain(w)
  \/ \E s \in Works \X Works : PassReadsLeft(s)
  \/ \E w \in Works, t \in DOMAIN db.study : HumanLinks(w, t)

Spec == Init /\ [][Next]_vars

-----------------------------------------------------------------------------
(* Properties                                                              *)

\* The tables and the pass are of the shape that the code gives them.
TypeOK ==
  /\ db \in Tables
  /\ op \in {NoOp} \cup [state : {"pending", "linked"}, works : Corpora]
  /\ pass \in Pass /\ raced \subseteq Works
  /\ builds \in 0..MaxBuilds /\ decisions \in 0..MaxDecisions /\ faults \in 0..MaxFaults

\* The study the audit trail names for report w: that of its latest LINK
\* decision, or the one created for it.
Named(d, w) == IF d.linked[w] = 0 THEN d.founded[w] ELSE d.linked[w]

\* A built report is in the study the audit trail names (study_link_decisions),
\* whatever passes and humans do to it between each other's reads and writes:
\* no report is lost, and none is where no decision put it.
Explained(d) == \A w \in Works : d.founded[w] # 0 => Named(d, w) \in StudiesOf(d, w)

\* The audit trail explains where every report is.
MovesAreExplained == Explained(db)

\* Only a human's move in the middle of a pass, after the pass read the study of
\* the report and before it acts on it, can leave a report in a second study
\* (_merge detaches the row it expects and attaches another): otherwise a report
\* is in no study but the one named, and its evidence is not counted twice.
OneStudyEach(d, others) ==
  \A w \in Works \ others : \A s \in StudiesOf(d, w) : s = Named(d, w)

\* A report that no human's move met in a pass is in one study.
OneStudyUnlessRaced == OneStudyEach(db, raced)

\* A report that was built stays in the corpus of studies (studies_for_project):
\* its study is not a superseded one.
CorpusKeepsReports ==
  \A w \in Works : \A s \in StudiesOf(db, w) : db.study[s].status # "MERGED"

=============================================================================

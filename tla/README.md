# RanahResearch in TLA+

RanahResearch drafts systematic reviews. A member of a project gives commands
(plan, search, screen, link studies, extract, write) through a FastAPI service;
each command becomes an *operation*, a row of `workflow_runs` and a Temporal
workflow of the same id, whose activities ask providers and language models and
write to PostgreSQL. PostgreSQL is the canonical state; Temporal delivers
activities at least once. This directory models how the parts that keep
state behave when requests, activities, retries and humans overlap.

The models are written from the code: `PROJECT.json` names, for each definition,
the lines it stands for. What a language model says, what a provider returns and
what a document contains is always a choice over the outcomes the code tells
apart.

## 1. The system

Below, `api` is `apps/api/src/ranah_api`, `worker` is
`workers/orchestration/src/ranah_worker_orchestration`, `domain` is
`packages/domain/src/ranah_domain`, `literature` is
`packages/literature/src/ranah_literature` and `documents` is
`packages/documents/src/ranah_documents`.

| component | code | state it keeps | what must be right |
|---|---|---|---|
| operation lifecycle | `api/projects.py`, `worker/research_activities.py`, `*_workflows.py` | `workflow_runs`, Temporal's executions | one operation at a time, inputs do not change under it, it ends, and stays ended |
| planning | `api/projects.py`, `generate_research_artifact` | ideas, plans, strategies | only approved, current plans are searched |
| discovery | `worker/discovery_activities.py` | `search_queries`, `search_runs`, the operation's details | no answer lost, no claim of completeness that the runs do not support |
| normalization, deduplication, verification | `literature/normalization.py`, `deduplication.py`, `persistence.py`, `verification.py` | works, provider records, duplicate matches | one canonical work per publication |
| screening | `api/screening.py`, `worker/screening_activities.py`, `fulltext_screening_activities.py` | protocols, `screening_decisions` | decisions under the approved version, humans win, the corpus was read |
| full text | `api/fulltext.py`, `worker/fulltext_activities.py`, `parsing_activities.py`, `documents/*` | acquisitions, assets, parsed documents, chunks | an asset that exists is known, parsing is repeatable |
| study linking | `api/studies.py`, `worker/study_activities.py`, `domain/repositories/study.py` | studies, `study_works`, link decisions | every report in one study of the corpus |
| evidence | `api/evidence.py`, `worker/extraction_activities.py`, `validation_activities.py`, `packages/evidence` | schemas, evidence, provenance, verifications | one current value per field, conflicts are not hidden |
| risk of bias | `api/risk_of_bias.py`, `worker/risk_activities.py` | assessments, judgements | one current assessment, humans win |
| manuscript | `api/manuscripts.py`, `worker/manuscript_activities.py`, `manuscript_workflows.py` | manuscripts, versions, sections, review issues, claims, exports | versions are immutable and reviewed, the author's word stands |
| agents, LLM gateway | `packages/agents`, `packages/llm` | `agent_runs` | an output is validated before it is stored |
| web | `apps/web` | none | polls unfinished operations |
| worker process, Temporal, database set-up | `worker/worker.py`, `packages/workflow`, migrations, `infra` | configuration | registration, retry policy |

How they interact:

* A request runs in one transaction under `session_scope`. A request that starts
  an operation or changes an input locks the project row (`scoped_project(write=
  True)`) and asks `ensure_idle`; `start_operation` inserts the row PENDING,
  commits, and only then tells Temporal. `get_operation` dispatches a PENDING row
  again, without a lock.
* A workflow calls activities one after the other (`call`: ten minutes per
  attempt, `RETRY` of three attempts), announces stages with
  `set_operation_stage`, and ends with `finish_operation` in both branches of its
  `try`.
* An activity opens one or several transactions. `research.operation` locks the
  operation's row and does *not* look at its status, so an attempt that Temporal
  gave up on goes on, also after the operation ended. Events and agent runs refer
  to the project and share its row (KEY SHARE), which conflicts with the lock of
  a request.
* Humans decide, correct, edit and dismiss. Some of these requests ask
  `ensure_idle` (revising a protocol), some do not (decisions about works and
  links, edits of sections, dismissals), and those meet running activities.

Hard, therefore: late and repeated attempts, lost answers, stale reads around a
model call, two operations overlapping through a late attempt, humans acting in
between, partial failure of a pipeline, and sequences of legal commands that
combine into a state nobody looked at. `PROJECT.json` lists these hazards by line, with
the properties that would notice each going wrong.

## 2. Modules

Every component module is a state machine with `Init`, one action per
transaction (or per part of one where the lock does not cover it), `Next`, `Spec`
and, where something must eventually happen, `FairSpec`. Definitions marked
"Mutation of" are variants of a definition with a plausible bug; they show that a
property notices it. `MC...` modules give the constants their values.

| part of the system | modules | composed with |
|---|---|---|
| operations | `OperationContract`, `Operations`, `OperationsProofs` | `Operations` implements the contract |
| discovery | `Discovery`, `LiteratureProofs` | |
| works and duplicates | `Literature`, `LiteratureProofs` | |
| screening | `Screening`, `ScreeningProofs` | |
| documents | `FullText`, `FullTextProofs` | |
| studies | `StudyLinking`, `StudyLinkingProofs` | |
| evidence and risk of bias | `StudyWork`, `Evidence`, `RiskOfBias`, `Appraisal`, `AppraisalProofs` | `Appraisal` runs both on the same studies, over the protocol of `StudyWork` |
| synthesis to the prepared manuscript | `Synthesis`, `SynthesisProofs` | |
| manuscript | `ManuscriptReview`, `ManuscriptReviewProofs` | |

Operations has the lifecycle that all commands share, with everything that can
happen to the row of an operation, a late `set_operation_stage` included. The other
modules take one rule over from it: a new operation starts only when the last one
ended (`ensure_idle`, theorem `SingleFlight`). An attempt of the ended one may still go
on where a module says so (`Late`, `LateAttempts`, `overlap`). A reopened row, after
which no command is accepted, is in Operations only.

### OperationContract and Operations

`OperationContract` is what a client of the API may rely on: an operation is
absent, queued, working, finished, in this order, and one at a time; where `Reopens`
says so, a finished one may be shown as running again, which nothing ends.
`Operations` is how the code does it, and implements the contract under the mapping
`PhaseOf`. The mapping looks at what clients and `ensure_idle` look at, the status: a
row that is RUNNING although `completed_at` is set is `reopened`, not finished.
`Reopens` is `LateAttempts \/ StaleDispatch`: a late `set_operation_stage` and a
second execution reopen rows, and nothing else does (`OnlyLateStagesReopen`).

| module | code |
|---|---|
| `row` | `workflow_runs`: status, stage, `completed_at` set or not |
| `input`, `basedOn` | the inputs edits change, and what an operation was started from |
| `projectLock`, `client` | the lock of the project row, and what each request is doing |
| `wf`, `live` | Temporal's execution of each workflow id, and the attempts that workers have |
| `made` | artifacts stored, by operation and agent |
| `StartChecks`, `StartCommits` | `scoped_project`, `ensure_idle`, then `start_operation` |
| `EditChecks`, `EditCommits` | `add_idea`, and every edit of that shape |
| `Polls`, `DispatchArrives`, `DispatchLost` | `get_operation`, `dispatch` |
| `SetOperationStage`, `GenerateResearchArtifact`, `FinishOperation` | the activities |
| `AnswerArrives`, `AttemptFails`, `TimesOut` | Temporal: the workflow's next step, its `except` branch, retries |

`LateAttempts` lets an attempt that timed out commit later, `StaleDispatch` lets
a workflow id start again after its execution closed (the server's default).

### Screening

The protocol's versions, rounds over a fixed list of works, and the rows of
`screening_decisions` by version, stage and work, in the order they were written.
A batch is an attempt with works to do; `TakeWork` begins the transaction for one
(the row of the round is locked and the work is still undecided), `Decide` ends
it after the agent has read. Between the two a human may decide: at the row of
*another* round of the same version (the row a decision refers to is not locked),
not at the same. `Effective` is `effective_decisions`, `FinalIncluded` is
`final_included_work_ids`.

### StudyLinking

`db` holds the tables `studies` and `study_works` and, of the decisions, what the
audit needs. `pass` is the transaction of `link_studies`. It takes no lock of the
project before its first write that refers to it (a new study, a link decision, the
run of an agent), and reads statement by statement what is committed until then
(`Seen`); from that write on the row is shared (`locked`), humans wait, and the pass
works on a copy that `PassCommits` publishes. `PassReadsLeft` and `PassReadsRight` are
`study_for_work` for a pair; `PassLinks` and `PassJudges` act on what was read, so a
human may move the report in between, or empty the study that is then marked
NEEDS_REVIEW or MERGED. `raced` remembers the reports that were moved like that. The
writes of one `_merge` are one step, once it has the project; where they would meet a
human's rows in another order, PostgreSQL aborts the attempt (`AttemptLost`).
The signals between works (a shared registration, a resembling report) are relations
given as constants, and the order of the works, which decides who is left and right of
a pair, is chosen by `BuildStudies`.

### Discovery

One search: an attempt of `execute_provider_search` waits for the lock of its
query (`LockQuery` or `FindRun`), asks the provider under it and stores a run
(`StorePage`), or fails and is retried while the lost one may go on. Then the
workflow: `Gather`, `RecordFailure`, `Normalize`, `Deduplicate`, `VerifyOne` per
work, `ReadRuns` and `FinishDiscovery` (the two transactions of
`finalize_discovery`). `Abort` is the `except` branch.

### Literature

`works` are the rows of `work_records` with the identifiers and provider records
attached to them, `groups` the duplicate groups. `BeginNormalize` takes the
project's lock; `NormalizeOne` looks up the work of one candidate that providers
returned (`SameWork`: by DOI, by an identifier, by the provider's own record, in
this order), or makes one (`Persist`), in the attempt's own view of the table, those
with a DOI first; `CommitNormalize` publishes the view.
`BeginDeduplicate` compares all works, without the lock (`Matches`: shared
identifiers are merged, look-alike titles are left for a review). `DeduplicateOne`
takes one pair after the other: it asks for a group among the committed ones
(`find_group_containing_pair`, which locks nothing), and inserts one, which refers to
the project and waits for whoever has locked it; `CommitDeduplicate` publishes them.
Ids of works are random in the code: `Literature` gives a new work any free id. `Corpus`
is what `canonical_ids` leaves to be screened. Similarity of titles, years and authors
is the relation `Resembling`.

### FullText

`acquisitions` and `assets` are the rows of a work; an asset is a content (its
sha256), a status and the number of its parsed documents. An upload takes the
project (`BeginUpload`) and commits when nobody holds the row of the work
(`CommitUpload`). An acquisition reads (`TakeWork`), makes the row SEARCHING and
so holds it (`Search`), downloads (`Download`) and stores outcome, asset and event
(`CommitWork`); the event refers to the project and waits for uploads.
`Deadlocked` is the cycle the two can form, and `AbortUpload` and
`AbortAcquisition` are PostgreSQL's way out; `RowExists` is the refused insert of a
row that appeared meanwhile. `ReadAsset` is one transaction of `parse_assets`.

### StudyWork, Evidence, RiskOfBias and Appraisal

`StudyWork` is the protocol that extraction, review of evidence and appraisal
share: a batch of studies, one transaction per study (`MayTake` under the lock of
the operation, then `Ask`, then the storing action of the component), retries and
late attempts, and requests that wait for the project while an agent is asked.
`Evidence` has the schemas and, per study and field, the rows of
`evidence` with their links `superseded_by`: `ReadOldRows` after the agent
answered and `StoreEvidence`, `Validate` (the deterministic rules), `StoreReview`
(a verdict is not written over a conflict that was read), `Correct`. `RiskOfBias`
has the designs and the numbered assessments: `StoreAssessment`, `NumberTaken`
(the unique index on study and version), and the human's `Review` and `Classify`.
`Appraisal` composes the two: operations of either kind over the same studies.

### Synthesis

The stages before the text: `CheckReadiness`, then synthesis, claims and plan,
each from what the operation already noted in its `details`, from what the project
has, or from an agent, and `PrepareManuscript`. A stage reads the tables
(`BeginSynthesis`, `BeginClaims`, `BeginPlan`), which locks its operation and not the
project; with the row of its first agent run it shares the project (`AsksAgent`), and
stores what the agents answered (`StoreSynthesis`, `StoreClaims`, `StorePlan`).
Values are corrected and syntheses approved, which no endpoint forbids during an
operation, before a stage shares the project or after it: `missed` remembers the
corrections between its reading and its agents.

A synthesis belongs to the primary research question that was current when its
operation began. Versions are numbered, and older ones superseded, for each question
(`OfQuestion`, `Versions`); what is reused and shown is the highest version of the
project, of any question (`Shown`). `Replan` brings a new question. A number is read
before it is inserted (`ReadVersions`), and the unique constraint decides
(`NumberIsFree`, `NumberTaken`). A claim may name the finding of any synthesis, as
`validate_claims` asks only for the rows it cites.

### ManuscriptReview

`versions` are the rows of `manuscript_versions` with their sections, `issues` the
rows of `review_issues`, `op` the running workflow with what its transaction has
read. `ReviseReads` and `ReviseCommits` are apart because the agent runs in
between, and so are `FinalizeReads` and `FinalizeCommits`. The author edits,
dismisses, asks for a revision and for another review; `environment`,
chosen once per behaviour from the constant `Environments`, says which
of lost answers, refusals, edits and dismissals may happen during an operation.

## 3. Runs

Each run is TLC's exhaustive search of one instance (`tlc -config X.cfg M`).

| run | shows |
|---|---|
| operations_hostile | with late attempts, lost answers, failures, stale dispatches and two clients: frozen inputs, each artifact once and before COMPLETED, the refinement of `OperationContract`, which is one unfinished operation at a time, and who may reopen a finished one |
| operations_progress | two agents, failures fewer than an activity has attempts, nothing late: finished stays finished, and every accepted operation is finished |
| discovery | two queries, two records, three attempts each, late attempts: what was found is kept, the status is true of the runs, and the search ends |
| literature | two searches for one or two of five records, with late attempts: one work per DOI, known records make no new work, merging loses no publication |
| screening | two works, two versions, two rounds, a human and a late attempt: who decided what, under which version, on which text, and that rounds end |
| full_text | two works, two documents, two operations, two uploads: bytes are on file once, AVAILABLE is held, and neither an upload nor an operation lasts for ever, although the two deadlock |
| studies_everything | three works that resemble each other, two builds, a human with two decisions at any moment before a pass writes, a retry: who can get a report into two studies, and that its latest decision names one it is in |
| studies_chained (violation) | two shared registrations and a second build in another order: a report ends in a MERGED study |
| appraisal | two studies, two protocols with different schemas, extraction and appraisal, a human, retries and late attempts: current values, refuted values, corrections, what COMPLETED means, and one appraisal per tool |
| synthesis | two operations of any kind, two claims at a time; a correction, an approval or a new question meanwhile, a retry or a late attempt: one active synthesis for each question, nothing made twice, claims on current values, manuscripts on verified claims |
| manuscripts | with the environments below: versions form one line, completed ones do not change, operations end, and in the calm environment READY was reviewed and has no open MAJOR issue |
| manuscripts_lost_answer (violation) | the answer of a committed revision is lost; the retry finds nothing to do, and the version is READY without a review |

Every property of a passing run has a mutant in `PROJECT.json`: a variant of one
definition with a plausible bug, under which TLC finds the property violated in
the same instance.

### Bounds, and why they are enough

* *Operations*: two operations and two clients give every pair of requests, and
  of an old workflow with a new operation. Two runs per workflow id and two
  faults show one re-dispatch and one late attempt at the same time; one agent is
  enough there, and the other instance has two. The two operations, and the two
  clients, are symmetric.
* *Discovery*: two queries give every mixture of complete, partial and failed;
  three attempts, as in the code, let two late ones meet a live one.
* *Literature*: the five records are chosen so that each way of meeting again
  happens: a DOI that appears later, a DOI shared with another provider, an
  identifier shared under another title, titles that are alike. Four ids let every
  order of creation be an order of ids, and allow for one work more than there
  are publications.
* *Screening*: with two works and two rounds a late attempt of a titles round
  meets a full-text round, or one under the next version; more works only repeat.
  Batches of two let an attempt hold a second work while the first is decided.
  The agents and the human say INCLUDE or EXCLUDE: UNCERTAIN passes titles as
  INCLUDE does and is not in the final corpus, as EXCLUDE.
* *FullText*: one work can be downloaded and the other has nothing but an
  abstract, one document is legible and the other is not; two uploads and two
  operations are the least for a document that arrives during and after an
  acquisition. Two attempts of the code's three, as the third adds no order.
* *StudyLinking*: three works are the least for a chain of two merges; two
  human decisions empty a study under a pass and fill it again, or move two reports.
  Two builds meet the studies of the first in another order.
* *Appraisal*: the second protocol drops one study and one field, so that
  superseded rows with and without a successor occur. The field `effect` is
  reported missing, `design` sound, broken or doubtful, which is all that the rules
  and the reviewer tell apart. Two operations give an extraction after an
  extraction, after an appraisal, and a late attempt beside the next one; one
  human action meets each of them. An environment has two attempts, or one that
  goes on after its operation.
* *Synthesis*: one value with its corrections; two claims, of which one may be
  accepted and one rejected; two operations reuse, replace and race with each other's
  results. `MaxHuman` bounds corrections, approvals and new questions together: one of
  them comes at any moment. Two questions are the least for a version number that two
  syntheses have. Evidence is reviewed again, and the review completed or left, before the
  last operation only: it is the next operation that asks for either.
* *ManuscriptReview*: two sections make a half-written version, three versions
  allow an edit against a revision and one more, two councils the first review and
  one after it. The environments are calm, lost answers with edits, refusals with
  edits, and lost answers with dismissals. One issue per council: each issue is
  handled on its own.

Retries, revisions and decisions are unbounded in the code or bounded by policy;
each constant named `Max...`, `Revisions`, `RetryLimit` or `Retries` is a bound of
the instance. The proofs hold for all values. Deadlock checking is off where an
instance may stop: every operation has ended and the bounds allow no more.

### Fairness

* Operations: a transaction that holds the project ends; a dispatch ends; as long
  as a row is PENDING somebody polls it (`apps/web/app/page.tsx` polls every 1.5
  seconds); a worker runs the attempts it is given and Temporal delivers answers.
  Nothing obliges a failure or a timeout.
* Screening, Discovery, ManuscriptReview: weak fairness of the workers' steps
  together (ManuscriptReview: of activities and of the workflow apart), no human
  or fault is obliged to act, and no agent is obliged to refuse.
* FullText: weak fairness of the workers, of an upload that began, and of the
  database's detection of deadlocks, which PostgreSQL runs after one second. The
  database may choose either victim.

`AcceptedIsFinished` is checked with fewer faults than one activity has
attempts. Without that, it is false by design of `call` in the `except` branch
(`research_workflows.py:38`): if `finish_operation` itself fails three times, in
an outage of the database, the row stays RUNNING and nothing picks it up again.

## 4. Proofs

tlapm checks all of them from nothing; none of the constants is bounded in them.

**OperationsProofs.** `Inv` adds to the type invariant, `AtMostOneUnfinished` and
`InputsFrozen` what makes them inductive: `Locking` (a request between its check
and its commit holds the project, and what it read is still so) and `Rows`
(unfinished rows are seen by `ensure_idle`, Temporal only knows committed rows).
The row of an operation is changed only by set-stage and finish (`RowStep`), of
which neither makes a finished row unfinished, as unfinished is a matter of
`completed_at`. From `Inv` follow `SingleFlight` and `FrozenInputs`. For `Refinement`,
each step is a step of the contract or leaves the phases; that nothing is reopened in
the environment without late attempts and stale dispatches needs `CalmInv`: the only
attempt at work is the one Temporal waits for, and a finished row's workflow is past
`finish`. `ReopeningIsLate` is about every environment: an attempt is of an execution
and a step that were reached (`AttemptsAreOfThePast`), and a finished row was finished
by an execution past its stages, so who sets a stage on it is not waited for, or is of
a second execution. `OneArtifactPerAgent` rests on `ArtifactInv`: an execution
or an attempt that is past an agent's step finds that agent's artifact stored
(`Reached`, `AnswersAreTrue`), and who finds one stored makes no other.

**StudyLinkingProofs.** Tables are `Sound` up to a set of reports: types, references,
moves explained, and one study per built report outside that set. `CreateStudySound`,
`MergeSound`, `MovedSound` and `StatusSound` show that each operation on the tables
keeps them so. The invariant says that the committed tables and the copy of an open
transaction are sound up to `raced`, and that the study a pass has read for a report is
the report's, unless a human moved it since: then the report is one of those left out,
and `MergeSound` allows for it.

**LiteratureProofs.** *Literature*: one attempt normalizes at a time
(`OneNormalizes`), as it holds the project. Its table `Extends` the works: those on
file are in it with all they are known by, and every other was made for a record
`Unheard` of. `PersistExtends` is the lemma on one candidate: who finds no work by
DOI, identifier or record makes one whose DOI is new; who finds one adds to it and
changes no DOI. `CommittedTable` says that what is committed is the table, since
nobody changed the works meanwhile. Hence `OneWork` and `NewsMakesWorks`. For
`MergingLosesNothing`: a merge takes a work out of the corpus, and merges of many
searches could take out the last of several works that are one publication. They do
not because every pair in a group, and every pair an attempt has compared and not
stored, has its canonical work at the lower id, as `deduplicate_discovery` reads works
in the order of their ids. A set of works that is closed under merging has a lowest id
(`LowestId`, from the library's well-foundedness of the naturals), and whoever removed
that one would be lower (`LowestStays`).

The module also holds the theorems of *Discovery*, which it extends next to Literature;
each theorem is about one of the two specifications. `OneLocker` and `LiveIsAwaited`
say who may write a run, `StoredByStage` that every query has one before normalization,
`DoneByStage` what each stage leaves. Late attempts find a run once the stage is past
recording, which is why nothing arrives after it (`NothingArrivesLate`) and why the
status that was read off the runs is still true of them when it is stored
(`HonestStatus`).

**ScreeningProofs.** Rows of decisions are only added, one at a time, by an attempt or
a human (`WhoWrites`, `RowAdded`). What they may say follows from the round: one that
has not ended is under the latest protocol, approved (`RoundIsSound`), because a
protocol is revised between rounds only; a live attempt belongs to a running round,
which waits for no other (`OneIsAwaited`); and a full-text round contains who passed
the titles, which nobody loses as rows stay (`DecidedGrows`). From these follow
`ProtocolIsFollowed` and `CorpusWasRead`. `HumansPrevail` is that a row added later
never comes before the last one of a human (`LastPosition`), and `CorpusStays` that no
answer follows that of an agent but the one which was due before there was a document.

**ManuscriptReviewProofs.** Versions are appended by edits and by revisions. An edit
holds the project and clones the current version, which is the newest one
(`NewestIsCurrent`); a revision that cloned a version which is no longer the newest
finds its number taken and loses (`FreeNumberIsNext`, `CloneContinues`), so the
versions are one line. Nothing is written in place but sections of version 1 by the
generation, while that is a draft (`WritesADraft`), so a completed text stands. The
invariant also says that what a transaction has read ends with it (`ReadsEnd`).
`HandedOverReviewed` is about the calm environment (no refusal, no lost answer, an
author who waits) and needs a second invariant, `CalmInv`: the operation works on the
current version, from the end of a council to the change of the text that version has
been read, and while text is written or the version completed the status is not READY.
It assumes `AttemptsSuffice`, that no activity uses up its attempts: an operation that
is given up after its text has changed leaves READY as it was, and TLC shows it when
the instance allows as many faults as attempts.

**FullTextProofs.** Whether the bytes are on file is asked before the insert. The
model leaves out the unique constraint (`work_id`, `sha256`) that would refuse a second
row, because an insert that met it would be an error nobody handles; the theorem is that
none does. `OneHolder` says that from the SEARCHING update
to its commit one transaction has the row of the acquisition, for which an upload
waits as well; hence what a transaction found out about the bytes remains true until
it stores them (`FoundIsTrue`), and neither `OneAssetPerContent` nor `AvailableIsHeld`
can break in between. `OneMoves`, `NobodyMoves` and `OneWorkWritten` carry the
argument for the steps that look alike.

**AppraisalProofs.** An assessor reads the latest version, and may store its proposal
long after, next to other attempts and to humans. What it has read stays true: versions
are only added, so the one it saw keeps its tool (`Saw`, `VersionsStay`). If another
came since, the number it would take is taken (`NumberIsFree`) and it aborts; else
the latest version is the one it saw, whose tool is not its own (`AgentsDoNotRepeat`).

For the evidence there are three layers. `WorkInv` says what operations and attempts
are to each other: the last operation is the only one that runs, one attempt is awaited
at a time, an attempt's studies are of its operation's corpus. `HistoryInv` says that
rows are of schemas that exist and superseded by later rows of their field; with it
follows `TypeCorrect`. Both hold with late attempts. `CalmInv` holds where no attempt
outlives its operation (`~overlap`, as the four properties say themselves): one
transaction is at work, what it has read of a study is still so when it stores
(`Reads`), the current rows of a study are of one schema and all of it (`Whole`), the
corpus is attempted before it is validated (`CalmOp`), and after validation every
refuted value is marked as a conflict (`Marked`), which the reviewer reads and does not
write over. From `Sound` follows `OneValuePerField`; from `CalmOp`
and `Whole`, `CompletedIsWhole`; from what each kind of step writes
(`StepsOfHistory`), `HumansAreKept`: until a human or a newer schema replaces what a
human corrected. `FieldsAssumption` says what the default schemas of
`packages/evidence` grant: no schema is without fields.

**SynthesisProofs.** One attempt of an operation is between its reading and its storing
at a time (`Turns`), and what it makes is missing in the operation's details (`Holds`);
attempts of an earlier operation may go on. Each row it has read is current or its value
is among the `missed`, which grow only before the agent is asked; hence
`ClaimsAreCurrent`. No detail is written twice (`NothingMadeTwice`). The number of a
synthesis was read earlier: if it is still free, no synthesis of the question was stored
since, those that were active are the ones the attempt supersedes, and the new one is
the highest of its question (`NewestCounts`, for each question). `OperationInv` says
that the details of an operation name rows that are there, each made from the one before,
and that claims in them were accepted, which gives `OnlyVerifiedClaimsAreWritten`.

Assumptions on constants are those the modules state (`...Assumption`): sets are
finite, bounds are naturals, signals are relations between works, ids of works are
ordered as naturals are.

`SingleFlight`, `OneVerification`, `FailureIsFinal`, `EveryAnswerCounts`,
`SearchesAreTyped`, `CorpusStays` and the `TypeCorrect` theorems of Operations,
StudyLinking, Screening and FullText are proved, and no run repeats them. Two
answers about one work need three rounds, more than the run of Screening has.

Only model-checked: liveness under fairness (`AcceptedIsFinished`, `RoundsEnd`,
`OperationEnds`, `DiscoveryEnds`, `NothingLastsForever`), which is out of the
prover's reach, as ENABLED and induction over data are; `FinishedStaysFinished` and
`NoBrokenValueIsVerified`, which speak of environments where nothing is late. Every
other invariant, action property and refinement of a passing run is stated by a theorem.

## 5. Where code and documents disagree

The two violation runs are disagreements kept as runs; `PROJECT.json` quotes
the sentence each contradicts. The models show the following too, which are
written down here and not kept as runs.

* *Operations*. An attempt of `set_operation_stage` that timed out commits after
  `finish_operation`, or a poll that read PENDING dispatches after the workflow closed:
  the finished row goes back to RUNNING (`worker/research_activities.py:93`,
  `api/projects.py:530`). The next `finish_operation` returns early as `completed_at` is
  set (`worker/research_activities.py:103`), and `ensure_idle` refuses every later
  command. `docs/TECHNICAL_ARCHITECTURE.md:729` says "Long-running activities must be
  idempotent." A `finish_operation` that fails three times
  leaves the operation unfinished (`worker/research_workflows.py:38`).
* *Screening*. A work excluded with FULL_TEXT_UNAVAILABLE is never read again when
  its document arrives (`worker/fulltext_screening_activities.py:49`, `:64`), and a late
  attempt that found no document may exclude a work the agent has included. One work whose
  agent always fails ends every round PARTIAL at the same place (`:118`). A human
  may exclude a title after the work was included in full, and
  `final_included_work_ids` reads full texts only (`domain/repositories/screening.py:107`).
* *StudyLinking*. A report that a human moves between the reads of a pass and its first
  write is in two studies afterwards (`worker/study_activities.py:322`): `_merge`
  detaches it from where it was and attaches it once more. KEEP_SEPARATE is recorded
  and not consulted by the next build (`worker/study_activities.py:166`).
* *FullText*. A document uploaded while an acquisition downloads is stored, and the
  acquisition's RETRIEVAL_FAILED or UNAVAILABLE is written over AVAILABLE
  (`worker/fulltext_activities.py:66`); what holds is the other direction,
  `AvailableIsHeld`. A retry of `parse_assets` parses its batch again, while
  `tests/test_parsing_slice.py:185` says "Re-running parses nothing new rather than
  duplicating the document." An upload that commits between an acquisition's select
  and its SEARCHING update loses its entry in the list of attempts
  (not modelled).
* *Evidence*. An attempt that goes on after its operation and the next extraction
  leave two current rows of a field (`worker/extraction_activities.py:206`), while
  `docs/EPIC_023_029_IMPLEMENTATION.md:62` says "Re-running the same schema does not
  create duplicate current evidence." `CalmOneCurrentPerField` is the promise that
  does hold, of retries within an operation. A reviewer that goes on after its operation
  writes its verdict over the CONFLICT that the next operation's validation found
  (`worker/validation_activities.py:206`), where the line before says "A deterministic
  error is never downgraded by a model's opinion." The rules about arms and events need
  fields that no default schema has.
* *Risk of bias*. A design that is changed and changed back lets an agent propose
  over an approved assessment of the first tool: `AppraisedOncePerTool` speaks of
  the latest one only.
* *Synthesis*. After a new research plan the new question's version 1 is hidden by the
  older question's, whose syntheses stay active with higher numbers
  (`worker/manuscript_activities.py:299`, `api/manuscripts.py:146`): operations that
  reuse a synthesis take the older one. A correction between the reading of
  the evidence (`worker/manuscript_activities.py:459`) and the first agent run is missed
  by the claims. Evidence that is corrected between readiness and synthesis is still
  synthesized, unverified (`worker/manuscript_activities.py:264`); claims of an earlier
  operation are used again although what they cite was superseded since. "Conflicted
  evidence will be treated as uncertainty, not support" (`:269`) is a sentence of a
  warning that no validator enforces.
* *ManuscriptReview*. A section is refused, the author edits: the clone says
  COMPLETE with sections nobody wrote (`api/manuscripts.py:485`, against
  `worker/manuscript_activities.py:896`). An issue that is dismissed while the agent
  revises becomes RESOLVED (`worker/manuscript_activities.py:1223`). An edit during the
  council makes `finalize_manuscript_review` judge a version that the council has not
  read (`:1251`). An operation that is given up, because an activity failed three
  times after the text was changed, leaves the status that the manuscript had, READY
  included, on a version that the council has not read.
* *Literature*. A pair grouped REVIEW_REQUIRED for its titles is not merged when a
  later search shows a shared DOI (`literature/persistence.py:164`), and no
  endpoint resolves it. Ids are random, so a new work may become canonical over one
  that was screened, which then leaves the corpus (`domain/repositories/screening.py:35`).

## 6. Not modelled

* Planning (ideas, plans, strategies): two approvals with their checks; Operations
  covers their locking and the freezing of what an operation was started from.
* Providers and HTTP, parsers, chunking and the ranking of passages, budgets and
  routing of the LLM gateway, prompts: no protocol, or pure text. A provider is a
  page or a failure, a document is legible or not, an agent's answer is a choice
  over what its validation accepts, or a refusal.
* In Discovery, an activity after the searches that goes on after `Abort`; in
  Screening, the order of the works and the cycle of locks between a decision and a
  worker, of which only the abort is modelled; in FullText, the list of attempts; in
  ManuscriptReview, exports, and reviews that find several issues at once; in
  Literature, records without an id of their provider.
* In the modules other than Operations, a late `set_operation_stage` and what follows
  from a reopened row: it is the same activity for all commands. In StudyLinking, an
  UPDATE that the ORM leaves out because the status it had read was that already. In
  Synthesis, sections and wording of plans, findings and claims.
* Authorization, web pages, infrastructure, migrations. What the schema enforces
  (unique indexes, triggers, foreign keys that share rows) is in the guards of the
  modules.

## 7. Plan

Done: the modules of section 2 and the proofs of section 4. In order:

1. *Planning*: plans, approvals, strategies and the search they allow.
2. *RowLocks*: the order in which requests and activities take the rows of
   project, operation and round, for all of them at once, with deadlock as the
   question; FullText asks it of uploads.

-------------------------------- MODULE FullText --------------------------------
(***************************************************************************)
(* The documents of the works: users upload them, FullTextAcquisitionWork- *)
(* flow downloads them, FullTextParsingWorkflow reads them.                *)
(*                                                                         *)
(* An upload holds the project FOR UPDATE until it commits.  A worker's    *)
(* transaction holds its operation; from the SEARCHING update on it holds  *)
(* the row of the acquisition, through the download; and rows that refer   *)
(* to the project (an acquisition, an asset, its event) share the project. *)
(* The two orders differ: an upload and an acquisition of one work can     *)
(* wait for each other until the database aborts one of them.              *)
(***************************************************************************)
EXTENDS Integers, Sequences, FiniteSets

CONSTANTS
  Works,       \* the works of the project
  Contents,    \* the documents there are, by their sha256
  Online,      \* Online[w]: those at the open-access locations of w
  Located,     \* the works with an open-access location on file
  Abstracts,   \* the works with an abstract
  Legible,     \* the documents the parser can read
  BatchSize,   \* FULL_TEXT_BATCH_SIZE
  Retries,     \* RETRY.maximum_attempts
  Late,        \* may an attempt that timed out go on?
  MaxOps, MaxUploads, MaxFaults   \* bounds

ASSUME WorksAssumption == IsFiniteSet(Works) /\ Works # {}
ASSUME ContentsAssumption ==
  /\ Online \in [Works -> SUBSET Contents]
  /\ Located \subseteq Works /\ Abstracts \subseteq Works /\ Legible \subseteq Contents
ASSUME FullTextBoundsAssumption ==
  /\ BatchSize \in Nat \ {0} /\ Retries \in Nat \ {0} /\ Late \in BOOLEAN
  /\ MaxOps \in Nat /\ MaxUploads \in Nat /\ MaxFaults \in Nat

VARIABLES
  acquisitions,  \* the status of a work in full_text_acquisitions, NOT_REQUESTED without a row
  assets,        \* the rows of a work in full_text_assets, oldest first
  ops,           \* the operations, oldest first
  attempts,      \* the attempts of activities that workers have
  request,       \* the upload that holds the project, or NoRequest
  uploads,       \* uploads that began
  faults

vars == <<acquisitions, assets, ops, attempts, request, uploads, faults>>

Settled == {"AVAILABLE", "ABSTRACT_ONLY", "UNAVAILABLE"}
Outcomes == Settled \cup {"RETRIEVAL_FAILED", "NOT_REQUESTED"}

\* documents: the parsed documents of the asset.
Asset == [content : Contents, status : {"AVAILABLE", "PARSED", "FAILED"}, documents : Nat]

\* An item is an asset, by its work and place, or a work to be acquired, at place 0.
Items == Works \X Nat

Operation == [kind : {"full_text", "parsing"}, status : {"RUNNING", "COMPLETED", "PARTIAL"},
              stage : {"PREPARE", "CALL", "FINISH", "ABORT", "ENDED"},
              works : SUBSET Works, attempted : SUBSET Items]

NoRequest == [open |-> FALSE]

\* inserts: no row was found.  shares: the transaction holds the project.
\* found: the content it downloaded.  new: it inserts an asset.
NoTransaction == [pc |-> "idle", inserts |-> FALSE, shares |-> FALSE, found |-> {}, new |-> FALSE]

NewAttempt(o, n, batch) ==
  [op |-> o, n |-> n, live |-> TRUE, batch |-> batch, todo |-> batch, subject |-> {},
   tx |-> NoTransaction]

Init ==
  /\ acquisitions = [w \in Works |-> "NOT_REQUESTED"]
  /\ assets = [w \in Works |-> <<>>]
  /\ ops = <<>> /\ attempts = {} /\ request = NoRequest
  /\ uploads = 0 /\ faults = 0

-----------------------------------------------------------------------------
(* Rows and locks                                                          *)

Holds(w, c) == \E i \in DOMAIN assets[w] : assets[w][i].content = c
\* Without the unique constraint on work and sha256, see OneAssetPerContent.
Stored(rows, c) == Append(rows, [content |-> c, status |-> "AVAILABLE", documents |-> 0])

ProjectIsFree == request = NoRequest
ProjectIsShared == \E a \in attempts : a.tx.shares
OperationIsHeld(o) == \E a \in attempts : a.op = o /\ a.tx.pc # "idle"

WorkOf(a) == CHOOSE w \in Works : a.subject = {<<w, 0>>}

\* Mutation of RowIsHeld: nothing is flushed before the download.
RowIsHeldAtTheEnd(w) == FALSE

\* An acquisition of w has updated or inserted the row, and has not committed.
RowIsHeld(w) == \E a \in attempts : a.subject = {<<w, 0>>} /\ a.tx.pc \in {"searching", "settling"}

Idle == \A o \in DOMAIN ops : ops[o].status # "RUNNING"
Op == ops[Len(ops)]
Enter(stage) == ops' = [ops EXCEPT ![Len(ops)].stage = stage]
Replace(a, b) == attempts' = (attempts \ {a}) \cup {b}

-----------------------------------------------------------------------------
(* Requests                                                                *)

\* acquire_full_text, acquire_included, parse_work_full_text, parse_project_full_text.
Start(kind, works) ==
  /\ Idle /\ ProjectIsFree /\ ~ProjectIsShared /\ Len(ops) < MaxOps
  /\ works # {} /\ (kind = "parsing" => \A w \in works : assets[w] # <<>>)
  /\ ops' = Append(ops, [kind |-> kind, status |-> "RUNNING", stage |-> "PREPARE",
                         works |-> works, attempted |-> {}])
  /\ UNCHANGED <<acquisitions, assets, attempts, request, uploads, faults>>

\* upload_full_text takes the project and reads.  It does not ask for an idle project.
BeginUpload(w, c) ==
  /\ ProjectIsFree /\ ~ProjectIsShared /\ uploads < MaxUploads
  /\ request' = [open |-> TRUE, work |-> w, content |-> c]
  /\ uploads' = uploads + 1
  /\ UNCHANGED <<acquisitions, assets, ops, attempts, faults>>

\* It stores the asset unless the bytes are on file, and the row.
CommitUpload ==
  /\ request.open /\ ~RowIsHeld(request.work)
  /\ LET w == request.work IN
     /\ assets' = [assets EXCEPT ![w] = IF Holds(w, request.content) THEN @ ELSE Stored(@, request.content)]
     /\ acquisitions' = [acquisitions EXCEPT ![w] = "AVAILABLE"]
  /\ request' = NoRequest
  /\ UNCHANGED <<ops, attempts, uploads, faults>>

-----------------------------------------------------------------------------
(* The workflows                                                           *)

\* Mutation of Pending: only what settled is left out.
PendingForever ==
  IF Op.kind = "full_text"
    THEN {<<w, 0>> : w \in {v \in Op.works : acquisitions[v] \notin Settled}}
    ELSE {<<w, Len(assets[w])>> : w \in {v \in Op.works : assets[v][Len(assets[v])].documents = 0}}

\* Works that are not settled, or the latest assets without a document.
Pending ==
  IF Op.kind = "full_text"
    THEN {<<w, 0>> : w \in {v \in Op.works : acquisitions[v] \notin Settled}} \ Op.attempted
    ELSE {<<w, Len(assets[w])>> : w \in
             {v \in Op.works : assets[v][Len(assets[v])].documents = 0}} \ Op.attempted

\* prepare_acquisition_batch and prepare_parsing_batch; an empty batch ends the loop.
PrepareBatch ==
  /\ ~Idle /\ Op.stage = "PREPARE" /\ ~OperationIsHeld(Len(ops))
  /\ IF Pending = {} THEN Enter("FINISH") /\ UNCHANGED attempts
     ELSE /\ Enter("CALL")
          /\ \E batch \in SUBSET Pending :
               /\ batch = Pending \/ Cardinality(batch) = BatchSize
               /\ Cardinality(batch) \in 1..BatchSize
               /\ attempts' = attempts \cup {NewAttempt(Len(ops), 1, batch)}
  /\ UNCHANGED <<acquisitions, assets, request, uploads, faults>>

\* The activity has done its batch, and its answer arrives.
Answer(a) ==
  /\ a.live /\ a.todo = {}
  /\ attempts' = attempts \ {a}
  /\ Enter("PREPARE")
  /\ UNCHANGED <<acquisitions, assets, request, uploads, faults>>

\* finish_operation, in either branch.
Finish ==
  /\ ~Idle /\ Op.stage \in {"FINISH", "ABORT"} /\ ~OperationIsHeld(Len(ops))
  /\ ops' = [ops EXCEPT ![Len(ops)] =
               [@ EXCEPT !.stage = "ENDED",
                         !.status = IF Op.stage = "FINISH" THEN "COMPLETED" ELSE "PARTIAL"]]
  /\ UNCHANGED <<acquisitions, assets, attempts, request, uploads, faults>>

-----------------------------------------------------------------------------
(* acquire_full_text_batch                                                 *)

Move(a, tx) == Replace(a, [a EXCEPT !.tx = tx])

\* A transaction begins, and reads the row.  The work may have settled since the
\* batch was prepared.
TakeWork(a, item) ==
  /\ ops[a.op].kind = "full_text" /\ a.tx.pc = "idle" /\ item \in a.todo
  /\ ~OperationIsHeld(a.op)
  /\ Replace(a, [a EXCEPT !.subject = {item},
                          !.tx = [NoTransaction EXCEPT !.pc = "read", !.inserts = acquisitions[item[1]] = "NOT_REQUESTED"]])
  /\ UNCHANGED <<acquisitions, assets, ops, request, uploads, faults>>

\* The row becomes SEARCHING, which nobody else sees: it is updated, or inserted.
Search(a) ==
  /\ a.tx.pc = "read" /\ ~RowIsHeld(WorkOf(a))
  /\ IF a.tx.inserts
       THEN /\ ProjectIsFree /\ acquisitions[WorkOf(a)] = "NOT_REQUESTED"
            /\ Move(a, [a.tx EXCEPT !.pc = "searching", !.shares = TRUE])
       ELSE Move(a, [a.tx EXCEPT !.pc = "searching"])
  /\ UNCHANGED <<acquisitions, assets, ops, request, uploads, faults>>

\* The open-access locations are tried; a document that is new is inserted.
Download(a) ==
  LET w == WorkOf(a) IN
  /\ a.tx.pc = "searching"
  /\ \E found \in {{}} \cup {{c} : c \in IF w \in Located THEN Online[w] ELSE {}} :
       LET new == \E c \in found : ~Holds(w, c) IN
       /\ new => ProjectIsFree \/ a.tx.shares
       /\ Move(a, [a.tx EXCEPT !.pc = "settling", !.found = found, !.new = new,
                               !.shares = @ \/ new])
  /\ UNCHANGED <<acquisitions, assets, ops, request, uploads, faults>>

\* Mutation of Outcome: a document that was found is enough, stored or not.
OutcomeHopeful(a) ==
  IF WorkOf(a) \in Located \/ a.tx.found # {} THEN "AVAILABLE"
  ELSE IF WorkOf(a) \in Abstracts THEN "ABSTRACT_ONLY" ELSE "UNAVAILABLE"

Outcome(a) ==
  IF a.tx.found # {} THEN "AVAILABLE"
  ELSE IF WorkOf(a) \in Located THEN "RETRIEVAL_FAILED"
  ELSE IF WorkOf(a) \in Abstracts THEN "ABSTRACT_ONLY" ELSE "UNAVAILABLE"

\* The event needs the project.
CommitWork(a) ==
  LET w == WorkOf(a) IN
  /\ a.tx.pc = "settling" /\ (ProjectIsFree \/ a.tx.shares)
  /\ acquisitions' = [acquisitions EXCEPT ![w] = Outcome(a)]
  /\ assets' = [assets EXCEPT ![w] =
       IF a.tx.new THEN Stored(@, CHOOSE c \in Contents : a.tx.found = {c}) ELSE @]
  /\ ops' = [ops EXCEPT ![a.op].attempted = @ \cup a.subject]
  /\ Replace(a, [a EXCEPT !.todo = @ \ a.subject, !.subject = {}, !.tx = NoTransaction])
  /\ UNCHANGED <<request, uploads, faults>>

-----------------------------------------------------------------------------
(* parse_assets                                                            *)

\* Another document of the asset, if the parser can read it.
Parsed(asset) ==
  IF asset.content \in Legible
    THEN [content |-> asset.content, status |-> "PARSED", documents |-> asset.documents + 1]
    ELSE [content |-> asset.content, status |-> "FAILED", documents |-> asset.documents]

\* A transaction reads an asset of the batch, also if a document of it is there by now.
ReadAsset(a, item) ==
  LET w == item[1] IN
  /\ ops[a.op].kind = "parsing" /\ item \in a.todo /\ ~OperationIsHeld(a.op) /\ ProjectIsFree
  /\ assets' = [assets EXCEPT ![w][item[2]] = Parsed(@)]
  /\ ops' = [ops EXCEPT ![a.op].attempted = @ \cup {item}]
  /\ Replace(a, [a EXCEPT !.todo = @ \ {item}])
  /\ UNCHANGED <<acquisitions, request, uploads, faults>>

-----------------------------------------------------------------------------
(* Failures                                                                *)

\* An attempt fails: it is retried, or was the last one and the workflow ends PARTIAL.
Fails(a, rest) ==
  LET more == a.live /\ a.n < Retries IN
  /\ attempts' = (attempts \ {a}) \cup rest
                   \cup IF more THEN {NewAttempt(a.op, a.n + 1, a.batch)} ELSE {}
  /\ IF a.live /\ ~more THEN Enter("ABORT") ELSE UNCHANGED ops

\* The worker dies, the answer is lost, or the attempt times out and may go on.
Lose(a) ==
  /\ a.live /\ faults < MaxFaults
  /\ faults' = faults + 1
  /\ \E rest \in {{}, IF Late THEN {[a EXCEPT !.live = FALSE]} ELSE {}} : Fails(a, rest)
  /\ UNCHANGED <<acquisitions, assets, request, uploads>>

\* The row was inserted by another transaction since it was looked for.
RowExists(a) ==
  /\ a.tx.pc = "read" /\ a.tx.inserts /\ acquisitions[WorkOf(a)] # "NOT_REQUESTED"
  /\ Fails(a, {})
  /\ UNCHANGED <<acquisitions, assets, request, uploads, faults>>

\* The upload waits for the row of the acquisition, which waits for the project:
\* to store what it found, to tell of its outcome, or to insert the row.
Deadlocked(a) ==
  /\ request.open /\ a.subject = {<<request.work, 0>>} /\ ~a.tx.shares
  /\ \/ a.tx.pc \in {"searching", "settling"}
     \/ a.tx.pc = "read" /\ a.tx.inserts /\ acquisitions[request.work] = "NOT_REQUESTED"

\* The database aborts one of the two: the user sees an error, or the attempt fails.
AbortUpload(a) ==
  /\ Deadlocked(a)
  /\ request' = NoRequest
  /\ UNCHANGED <<acquisitions, assets, ops, attempts, uploads, faults>>

AbortAcquisition(a) ==
  /\ Deadlocked(a)
  /\ Fails(a, {})
  /\ UNCHANGED <<acquisitions, assets, request, uploads, faults>>

\* An attempt that goes on after its time comes to an end.
LateEnds(a) ==
  /\ ~a.live
  /\ attempts' = attempts \ {a}
  /\ UNCHANGED <<acquisitions, assets, ops, request, uploads, faults>>

-----------------------------------------------------------------------------
Requests ==
  \/ \E works \in SUBSET Works : \E kind \in {"full_text", "parsing"} : Start(kind, works)
  \/ \E w \in Works : \E c \in Contents : BeginUpload(w, c)

Work(a) ==
  \/ \E item \in a.todo : TakeWork(a, item) \/ ReadAsset(a, item)
  \/ Search(a) \/ Download(a) \/ CommitWork(a) \/ RowExists(a) \/ Answer(a) \/ LateEnds(a)

Database == \E a \in attempts : AbortUpload(a) \/ AbortAcquisition(a)

Workers == PrepareBatch \/ Finish \/ \E a \in attempts : Work(a)

Next == Requests \/ CommitUpload \/ Workers \/ Database \/ \E a \in attempts : Lose(a)

Spec == Init /\ [][Next]_vars

\* A worker keeps polling, the API server ends what it began, and the database
\* looks for deadlocks.
FairSpec == Spec /\ WF_vars(Workers) /\ WF_vars(CommitUpload) /\ WF_vars(Database)

-----------------------------------------------------------------------------
(* Properties                                                              *)

\* Acquisitions, stored texts, operations and uploads have the columns that the code gives them.
TypeOK ==
  /\ acquisitions \in [Works -> Outcomes]
  /\ assets \in [Works -> Seq(Asset)]
  /\ ops \in Seq(Operation)
  /\ request = NoRequest \/ request \in [open : {TRUE}, work : Works, content : Contents]

\* A work that is said to be available has a document on file.
AvailableIsHeld == \A w \in Works : acquisitions[w] = "AVAILABLE" => assets[w] # <<>>

\* The same bytes are on file once per work, whoever brings them at the same time: the
\* look before the insert (_store_asset) is enough, and nobody runs into the unique
\* constraint on work and sha256, an error that no caller handles.
OneAssetPerContent ==
  \A w \in Works : \A i, j \in DOMAIN assets[w] : assets[w][i].content = assets[w][j].content => i = j

\* Neither an upload nor an operation goes on for ever, although they wait for each other.
NothingLastsForever == (request.open ~> ~request.open) /\ (~Idle ~> Idle)

=============================================================================

-------------------------------- MODULE Evidence --------------------------------
(***************************************************************************)
(* Evidence of the included studies: EvidenceExtractionWorkflow extracts   *)
(* the fields of the current schema, checks them against arithmetic rules  *)
(* and has an independent agent review them; humans correct values.        *)
(*                                                                         *)
(* No index makes a current value unique: the code looks before it asks    *)
(* the extractor, and supersedes after.  The rules that can apply to a     *)
(* default schema are about one field: a value is broken, or is not.       *)
(***************************************************************************)
EXTENDS StudyWork

CONSTANTS
  FieldsOf,    \* FieldsOf[p]: the fields of a schema made for protocol p
  Answers,     \* Answers[f]: what the extractor may say of a field
  Verdicts     \* what the reviewer may say of a value

Results == {"sound", "broken", "missing", "doubtful"}
Fields == DOMAIN Answers

ASSUME FieldsAssumption == FieldsOf \in [Protocols -> (SUBSET Fields) \ {{}}]
ASSUME AnswersAssumption == Answers \in [Fields -> (SUBSET Results) \ {{}}]
ASSUME VerdictsAssumption ==
  Verdicts \subseteq {"VERIFIED", "PARTIAL", "CONFLICT", "UNVERIFIED"} /\ Verdicts # {}

VARIABLES
  schemas,  \* the protocols of the schemas, by version; the last one is not SUPERSEDED
  history   \* history[s][f]: the rows of a field of a study, oldest first

evidenceVars == <<schemas, history>>

Row == [schema : Nat \ {0}, by : {"agent", "human"}, value : {"sound", "broken", "none"},
        verification : {"UNVERIFIED", "VERIFIED", "PARTIAL", "CONFLICT"},
        current : BOOLEAN, next : Nat]     \* next: superseded_by, 0 for NULL

EvidenceInit == schemas = <<>> /\ history = [s \in Studies |-> [f \in Fields |-> <<>>]]

\* The current rows of a field, and of a study as pairs of a field and a place.
CurrentAt(s, f) == {i \in DOMAIN history[s][f] : history[s][f][i].current}
CurrentRows(s) == UNION {{f} \X CurrentAt(s, f) : f \in Fields}

\* The rows of one study change.
Rewrite(s, new) == history' = [history EXCEPT ![s] = new]

-----------------------------------------------------------------------------
(* The schema                                                              *)

\* schema_payload: the fields of a schema, by the framework of its protocol.
SchemaFields(version) == FieldsOf[schemas[version]]

\* resolve_extraction_corpus.
ResolveCorpus ==
  /\ Current("extraction", "CORPUS")
  /\ ops' = [ops EXCEPT ![Len(ops)] = [@ EXCEPT !.corpus = Included[protocol], !.stage = "SCHEMA"]]
  /\ UNCHANGED <<protocol, readable, attempts, environment, human, faults, evidenceVars>>

\* ensure_extraction_schema: one of another protocol is superseded.
EnsureSchema ==
  LET upToDate == schemas # <<>> /\ schemas[Len(schemas)] = protocol
      new == IF upToDate THEN schemas ELSE Append(schemas, protocol) IN
  /\ Current("extraction", "SCHEMA")
  /\ schemas' = new
  /\ ops' = [ops EXCEPT ![Len(ops)] = [@ EXCEPT !.schema = Len(new), !.stage = "PREPARE"]]
  /\ UNCHANGED <<protocol, readable, attempts, environment, human, faults, history>>

-----------------------------------------------------------------------------
(* extract_evidence_batch                                                  *)

Pending == Op.corpus \ Op.attempted

\* prepare_extraction_batch; an empty batch ends the loop.
PrepareBatch ==
  /\ Current("extraction", "PREPARE")
  /\ IF Pending = {} THEN Enter("VALIDATE") /\ UNCHANGED attempts
     ELSE \E batch \in SUBSET Pending :
            /\ batch = Pending \/ Cardinality(batch) = BatchSize
            /\ Cardinality(batch) <= BatchSize
            /\ Call("extract", batch)
  /\ UNCHANGED <<protocol, readable, environment, human, faults, evidenceVars>>

\* Mutation of Extracted: the look-up asks for a value that an agent extracted.
ExtractedByAgent(a, s) ==
  \E f \in Fields : \E i \in CurrentAt(s, f) :
    history[s][f][i].schema = ops[a.op].schema /\ history[s][f][i].by = "agent"

\* The study has a current value of the operation's schema.
Extracted(a, s) ==
  \E f \in Fields : \E i \in CurrentAt(s, f) : history[s][f][i].schema = ops[a.op].schema

Attempted(a, s) == ops' = [ops EXCEPT ![a.op].attempted = @ \cup {s}]

TakeStudy(a, s) ==
  /\ a.kind = "extract" /\ MayTake(a, s)
  /\ IF Extracted(a, s) \/ s \notin readable
       THEN Skip(a, s) /\ Attempted(a, s)
       ELSE Take(a, s, NothingSeen) /\ UNCHANGED ops
  /\ UNCHANGED <<protocol, readable, environment, human, faults, evidenceVars>>

\* The row of a field, from what the extractor says of it.
RowOf(schema, result) ==
  [schema |-> schema, by |-> "agent",
   value |-> CASE result = "missing" -> "none" [] result = "broken" -> "broken" [] OTHER -> "sound",
   verification |-> IF result = "doubtful" THEN "CONFLICT" ELSE "UNVERIFIED",
   current |-> TRUE, next |-> 0]

\* Mutation of Superseded: superseded_by is set before the new row has its place.
SupersededTooEarly(rows, old, next) ==
  [i \in DOMAIN rows |-> IF i \in old THEN [rows[i] EXCEPT !.current = FALSE, !.next = Len(rows)] ELSE rows[i]]

\* What validate_extraction lets pass: one result for every field that was asked for.
Accepted(fields) == {answer \in [fields -> Results] : \A f \in fields : answer[f] \in Answers[f]}

\* Rows of a field that are superseded point to its new row, if there is one.
Superseded(rows, old, next) ==
  [i \in DOMAIN rows |-> IF i \in old THEN [rows[i] EXCEPT !.current = FALSE, !.next = next] ELSE rows[i]]

\* The agent has answered: the rows to supersede, of any schema, are read now ...
ReadOldRows(a) ==
  /\ a.kind = "extract" /\ a.pc = "asking"
  /\ \E s \in a.subject :
       Replace(a, [a EXCEPT !.pc = "storing", !.seen.rows = CurrentRows(s)])
  /\ UNCHANGED <<protocol, readable, ops, environment, human, faults, evidenceVars>>

\* ... and superseded with the commit.
StoreEvidence(a) ==
  LET fields == SchemaFields(ops[a.op].schema)
      old(f) == {r[2] : r \in {q \in a.seen.rows : q[1] = f}} IN
  /\ a.kind = "extract" /\ a.pc = "storing"
  /\ \E s \in a.subject : \E answer \in Accepted(fields) :
       /\ Rewrite(s, [f \in Fields |->
            IF f \in fields
              THEN Append(Superseded(history[s][f], old(f), Len(history[s][f]) + 1),
                          RowOf(ops[a.op].schema, answer[f]))
              ELSE Superseded(history[s][f], old(f), 0)])
       /\ Attempted(a, s)
  /\ Replace(a, Finished(a))
  /\ UNCHANGED <<protocol, readable, environment, human, faults, schemas>>

-----------------------------------------------------------------------------
(* Validation, review and correction                                       *)

\* validate_study_values: counts below zero, percentages above 100, intervals turned
\* round, estimates outside of theirs.
BreaksARule(row) == row.value = "broken"

\* validate_project_evidence: a value that breaks a rule is in conflict.
Validate ==
  /\ Current("extraction", "VALIDATE")
  /\ history' = [s \in Studies |-> [f \in Fields |-> [i \in DOMAIN history[s][f] |->
       LET row == history[s][f][i] IN
       IF s \in Op.corpus /\ row.current /\ BreaksARule(row)
         THEN [row EXCEPT !.verification = "CONFLICT"] ELSE row]]]
  /\ Enter("REVIEW")
  /\ UNCHANGED <<protocol, readable, attempts, environment, human, faults, schemas>>

CallReviewer ==
  /\ Current("extraction", "REVIEW")
  /\ Call("review", Op.corpus)
  /\ UNCHANGED <<protocol, readable, environment, human, faults, evidenceVars>>

\* Values that an agent reported or derived.
Reviewable(s) ==
  {r \in CurrentRows(s) : LET row == history[s][r[1]][r[2]] IN row.by = "agent" /\ row.value # "none"}

Conflicts(s) == {r \in Reviewable(s) : history[s][r[1]][r[2]].verification = "CONFLICT"}

TakeForReview(a, s) ==
  /\ a.kind = "review" /\ MayTake(a, s)
  /\ IF Reviewable(s) = {} \/ s \notin readable
       THEN Skip(a, s)
       ELSE Take(a, s, [NothingSeen EXCEPT !.rows = Reviewable(s), !.conflicts = Conflicts(s)])
  /\ UNCHANGED <<protocol, readable, ops, environment, human, faults, evidenceVars>>

\* Mutation of Judged: a deterministic error is downgraded by the reviewer's opinion.
JudgedByOpinion(row, wasConflict, verdict) == [row EXCEPT !.verification = verdict]

\* A verdict is not written over a conflict, as far as the transaction has read.
Judged(row, wasConflict, verdict) ==
  IF wasConflict THEN row ELSE [row EXCEPT !.verification = verdict]

\* What validate_review lets pass: one verdict for every value under review.
Opinions(a) == [a.seen.rows -> Verdicts]

StoreReview(a) ==
  /\ a.kind = "review" /\ a.pc = "asking"
  /\ \E s \in a.subject : \E verdict \in Opinions(a) :
       Rewrite(s, [f \in Fields |-> [i \in DOMAIN history[s][f] |->
         IF <<f, i>> \in a.seen.rows
           THEN Judged(history[s][f][i], <<f, i>> \in a.seen.conflicts, verdict[<<f, i>>])
           ELSE history[s][f][i]]])
  /\ Replace(a, Finished(a))
  /\ UNCHANGED <<protocol, readable, ops, environment, human, faults, schemas>>

\* correct_evidence: a value that passes the rules, or that the field is missing.
Correct(s, f) ==
  /\ ByHuman
  /\ \E i \in CurrentAt(s, f) : \E value \in {"sound", "none"} :
       LET row == history[s][f][i] IN
       Rewrite(s, [history[s] EXCEPT ![f] =
         Append([@ EXCEPT ![i] = [row EXCEPT !.current = FALSE, !.next = Len(history[s][f]) + 1]],
                [row EXCEPT !.by = "human", !.value = value, !.verification = "UNVERIFIED",
                            !.next = 0])])
  /\ UNCHANGED schemas

-----------------------------------------------------------------------------
EvidenceWorkflow == ResolveCorpus \/ EnsureSchema \/ PrepareBatch \/ Validate \/ CallReviewer

EvidenceWork(a) ==
  \/ \E s \in Studies : TakeStudy(a, s) \/ TakeForReview(a, s)
  \/ ReadOldRows(a) \/ StoreEvidence(a) \/ StoreReview(a)

-----------------------------------------------------------------------------
(* Properties                                                              *)

EvidenceTypeOK ==
  /\ schemas \in Seq(Protocols)
  /\ history \in [Studies -> [Fields -> Seq(Row)]]
  /\ \A s \in Studies, f \in Fields : \A i \in DOMAIN history[s][f] :
       history[s][f][i].next \in {0} \cup i + 1..Len(history[s][f])

\* Running a schema again does not create a second current value of a field.
OneCurrentPerField ==
  \A s \in Studies, f \in Fields : Cardinality(CurrentAt(s, f)) <= 1

\* As long as attempts end with their operation, retries and lost answers do not either.
CalmOneCurrentPerField == ~environment.overlap => OneCurrentPerField

\* Nor is a value that the rules refute presented as verified, whatever the reviewer says
\* and whatever is retried.
NoBrokenValueIsVerified ==
  ~environment.overlap => \A s \in Studies, f \in Fields : \A i \in DOMAIN history[s][f] :
    BreaksARule(history[s][f][i]) => history[s][f][i].verification \notin {"VERIFIED", "PARTIAL"}

\* As long as attempts end with their operation, what a human entered is only replaced
\* by a human, or by an extraction for a schema that came later.
CorrectionsStand ==
  [][~environment.overlap => \A s \in Studies, f \in Fields : \A i \in CurrentAt(s, f) :
       history[s][f][i].by = "human" /\ ~history'[s][f][i].current =>
         \E g \in Fields : LET new == history'[s][g][Len(history'[s][g])] IN
           /\ Len(history'[s][g]) > Len(history[s][g])
           /\ new.by = "human" \/ new.schema > history[s][f][i].schema]_<<workVars, evidenceVars>>

\* An extraction is COMPLETED only if every study of its corpus with a text has a
\* current value, possibly MISSING, for each field of the schema, and for no other.
CompletedMeansExtracted ==
  [][\A o \in DOMAIN ops :
       ~environment.overlap /\ ops[o].type = "extraction" /\ ops[o].status # "COMPLETED" /\ ops'[o].status = "COMPLETED" =>
         \A s \in ops[o].corpus \cap readable :
           {f \in Fields : CurrentAt(s, f) # {}} = SchemaFields(ops[o].schema)]_<<workVars, evidenceVars>>

=============================================================================

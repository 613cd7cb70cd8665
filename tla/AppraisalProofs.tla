---------------------------- MODULE AppraisalProofs ----------------------------
(***************************************************************************)
(* Appraisal and extraction of any number of studies, by any number of     *)
(* operations, retries and failures.                                       *)
(*                                                                         *)
(* Appraisal: an agent does not propose again what was appraised with the  *)
(* same tool.  The reason is the version an assessor has seen: the         *)
(* versions up to it are never changed, and if one came after it the       *)
(* number is taken.                                                        *)
(*                                                                         *)
(* Extraction: WorkInv says what the operations and their attempts are to  *)
(* each other, HistoryInv that rows are of known schemas, and CalmInv what *)
(* holds while attempts end with their operation: what an attempt has read *)
(* of a study is still so when it stores.                                  *)
(***************************************************************************)
EXTENDS Appraisal, FiniteSetTheorems, TLAPS

\* An attempt is a record with the fields of NewAttempt.
IsAttempt(a) ==
  a \in [op : {a.op}, kind : {a.kind}, n : {a.n}, live : {a.live}, batch : {a.batch},
         todo : {a.todo}, pc : {a.pc}, subject : {a.subject}, seen : {a.seen}]

-----------------------------------------------------------------------------
(* What an assessor knows                                                  *)

\* What an assessor has seen is so, whatever was appraised since.
Saw(a, s) ==
  /\ a.subject = {s} /\ a.seen.version \in 0..Len(assessments[s])
  /\ a.seen.tool \in {"ROB_2", "ROBINS_I"}
  /\ a.seen.version > 0 => assessments[s][a.seen.version].tool # a.seen.tool

Knows(a) == a.kind = "assess" /\ a.pc # "idle" => \E s \in Studies : Saw(a, s)

Inv == RiskTypeOK /\ AppraisedOncePerTool /\ \A a \in attempts : IsAttempt(a) /\ Knows(a)

-----------------------------------------------------------------------------
(* Attempts                                                                *)

\* Versions are added, and the others stay.
VersionsStay ==
  \A s \in Studies :
    /\ Len(assessments'[s]) \in Nat /\ Len(assessments'[s]) >= Len(assessments[s])
    /\ \A v \in 1..Len(assessments[s]) : assessments'[s][v] = assessments[s][v]

\* c is an attempt that waits, is not an assessor's, or has seen what a has.
Follows(c, a) ==
  /\ IsAttempt(c)
  /\ \/ c.pc = "idle" \/ c.kind # "assess"
     \/ c.kind = a.kind /\ c.subject = a.subject /\ c.seen = a.seen /\ a.pc # "idle"

LEMMA AttemptsFollow ==
  ASSUME Inv, VersionsStay,
         \A c \in attempts' : c \in attempts \/ \E a \in attempts : Follows(c, a)
  PROVE  \A c \in attempts' : IsAttempt(c) /\ Knows(c)'
  <1>1. ASSUME NEW a \in attempts PROVE Knows(a)'
    <2>. SUFFICES ASSUME a.kind = "assess", a.pc # "idle" PROVE \E s \in Studies : Saw(a, s)'
      BY DEF Knows
    <2>1. PICK s \in Studies : Saw(a, s)
      BY DEF Inv, Knows
    <2>2. assessments[s] \in Seq(Assessment)
      BY DEF Inv, RiskTypeOK
    <2>3. PICK n, m : n = Len(assessments[s]) /\ m = Len(assessments'[s])
      OBVIOUS
    <2>4. n \in Nat /\ m \in Nat /\ m >= n /\ \A v \in 1..n : assessments'[s][v] = assessments[s][v]
      BY <2>2, <2>3 DEF VersionsStay
    <2>5. a.seen.version \in 0..n
      BY <2>1, <2>3 DEF Saw
    <2>6. a.seen.version \in 0..m
      BY <2>4, <2>5
    <2>7. a.seen.version > 0 => assessments'[s][a.seen.version] = assessments[s][a.seen.version]
      BY <2>4, <2>5
    <2>8. Saw(a, s)'
      BY <2>1, <2>3, <2>6, <2>7 DEF Saw
    <2>. QED
      BY <2>8
  <1>2. ASSUME NEW c, NEW a \in attempts, Follows(c, a) PROVE IsAttempt(c) /\ Knows(c)'
    BY <1>1, <1>2 DEF Follows, Knows, Saw
  <1>. QED
    BY <1>1, <1>2 DEF Inv

\* A step that appraises nothing.
LEMMA NothingAppraised ==
  ASSUME Inv, UNCHANGED assessments, design' \in [Studies -> Design],
         \A c \in attempts' : \/ c \in attempts \/ (\E a \in attempts : Follows(c, a))
                              \/ IsAttempt(c) /\ (c.pc = "idle" \/ c.kind # "assess")
  PROVE  Inv'
  <1>1. VersionsStay
    BY DEF VersionsStay, Inv, RiskTypeOK
  <1>2. ASSUME NEW c \in attempts' PROVE IsAttempt(c) /\ Knows(c)'
    <2>1. CASE IsAttempt(c) /\ (c.pc = "idle" \/ c.kind # "assess")
      BY <2>1 DEF Knows
    <2>2. CASE c \in attempts
      BY <2>2 DEF Inv, Knows, Saw
    <2>3. ASSUME NEW a \in attempts, Follows(c, a) PROVE IsAttempt(c) /\ Knows(c)'
      BY <2>3 DEF Inv, Follows, Knows, Saw
    <2>. QED
      BY <2>1, <2>2, <2>3
  <1>3. RiskTypeOK' /\ AppraisedOncePerTool'
    BY DEF Inv, RiskTypeOK, AppraisedOncePerTool
  <1>. QED
    BY <1>2, <1>3 DEF Inv

LEMMA NewIsAttempt ==
  ASSUME NEW o, NEW kind, NEW n, NEW batch
  PROVE  IsAttempt(NewAttempt(o, kind, n, batch)) /\ NewAttempt(o, kind, n, batch).pc = "idle"
  BY DEF IsAttempt, NewAttempt

\* The forms in which an attempt goes on.
LEMMA FinishedForm ==
  ASSUME NEW a, IsAttempt(a)
  PROVE  IsAttempt(Finished(a)) /\ Finished(a).pc = "idle"
  <1>1. PICK b : b = Finished(a)
    OBVIOUS
  <1>2. /\ b.op = a.op /\ b.kind = a.kind /\ b.n = a.n /\ b.live = a.live /\ b.batch = a.batch
        /\ b.todo = a.todo \ a.subject /\ b.pc = "idle" /\ b.subject = {} /\ b.seen = NothingSeen
    BY <1>1 DEF IsAttempt, Finished
  <1>3. IsAttempt(b)
    BY <1>1, <1>2 DEF IsAttempt, Finished
  <1>. QED
    BY <1>1, <1>2, <1>3

LEMMA TakenForm ==
  ASSUME NEW a, IsAttempt(a), NEW s, NEW seen, NEW b,
         b = [a EXCEPT !.pc = "checked", !.subject = {s}, !.seen = seen]
  PROVE  IsAttempt(b) /\ b.kind = a.kind /\ b.subject = {s} /\ b.seen = seen /\ b.pc = "checked"
  BY DEF IsAttempt

LEMMA SkippedForm ==
  ASSUME NEW a, IsAttempt(a), NEW todo, NEW b, b = [a EXCEPT !.todo = todo]
  PROVE  IsAttempt(b) /\ b.pc = a.pc
  BY DEF IsAttempt

LEMMA PcForm ==
  ASSUME NEW a, IsAttempt(a), NEW pc, NEW b, b = [a EXCEPT !.pc = pc]
  PROVE  IsAttempt(b) /\ b.kind = a.kind /\ b.subject = a.subject /\ b.seen = a.seen
  BY DEF IsAttempt

LEMMA LateForm ==
  ASSUME NEW a, IsAttempt(a), NEW b, b = [a EXCEPT !.live = FALSE]
  PROVE  IsAttempt(b) /\ b.kind = a.kind /\ b.subject = a.subject /\ b.seen = a.seen /\ b.pc = a.pc
  BY DEF IsAttempt

LEMMA ReadingForm ==
  ASSUME NEW a, IsAttempt(a), NEW rows, NEW b, b = [a EXCEPT !.pc = "storing", !.seen.rows = rows]
  PROVE  IsAttempt(b) /\ b.kind = a.kind
  BY DEF IsAttempt

\* What NothingAppraised allows of an attempt.
Harmless(c) ==
  \/ c \in attempts
  \/ \E a \in attempts : Follows(c, a)
  \/ IsAttempt(c) /\ (c.pc = "idle" \/ c.kind # "assess")

LEMMA Allowed ==
  ASSUME Inv, UNCHANGED riskVars, \A c \in attempts' : Harmless(c)
  PROVE  Inv'
  <1>1. UNCHANGED assessments /\ design' \in [Studies -> Design]
    BY DEF riskVars, Inv, RiskTypeOK
  <1>. QED
    BY <1>1, NothingAppraised DEF Harmless

LEMMA Known ==
  ASSUME Inv, NEW a \in attempts
  PROVE  IsAttempt(a) /\ Knows(a) /\ Harmless(Finished(a))
  BY FinishedForm DEF Inv, Harmless

LEMMA SkipIsHarmless ==
  ASSUME Inv, NEW a \in attempts, NEW s, Skip(a, s), a.pc = "idle"
  PROVE  \A c \in attempts' : Harmless(c)
  <1>1. PICK b, todo : b = [a EXCEPT !.todo = todo] /\ attempts' = (attempts \ {a}) \cup {b}
    BY DEF Skip, Replace
  <1>2. IsAttempt(b) /\ b.pc = "idle"
    BY <1>1, Known, SkippedForm
  <1>. QED
    BY <1>1, <1>2 DEF Harmless

LEMMA TakeIsHarmless ==
  ASSUME Inv, NEW a \in attempts, NEW s, NEW seen, Take(a, s, seen), a.kind # "assess"
  PROVE  \A c \in attempts' : Harmless(c)
  <1>1. PICK b : b = [a EXCEPT !.pc = "checked", !.subject = {s}, !.seen = seen]
                 /\ attempts' = (attempts \ {a}) \cup {b}
    BY DEF Take, Replace
  <1>2. IsAttempt(b) /\ b.kind = a.kind
    BY <1>1, Known, TakenForm
  <1>. QED
    BY <1>1, <1>2 DEF Harmless

LEMMA CallIsHarmless ==
  ASSUME Inv, NEW kind, NEW batch, Call(kind, batch)
  PROVE  \A c \in attempts' : Harmless(c)
  <1>1. PICK o, b : b = NewAttempt(o, kind, 1, batch) /\ attempts' = attempts \cup {b}
    BY DEF Call
  <1>2. IsAttempt(b) /\ b.pc = "idle"
    BY <1>1, NewIsAttempt
  <1>. QED
    BY <1>1, <1>2 DEF Harmless

\* rest: what is left of an attempt that fails.
LEMMA RetryIsHarmless ==
  ASSUME Inv, NEW a \in attempts, NEW rest, Retry(a, rest), \A c \in rest : Harmless(c)
  PROVE  \A c \in attempts' : Harmless(c)
  <1>1. PICK b : /\ b = NewAttempt(a.op, a.kind, a.n + 1, a.batch)
                 /\ attempts' \subseteq attempts \cup rest \cup {b}
    BY DEF Retry
  <1>2. IsAttempt(b) /\ b.pc = "idle"
    BY <1>1, NewIsAttempt
  <1>. QED
    BY <1>1, <1>2 DEF Harmless

-----------------------------------------------------------------------------
(* Steps that appraise nothing                                             *)

LEMMA WorkflowsKeepInv ==
  ASSUME Inv, UNCHANGED riskVars, EvidenceWorkflow \/ CallAssessor \/ Finish \/ Abort
  PROVE  Inv'
  <1>1. CASE UNCHANGED attempts
    BY <1>1, Allowed DEF Harmless
  <1>2. CASE PrepareBatch
    <2>1. CASE UNCHANGED attempts
      BY <2>1, <1>1
    <2>2. ASSUME NEW batch, Call("extract", batch) PROVE Inv'
      BY <2>2, CallIsHarmless, Allowed
    <2>. QED
      BY <1>2, <2>1, <2>2 DEF PrepareBatch
  <1>3. CASE CallReviewer
    <2>1. Call("review", Op.corpus)
      BY <1>3 DEF CallReviewer
    <2>2. PICK corpus : Call("review", corpus)
      BY <2>1
    <2>. QED
      BY <2>2, CallIsHarmless, Allowed
  <1>4. CASE CallAssessor
    <2>1. PICK corpus : Call("assess", corpus)
      BY <1>4 DEF CallAssessor
    <2>. QED
      BY <2>1, CallIsHarmless, Allowed
  <1>5. CASE Finish
    <2>1. attempts' \subseteq attempts
      BY <1>5 DEF Finish
    <2>. QED
      BY <2>1, Allowed DEF Harmless
  <1>6. CASE ResolveCorpus \/ EnsureSchema \/ Validate \/ Abort
    BY <1>1, <1>6 DEF ResolveCorpus, EnsureSchema, Validate, Abort
  <1>. QED
    BY <1>2, <1>3, <1>4, <1>5, <1>6 DEF EvidenceWorkflow

LEMMA EvidenceWorkKeepsInv ==
  ASSUME Inv, NEW a \in attempts, EvidenceWork(a), UNCHANGED riskVars
  PROVE  Inv'
  <1>1. ASSUME NEW s \in Studies, TakeStudy(a, s) PROVE Inv'
    <2>1. a.pc = "idle" /\ a.kind # "assess"
      BY <1>1 DEF TakeStudy, MayTake
    <2>2. Skip(a, s) \/ Take(a, s, NothingSeen)
      BY <1>1 DEF TakeStudy
    <2>. QED
      BY <2>1, <2>2, SkipIsHarmless, TakeIsHarmless, Allowed
  <1>2. ASSUME NEW s \in Studies, TakeForReview(a, s) PROVE Inv'
    <2>1. a.pc = "idle" /\ a.kind # "assess"
      BY <1>2 DEF TakeForReview, MayTake
    <2>2. PICK seen : Skip(a, s) \/ Take(a, s, seen)
      BY <1>2 DEF TakeForReview
    <2>. QED
      BY <2>1, <2>2, SkipIsHarmless, TakeIsHarmless, Allowed
  <1>3. CASE ReadOldRows(a)
    <2>1. PICK b, rows : /\ b = [a EXCEPT !.pc = "storing", !.seen.rows = rows]
                         /\ attempts' = (attempts \ {a}) \cup {b}
      BY <1>3 DEF ReadOldRows, Replace
    <2>2. IsAttempt(b) /\ b.kind = a.kind /\ a.kind # "assess"
      BY <1>3, <2>1, Known, ReadingForm DEF ReadOldRows
    <2>. QED
      BY <2>1, <2>2, Allowed DEF Harmless
  <1>4. CASE StoreEvidence(a) \/ StoreReview(a)
    <2>1. attempts' = (attempts \ {a}) \cup {Finished(a)}
      BY <1>4 DEF StoreEvidence, StoreReview, Replace
    <2>2. \A c \in attempts' : Harmless(c)
      BY <2>1, Known DEF Harmless
    <2>. QED
      BY <2>2, Allowed
  <1>. QED
    BY <1>1, <1>2, <1>3, <1>4 DEF EvidenceWork

LEMMA FailuresKeepInv ==
  ASSUME Inv, NEW a \in attempts, UNCHANGED riskVars,
         Ask(a) \/ Answer(a) \/ Lose(a) \/ AgentFails(a) \/ LateEnds(a)
  PROVE  Inv'
  <1>1. CASE Ask(a)
    <2>1. PICK b : b = [a EXCEPT !.pc = "asking"] /\ attempts' = (attempts \ {a}) \cup {b}
      BY <1>1 DEF Ask, Replace
    <2>2. IsAttempt(b) /\ b.kind = a.kind /\ b.subject = a.subject /\ b.seen = a.seen /\ a.pc # "idle"
      BY <1>1, <2>1, Known, PcForm DEF Ask
    <2>3. Follows(b, a)
      BY <2>2 DEF Follows
    <2>. QED
      BY <2>1, <2>3, Allowed DEF Harmless
  <1>2. CASE Answer(a) \/ LateEnds(a)
    <2>1. attempts' \subseteq attempts
      BY <1>2 DEF Answer, LateEnds
    <2>. QED
      BY <2>1, Allowed DEF Harmless
  <1>3. CASE AgentFails(a)
    <2>1. attempts' = (attempts \ {a}) \cup {Finished(a)}
      BY <1>3 DEF AgentFails, Replace
    <2>2. \A c \in attempts' : Harmless(c)
      BY <2>1, Known DEF Harmless
    <2>. QED
      BY <2>2, Allowed
  <1>4. CASE Lose(a)
    <2>1. PICK b : b = [a EXCEPT !.live = FALSE]
      OBVIOUS
    <2>2. IsAttempt(b) /\ b.kind = a.kind /\ b.subject = a.subject /\ b.seen = a.seen /\ b.pc = a.pc
      BY <2>1, Known, LateForm
    <2>3. Harmless(b)
      BY <2>2 DEF Harmless, Follows
    <2>4. PICK rest \in {{}, {b}} : Retry(a, rest)
      BY <1>4, <2>1 DEF Lose
    <2>5. \A c \in rest : Harmless(c)
      BY <2>3
    <2>. QED
      BY <2>4, <2>5, RetryIsHarmless, Allowed
  <1>. QED
    BY <1>1, <1>2, <1>3, <1>4

-----------------------------------------------------------------------------
(* Assessments                                                             *)

\* An assessor looks: the tool is not that of the latest version.
LEMMA TakeToAssessKeepsInv ==
  ASSUME Inv, NEW a \in attempts, NEW s \in Studies, TakeToAssess(a, s)
  PROVE  Inv'
  <1>1. a.pc = "idle" /\ UNCHANGED <<design, assessments>>
    BY DEF TakeToAssess, MayTake, riskVars
  <1>2. CASE NothingToAssess(s)
    <2>1. Skip(a, s) /\ UNCHANGED riskVars
      BY <1>1, <1>2 DEF TakeToAssess, riskVars
    <2>. QED
      BY <1>1, <2>1, SkipIsHarmless, Allowed
  <1>3. CASE ~NothingToAssess(s)
    <2>1. PICK seen : /\ seen = [NothingSeen EXCEPT !.version = Latest(s).version, !.tool = SelectTool(design[s])]
                      /\ Take(a, s, seen)
      BY <1>3 DEF TakeToAssess
    <2>2. seen.version = Latest(s).version /\ seen.tool = SelectTool(design[s])
      BY <2>1 DEF NothingSeen
    <2>3. assessments[s] \in Seq(Assessment) /\ design[s] \in Design
      BY DEF Inv, RiskTypeOK
    <2>4. seen.tool \in {"ROB_2", "ROBINS_I"} /\ seen.tool # Latest(s).tool
      BY <1>3, <2>2, <2>3 DEF NothingToAssess, SelectTool, Design
    <2>5. /\ seen.version \in 0..Len(assessments[s])
          /\ seen.version > 0 => assessments[s][seen.version].tool # seen.tool
      <3>1. CASE assessments[s] = <<>>
        BY <2>2, <2>3, <3>1 DEF Latest
      <3>2. CASE assessments[s] # <<>>
        BY <2>2, <2>3, <2>4, <3>2 DEF Latest
      <3>. QED
        BY <3>1, <3>2
    <2>6. PICK b : b = [a EXCEPT !.pc = "checked", !.subject = {s}, !.seen = seen]
                   /\ attempts' = (attempts \ {a}) \cup {b}
      BY <2>1 DEF Take, Replace
    <2>7. IsAttempt(b) /\ b.subject = {s} /\ b.seen = seen
      <3>1. IsAttempt(a)
        BY DEF Inv
      <3>2. b = [a EXCEPT !.pc = "checked", !.subject = {s}, !.seen = seen]
        BY <2>6
      <3>. QED
        BY <3>1, <3>2 DEF IsAttempt
    <2>8. Saw(b, s)
      BY <2>4, <2>5, <2>7 DEF Saw
    <2>9. Knows(b)'
      BY <1>1, <2>8 DEF Knows, Saw
    <2>10. \A c \in attempts : IsAttempt(c) /\ Knows(c)'
      BY <1>1 DEF Inv, Knows, Saw
    <2>11. RiskTypeOK' /\ AppraisedOncePerTool'
      BY <1>1 DEF Inv, RiskTypeOK, AppraisedOncePerTool
    <2>. QED
      BY <2>6, <2>7, <2>9, <2>10, <2>11 DEF Inv
  <1>. QED
    BY <1>2, <1>3

\* One more version of a study, a human's or with another tool than the one before.
LEMMA VersionAdded ==
  ASSUME Inv, NEW s \in Studies, NEW new \in Assessment,
         assessments' = [assessments EXCEPT ![s] = Append(@, new)], design' = design,
         \/ new.by # "agent"
         \/ Len(assessments[s]) > 0 => assessments[s][Len(assessments[s])].tool # new.tool
  PROVE  VersionsStay /\ RiskTypeOK' /\ AppraisedOncePerTool'
  <1>1. assessments \in [Studies -> Seq(Assessment)]
    BY DEF Inv, RiskTypeOK
  <1>2. PICK rows, n : rows = assessments[s] /\ rows \in Seq(Assessment) /\ n = Len(rows) /\ n \in Nat
    BY <1>1
  <1>3. PICK all : all = Append(rows, new)
    OBVIOUS
  <1>4. /\ all \in Seq(Assessment) /\ Len(all) = n + 1 /\ all[n + 1] = new
        /\ \A v \in 1..n : all[v] = rows[v]
    BY <1>2, <1>3
  <1>5. assessments'[s] = all /\ \A t \in Studies \ {s} : assessments'[t] = assessments[t]
    BY <1>1, <1>2, <1>3
  <1>6. assessments' = [assessments EXCEPT ![s] = all]
    BY <1>2, <1>3
  <1>7. RiskTypeOK'
    BY <1>1, <1>4, <1>6 DEF Inv, RiskTypeOK
  <1>8. VersionsStay
    BY <1>1, <1>2, <1>4, <1>5 DEF VersionsStay
  <1>9. ASSUME NEW t \in Studies, NEW v \in DOMAIN assessments'[t], v > 1, assessments'[t][v].by = "agent"
        PROVE  assessments'[t][v - 1].tool # assessments'[t][v].tool
    <2>1. CASE t # s
      BY <1>5, <1>9, <2>1 DEF Inv, AppraisedOncePerTool
    <2>2. CASE t = s
      <3>1. v \in 1..(n + 1) /\ all[v].by = "agent" /\ assessments'[t] = all
        BY <1>4, <1>5, <1>9, <2>2
      <3>2. CASE v = n + 1
        <4>1. n \in 1..n /\ all[n] = rows[n] /\ all[v] = new /\ rows[n].tool # new.tool
          BY <1>2, <1>4, <1>9, <3>1, <3>2
        <4>. QED
          BY <1>2, <3>1, <3>2, <4>1
      <3>3. CASE v # n + 1
        <4>1. v \in 1..n /\ v - 1 \in 1..n
          BY <1>2, <1>9, <3>1, <3>3
        <4>2. all[v] = rows[v] /\ all[v - 1] = rows[v - 1]
          BY <1>4, <4>1
        <4>3. v \in DOMAIN assessments[s]
          BY <1>2, <4>1
        <4>4. rows[v - 1].tool # rows[v].tool
          BY <1>2, <1>9, <3>1, <4>2, <4>3 DEF Inv, AppraisedOncePerTool
        <4>. QED
          BY <3>1, <4>2, <4>4
      <3>. QED
        BY <3>2, <3>3
    <2>. QED
      BY <2>1, <2>2
  <1>10. AppraisedOncePerTool'
    BY <1>9 DEF AppraisedOncePerTool
  <1>. QED
    BY <1>7, <1>8, <1>10

LEMMA StoreAssessmentKeepsInv ==
  ASSUME Inv, NEW a \in attempts, StoreAssessment(a)
  PROVE  Inv'
  <1>1. a.kind = "assess" /\ a.pc = "asking" /\ design' = design
    BY DEF StoreAssessment
  <1>2. PICK s \in Studies : Saw(a, s)
    BY <1>1 DEF Inv, Knows
  <1>3. PICK new :
          /\ \E status \in {"PROPOSED", "NEEDS_REVIEW"} :
               new = [tool |-> a.seen.tool, by |-> "agent", status |-> status]
          /\ NumberIsFree(a, s) /\ assessments' = [assessments EXCEPT ![s] = Append(@, new)]
    BY <1>2 DEF StoreAssessment, Saw
  <1>4. new \in Assessment /\ new.tool = a.seen.tool
    BY <1>2, <1>3 DEF Saw, Assessment
  <1>5. Len(assessments[s]) > 0 => assessments[s][Len(assessments[s])].tool # new.tool
    BY <1>2, <1>3, <1>4 DEF Saw, NumberIsFree
  <1>6. VersionsStay /\ RiskTypeOK' /\ AppraisedOncePerTool'
    BY <1>1, <1>3, <1>4, <1>5, VersionAdded
  <1>7. PICK b : b = Finished(a) /\ attempts' = (attempts \ {a}) \cup {b}
    BY DEF StoreAssessment, Replace
  <1>8. IsAttempt(b) /\ b.pc = "idle"
    BY <1>7, Known, FinishedForm
  <1>9. Follows(b, a)
    BY <1>8 DEF Follows
  <1>10. \A c \in attempts' : IsAttempt(c) /\ Knows(c)'
    BY <1>6, <1>7, <1>9, AttemptsFollow
  <1>. QED
    BY <1>6, <1>10 DEF Inv

LEMMA NumberTakenKeepsInv ==
  ASSUME Inv, NEW a \in attempts, NumberTaken(a)
  PROVE  Inv'
  <1>1. PICK rest : rest = {} /\ Retry(a, rest) /\ UNCHANGED riskVars
    BY DEF NumberTaken
  <1>2. \A c \in rest : Harmless(c)
    BY <1>1
  <1>. QED
    BY <1>1, <1>2, RetryIsHarmless, Allowed

LEMMA ReviewKeepsInv ==
  ASSUME Inv, NEW s \in Studies, Review(s)
  PROVE  Inv'
  <1>1. attempts' = attempts /\ design' = design /\ SelectTool(design[s]) # "none"
    BY DEF Review, ByHuman
  <1>2. PICK new : /\ new = [tool |-> SelectTool(design[s]), by |-> "human", status |-> "APPROVED"]
                   /\ assessments' = [assessments EXCEPT ![s] = Append(@, new)]
    BY DEF Review
  <1>3. SelectTool(design[s]) \in {"ROB_2", "ROBINS_I"}
    BY <1>1 DEF SelectTool
  <1>4. new \in Assessment /\ new.by # "agent"
    BY <1>2, <1>3 DEF Assessment
  <1>5. VersionsStay /\ RiskTypeOK' /\ AppraisedOncePerTool'
    BY <1>1, <1>2, <1>4, VersionAdded
  <1>6. \A c \in attempts' : IsAttempt(c) /\ Knows(c)'
    BY <1>1, <1>5, AttemptsFollow
  <1>. QED
    BY <1>5, <1>6 DEF Inv

LEMMA ClassifyKeepsInv ==
  ASSUME Inv, NEW s \in Studies, Classify(s)
  PROVE  Inv'
  <1>1. attempts' = attempts /\ UNCHANGED assessments
    BY DEF Classify, ByHuman
  <1>2. design' \in [Studies -> Design]
    BY DesignsAssumption DEF Classify, Inv, RiskTypeOK
  <1>. QED
    BY <1>1, <1>2, NothingAppraised

-----------------------------------------------------------------------------
(* The invariant                                                           *)

LEMMA InitHolds ==
  ASSUME Init
  PROVE  Inv
  <1>1. attempts = {} /\ RiskInit
    BY DEF Init, WorkInit
  <1>2. RiskTypeOK /\ AppraisedOncePerTool
    BY <1>1 DEF RiskInit, RiskTypeOK, Design, AppraisedOncePerTool
  <1>. QED
    BY <1>1, <1>2 DEF Inv

LEMMA StepKeepsInv ==
  ASSUME Inv, [Next]_vars
  PROVE  Inv'
  <1>1. CASE Requests
    <2>1. ASSUME NEW type \in {"extraction", "risk_of_bias"}, Start(type), UNCHANGED riskVars PROVE Inv'
      BY <2>1, Allowed DEF Start, Harmless
    <2>2. ASSUME Revise \/ \E s \in Studies : Parse(s), UNCHANGED riskVars PROVE Inv'
      BY <2>2, Allowed DEF Revise, Parse, Harmless
    <2>3. ASSUME NEW s \in Studies, NEW f \in Fields, Correct(s, f), UNCHANGED riskVars PROVE Inv'
      BY <2>3, Allowed DEF Correct, ByHuman, Harmless
    <2>. QED
      BY <1>1, <2>1, <2>2, <2>3, ReviewKeepsInv, ClassifyKeepsInv DEF Requests
  <1>2. CASE Workers
    <2>1. ASSUME NEW a \in attempts, RiskWork(a) PROVE Inv'
      BY <2>1, StoreAssessmentKeepsInv, NumberTakenKeepsInv, TakeToAssessKeepsInv DEF RiskWork
    <2>2. CASE CallAssessor
      BY <2>2, WorkflowsKeepInv DEF CallAssessor
    <2>. QED
      BY <1>2, <2>1, <2>2, WorkflowsKeepInv, EvidenceWorkKeepsInv, FailuresKeepInv DEF Workers
  <1>3. CASE Failures
    BY <1>3, WorkflowsKeepInv, FailuresKeepInv DEF Failures
  <1>4. CASE UNCHANGED vars
    BY <1>4, Allowed DEF vars, workVars, Harmless
  <1>. QED
    BY <1>1, <1>2, <1>3, <1>4 DEF Next

-----------------------------------------------------------------------------
(* Operations and their attempts                                           *)

\* The operation extracts, and has a schema.
HasSchema(o) == ops[o].type = "extraction" /\ ops[o].schema \in DOMAIN schemas

IsSeen(seen) ==
  seen \in [rows : {seen.rows}, conflicts : {seen.conflicts}, version : {seen.version}, tool : {seen.tool}]

\* What an attempt is, by itself.
Shape(a) ==
  /\ IsAttempt(a) /\ IsSeen(a.seen) /\ a.kind \in Kinds /\ a.live \in BOOLEAN
  /\ a.pc \in {"idle", "checked", "asking", "storing"}
  /\ a.batch \subseteq Studies /\ a.todo \subseteq a.batch
  /\ IF a.pc = "idle" THEN a.subject = {} ELSE \E s \in a.batch : a.subject = {s}
  /\ a.pc = "storing" => a.kind = "extract"

\* The operation that an attempt is of.
Place(a) ==
  /\ a.op \in DOMAIN ops
  /\ IF a.kind = "assess" THEN ops[a.op].type = "risk_of_bias"
     ELSE HasSchema(a.op) /\ a.batch \subseteq ops[a.op].corpus
  /\ a.live => a.op = Len(ops) /\ ops[a.op].stage = "CALL"

OneLive == \A a, b \in attempts : a.live /\ b.live => a = b

OpOK(o) ==
  /\ ops[o].status = "RUNNING" <=> ops[o].stage # "ENDED"
  /\ ops[o].status = "RUNNING" => o = Len(ops)
  /\ ops[o].stage \in {"CORPUS", "SCHEMA"} => ops[o].schema = 0 /\ ops[o].attempted = {}
  /\ ops[o].stage \in {"SCHEMA", "PREPARE", "VALIDATE", "REVIEW"} => ops[o].type = "extraction"
  /\ ops[o].stage \in {"PREPARE", "VALIDATE", "REVIEW"} => HasSchema(o)
  /\ ops[o].type = "extraction" /\ ops[o].stage = "FINISH" => HasSchema(o)
  /\ ops[o].schema # 0 /\ o = Len(ops) => ops[o].schema = Len(schemas)

SchemasAreKnown ==
  \A s \in Studies, f \in Fields : \A i \in DOMAIN history[s][f] :
    history[s][f][i].schema \in DOMAIN schemas

OpsInv == ops \in Seq(Operation) /\ protocol \in Protocols /\ readable \subseteq Studies
          /\ schemas \in Seq(Protocols) /\ \A o \in DOMAIN ops : OpOK(o)
AttemptsInv == OneLive /\ \A a \in attempts : Shape(a) /\ Place(a)

WorkInv == OpsInv /\ AttemptsInv

-----------------------------------------------------------------------------
(* Operations                                                              *)

LEMMA OpReplaced ==
  ASSUME ops \in Seq(Operation), NEW o \in DOMAIN ops, NEW new \in Operation,
         ops' = [ops EXCEPT ![o] = new]
  PROVE  /\ ops' \in Seq(Operation) /\ Len(ops') = Len(ops) /\ DOMAIN ops' = DOMAIN ops
         /\ ops'[o] = new /\ \A p \in DOMAIN ops : p # o => ops'[p] = ops[p]
  OBVIOUS

LEMMA LastOp ==
  ASSUME ops \in Seq(Operation), ops # <<>>
  PROVE  Len(ops) \in DOMAIN ops /\ ops[Len(ops)] \in Operation
  OBVIOUS

\* Only the last operation may run.
LEMMA OnlyTheLast ==
  ASSUME OpsInv, ~Idle
  PROVE  ops # <<>> /\ Op \in Operation /\ Op.status = "RUNNING" /\ Op.stage # "ENDED"
  <1>1. PICK o \in DOMAIN ops : ops[o].status = "RUNNING"
    BY DEF Idle
  <1>2. o = Len(ops)
    BY <1>1 DEF OpsInv, OpOK
  <1>. QED
    BY <1>1, <1>2, LastOp DEF OpsInv, OpOK, Op

LEMMA NobodyIsLive ==
  ASSUME OpsInv, AttemptsInv, ops = <<>> \/ Op.stage # "CALL"
  PROVE  \A a \in attempts : ~a.live
  BY DEF AttemptsInv, Place, Op

Stages == {"CORPUS", "SCHEMA", "PREPARE", "VALIDATE", "REVIEW", "FINISH", "ABORT", "CALL", "ENDED"}

LEMMA Entered ==
  ASSUME ops \in Seq(Operation), ops # <<>>, NEW stage \in Stages, Enter(stage)
  PROVE  /\ ops' \in Seq(Operation) /\ Len(ops') = Len(ops) /\ DOMAIN ops' = DOMAIN ops
         /\ \A o \in DOMAIN ops : o # Len(ops) => ops'[o] = ops[o]
         /\ \A o \in DOMAIN ops : /\ ops'[o].type = ops[o].type /\ ops'[o].status = ops[o].status
                                  /\ ops'[o].corpus = ops[o].corpus
                                  /\ ops'[o].attempted = ops[o].attempted
                                  /\ ops'[o].schema = ops[o].schema
         /\ ops'[Len(ops)].stage = stage
  <1>1. PICK o, old, new : o = Len(ops) /\ old = ops[o] /\ new = [old EXCEPT !.stage = stage]
    OBVIOUS
  <1>2. o \in DOMAIN ops /\ old \in Operation
    BY <1>1, LastOp
  <1>3. /\ new \in Operation /\ new.type = old.type /\ new.status = old.status /\ new.corpus = old.corpus
        /\ new.attempted = old.attempted /\ new.schema = old.schema /\ new.stage = stage
    BY <1>1, <1>2 DEF Operation, Stages
  <1>4. ops' = [ops EXCEPT ![o] = new]
    BY <1>1 DEF Enter
  <1>5. /\ ops' \in Seq(Operation) /\ Len(ops') = Len(ops) /\ DOMAIN ops' = DOMAIN ops
        /\ ops'[o] = new /\ \A p \in DOMAIN ops : p # o => ops'[p] = ops[p]
    BY <1>2, <1>3, <1>4, OpReplaced
  <1>. QED
    BY <1>1, <1>3, <1>5

LEMMA StudyAttempted ==
  ASSUME ops \in Seq(Operation), NEW a, a.op \in DOMAIN ops, NEW s \in Studies, Attempted(a, s)
  PROVE  /\ ops' \in Seq(Operation) /\ Len(ops') = Len(ops) /\ DOMAIN ops' = DOMAIN ops
         /\ \A o \in DOMAIN ops : o # a.op => ops'[o] = ops[o]
         /\ \A o \in DOMAIN ops : /\ ops'[o].type = ops[o].type /\ ops'[o].status = ops[o].status
                                  /\ ops'[o].corpus = ops[o].corpus
                                  /\ ops'[o].stage = ops[o].stage
                                  /\ ops'[o].schema = ops[o].schema
         /\ ops'[a.op].attempted = ops[a.op].attempted \cup {s}
  <1>1. PICK o, old, new : o = a.op /\ old = ops[o] /\ new = [old EXCEPT !.attempted = old.attempted \cup {s}]
    OBVIOUS
  <1>2. o \in DOMAIN ops /\ old \in Operation
    BY <1>1
  <1>3. /\ new \in Operation /\ new.type = old.type /\ new.status = old.status /\ new.corpus = old.corpus
        /\ new.attempted = old.attempted \cup {s} /\ new.schema = old.schema /\ new.stage = old.stage
    BY <1>1, <1>2 DEF Operation
  <1>4. ops' = [ops EXCEPT ![o] = new]
    BY <1>1 DEF Attempted
  <1>5. /\ ops' \in Seq(Operation) /\ Len(ops') = Len(ops) /\ DOMAIN ops' = DOMAIN ops
        /\ ops'[o] = new /\ \A p \in DOMAIN ops : p # o => ops'[p] = ops[p]
    BY <1>2, <1>3, <1>4, OpReplaced
  <1>. QED
    BY <1>1, <1>3, <1>5

-----------------------------------------------------------------------------
(* Attempts                                                                *)

\* c goes on for a: a later state of it, or its retry.
GoesOn(c, a) ==
  /\ Shape(c) /\ c.op = a.op /\ c.kind = a.kind /\ c.batch = a.batch
  /\ c.live => a.live

LEMMA FinishedGoesOn ==
  ASSUME NEW a, Shape(a), NEW b, b = Finished(a)
  PROVE  GoesOn(b, a) /\ b.pc = "idle" /\ b.todo = a.todo \ a.subject
  <1>1. /\ b.op = a.op /\ b.kind = a.kind /\ b.n = a.n /\ b.live = a.live /\ b.batch = a.batch
        /\ b.todo = a.todo \ a.subject /\ b.pc = "idle" /\ b.subject = {} /\ b.seen = NothingSeen
    BY DEF Shape, IsAttempt, Finished
  <1>2. IsAttempt(b) /\ IsSeen(b.seen)
    BY <1>1 DEF Shape, IsAttempt, Finished, IsSeen, NothingSeen
  <1>. QED
    BY <1>1, <1>2 DEF GoesOn, Shape

Taken(a, s, seen) == [a EXCEPT !.pc = "checked", !.subject = {s}, !.seen = seen]

LEMMA TakenGoesOn ==
  ASSUME NEW a, Shape(a), NEW s \in a.todo, NEW seen, IsSeen(seen), NEW b, b = Taken(a, s, seen)
  PROVE  GoesOn(b, a) /\ b.pc = "checked" /\ b.subject = {s} /\ b.seen = seen /\ b.todo = a.todo
  <1>1. /\ b.op = a.op /\ b.kind = a.kind /\ b.n = a.n /\ b.live = a.live /\ b.batch = a.batch
        /\ b.todo = a.todo /\ b.pc = "checked" /\ b.subject = {s} /\ b.seen = seen /\ IsAttempt(b)
    BY DEF Shape, IsAttempt, Taken
  <1>. QED
    BY <1>1 DEF GoesOn, Shape

LEMMA SkippedGoesOn ==
  ASSUME NEW a, Shape(a), NEW s, NEW b, b = [a EXCEPT !.todo = a.todo \ {s}]
  PROVE  GoesOn(b, a) /\ b.pc = a.pc /\ b.subject = a.subject /\ b.seen = a.seen /\ b.todo = a.todo \ {s}
  <1>1. /\ b.op = a.op /\ b.kind = a.kind /\ b.n = a.n /\ b.live = a.live /\ b.batch = a.batch
        /\ b.todo = a.todo \ {s} /\ b.pc = a.pc /\ b.subject = a.subject /\ b.seen = a.seen /\ IsAttempt(b)
    BY DEF Shape, IsAttempt
  <1>. QED
    BY <1>1 DEF GoesOn, Shape

LEMMA AskingGoesOn ==
  ASSUME NEW a, Shape(a), a.pc # "idle", NEW b, b = [a EXCEPT !.pc = "asking"]
  PROVE  GoesOn(b, a) /\ b.pc = "asking" /\ b.subject = a.subject /\ b.seen = a.seen /\ b.todo = a.todo
  <1>1. /\ b.op = a.op /\ b.kind = a.kind /\ b.n = a.n /\ b.live = a.live /\ b.batch = a.batch
        /\ b.todo = a.todo /\ b.pc = "asking" /\ b.subject = a.subject /\ b.seen = a.seen /\ IsAttempt(b)
    BY DEF Shape, IsAttempt
  <1>. QED
    BY <1>1 DEF GoesOn, Shape

LEMMA LateGoesOn ==
  ASSUME NEW a, Shape(a), NEW b, b = [a EXCEPT !.live = FALSE]
  PROVE  GoesOn(b, a) /\ ~b.live /\ b.pc = a.pc /\ b.subject = a.subject /\ b.seen = a.seen /\ b.todo = a.todo
  <1>1. /\ b.op = a.op /\ b.kind = a.kind /\ b.n = a.n /\ b.live = FALSE /\ b.batch = a.batch
        /\ b.todo = a.todo /\ b.pc = a.pc /\ b.subject = a.subject /\ b.seen = a.seen /\ IsAttempt(b)
    BY DEF Shape, IsAttempt
  <1>. QED
    BY <1>1 DEF GoesOn, Shape

Storing(a, rows) == [a EXCEPT !.pc = "storing", !.seen.rows = rows]

LEMMA StoringGoesOn ==
  ASSUME NEW a, Shape(a), a.pc # "idle", a.kind = "extract", NEW rows, NEW b, b = Storing(a, rows)
  PROVE  GoesOn(b, a) /\ b.pc = "storing" /\ b.subject = a.subject /\ b.seen.rows = rows /\ b.todo = a.todo
  <1>1. /\ b.op = a.op /\ b.kind = a.kind /\ b.n = a.n /\ b.live = a.live /\ b.batch = a.batch
        /\ b.todo = a.todo /\ b.pc = "storing" /\ b.subject = a.subject /\ b.seen.rows = rows
        /\ IsAttempt(b) /\ IsSeen(b.seen)
    BY DEF Shape, IsAttempt, IsSeen, Storing
  <1>. QED
    BY <1>1 DEF GoesOn, Shape

LEMMA NewGoesOn ==
  ASSUME NEW o, NEW kind \in Kinds, NEW n, NEW batch \in SUBSET Studies, NEW b,
         b = NewAttempt(o, kind, n, batch)
  PROVE  /\ Shape(b) /\ b.op = o /\ b.kind = kind /\ b.batch = batch /\ b.pc = "idle" /\ b.todo = batch
         /\ b.live
  BY DEF NewAttempt, Shape, IsAttempt, IsSeen, NothingSeen

-----------------------------------------------------------------------------
(* Steps of the work                                                       *)

LEMMA PlaceStays ==
  ASSUME NEW c, Place(c), Len(ops') = Len(ops), DOMAIN ops' = DOMAIN ops,
         \A o \in DOMAIN ops : /\ ops'[o].type = ops[o].type /\ ops'[o].schema = ops[o].schema
                               /\ ops'[o].corpus = ops[o].corpus,
         DOMAIN schemas \subseteq DOMAIN schemas',
         c.live => ops'[Len(ops)].stage = ops[Len(ops)].stage
  PROVE  Place(c)'
  BY DEF Place, HasSchema

\* One attempt goes on, or ends.
LEMMA OneGoesOn ==
  ASSUME AttemptsInv, NEW a \in attempts, NEW rest, \A b \in rest : GoesOn(b, a),
         \A b, c \in rest : b.live /\ c.live => b = c,
         attempts' \subseteq (attempts \ {a}) \cup rest,
         \A c \in (attempts \ {a}) \cup rest : Place(c)'
  PROVE  AttemptsInv'
  <1>1. \A c \in attempts' : Shape(c) /\ Place(c)'
    BY DEF AttemptsInv, GoesOn
  <1>2. ASSUME NEW b \in attempts', NEW c \in attempts', b.live, c.live
        PROVE  b = c
    <2>1. CASE b \in attempts \ {a} /\ c \in attempts \ {a}
      BY <1>2, <2>1 DEF AttemptsInv, OneLive
    <2>2. CASE b \in rest /\ c \in rest
      BY <1>2, <2>2
    <2>3. CASE b \in attempts \ {a} /\ c \in rest
      BY <1>2, <2>3 DEF AttemptsInv, OneLive, GoesOn
    <2>4. CASE c \in attempts \ {a} /\ b \in rest
      BY <1>2, <2>4 DEF AttemptsInv, OneLive, GoesOn
    <2>. QED
      BY <2>1, <2>2, <2>3, <2>4
  <1>3. OneLive' 
    BY <1>2 DEF OneLive
  <1>. QED
    BY <1>1, <1>3 DEF AttemptsInv, Shape

LEMMA OpsStay ==
  ASSUME OpsInv, UNCHANGED <<ops, schemas>>, protocol' \in Protocols, readable' \subseteq Studies
  PROVE  OpsInv'
  BY DEF OpsInv, OpOK, HasSchema

LEMMA MovesKeepWork ==
  ASSUME WorkInv, NEW a \in attempts, NEW b, GoesOn(b, a), Replace(a, b),
         UNCHANGED <<ops, schemas, protocol, readable>>
  PROVE  WorkInv'
  <1>1. OpsInv'
    BY OpsStay DEF WorkInv, OpsInv
  <1>2. \A c \in attempts : Place(c)'
    BY DEF WorkInv, AttemptsInv, Place, HasSchema
  <1>3. Place(b)'
    BY <1>2 DEF Place, GoesOn, HasSchema
  <1>4. AttemptsInv'
    <2>1. PICK rest : rest = {b}
      OBVIOUS
    <2>2. \A c \in (attempts \ {a}) \cup rest : Place(c)'
      BY <1>2, <1>3, <2>1
    <2>3. attempts' = (attempts \ {a}) \cup rest
      BY <2>1 DEF Replace
    <2>. QED
      BY <2>1, <2>2, <2>3, OneGoesOn DEF WorkInv
  <1>. QED
    BY <1>1, <1>4 DEF WorkInv

LEMMA AttemptedKeepsWork ==
  ASSUME WorkInv, NEW a \in attempts, NEW b, GoesOn(b, a), Replace(a, b), a.kind # "assess",
         NEW s \in Studies, Attempted(a, s), UNCHANGED <<schemas, protocol, readable>>
  PROVE  WorkInv'
  <1>1. a.op \in DOMAIN ops /\ HasSchema(a.op)
    BY DEF WorkInv, AttemptsInv, Place
  <1>2. /\ ops' \in Seq(Operation) /\ Len(ops') = Len(ops) /\ DOMAIN ops' = DOMAIN ops
        /\ \A o \in DOMAIN ops : o # a.op => ops'[o] = ops[o]
        /\ \A o \in DOMAIN ops : /\ ops'[o].type = ops[o].type /\ ops'[o].status = ops[o].status
                                 /\ ops'[o].corpus = ops[o].corpus /\ ops'[o].stage = ops[o].stage
                                 /\ ops'[o].schema = ops[o].schema
    BY <1>1, StudyAttempted DEF WorkInv, OpsInv
  <1>3. \A o \in DOMAIN ops' : OpOK(o)'
    <2>1. ASSUME NEW o \in DOMAIN ops PROVE OpOK(o)'
      <3>1. OpOK(o)
        BY DEF WorkInv, OpsInv
      <3>2. CASE o = a.op
        <4>1. ops[o].schema # 0
          BY <1>1, <3>2 DEF HasSchema, WorkInv, OpsInv
        <4>. QED
          BY <1>2, <3>1, <4>1 DEF OpOK, HasSchema
      <3>3. CASE o # a.op
        BY <1>2, <3>1, <3>3 DEF OpOK, HasSchema
      <3>. QED
        BY <3>2, <3>3
    <2>. QED
      BY <1>2, <2>1
  <1>4. OpsInv'
    BY <1>2, <1>3 DEF WorkInv, OpsInv
  <1>5. \A c \in attempts : Place(c)'
    <2>1. \A c \in attempts : Place(c) /\ (c.live => Len(ops) \in DOMAIN ops)
      BY DEF WorkInv, AttemptsInv, Place
    <2>. QED
      BY <1>2, <2>1, PlaceStays
  <1>6. Place(b)'
    BY <1>5 DEF Place, GoesOn, HasSchema
  <1>7. AttemptsInv'
    <2>1. PICK rest : rest = {b}
      OBVIOUS
    <2>2. \A c \in (attempts \ {a}) \cup rest : Place(c)'
      BY <1>5, <1>6, <2>1
    <2>3. attempts' = (attempts \ {a}) \cup rest
      BY <2>1 DEF Replace
    <2>. QED
      BY <2>1, <2>2, <2>3, OneGoesOn DEF WorkInv
  <1>. QED
    BY <1>4, <1>7 DEF WorkInv

LEMMA EnterKeepsOps ==
  ASSUME OpsInv, ops # <<>>, Op.stage # "ENDED", UNCHANGED <<schemas, protocol, readable>>,
         NEW stage \in {"PREPARE", "VALIDATE", "REVIEW", "FINISH", "ABORT", "CALL"}, Enter(stage),
         stage \in {"PREPARE", "VALIDATE", "REVIEW"} => HasSchema(Len(ops)),
         stage = "FINISH" /\ Op.type = "extraction" => HasSchema(Len(ops))
  PROVE  OpsInv'
  <1>1. ops \in Seq(Operation) /\ stage \in Stages /\ Len(ops) \in DOMAIN ops
    BY LastOp DEF OpsInv, Stages
  <1>2. /\ ops' \in Seq(Operation) /\ Len(ops') = Len(ops) /\ DOMAIN ops' = DOMAIN ops
        /\ \A o \in DOMAIN ops : o # Len(ops) => ops'[o] = ops[o]
        /\ \A o \in DOMAIN ops : /\ ops'[o].type = ops[o].type /\ ops'[o].status = ops[o].status
                                 /\ ops'[o].schema = ops[o].schema
        /\ ops'[Len(ops)].stage = stage
    BY <1>1, Entered
  <1>3. \A o \in DOMAIN ops : OpOK(o)'
    <2>1. ASSUME NEW o \in DOMAIN ops, o # Len(ops) PROVE OpOK(o)'
      BY <1>2, <2>1 DEF OpsInv, OpOK, HasSchema
    <2>2. ASSUME NEW o \in DOMAIN ops, o = Len(ops) PROVE OpOK(o)'
      <3>1. OpOK(o) /\ ops[o].status = "RUNNING"
        BY <2>2 DEF OpsInv, OpOK, Op
      <3>. QED
        BY <1>1, <1>2, <2>2, <3>1 DEF OpOK, HasSchema, Op
    <2>. QED
      BY <2>1, <2>2
  <1>. QED
    BY <1>2, <1>3 DEF OpsInv

\* Whoever is not live may go on when the operation does.
LEMMA EnterKeepsPlaces ==
  ASSUME OpsInv, ops # <<>>, NEW stage \in Stages, Enter(stage), UNCHANGED schemas,
         NEW c, Place(c), ~c.live
  PROVE  Place(c)'
  <1>1. /\ Len(ops') = Len(ops) /\ DOMAIN ops' = DOMAIN ops
        /\ \A o \in DOMAIN ops : /\ ops'[o].type = ops[o].type /\ ops'[o].corpus = ops[o].corpus
                                 /\ ops'[o].schema = ops[o].schema
    BY Entered DEF OpsInv
  <1>. QED
    BY <1>1, PlaceStays

LEMMA RetryGoesOn ==
  ASSUME WorkInv, NEW a \in attempts, NEW rest, Retry(a, rest), \A b \in rest : GoesOn(b, a) /\ ~b.live
  PROVE  \E left : /\ attempts' = (attempts \ {a}) \cup left
                   /\ \A b \in left : GoesOn(b, a) /\ (b.pc = "idle" \/ b \in rest)
                   /\ \A b, c \in left : b.live /\ c.live => b = c
                   /\ \/ UNCHANGED ops
                      \/ a.live /\ Enter("ABORT") /\ \A b \in left : ~b.live
  <1>1. Shape(a) /\ a.kind \in Kinds /\ a.batch \in SUBSET Studies
    BY DEF WorkInv, AttemptsInv, Shape
  <1>2. PICK new : new = NewAttempt(a.op, a.kind, a.n + 1, a.batch)
    OBVIOUS
  <1>3. /\ Shape(new) /\ new.op = a.op /\ new.kind = a.kind /\ new.batch = a.batch
        /\ new.pc = "idle" /\ new.live
    BY <1>1, <1>2, NewGoesOn
  <1>4. CASE a.live /\ a.n < environment.retries
    <2>1. attempts' = (attempts \ {a}) \cup (rest \cup {new}) /\ UNCHANGED ops
      BY <1>2, <1>4 DEF Retry
    <2>2. \A b \in rest \cup {new} : GoesOn(b, a) /\ (b.pc = "idle" \/ b \in rest)
      BY <1>3, <1>4 DEF GoesOn
    <2>3. \A b, c \in rest \cup {new} : b.live /\ c.live => b = c
      OBVIOUS
    <2>. QED
      BY <2>1, <2>2, <2>3
  <1>5. CASE ~(a.live /\ a.n < environment.retries)
    <2>1. attempts' = (attempts \ {a}) \cup rest
      BY <1>5 DEF Retry
    <2>2. UNCHANGED ops \/ (a.live /\ Enter("ABORT"))
      BY <1>5 DEF Retry
    <2>3. /\ \A b \in rest : GoesOn(b, a) /\ (b.pc = "idle" \/ b \in rest)
          /\ \A b, c \in rest : b.live /\ c.live => b = c
          /\ \/ UNCHANGED ops
             \/ a.live /\ Enter("ABORT") /\ \A b \in rest : ~b.live
      BY <2>2
    <2>. QED
      BY <2>1, <2>3
  <1>. QED
    BY <1>4, <1>5

LEMMA RetryKeepsWork ==
  ASSUME WorkInv, NEW a \in attempts, NEW rest, Retry(a, rest), \A b \in rest : GoesOn(b, a) /\ ~b.live,
         UNCHANGED <<schemas, protocol, readable>>
  PROVE  WorkInv'
  <1>1. PICK left : /\ attempts' = (attempts \ {a}) \cup left
                    /\ \A b \in left : GoesOn(b, a)
                    /\ \A b, c \in left : b.live /\ c.live => b = c
                    /\ \/ UNCHANGED ops
                       \/ a.live /\ Enter("ABORT") /\ \A b \in left : ~b.live
    BY RetryGoesOn
  <1>2. \A c \in (attempts \ {a}) \cup left : Place(c)
    BY <1>1 DEF WorkInv, AttemptsInv, Place, GoesOn
  <1>3. CASE UNCHANGED ops
    <2>1. OpsInv'
      BY <1>3, OpsStay DEF WorkInv, OpsInv
    <2>2. \A c \in (attempts \ {a}) \cup left : Place(c)'
      BY <1>2, <1>3 DEF Place, HasSchema
    <2>. QED
      BY <1>1, <2>1, <2>2, OneGoesOn DEF WorkInv
  <1>4. CASE a.live /\ Enter("ABORT") /\ \A b \in left : ~b.live
    <2>1. ops # <<>> /\ Op.stage = "CALL"
      BY <1>4 DEF WorkInv, AttemptsInv, Place, Op
    <2>2. OpsInv'
      BY <1>4, <2>1, EnterKeepsOps DEF WorkInv
    <2>3. \A c \in (attempts \ {a}) \cup left : ~c.live
      BY <1>4 DEF WorkInv, AttemptsInv, OneLive
    <2>4. \A c \in (attempts \ {a}) \cup left : Place(c)'
      BY <1>2, <1>4, <2>1, <2>3, EnterKeepsPlaces DEF WorkInv, Stages
    <2>. QED
      BY <1>1, <2>2, <2>4, OneGoesOn DEF WorkInv
  <1>. QED
    BY <1>1, <1>3, <1>4

LEMMA AnswerKeepsWork ==
  ASSUME WorkInv, NEW a \in attempts, Answer(a), UNCHANGED schemas
  PROVE  WorkInv'
  <1>1. /\ a.live /\ a.op = Len(ops) /\ ops # <<>> /\ Op.stage = "CALL" /\ a.kind \in Kinds
        /\ a.op \in DOMAIN ops
    BY DEF Answer, WorkInv, AttemptsInv, Place, Op, Shape
  <1>2. PICK stage : stage = AfterCall(a.kind) /\ Enter(stage)
    BY DEF Answer
  <1>3. stage \in {"PREPARE", "FINISH"} /\ (stage = "PREPARE" => a.kind = "extract")
    BY <1>2 DEF AfterCall
  <1>4. IF a.kind = "assess" THEN Op.type = "risk_of_bias" ELSE HasSchema(Len(ops))
    BY <1>1 DEF WorkInv, AttemptsInv, Place, Op
  <1>5. stage = "FINISH" /\ Op.type = "extraction" => HasSchema(Len(ops))
    BY <1>4
  <1>6. stage \in {"PREPARE", "VALIDATE", "REVIEW"} => HasSchema(Len(ops))
    BY <1>3, <1>4
  <1>7. UNCHANGED <<protocol, readable>> /\ attempts' = attempts \ {a}
    BY DEF Answer
  <1>8. OpsInv'
    BY <1>1, <1>2, <1>3, <1>5, <1>6, <1>7, EnterKeepsOps DEF WorkInv
  <1>9. \A c \in attempts \ {a} : ~c.live
    BY <1>1 DEF WorkInv, AttemptsInv, OneLive
  <1>10. \A c \in attempts \ {a} : Place(c)'
    BY <1>1, <1>2, <1>3, <1>9, EnterKeepsPlaces DEF WorkInv, AttemptsInv, Stages
  <1>11. AttemptsInv'
    BY <1>7, <1>9, <1>10 DEF WorkInv, AttemptsInv, OneLive, Shape
  <1>. QED
    BY <1>8, <1>11 DEF WorkInv

\* A step of the workflow that calls nothing.
LEMMA WorkflowKeepsWork ==
  ASSUME WorkInv, ops # <<>>, Op.stage \notin {"CALL", "ENDED"}, attempts' \subseteq attempts,
         UNCHANGED <<schemas, protocol, readable>>,
         NEW stage \in {"VALIDATE", "REVIEW", "FINISH", "ABORT"}, Enter(stage),
         stage # "ABORT" => HasSchema(Len(ops))
  PROVE  WorkInv'
  <1>1. \A c \in attempts : ~c.live
    BY NobodyIsLive DEF WorkInv
  <1>2. \A c \in attempts : Place(c)'
    BY <1>1, EnterKeepsPlaces DEF WorkInv, AttemptsInv, Stages
  <1>3. OpsInv'
    BY EnterKeepsOps DEF WorkInv
  <1>. QED
    BY <1>1, <1>2, <1>3 DEF WorkInv, AttemptsInv, OneLive, Shape

LEMMA CallKeepsWork ==
  ASSUME WorkInv, ops # <<>>, Op.stage \notin {"CALL", "ENDED"},
         UNCHANGED <<schemas, protocol, readable>>,
         NEW kind \in Kinds, NEW batch \in SUBSET Studies, Call(kind, batch),
         IF kind = "assess" THEN Op.type = "risk_of_bias" ELSE HasSchema(Len(ops)) /\ batch \subseteq Op.corpus
  PROVE  WorkInv'
  <1>1. \A c \in attempts : ~c.live
    BY NobodyIsLive DEF WorkInv
  <1>2. Enter("CALL")
    BY DEF Call
  <1>3. OpsInv'
    BY <1>2, EnterKeepsOps DEF WorkInv
  <1>4. \A c \in attempts : Place(c)'
    BY <1>1, <1>2, EnterKeepsPlaces DEF WorkInv, AttemptsInv, Stages
  <1>5. PICK b : b = NewAttempt(Len(ops), kind, 1, batch)
    OBVIOUS
  <1>6. Shape(b) /\ b.op = Len(ops) /\ b.kind = kind /\ b.batch = batch
    BY <1>5, NewGoesOn
  <1>7. /\ Len(ops') = Len(ops) /\ DOMAIN ops' = DOMAIN ops /\ Len(ops) \in DOMAIN ops
        /\ ops'[Len(ops)].type = Op.type /\ ops'[Len(ops)].corpus = Op.corpus
        /\ ops'[Len(ops)].schema = Op.schema /\ ops'[Len(ops)].stage = "CALL"
    BY <1>2, Entered, LastOp DEF WorkInv, OpsInv, Stages, Op
  <1>8. Place(b)'
    BY <1>6, <1>7 DEF Place, HasSchema, Op
  <1>9. attempts' = attempts \cup {b}
    BY <1>5 DEF Call
  <1>10. AttemptsInv'
    BY <1>1, <1>4, <1>6, <1>8, <1>9 DEF WorkInv, AttemptsInv, OneLive, Shape
  <1>. QED
    BY <1>3, <1>10 DEF WorkInv

LEMMA FinishKeepsWork ==
  ASSUME WorkInv, Finish, UNCHANGED schemas
  PROVE  WorkInv'
  <1>1. ops # <<>> /\ Op \in Operation /\ Op.status = "RUNNING" /\ Op.stage \in {"FINISH", "ABORT"}
    BY OnlyTheLast DEF Finish, WorkInv
  <1>2. \A c \in attempts : ~c.live
    BY <1>1, NobodyIsLive DEF WorkInv
  <1>3. PICK o, status, new :
          /\ o = Len(ops) /\ status \in {"COMPLETED", "PARTIAL"}
          /\ new = [Op EXCEPT !.stage = "ENDED", !.status = status]
          /\ ops' = [ops EXCEPT ![o] = new]
    BY DEF Finish, Op
  <1>4. o \in DOMAIN ops /\ Op = ops[o]
    BY <1>1, <1>3, LastOp DEF WorkInv, OpsInv, Op
  <1>5. /\ new \in Operation /\ new.type = Op.type /\ new.corpus = Op.corpus
        /\ new.attempted = Op.attempted /\ new.schema = Op.schema /\ new.stage = "ENDED"
        /\ new.status = status
    BY <1>1, <1>3 DEF Operation
  <1>6. /\ ops' \in Seq(Operation) /\ Len(ops') = Len(ops) /\ DOMAIN ops' = DOMAIN ops
        /\ ops'[o] = new /\ \A p \in DOMAIN ops : p # o => ops'[p] = ops[p]
    BY <1>3, <1>4, <1>5, OpReplaced DEF WorkInv, OpsInv
  <1>7. \A p \in DOMAIN ops : OpOK(p)'
    <2>1. ASSUME NEW p \in DOMAIN ops, p # o PROVE OpOK(p)'
      BY <1>3, <1>6, <2>1 DEF WorkInv, OpsInv, OpOK, HasSchema
    <2>2. OpOK(o) /\ status # "RUNNING"
      BY <1>3, <1>4 DEF WorkInv, OpsInv
    <2>3. OpOK(o)'
      BY <1>3, <1>4, <1>5, <1>6, <2>2 DEF OpOK, HasSchema
    <2>. QED
      BY <2>1, <2>3
  <1>8. OpsInv'
    BY <1>6, <1>7 DEF Finish, WorkInv, OpsInv
  <1>9. \A c \in attempts : Place(c)'
    <2>1. \A p \in DOMAIN ops : /\ ops'[p].type = ops[p].type /\ ops'[p].schema = ops[p].schema
                                /\ ops'[p].corpus = ops[p].corpus
      BY <1>4, <1>5, <1>6
    <2>. QED
      BY <1>2, <1>6, <2>1, PlaceStays DEF WorkInv, AttemptsInv
  <1>10. attempts' \subseteq attempts
    BY DEF Finish
  <1>. QED
    BY <1>2, <1>8, <1>9, <1>10 DEF WorkInv, AttemptsInv, OneLive, Shape

LEMMA StartKeepsWork ==
  ASSUME WorkInv, NEW type \in {"extraction", "risk_of_bias"}, Start(type), UNCHANGED schemas
  PROVE  WorkInv'
  <1>1. PICK new, n : /\ new = [type |-> type, status |-> "RUNNING", stage |-> "CORPUS",
                                corpus |-> {}, attempted |-> {}, schema |-> 0]
                      /\ ops' = Append(ops, new) /\ n = Len(ops)
    BY DEF Start
  <1>2. new \in Operation
    BY <1>1 DEF Operation
  <1>3. /\ ops' \in Seq(Operation) /\ n \in Nat /\ Len(ops') = n + 1 /\ DOMAIN ops' = 1..(n + 1)
        /\ DOMAIN ops = 1..n /\ ops'[n + 1] = new /\ \A o \in DOMAIN ops : ops'[o] = ops[o]
    BY <1>1, <1>2 DEF WorkInv, OpsInv
  <1>4. \A o \in DOMAIN ops : ops[o].status # "RUNNING" /\ ops[o].stage = "ENDED"
    BY DEF Start, Idle, WorkInv, OpsInv, OpOK
  <1>5. \A c \in attempts : ~c.live
    BY <1>4 DEF WorkInv, AttemptsInv, Place
  <1>6. \A o \in DOMAIN ops' : OpOK(o)'
    <2>1. ASSUME NEW o \in DOMAIN ops PROVE OpOK(o)'
      <3>1. OpOK(o) /\ o # n + 1 /\ ops'[o] = ops[o] /\ ops[o].status # "RUNNING"
        BY <1>3, <1>4 DEF WorkInv, OpsInv
      <3>. QED
        BY <1>3, <3>1 DEF OpOK, HasSchema
    <2>2. ASSUME NEW o, o = n + 1 PROVE OpOK(o)'
      BY <1>1, <1>3, <2>2 DEF OpOK, HasSchema
    <2>. QED
      BY <1>3, <2>1, <2>2
  <1>7. OpsInv'
    BY <1>3, <1>6 DEF Start, WorkInv, OpsInv
  <1>8. \A c \in attempts : Place(c)'
    BY <1>3, <1>5 DEF WorkInv, AttemptsInv, Place, HasSchema
  <1>. QED
    BY <1>5, <1>7, <1>8 DEF Start, WorkInv, AttemptsInv, OneLive, Shape

\* An extraction that has no schema has no attempts.
LEMMA NoAttemptBeforeSchema ==
  ASSUME WorkInv, ops # <<>>, Op.type = "extraction", Op.stage \in {"CORPUS", "SCHEMA"}
  PROVE  /\ \A c \in attempts : c.op \in DOMAIN ops /\ c.op # Len(ops) /\ ~c.live
         /\ Op.schema = 0 /\ Op.attempted = {} /\ Op \in Operation /\ OpOK(Len(ops))
  <1>1. Op.schema = 0 /\ Op.attempted = {} /\ Op \in Operation /\ OpOK(Len(ops))
    BY LastOp DEF WorkInv, OpsInv, OpOK, Op
  <1>2. \A c \in attempts : ~c.live
    BY NobodyIsLive DEF WorkInv
  <1>. QED
    BY <1>1, <1>2 DEF WorkInv, AttemptsInv, Place, HasSchema, Op, OpsInv

\* The first stages of an extraction: attempts of others stay where they are.
LEMMA FirstStagesKeepWork ==
  ASSUME WorkInv, ops # <<>>, Op.type = "extraction", Op.stage \in {"CORPUS", "SCHEMA"},
         schemas' \in Seq(Protocols), Len(schemas) <= Len(schemas'),
         UNCHANGED <<attempts, protocol, readable>>,
         NEW new \in Operation, ops' = [ops EXCEPT ![Len(ops)] = new],
         new.type = "extraction", new.status = Op.status, new.attempted = {},
         \/ new.stage = "SCHEMA" /\ new.schema = 0
         \/ new.stage = "PREPARE" /\ new.schema = Len(schemas') /\ Len(schemas') # 0
  PROVE  WorkInv'
  <1>1. PICK n : n = Len(ops) /\ n \in DOMAIN ops /\ Op = ops[n]
    BY LastOp DEF WorkInv, OpsInv, Op
  <1>2. /\ ops' \in Seq(Operation) /\ Len(ops') = Len(ops) /\ DOMAIN ops' = DOMAIN ops
        /\ ops'[n] = new /\ \A p \in DOMAIN ops : p # n => ops'[p] = ops[p]
    BY <1>1, OpReplaced DEF WorkInv, OpsInv
  <1>3. OpOK(n) /\ \A c \in attempts : c.op \in DOMAIN ops /\ c.op # n /\ ~c.live
    BY <1>1, NoAttemptBeforeSchema
  <1>4. DOMAIN schemas \subseteq DOMAIN schemas' /\ DOMAIN schemas' = 1..Len(schemas') /\ Len(schemas') \in Nat
    BY DEF WorkInv, OpsInv
  <1>5. \A o \in DOMAIN ops : OpOK(o)'
    <2>1. ASSUME NEW o \in DOMAIN ops, o # n PROVE OpOK(o)'
      BY <1>1, <1>2, <1>4, <2>1 DEF WorkInv, OpsInv, OpOK, HasSchema
    <2>2. OpOK(n)'
      BY <1>1, <1>2, <1>3, <1>4 DEF OpOK, HasSchema
    <2>. QED
      BY <2>1, <2>2
  <1>6. \A c \in attempts : Place(c)'
    BY <1>1, <1>2, <1>3, <1>4 DEF WorkInv, AttemptsInv, Place, HasSchema
  <1>. QED
    BY <1>2, <1>3, <1>5, <1>6 DEF WorkInv, OpsInv, AttemptsInv, OneLive, Shape

LEMMA ResolveCorpusKeepsWork ==
  ASSUME WorkInv, ResolveCorpus
  PROVE  WorkInv'
  <1>1. ops # <<>> /\ Op.type = "extraction" /\ Op.stage = "CORPUS" /\ Op.schema = 0 /\ Op.attempted = {}
        /\ Op \in Operation
    BY NoAttemptBeforeSchema DEF ResolveCorpus, Current, Op
  <1>2. PICK new : /\ new = [Op EXCEPT !.corpus = Included[protocol], !.stage = "SCHEMA"]
                   /\ ops' = [ops EXCEPT ![Len(ops)] = new]
    BY DEF ResolveCorpus, Op
  <1>3. Included[protocol] \subseteq Studies
    BY IncludedAssumption DEF WorkInv, OpsInv, Protocols
  <1>4. new \in Operation /\ new.type = "extraction" /\ new.status = Op.status /\ new.attempted = {}
        /\ new.stage = "SCHEMA" /\ new.schema = 0
    BY <1>1, <1>2, <1>3 DEF Operation
  <1>5. UNCHANGED <<attempts, protocol, readable, schemas>>
    BY DEF ResolveCorpus, evidenceVars
  <1>6. schemas' \in Seq(Protocols) /\ Len(schemas) <= Len(schemas')
    BY <1>5 DEF WorkInv, OpsInv
  <1>. QED
    BY <1>1, <1>2, <1>4, <1>5, <1>6, FirstStagesKeepWork

LEMMA SchemasGrow ==
  ASSUME WorkInv, EnsureSchema
  PROVE  /\ schemas' \in Seq(Protocols) /\ Len(schemas) <= Len(schemas') /\ Len(schemas') # 0
         /\ \A n \in DOMAIN schemas : schemas'[n] = schemas[n]
  <1>1. schemas \in Seq(Protocols) /\ protocol \in Protocols
    BY DEF WorkInv, OpsInv
  <1>2. (schemas' = schemas /\ schemas # <<>>) \/ schemas' = Append(schemas, protocol)
    BY DEF EnsureSchema
  <1>3. CASE schemas' = schemas /\ schemas # <<>>
    BY <1>1, <1>3
  <1>4. CASE schemas' = Append(schemas, protocol)
    <2>1. PICK S : S = Protocols
      OBVIOUS
    <2>2. schemas \in Seq(S) /\ protocol \in S
      BY <1>1, <2>1
    <2>3. /\ Append(schemas, protocol) \in Seq(S)
          /\ Len(Append(schemas, protocol)) = Len(schemas) + 1 /\ Len(schemas) \in Nat
          /\ \A n \in DOMAIN schemas : Append(schemas, protocol)[n] = schemas[n]
      BY <2>2
    <2>. QED
      BY <1>4, <2>1, <2>3
  <1>. QED
    BY <1>2, <1>3, <1>4

LEMMA EnsureSchemaKeepsWork ==
  ASSUME WorkInv, EnsureSchema
  PROVE  WorkInv'
  <1>1. ops # <<>> /\ Op.type = "extraction" /\ Op.stage = "SCHEMA" /\ Op.schema = 0 /\ Op.attempted = {}
        /\ Op \in Operation
    BY NoAttemptBeforeSchema DEF EnsureSchema, Current, Op
  <1>2. schemas' \in Seq(Protocols) /\ Len(schemas) <= Len(schemas') /\ Len(schemas') # 0
    BY SchemasGrow
  <1>3. PICK new : /\ new = [Op EXCEPT !.schema = Len(schemas'), !.stage = "PREPARE"]
                   /\ ops' = [ops EXCEPT ![Len(ops)] = new]
    BY DEF EnsureSchema, Op
  <1>4. new \in Operation /\ new.type = "extraction" /\ new.status = Op.status /\ new.attempted = {}
        /\ new.stage = "PREPARE" /\ new.schema = Len(schemas')
    <2>1. Len(schemas') \in Nat
      BY <1>2
    <2>. QED
      BY <1>1, <1>3, <2>1 DEF Operation
  <1>5. UNCHANGED <<attempts, protocol, readable>>
    BY DEF EnsureSchema
  <1>. QED
    BY <1>1, <1>2, <1>3, <1>4, <1>5, FirstStagesKeepWork

-----------------------------------------------------------------------------
(* What the activities do to their attempts                                *)

\* b replaces a, of which it is a later state.
Moves(a, b) == Replace(a, b) /\ GoesOn(b, a)

LEMMA ShapeKnown ==
  ASSUME WorkInv, NEW a \in attempts
  PROVE  Shape(a) /\ Place(a)
  BY DEF WorkInv, AttemptsInv

LEMMA SkipMoves ==
  ASSUME WorkInv, NEW a \in attempts, NEW s, MayTake(a, s), Skip(a, s)
  PROVE  \E b : Moves(a, b) /\ b.pc = "idle"
  <1>1. PICK b : b = [a EXCEPT !.todo = a.todo \ {s}] /\ Replace(a, b)
    BY DEF Skip
  <1>. QED
    BY <1>1, ShapeKnown, SkippedGoesOn DEF Moves, MayTake

LEMMA TakeMoves ==
  ASSUME WorkInv, NEW a \in attempts, NEW s, NEW seen, IsSeen(seen), MayTake(a, s), Take(a, s, seen)
  PROVE  \E b : Moves(a, b) /\ b.pc = "checked" /\ b.subject = {s} /\ b.seen = seen
  <1>1. PICK b : b = Taken(a, s, seen) /\ Replace(a, b)
    BY DEF Take, Taken
  <1>2. Shape(a) /\ s \in a.todo
    BY ShapeKnown DEF MayTake
  <1>3. GoesOn(b, a) /\ b.pc = "checked" /\ b.subject = {s} /\ b.seen = seen
    BY <1>1, <1>2, TakenGoesOn
  <1>. QED
    BY <1>1, <1>3 DEF Moves

LEMMA FinishedMoves ==
  ASSUME WorkInv, NEW a \in attempts, Replace(a, Finished(a))
  PROVE  \E b : Moves(a, b) /\ b.pc = "idle"
  <1>1. PICK b : b = Finished(a) /\ Replace(a, b)
    OBVIOUS
  <1>. QED
    BY <1>1, ShapeKnown, FinishedGoesOn DEF Moves

LEMMA TakeStudyMoves ==
  ASSUME WorkInv, NEW a \in attempts, NEW s \in Studies, TakeStudy(a, s)
  PROVE  /\ a.kind = "extract" /\ MayTake(a, s) /\ a.pc = "idle" /\ s \in a.batch
         /\ \E b : /\ Moves(a, b)
                   /\ \/ b.pc = "idle" /\ Attempted(a, s) /\ (Extracted(a, s) \/ s \notin readable)
                      \/ /\ b.pc = "checked" /\ b.subject = {s} /\ UNCHANGED ops
                         /\ ~Extracted(a, s) /\ s \in readable
  <1>1. a.kind = "extract" /\ MayTake(a, s) /\ a.pc = "idle" /\ s \in a.batch
    BY ShapeKnown DEF TakeStudy, MayTake, Shape
  <1>2. CASE Extracted(a, s) \/ s \notin readable
    <2>1. Skip(a, s) /\ Attempted(a, s)
      BY <1>2 DEF TakeStudy
    <2>. QED
      BY <1>1, <1>2, <2>1, SkipMoves
  <1>3. CASE ~(Extracted(a, s) \/ s \notin readable)
    <2>1. PICK seen : seen = NothingSeen /\ Take(a, s, seen) /\ UNCHANGED ops
      BY <1>3 DEF TakeStudy
    <2>2. IsSeen(seen)
      BY <2>1 DEF IsSeen, NothingSeen
    <2>. QED
      BY <1>1, <1>3, <2>1, <2>2, TakeMoves
  <1>. QED
    BY <1>2, <1>3

LEMMA TakeForReviewMoves ==
  ASSUME WorkInv, NEW a \in attempts, NEW s \in Studies, TakeForReview(a, s)
  PROVE  /\ a.kind = "review" /\ MayTake(a, s) /\ a.pc = "idle" /\ s \in a.batch
         /\ \E b : /\ Moves(a, b)
                   /\ \/ b.pc = "idle"
                      \/ /\ b.pc = "checked" /\ b.subject = {s} /\ b.seen.rows = Reviewable(s)
                         /\ b.seen.conflicts = Conflicts(s)
  <1>1. a.kind = "review" /\ MayTake(a, s) /\ a.pc = "idle" /\ s \in a.batch
    BY ShapeKnown DEF TakeForReview, MayTake, Shape
  <1>2. CASE Skip(a, s)
    BY <1>1, <1>2, SkipMoves
  <1>3. CASE ~Skip(a, s)
    <2>1. PICK seen, rows, conflicts :
             /\ rows = Reviewable(s) /\ conflicts = Conflicts(s)
             /\ seen = [NothingSeen EXCEPT !.rows = rows, !.conflicts = conflicts]
             /\ Take(a, s, seen)
      BY <1>3 DEF TakeForReview
    <2>2. IsSeen(seen) /\ seen.rows = rows /\ seen.conflicts = conflicts
      BY <2>1 DEF IsSeen, NothingSeen
    <2>3. PICK b : Moves(a, b) /\ b.pc = "checked" /\ b.subject = {s} /\ b.seen = seen
      BY <1>1, <2>1, <2>2, TakeMoves
    <2>4. b.seen.rows = Reviewable(s) /\ b.seen.conflicts = Conflicts(s)
      BY <2>1, <2>2, <2>3
    <2>. QED
      BY <1>1, <2>3, <2>4
  <1>. QED
    BY <1>2, <1>3

LEMMA TakeToAssessMoves ==
  ASSUME WorkInv, NEW a \in attempts, NEW s \in Studies, TakeToAssess(a, s)
  PROVE  /\ a.kind = "assess" /\ MayTake(a, s) /\ a.pc = "idle" /\ s \in a.batch
         /\ \E b : Moves(a, b) /\ b.pc \in {"idle", "checked"}
  <1>1. a.kind = "assess" /\ MayTake(a, s) /\ a.pc = "idle" /\ s \in a.batch
    BY ShapeKnown DEF TakeToAssess, MayTake, Shape
  <1>2. CASE Skip(a, s)
    BY <1>1, <1>2, SkipMoves
  <1>3. CASE ~Skip(a, s)
    <2>1. PICK seen, version, tool :
             seen = [NothingSeen EXCEPT !.version = version, !.tool = tool] /\ Take(a, s, seen)
      BY <1>3 DEF TakeToAssess
    <2>2. IsSeen(seen)
      BY <2>1 DEF IsSeen, NothingSeen
    <2>. QED
      BY <1>1, <2>1, <2>2, TakeMoves
  <1>. QED
    BY <1>2, <1>3

LEMMA ReadOldRowsMoves ==
  ASSUME WorkInv, NEW a \in attempts, ReadOldRows(a)
  PROVE  /\ a.kind = "extract" /\ a.pc = "asking"
         /\ \E s \in a.batch : \E b :
              /\ a.subject = {s} /\ Moves(a, b) /\ b.pc = "storing"
              /\ b.subject = {s} /\ b.seen.rows = CurrentRows(s)
  <1>1. a.kind = "extract" /\ a.pc = "asking"
    BY DEF ReadOldRows
  <1>2. PICK s \in a.batch : a.subject = {s}
    BY <1>1, ShapeKnown DEF Shape
  <1>3. PICK b, rows : rows = CurrentRows(s) /\ b = Storing(a, rows) /\ Replace(a, b)
    BY <1>2 DEF ReadOldRows, Storing
  <1>4. GoesOn(b, a) /\ b.pc = "storing" /\ b.subject = a.subject /\ b.seen.rows = rows
    BY <1>1, <1>3, ShapeKnown, StoringGoesOn
  <1>. QED
    BY <1>1, <1>2, <1>3, <1>4 DEF Moves

LEMMA AskMoves ==
  ASSUME WorkInv, NEW a \in attempts, Ask(a)
  PROVE  a.pc = "checked" /\ \E b : Moves(a, b) /\ b.pc = "asking" /\ b.subject = a.subject /\ b.seen = a.seen
  <1>1. PICK b : b = [a EXCEPT !.pc = "asking"] /\ Replace(a, b) /\ a.pc = "checked"
    BY DEF Ask
  <1>. QED
    BY <1>1, ShapeKnown, AskingGoesOn DEF Moves

\* The transaction of an attempt has one study.
LEMMA SubjectOf ==
  ASSUME WorkInv, NEW a \in attempts, a.pc # "idle"
  PROVE  \E s \in a.batch : s \in Studies /\ a.subject = {s}
  BY ShapeKnown DEF Shape

LEMMA StoreEvidenceMoves ==
  ASSUME WorkInv, NEW a \in attempts, StoreEvidence(a)
  PROVE  /\ a.kind = "extract" /\ a.pc = "storing"
         /\ \E s \in a.batch : s \in Studies /\ a.subject = {s} /\ Attempted(a, s)
         /\ \E b : Moves(a, b) /\ b.pc = "idle"
  <1>1. a.kind = "extract" /\ a.pc = "storing" /\ Replace(a, Finished(a))
    BY DEF StoreEvidence
  <1>2. PICK s \in a.batch : s \in Studies /\ a.subject = {s}
    BY <1>1, SubjectOf
  <1>3. Attempted(a, s)
    BY <1>2 DEF StoreEvidence
  <1>. QED
    BY <1>1, <1>2, <1>3, FinishedMoves

-----------------------------------------------------------------------------
(* Every step keeps WorkInv                                                *)

LEMMA RequestsKeepWork ==
  ASSUME WorkInv, Requests
  PROVE  WorkInv'
  <1>1. ASSUME UNCHANGED <<ops, attempts, schemas>>, protocol' \in Protocols, readable' \subseteq Studies
        PROVE  WorkInv'
    BY <1>1, OpsStay DEF WorkInv, AttemptsInv, OneLive, Shape, Place, HasSchema
  <1>2. ASSUME NEW type \in {"extraction", "risk_of_bias"}, Start(type), UNCHANGED evidenceVars
        PROVE  WorkInv'
    BY <1>2, StartKeepsWork DEF evidenceVars
  <1>3. ASSUME Revise, UNCHANGED evidenceVars PROVE WorkInv'
    <2>1. protocol' \in Protocols
      BY <1>3 DEF Revise, WorkInv, OpsInv, Protocols
    <2>. QED
      BY <1>1, <1>3, <2>1 DEF Revise, evidenceVars, WorkInv, OpsInv
  <1>4. ASSUME NEW s \in Studies, Parse(s), UNCHANGED evidenceVars PROVE WorkInv'
    BY <1>1, <1>4 DEF Parse, evidenceVars, WorkInv, OpsInv
  <1>5. ASSUME ByHuman, UNCHANGED schemas PROVE WorkInv'
    BY <1>1, <1>5 DEF ByHuman, WorkInv, OpsInv
  <1>6. ASSUME NEW s \in Studies, NEW f \in Fields, Correct(s, f) PROVE WorkInv'
    BY <1>5, <1>6 DEF Correct
  <1>7. ASSUME NEW s \in Studies, Review(s) \/ Classify(s), UNCHANGED evidenceVars PROVE WorkInv'
    BY <1>5, <1>7 DEF Review, Classify, evidenceVars
  <1>. QED
    BY <1>2, <1>3, <1>4, <1>6, <1>7 DEF Requests

LEMMA WorkflowsKeepWork ==
  ASSUME WorkInv, EvidenceWorkflow \/ (CallAssessor /\ UNCHANGED evidenceVars)
  PROVE  WorkInv'
  <1>1. CASE ResolveCorpus
    BY <1>1, ResolveCorpusKeepsWork
  <1>2. CASE EnsureSchema
    BY <1>2, EnsureSchemaKeepsWork
  <1>3. CASE PrepareBatch
    <2>1. ops # <<>> /\ Op.stage = "PREPARE" /\ HasSchema(Len(ops)) /\ UNCHANGED <<schemas, protocol, readable>>
      BY <1>3, LastOp DEF PrepareBatch, Current, Op, WorkInv, OpsInv, OpOK, evidenceVars
    <2>2. CASE Enter("VALIDATE") /\ UNCHANGED attempts
      BY <2>1, <2>2, WorkflowKeepsWork
    <2>3. ASSUME NEW batch \in SUBSET Pending, Call("extract", batch) PROVE WorkInv'
      <3>1. batch \subseteq Op.corpus /\ batch \in SUBSET Studies
        BY <2>1, LastOp DEF Pending, WorkInv, OpsInv, Op, Operation
      <3>. QED
        BY <2>1, <2>3, <3>1, CallKeepsWork DEF Kinds
    <2>. QED
      BY <1>3, <2>2, <2>3 DEF PrepareBatch
  <1>4. CASE Validate
    <2>1. ops # <<>> /\ Op.stage = "VALIDATE" /\ HasSchema(Len(ops)) /\ UNCHANGED <<schemas, protocol, readable>>
      BY <1>4, LastOp DEF Validate, Current, Op, WorkInv, OpsInv, OpOK
    <2>2. Enter("REVIEW") /\ attempts' \subseteq attempts
      BY <1>4 DEF Validate
    <2>. QED
      BY <2>1, <2>2, WorkflowKeepsWork
  <1>5. CASE CallReviewer
    <2>1. ops # <<>> /\ Op.stage = "REVIEW" /\ HasSchema(Len(ops)) /\ UNCHANGED <<schemas, protocol, readable>>
      BY <1>5, LastOp DEF CallReviewer, Current, Op, WorkInv, OpsInv, OpOK, evidenceVars
    <2>2. Call("review", Op.corpus) /\ Op.corpus \in SUBSET Studies
      BY <1>5, <2>1, LastOp DEF CallReviewer, WorkInv, OpsInv, Op, Operation
    <2>. QED
      BY <2>1, <2>2, CallKeepsWork DEF Kinds
  <1>6. CASE CallAssessor /\ UNCHANGED evidenceVars
    <2>1. ops # <<>> /\ Op.stage = "CORPUS" /\ Op.type = "risk_of_bias" /\ UNCHANGED <<schemas, protocol, readable>>
      BY <1>6 DEF CallAssessor, Current, Op, evidenceVars
    <2>2. Call("assess", Included[protocol]) /\ Included[protocol] \in SUBSET Studies
      BY <1>6, IncludedAssumption DEF CallAssessor, WorkInv, OpsInv, Protocols
    <2>. QED
      BY <2>1, <2>2, CallKeepsWork DEF Kinds
  <1>. QED
    BY <1>1, <1>2, <1>3, <1>4, <1>5, <1>6 DEF EvidenceWorkflow

LEMMA ActivitiesKeepWork ==
  ASSUME WorkInv, NEW a \in attempts,
         EvidenceWork(a) \/ ((RiskWork(a) \/ Ask(a)) /\ UNCHANGED evidenceVars)
  PROVE  WorkInv'
  <1>1. ASSUME NEW b, Moves(a, b), UNCHANGED <<ops, schemas, protocol, readable>>
        PROVE  WorkInv'
    BY <1>1, MovesKeepWork DEF Moves
  <1>2. ASSUME NEW s \in Studies, TakeStudy(a, s) PROVE WorkInv'
    <2>1. a.kind = "extract" /\ UNCHANGED <<schemas, protocol, readable>>
      BY <1>2 DEF TakeStudy, evidenceVars
    <2>2. PICK b : Moves(a, b) /\ (Attempted(a, s) \/ UNCHANGED ops)
      BY <1>2, TakeStudyMoves
    <2>. QED
      BY <1>1, <2>1, <2>2, AttemptedKeepsWork DEF Moves
  <1>3. ASSUME NEW s \in Studies, TakeForReview(a, s) PROVE WorkInv'
    BY <1>1, <1>3, TakeForReviewMoves DEF TakeForReview, evidenceVars
  <1>4. CASE ReadOldRows(a)
    <2>1. PICK b : Moves(a, b)
      BY <1>4, ReadOldRowsMoves
    <2>. QED
      BY <1>1, <1>4, <2>1 DEF ReadOldRows, evidenceVars
  <1>5. CASE StoreEvidence(a)
    <2>1. a.kind # "assess" /\ UNCHANGED <<schemas, protocol, readable>>
      BY <1>5 DEF StoreEvidence
    <2>2. PICK s \in Studies : Attempted(a, s)
      BY <1>5, StoreEvidenceMoves
    <2>3. PICK b : Moves(a, b)
      BY <1>5, StoreEvidenceMoves
    <2>. QED
      BY <2>1, <2>2, <2>3, AttemptedKeepsWork DEF Moves
  <1>6. CASE StoreReview(a)
    BY <1>1, <1>6, FinishedMoves DEF StoreReview
  <1>7. CASE StoreAssessment(a) /\ UNCHANGED evidenceVars
    BY <1>1, <1>7, FinishedMoves DEF StoreAssessment, evidenceVars
  <1>8. CASE NumberTaken(a) /\ UNCHANGED evidenceVars
    <2>1. PICK rest : rest = {} /\ Retry(a, rest)
      BY <1>8 DEF NumberTaken
    <2>. QED
      BY <1>8, <2>1, RetryKeepsWork DEF NumberTaken, evidenceVars
  <1>9. ASSUME NEW s \in Studies, TakeToAssess(a, s), UNCHANGED evidenceVars PROVE WorkInv'
    BY <1>1, <1>9, TakeToAssessMoves DEF TakeToAssess, evidenceVars
  <1>10. CASE Ask(a) /\ UNCHANGED evidenceVars
    BY <1>1, <1>10, AskMoves DEF Ask, evidenceVars
  <1>. QED
    BY <1>2, <1>3, <1>4, <1>5, <1>6, <1>7, <1>8, <1>9, <1>10 DEF EvidenceWork, RiskWork

LEMMA FailuresKeepWork ==
  ASSUME WorkInv, Failures
  PROVE  WorkInv'
  <1>1. CASE Abort
    <2>1. ops # <<>> /\ Op.stage \notin {"CALL", "ENDED"}
      BY <1>1, OnlyTheLast DEF Abort, WorkInv
    <2>2. Enter("ABORT") /\ attempts' \subseteq attempts /\ UNCHANGED <<schemas, protocol, readable>>
      BY <1>1 DEF Abort, Failures, evidenceVars
    <2>. QED
      BY <2>1, <2>2, WorkflowKeepsWork
  <1>2. ASSUME NEW a \in attempts, Lose(a) PROVE WorkInv'
    <2>1. PICK b : b = [a EXCEPT !.live = FALSE]
      OBVIOUS
    <2>2. GoesOn(b, a) /\ ~b.live
      BY <2>1, ShapeKnown, LateGoesOn
    <2>3. PICK rest \in {{}, {b}} : Retry(a, rest)
      BY <1>2, <2>1 DEF Lose
    <2>4. \A c \in rest : GoesOn(c, a) /\ ~c.live
      BY <2>2
    <2>. QED
      BY <1>2, <2>3, <2>4, RetryKeepsWork DEF Lose, Failures, evidenceVars
  <1>3. ASSUME NEW a \in attempts, AgentFails(a) PROVE WorkInv'
    <2>1. PICK b : Moves(a, b)
      BY <1>3, FinishedMoves DEF AgentFails
    <2>. QED
      BY <1>3, <2>1, MovesKeepWork DEF AgentFails, Failures, evidenceVars, Moves
  <1>4. ASSUME NEW a \in attempts, LateEnds(a) PROVE WorkInv'
    <2>1. attempts' \subseteq attempts /\ UNCHANGED <<ops, schemas, protocol, readable>>
      BY <1>4 DEF LateEnds, Failures, evidenceVars
    <2>. QED
      BY <2>1, OpsStay DEF WorkInv, OpsInv, AttemptsInv, OneLive, Shape, Place, HasSchema
  <1>. QED
    BY <1>1, <1>2, <1>3, <1>4 DEF Failures

LEMMA StepKeepsWork ==
  ASSUME WorkInv, [Next]_vars
  PROVE  WorkInv'
  <1>1. CASE Workers
    <2>1. ASSUME NEW a \in attempts, Answer(a), UNCHANGED evidenceVars PROVE WorkInv'
      BY <2>1, AnswerKeepsWork DEF evidenceVars
    <2>2. CASE Finish /\ UNCHANGED evidenceVars
      BY <2>2, FinishKeepsWork DEF evidenceVars
    <2>. QED
      BY <1>1, <2>1, <2>2, WorkflowsKeepWork, ActivitiesKeepWork DEF Workers
  <1>2. CASE UNCHANGED vars
    BY <1>2, OpsStay DEF vars, workVars, evidenceVars, WorkInv, OpsInv, AttemptsInv, OneLive, Shape, Place, HasSchema
  <1>. QED
    BY <1>1, <1>2, RequestsKeepWork, FailuresKeepWork DEF Next

-----------------------------------------------------------------------------
(* Rows of a field                                                         *)

\* A row that is superseded or judged still says the same.
SaysTheSame(new, row) == new.schema = row.schema /\ new.by = row.by /\ new.value = row.value

\* The rows of a field after an extraction: those in old are superseded, and the
\* extraction adds one if the schema has the field.
StoredAs(rows, new, old, added) ==
  /\ new \in Seq(Row) /\ Len(new) = Len(rows) + (IF added = {} THEN 0 ELSE 1)
  /\ \A i \in DOMAIN rows : i \in old => /\ SaysTheSame(new[i], rows[i])
                                         /\ new[i].verification = rows[i].verification
                                         /\ new[i].current = FALSE
                                         /\ new[i].next \in {0} \cup Len(rows) + 1..Len(new)
  /\ \A i \in DOMAIN rows : i \notin old => new[i] = rows[i]
  /\ \A result \in added : new[Len(new)] = result

\* After a judgement.
JudgedAs(rows, new) ==
  /\ new \in Seq(Row) /\ Len(new) = Len(rows)
  /\ \A i \in DOMAIN rows : /\ SaysTheSame(new[i], rows[i])
                            /\ new[i].current = rows[i].current /\ new[i].next = rows[i].next

\* After a human corrected the row at i.
CorrectedAs(rows, new, i) ==
  /\ new \in Seq(Row) /\ Len(new) = Len(rows) + 1
  /\ SaysTheSame(new[i], rows[i]) /\ new[i].verification = rows[i].verification
  /\ new[i].current = FALSE /\ new[i].next = Len(new)
  /\ \A j \in DOMAIN rows \ {i} : new[j] = rows[j]
  /\ LET row == new[Len(new)] IN
       /\ row.schema = rows[i].schema /\ row.by = "human" /\ row.value # "broken"
       /\ row.verification = "UNVERIFIED" /\ row.current = rows[i].current /\ row.next = 0

LEMMA RowsOf ==
  ASSUME NEW rows \in Seq(Row)
  PROVE  /\ Len(rows) \in Nat /\ DOMAIN rows = 1..Len(rows)
         /\ \A i \in DOMAIN rows : i \in Nat /\ rows[i] \in Row
  OBVIOUS

LEMMA SequenceOfRows ==
  ASSUME NEW n \in Nat, NEW new, DOMAIN new = 1..n, new = [i \in 1..n |-> new[i]], \A i \in 1..n : new[i] \in Row
  PROVE  new \in Seq(Row) /\ Len(new) = n
  OBVIOUS

\* After the rows in old are superseded.
SupersededAs(rows, new, old, next) ==
  /\ new \in Seq(Row) /\ Len(new) = Len(rows)
  /\ \A i \in DOMAIN rows : i \in old => /\ SaysTheSame(new[i], rows[i])
                                         /\ new[i].verification = rows[i].verification
                                         /\ new[i].current = FALSE /\ new[i].next = next
  /\ \A i \in DOMAIN rows : i \notin old => new[i] = rows[i]

LEMMA SupersededRows ==
  ASSUME NEW rows \in Seq(Row), NEW old, NEW next \in Nat, NEW new, new = Superseded(rows, old, next)
  PROVE  SupersededAs(rows, new, old, next)
  <1>1. PICK n : n = Len(rows) /\ n \in Nat /\ DOMAIN rows = 1..n /\ \A i \in 1..n : rows[i] \in Row
    BY RowsOf
  <1>2. new = [i \in 1..n |-> IF i \in old THEN [rows[i] EXCEPT !.current = FALSE, !.next = next] ELSE rows[i]]
    BY <1>1 DEF Superseded
  <1>3. ASSUME NEW i \in 1..n, i \in old
        PROVE  /\ SaysTheSame(new[i], rows[i]) /\ new[i].verification = rows[i].verification
               /\ new[i].current = FALSE /\ new[i].next = next /\ new[i] \in Row
    <2>1. PICK row : row = rows[i] /\ row \in Row
      BY <1>1
    <2>2. new[i] = [row EXCEPT !.current = FALSE, !.next = next]
      BY <1>2, <1>3, <2>1
    <2>. QED
      BY <2>1, <2>2 DEF Row, SaysTheSame
  <1>4. \A i \in 1..n : i \notin old => new[i] = rows[i]
    BY <1>2
  <1>5. new \in Seq(Row) /\ Len(new) = n
    <2>1. \A i \in 1..n : new[i] \in Row
      BY <1>1, <1>3, <1>4
    <2>2. DOMAIN new = 1..n /\ new = [i \in 1..n |-> new[i]]
      BY <1>2
    <2>. QED
      BY <1>1, <2>1, <2>2, SequenceOfRows
  <1>. QED
    BY <1>1, <1>3, <1>4, <1>5 DEF SupersededAs

\* A row that an extraction for a schema adds.
FreshRow(row, n) ==
  /\ row \in Row /\ row.schema = n /\ row.current = TRUE /\ row.next = 0
  /\ row.value = "broken" => row.verification = "UNVERIFIED"

LEMMA RowOfIsFresh ==
  ASSUME NEW schema \in Nat \ {0}, NEW result \in Results
  PROVE  FreshRow(RowOf(schema, result), schema)
  BY DEF FreshRow, RowOf, Results, Row

AddedTo(s, row, new) ==
  /\ new \in Seq(Row) /\ Len(new) = Len(s) + 1 /\ new[Len(s) + 1] = row
  /\ \A i \in 1..Len(s) : new[i] = s[i]

LEMMA AddedRow ==
  ASSUME NEW s \in Seq(Row), NEW row \in Row
  PROVE  AddedTo(s, row, Append(s, row))
  BY DEF AddedTo

LEMMA StoredRows ==
  ASSUME NEW rows \in Seq(Row), NEW old, NEW row \in Row, NEW new,
         new = Append(Superseded(rows, old, Len(rows) + 1), row)
  PROVE  StoredAs(rows, new, old, {row})
  <1>1. PICK n : n = Len(rows) /\ n \in Nat /\ DOMAIN rows = 1..n
    BY RowsOf
  <1>2. PICK next : next = n + 1 /\ next \in Nat
    BY <1>1
  <1>3. PICK s : s = Superseded(rows, old, next)
    OBVIOUS
  <1>4. /\ s \in Seq(Row) /\ Len(s) = n
        /\ \A i \in DOMAIN rows : i \in old => /\ SaysTheSame(s[i], rows[i])
                                               /\ s[i].verification = rows[i].verification
                                               /\ s[i].current = FALSE /\ s[i].next = next
        /\ \A i \in DOMAIN rows : i \notin old => s[i] = rows[i]
    <2>1. SupersededAs(rows, s, old, next)
      BY <1>2, <1>3, SupersededRows
    <2>. QED
      BY <1>1, <2>1 DEF SupersededAs
  <1>5. new = Append(s, row)
    BY <1>1, <1>2, <1>3
  <1>6. /\ new \in Seq(Row) /\ Len(new) = next /\ new[next] = row
        /\ \A i \in 1..n : new[i] = s[i]
    <2>1. s \in Seq(Row)
      BY <1>4
    <2>2. AddedTo(s, row, new)
      BY <1>5, <2>1, AddedRow
    <2>. QED
      BY <1>2, <1>4, <2>2 DEF AddedTo
  <1>7. \A i \in DOMAIN rows : i \in old => /\ SaysTheSame(new[i], rows[i])
                                            /\ new[i].verification = rows[i].verification
                                            /\ new[i].current = FALSE /\ new[i].next = next
    BY <1>1, <1>4, <1>6
  <1>8. \A i \in DOMAIN rows : i \notin old => new[i] = rows[i]
    BY <1>1, <1>4, <1>6
  <1>9. next \in Len(rows) + 1..Len(new)
    BY <1>1, <1>2, <1>6
  <1>10. Len(new) = Len(rows) + 1
    BY <1>1, <1>2, <1>6
  <1>. QED
    BY <1>6, <1>7, <1>8, <1>9, <1>10 DEF StoredAs

LEMMA DroppedRows ==
  ASSUME NEW rows \in Seq(Row), NEW old, NEW new, new = Superseded(rows, old, 0)
  PROVE  StoredAs(rows, new, old, {})
  <1>1. PICK zero : zero = 0 /\ zero \in Nat
    OBVIOUS
  <1>2. /\ new \in Seq(Row) /\ Len(new) = Len(rows) 
        /\ \A i \in DOMAIN rows : i \in old => /\ SaysTheSame(new[i], rows[i])
                                               /\ new[i].verification = rows[i].verification
                                               /\ new[i].current = FALSE /\ new[i].next = zero
        /\ \A i \in DOMAIN rows : i \notin old => new[i] = rows[i]
    <2>1. SupersededAs(rows, new, old, zero)
      BY <1>1, SupersededRows
    <2>. QED
      BY <2>1 DEF SupersededAs
  <1>3. Len(new) = Len(rows) + 0 /\ \A n : n = zero => n \in {0} \cup Len(rows) + 1..Len(new)
    BY <1>1, <1>2, RowsOf
  <1>. QED
    BY <1>2, <1>3 DEF StoredAs

MayJudge(rows, new) ==
  /\ DOMAIN new = DOMAIN rows /\ new = [i \in DOMAIN rows |-> new[i]]
  /\ \A i \in DOMAIN rows :
       \E v \in {"UNVERIFIED", "VERIFIED", "PARTIAL", "CONFLICT"} : new[i] = [rows[i] EXCEPT !.verification = v]

LEMMA JudgedRows ==
  ASSUME NEW rows \in Seq(Row), NEW new, MayJudge(rows, new)
  PROVE  JudgedAs(rows, new)
  <1>1. PICK n : n = Len(rows) /\ n \in Nat /\ DOMAIN rows = 1..n /\ \A i \in 1..n : rows[i] \in Row
    BY RowsOf
  <1>2. ASSUME NEW i \in 1..n
        PROVE  /\ new[i] \in Row /\ SaysTheSame(new[i], rows[i])
               /\ new[i].current = rows[i].current /\ new[i].next = rows[i].next
    <2>1. PICK row : row = rows[i] /\ row \in Row
      BY <1>1
    <2>2. PICK v \in {"UNVERIFIED", "VERIFIED", "PARTIAL", "CONFLICT"} : new[i] = [row EXCEPT !.verification = v]
      BY <1>1, <2>1 DEF MayJudge
    <2>. QED
      BY <2>1, <2>2 DEF Row, SaysTheSame
  <1>3. new \in Seq(Row) /\ Len(new) = n
    BY <1>1, <1>2, SequenceOfRows DEF MayJudge
  <1>. QED
    BY <1>1, <1>2, <1>3 DEF JudgedAs

LEMMA CorrectedRows ==
  ASSUME NEW rows \in Seq(Row), NEW i \in DOMAIN rows, NEW value \in {"sound", "none"}, NEW new,
         new = Append([rows EXCEPT ![i] = [rows[i] EXCEPT !.current = FALSE, !.next = Len(rows) + 1]],
                      [rows[i] EXCEPT !.by = "human", !.value = value, !.verification = "UNVERIFIED", !.next = 0])
  PROVE  CorrectedAs(rows, new, i)
  <1>1. PICK n : n = Len(rows) /\ n \in Nat /\ DOMAIN rows = 1..n /\ i \in 1..n /\ rows[i] \in Row
    BY RowsOf
  <1>2. PICK is : is = rows[i] /\ is \in Row
    BY <1>1
  <1>3. PICK next : next = n + 1 /\ next \in Nat
    BY <1>1
  <1>4. PICK old, row :
          /\ old = [is EXCEPT !.current = FALSE, !.next = next]
          /\ row = [is EXCEPT !.by = "human", !.value = value, !.verification = "UNVERIFIED", !.next = 0]
    OBVIOUS
  <1>5. old \in Row /\ SaysTheSame(old, is) /\ old.verification = is.verification /\ old.current = FALSE /\ old.next = next
    BY <1>2, <1>3, <1>4 DEF Row, SaysTheSame
  <1>6. /\ row \in Row /\ row.schema = is.schema /\ row.by = "human" /\ row.value = value
        /\ row.verification = "UNVERIFIED" /\ row.current = is.current /\ row.next = 0
    BY <1>2, <1>4 DEF Row
  <1>7. PICK s : s = [rows EXCEPT ![i] = old]
    OBVIOUS
  <1>8. s \in Seq(Row) /\ Len(s) = n /\ s[i] = old /\ \A j \in 1..n : j # i => s[j] = rows[j]
    BY <1>1, <1>5, <1>7
  <1>9. new = Append(s, row)
    BY <1>1, <1>2, <1>3, <1>4, <1>7
  <1>10. new \in Seq(Row) /\ Len(new) = next /\ new[next] = row /\ \A j \in 1..n : new[j] = s[j]
    <2>1. AddedTo(s, row, new)
      BY <1>6, <1>8, <1>9, AddedRow
    <2>. QED
      BY <1>3, <1>8, <2>1 DEF AddedTo
  <1>11. new[i] = old /\ \A j \in DOMAIN rows \ {i} : new[j] = rows[j]
    BY <1>1, <1>8, <1>10
  <1>12. Len(new) = Len(rows) + 1
    BY <1>1, <1>3, <1>10
  <1>13. value # "broken"
    OBVIOUS
  <1>. QED
    BY <1>2, <1>5, <1>6, <1>10, <1>11, <1>12, <1>13 DEF CorrectedAs

-----------------------------------------------------------------------------
(* What the steps do to the rows                                           *)

RowsOK(rows, versions) ==
  /\ rows \in Seq(Row)
  /\ \A i \in DOMAIN rows : /\ rows[i].next \in {0} \cup i + 1..Len(rows)
                            /\ rows[i].schema \in 1..versions

HistoryInv ==
  /\ history \in [Studies -> [Fields -> Seq(Row)]]
  /\ \A s \in Studies, f \in Fields : RowsOK(history[s][f], Len(schemas))

LEMMA StoredRowsAreOK ==
  ASSUME NEW rows, NEW new, NEW old, NEW added, NEW versions \in Nat, RowsOK(rows, versions),
         StoredAs(rows, new, old, added),
         added = {} \/ \E row : added = {row} /\ row.schema \in 1..versions /\ row.next = 0
  PROVE  RowsOK(new, versions)
  <1>1. PICK n : n = Len(rows) /\ n \in Nat /\ DOMAIN rows = 1..n
    BY RowsOf DEF RowsOK
  <1>2. PICK m : m = Len(new) /\ m \in {n, n + 1} /\ DOMAIN new = 1..m /\ new \in Seq(Row)
    BY <1>1, RowsOf DEF StoredAs
  <1>3. ASSUME NEW i \in 1..n PROVE new[i].next \in {0} \cup i + 1..m /\ new[i].schema \in 1..versions
    <2>1. rows[i].next \in {0} \cup i + 1..n /\ rows[i].schema \in 1..versions
      BY <1>1 DEF RowsOK
    <2>2. CASE i \in old
      <3>1. new[i].next \in {0} \cup n + 1..m /\ new[i].schema = rows[i].schema
        BY <1>1, <1>2, <2>2 DEF StoredAs, SaysTheSame
      <3>. QED
        BY <1>1, <1>2, <2>1, <3>1
    <2>3. CASE i \notin old
      <3>1. new[i] = rows[i]
        BY <1>1, <2>3 DEF StoredAs
      <3>. QED
        BY <1>1, <1>2, <2>1, <3>1
    <2>. QED
      BY <2>2, <2>3
  <1>4. ASSUME NEW i \in 1..m, i \notin 1..n PROVE new[i].next \in {0} \cup i + 1..m /\ new[i].schema \in 1..versions
    <2>1. i = m /\ added # {}
      BY <1>1, <1>2, <1>4 DEF StoredAs
    <2>2. PICK row : added = {row} /\ row.schema \in 1..versions /\ row.next = 0
      BY <2>1
    <2>3. new[i] = row
      BY <1>2, <2>1, <2>2 DEF StoredAs
    <2>. QED
      BY <2>2, <2>3
  <1>. QED
    BY <1>2, <1>3, <1>4 DEF RowsOK

LEMMA JudgedRowsAreOK ==
  ASSUME NEW rows, NEW new, NEW versions, RowsOK(rows, versions), JudgedAs(rows, new)
  PROVE  RowsOK(new, versions)
  <1>1. rows \in Seq(Row) /\ new \in Seq(Row) /\ Len(new) = Len(rows)
    BY DEF RowsOK, JudgedAs
  <1>2. DOMAIN new = DOMAIN rows
    BY <1>1, RowsOf
  <1>. QED
    BY <1>1, <1>2 DEF RowsOK, JudgedAs, SaysTheSame

LEMMA CorrectedRowsAreOK ==
  ASSUME NEW rows, NEW new, NEW i \in DOMAIN rows, NEW versions, RowsOK(rows, versions), CorrectedAs(rows, new, i)
  PROVE  RowsOK(new, versions)
  <1>1. PICK n : n = Len(rows) /\ n \in Nat /\ DOMAIN rows = 1..n
    BY RowsOf DEF RowsOK
  <1>2. PICK m : m = Len(new) /\ m = n + 1 /\ DOMAIN new = 1..m /\ new \in Seq(Row)
    BY <1>1, RowsOf DEF CorrectedAs
  <1>3. ASSUME NEW j \in 1..n, j # i PROVE new[j].next \in {0} \cup j + 1..m /\ new[j].schema \in 1..versions
    <2>1. new[j] = rows[j] /\ rows[j].next \in {0} \cup j + 1..n /\ rows[j].schema \in 1..versions
      BY <1>1, <1>3 DEF CorrectedAs, RowsOK
    <2>. QED
      BY <1>1, <1>2, <2>1
  <1>4. new[i].next \in {0} \cup i + 1..m /\ new[i].schema \in 1..versions
    <2>1. new[i].next = m /\ new[i].schema = rows[i].schema /\ rows[i].schema \in 1..versions /\ i \in 1..n
      BY <1>1, <1>2 DEF CorrectedAs, RowsOK, SaysTheSame
    <2>. QED
      BY <1>1, <1>2, <2>1
  <1>5. new[m].next \in {0} \cup m + 1..m /\ new[m].schema \in 1..versions
    BY <1>1, <1>2, <1>4 DEF CorrectedAs, RowsOK
  <1>. QED
    BY <1>1, <1>2, <1>3, <1>4, <1>5 DEF RowsOK

-----------------------------------------------------------------------------
\* The rows that an extractor has seen of a field.
SeenAt(a, f) == {r[2] : r \in {q \in a.seen.rows : q[1] = f}}

OthersStay(s) == \A t \in Studies : t # s => history'[t] = history[t]

\* The effect of an extraction on a study.
Stores(a, s) ==
  /\ OthersStay(s)
  /\ \A f \in Fields : \E added :
       /\ StoredAs(history[s][f], history'[s][f], SeenAt(a, f), added)
       /\ IF f \in SchemaFields(ops[a.op].schema)
            THEN \E row : added = {row} /\ FreshRow(row, ops[a.op].schema)
            ELSE added = {}

LEMMA SchemaKnown ==
  ASSUME WorkInv, NEW a \in attempts, a.kind # "assess"
  PROVE  /\ ops[a.op].schema \in DOMAIN schemas /\ ops[a.op].schema \in Nat \ {0}
         /\ ops[a.op].schema \in 1..Len(schemas) /\ Len(schemas) \in Nat
         /\ SchemaFields(ops[a.op].schema) \subseteq Fields /\ SchemaFields(ops[a.op].schema) # {}
  <1>1. ops[a.op].schema \in DOMAIN schemas /\ schemas \in Seq(Protocols)
    BY ShapeKnown DEF Place, HasSchema, WorkInv, OpsInv
  <1>2. schemas[ops[a.op].schema] \in Protocols /\ ops[a.op].schema \in 1..Len(schemas) /\ Len(schemas) \in Nat
    BY <1>1
  <1>. QED
    BY <1>1, <1>2, FieldsAssumption DEF SchemaFields

\* The history of one study changes.
LEMMA Rewritten ==
  ASSUME HistoryInv, NEW s \in Studies, NEW new, Rewrite(s, new), DOMAIN new = Fields,
         new = [f \in Fields |-> new[f]]
  PROVE  history'[s] = new /\ OthersStay(s)
  BY DEF Rewrite, OthersStay, HistoryInv

LEMMA HistoryOK ==
  ASSUME HistoryInv, NEW s \in Studies, NEW new, Rewrite(s, new), DOMAIN new = Fields,
         new = [f \in Fields |-> new[f]],
         schemas' = schemas, \A f \in Fields : RowsOK(new[f], Len(schemas))
  PROVE  HistoryInv'
  <1>1. history'[s] = new /\ \A t \in Studies : t # s => history'[t] = history[t]
    BY Rewritten DEF OthersStay
  <1>2. new \in [Fields -> Seq(Row)]
    BY DEF RowsOK
  <1>3. history' \in [Studies -> [Fields -> Seq(Row)]]
    BY <1>2 DEF Rewrite, HistoryInv
  <1>4. ASSUME NEW t \in Studies, NEW f \in Fields PROVE RowsOK(history'[t][f], Len(schemas))
    BY <1>1 DEF HistoryInv
  <1>. QED
    BY <1>3, <1>4 DEF HistoryInv

LEMMA StoreEvidenceStores ==
  ASSUME WorkInv, HistoryInv, NEW a \in attempts, StoreEvidence(a)
  PROVE  /\ HistoryInv'
         /\ \E s \in a.batch : s \in Studies /\ a.subject = {s} /\ Attempted(a, s) /\ Stores(a, s)
  <1>1. PICK n, fields, N : /\ n = ops[a.op].schema /\ fields = SchemaFields(n) /\ N = Len(schemas)
                         /\ n \in Nat \ {0} /\ n \in 1..N /\ N \in Nat
    BY SchemaKnown DEF StoreEvidence
  <1>2. PICK s \in a.subject, answer \in Accepted(fields) :
          /\ Rewrite(s, [f \in Fields |->
               IF f \in fields
                 THEN Append(Superseded(history[s][f], SeenAt(a, f), Len(history[s][f]) + 1), RowOf(n, answer[f]))
                 ELSE Superseded(history[s][f], SeenAt(a, f), 0)])
          /\ Attempted(a, s)
    BY <1>1 DEF StoreEvidence, SeenAt
  <1>3. s \in a.batch /\ s \in Studies /\ a.subject = {s}
    BY <1>2, SubjectOf DEF StoreEvidence
  <1>4. PICK new : new = [f \in Fields |->
               IF f \in fields
                 THEN Append(Superseded(history[s][f], SeenAt(a, f), Len(history[s][f]) + 1), RowOf(n, answer[f]))
                 ELSE Superseded(history[s][f], SeenAt(a, f), 0)]
    OBVIOUS
  <1>5. ASSUME NEW f \in Fields
        PROVE  /\ RowsOK(new[f], N)
               /\ \E added : /\ StoredAs(history[s][f], new[f], SeenAt(a, f), added)
                             /\ IF f \in fields THEN \E row : added = {row} /\ FreshRow(row, n) ELSE added = {}
    <2>1. PICK rows, old, is : rows = history[s][f] /\ old = SeenAt(a, f) /\ is = new[f] /\ rows \in Seq(Row) /\ RowsOK(rows, N)
      BY <1>1, <1>3 DEF HistoryInv
    <2>2. CASE f \in fields
      <3>1. PICK result, row : result = answer[f] /\ row = RowOf(n, result) /\ result \in Results
        BY <2>2 DEF Accepted
      <3>2. FreshRow(row, n)
        BY <1>1, <3>1, RowOfIsFresh
      <3>3. is = Append(Superseded(rows, old, Len(rows) + 1), row)
        BY <1>4, <2>1, <2>2, <3>1
      <3>4. StoredAs(rows, is, old, {row})
        BY <2>1, <3>2, <3>3, StoredRows DEF FreshRow
      <3>5. RowsOK(is, N)
        BY <1>1, <2>1, <3>2, <3>4, StoredRowsAreOK DEF FreshRow
      <3>. QED
        BY <2>1, <2>2, <3>2, <3>4, <3>5
    <2>3. CASE f \notin fields
      <3>1. is = Superseded(rows, old, 0)
        BY <1>4, <2>1, <2>3
      <3>2. StoredAs(rows, is, old, {})
        BY <2>1, <3>1, DroppedRows
      <3>3. RowsOK(is, N)
        BY <1>1, <2>1, <3>2, StoredRowsAreOK
      <3>. QED
        BY <2>1, <2>3, <3>2, <3>3
    <2>. QED
      BY <2>2, <2>3
  <1>6. Rewrite(s, new) /\ DOMAIN new = Fields /\ new = [f \in Fields |-> new[f]] /\ schemas' = schemas
    BY <1>2, <1>4 DEF StoreEvidence
  <1>7. history'[s] = new /\ OthersStay(s)
    BY <1>3, <1>6, Rewritten
  <1>8. HistoryInv'
    BY <1>1, <1>3, <1>5, <1>6, HistoryOK
  <1>9. Stores(a, s)
    BY <1>1, <1>5, <1>7 DEF Stores
  <1>. QED
    BY <1>2, <1>3, <1>8, <1>9

-----------------------------------------------------------------------------
\* The effect of a judgement on all studies.
Judges == \A s \in Studies, f \in Fields : JudgedAs(history[s][f], history'[s][f])

LEMMA ValidateJudges ==
  ASSUME HistoryInv, Validate
  PROVE  /\ HistoryInv' /\ Judges
         /\ \A s \in Studies, f \in Fields : \A i \in DOMAIN history[s][f] :
              history'[s][f][i].verification =
                IF s \in Op.corpus /\ history[s][f][i].current /\ BreaksARule(history[s][f][i])
                  THEN "CONFLICT" ELSE history[s][f][i].verification
  <1>1. ASSUME NEW s \in Studies, NEW f \in Fields
        PROVE  /\ JudgedAs(history[s][f], history'[s][f])
               /\ \A i \in DOMAIN history[s][f] :
                    history'[s][f][i].verification =
                      IF s \in Op.corpus /\ history[s][f][i].current /\ BreaksARule(history[s][f][i])
                        THEN "CONFLICT" ELSE history[s][f][i].verification
    <2>1. PICK rows, new : rows = history[s][f] /\ new = history'[s][f] /\ rows \in Seq(Row)
      BY DEF HistoryInv
    <2>2. new = [i \in DOMAIN rows |->
                   IF s \in Op.corpus /\ rows[i].current /\ BreaksARule(rows[i])
                     THEN [rows[i] EXCEPT !.verification = "CONFLICT"] ELSE rows[i]]
      BY <2>1 DEF Validate
    <2>3. ASSUME NEW i \in DOMAIN rows
          PROVE  \E v \in {"UNVERIFIED", "VERIFIED", "PARTIAL", "CONFLICT"} :
                   /\ new[i] = [rows[i] EXCEPT !.verification = v] /\ new[i].verification = v
                   /\ v = IF s \in Op.corpus /\ rows[i].current /\ BreaksARule(rows[i])
                            THEN "CONFLICT" ELSE rows[i].verification
      <3>1. PICK row : row = rows[i] /\ row \in Row
        BY <2>1, RowsOf
      <3>2. /\ row.verification \in {"UNVERIFIED", "VERIFIED", "PARTIAL", "CONFLICT"}
            /\ row = [row EXCEPT !.verification = row.verification]
            /\ [row EXCEPT !.verification = "CONFLICT"].verification = "CONFLICT"
        BY <3>1 DEF Row
      <3>3. CASE s \in Op.corpus /\ rows[i].current /\ BreaksARule(rows[i])
        BY <2>2, <3>1, <3>2, <3>3
      <3>4. CASE ~(s \in Op.corpus /\ rows[i].current /\ BreaksARule(rows[i]))
        BY <2>2, <3>1, <3>2, <3>4
      <3>. QED
        BY <3>3, <3>4
    <2>4. DOMAIN new = DOMAIN rows /\ new = [i \in DOMAIN rows |-> new[i]]
      BY <2>2
    <2>5. MayJudge(rows, new)
      BY <2>3, <2>4 DEF MayJudge
    <2>6. JudgedAs(rows, new)
      BY <2>1, <2>5, JudgedRows
    <2>. QED
      BY <2>1, <2>3, <2>6
  <1>2. Judges
    BY <1>1 DEF Judges
  <1>3. schemas' = schemas
    BY DEF Validate
  <1>4. \A s \in Studies, f \in Fields : RowsOK(history'[s][f], Len(schemas))
    BY <1>1, JudgedRowsAreOK DEF HistoryInv
  <1>5. /\ DOMAIN history' = Studies /\ history' = [s \in Studies |-> history'[s]]
        /\ \A s \in Studies : DOMAIN history'[s] = Fields /\ history'[s] = [f \in Fields |-> history'[s][f]]
    BY DEF Validate
  <1>6. \A s \in Studies : history'[s] \in [Fields -> Seq(Row)]
    BY <1>4, <1>5 DEF RowsOK
  <1>7. history' \in [Studies -> [Fields -> Seq(Row)]]
    BY <1>5, <1>6
  <1>. QED
    BY <1>1, <1>2, <1>3, <1>4, <1>7 DEF HistoryInv

\* The effect of a review on a study: of the values under review, those not in conflict
\* may be judged anew.
Reviews(a, s) ==
  /\ OthersStay(s)
  /\ \A f \in Fields : /\ JudgedAs(history[s][f], history'[s][f])
                       /\ \A i \in DOMAIN history[s][f] :
                            <<f, i>> \notin a.seen.rows \/ <<f, i>> \in a.seen.conflicts =>
                              history'[s][f][i] = history[s][f][i]

LEMMA StoreReviewReviews ==
  ASSUME WorkInv, HistoryInv, NEW a \in attempts, StoreReview(a)
  PROVE  /\ HistoryInv'
         /\ \E s \in a.batch : s \in Studies /\ a.subject = {s} /\ Reviews(a, s)
  <1>1. PICK s \in a.subject, verdict \in Opinions(a) :
          Rewrite(s, [f \in Fields |-> [i \in DOMAIN history[s][f] |->
            IF <<f, i>> \in a.seen.rows
              THEN Judged(history[s][f][i], <<f, i>> \in a.seen.conflicts, verdict[<<f, i>>])
              ELSE history[s][f][i]]])
    BY DEF StoreReview
  <1>2. s \in a.batch /\ s \in Studies /\ a.subject = {s} /\ schemas' = schemas
    BY <1>1, SubjectOf DEF StoreReview
  <1>3. PICK new : new = [f \in Fields |-> [i \in DOMAIN history[s][f] |->
            IF <<f, i>> \in a.seen.rows
              THEN Judged(history[s][f][i], <<f, i>> \in a.seen.conflicts, verdict[<<f, i>>])
              ELSE history[s][f][i]]]
    OBVIOUS
  <1>4. ASSUME NEW f \in Fields
        PROVE  /\ JudgedAs(history[s][f], new[f])
               /\ \A i \in DOMAIN history[s][f] :
                    <<f, i>> \notin a.seen.rows \/ <<f, i>> \in a.seen.conflicts => new[f][i] = history[s][f][i]
    <2>1. PICK rows, is : rows = history[s][f] /\ is = new[f] /\ rows \in Seq(Row)
      BY <1>2 DEF HistoryInv
    <2>2. is = [i \in DOMAIN rows |->
            IF <<f, i>> \in a.seen.rows
              THEN Judged(rows[i], <<f, i>> \in a.seen.conflicts, verdict[<<f, i>>]) ELSE rows[i]]
      BY <1>3, <2>1
    <2>3. ASSUME NEW i \in DOMAIN rows
          PROVE  /\ \E v \in {"UNVERIFIED", "VERIFIED", "PARTIAL", "CONFLICT"} : is[i] = [rows[i] EXCEPT !.verification = v]
                 /\ <<f, i>> \notin a.seen.rows \/ <<f, i>> \in a.seen.conflicts => is[i] = rows[i]
      <3>1. PICK row : row = rows[i] /\ row \in Row
        BY <2>1, RowsOf
      <3>2. row.verification \in {"UNVERIFIED", "VERIFIED", "PARTIAL", "CONFLICT"} /\ row = [row EXCEPT !.verification = row.verification]
        BY <3>1 DEF Row
      <3>3. CASE <<f, i>> \notin a.seen.rows \/ <<f, i>> \in a.seen.conflicts
        <4>1. is[i] = row
          BY <2>2, <3>1, <3>3 DEF Judged
        <4>. QED
          BY <3>1, <3>2, <4>1
      <3>4. CASE ~(<<f, i>> \notin a.seen.rows \/ <<f, i>> \in a.seen.conflicts)
        <4>1. PICK v : v = verdict[<<f, i>>] /\ v \in {"UNVERIFIED", "VERIFIED", "PARTIAL", "CONFLICT"}
          BY <3>4, VerdictsAssumption DEF Opinions
        <4>2. is[i] = [row EXCEPT !.verification = v]
          BY <2>2, <3>1, <3>4, <4>1 DEF Judged
        <4>. QED
          BY <3>1, <3>4, <4>1, <4>2
      <3>. QED
        BY <3>3, <3>4
    <2>4. DOMAIN is = DOMAIN rows /\ is = [i \in DOMAIN rows |-> is[i]]
      BY <2>2
    <2>5. MayJudge(rows, is)
      BY <2>3, <2>4 DEF MayJudge
    <2>6. JudgedAs(rows, is)
      BY <2>1, <2>5, JudgedRows
    <2>. QED
      BY <2>1, <2>3, <2>6
  <1>5. Rewrite(s, new) /\ DOMAIN new = Fields /\ new = [f \in Fields |-> new[f]]
    BY <1>1, <1>3
  <1>6. history'[s] = new /\ OthersStay(s)
    BY <1>2, <1>5, Rewritten
  <1>7. \A f \in Fields : RowsOK(new[f], Len(schemas))
    BY <1>2, <1>4, JudgedRowsAreOK DEF HistoryInv
  <1>8. HistoryInv'
    BY <1>2, <1>5, <1>7, HistoryOK
  <1>9. Reviews(a, s)
    BY <1>4, <1>6 DEF Reviews
  <1>. QED
    BY <1>2, <1>8, <1>9

-----------------------------------------------------------------------------
\* The effect of a correction.
Corrects(s, f) ==
  /\ OthersStay(s)
  /\ \A g \in Fields : g # f => history'[s][g] = history[s][g]
  /\ \E i \in CurrentAt(s, f) : CorrectedAs(history[s][f], history'[s][f], i)

LEMMA CorrectCorrects ==
  ASSUME HistoryInv, NEW s \in Studies, NEW f \in Fields, Correct(s, f)
  PROVE  HistoryInv' /\ Corrects(s, f)
  <1>1. PICK i \in CurrentAt(s, f), value \in {"sound", "none"} :
          Rewrite(s, [history[s] EXCEPT ![f] =
            Append([@ EXCEPT ![i] = [history[s][f][i] EXCEPT !.current = FALSE, !.next = Len(history[s][f]) + 1]],
                   [history[s][f][i] EXCEPT !.by = "human", !.value = value, !.verification = "UNVERIFIED",
                                            !.next = 0])])
    BY DEF Correct
  <1>2. PICK rows : rows = history[s][f] /\ rows \in Seq(Row) /\ i \in DOMAIN rows /\ RowsOK(rows, Len(schemas))
    BY <1>1 DEF HistoryInv, CurrentAt
  <1>3. PICK is :
          is = Append([rows EXCEPT ![i] = [rows[i] EXCEPT !.current = FALSE, !.next = Len(rows) + 1]],
                      [rows[i] EXCEPT !.by = "human", !.value = value, !.verification = "UNVERIFIED", !.next = 0])
    OBVIOUS
  <1>4. CorrectedAs(rows, is, i)
    BY <1>2, <1>3, CorrectedRows
  <1>5. RowsOK(is, Len(schemas))
    BY <1>2, <1>4, CorrectedRowsAreOK
  <1>6. PICK new : new = [history[s] EXCEPT ![f] = is]
    OBVIOUS
  <1>7. history[s] \in [Fields -> Seq(Row)]
    BY DEF HistoryInv
  <1>8. /\ DOMAIN new = Fields /\ new = [g \in Fields |-> new[g]] /\ new[f] = is
        /\ \A g \in Fields : g # f => new[g] = history[s][g]
    BY <1>6, <1>7
  <1>9. Rewrite(s, new) /\ schemas' = schemas
    BY <1>1, <1>2, <1>3, <1>6 DEF Correct
  <1>10. history'[s] = new /\ OthersStay(s)
    BY <1>8, <1>9, Rewritten
  <1>11. \A g \in Fields : RowsOK(new[g], Len(schemas))
    BY <1>5, <1>8 DEF HistoryInv
  <1>12. HistoryInv'
    BY <1>8, <1>9, <1>11, HistoryOK
  <1>13. Corrects(s, f)
    BY <1>2, <1>4, <1>8, <1>10 DEF Corrects
  <1>. QED
    BY <1>12, <1>13

-----------------------------------------------------------------------------
LEMMA HistoryStays ==
  ASSUME HistoryInv, history' = history, Len(schemas') \in Nat, Len(schemas) \in Nat, Len(schemas) <= Len(schemas')
  PROVE  HistoryInv'
  <1>1. ASSUME NEW rows, NEW m \in Nat, NEW n \in Nat, m <= n, RowsOK(rows, m) PROVE RowsOK(rows, n)
    BY <1>1 DEF RowsOK
  <1>2. \A s \in Studies, f \in Fields : RowsOK(history'[s][f], Len(schemas'))
    BY <1>1 DEF HistoryInv
  <1>. QED
    BY <1>2 DEF HistoryInv

\* The steps that change rows.
LEMMA StepsOfHistory ==
  ASSUME [Next]_vars
  PROVE  \/ UNCHANGED <<history, schemas>>
         \/ EnsureSchema /\ history' = history
         \/ Validate
         \/ \E a \in attempts : StoreEvidence(a) \/ StoreReview(a)
         \/ \E s \in Studies, f \in Fields : Correct(s, f)
  <1>1. CASE Requests
    BY <1>1 DEF Requests, evidenceVars
  <1>2. CASE Workers
    <2>1. ASSUME NEW a \in attempts, EvidenceWork(a)
          PROVE  UNCHANGED <<history, schemas>> \/ StoreEvidence(a) \/ StoreReview(a)
      BY <2>1 DEF EvidenceWork, TakeStudy, TakeForReview, ReadOldRows, evidenceVars
    <2>2. CASE EvidenceWorkflow
      BY <2>2 DEF EvidenceWorkflow, ResolveCorpus, PrepareBatch, CallReviewer, EnsureSchema, evidenceVars
    <2>. QED
      BY <1>2, <2>1, <2>2 DEF Workers, evidenceVars
  <1>3. CASE Failures
    BY <1>3 DEF Failures, evidenceVars
  <1>4. CASE UNCHANGED vars
    BY <1>4 DEF vars, evidenceVars
  <1>. QED
    BY <1>1, <1>2, <1>3, <1>4 DEF Next

LEMMA StepKeepsHistory ==
  ASSUME WorkInv, HistoryInv, [Next]_vars
  PROVE  HistoryInv'
  <1>1. Len(schemas) \in Nat
    BY DEF WorkInv, OpsInv
  <1>2. CASE UNCHANGED <<history, schemas>>
    BY <1>1, <1>2, HistoryStays
  <1>3. CASE EnsureSchema /\ history' = history
    <2>1. schemas' \in Seq(Protocols) /\ Len(schemas) <= Len(schemas')
      BY <1>3, SchemasGrow
    <2>. QED
      BY <1>1, <1>3, <2>1, HistoryStays
  <1>. QED
    BY <1>2, <1>3, StepsOfHistory, ValidateJudges, StoreEvidenceStores, StoreReviewReviews, CorrectCorrects

-----------------------------------------------------------------------------
(* The calm environment                                                    *)

\* The study has a current value of the schema, and is not extracted again for it.
ExtractedFor(n, s) == \E f \in Fields : \E i \in CurrentAt(s, f) : history[s][f][i].schema = n

OneCurrent(s) == \A f \in Fields : \A i, j \in CurrentAt(s, f) : i = j

\* What is current of a study is of one schema, and all of it.
Whole(s) ==
  \A f \in Fields : \A i \in CurrentAt(s, f) : \A g \in Fields :
    /\ g \in SchemaFields(history[s][f][i].schema) <=> CurrentAt(s, g) # {}
    /\ \A j \in CurrentAt(s, g) : history[s][g][j].schema = history[s][f][i].schema

NotVerified(s) ==
  \A f \in Fields : \A i \in DOMAIN history[s][f] :
    BreaksARule(history[s][f][i]) => history[s][f][i].verification \notin {"VERIFIED", "PARTIAL"}

\* Current values that break a rule are in conflict.
Marked(s) ==
  \A f \in Fields : \A i \in CurrentAt(s, f) :
    BreaksARule(history[s][f][i]) => history[s][f][i].verification = "CONFLICT"

Sound(s) == OneCurrent(s) /\ Whole(s) /\ NotVerified(s)

\* The corpus has been through the extraction, and through the rules.
Reviewing == \E a \in attempts : a.kind = "review"
Later == Op.stage \in {"VALIDATE", "REVIEW"} \/ (Op.type = "extraction" /\ Op.stage = "FINISH") \/ Reviewing
Checked == Op.stage = "REVIEW" \/ Reviewing

CalmOp ==
  /\ \A s \in Op.attempted \cap readable : ExtractedFor(Op.schema, s)
  /\ Later => Op.corpus \subseteq Op.attempted
  /\ Checked => \A s \in Op.corpus : Marked(s)

\* What an attempt has read is so when it stores.
Reads(a) ==
  /\ a.kind = "extract" /\ a.pc # "idle" =>
       \A s \in a.subject : ~ExtractedFor(ops[a.op].schema, s) /\ s \in readable
  /\ a.pc = "storing" => \A s \in a.subject : a.seen.rows = CurrentRows(s)
  /\ a.kind = "review" /\ a.pc # "idle" =>
       \A s \in a.subject : \A f \in Fields : \A i \in DOMAIN history[s][f] :
         <<f, i>> \in a.seen.rows /\ BreaksARule(history[s][f][i]) => <<f, i>> \in a.seen.conflicts

Running(a) == a.op = Len(ops) /\ ops[a.op].status = "RUNNING"
OneHolds == \A a, b \in attempts : a.pc # "idle" /\ b.pc # "idle" => a = b

CalmRows == \A s \in Studies : Sound(s)
CalmOps == ops # <<>> /\ Op.status = "RUNNING" => CalmOp
CalmAttempts == OneHolds /\ \A a \in attempts : Running(a) /\ Reads(a)

Calm == CalmRows /\ CalmOps /\ CalmAttempts
CalmInv == ~environment.overlap => Calm

-----------------------------------------------------------------------------
LEMMA RunningOp ==
  ASSUME WorkInv, CalmAttempts, NEW a \in attempts
  PROVE  ops # <<>> /\ a.op = Len(ops) /\ Op.status = "RUNNING" /\ Op = ops[a.op]
  BY ShapeKnown DEF CalmAttempts, Running, Op, Place

LEMMA NobodyHolds ==
  ASSUME WorkInv, CalmAttempts, NEW o, ~Holding(o), o = Len(ops)
  PROVE  \A b \in attempts : b.pc = "idle"
  BY DEF CalmAttempts, Running, Holding

\* An idle project has no attempts.
LEMMA NobodyAttempts ==
  ASSUME WorkInv, CalmAttempts, Idle
  PROVE  attempts = {}
  BY ShapeKnown DEF CalmAttempts, Running, Idle, Place

LEMMA ExtractionsAreSeen ==
  ASSUME WorkInv, NEW a \in attempts, a.kind # "assess"
  PROVE  a.batch \subseteq ops[a.op].corpus /\ a.batch \subseteq Studies
  BY ShapeKnown DEF Place, Shape

\* A step that leaves the rows and the last operation's schema alone.
LEMMA QuietStep ==
  ASSUME WorkInv, Calm, UNCHANGED <<history, schemas, readable>>, ops # <<>>, Len(ops') = Len(ops),
         LET o == Len(ops) IN
           /\ ops'[o].type = ops[o].type /\ ops'[o].schema = ops[o].schema /\ ops'[o].corpus = ops[o].corpus
           /\ ops'[o].status = ops[o].status
           /\ ops[o].attempted \subseteq ops'[o].attempted
           /\ \A s \in ops'[o].attempted \ ops[o].attempted : s \in readable => ExtractedFor(ops[o].schema, s),
         Later' => Later \/ Op.corpus \subseteq Op.attempted,
         Checked' => Checked,
         OneHolds',
         \A c \in attempts' : c \in attempts \/ (c.op = Len(ops) /\ ops[Len(ops)].status = "RUNNING" /\ Reads(c))
  PROVE  Calm'
  <1>1. PICK o : o = Len(ops)
    OBVIOUS
  <1>2. \A s : /\ ExtractedFor(ops[o].schema, s)' <=> ExtractedFor(ops[o].schema, s)
               /\ Marked(s)' <=> Marked(s)
               /\ Sound(s)' <=> Sound(s)
               /\ CurrentRows(s)' = CurrentRows(s)
    BY <1>1 DEF ExtractedFor, Marked, Sound, OneCurrent, Whole, NotVerified, CurrentAt, CurrentRows, SchemaFields
  <1>3. CalmRows'
    BY <1>2 DEF Calm, CalmRows
  <1>4. CalmOps'
    <2>. SUFFICES ASSUME ops'[o].status = "RUNNING" PROVE CalmOp'
      BY <1>1 DEF CalmOps, Op
    <2>1. CalmOp /\ ops'[Len(ops')] = ops'[o]
      BY <1>1 DEF Calm, CalmOps, Op
    <2>2. \A s \in ops'[o].attempted \cap readable : ExtractedFor(ops[o].schema, s)
      BY <1>1, <2>1 DEF CalmOp, Op
    <2>3. Later' => ops'[o].corpus \subseteq ops'[o].attempted
      BY <1>1, <2>1 DEF CalmOp, Op
    <2>4. Checked' => \A s \in ops'[o].corpus : Marked(s)
      BY <1>1, <2>1 DEF CalmOp, Op
    <2>. QED
      BY <1>1, <1>2, <2>1, <2>2, <2>3, <2>4 DEF CalmOp, Op
  <1>5. ASSUME NEW c, c.op = o, Reads(c) PROVE Reads(c)'
    BY <1>1, <1>2, <1>5 DEF Reads
  <1>6. CalmAttempts'
    BY <1>1, <1>5 DEF Calm, CalmAttempts, Running
  <1>. QED
    BY <1>3, <1>4, <1>6 DEF Calm

-----------------------------------------------------------------------------
(* Quiet steps                                                             *)

\* An attempt goes on.
LEMMA MoveIsCalm ==
  ASSUME WorkInv, Calm, NEW a \in attempts, NEW b, Moves(a, b), UNCHANGED <<history, schemas, readable>>,
         \/ UNCHANGED ops
         \/ \E s \in Studies : Attempted(a, s) /\ (s \notin readable \/ ExtractedFor(ops[a.op].schema, s)),
         b.pc = "idle" \/ a.pc # "idle" \/ ~Holding(a.op),
         Reads(b)
  PROVE  Calm'
  <1>1. ops # <<>> /\ a.op = Len(ops) /\ Op.status = "RUNNING" /\ ops[Len(ops)].status = "RUNNING"
    BY RunningOp DEF Calm, Op
  <1>2. attempts' = (attempts \ {a}) \cup {b} /\ b.op = a.op /\ b.kind = a.kind
    BY DEF Moves, Replace, GoesOn
  <1>3. OneHolds'
    <2>1. b.pc # "idle" => \A c \in attempts \ {a} : c.pc = "idle"
      BY <1>1, NobodyHolds DEF Calm, CalmAttempts, OneHolds
    <2>. QED
      BY <1>2, <2>1 DEF OneHolds, Calm, CalmAttempts
  <1>4. Reviewing' => Reviewing
    BY <1>2 DEF Reviewing
  <1>5. PICK o : o = Len(ops)
    OBVIOUS
  <1>6. ops \in Seq(Operation) /\ o \in DOMAIN ops
    BY <1>1, <1>5, LastOp DEF WorkInv, OpsInv
  <1>7. /\ Len(ops') = Len(ops)
        /\ ops'[o].type = ops[o].type /\ ops'[o].schema = ops[o].schema /\ ops'[o].corpus = ops[o].corpus
        /\ ops'[o].status = ops[o].status /\ ops'[o].stage = ops[o].stage
        /\ ops[o].attempted \subseteq ops'[o].attempted
        /\ \A s \in ops'[o].attempted \ ops[o].attempted : s \in readable => ExtractedFor(ops[o].schema, s)
    <2>1. CASE UNCHANGED ops
      BY <2>1
    <2>2. ASSUME NEW s \in Studies, Attempted(a, s), s \notin readable \/ ExtractedFor(ops[a.op].schema, s)
          PROVE  /\ Len(ops') = Len(ops)
                 /\ ops'[o].type = ops[o].type /\ ops'[o].schema = ops[o].schema /\ ops'[o].corpus = ops[o].corpus
                 /\ ops'[o].status = ops[o].status /\ ops'[o].stage = ops[o].stage
                 /\ ops'[o].attempted = ops[o].attempted \cup {s}
      BY <1>1, <1>5, <1>6, <2>2, StudyAttempted
    <2>3. CASE ~UNCHANGED ops
      <3>1. PICK s \in Studies : Attempted(a, s) /\ (s \notin readable \/ ExtractedFor(ops[o].schema, s))
        BY <1>1, <1>5, <2>3
      <3>. QED
        BY <1>1, <1>5, <2>2, <3>1
    <2>. QED
      BY <2>1, <2>3
  <1>8. (Later' => Later) /\ (Checked' => Checked)
    BY <1>4, <1>5, <1>7 DEF Later, Checked, Op
  <1>9. \A c \in attempts' : c \in attempts \/ (c.op = Len(ops) /\ ops[Len(ops)].status = "RUNNING" /\ Reads(c))
    BY <1>1, <1>2
  <1>. QED
    BY <1>1, <1>3, <1>5, <1>7, <1>8, <1>9, QuietStep

LEMMA IdleReads ==
  ASSUME NEW b, b.pc = "idle"
  PROVE  Reads(b)
  BY DEF Reads

LEMMA TakeStudyIsCalm ==
  ASSUME WorkInv, Calm, NEW a \in attempts, NEW s \in Studies, TakeStudy(a, s)
  PROVE  Calm'
  <1>1. UNCHANGED <<history, schemas, readable>> /\ a.kind = "extract" /\ ~Holding(a.op)
    BY DEF TakeStudy, evidenceVars, MayTake
  <1>2. Extracted(a, s) <=> ExtractedFor(ops[a.op].schema, s)
    BY DEF Extracted, ExtractedFor
  <1>3. PICK b : /\ Moves(a, b)
                 /\ \/ b.pc = "idle" /\ Attempted(a, s) /\ (Extracted(a, s) \/ s \notin readable)
                    \/ /\ b.pc = "checked" /\ b.subject = {s} /\ UNCHANGED ops
                       /\ ~Extracted(a, s) /\ s \in readable
    BY TakeStudyMoves
  <1>4. b.op = a.op /\ b.kind = a.kind
    BY <1>3 DEF Moves, GoesOn
  <1>5. Reads(b)
    BY <1>1, <1>2, <1>3, <1>4 DEF Reads
  <1>. QED
    BY <1>1, <1>2, <1>3, <1>5, MoveIsCalm

LEMMA TakeForReviewIsCalm ==
  ASSUME WorkInv, Calm, NEW a \in attempts, NEW s \in Studies, TakeForReview(a, s)
  PROVE  Calm'
  <1>1. UNCHANGED <<history, schemas, readable, ops>> /\ a.kind = "review" /\ ~Holding(a.op)
    BY DEF TakeForReview, evidenceVars, MayTake
  <1>2. PICK b : /\ Moves(a, b)
                 /\ \/ b.pc = "idle"
                    \/ /\ b.pc = "checked" /\ b.subject = {s} /\ b.seen.rows = Reviewable(s)
                       /\ b.seen.conflicts = Conflicts(s)
    BY TakeForReviewMoves
  <1>3. b.kind = "review"
    BY <1>1, <1>2 DEF Moves, GoesOn
  <1>4. Marked(s)
    <2>1. s \in Op.corpus /\ CalmOp
      BY <1>1, TakeForReviewMoves, RunningOp, ExtractionsAreSeen DEF Calm, CalmOps
    <2>. QED
      BY <1>1, <2>1 DEF CalmOp, Checked, Reviewing
  <1>5. ASSUME NEW f \in Fields, NEW i \in DOMAIN history[s][f], <<f, i>> \in Reviewable(s),
               BreaksARule(history[s][f][i])
        PROVE  <<f, i>> \in Conflicts(s)
    <2>1. i \in CurrentAt(s, f)
      BY <1>5 DEF Reviewable, CurrentRows
    <2>. QED
      BY <1>4, <1>5, <2>1 DEF Marked, Conflicts
  <1>6. Reads(b)
    BY <1>2, <1>3, <1>5 DEF Reads
  <1>. QED
    BY <1>1, <1>2, <1>6, MoveIsCalm

LEMMA TakeToAssessIsCalm ==
  ASSUME WorkInv, Calm, NEW a \in attempts, NEW s \in Studies, TakeToAssess(a, s), UNCHANGED evidenceVars
  PROVE  Calm'
  <1>1. UNCHANGED <<history, schemas, readable, ops>> /\ a.kind = "assess" /\ ~Holding(a.op)
    BY DEF TakeToAssess, evidenceVars, MayTake
  <1>2. PICK b : Moves(a, b) /\ b.pc \in {"idle", "checked"}
    BY TakeToAssessMoves
  <1>3. b.kind = "assess"
    BY <1>1, <1>2 DEF Moves, GoesOn
  <1>4. Reads(b)
    BY <1>2, <1>3 DEF Reads
  <1>. QED
    BY <1>1, <1>2, <1>4, MoveIsCalm

LEMMA ReadOldRowsIsCalm ==
  ASSUME WorkInv, Calm, NEW a \in attempts, ReadOldRows(a)
  PROVE  Calm'
  <1>1. UNCHANGED <<history, schemas, readable, ops>> /\ a.kind = "extract" /\ a.pc = "asking"
    BY DEF ReadOldRows, evidenceVars
  <1>2. PICK s, b :
              /\ s \in a.batch /\ a.subject = {s} /\ Moves(a, b) /\ b.pc = "storing"
              /\ b.subject = {s} /\ b.seen.rows = CurrentRows(s)
    BY ReadOldRowsMoves
  <1>3. b.kind = "extract" /\ b.op = a.op
    BY <1>1, <1>2 DEF Moves, GoesOn
  <1>4. Reads(a)
    BY DEF Calm, CalmAttempts
  <1>5. Reads(b)
    BY <1>1, <1>2, <1>3, <1>4 DEF Reads
  <1>. QED
    BY <1>1, <1>2, <1>5, MoveIsCalm

LEMMA AskIsCalm ==
  ASSUME WorkInv, Calm, NEW a \in attempts, Ask(a), UNCHANGED evidenceVars
  PROVE  Calm'
  <1>1. UNCHANGED <<history, schemas, readable, ops>>
    BY DEF Ask, evidenceVars
  <1>2. PICK b : Moves(a, b) /\ b.pc = "asking" /\ b.subject = a.subject /\ b.seen = a.seen /\ a.pc = "checked"
    BY AskMoves
  <1>3. b.kind = a.kind /\ b.op = a.op
    BY <1>1, <1>2 DEF Moves, GoesOn
  <1>4. Reads(a)
    BY DEF Calm, CalmAttempts
  <1>5. Reads(b)
    BY <1>2, <1>3, <1>4 DEF Reads
  <1>. QED
    BY <1>1, <1>2, <1>5, MoveIsCalm

LEMMA FinishedIsCalm ==
  ASSUME WorkInv, Calm, NEW a \in attempts, Replace(a, Finished(a)), UNCHANGED <<history, schemas, readable, ops>>
  PROVE  Calm'
  <1>1. PICK b : Moves(a, b) /\ b.pc = "idle"
    BY FinishedMoves
  <1>. QED
    BY <1>1, IdleReads, MoveIsCalm

\* The workflow enters a stage; the attempts are among those there were, or new.
LEMMA EnterIsCalm ==
  ASSUME WorkInv, Calm, UNCHANGED <<history, schemas, readable>>, ops # <<>>,
         NEW stage \in Stages \ {"ENDED"}, Enter(stage) \/ (UNCHANGED ops /\ stage = Op.stage),
         \A c \in attempts' : \/ c \in attempts
                              \/ /\ c.op = Len(ops) /\ Op.status = "RUNNING" /\ Reads(c)
                                 /\ c.kind = "review" => Reviewing \/ Op.stage = "REVIEW",
         OneHolds',
         \/ stage \in {"PREPARE", "CALL", "ABORT"} \/ (stage = "FINISH" /\ Op.type # "extraction")
         \/ stage # "REVIEW" /\ (Later \/ Op.corpus \subseteq Op.attempted)
         \/ stage = Op.stage
  PROVE  Calm'
  <1>1. PICK o : o = Len(ops)
    OBVIOUS
  <1>2. ops \in Seq(Operation) /\ o \in DOMAIN ops
    BY <1>1, LastOp DEF WorkInv, OpsInv
  <1>3. /\ Len(ops') = Len(ops)
        /\ ops'[o].type = ops[o].type /\ ops'[o].schema = ops[o].schema /\ ops'[o].corpus = ops[o].corpus
        /\ ops'[o].status = ops[o].status /\ ops'[o].stage = stage
        /\ ops'[o].attempted = ops[o].attempted
    BY <1>1, <1>2, Entered DEF Op
  <1>4. Reviewing' => Reviewing \/ Op.stage = "REVIEW"
    BY DEF Reviewing
  <1>5. Later' => Later \/ Op.corpus \subseteq Op.attempted
    BY <1>1, <1>3, <1>4 DEF Later, Op
  <1>6. Checked' => Checked
    BY <1>1, <1>3, <1>4 DEF Checked, Op
  <1>7. \A c \in attempts' : c \in attempts \/ (c.op = Len(ops) /\ ops[Len(ops)].status = "RUNNING" /\ Reads(c))
    BY DEF Op
  <1>. QED
    BY <1>1, <1>3, <1>5, <1>6, <1>7, QuietStep

LEMMA FewerHold ==
  ASSUME CalmAttempts, \A c \in attempts' : c \in attempts \/ c.pc = "idle"
  PROVE  OneHolds'
  BY DEF OneHolds, CalmAttempts

\* A retry, next to what is left of the attempt.
LEMMA RetryIsCalm ==
  ASSUME WorkInv, Calm, NEW a \in attempts, NEW rest, Retry(a, rest), UNCHANGED <<history, schemas, readable>>,
         \A b \in rest : GoesOn(b, a) /\ ~b.live /\ b.pc = a.pc /\ b.subject = a.subject /\ b.seen = a.seen,
         \A b, c \in rest : b = c
  PROVE  Calm'
  <1>1. ops # <<>> /\ a.op = Len(ops) /\ Op.status = "RUNNING"
    BY RunningOp DEF Calm
  <1>2. PICK left :
          /\ attempts' = (attempts \ {a}) \cup left
          /\ \A b \in left : GoesOn(b, a) /\ (b.pc = "idle" \/ b \in rest)
          /\ UNCHANGED ops \/ Enter("ABORT")
    BY RetryGoesOn
  <1>3. Reads(a)
    BY DEF Calm, CalmAttempts
  <1>4. ASSUME NEW b \in left PROVE b.op = a.op /\ b.kind = a.kind /\ Reads(b)
    <2>1. b.op = a.op /\ b.kind = a.kind
      BY <1>2 DEF GoesOn
    <2>2. b.pc = "idle" \/ (b.pc = a.pc /\ b.subject = a.subject /\ b.seen = a.seen)
      BY <1>2
    <2>. QED
      BY <1>3, <2>1, <2>2 DEF Reads
  <1>5. OneHolds'
    <2>1. \A b \in left : b.pc # "idle" => b \in rest /\ a.pc # "idle"
      BY <1>2
    <2>. QED
      BY <1>2, <2>1 DEF OneHolds, Calm, CalmAttempts
  <1>6. \A c \in attempts' : \/ c \in attempts
                            \/ /\ c.op = Len(ops) /\ Op.status = "RUNNING" /\ Reads(c)
                               /\ c.kind = "review" => Reviewing \/ Op.stage = "REVIEW"
    BY <1>1, <1>2, <1>4 DEF Reviewing
  <1>7. CASE Enter("ABORT")
    <2>1. PICK stage \in Stages \ {"ENDED"} : stage = "ABORT" /\ Enter(stage)
      BY <1>7 DEF Stages
    <2>. QED
      BY <1>1, <1>5, <1>6, <2>1, EnterIsCalm
  <1>8. CASE UNCHANGED ops
    <2>1. PICK stage : stage = Op.stage /\ stage \in Stages \ {"ENDED"}
      BY <1>1, LastOp DEF Operation, Stages, WorkInv, OpsInv, Op, OpOK
    <2>. QED
      BY <1>1, <1>5, <1>6, <1>8, <2>1, EnterIsCalm
  <1>. QED
    BY <1>2, <1>7, <1>8

LEMMA LoseIsCalm ==
  ASSUME WorkInv, Calm, NEW a \in attempts, Lose(a), UNCHANGED evidenceVars
  PROVE  Calm'
  <1>1. PICK b : b = [a EXCEPT !.live = FALSE]
    OBVIOUS
  <1>2. GoesOn(b, a) /\ ~b.live /\ b.pc = a.pc /\ b.subject = a.subject /\ b.seen = a.seen
    BY <1>1, ShapeKnown, LateGoesOn
  <1>3. PICK rest \in {{}, {b}} : Retry(a, rest)
    BY <1>1 DEF Lose
  <1>4. /\ \A c \in rest : GoesOn(c, a) /\ ~c.live /\ c.pc = a.pc /\ c.subject = a.subject /\ c.seen = a.seen
        /\ \A c, d \in rest : c = d
    BY <1>2, <1>3
  <1>. QED
    BY <1>3, <1>4, RetryIsCalm DEF Lose, evidenceVars

LEMMA NumberTakenIsCalm ==
  ASSUME WorkInv, Calm, NEW a \in attempts, NumberTaken(a), UNCHANGED evidenceVars
  PROVE  Calm'
  <1>1. PICK rest : rest = {} /\ Retry(a, rest)
    BY DEF NumberTaken
  <1>2. /\ \A c \in rest : GoesOn(c, a) /\ ~c.live /\ c.pc = a.pc /\ c.subject = a.subject /\ c.seen = a.seen
        /\ \A c, d \in rest : c = d
    BY <1>1
  <1>. QED
    BY <1>1, <1>2, RetryIsCalm DEF NumberTaken, evidenceVars

\* Attempts end.
LEMMA LateEndsIsCalm ==
  ASSUME WorkInv, Calm, NEW a \in attempts, LateEnds(a), UNCHANGED evidenceVars
  PROVE  Calm'
  <1>1. ops # <<>> /\ Op.status = "RUNNING"
    BY RunningOp DEF Calm
  <1>2. PICK stage : stage = Op.stage /\ stage \in Stages \ {"ENDED"}
    BY <1>1, LastOp DEF Operation, Stages, WorkInv, OpsInv, Op, OpOK
  <1>3. attempts' \subseteq attempts /\ UNCHANGED <<history, schemas, readable, ops>>
    BY DEF LateEnds, evidenceVars
  <1>. QED
    BY <1>1, <1>2, <1>3, FewerHold, EnterIsCalm DEF Calm

LEMMA AnswerIsCalm ==
  ASSUME WorkInv, Calm, NEW a \in attempts, Answer(a), UNCHANGED evidenceVars
  PROVE  Calm'
  <1>1. ops # <<>> /\ a.op = Len(ops) /\ Op.status = "RUNNING" /\ Op = ops[a.op]
    BY RunningOp DEF Calm
  <1>2. attempts' \subseteq attempts /\ UNCHANGED <<history, schemas, readable>>
    BY DEF Answer, evidenceVars
  <1>3. PICK stage : stage = AfterCall(a.kind) /\ Enter(stage) /\ stage \in Stages \ {"ENDED"}
    BY DEF Answer, AfterCall, Stages
  <1>4. OneHolds'
    BY <1>2, FewerHold DEF Calm
  <1>5. a.kind \in Kinds /\ Place(a)
    BY ShapeKnown DEF Shape
  <1>6. CASE a.kind = "extract"
    <2>1. stage = "PREPARE"
      BY <1>3, <1>6 DEF AfterCall
    <2>. QED
      BY <1>1, <1>2, <1>3, <1>4, <2>1, EnterIsCalm
  <1>7. CASE a.kind = "review"
    <2>1. stage = "FINISH" /\ Later
      BY <1>3, <1>7 DEF AfterCall, Later, Reviewing
    <2>. QED
      BY <1>1, <1>2, <1>3, <1>4, <2>1, EnterIsCalm
  <1>8. CASE a.kind = "assess"
    <2>1. stage = "FINISH" /\ Op.type # "extraction"
      BY <1>1, <1>3, <1>5, <1>8 DEF AfterCall, Place
    <2>. QED
      BY <1>1, <1>2, <1>3, <1>4, <2>1, EnterIsCalm
  <1>. QED
    BY <1>5, <1>6, <1>7, <1>8 DEF Kinds

LEMMA AbortIsCalm ==
  ASSUME WorkInv, Calm, Abort, UNCHANGED evidenceVars
  PROVE  Calm'
  <1>1. ops # <<>>
    BY OnlyTheLast DEF Abort, WorkInv
  <1>2. PICK stage \in Stages \ {"ENDED"} : stage = "ABORT" /\ Enter(stage)
    BY DEF Abort, Stages
  <1>3. attempts' = attempts /\ UNCHANGED <<history, schemas, readable>>
    BY DEF Abort, evidenceVars
  <1>. QED
    BY <1>1, <1>2, <1>3, FewerHold, EnterIsCalm DEF Calm

-----------------------------------------------------------------------------
(* The workflow                                                            *)

\* The workflow calls an activity.
LEMMA CallIsCalm ==
  ASSUME WorkInv, Calm, UNCHANGED <<history, schemas, readable>>, ops # <<>>, Op.stage # "ENDED",
         NEW kind, NEW batch, Call(kind, batch), kind = "review" => Op.stage = "REVIEW"
  PROVE  Calm'
  <1>1. PICK b : b = NewAttempt(Len(ops), kind, 1, batch)
    OBVIOUS
  <1>2. b.op = Len(ops) /\ b.kind = kind /\ b.pc = "idle"
    BY <1>1 DEF NewAttempt
  <1>3. attempts' = attempts \cup {b}
    BY <1>1 DEF Call
  <1>4. Op.status = "RUNNING"
    BY LastOp DEF WorkInv, OpsInv, OpOK, Op
  <1>5. PICK stage \in Stages \ {"ENDED"} : stage = "CALL" /\ Enter(stage)
    BY DEF Call, Stages
  <1>6. OneHolds'
    BY <1>2, <1>3, FewerHold DEF Calm
  <1>. QED
    BY <1>2, <1>3, <1>4, <1>5, <1>6, IdleReads, EnterIsCalm

LEMMA QuietWorkflowIsCalm ==
  ASSUME WorkInv, Calm, PrepareBatch \/ CallReviewer \/ (CallAssessor /\ UNCHANGED evidenceVars)
  PROVE  Calm'
  <1>1. UNCHANGED <<history, schemas, readable>> /\ ops # <<>>
    BY DEF PrepareBatch, CallReviewer, CallAssessor, Current, evidenceVars
  <1>2. CASE PrepareBatch
    <2>1. Op.stage = "PREPARE"
      BY <1>2 DEF PrepareBatch, Current, Op
    <2>2. CASE Pending = {} /\ Enter("VALIDATE") /\ UNCHANGED attempts
      <3>1. PICK stage \in Stages \ {"ENDED"} : stage = "VALIDATE" /\ Enter(stage)
        BY <2>2 DEF Stages
      <3>2. Op.corpus \subseteq Op.attempted
        BY <2>2 DEF Pending
      <3>. QED
        BY <1>1, <2>2, <3>1, <3>2, FewerHold, EnterIsCalm DEF Calm
    <2>3. ASSUME NEW batch, Call("extract", batch) PROVE Calm'
      BY <1>1, <2>1, <2>3, CallIsCalm
    <2>. QED
      BY <1>2, <2>2, <2>3 DEF PrepareBatch
  <1>3. CASE CallReviewer
    BY <1>1, <1>3, CallIsCalm DEF CallReviewer, Current, Op
  <1>4. CASE CallAssessor
    BY <1>1, <1>4, CallIsCalm DEF CallAssessor, Current, Op
  <1>. QED
    BY <1>2, <1>3, <1>4

-----------------------------------------------------------------------------
(* Steps at which nobody attempts anything                                 *)

LEMMA NothingUnderWay ==
  ASSUME WorkInv, HistoryInv, CalmRows, history' = history,
         \A n \in DOMAIN schemas : schemas'[n] = schemas[n],
         attempts' = {},
         (ops # <<>> /\ Op.status = "RUNNING")' =>
           (Op.attempted = {} /\ Op.stage \in {"CORPUS", "SCHEMA", "PREPARE"})'
  PROVE  Calm'
  <1>1. \A s \in Studies, f \in Fields : CurrentAt(s, f)' = CurrentAt(s, f)
    BY DEF CurrentAt
  <1>2. ASSUME NEW s \in Studies, NEW f \in Fields, NEW i \in CurrentAt(s, f)
        PROVE  SchemaFields(history[s][f][i].schema)' = SchemaFields(history[s][f][i].schema)
    <2>1. history[s][f][i].schema \in DOMAIN schemas
      <3>1. schemas \in Seq(Protocols) /\ i \in DOMAIN history[s][f]
        BY DEF WorkInv, OpsInv, CurrentAt
      <3>. QED
        BY <3>1 DEF HistoryInv, RowsOK
    <2>. QED
      BY <2>1 DEF SchemaFields
  <1>3. CalmRows'
    <2>1. ASSUME NEW s \in Studies PROVE Sound(s)'
      <3>1. OneCurrent(s)'
        BY <1>1 DEF CalmRows, Sound, OneCurrent
      <3>2. NotVerified(s)'
        BY DEF CalmRows, Sound, NotVerified
      <3>3. Whole(s)
        BY DEF CalmRows, Sound
      <3>4. Whole(s)'
        BY <1>1, <1>2, <3>3 DEF Whole
      <3>. QED
        BY <3>1, <3>2, <3>4 DEF Sound
    <2>. QED
      BY <2>1 DEF CalmRows
  <1>4. CalmOps'
    BY DEF CalmOps, CalmOp, Later, Checked, Reviewing
  <1>5. CalmAttempts'
    BY DEF CalmAttempts, OneHolds
  <1>. QED
    BY <1>3, <1>4, <1>5 DEF Calm

LEMMA StartIsCalm ==
  ASSUME WorkInv, HistoryInv, Calm, NEW type, Start(type), UNCHANGED evidenceVars
  PROVE  Calm'
  <1>1. attempts' = {} /\ UNCHANGED <<history, schemas>>
    BY NobodyAttempts DEF Start, Calm, evidenceVars
  <1>2. PICK new : new = [type |-> type, status |-> "RUNNING", stage |-> "CORPUS",
                          corpus |-> {}, attempted |-> {}, schema |-> 0]
    OBVIOUS
  <1>3. ops \in Seq(Operation) /\ ops' = Append(ops, new)
    BY <1>2 DEF Start, WorkInv, OpsInv
  <1>4. ops'[Len(ops')] = new
    BY <1>3
  <1>. QED
    BY <1>1, <1>2, <1>4, NothingUnderWay DEF Calm, Op

LEMMA RequestWhenIdleIsCalm ==
  ASSUME WorkInv, HistoryInv, Calm, Revise \/ \E s \in Studies : Parse(s), UNCHANGED evidenceVars
  PROVE  Calm'
  <1>1. Idle /\ attempts' = attempts /\ UNCHANGED <<history, schemas, ops>>
    BY DEF Revise, Parse, evidenceVars
  <1>2. attempts' = {}
    BY <1>1, NobodyAttempts DEF Calm
  <1>3. ~(ops # <<>> /\ Op.status = "RUNNING")'
    BY <1>1, LastOp DEF Idle, Op, WorkInv, OpsInv
  <1>. QED
    BY <1>1, <1>2, <1>3, NothingUnderWay DEF Calm

LEMMA FinishIsCalm ==
  ASSUME WorkInv, HistoryInv, Calm, ~environment.overlap, Finish, UNCHANGED evidenceVars
  PROVE  Calm'
  <1>1. attempts' = {} /\ UNCHANGED <<history, schemas>>
    BY DEF Finish, evidenceVars
  <1>2. ops # <<>> /\ ops \in Seq(Operation)
    BY OnlyTheLast DEF Finish, WorkInv, OpsInv
  <1>3. PICK o, old, new, status :
          /\ o = Len(ops) /\ old = ops[o] /\ status = (IF Op.stage = "FINISH" THEN "COMPLETED" ELSE "PARTIAL")
          /\ new = [old EXCEPT !.stage = "ENDED", !.status = status]
    OBVIOUS
  <1>4. o \in DOMAIN ops /\ old \in Operation
    BY <1>2, <1>3, LastOp
  <1>5. new \in Operation /\ new.status # "RUNNING"
    BY <1>3, <1>4 DEF Operation
  <1>6. ops' = [ops EXCEPT ![o] = new]
    BY <1>3 DEF Finish
  <1>7. ops'[Len(ops')] = new
    BY <1>2, <1>3, <1>4, <1>5, <1>6, OpReplaced
  <1>. QED
    BY <1>1, <1>5, <1>7, NothingUnderWay DEF Calm, Op

\* The first stages of an extraction.
LEMMA FirstStagesAreCalm ==
  ASSUME WorkInv, HistoryInv, Calm, ResolveCorpus \/ EnsureSchema
  PROVE  Calm'
  <1>1. /\ ops # <<>> /\ Op.type = "extraction" /\ Op.stage \in {"CORPUS", "SCHEMA"}
        /\ attempts' = attempts /\ history' = history
    BY DEF ResolveCorpus, EnsureSchema, Current, Op, evidenceVars
  <1>2. attempts' = {}
    BY <1>1, NoAttemptBeforeSchema DEF Calm, CalmAttempts, Running
  <1>3. \A n \in DOMAIN schemas : schemas'[n] = schemas[n]
    BY SchemasGrow DEF ResolveCorpus, evidenceVars
  <1>4. PICK o, old : o = Len(ops) /\ old = ops[o] /\ o \in DOMAIN ops /\ old \in Operation
                      /\ old.attempted = {} /\ ops \in Seq(Operation)
    BY <1>1, LastOp, NoAttemptBeforeSchema DEF WorkInv, OpsInv, Op
  <1>5. ops'[Len(ops')].attempted = {} /\ ops'[Len(ops')].stage \in {"SCHEMA", "PREPARE"}
    <2>1. CASE ResolveCorpus
      <3>1. PICK corpus, new : corpus = Included[protocol] /\ new = [old EXCEPT !.corpus = corpus, !.stage = "SCHEMA"]
        OBVIOUS
      <3>2. corpus \in SUBSET Studies
        BY <3>1, IncludedAssumption DEF WorkInv, OpsInv, Protocols
      <3>3. new \in Operation /\ new.attempted = {} /\ new.stage = "SCHEMA"
        BY <1>4, <3>1, <3>2 DEF Operation
      <3>4. ops' = [ops EXCEPT ![o] = new]
        BY <1>4, <2>1, <3>1 DEF ResolveCorpus
      <3>. QED
        BY <1>4, <3>3, <3>4, OpReplaced
    <2>2. CASE EnsureSchema
      <3>1. PICK n, new : n = Len(schemas') /\ new = [old EXCEPT !.schema = n, !.stage = "PREPARE"]
        OBVIOUS
      <3>2. n \in Nat
        BY <2>2, <3>1, SchemasGrow
      <3>3. new \in Operation /\ new.attempted = {} /\ new.stage = "PREPARE"
        BY <1>4, <3>1, <3>2 DEF Operation
      <3>4. ops' = [ops EXCEPT ![o] = new]
        BY <1>4, <2>2, <3>1 DEF EnsureSchema
      <3>. QED
        BY <1>4, <3>3, <3>4, OpReplaced
    <2>. QED
      BY <2>1, <2>2
  <1>. QED
    BY <1>1, <1>2, <1>3, <1>5, NothingUnderWay DEF Calm, Op

-----------------------------------------------------------------------------
(* Steps that change rows                                                  *)

LEMMA StudyStays ==
  ASSUME NEW s, history'[s] = history[s], schemas' = schemas
  PROVE  /\ Sound(s) => Sound(s)'
         /\ \A n : ExtractedFor(n, s)' <=> ExtractedFor(n, s)
         /\ Marked(s) => Marked(s)'
  BY DEF Sound, OneCurrent, Whole, NotVerified, ExtractedFor, Marked, CurrentAt, SchemaFields

\* What is judged is current as before, and says the same.
JudgedRowsOf(s) == \A f \in Fields : JudgedAs(history[s][f], history'[s][f])

LEMMA JudgedStudy ==
  ASSUME HistoryInv, NEW s \in Studies, JudgedRowsOf(s), schemas' = schemas
  PROVE  /\ \A f \in Fields : /\ DOMAIN history'[s][f] = DOMAIN history[s][f]
                              /\ CurrentAt(s, f)' = CurrentAt(s, f)
                              /\ \A i \in DOMAIN history[s][f] :
                                   BreaksARule(history[s][f][i])' <=> BreaksARule(history[s][f][i])
         /\ OneCurrent(s) => OneCurrent(s)'
         /\ Whole(s) => Whole(s)'
         /\ \A n : ExtractedFor(n, s)' <=> ExtractedFor(n, s)
  <1>1. ASSUME NEW f \in Fields
        PROVE  /\ DOMAIN history'[s][f] = DOMAIN history[s][f]
               /\ \A i \in DOMAIN history[s][f] : /\ SaysTheSame(history'[s][f][i], history[s][f][i])
                                                  /\ history'[s][f][i].current = history[s][f][i].current
    <2>1. PICK rows, new : rows = history[s][f] /\ new = history'[s][f] /\ rows \in Seq(Row) /\ JudgedAs(rows, new)
      BY DEF HistoryInv, JudgedRowsOf
    <2>2. new \in Seq(Row) /\ Len(new) = Len(rows)
      BY <2>1 DEF JudgedAs
    <2>. QED
      BY <2>1, <2>2, RowsOf DEF JudgedAs
  <1>2. \A f \in Fields : CurrentAt(s, f)' = CurrentAt(s, f)
    BY <1>1 DEF CurrentAt
  <1>3. \A f \in Fields : \A i \in DOMAIN history[s][f] : /\ history'[s][f][i].schema = history[s][f][i].schema
                                                          /\ BreaksARule(history[s][f][i])' <=> BreaksARule(history[s][f][i])
    BY <1>1 DEF SaysTheSame, BreaksARule
  <1>4. \A f \in Fields : CurrentAt(s, f) \subseteq DOMAIN history[s][f]
    BY DEF CurrentAt
  <1>5. OneCurrent(s) => OneCurrent(s)'
    BY <1>2 DEF OneCurrent
  <1>6. \A n : ExtractedFor(n, s)' <=> ExtractedFor(n, s)
    BY <1>2, <1>3, <1>4 DEF ExtractedFor
  <1>7. Whole(s) => Whole(s)'
    BY <1>2, <1>3, <1>4 DEF Whole, SchemaFields
  <1>. QED
    BY <1>1, <1>2, <1>3, <1>5, <1>6, <1>7

LEMMA ValidateIsCalm ==
  ASSUME WorkInv, HistoryInv, Calm, Validate
  PROVE  Calm'
  <1>1. /\ ops # <<>> /\ Op.stage = "VALIDATE" /\ ~Holding(Len(ops)) /\ attempts' = attempts
        /\ schemas' = schemas /\ readable' = readable
    BY DEF Validate, Current, Op
  <1>2. PICK o : o = Len(ops) /\ o \in DOMAIN ops /\ ops \in Seq(Operation)
    BY <1>1, LastOp DEF WorkInv, OpsInv
  <1>3. ops[o].status = "RUNNING"
    BY <1>1, <1>2 DEF WorkInv, OpsInv, OpOK, Op
  <1>4. PICK stage \in Stages : stage = "REVIEW" /\ Enter(stage)
    BY DEF Validate, Stages
  <1>5. /\ Len(ops') = o
        /\ ops'[o].type = ops[o].type /\ ops'[o].schema = ops[o].schema /\ ops'[o].corpus = ops[o].corpus
        /\ ops'[o].status = ops[o].status /\ ops'[o].attempted = ops[o].attempted
    BY <1>1, <1>2, <1>4, Entered
  <1>6. \A s \in Studies : JudgedRowsOf(s)
    BY ValidateJudges DEF Judges, JudgedRowsOf
  <1>7. /\ CalmOp /\ ops[o].corpus \subseteq ops[o].attempted
        /\ \A s \in ops[o].attempted \cap readable : ExtractedFor(ops[o].schema, s)
    BY <1>1, <1>2, <1>3 DEF Calm, CalmOps, CalmOp, Later, Op
  <1>8. ASSUME NEW s \in Studies PROVE Sound(s)' /\ (s \in ops[o].corpus => Marked(s)')
    <2>1. OneCurrent(s) /\ Whole(s) /\ NotVerified(s)
      BY DEF Calm, CalmRows, Sound
    <2>2. OneCurrent(s)' /\ Whole(s)'
      BY <1>1, <1>6, <2>1, JudgedStudy
    <2>3. \A f \in Fields : /\ DOMAIN history'[s][f] = DOMAIN history[s][f]
                            /\ CurrentAt(s, f)' = CurrentAt(s, f)
                            /\ \A i \in DOMAIN history[s][f] :
                                 BreaksARule(history[s][f][i])' <=> BreaksARule(history[s][f][i])
      BY <1>1, <1>6, JudgedStudy
    <2>4. \A f \in Fields : \A i \in DOMAIN history[s][f] :
              history'[s][f][i].verification =
                IF s \in Op.corpus /\ history[s][f][i].current /\ BreaksARule(history[s][f][i])
                  THEN "CONFLICT" ELSE history[s][f][i].verification
      BY ValidateJudges
    <2>5. NotVerified(s)'
      BY <2>1, <2>3, <2>4 DEF NotVerified
    <2>6. s \in ops[o].corpus => Marked(s)'
      BY <1>2, <2>3, <2>4 DEF Marked, CurrentAt, Op
    <2>. QED
      BY <2>2, <2>5, <2>6 DEF Sound
  <1>9. CalmRows'
    BY <1>8 DEF CalmRows
  <1>10. ops[o].corpus \subseteq Studies /\ ops[o].attempted \subseteq Studies
    <2>1. ops[o] \in Operation
      BY <1>2
    <2>. QED
      BY <2>1 DEF Operation
  <1>11. \A s \in ops[o].attempted \cap readable : ExtractedFor(ops[o].schema, s)'
    <2>1. PICK n : n = ops[o].schema /\ n = ops'[o].schema
      BY <1>5
    <2>2. ASSUME NEW s \in ops[o].attempted \cap readable PROVE ExtractedFor(n, s)'
      <3>1. ExtractedFor(n, s) /\ s \in Studies /\ JudgedRowsOf(s)
        BY <1>6, <1>7, <1>10, <2>1
      <3>. QED
        BY <1>1, <3>1, JudgedStudy
    <2>. QED
      BY <2>1, <2>2
  <1>12. CalmOps'
    BY <1>1, <1>5, <1>7, <1>8, <1>10, <1>11 DEF CalmOps, CalmOp, Op
  <1>13. CalmAttempts'
    <2>1. \A a \in attempts : a.pc = "idle"
      BY <1>1, NobodyHolds DEF Calm
    <2>2. \A a \in attempts : Running(a)'
      BY <1>2, <1>5 DEF Calm, CalmAttempts, Running
    <2>3. \A a \in attempts : Reads(a)'
      BY <2>1 DEF Reads
    <2>. QED
      BY <1>1, <2>1, <2>2, <2>3 DEF CalmAttempts, OneHolds
  <1>. QED
    BY <1>9, <1>12, <1>13 DEF Calm

LEMMA StoreReviewIsCalm ==
  ASSUME WorkInv, HistoryInv, Calm, NEW a \in attempts, StoreReview(a)
  PROVE  Calm'
  <1>1. /\ ops # <<>> /\ a.op = Len(ops) /\ Op.status = "RUNNING" /\ a.kind = "review" /\ a.pc = "asking"
        /\ UNCHANGED <<ops, schemas, readable>>
    BY RunningOp DEF Calm, StoreReview
  <1>2. PICK s \in a.batch : s \in Studies /\ a.subject = {s} /\ Reviews(a, s)
    BY StoreReviewReviews
  <1>3. PICK b : Moves(a, b) /\ b.pc = "idle"
    BY FinishedMoves DEF StoreReview
  <1>4. attempts' = (attempts \ {a}) \cup {b} /\ b.op = a.op /\ b.kind = a.kind
    BY <1>3 DEF Moves, Replace, GoesOn
  <1>5. JudgedRowsOf(s) /\ OthersStay(s)
    BY <1>2 DEF Reviews, JudgedRowsOf
  <1>6. \A f \in Fields : \A i \in DOMAIN history[s][f] :
          BreaksARule(history[s][f][i]) => history'[s][f][i] = history[s][f][i]
    BY <1>1, <1>2 DEF Reviews, Calm, CalmAttempts, Reads
  <1>7. \A f \in Fields : /\ DOMAIN history'[s][f] = DOMAIN history[s][f]
                          /\ CurrentAt(s, f)' = CurrentAt(s, f)
                          /\ \A i \in DOMAIN history[s][f] :
                               BreaksARule(history[s][f][i])' <=> BreaksARule(history[s][f][i])
    BY <1>1, <1>2, <1>5, JudgedStudy
  <1>8. Sound(s)'
    <2>1. OneCurrent(s) /\ Whole(s) /\ NotVerified(s)
      BY <1>2 DEF Calm, CalmRows, Sound
    <2>2. OneCurrent(s)' /\ Whole(s)'
      BY <1>1, <1>2, <1>5, <2>1, JudgedStudy
    <2>3. NotVerified(s)'
      BY <1>6, <1>7, <2>1 DEF NotVerified
    <2>. QED
      BY <2>2, <2>3 DEF Sound
  <1>9. Marked(s) => Marked(s)'
    BY <1>6, <1>7 DEF Marked, CurrentAt
  <1>10. \A t \in Studies : Sound(t)' /\ (Marked(t) => Marked(t)') /\ \A n : ExtractedFor(n, t)' <=> ExtractedFor(n, t)
    <2>1. \A n : ExtractedFor(n, s)' <=> ExtractedFor(n, s)
      BY <1>1, <1>2, <1>5, JudgedStudy
    <2>2. ASSUME NEW t \in Studies, t # s
          PROVE  Sound(t)' /\ (Marked(t) => Marked(t)') /\ \A n : ExtractedFor(n, t)' <=> ExtractedFor(n, t)
      BY <1>1, <1>5, <2>2, StudyStays DEF OthersStay, Calm, CalmRows
    <2>. QED
      BY <1>8, <1>9, <2>1, <2>2
  <1>11. CalmOps'
    <2>1. CalmOp /\ Op \in Operation
      BY <1>1, LastOp DEF Calm, CalmOps, WorkInv, OpsInv, Op
    <2>2. Op.corpus \subseteq Studies /\ Op.attempted \subseteq Studies
      BY <2>1 DEF Operation
    <2>3. Reviewing' => Reviewing
      BY <1>4 DEF Reviewing
    <2>4. PICK op : op = Op /\ op = Op'
      BY <1>1 DEF Op
    <2>5. \A t \in op.attempted \cap readable : ExtractedFor(op.schema, t)'
      BY <1>10, <2>1, <2>2, <2>4 DEF CalmOp
    <2>. QED
      BY <1>1, <1>10, <2>1, <2>2, <2>3, <2>4, <2>5 DEF CalmOps, CalmOp, Later, Checked
  <1>12. \A c \in attempts' : c.pc = "idle"
    BY <1>1, <1>3, <1>4 DEF Calm, CalmAttempts, OneHolds
  <1>13. CalmAttempts'
    BY <1>1, <1>4, <1>12 DEF Calm, CalmAttempts, Running, Reads, OneHolds
  <1>. QED
    BY <1>10, <1>11, <1>13 DEF Calm, CalmRows

-----------------------------------------------------------------------------
(* Extraction and correction                                               *)

\* What an extraction leaves of a study whose current values it has seen.
LEMMA StoredStudy ==
  ASSUME WorkInv, HistoryInv, NEW a \in attempts, a.kind # "assess", NEW s \in Studies, Stores(a, s), schemas' = schemas,
         a.seen.rows = CurrentRows(s), NotVerified(s)
  PROVE  /\ Sound(s)'
         /\ \A n : n = ops[a.op].schema => ExtractedFor(n, s)'
         /\ \E f \in SchemaFields(ops[a.op].schema) : f \in Fields /\ Len(history'[s][f]) > Len(history[s][f])
               /\ history'[s][f][Len(history'[s][f])].schema = ops[a.op].schema
  <1>1. PICK n, fields : n = ops[a.op].schema /\ fields = SchemaFields(n) /\ fields \subseteq Fields /\ fields # {}
                         /\ n \in 1..Len(schemas)
    BY SchemaKnown
  <1>2. ASSUME NEW f \in Fields PROVE SeenAt(a, f) = CurrentAt(s, f)
    <2>1. ASSUME NEW i \in SeenAt(a, f) PROVE i \in CurrentAt(s, f)
      <3>1. PICK r \in CurrentRows(s) : r[1] = f /\ i = r[2]
        BY DEF SeenAt
      <3>2. PICK g \in Fields : r \in {g} \X CurrentAt(s, g)
        BY DEF CurrentRows
      <3>. QED
        BY <3>1, <3>2
    <2>2. ASSUME NEW i \in CurrentAt(s, f) PROVE i \in SeenAt(a, f)
      <3>1. <<f, i>> \in a.seen.rows
        BY DEF CurrentRows
      <3>. QED
        BY <3>1 DEF SeenAt
    <2>. QED
      BY <2>1, <2>2
  <1>3. ASSUME NEW f \in Fields
        PROVE  /\ \A i \in DOMAIN history'[s][f] : BreaksARule(history'[s][f][i]) =>
                     history'[s][f][i].verification \notin {"VERIFIED", "PARTIAL"}
               /\ f \notin fields => CurrentAt(s, f)' = {}
               /\ f \in fields => \E m : /\ m = Len(history'[s][f]) /\ CurrentAt(s, f)' = {m}
                                         /\ history'[s][f][m].schema = n
                                         /\ m > Len(history[s][f])
    <2>1. PICK rows, new, old : /\ rows = history[s][f] /\ new = history'[s][f] /\ old = CurrentAt(s, f)
                                /\ rows \in Seq(Row)
      BY DEF HistoryInv
    <2>2. PICK added : /\ StoredAs(rows, new, old, added)
                       /\ IF f \in fields THEN \E row : added = {row} /\ FreshRow(row, n) ELSE added = {}
      BY <1>1, <1>2, <2>1 DEF Stores
    <2>3. PICK k, m : k = Len(rows) /\ k \in Nat /\ DOMAIN rows = 1..k /\ m = Len(new) /\ DOMAIN new = 1..m
                      /\ m = k + (IF added = {} THEN 0 ELSE 1)
      BY <2>1, <2>2, RowsOf DEF StoredAs
    <2>4. ASSUME NEW i \in 1..k
          PROVE  /\ new[i].current = FALSE
                 /\ BreaksARule(new[i]) => new[i].verification \notin {"VERIFIED", "PARTIAL"}
      <3>1. BreaksARule(rows[i]) => rows[i].verification \notin {"VERIFIED", "PARTIAL"}
        BY <2>1, <2>3 DEF NotVerified
      <3>2. CASE i \in old
        BY <2>2, <2>3, <3>1, <3>2 DEF StoredAs, SaysTheSame, BreaksARule
      <3>3. CASE i \notin old
        <4>1. new[i] = rows[i]
          BY <2>2, <2>3, <3>3 DEF StoredAs
        <4>2. rows[i] \in Row /\ ~rows[i].current
          BY <2>1, <2>3, <3>3 DEF CurrentAt
        <4>3. rows[i].current \in BOOLEAN
          BY <4>2 DEF Row
        <4>. QED
          BY <3>1, <4>1, <4>2, <4>3
      <3>. QED
        BY <3>2, <3>3
    <2>5. CASE f \in fields
      <3>1. PICK row : added = {row} /\ FreshRow(row, n)
        BY <2>2, <2>5
      <3>2. m = k + 1 /\ m > k /\ DOMAIN new = 1..k \cup {m}
        BY <2>3, <3>1
      <3>3. new[m] = row
        BY <2>2, <2>3, <3>1 DEF StoredAs
      <3>4. new[m].current = TRUE /\ new[m].schema = n
            /\ (BreaksARule(new[m]) => new[m].verification \notin {"VERIFIED", "PARTIAL"})
        BY <3>1, <3>3 DEF FreshRow, BreaksARule
      <3>5. {i \in DOMAIN new : new[i].current} = {m}
        BY <2>4, <3>2, <3>4
      <3>6. CurrentAt(s, f)' = {m}
        BY <2>1, <3>5 DEF CurrentAt
      <3>7. \A i \in DOMAIN new : BreaksARule(new[i]) => new[i].verification \notin {"VERIFIED", "PARTIAL"}
        BY <2>4, <3>2, <3>4
      <3>. QED
        BY <2>1, <2>3, <2>5, <3>2, <3>4, <3>6, <3>7
    <2>6. CASE f \notin fields
      <3>1. m = k
        BY <2>2, <2>3, <2>6
      <3>2. {i \in DOMAIN new : new[i].current} = {}
        BY <2>3, <2>4, <3>1
      <3>3. CurrentAt(s, f)' = {}
        BY <2>1, <3>2 DEF CurrentAt
      <3>. QED
        BY <2>1, <2>3, <2>4, <2>6, <3>1, <3>3
    <2>. QED
      BY <2>5, <2>6
  <1>4. OneCurrent(s)'
    BY <1>3 DEF OneCurrent
  <1>5. \A f \in Fields : \A i \in CurrentAt(s, f)' : f \in fields /\ history'[s][f][i].schema = n
    BY <1>3
  <1>6. \A g \in Fields : g \in fields <=> CurrentAt(s, g)' # {}
    BY <1>3
  <1>7. SchemaFields(n)' = fields
    BY <1>1 DEF SchemaFields
  <1>8. Whole(s)'
    BY <1>5, <1>6, <1>7 DEF Whole, SchemaFields
  <1>9. NotVerified(s)'
    BY <1>3 DEF NotVerified
  <1>10. PICK f \in fields : f \in Fields
    BY <1>1
  <1>11. ExtractedFor(n, s)'
    BY <1>3, <1>10 DEF ExtractedFor
  <1>12. Len(history'[s][f]) > Len(history[s][f]) /\ history'[s][f][Len(history'[s][f])].schema = n
    BY <1>3, <1>10
  <1>. QED
    BY <1>1, <1>4, <1>8, <1>9, <1>10, <1>11, <1>12 DEF Sound

\* In the calm environment an extraction supersedes what is current, of another schema.
LEMMA StoringReads ==
  ASSUME WorkInv, Calm, NEW a \in attempts, a.kind = "extract", a.pc = "storing", NEW s, a.subject = {s}
  PROVE  /\ a.seen.rows = CurrentRows(s) /\ ~ExtractedFor(ops[a.op].schema, s) /\ s \in readable
         /\ ops # <<>> /\ a.op = Len(ops) /\ Op.status = "RUNNING" /\ Op = ops[a.op]
  BY RunningOp DEF Calm, CalmAttempts, Reads

LEMMA StoreEvidenceIsCalm ==
  ASSUME WorkInv, HistoryInv, Calm, NEW a \in attempts, StoreEvidence(a)
  PROVE  Calm'
  <1>1. a.kind = "extract" /\ a.pc = "storing" /\ UNCHANGED <<schemas, readable>>
    BY DEF StoreEvidence
  <1>2. PICK s \in a.batch : s \in Studies /\ a.subject = {s} /\ Attempted(a, s) /\ Stores(a, s)
    BY StoreEvidenceStores
  <1>3. PICK o, n : /\ o = Len(ops) /\ a.op = o /\ n = ops[o].schema /\ ops[o].status = "RUNNING" /\ Op = ops[o]
                    /\ ops # <<>> /\ a.seen.rows = CurrentRows(s) /\ ~ExtractedFor(n, s) /\ s \in readable
    BY <1>1, <1>2, StoringReads DEF Op
  <1>4. ops \in Seq(Operation) /\ o \in DOMAIN ops /\ ops[o] \in Operation
    BY <1>3, LastOp DEF WorkInv, OpsInv
  <1>5. /\ Len(ops') = o /\ ops'[o].type = ops[o].type /\ ops'[o].status = ops[o].status
        /\ ops'[o].corpus = ops[o].corpus /\ ops'[o].stage = ops[o].stage /\ ops'[o].schema = n
        /\ ops'[o].attempted = ops[o].attempted \cup {s}
    BY <1>2, <1>3, <1>4, StudyAttempted
  <1>6. ops[o].corpus \subseteq Studies /\ ops[o].attempted \subseteq Studies
    BY <1>4 DEF Operation
  <1>7. NotVerified(s)
    BY <1>2 DEF Calm, CalmRows, Sound
  <1>8. Sound(s)' /\ ExtractedFor(n, s)'
    BY <1>1, <1>2, <1>3, <1>7, StoredStudy
  <1>9. ASSUME NEW t \in Studies, t # s
        PROVE  Sound(t)' /\ (ExtractedFor(n, t) => ExtractedFor(n, t)')
    BY <1>1, <1>2, <1>9, StudyStays DEF Stores, OthersStay, Calm, CalmRows
  <1>10. PICK b : Moves(a, b) /\ b.pc = "idle"
    BY <1>1, FinishedMoves DEF StoreEvidence
  <1>11. attempts' = (attempts \ {a}) \cup {b} /\ b.op = a.op /\ b.kind = a.kind
    BY <1>10 DEF Moves, Replace, GoesOn
  <1>12. CalmOp
    BY <1>3 DEF Calm, CalmOps
  \* A study of the corpus is not yet through: nothing is checked.
  <1>13. ~Later
    <2>1. s \in ops[o].corpus
      BY <1>1, <1>2, <1>3, ExtractionsAreSeen
    <2>2. s \notin ops[o].attempted
      BY <1>3, <1>12 DEF CalmOp
    <2>. QED
      BY <1>3, <1>12, <2>1, <2>2 DEF CalmOp
  <1>14. CalmOps'
    <2>1. ~Later'
      <3>1. Reviewing' => Reviewing
        BY <1>11 DEF Reviewing
      <3>. QED
        BY <1>3, <1>5, <1>13, <3>1 DEF Later, Op
    <2>2. ~Checked'
      BY <2>1 DEF Later, Checked
    <2>3. \A t \in ops'[o].attempted \cap readable : ExtractedFor(n, t)'
      BY <1>3, <1>5, <1>6, <1>8, <1>9, <1>12 DEF CalmOp
    <2>. QED
      BY <1>1, <1>5, <2>1, <2>2, <2>3 DEF CalmOps, CalmOp, Op
  <1>15. CalmRows'
    BY <1>8, <1>9 DEF CalmRows
  <1>16. \A c \in attempts' : c.pc = "idle"
    BY <1>1, <1>10, <1>11 DEF Calm, CalmAttempts, OneHolds
  <1>17. CalmAttempts'
    <2>1. \A c \in attempts' : c.op = o
      BY <1>3, <1>11 DEF Calm, CalmAttempts, Running
    <2>. QED
      BY <1>3, <1>5, <1>16, <2>1 DEF CalmAttempts, Running, Reads, OneHolds
  <1>. QED
    BY <1>14, <1>15, <1>17 DEF Calm

\* A correction replaces a current value by one of the same schema that breaks no rule.
LEMMA CorrectedStudy ==
  ASSUME HistoryInv, NEW s \in Studies, NEW f \in Fields, Corrects(s, f), schemas' = schemas, Sound(s)
  PROVE  /\ Sound(s)'
         /\ \A n : ExtractedFor(n, s)' <=> ExtractedFor(n, s)
         /\ Marked(s) => Marked(s)'
         /\ \A g \in Fields : \A j \in DOMAIN history'[s][g] :
              BreaksARule(history'[s][g][j]) => j \in DOMAIN history[s][g] /\ BreaksARule(history[s][g][j])
  <1>1. PICK i : i \in CurrentAt(s, f) /\ CorrectedAs(history[s][f], history'[s][f], i)
    BY DEF Corrects
  <1>2. PICK rows, new, n, m :
          /\ rows = history[s][f] /\ new = history'[s][f] /\ rows \in Seq(Row) /\ new \in Seq(Row)
          /\ n = Len(rows) /\ n \in Nat /\ m = Len(new) /\ m = n + 1
          /\ DOMAIN rows = 1..n /\ DOMAIN new = 1..m /\ i \in 1..n /\ rows[i].current
          /\ rows[i].current \in BOOLEAN
    <2>1. PICK rows, new : rows = history[s][f] /\ new = history'[s][f] /\ rows \in Seq(Row) /\ new \in Seq(Row)
                           /\ Len(new) = Len(rows) + 1
      BY <1>1 DEF HistoryInv, CorrectedAs
    <2>2. i \in DOMAIN rows /\ rows[i].current
      BY <1>1, <2>1 DEF CurrentAt
    <2>3. rows[i].current \in BOOLEAN
      BY <2>1, <2>2, RowsOf DEF Row
    <2>. QED
      BY <2>1, <2>2, <2>3, RowsOf
  <1>3. /\ SaysTheSame(new[i], rows[i]) /\ new[i].verification = rows[i].verification /\ new[i].current = FALSE
        /\ \A j \in 1..n : j # i => new[j] = rows[j]
        /\ new[m].schema = rows[i].schema /\ new[m].current = rows[i].current /\ ~BreaksARule(new[m])
    BY <1>1, <1>2 DEF CorrectedAs, BreaksARule
  <1>4. 1..m = 1..n \cup {m} /\ m \notin 1..n
    BY <1>2
  <1>5. \A g \in Fields : g # f => history'[s][g] = history[s][g]
    BY DEF Corrects
  <1>6. OneCurrent(s) /\ Whole(s) /\ NotVerified(s)
    BY DEF Sound
  <1>7. CurrentAt(s, f) = {i}
    BY <1>1, <1>6 DEF OneCurrent
  <1>8. CurrentAt(s, f)' = {m}
    <2>1. \A j \in 1..n : j # i => ~rows[j].current
      BY <1>2, <1>7 DEF CurrentAt
    <2>2. {j \in DOMAIN new : new[j].current} = {m}
      BY <1>2, <1>3, <1>4, <2>1
    <2>. QED
      BY <1>2, <2>2 DEF CurrentAt
  <1>9. \A g \in Fields : g # f => CurrentAt(s, g)' = CurrentAt(s, g)
    BY <1>5 DEF CurrentAt
  <1>10. history'[s][f][m].schema = history[s][f][i].schema
    BY <1>2, <1>3
  <1>11. ASSUME NEW g \in Fields, NEW j \in DOMAIN history'[s][g], BreaksARule(history'[s][g][j])
         PROVE  /\ j \in DOMAIN history[s][g] /\ BreaksARule(history[s][g][j])
                /\ history'[s][g][j].verification = history[s][g][j].verification
    <2>1. CASE g # f
      BY <1>5, <1>11, <2>1
    <2>2. CASE g = f
      <3>1. j \in 1..n /\ BreaksARule(new[j])
        BY <1>2, <1>3, <1>4, <1>11, <2>2
      <3>2. BreaksARule(rows[j]) /\ new[j].verification = rows[j].verification
        BY <1>3, <3>1 DEF SaysTheSame, BreaksARule
      <3>. QED
        BY <1>2, <2>2, <3>1, <3>2
    <2>. QED
      BY <2>1, <2>2
  <1>12. OneCurrent(s)'
    BY <1>6, <1>8, <1>9 DEF OneCurrent
  <1>13. \A n2 : ExtractedFor(n2, s)' <=> ExtractedFor(n2, s)
    <2>1. \A g \in Fields : g # f => \A j \in CurrentAt(s, g) : history'[s][g][j].schema = history[s][g][j].schema
      BY <1>5
    <2>. QED
      BY <1>7, <1>8, <1>9, <1>10, <2>1 DEF ExtractedFor
  <1>14. Whole(s)'
    <2>1. ASSUME NEW g \in Fields, NEW j \in CurrentAt(s, g)'
          PROVE  \E k \in CurrentAt(s, g) : history[s][g][k].schema = history'[s][g][j].schema
      BY <1>5, <1>7, <1>8, <1>9, <1>10
    <2>2. \A g \in Fields : CurrentAt(s, g)' # {} <=> CurrentAt(s, g) # {}
      BY <1>7, <1>8, <1>9
    <2>3. ASSUME NEW g \in Fields, NEW j \in CurrentAt(s, g)', NEW h \in Fields
          PROVE  /\ h \in SchemaFields(history'[s][g][j].schema) <=> CurrentAt(s, h)' # {}
                 /\ \A k \in CurrentAt(s, h)' : history'[s][h][k].schema = history'[s][g][j].schema
      <3>1. PICK l \in CurrentAt(s, g) : history[s][g][l].schema = history'[s][g][j].schema
        BY <2>1
      <3>2. /\ h \in SchemaFields(history[s][g][l].schema) <=> CurrentAt(s, h) # {}
            /\ \A k \in CurrentAt(s, h) : history[s][h][k].schema = history[s][g][l].schema
        BY <1>6, <3>1 DEF Whole
      <3>. QED
        BY <2>1, <2>2, <3>1, <3>2
    <2>. QED
      BY <2>3 DEF Whole, SchemaFields
  <1>15. NotVerified(s)'
    BY <1>6, <1>11 DEF NotVerified
  <1>16. Marked(s) => Marked(s)'
    <2>1. ASSUME NEW g \in Fields, NEW j \in CurrentAt(s, g)', BreaksARule(history'[s][g][j]), Marked(s)
          PROVE  history'[s][g][j].verification = "CONFLICT"
      <3>1. g # f
        BY <1>2, <1>3, <1>8, <2>1
      <3>. QED
        BY <1>5, <1>9, <2>1, <3>1 DEF Marked
    <2>. QED
      BY <2>1 DEF Marked
  <1>. QED
    BY <1>11, <1>12, <1>13, <1>14, <1>15, <1>16 DEF Sound

LEMMA CorrectIsCalm ==
  ASSUME WorkInv, HistoryInv, Calm, NEW s \in Studies, NEW f \in Fields, Correct(s, f)
  PROVE  Calm'
  <1>1. ~Asking /\ UNCHANGED <<ops, schemas, readable, attempts>>
    BY DEF Correct, ByHuman
  <1>2. Corrects(s, f) /\ OthersStay(s)
    BY CorrectCorrects DEF Corrects
  <1>3. Sound(s)
    BY DEF Calm, CalmRows
  <1>4. /\ Sound(s)'
        /\ \A n : ExtractedFor(n, s)' <=> ExtractedFor(n, s)
        /\ Marked(s) => Marked(s)'
        /\ \A g \in Fields : \A j \in DOMAIN history'[s][g] :
             BreaksARule(history'[s][g][j]) => j \in DOMAIN history[s][g] /\ BreaksARule(history[s][g][j])
    BY <1>1, <1>2, <1>3, CorrectedStudy
  <1>5. \A t \in Studies : t # s =>
          /\ Sound(t)' /\ (\A n : ExtractedFor(n, t)' <=> ExtractedFor(n, t)) /\ (Marked(t) => Marked(t)')
          /\ history'[t] = history[t]
    BY <1>1, <1>2, StudyStays DEF OthersStay, Calm, CalmRows
  <1>6. \A t \in Studies :
          Sound(t)' /\ (\A n : ExtractedFor(n, t)' <=> ExtractedFor(n, t)) /\ (Marked(t) => Marked(t)')
    BY <1>4, <1>5
  <1>7. CalmOps'
    <2>. SUFFICES ASSUME ops # <<>>, Op.status = "RUNNING" PROVE CalmOp'
      BY <1>1 DEF CalmOps, Op
    <2>1. CalmOp /\ Op \in Operation
      BY LastOp DEF Calm, CalmOps, WorkInv, OpsInv, Op
    <2>2. Op.corpus \subseteq Studies /\ Op.attempted \subseteq Studies
      BY <2>1 DEF Operation
    <2>3. PICK op : op = Op /\ op = Op'
      BY <1>1 DEF Op
    <2>4. \A t \in op.attempted \cap readable : ExtractedFor(op.schema, t)'
      BY <1>6, <2>1, <2>2, <2>3 DEF CalmOp
    <2>. QED
      BY <1>1, <1>6, <2>1, <2>2, <2>3, <2>4 DEF CalmOp, Later, Checked, Reviewing
  <1>8. ASSUME NEW a \in attempts PROVE Reads(a)'
    <2>1. Reads(a) /\ a.pc # "storing"
      BY <1>1 DEF Calm, CalmAttempts, Asking
    <2>2. CASE a.pc = "idle"
      BY <2>2, IdleReads DEF Reads
    <2>3. CASE a.pc # "idle"
      <3>1. PICK t \in Studies : a.subject = {t}
        BY <2>3, SubjectOf
      <3>2. PICK n : n = ops[a.op].schema /\ n = ops'[a.op].schema
        BY <1>1
      <3>3. \A g \in Fields : \A j \in DOMAIN history'[t][g] :
             BreaksARule(history'[t][g][j]) => j \in DOMAIN history[t][g] /\ BreaksARule(history[t][g][j])
        BY <1>4, <1>5, <3>1
      <3>4. ExtractedFor(n, t)' => ExtractedFor(n, t)
        BY <1>6, <3>1
      <3>. QED
        BY <1>1, <2>1, <3>1, <3>2, <3>3, <3>4 DEF Reads
    <2>. QED
      BY <2>2, <2>3
  <1>9. CalmAttempts'
    BY <1>1, <1>8 DEF Calm, CalmAttempts, Running, OneHolds
  <1>. QED
    BY <1>6, <1>7, <1>9 DEF Calm, CalmRows

-----------------------------------------------------------------------------
(* The invariant of the evidence                                           *)

LEMMA HumanIsCalm ==
  ASSUME WorkInv, Calm, ByHuman, UNCHANGED evidenceVars
  PROVE  Calm'
  <1>1. UNCHANGED <<history, schemas, readable, ops, attempts>>
    BY DEF ByHuman, evidenceVars
  <1>. QED
    BY <1>1 DEF Calm, CalmRows, CalmOps, CalmAttempts, Sound, OneCurrent, Whole, NotVerified, CalmOp, Later,
                Checked, Reviewing, OneHolds, Running, Reads, ExtractedFor, Marked, CurrentAt, CurrentRows,
                SchemaFields, Op

LEMMA RequestsAreCalm ==
  ASSUME WorkInv, HistoryInv, Calm, Requests
  PROVE  Calm'
  <1>1. ASSUME NEW s \in Studies, Review(s) \/ Classify(s), UNCHANGED evidenceVars PROVE Calm'
    BY <1>1, HumanIsCalm DEF Review, Classify
  <1>. QED
    BY <1>1, StartIsCalm, RequestWhenIdleIsCalm, CorrectIsCalm DEF Requests

LEMMA WorkersAreCalm ==
  ASSUME WorkInv, HistoryInv, Calm, ~environment.overlap, Workers
  PROVE  Calm'
  <1>1. CASE EvidenceWorkflow
    BY <1>1, FirstStagesAreCalm, QuietWorkflowIsCalm, ValidateIsCalm DEF EvidenceWorkflow
  <1>2. ASSUME NEW a \in attempts, EvidenceWork(a) PROVE Calm'
    <2>1. CASE StoreEvidence(a)
      BY <2>1, StoreEvidenceIsCalm
    <2>2. CASE StoreReview(a)
      BY <2>2, StoreReviewIsCalm
    <2>. QED
      BY <1>2, <2>1, <2>2, TakeStudyIsCalm, TakeForReviewIsCalm, ReadOldRowsIsCalm DEF EvidenceWork
  <1>3. ASSUME NEW a \in attempts, RiskWork(a), UNCHANGED evidenceVars PROVE Calm'
    <2>1. CASE StoreAssessment(a)
      BY <1>3, <2>1, FinishedIsCalm DEF StoreAssessment, evidenceVars
    <2>. QED
      BY <1>3, <2>1, NumberTakenIsCalm, TakeToAssessIsCalm DEF RiskWork
  <1>4. ASSUME NEW a \in attempts, Ask(a) \/ Answer(a), UNCHANGED evidenceVars PROVE Calm'
    BY <1>4, AskIsCalm, AnswerIsCalm
  <1>. QED
    BY <1>1, <1>2, <1>3, <1>4, QuietWorkflowIsCalm, FinishIsCalm DEF Workers

LEMMA FailuresAreCalm ==
  ASSUME WorkInv, Calm, Failures
  PROVE  Calm'
  <1>1. ASSUME NEW a \in attempts, AgentFails(a), UNCHANGED evidenceVars PROVE Calm'
    BY <1>1, FinishedIsCalm DEF AgentFails, evidenceVars
  <1>. QED
    BY <1>1, AbortIsCalm, LoseIsCalm, LateEndsIsCalm DEF Failures

LEMMA EnvironmentStays ==
  ASSUME [Next]_vars
  PROVE  environment' = environment
  <1>1. CASE Requests
    BY <1>1 DEF Requests, Start, Revise, Parse, Correct, Review, Classify, ByHuman
  <1>2. CASE Workers
    BY <1>2 DEF Workers, EvidenceWorkflow, ResolveCorpus, EnsureSchema, PrepareBatch, Validate, CallReviewer,
                CallAssessor, Finish, EvidenceWork, TakeStudy, TakeForReview, ReadOldRows, StoreEvidence,
                StoreReview, RiskWork, StoreAssessment, NumberTaken, TakeToAssess, Ask, Answer
  <1>3. CASE Failures
    BY <1>3 DEF Failures, Abort, Lose, AgentFails, LateEnds
  <1>. QED
    BY <1>1, <1>2, <1>3 DEF Next, vars, workVars

EvidenceInv == WorkInv /\ HistoryInv /\ CalmInv

LEMMA StepKeepsEvidence ==
  ASSUME EvidenceInv, [Next]_vars
  PROVE  EvidenceInv'
  <1>1. WorkInv' /\ HistoryInv'
    BY StepKeepsWork, StepKeepsHistory DEF EvidenceInv
  <1>2. ASSUME ~environment.overlap PROVE Calm'
    <2>1. Calm /\ WorkInv /\ HistoryInv
      BY <1>2 DEF EvidenceInv, CalmInv
    <2>2. CASE UNCHANGED vars
      BY <2>1, <2>2 DEF vars, workVars, evidenceVars, Calm, CalmRows, CalmOps, CalmAttempts, Sound, OneCurrent,
                Whole, NotVerified, CalmOp, Later, Checked, Reviewing, OneHolds, Running, Reads, ExtractedFor,
                Marked, CurrentAt, CurrentRows, SchemaFields, Op
    <2>. QED
      BY <1>2, <2>1, <2>2, RequestsAreCalm, WorkersAreCalm, FailuresAreCalm DEF Next
  <1>3. CalmInv'
    BY <1>2, EnvironmentStays DEF CalmInv
  <1>. QED
    BY <1>1, <1>3 DEF EvidenceInv

LEMMA EvidenceInitHolds ==
  ASSUME Init
  PROVE  EvidenceInv
  <1>1. /\ protocol = 1 /\ readable \in Readable /\ ops = <<>> /\ attempts = {} /\ schemas = <<>>
        /\ history = [s \in Studies |-> [f \in Fields |-> <<>>]]
    BY DEF Init, WorkInit, EvidenceInit
  <1>2. OpsInv
    <2>1. protocol \in Protocols
      BY <1>1, IncludedAssumption DEF Protocols
    <2>. QED
      BY <1>1, <2>1, ReadableAssumption DEF OpsInv
  <1>3. AttemptsInv
    BY <1>1 DEF AttemptsInv, OneLive
  <1>4. \A s \in Studies, f \in Fields : history[s][f] = <<>>
    BY <1>1
  <1>5. HistoryInv
    <2>1. history \in [Studies -> [Fields -> Seq(Row)]]
      BY <1>1
    <2>. QED
      BY <1>4, <2>1 DEF HistoryInv, RowsOK
  <1>6. Calm
    <2>1. \A s \in Studies, f \in Fields : CurrentAt(s, f) = {} /\ DOMAIN history[s][f] = {}
      BY <1>4 DEF CurrentAt
    <2>2. CalmRows
      BY <2>1 DEF CalmRows, Sound, OneCurrent, Whole, NotVerified
    <2>. QED
      BY <1>1, <2>2 DEF Calm, CalmOps, CalmAttempts, OneHolds
  <1>. QED
    BY <1>2, <1>3, <1>5, <1>6 DEF EvidenceInv, WorkInv, CalmInv

-----------------------------------------------------------------------------
(* What is promised                                                        *)

\* Whatever humans review and however attempts of ended operations go on, an agent
\* appraises no study again with the tool of the latest assessment (assess_risk_of_bias).
THEOREM AgentsDoNotRepeat == Spec => []AppraisedOncePerTool
  <1>1. Inv => AppraisedOncePerTool
    BY DEF Inv
  <1>. QED
    BY <1>1, InitHolds, StepKeepsInv, PTL DEF Spec

LEMMA EvidenceAlways == Spec => []EvidenceInv
  BY EvidenceInitHolds, StepKeepsEvidence, PTL DEF Spec

\* Operations, schemas, rows and assessments keep the enumerations of enums.py, and a row
\* that is superseded points to a later one of its field (superseded_by).
THEOREM TypeCorrect == Spec => []TypeOK
  <1>1. EvidenceInv => schemas \in Seq(Protocols) /\ ops \in Seq(Operation)
    BY DEF EvidenceInv, WorkInv, OpsInv
  <1>2. EvidenceInv => EvidenceTypeOK
    BY <1>1 DEF EvidenceInv, HistoryInv, RowsOK, EvidenceTypeOK
  <1>3. Inv /\ EvidenceInv => TypeOK
    BY <1>1, <1>2 DEF Inv, EvidenceInv, WorkInv, OpsInv, TypeOK
  <1>4. Spec => []Inv
    BY InitHolds, StepKeepsInv, PTL DEF Spec
  <1>. QED
    BY <1>3, <1>4, EvidenceAlways, PTL

\* A study has one current value of a field, whatever is retried, for as long as no
\* attempt outlives its operation (extract_evidence_batch, correct_evidence).
THEOREM OneValuePerField == Spec => []CalmOneCurrentPerField
  <1>1. ASSUME EvidenceInv, ~environment.overlap, NEW s \in Studies, NEW f \in Fields
        PROVE  Cardinality(CurrentAt(s, f)) <= 1
    <2>1. PICK current : current = CurrentAt(s, f)
      OBVIOUS
    <2>2. \A i, j \in current : i = j
      BY <1>1, <2>1 DEF EvidenceInv, CalmInv, Calm, CalmRows, Sound, OneCurrent
    <2>3. current = {} \/ \E i : current = {i}
      BY <2>2
    <2>4. Cardinality(current) = 0 \/ Cardinality(current) = 1
      BY <2>3, FS_EmptySet, FS_Singleton
    <2>. QED
      BY <2>1, <2>4
  <1>2. EvidenceInv => CalmOneCurrentPerField
    BY <1>1 DEF CalmOneCurrentPerField, OneCurrentPerField
  <1>. QED
    BY <1>2, EvidenceAlways, PTL

\* As long as no attempt outlives its operation, a value that a human entered is replaced
\* only by a human, or by what is extracted for a newer schema (correct_evidence,
\* extract_evidence_batch); no retry of the schema it was entered for replaces it.
THEOREM HumansAreKept == Spec => CorrectionsStand
  <1>1. ASSUME EvidenceInv, [Next]_vars, ~environment.overlap, NEW s \in Studies, NEW f \in Fields,
               NEW i \in CurrentAt(s, f), ~history'[s][f][i].current
        PROVE  \E g \in Fields : LET new == history'[s][g][Len(history'[s][g])] IN
                 /\ Len(history'[s][g]) > Len(history[s][g])
                 /\ new.by = "human" \/ new.schema > history[s][f][i].schema
    <2>1. WorkInv /\ HistoryInv /\ Calm
      BY <1>1 DEF EvidenceInv, CalmInv
    <2>2. i \in DOMAIN history[s][f] /\ history[s][f][i].current
      BY DEF CurrentAt
    <2>3. history'[s] # history[s]
      BY <1>1, <2>2
    <2>4. ASSUME JudgedRowsOf(s) PROVE FALSE
      BY <1>1, <2>2, <2>4 DEF JudgedRowsOf, JudgedAs
    <2>5. ~Validate
      BY <2>1, <2>4, ValidateJudges DEF Judges, JudgedRowsOf
    <2>6. ASSUME NEW a \in attempts, StoreReview(a) PROVE FALSE
      <3>1. PICK t \in Studies : Reviews(a, t)
        BY <2>1, <2>6, StoreReviewReviews
      <3>. QED
        BY <2>3, <2>4, <3>1 DEF Reviews, OthersStay, JudgedRowsOf
    <2>7. ASSUME NEW t \in Studies, NEW g \in Fields, Correct(t, g)
          PROVE  \E h \in Fields : /\ Len(history'[s][h]) > Len(history[s][h])
                                   /\ history'[s][h][Len(history'[s][h])].by = "human"
      <3>1. Corrects(t, g)
        BY <2>1, <2>7, CorrectCorrects
      <3>2. t = s
        BY <2>3, <3>1 DEF Corrects, OthersStay
      <3>3. PICK j : CorrectedAs(history[s][g], history'[s][g], j)
        BY <3>1, <3>2 DEF Corrects
      <3>4. Len(history'[s][g]) = Len(history[s][g]) + 1 /\ history[s][g] \in Seq(Row)
        BY <2>1, <3>3 DEF CorrectedAs, HistoryInv
      <3>5. Len(history'[s][g]) > Len(history[s][g])
        BY <3>4, RowsOf
      <3>. QED
        BY <3>3, <3>5 DEF CorrectedAs
    <2>8. ASSUME NEW a \in attempts, StoreEvidence(a)
          PROVE  \E h \in Fields : /\ Len(history'[s][h]) > Len(history[s][h])
                                   /\ history'[s][h][Len(history'[s][h])].schema > history[s][f][i].schema
      <3>1. PICK t \in a.batch : t \in Studies /\ a.subject = {t} /\ Stores(a, t)
        BY <2>1, <2>8, StoreEvidenceStores
      <3>2. t = s
        BY <2>3, <3>1 DEF Stores, OthersStay
      <3>3. a.kind = "extract" /\ a.pc = "storing" /\ schemas' = schemas
        BY <2>8 DEF StoreEvidence
      <3>4. PICK n : /\ n = ops[a.op].schema /\ a.seen.rows = CurrentRows(s) /\ ~ExtractedFor(n, s)
                     /\ a.op = Len(ops) /\ ops[a.op] = Op
        BY <2>1, <3>1, <3>2, <3>3, StoringReads
      <3>5. NotVerified(s)
        BY <2>1 DEF Calm, CalmRows, Sound
      <3>6. PICK h \in Fields : Len(history'[s][h]) > Len(history[s][h]) /\ history'[s][h][Len(history'[s][h])].schema = n
        BY <2>1, <3>1, <3>2, <3>3, <3>4, <3>5, StoredStudy
      <3>7. n = Len(schemas) /\ n \in Nat
        <4>1. n \in 1..Len(schemas) /\ n # 0
          BY <2>1, <3>3, <3>4, SchemaKnown
        <4>2. OpOK(a.op)
          BY <2>1, ShapeKnown DEF WorkInv, OpsInv, Place
        <4>. QED
          BY <3>4, <4>1, <4>2 DEF OpOK
      <3>8. history[s][f][i].schema \in 1..n
        BY <2>1, <2>2, <3>7 DEF HistoryInv, RowsOK
      <3>9. history[s][f][i].schema # n
        BY <3>4 DEF ExtractedFor
      <3>. QED
        BY <3>6, <3>7, <3>8, <3>9
    <2>. QED
      BY <1>1, <2>3, <2>5, <2>6, <2>7, <2>8, StepsOfHistory
  <1>. DEFINE Kept == ~environment.overlap => \A s \in Studies, f \in Fields : \A i \in CurrentAt(s, f) :
                 history[s][f][i].by = "human" /\ ~history'[s][f][i].current =>
                   \E g \in Fields : LET new == history'[s][g][Len(history'[s][g])] IN
                     /\ Len(history'[s][g]) > Len(history[s][g])
                     /\ new.by = "human" \/ new.schema > history[s][f][i].schema
  <1>2. EvidenceInv /\ [Next]_vars => [Kept]_<<workVars, evidenceVars>>
    BY <1>1
  <1>3. CorrectionsStand <=> [][Kept]_<<workVars, evidenceVars>>
    BY DEF CorrectionsStand
  <1>. QED
    BY <1>2, <1>3, EvidenceAlways, PTL DEF Spec

\* Only finish_operation ends an operation.
LEMMA OnlyFinishEnds ==
  ASSUME WorkInv, [Next]_vars, NEW o \in DOMAIN ops, ops[o].status # "COMPLETED", ops'[o].status = "COMPLETED"
  PROVE  Finish /\ o = Len(ops) /\ Op.stage = "FINISH"
  <1>1. ops # <<>> /\ ops \in Seq(Operation) /\ o \in 1..Len(ops) /\ Len(ops) \in Nat
    BY DEF WorkInv, OpsInv
  <1>2. ASSUME NEW stage \in Stages, Enter(stage) PROVE FALSE
    BY <1>1, <1>2, Entered
  <1>3. ASSUME NEW a \in attempts, NEW s \in Studies, Attempted(a, s) PROVE FALSE
    BY <1>1, <1>3, ShapeKnown, StudyAttempted DEF Place
  <1>4. ~UNCHANGED ops
    OBVIOUS
  <1>6. CASE Requests
    <2>1. ASSUME NEW type, Start(type) PROVE FALSE
      BY <1>1, <2>1 DEF Start
    <2>. QED
      BY <1>4, <1>6, <2>1 DEF Requests, Revise, Parse, Correct, Review, Classify, ByHuman
  <1>7. CASE EvidenceWorkflow
    <2>. DEFINE last == ops[Len(ops)]
    <2>. PICK l : l = last /\ l \in Operation
      BY <1>1
    <2>1. ASSUME ResolveCorpus PROVE FALSE
      <3>1. PICK new : new = [l EXCEPT !.corpus = Included[protocol], !.stage = "SCHEMA"]
        OBVIOUS
      <3>2. new.status = l.status /\ ops' = [ops EXCEPT ![Len(ops)] = new]
        BY <2>1, <3>1 DEF ResolveCorpus, Operation
      <3>. QED
        BY <1>1, <3>2
    <2>2. ASSUME EnsureSchema PROVE FALSE
      <3>1. PICK n, new : new = [l EXCEPT !.schema = n, !.stage = "PREPARE"] /\ ops' = [ops EXCEPT ![Len(ops)] = new]
        BY <2>2 DEF EnsureSchema
      <3>2. new.status = l.status
        BY <3>1 DEF Operation
      <3>. QED
        BY <1>1, <3>1, <3>2
    <2>. QED
      BY <1>2, <1>7, <2>1, <2>2 DEF EvidenceWorkflow, PrepareBatch, Validate, CallReviewer, Call, Stages
  <1>8. CASE CallAssessor
    BY <1>2, <1>8 DEF CallAssessor, Call, Stages
  <1>9. ASSUME NEW a \in attempts, EvidenceWork(a) \/ RiskWork(a) \/ Ask(a) \/ Answer(a) PROVE FALSE
    <2>1. CASE EvidenceWork(a)
      <3>1. ~StoreEvidence(a)
        BY <1>3, ShapeKnown, StoreEvidenceMoves
      <3>2. ASSUME NEW s \in Studies, TakeStudy(a, s) PROVE FALSE
        BY <1>3, <1>4, <3>2 DEF TakeStudy
      <3>. QED
        BY <1>4, <2>1, <3>1, <3>2 DEF EvidenceWork, TakeForReview, ReadOldRows, StoreReview
    <2>2. CASE RiskWork(a)
      BY <1>2, <1>4, <2>2 DEF RiskWork, StoreAssessment, NumberTaken, Retry, TakeToAssess, Stages
    <2>3. CASE Ask(a) \/ Answer(a)
      BY <1>2, <1>4, <2>3 DEF Ask, Answer, AfterCall, Stages
    <2>. QED
      BY <1>9, <2>1, <2>2, <2>3
  <1>10. CASE Failures
    BY <1>2, <1>4, <1>10 DEF Failures, Abort, Lose, Retry, AgentFails, LateEnds, Stages
  <1>11. Finish
    BY <1>4, <1>6, <1>7, <1>8, <1>9, <1>10 DEF Next, Workers, vars, workVars
  <1>. QED
    BY <1>1, <1>11 DEF Finish, Op

\* An extraction is only COMPLETED when every study of its corpus with a text has a
\* current value for each field of its schema (EvidenceExtractionWorkflow, finish_operation).
THEOREM CompletedIsWhole == Spec => CompletedMeansExtracted
  <1>1. ASSUME EvidenceInv, [Next]_vars, NEW o \in DOMAIN ops, ~environment.overlap, ops[o].type = "extraction",
               ops[o].status # "COMPLETED", ops'[o].status = "COMPLETED", NEW s \in ops[o].corpus \cap readable
        PROVE  {f \in Fields : CurrentAt(s, f) # {}} = SchemaFields(ops[o].schema)
    <2>1. WorkInv /\ HistoryInv /\ Calm
      BY <1>1 DEF EvidenceInv, CalmInv
    <2>2. Finish /\ o = Len(ops) /\ Op.stage = "FINISH" /\ Op = ops[o]
      BY <1>1, <2>1, OnlyFinishEnds DEF Op
    <2>3. Op.status = "RUNNING" /\ ops # <<>> /\ HasSchema(o)
      BY <1>1, <2>1, <2>2 DEF WorkInv, OpsInv, OpOK, Op
    <2>4. CalmOp /\ Later
      BY <1>1, <2>1, <2>2, <2>3 DEF Calm, CalmOps, Later
    <2>5. ExtractedFor(Op.schema, s)
      BY <2>2, <2>4 DEF CalmOp
    <2>6. PICK f \in Fields : \E i \in CurrentAt(s, f) : history[s][f][i].schema = Op.schema
      BY <2>5 DEF ExtractedFor
    <2>7. s \in Studies /\ Whole(s)
      <3>1. ops[o] \in Operation
        BY <1>1, <2>1 DEF WorkInv, OpsInv
      <3>. QED
        BY <2>1, <3>1 DEF Operation, Calm, CalmRows, Sound
    <2>8. \A g \in Fields : g \in SchemaFields(Op.schema) <=> CurrentAt(s, g) # {}
      BY <2>6, <2>7 DEF Whole
    <2>9. SchemaFields(Op.schema) \subseteq Fields
      <3>1. schemas[Op.schema] \in Protocols
        BY <2>1, <2>2, <2>3 DEF HasSchema, WorkInv, OpsInv
      <3>. QED
        BY <3>1, FieldsAssumption DEF SchemaFields
    <2>. QED
      BY <2>2, <2>8, <2>9
  <1>. DEFINE Completes == \A o \in DOMAIN ops :
         ~environment.overlap /\ ops[o].type = "extraction" /\ ops[o].status # "COMPLETED" /\ ops'[o].status = "COMPLETED" =>
           \A s \in ops[o].corpus \cap readable :
             {f \in Fields : CurrentAt(s, f) # {}} = SchemaFields(ops[o].schema)
  <1>2. EvidenceInv /\ [Next]_vars => [Completes]_<<workVars, evidenceVars>>
    BY <1>1
  <1>3. CompletedMeansExtracted <=> [][Completes]_<<workVars, evidenceVars>>
    BY DEF CompletedMeansExtracted
  <1>. QED
    BY <1>2, <1>3, EvidenceAlways, PTL DEF Spec

=============================================================================

------------------------------- MODULE Appraisal -------------------------------
(***************************************************************************)
(* The included studies under extraction and appraisal: two kinds of       *)
(* operation of one project, of which one runs at a time, on the same      *)
(* studies, while humans correct, review and classify.                     *)
(***************************************************************************)
EXTENDS Evidence, RiskOfBias

vars == <<workVars, evidenceVars, riskVars>>

Init == WorkInit /\ EvidenceInit /\ RiskInit

Requests ==
  \/ \E type \in {"extraction", "risk_of_bias"} : Start(type) /\ UNCHANGED <<evidenceVars, riskVars>>
  \/ (Revise \/ \E s \in Studies : Parse(s)) /\ UNCHANGED <<evidenceVars, riskVars>>
  \/ \E s \in Studies, f \in Fields : Correct(s, f) /\ UNCHANGED riskVars
  \/ \E s \in Studies : (Review(s) \/ Classify(s)) /\ UNCHANGED evidenceVars

Workers ==
  \/ EvidenceWorkflow /\ UNCHANGED riskVars
  \/ CallAssessor /\ UNCHANGED evidenceVars
  \/ Finish /\ UNCHANGED <<evidenceVars, riskVars>>
  \/ \E a \in attempts :
       \/ EvidenceWork(a) /\ UNCHANGED riskVars
       \/ RiskWork(a) /\ UNCHANGED evidenceVars
       \/ (Ask(a) \/ Answer(a)) /\ UNCHANGED <<evidenceVars, riskVars>>

Failures ==
  /\ Abort \/ \E a \in attempts : Lose(a) \/ AgentFails(a) \/ LateEnds(a)
  /\ UNCHANGED <<evidenceVars, riskVars>>

Next == Requests \/ Workers \/ Failures

Spec == Init /\ [][Next]_vars

-----------------------------------------------------------------------------
(* Properties                                                              *)

\* Operations, values and assessments have the columns that the code gives them.
TypeOK ==
  /\ ops \in Seq(Operation) /\ protocol \in Protocols /\ readable \subseteq Studies
  /\ EvidenceTypeOK /\ RiskTypeOK

=============================================================================

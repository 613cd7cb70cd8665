------------------------------- MODULE RiskOfBias -------------------------------
(***************************************************************************)
(* Appraisal of the included studies: assess_risk_of_bias proposes an      *)
(* assessment with the tool for the study's design, humans review it and   *)
(* change the design.  Assessments are numbered versions, and a unique     *)
(* index on study and version settles who was first.                       *)
(***************************************************************************)
EXTENDS StudyWork

CONSTANTS Designs   \* the designs a human may give a study
Design == {"RCT", "QUASI_EXPERIMENTAL", "OTHER"}

ASSUME DesignsAssumption == Designs \subseteq Design /\ Designs # {}

VARIABLES
  design,       \* study_type
  assessments   \* assessments[s]: the versions of the assessment of s

riskVars == <<design, assessments>>

Assessment == [tool : {"ROB_2", "ROBINS_I"}, by : {"agent", "human"},
               status : {"PROPOSED", "NEEDS_REVIEW", "APPROVED"}]

\* The designs are classified before the first operation; OTHER is the default.
RiskInit ==
  /\ design = [s \in Studies |-> "RCT"]
  /\ assessments = [s \in Studies |-> <<>>]

SelectTool(d) ==
  CASE d = "RCT" -> "ROB_2" [] d = "QUASI_EXPERIMENTAL" -> "ROBINS_I" [] OTHER -> "none"

Latest(s) ==
  IF assessments[s] = <<>> THEN [version |-> 0, tool |-> "none"]
  ELSE [version |-> Len(assessments[s]), tool |-> assessments[s][Len(assessments[s])].tool]

\* The corpus is read first, in a transaction of its own.
CallAssessor ==
  /\ Current("risk_of_bias", "CORPUS")
  /\ Call("assess", Included[protocol])
  /\ UNCHANGED <<protocol, readable, environment, human, faults, riskVars>>

\* No tool for the design, an assessment with the tool exists, or there is no text.
NothingToAssess(s) ==
  SelectTool(design[s]) \in {"none", Latest(s).tool} \/ s \notin readable

TakeToAssess(a, s) ==
  /\ a.kind = "assess" /\ MayTake(a, s)
  /\ IF NothingToAssess(s) THEN Skip(a, s)
     ELSE Take(a, s, [NothingSeen EXCEPT !.version = Latest(s).version, !.tool = SelectTool(design[s])])
  /\ UNCHANGED <<protocol, readable, ops, environment, human, faults, riskVars>>

\* Mutation of NumberIsFree: the index does not cover the version.
NumberIsAlwaysFree(a, s) == TRUE

\* The unique index.
NumberIsFree(a, s) == Len(assessments[s]) = a.seen.version

StoreAssessment(a) ==
  /\ a.kind = "assess" /\ a.pc = "asking"
  /\ \E s \in a.subject, status \in {"PROPOSED", "NEEDS_REVIEW"} :
       /\ NumberIsFree(a, s)
       /\ assessments' = [assessments EXCEPT ![s] =
            Append(@, [tool |-> a.seen.tool, by |-> "agent", status |-> status])]
  /\ Replace(a, Finished(a))
  /\ UNCHANGED <<protocol, readable, ops, environment, human, faults, design>>

\* The number was taken since it was read: the transaction aborts, and the attempt fails.
NumberTaken(a) ==
  /\ a.kind = "assess" /\ a.pc = "asking"
  /\ \E s \in a.subject : ~NumberIsFree(a, s)
  /\ Retry(a, {})
  /\ UNCHANGED <<protocol, readable, environment, human, faults, riskVars>>

\* review_assessment: quotes need a text.
Review(s) ==
  /\ ByHuman
  /\ SelectTool(design[s]) # "none" /\ s \in Included[protocol] \cap readable
  /\ assessments' = [assessments EXCEPT ![s] =
       Append(@, [tool |-> SelectTool(design[s]), by |-> "human", status |-> "APPROVED"])]
  /\ UNCHANGED design

\* update_study: the design, with a reason.
Classify(s) ==
  /\ ByHuman
  /\ \E d \in Designs \ {design[s]} : design' = [design EXCEPT ![s] = d]
  /\ UNCHANGED assessments

RiskWork(a) == StoreAssessment(a) \/ NumberTaken(a) \/ \E s \in Studies : TakeToAssess(a, s)

-----------------------------------------------------------------------------
(* Properties                                                              *)

RiskTypeOK ==
  /\ design \in [Studies -> Design]
  /\ assessments \in [Studies -> Seq(Assessment)]

\* An agent never proposes over the latest assessment of a study, a human's above all,
\* when it was made with the same tool; not even an attempt that outlived its operation.
AppraisedOncePerTool ==
  \A s \in Studies : \A v \in DOMAIN assessments[s] :
    v > 1 /\ assessments[s][v].by = "agent" => assessments[s][v - 1].tool # assessments[s][v].tool

=============================================================================

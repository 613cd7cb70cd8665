-------------------------------- MODULE Synthesis --------------------------------
(***************************************************************************)
(* From evidence to a manuscript that can be written: the first stages of  *)
(* ManuscriptGenerationWorkflow check that the project is ready, generate  *)
(* a synthesis, build and verify claims, plan the sections and prepare the *)
(* first version.  Each stage is one activity and one transaction; what a  *)
(* stage made is noted in the details of the operation, so that its retry  *)
(* finds it.  An operation of one kind ends early or makes its stage anew, *)
(* and the others reuse what the project has.  Syntheses are numbered for  *)
(* each research question; a new research plan brings a new question.      *)
(*                                                                         *)
(* A stage reads the tables first and shares the project with the row of   *)
(* its first agent run (StudyWork): what humans do to the evidence and to  *)
(* the synthesis comes before that or after the stage, and may come        *)
(* between its reading and its agents.                                     *)
(* What the manuscript becomes is the subject of ManuscriptReview.         *)
(***************************************************************************)
EXTENDS Integers, Sequences, FiniteSets

CONSTANTS
  Values,       \* the fields of the studies that have evidence
  Candidates,   \* how many claims the builder may propose
  Retries,      \* RETRY.maximum_attempts
  Late,         \* may an attempt that timed out go on?
  MaxOps, MaxHuman, MaxFaults   \* bounds: operations, corrections with approvals and plans, failures

ASSUME ValuesAssumption == IsFiniteSet(Values) /\ Values # {}
ASSUME SynthesisBoundsAssumption ==
  /\ Candidates \subseteq Nat \ {0} /\ Retries \in Nat \ {0} /\ Late \in BOOLEAN
  /\ MaxOps \in Nat /\ MaxHuman \in Nat /\ MaxFaults \in Nat

VARIABLES
  questions,    \* the primary research questions so far: the last one is the current one
  complete,     \* is the review before the synthesis complete?
  evidence,     \* the current row of a value: which one it is, and its verification
  syntheses,    \* the syntheses, oldest first
  claims,       \* the claims, oldest first
  plans,        \* the versions of the manuscript plan
  manuscripts,  \* the manuscripts, by their plans
  ops,          \* the operations, oldest first
  attempts,     \* the attempts of activities that workers have
  human, faults

artifacts == <<syntheses, claims, plans, manuscripts>>
vars == <<questions, complete, evidence, artifacts, ops, attempts, human, faults>>

Kinds == {"synthesis", "claims", "manuscript_plan", "manuscript"}
Verifications == {"UNVERIFIED", "VERIFIED", "PARTIAL", "CONFLICT"}

\* A row of evidence is a value and its number.
Rows == Values \X (Nat \ {0})

SynthesisRow == [question : Nat, version : Nat,
                 status : {"GENERATED", "APPROVED", "SUPERSEDED"}, evidence : SUBSET Rows]

\* synthesis: that of the finding which the claim names, 0 if it names none.
Claim == [synthesis : Nat, cites : SUBSET Rows, verified : BOOLEAN]

Stages == <<"READINESS", "SYNTHESIS", "CLAIMS", "PLANNING", "PREPARE", "FINISH">>

\* question, synthesis, claims, plan, manuscript: the ids in details.
Operation == [kind : Kinds, status : {"RUNNING", "COMPLETED", "PARTIAL"},
              stage : 1..Len(Stages) \cup {0},
              question : Nat, synthesis : Nat, claims : SUBSET Nat, plan : Nat, manuscript : Nat]

\* rows: the evidence that was read.  missed (history): the values corrected after
\* that and before the agent was asked.  number: the highest version in the table.
\* active: the syntheses to replace.
NothingRead == [rows |-> {}, missed |-> {}, number |-> 0, active |-> {}]

NewAttempt(o, stage, n) ==
  [op |-> o, stage |-> stage, n |-> n, live |-> TRUE, pc |-> "idle", read |-> NothingRead]

Init ==
  /\ questions = 1 /\ complete = TRUE
  /\ evidence = [v \in Values |-> [row |-> 1, verification |-> "VERIFIED"]]
  /\ syntheses = <<>> /\ claims = <<>> /\ plans = <<>> /\ manuscripts = <<>>
  /\ ops = <<>> /\ attempts = {} /\ human = 0 /\ faults = 0

-----------------------------------------------------------------------------
(* Reading the tables                                                      *)

Idle == \A o \in DOMAIN ops : ops[o].status # "RUNNING"
Op == ops[Len(ops)]

\* An attempt that has read its operation holds the row of it.
Busy(o) == \E a \in attempts : a.op = o /\ a.pc \in {"reading", "asking", "storing"}

\* An attempt holds the project KEY SHARE.
Asking == \E a \in attempts : a.pc \in {"asking", "storing"}

CurrentRows == {<<v, evidence[v].row>> : v \in Values}

\* Syntheses that are not SUPERSEDED.
Active == {i \in DOMAIN syntheses : syntheses[i].status # "SUPERSEDED"}

OfQuestion(q) == {i \in DOMAIN syntheses : syntheses[i].question = q}
Versions(q) == {syntheses[i].version : i \in OfQuestion(q)}

\* What get_synthesis shows and operations reuse: the highest version of any question,
\* either one of two with the same number.
Shown == {i \in Active : \A j \in Active : syntheses[j].version <= syntheses[i].version}

\* The highest of some numbers, 0 for none.
Latest(numbers) == IF numbers = {} THEN 0 ELSE CHOOSE n \in numbers : \A m \in numbers : m <= n

\* What validate_manuscript_readiness asks: no blocker of the review, and a value
\* that was verified.
Ready == complete /\ \E v \in Values : evidence[v].verification \in {"VERIFIED", "PARTIAL"}

-----------------------------------------------------------------------------
(* Requests and other operations                                           *)

Start(kind) ==
  /\ Idle /\ ~Asking /\ Len(ops) < MaxOps
  /\ ops' = Append(ops, [kind |-> kind, status |-> "RUNNING", stage |-> 1,
                         question |-> 0, synthesis |-> 0, claims |-> {}, plan |-> 0, manuscript |-> 0])
  /\ UNCHANGED <<questions, complete, evidence, artifacts, attempts, human, faults>>

ByHuman == ~Asking /\ human < MaxHuman /\ human' = human + 1

\* correct_evidence, also during an operation.
Correct(v) ==
  /\ ByHuman
  /\ evidence' = [evidence EXCEPT ![v] = [row |-> @.row + 1, verification |-> "UNVERIFIED"]]
  /\ attempts' = {IF a.pc = "reading" THEN [a EXCEPT !.read.missed = @ \cup {v}] ELSE a : a \in attempts}
  /\ UNCHANGED <<questions, complete, artifacts, ops, faults>>

\* approve_synthesis, also during an operation.
Approve(i) ==
  /\ ByHuman /\ i \in Active
  /\ syntheses' = [syntheses EXCEPT ![i].status = "APPROVED"]
  /\ UNCHANGED <<questions, complete, evidence, claims, plans, manuscripts, ops, attempts, faults>>

\* Evidence is reviewed again, and the review is left or completed, by operations
\* of their own, as long as there is a next one (MaxOps) that asks for either.
OtherOperations ==
  /\ Idle /\ ~Asking /\ Len(ops) < MaxOps
  /\ \/ /\ \E v \in Values : /\ evidence[v].verification = "UNVERIFIED"
                             /\ \E result \in {"VERIFIED", "CONFLICT"} :
                                  evidence' = [evidence EXCEPT ![v].verification = result]
        /\ UNCHANGED complete
     \/ complete' = ~complete /\ UNCHANGED evidence
  /\ UNCHANGED <<questions, artifacts, ops, attempts, human, faults>>

\* generate_research_artifact, on command: a plan with a primary question of its own.
\* A late attempt of that activity may commit during another operation.
Replan ==
  /\ human < MaxHuman /\ human' = human + 1
  /\ questions' = questions + 1
  /\ UNCHANGED <<complete, evidence, artifacts, ops, attempts, faults>>

-----------------------------------------------------------------------------
(* The workflow                                                            *)

\* The stages of an operation: the others end with that of their kind.
LastStage(kind) ==
  CASE kind = "synthesis" -> 2 [] kind = "claims" -> 3 [] kind = "manuscript_plan" -> 4
    [] kind = "manuscript" -> 5

AfterStage(o) == IF ops[o].stage = LastStage(ops[o].kind) THEN Len(Stages) ELSE ops[o].stage + 1

Call ==
  /\ ~Idle /\ Op.stage \in 1..Len(Stages) - 1
  /\ ~\E a \in attempts : a.op = Len(ops) /\ a.live
  /\ attempts' = attempts \cup {NewAttempt(Len(ops), Op.stage, 1)}
  /\ UNCHANGED <<questions, complete, evidence, artifacts, ops, human, faults>>

\* The answer of an activity arrives.
Answer(a) ==
  /\ a.live /\ a.pc = "done"
  /\ attempts' = attempts \ {a}
  /\ ops' = [ops EXCEPT ![a.op].stage = AfterStage(a.op)]
  /\ UNCHANGED <<questions, complete, evidence, artifacts, human, faults>>

\* finish_operation, in either branch: stage 0 is where an error leads to.
Finish ==
  /\ ~Idle /\ Op.stage \in {0, Len(Stages)} /\ ~Busy(Len(ops))
  /\ ops' = [ops EXCEPT ![Len(ops)].status = IF Op.stage = 0 THEN "PARTIAL" ELSE "COMPLETED"]
  /\ UNCHANGED <<questions, complete, evidence, artifacts, attempts, human, faults>>

-----------------------------------------------------------------------------
(* Transactions of the activities                                          *)

At(a, stage, pc) == Stages[a.stage] = stage /\ a.pc = pc
Move(a, b) == attempts' = (attempts \ {a}) \cup {b}
Begins(a, stage) == At(a, stage, "idle") /\ ~Busy(a.op)
Reads(a, rows) == Move(a, [a EXCEPT !.pc = "reading", !.read.rows = rows])
Done(a) == Move(a, [a EXCEPT !.pc = "done", !.read = NothingRead])

\* The workflow of a live attempt ends PARTIAL, without a retry.
Raises(a) ==
  /\ attempts' = attempts \ {a}
  /\ ops' = IF a.live THEN [ops EXCEPT ![a.op].stage = 0] ELSE ops

CheckReadiness(a) ==
  /\ Begins(a, "READINESS")
  /\ IF Ready THEN Done(a) /\ ops' = [ops EXCEPT ![a.op].question = questions] ELSE Raises(a)
  /\ UNCHANGED <<questions, complete, evidence, artifacts, human, faults>>

\* The row of the first agent run refers to the project.
AsksAgent(a) ==
  /\ a.pc = "reading"
  /\ Move(a, [a EXCEPT !.pc = "asking"])
  /\ UNCHANGED <<questions, complete, evidence, artifacts, ops, human, faults>>

\* generate_synthesis, up to the agent.  What the operation has made is used again,
\* and what the project has, unless a synthesis was asked for.
BeginSynthesis(a) ==
  /\ Begins(a, "SYNTHESIS")
  /\ IF ops[a.op].synthesis # 0 THEN Done(a) /\ UNCHANGED ops
     ELSE IF ops[a.op].kind # "synthesis" /\ Active # {}
       THEN Done(a) /\ \E i \in Shown : ops' = [ops EXCEPT ![a.op].synthesis = i]
       ELSE Reads(a, CurrentRows) /\ UNCHANGED ops
  /\ UNCHANGED <<questions, complete, evidence, artifacts, human, faults>>

\* The highest version and the syntheses to replace are read after the agent
\* answered: those of the operation's question.
ReadVersions(a) ==
  LET q == ops[a.op].question IN
  /\ \/ /\ At(a, "SYNTHESIS", "asking")
        /\ Move(a, [a EXCEPT !.pc = "storing", !.read.active = Active \cap OfQuestion(q),
                             !.read.number = Latest(Versions(q))])
     \/ /\ At(a, "PLANNING", "asking")
        /\ Move(a, [a EXCEPT !.pc = "storing", !.read.number = Len(plans)])
  /\ UNCHANGED <<questions, complete, evidence, artifacts, ops, human, faults>>

\* Mutation of NumberIsFree: versions are not unique.
NumberIsAlwaysFree(a) == TRUE

\* The unique constraints on the versions of a question's synthesis and of the plan.
NumberIsFree(a) ==
  IF Stages[a.stage] = "SYNTHESIS" THEN a.read.number + 1 \notin Versions(ops[a.op].question)
  ELSE a.read.number = Len(plans)

\* The syntheses with the one of attempt a, which replaces those it has read.
WithSynthesis(a) ==
  Append([i \in DOMAIN syntheses |-> IF i \in a.read.active
                                     THEN [syntheses[i] EXCEPT !.status = "SUPERSEDED"]
                                     ELSE syntheses[i]],
         [question |-> ops[a.op].question, version |-> a.read.number + 1,
          status |-> "GENERATED", evidence |-> a.read.rows])

\* Mutation of StoreSynthesis: the details are left to the next transaction.
StoreSynthesisUnnoted(a) ==
  /\ At(a, "SYNTHESIS", "storing") /\ NumberIsFree(a)
  /\ syntheses' = WithSynthesis(a)
  /\ Move(a, [a EXCEPT !.pc = "idle", !.read = NothingRead])
  /\ UNCHANGED <<questions, complete, evidence, claims, plans, manuscripts, ops, human, faults>>

StoreSynthesis(a) ==
  /\ At(a, "SYNTHESIS", "storing") /\ NumberIsFree(a)
  /\ syntheses' = WithSynthesis(a)
  /\ ops' = [ops EXCEPT ![a.op].synthesis = Len(syntheses) + 1]
  /\ Done(a)
  /\ UNCHANGED <<questions, complete, evidence, claims, plans, manuscripts, human, faults>>

\* Mutation of Reusable: claims that were rejected are used again, too.
ReusableAll(o) == {i \in DOMAIN claims : claims[i].synthesis = ops[o].synthesis}

\* The verified claims of the operation's synthesis.
Reusable(o) == {i \in DOMAIN claims : claims[i].verified /\ claims[i].synthesis = ops[o].synthesis}

\* Mutation of ClaimContext: the claims are built from what the synthesis was built from.
ClaimContextOf(o) == syntheses[ops[o].synthesis].evidence

\* _evidence_context, read again for the claims.
ClaimContext(o) == CurrentRows

\* build_and_verify_claims, up to the agents.
BeginClaims(a) ==
  LET reused == IF ops[a.op].kind \in {"claims", "synthesis"} THEN {} ELSE Reusable(a.op) IN
  /\ Begins(a, "CLAIMS")
  /\ IF ops[a.op].claims # {} THEN Done(a) /\ UNCHANGED ops
     ELSE IF reused # {} THEN Done(a) /\ ops' = [ops EXCEPT ![a.op].claims = reused]
     ELSE Reads(a, ClaimContext(a.op)) /\ UNCHANGED ops
  /\ UNCHANGED <<questions, complete, evidence, artifacts, human, faults>>

\* What validate_claims and validate_claim_review let pass: rows that were supplied,
\* and any finding of the database.
Proposals(a) ==
  [synthesis : 0..Len(syntheses), cites : (SUBSET a.read.rows) \ {{}}, verified : BOOLEAN]

\* The claims of an answer: nothing depends on their order, so that those the reviewer
\* accepts come first.
Batches(a, n) ==
  {proposed \in [1..n -> Proposals(a)] :
     \A i, j \in 1..n : i < j /\ proposed[j].verified => proposed[i].verified}

\* The claims, those that the reviewer rejected included; the details name the others.
StoreClaims(a) ==
  /\ At(a, "CLAIMS", "asking")
  /\ \E n \in Candidates : \E proposed \in Batches(a, n) :
       LET accepted == {Len(claims) + i : i \in {j \in 1..n : proposed[j].verified}} IN
       IF accepted = {} THEN Raises(a) /\ UNCHANGED claims
       ELSE /\ claims' = claims \o proposed
            /\ ops' = [ops EXCEPT ![a.op].claims = accepted]
            /\ Done(a)
  /\ UNCHANGED <<questions, complete, evidence, syntheses, plans, manuscripts, human, faults>>

\* Mutation of PlanFits: the latest plan is used again, and nobody asks if there is one.
PlanFitsAlways(o) == TRUE

\* The latest plan is one of the operation's claims.
PlanFits(o) == plans # <<>> /\ plans[Len(plans)] = ops[o].claims

\* create_manuscript_plan, up to the agent.
BeginPlan(a) ==
  /\ Begins(a, "PLANNING")
  /\ IF ops[a.op].plan # 0 THEN Done(a) /\ UNCHANGED ops
     ELSE IF ops[a.op].kind = "manuscript" /\ PlanFits(a.op)
       THEN Done(a) /\ ops' = [ops EXCEPT ![a.op].plan = Len(plans)]
       ELSE Reads(a, {}) /\ UNCHANGED ops
  /\ UNCHANGED <<questions, complete, evidence, artifacts, human, faults>>

\* The planner gives some of the claims a section.
StorePlan(a) ==
  /\ At(a, "PLANNING", "storing") /\ NumberIsFree(a)
  /\ \E planned \in SUBSET ops[a.op].claims : plans' = Append(plans, planned)
  /\ ops' = [ops EXCEPT ![a.op].plan = Len(plans) + 1]
  /\ Done(a)
  /\ UNCHANGED <<questions, complete, evidence, syntheses, claims, manuscripts, human, faults>>

\* prepare_manuscript: the manuscript, its first version and its sections.
PrepareManuscript(a) ==
  /\ Begins(a, "PREPARE")
  /\ IF ops[a.op].manuscript # 0 THEN UNCHANGED <<manuscripts, ops>>
     ELSE /\ manuscripts' = Append(manuscripts, ops[a.op].plan)
          /\ ops' = [ops EXCEPT ![a.op].manuscript = Len(manuscripts) + 1]
  /\ Done(a)
  /\ UNCHANGED <<questions, complete, evidence, syntheses, claims, plans, human, faults>>

-----------------------------------------------------------------------------
(* Failures                                                                *)

\* An attempt is retried, or was the last one and the workflow ends PARTIAL.
Fails(a, rest) ==
  LET more == a.live /\ a.n < Retries IN
  /\ attempts' = (attempts \ {a}) \cup rest
                   \cup IF more THEN {NewAttempt(a.op, a.stage, a.n + 1)} ELSE {}
  /\ ops' = IF a.live /\ ~more THEN [ops EXCEPT ![a.op].stage = 0] ELSE ops

\* The worker dies, the answer is lost, the database refuses a claim with a finding
\* that does not exist, or the attempt times out and may go on.
Lose(a) ==
  /\ a.live /\ faults < MaxFaults
  /\ faults' = faults + 1
  /\ \E rest \in {{}, IF Late /\ a.pc # "done" THEN {[a EXCEPT !.live = FALSE]} ELSE {}} : Fails(a, rest)
  /\ UNCHANGED <<questions, complete, evidence, artifacts, human>>

\* The agent's output stays invalid, which is not retried.
AgentFails(a) ==
  /\ a.pc = "asking"
  /\ Raises(a)
  /\ UNCHANGED <<questions, complete, evidence, artifacts, human, faults>>

\* Another transaction took the version.
NumberTaken(a) ==
  /\ a.pc = "storing" /\ ~NumberIsFree(a)
  /\ Fails(a, {})
  /\ UNCHANGED <<questions, complete, evidence, artifacts, human, faults>>

LateEnds(a) ==
  /\ ~a.live /\ attempts' = attempts \ {a}
  /\ UNCHANGED <<questions, complete, evidence, artifacts, ops, human, faults>>

-----------------------------------------------------------------------------
Work(a) ==
  \/ CheckReadiness(a) \/ AsksAgent(a) \/ BeginSynthesis(a) \/ ReadVersions(a) \/ StoreSynthesis(a)
  \/ BeginClaims(a) \/ StoreClaims(a) \/ BeginPlan(a) \/ StorePlan(a) \/ PrepareManuscript(a)
  \/ Answer(a) \/ NumberTaken(a) \/ LateEnds(a)

Next ==
  \/ \E kind \in Kinds : Start(kind)
  \/ \E v \in Values : Correct(v)
  \/ \E i \in DOMAIN syntheses : Approve(i)
  \/ OtherOperations \/ Replan \/ Call \/ Finish
  \/ \E a \in attempts : Work(a) \/ Lose(a) \/ AgentFails(a)

Spec == Init /\ [][Next]_vars

-----------------------------------------------------------------------------
(* Properties                                                              *)

\* Plans name claims that exist, and manuscripts plans that exist.
TypeOK ==
  /\ syntheses \in Seq(SynthesisRow) /\ claims \in Seq(Claim)
  /\ plans \in Seq(SUBSET DOMAIN claims) /\ manuscripts \in Seq(DOMAIN plans)
  /\ ops \in Seq(Operation)

\* Of the syntheses of one research question the newest is active, and the only one:
\* approvals, retries and late attempts do not bring an older one back, and no two
\* attempts replace the same.
NewestIsActive ==
  \A q \in 1..questions : OfQuestion(q) # {} =>
    \E i \in OfQuestion(q) : /\ Active \cap OfQuestion(q) = {i}
                             /\ \A j \in OfQuestion(q) \ {i} : syntheses[j].version < syntheses[i].version

\* What was stored for an operation is in its details: a retry makes nothing twice.
NothingIsOrphaned ==
  /\ \A i \in DOMAIN syntheses : \E o \in DOMAIN ops : ops[o].synthesis = i
  /\ \A i \in DOMAIN plans : \E o \in DOMAIN ops : ops[o].plan = i
  /\ \A i \in DOMAIN manuscripts : \E o \in DOMAIN ops : ops[o].manuscript = i

\* Claims that the reviewer rejected never enter the writing, however claims and plans
\* of earlier operations are used again.
ManuscriptsRestOnVerifiedClaims ==
  \A o \in DOMAIN ops : ops[o].manuscript # 0 =>
    \A i \in plans[manuscripts[ops[o].manuscript]] : claims[i].verified

\* A claim cites rows that are current when it is stored, whatever was corrected since
\* the synthesis and while its agents were asked; only a correction between the stage's
\* reading and the start of its agent is missed.
ClaimsRestOnCurrentValues ==
  [][\A i \in DOMAIN claims' \ DOMAIN claims : \A row \in claims'[i].cites :
       \/ row \in CurrentRows
       \/ \E a \in attempts \ attempts' : At(a, "CLAIMS", "asking") /\ row[1] \in a.read.missed]_vars

=============================================================================

------------------------------- MODULE MCAppraisal -------------------------------
(* Instances of Appraisal: two studies, of which the second leaves the corpus with *)
(* the second protocol, whose schema has one field less.                           *)
EXTENDS Appraisal

CONSTANTS s1, s2

TheStudies == {s1, s2}
TheIncluded == <<{s1, s2}, {s1}>>
TheFields == <<{"effect", "design"}, {"design"}>>
TheAnswers == [effect |-> {"missing"}, design |-> {"sound", "broken", "doubtful"}]
TheVerdicts == {"VERIFIED", "CONFLICT"}
TheDesigns == {"RCT", "QUASI_EXPERIMENTAL"}
TheReadable == {{s1}, {s1, s2}}
RetriedOrLate == {[retries |-> 2, overlap |-> FALSE], [retries |-> 1, overlap |-> TRUE]}

=============================================================================

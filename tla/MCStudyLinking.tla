--------------------------- MODULE MCStudyLinking ---------------------------
(* Instances of StudyLinking for TLC: which reports resemble each other.      *)
EXTENDS StudyLinking

CONSTANTS a, b, c

None == {}
\* Report c states the registrations of both a and b.
TwoTrials == {{a, c}, {b, c}}
Resembling == {{a, b}}
Similar == {{b, c}}
Distant == {{a, c}}

=============================================================================

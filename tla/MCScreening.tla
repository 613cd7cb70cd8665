------------------------------ MODULE MCScreening ------------------------------
(* Small instances of Screening.                                           *)
EXTENDS Screening

CONSTANTS w1, w2

TheWorks == {w1, w2}
TwoVerdicts == {"INCLUDE", "EXCLUDE"}

=============================================================================

------------------------------- MODULE MCSynthesis -------------------------------
(* Instances of Synthesis: one value, and two claims at a time.                    *)
EXTENDS Synthesis

CONSTANT v1

OneValue == {v1}
Two == {2}

=============================================================================

------------------------------- MODULE MCFullText -------------------------------
(* Instances of FullText: w1 can be downloaded, w2 has nothing but an abstract. *)
EXTENDS FullText

CONSTANTS w1, w2, good, bad

TheWorks == {w1, w2}
TheContents == {good, bad}
TheOnline == [w \in TheWorks |-> IF w = w1 THEN {good} ELSE {}]
TheLocated == {w1}
TheAbstracts == {w2}
TheLegible == {good}

=============================================================================

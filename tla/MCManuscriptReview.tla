-------------------------- MODULE MCManuscriptReview --------------------------
(* Instances of ManuscriptReview for TLC: an author who waits and a server    *)
(* that loses nothing, and what each can confront an operation with.          *)
EXTENDS ManuscriptReview

Surroundings == {{}, {"lost", "edits"}, {"refusal", "edits"}, {"lost", "dismissals"}}
LostAnswers == {{"lost"}}

=============================================================================

------------------------- MODULE MCLetterProcessing -------------------------
(* TLC instances of LetterProcessing.  Run identities and editors are        *)
(* interchangeable; symmetry is used in the runs without liveness.           *)
EXTENDS LetterProcessing, TLC

Symmetry == Permutations(Runs) \union Permutations(Editors)

=============================================================================

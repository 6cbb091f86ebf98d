-------------------------- MODULE MCLetterPublication --------------------------
(* TLC instance of LetterPublication: interchangeable administrators and      *)
(* transcripts.                                                               *)
EXTENDS LetterPublication, TLC

Symmetry == Permutations(Admins) \union Permutations(Texts)

=============================================================================

---------------------------- MODULE MCClangTidy ----------------------------
(* Two workers, hence a queue of two, and four files of every kind: the     *)
(* queue fills up, the workers overtake each other, one or both die.        *)
EXTENDS ClangTidy
=============================================================================

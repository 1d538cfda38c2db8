-------------------------- MODULE MCEditorRecovery --------------------------
(* Model-checking values for EditorRecovery: the pages are alike. *)
EXTENDS EditorRecovery, TLC

Symmetry == Permutations(Pages)
=============================================================================

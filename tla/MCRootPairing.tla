---------------------------- MODULE MCRootPairing ----------------------------
(* Model-checking values for RootPairing.                                    *)
EXTENDS RootPairing, TLC

Symmetry == Permutations(Procs) \cup Permutations(Databases) \cup Permutations(Roots)
            \cup Permutations(Tokens)
=============================================================================

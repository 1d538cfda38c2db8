---------------------------- MODULE MCObjectStore ----------------------------
(* Model-checking values for ObjectStore.                                    *)
EXTENDS ObjectStore, TLC

CONSTANTS k1, r1

\* An archive of a Library that then named k1 by its row r1.
MCNamedArchive == [named |-> [r \in Rows |-> IF r = r1 THEN k1 ELSE NoKey],
                   claimed |-> {}, held |-> {}]

MCNoArchives == {}
MCOneArchive == {MCNamedArchive}
MCEmptyArchive == {EmptyArchive}

SymmetryProcesses == Permutations(Libs) \cup Permutations(Changes) \cup Permutations(Runs)
=============================================================================

----------------------------- MODULE MCJobQueue -----------------------------
(* Model-checking values for JobQueue: one key per way the code enqueues.   *)
(* "note" is an uncoalesced Library kind (research.reindex_work,            *)
(* text.extract).  "rebuild" and "targets" are two target lists of          *)
(* derived.rebuild: each its own dedupe_key, one singleton_key of the       *)
(* Library.  "cleanup" is a coalesced singleton instance kind with an idle  *)
(* task (objects.cleanup).                                                  *)
EXTENDS JobQueue, TLC

MCFenceKeys  == {"note", "rebuild", "targets"}
MCRebuilds   == {"rebuild", "targets"}
MCFenceGroup == {{"rebuild", "targets"}}
MCFenceChanges == [k \in MCFenceKeys |-> IF k = "note" THEN 2 ELSE 1]

MCEndsKeys    == {"cleanup", "rebuild"}
MCRebuild     == {"rebuild"}
MCCleanup     == {"cleanup"}
MCEndsGroups  == {{"cleanup"}, {"rebuild"}}
MCEndsChanges == [k \in MCEndsKeys |-> IF k = "cleanup" THEN 2 ELSE 1]

MCNone == {}

Symmetry == Permutations(Workers) \cup Permutations(Jobs)
=============================================================================

------------------------------ MODULE Intents -------------------------------
(***************************************************************************)
(* What a browser's queue of changes and the server's ledger promise       *)
(* together (docs/local-first-sync.md): each change the user makes takes   *)
(* effect once or is handed back, whatever happens in between.             *)
(***************************************************************************)
EXTENDS Naturals

CONSTANT Ids  \* the changes

VARIABLES
    fate,   \* what has become of each change
    times   \* how often it took effect

(* "unmade"; "kept" by the queue; "stale": kept, but made before a restore   *)
(* of the Library; "applied"; "withdrawn" by the user; "refused"; put up for *)
(* the user's "review" after a restore; "undone": its effect was in the      *)
(* state a restore replaced.                                                 *)
Fates == {"unmade", "kept", "stale", "applied", "withdrawn", "refused", "review", "undone"}

Init == fate = [i \in Ids |-> "unmade"] /\ times = [i \in Ids |-> 0]

\* The change takes effect.
Apply(i) ==
    /\ fate[i] = "kept"
    /\ fate' = [fate EXCEPT ![i] = "applied"]
    /\ times' = [times EXCEPT ![i] = @ + 1]

\* What the user and the queue may do with a change.
Moves == {<<"unmade", "kept">>, <<"unmade", "stale">>, <<"kept", "withdrawn">>,
          <<"stale", "withdrawn">>, <<"kept", "refused">>, <<"stale", "refused">>,
          <<"stale", "review">>, <<"refused", "review">>, <<"review", "refused">>}

\* The queue learns late (or fails to note) that the change had taken effect
\* before the restore.
Late == {<<"stale", "undone">>, <<"undone", "stale">>}

\* What a restore may: what it undoes is stale while the queue still has it.
Turns == {<<"kept", "stale">>, <<"applied", "undone">>, <<"applied", "stale">>,
          <<"applied", "review">>, <<"applied", "refused">>}

Shift(steps) ==
    /\ fate' \in [Ids -> Fates]
    /\ \A i \in Ids : \/ fate'[i] = fate[i]
                      \/ <<fate[i], fate'[i]>> \in steps \cup (IF times[i] = 0 THEN {} ELSE Late)
    /\ UNCHANGED times

Restore == Shift(Turns) /\ \A i \in Ids : fate'[i] # "kept"

Next == (\E i \in Ids : Apply(i)) \/ Shift(Moves) \/ Restore

Spec == Init /\ [][Next]_<<fate, times>>
=============================================================================

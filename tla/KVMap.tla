------------------------------- MODULE KVMap -------------------------------
(***************************************************************************)
(* What the README's API section promises of every tree: a map from keys   *)
(* to what Find answers for them, changed by one atomic Insert (insert or  *)
(* update) or Delete at a time.                                            *)
(***************************************************************************)
CONSTANTS Keys, Pairs   \* the keys, and the key-value pairs clients insert
VARIABLE map

Missing   == [found |-> FALSE]
Stored(v) == [found |-> TRUE, value |-> v]

Init == map = [k \in Keys |-> Missing]

\* Both sides of a step are named so that TLC computes each of them once.
Next ==
  \E old \in {map}, new \in {map'} :
    \/ \E p \in Pairs : new = [old EXCEPT ![p[1]] = Stored(p[2])]
    \/ \E k \in Keys : old[k].found /\ new = [old EXCEPT ![k] = Missing]

Spec == Init /\ [][Next]_map

=============================================================================

----------------------------- MODULE KeyedStore -----------------------------
(***************************************************************************)
(* What the tile cache promises: under each key there is nothing, or the   *)
(* tiles of one version of the dataset that has this key.  An item appears *)
(* and disappears in one step and is never replaced by another.            *)
(***************************************************************************)
CONSTANTS Versions, NoVersion, Keys, Key
VARIABLE store

Init == store = [k \in Keys |-> NoVersion]

Put(k, v) ==
  /\ Key[v] = k /\ store[k] = NoVersion
  /\ store' = [store EXCEPT ![k] = v]

Drop(k) ==
  /\ store[k] # NoVersion
  /\ store' = [store EXCEPT ![k] = NoVersion]

Next == \E k \in Keys : Drop(k) \/ \E v \in Versions : Put(k, v)

Spec == Init /\ [][Next]_store
=============================================================================

---------------------------- MODULE MCTileCache ----------------------------
(***************************************************************************)
(* Values for the model checker.                                           *)
(***************************************************************************)
EXTENDS TileCache, TLC

CONSTANTS v1, v2, v3, k1, k2

\* v1 and v2 differ in image bytes only: their default hashes are the same.
KeyBySize == v1 :> k1 @@ v2 :> k1 @@ v3 :> k2

Alike == Permutations(Runs) \cup Permutations(Tiles)
SameKey == v1 :> k1 @@ v2 :> k1
=============================================================================

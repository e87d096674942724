---------------------------- MODULE MCBehaviorDB ----------------------------
(***************************************************************************)
(* BehaviorDB for TLC: two pools with chunks of two and four bytes, and    *)
(* data that fit the first pool or the second, and neither once they grow. *)
(***************************************************************************)
EXTENDS BehaviorDB

CONSTANTS a, b

Chunk24 == [d \in 0..1 |-> 2 * (d + 1)]
OneThree == {<<a>>, <<b, b, b>>}
Ends == {0, npos}

(* States after a crash that damaged an id are checked and not continued. *)
Undamaged == ~hurt
=============================================================================

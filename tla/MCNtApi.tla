------------------------------ MODULE MCNtApi ------------------------------
(***************************************************************************)
(* NtApi for TLC: two pools with chunks of two and four bytes, and data    *)
(* that fit the first pool, the second or neither.                         *)
(***************************************************************************)
EXTENDS NtApi

CONSTANTS a, b

Chunk24 == [d \in 0..1 |-> 2 * (d + 1)]
OneThreeFive == {<<a>>, <<b, b, b>>, <<b, b, b, b, b>>}
=============================================================================

----------------------------- MODULE MCTranLog -----------------------------
(***************************************************************************)
(* TranLog for TLC: offsets in base two, so that the digits of one begin   *)
(* those of another, and values of two characters that are white space, or   *)
(* look like the start of a record.                                        *)
(***************************************************************************)
EXTENDS TranLog

Binary == <<"0", "1">>
Alphabet == {"0", "1", "+", "-", "\t", "\n", "nul"}
LikeRecords == {<<"\t", "\n">>, <<"+", "0">>}
=============================================================================

---------------------------- MODULE MCBlockCopy ----------------------------
(* BlockCopy for TLC: the jobs of erase() for every segment of a datum that *)
(* ends its file or has a neighbour, and of write_viov for a datum copied   *)
(* up or down, present in the file or only allocated.                       *)
EXTENDS BlockCopy

CONSTANT Datum   \* the size of the datum, a few blocks

EraseJobs ==
  { [kind |-> "erase", src |-> off + size, dst |-> off, len |-> Datum - off - size,
     end |-> stop] : off \in 0..1, size \in 1..3, stop \in {Datum, Datum + 2} }

CopyJobs ==
  { [kind |-> "viov", src |-> from, dst |-> Datum - from, len |-> Datum, end |-> stop] :
      from \in {0, Datum}, stop \in {Datum - 2, Datum, Datum + Datum} }

SomeJobs == {j \in EraseJobs \cup CopyJobs : j.len >= 0}
=============================================================================

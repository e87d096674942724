------------------------------- MODULE MCArith -------------------------------
(***************************************************************************)
(* The arithmetic of addresses (AddrEval) and of chunks (ChunkOps) over    *)
(* bounded arguments.  A state holds the arguments of a call; a step       *)
(* changes one, so a run reaches every combination of one group.           *)
(***************************************************************************)
EXTENDS AddrEval, ChunkOps

CONSTANTS
  Bits,       \* width of an address: 32 in the source
  SizeSpan,   \* what a chunk size may hold: 2^32
  Chunk,      \* size of the chunk in question
  MinSizes,   \* Config::min_size
  Sizes       \* sizes of data the pool is chosen for

ASSUME ArithAssumption ==
  /\ Bits \in Nat
  /\ Chunk \in Words
  /\ Sizes \subseteq Nat

VARIABLES
  dir, loc, len, min, datum,  \* a pool, a chunk number, Config's addr_prefix_len
                              \* and min_size, the size of a datum
  n, off, size, max           \* bytes in a chunk, arguments of a call

address == <<dir, loc, len, min, datum>>
chunk == <<n, off, size, max>>
vars == <<dir, loc, len, min, datum, n, off, size, max>>

(* The default callback with a minimum of four. *)
Default4 == [d \in Dirs |-> default_chunk_size_est(d, 4, SizeSpan)]

NoAddress == dir = 0 /\ loc = 0 /\ len = 1 /\ datum = 0 /\ min = 4
NoChunk == n = 0 /\ off = 0 /\ size = 0 /\ max = 0

Init == NoAddress /\ NoChunk

TakeAddress ==
  /\ NoChunk
  /\ \/ dir' \in 0..(2^Bits - 1) /\ UNCHANGED <<loc, len, min, datum>>
     \/ loc' \in 0..(2^Bits - 1) /\ UNCHANGED <<dir, len, min, datum>>
     \/ len' \in 0..Bits /\ UNCHANGED <<dir, loc, min, datum>>
     \/ min' \in MinSizes /\ UNCHANGED <<dir, loc, len, datum>>
     \/ datum' \in Sizes /\ UNCHANGED <<dir, loc, len, min>>
  /\ UNCHANGED chunk

TakeChunk ==
  /\ NoAddress
  /\ \/ n' \in 0..Chunk /\ UNCHANGED <<off, size, max>>
     \/ off' \in Words /\ UNCHANGED <<n, size, max>>
     \/ size' \in Words /\ UNCHANGED <<n, off, max>>
     \/ max' \in Words /\ UNCHANGED <<n, off, size>>
  /\ UNCHANGED address

Next == TakeAddress \/ TakeChunk

Spec == Init /\ [][Next]_vars

-----------------------------------------------------------------------------
Conf ==
  [beg |-> 1, end |-> 9, len |-> len, bits |-> Bits, paths |-> TRUE, min |-> min,
   cse |-> [d \in Dirs |-> default_chunk_size_est(d, min, SizeSpan)]]

(* Packing an address and unpacking it are inverse: in the arithmetic of    *)
(* AddrEval, and in the shifts and masks of the source for every prefix     *)
(* that validate() accepts but the empty one.                               *)
Packs ==
  /\ dir \in Dirs => UnpacksWhatItPacks(dir, loc)
  /\ validate(Conf) /\ len > 0 /\ dir < 2^len =>
       \A mask \in loc_addr_mask(len, Bits) :
         \A g \in packed(dir, loc, len, Bits, mask) :
           loc < 2^(Bits - len) =>
             prefix(g, len, Bits) = {dir} /\ Masked(mask, g) = loc

(* A datum goes to the smallest pool that takes it, and fits there. *)
PoolFits == DirectoryFits(datum)

(* put() at an address: the pool where a datum of n bytes, in a chunk of    *)
(* pool d, is put together with `add` more.  The sum is taken twice, by     *)
(* write() and by the migration, in words.                                  *)
insert_dir(d, add) ==
  IF Admits(CSE[d], n, add) THEN d ELSE directory(Plus(add, n))

(* An insertion stays in its pool exactly when the new datum fits the       *)
(* chunk, or its size wraps, which overruns the chunk.  One that does not   *)
(* stay goes to a pool whose chunks hold it, and only a datum that no pool  *)
(* could hold is refused.  (A chunk is no larger than a size can say.)      *)
Admission ==
  \A d \in Dirs : CSE[d] \in Words /\ n <= CSE[d] =>
    LET to == insert_dir(d, size)
    IN  /\ to = d <=> size + n <= CSE[d] \/ size + n >= Span
        /\ to \notin {d, NoDir} => size + n <= CSE[to]
        /\ to = NoDir => \A e \in Dirs : size + n > CSE[e]

(* Insertions and erasures touch no byte but the ones named, and what they  *)
(* make of sizes of zero and of offsets beyond the end.                     *)
Edits ==
  /\ InsertsExactly(n, off, size)
  /\ ErasesExactly(n, off, size)

(* Reads to the end of a datum return it, into a string only below max. *)
Reads ==
  /\ TailReadsExactly(n, off, size)
  /\ StringReadsExactly(n, max, off)

(* The contract of get(): it puts no more into the output buffer than fits. *)
RangeReads == ReadsIntoTheBuffer(n, off, size)
=============================================================================

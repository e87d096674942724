------------------------------ MODULE AddrEval ------------------------------
(***************************************************************************)
(* addr_eval (detail/addr_eval.hpp, addr_eval.tcc): which pool a datum of  *)
(* a given size goes to, and how a pool number and a chunk number are      *)
(* packed into one address.                                                *)
(***************************************************************************)
EXTENDS Integers

CONSTANTS
  DirCount,   \* 2^addr_prefix_len, the number of pools (directories); at least
              \* two, as validate() evaluates pool 1
  LocalSpan,  \* 2^local_addr_len(), the chunk numbers an address has room for
  CSE         \* the chunk size callback: pool -> chunk size in bytes

Dirs == 0 .. (DirCount - 1)

ASSUME EvalAssumption ==
  /\ DirCount \in Nat \ {0, 1}
  /\ LocalSpan \in Nat \ {0}
  /\ CSE \in [Dirs -> Nat]

(* Addresses are words of addr_prefix_len + local_addr_len() bits; the all  *)
(* ones word, (T)(-1), stands for a failure.                                *)
Word == DirCount * LocalSpan
NoAddr == Word - 1
Locals == 0 .. (LocalSpan - 1)

(* default_chunk_size_est: min_size << dir in a word that holds less than   *)
(* span.                                                                    *)
default_chunk_size_est(dir, min, span) == (min * 2^dir) % span

(* default_capacity_test: three quarters of the chunk may be filled by the  *)
(* initial data.                                                            *)
default_capacity_test(chunk, size) == chunk - (chunk \div 4) >= size

chunk_size_estimation(dir) == CSE[dir]

capacity_test(dir, size) == default_capacity_test(CSE[dir], size)

-----------------------------------------------------------------------------
(* The packing as the source computes it, with shifts of words of `bits`    *)
(* bits.  A shift by the whole width is undefined: the processor leaves the *)
(* word as it is, a compiler may make it zero.                              *)
ShiftLeft(x, k, bits) == IF k < bits THEN {(x * 2^k) % 2^bits} ELSE {0, x}

ShiftRight(x, k, bits) == IF k < bits THEN {x \div 2^k} ELSE {0, x}

local_addr_len(len, bits) == bits - len

(* fault: the mask keeps the prefix, its complement is not taken *)
loc_addr_mask_kept(len, bits) ==
  LET k == local_addr_len(len, bits)
  IN  UNION {ShiftLeft(high, k, bits) : high \in ShiftRight(2^bits - 1, k, bits)}

(* init(): the low local_addr_len() bits. *)
loc_addr_mask(len, bits) ==
  LET ones == 2^bits - 1
      k == local_addr_len(len, bits)
  IN  {ones - low : low \in UNION {ShiftLeft(high, k, bits) :
                                     high \in ShiftRight(ones, k, bits)}}

(* A mask is 2^i - 1, so masking takes the remainder. *)
Masked(mask, x) == x % (mask + 1)

(* Config::validate(): ids between beg and end, a prefix shorter than the   *)
(* address, directories that end with a delimiter (paths), the first two    *)
(* pools in order, and some size below the minimum that the first pool      *)
(* takes.                                                                   *)
validate(conf) ==
  /\ conf.beg < conf.end
  /\ conf.len < conf.bits
  /\ conf.paths
  /\ conf.cse[0] < conf.cse[1]
  /\ \E i \in 1..(conf.min - 1) : default_capacity_test(conf.cse[0], i)

-----------------------------------------------------------------------------
(* The source's (unsigned int)(-1): no pool takes the datum. *)
NoDir == -1

Passing(size) == {d \in Dirs : capacity_test(d, size)}
FirstOf(S) == CHOOSE d \in S : \A e \in S : d <= e

(* fault: the last pool is taken without comparing the size with its chunk *)
directory_unchecked(size) ==
  IF Passing(size) # {} THEN FirstOf(Passing(size)) ELSE DirCount - 1

(* The first pool that passes the test; failing that, the last pool when    *)
(* the datum fits its chunk.                                                *)
directory(size) ==
  IF Passing(size) # {} THEN FirstOf(Passing(size))
  ELSE IF size <= chunk_size_estimation(DirCount - 1) THEN DirCount - 1
  ELSE NoDir

global_addr(dir, local) ==
  IF local = NoAddr THEN NoAddr
  ELSE ((dir * LocalSpan) % Word) + (local % LocalSpan)

addr_to_dir(addr) == addr \div LocalSpan

local_addr(addr) == addr % LocalSpan

(* The same with a mask; both return -1 for -1. *)
packed(dir, local, len, bits, mask) ==
  IF local = 2^bits - 1 THEN {2^bits - 1}
  ELSE {high + Masked(mask, local) : high \in ShiftLeft(dir, local_addr_len(len, bits), bits)}

prefix(addr, len, bits) == ShiftRight(addr, local_addr_len(len, bits), bits)

-----------------------------------------------------------------------------
(* Properties of the operators. *)

(* Packing and unpacking are inverse as long as the chunk number fits; one  *)
(* that does not fit still leaves the pool number intact, and the failure   *)
(* value stays the failure value.                                           *)
UnpacksWhatItPacks(dir, loc) ==
  LET g == global_addr(dir, loc)
  IN  IF loc = NoAddr THEN g = NoAddr
      ELSE /\ g \in 0..(Word - 1)
           /\ addr_to_dir(g) = dir
           /\ local_addr(g) = loc % LocalSpan

(* The pool chosen for a datum has chunks that hold it; none is chosen only *)
(* when no pool has; and no smaller pool passes the capacity test.          *)
DirectoryFits(size) ==
  LET d == directory(size)
  IN  IF d = NoDir
      THEN \A e \in Dirs : size > chunk_size_estimation(e)
      ELSE /\ d \in Dirs
           /\ size <= chunk_size_estimation(d)
           /\ \A e \in 0..(d - 1) : ~capacity_test(e, size)
=============================================================================

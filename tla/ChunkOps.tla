------------------------------- MODULE ChunkOps -------------------------------
(***************************************************************************)
(* What pool (detail/poolImpl.cpp) computes from the arguments of a call   *)
(* and from the size in the row of a chunk: how much it erases, admits and *)
(* reads, and of which pieces it puts a rewritten datum together.          *)
(*                                                                         *)
(* Sizes and offsets are unsigned words.  A byte is named by where it      *)
(* comes from: 0, 1, ... in the chunk, -1, -2, ... in the buffer of the    *)
(* caller.                                                                 *)
(***************************************************************************)
EXTENDS Integers, Sequences

CONSTANTS
  Span,   \* 2^32: how many values a size has
  Block   \* MIGBUF_SIZ, the bytes read at a time into a string

ASSUME ChunkAssumption ==
  /\ Span \in Nat \ {0, 1}
  /\ Block \in Nat \ {0}

Words == 0 .. (Span - 1)

npos == Span - 1

Plus(a, b) == (a + b) % Span
Minus(a, b) == (a - b) % Span

-----------------------------------------------------------------------------
(* Bytes `from` to `from` + `len` of the chunk, and the datum of a caller.  *)
Old(from, len) == [i \in 1..len |-> from + i - 1]
New(len) == [i \in 1..len |-> -i]

(* An offset of npos is the end of the datum. *)
At(off, n) == IF off = npos THEN n ELSE off

(* fault: what the chunk holds is not counted *)
Admits_alone(chunk, n, size) == size <= chunk

(* write() at an offset: whether the chunk takes size more bytes, or the    *)
(* datum must move to a larger pool.                                        *)
Admits(chunk, n, size) == Plus(size, n) <= chunk

(* merge_copy(): what writevv() puts together at the new place.             *)
merge_copy(n, off, size) ==
  LET at == At(off, n)
  IN  CASE at = 0 -> New(size) \o Old(0, n)
        [] at = n /\ at # 0 -> Old(0, n) \o New(size)
        [] at # n /\ at # 0 -> Old(0, at) \o New(size) \o Old(at, Minus(n, at))

-----------------------------------------------------------------------------
(* fault: the sum is compared with the size only *)
EraseLength_wrapping(n, off, size) ==
  IF Plus(off, size) > n THEN n - off ELSE size

(* erase(): how many bytes go.  A sum that does not exceed the offset is    *)
(* taken for an overflow, and everything from the offset on goes.           *)
EraseLength(n, off, size) ==
  IF Plus(off, size) > off
  THEN IF Plus(off, size) > n THEN n - off ELSE size
  ELSE n - off

(* The datum that erase() leaves. *)
erase(n, off, size) ==
  IF off > n THEN Old(0, n)
  ELSE LET k == EraseLength(n, off, size)
       IN  Old(0, off) \o Old(off + k, Minus(Minus(n, k), off))

-----------------------------------------------------------------------------
(* read() of a range: the bytes it asks the file for. *)
Asked(n, off, size) ==
  IF off > n THEN 0 ELSE IF size > n - off THEN n - off ELSE n

read(n, off, size) == Old(off, Asked(n, off, size))

(* fault: a round that ends at the limit is kept *)
read_string_full(n, max, off) ==
  LET Round[r \in Words \X Words] ==
        LET o == r[1]
            k == Asked(n, o, Block)
            t == Plus(r[2], k)
        IN  IF k = 0 THEN [count |-> r[2], bytes |-> <<>>]
            ELSE IF t >= max THEN [count |-> t, bytes |-> Old(o, k)]
            ELSE LET more == Round[<<Plus(o, k), t>>]
                 IN  [more EXCEPT !.bytes = Old(o, k) \o @]
  IN  Round[<<off, 0>>]

(* read() into a string, a block at a time: the count it returns and the    *)
(* bytes in the string.  The round in which the count reaches max is        *)
(* counted and not appended.  A round begins at an offset, r[1], with r[2]  *)
(* bytes counted.                                                           *)
read_string(n, max, off) ==
  LET Round[r \in Words \X Words] ==
        LET o == r[1]
            k == Asked(n, o, Block)
            t == Plus(r[2], k)
        IN  IF k = 0 THEN [count |-> r[2], bytes |-> <<>>]
            ELSE IF t >= max THEN [count |-> t, bytes |-> <<>>]
            ELSE LET more == Round[<<Plus(o, k), t>>]
                 IN  [more EXCEPT !.bytes = Old(o, k) \o @]
  IN  Round[<<off, 0>>]

-----------------------------------------------------------------------------
(* Properties of the operators, for a chunk of the given size, a datum of   *)
(* n bytes in it and the arguments of a call.                               *)

(* The datum with the caller's bytes in it, and without some of its own. *)
Inserted(n, off, size) ==
  Old(0, At(off, n)) \o New(size) \o Old(At(off, n), n - At(off, n))
Without(n, off, k) == Old(0, off) \o Old(off + k, n - off - k)
Smaller(a, b) == IF a <= b THEN a ELSE b

(* Inserting within the datum or at npos keeps every byte of it in order    *)
(* around the new ones.  Beyond the end the length of the third piece       *)
(* wraps, and more is asked for than a chunk, or a word, can say.           *)
InsertsExactly(n, off, size) ==
  LET y == merge_copy(n, off, size)
  IN  IF At(off, n) <= n THEN y = Inserted(n, off, size)
      ELSE Len(y) = Span + n + size

(* A partial del takes exactly the bytes named, as far as the datum goes,   *)
(* also when the sum of offset and size wraps; a size of zero takes all     *)
(* that follows the offset, and an offset beyond the end takes nothing.     *)
ErasesExactly(n, off, size) ==
  erase(n, off, size) =
    IF off > n THEN Old(0, n)
    ELSE Without(n, off, IF size = 0 THEN n - off ELSE Smaller(size, n - off))

(* A read into a string returns the rest of the datum if it is shorter than *)
(* the limit and than a block; what is returned is never beyond the datum.  *)
StringReadsExactly(n, max, off) ==
  n < Block => LET got == read_string(n, max, off)
                   rest == IF off > n THEN 0 ELSE n - off
               IN  /\ got.count = rest
                   /\ got.bytes = IF rest < max THEN Old(off, rest) ELSE <<>>

(* A read that may go to the end of the datum returns what there is. *)
TailReadsExactly(n, off, size) ==
  off > n \/ size > n - off =>
    read(n, off, size) = Old(off, IF off > n THEN 0 ELSE n - off)

(* What bdb.hpp says of get(): size is the size of the output buffer. *)
ReadsIntoTheBuffer(n, off, size) == Asked(n, off, size) <= size
=============================================================================

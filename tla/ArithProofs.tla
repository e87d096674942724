----------------------------- MODULE ArithProofs -----------------------------
(***************************************************************************)
(* The arithmetic of addresses and chunks for words of every width, every  *)
(* number of pools and every chunk size.                                   *)
(***************************************************************************)
EXTENDS MCArith, Numbers, SequenceTheorems

(* The arguments of a call: a datum within its chunk, words for the rest,   *)
(* and numbers for what an address is made of.                              *)
Arguments ==
  /\ n \in 0..Chunk
  /\ off \in Words /\ size \in Words /\ max \in Words
  /\ datum \in Nat /\ dir \in Nat /\ loc \in Nat /\ len \in Nat

-----------------------------------------------------------------------------
(* Words. *)

(* The sum of two words, where it wraps and where it does not.              *)
LEMMA SumBelow ==
  ASSUME NEW a \in Words, NEW b \in Words
  PROVE  /\ a + b < Span => Plus(a, b) = a + b
         /\ a + b >= Span => Plus(a, b) = a + b - Span
         /\ Plus(a, b) \in Words
<1>1. Span \in Nat /\ Span > 0 /\ a \in Nat /\ b \in Nat /\ a < Span /\ b < Span
  BY ChunkAssumption DEF Words
<1>2. CASE a + b < Span
  <2>1. (a + b) % Span = a + b
    BY <1>1, <1>2
  <2> QED BY <1>1, <1>2, <2>1 DEF Plus, Words
<1>3. CASE a + b >= Span
  <2>1. a + b - Span \in 0..(Span - 1)
    BY <1>1, <1>3
  <2>2. (a + b) % Span = a + b - Span
    BY <1>1, <2>1
  <2> QED BY <1>1, <1>3, <2>1, <2>2 DEF Plus, Words
<1> QED BY <1>1, <1>2, <1>3

(* The difference of two words does not wrap when it is not negative.       *)
LEMMA DifferenceBelow ==
  ASSUME NEW a \in Words, NEW b \in 0..a
  PROVE  Minus(a, b) = a - b /\ a - b \in Words
<1>1. Span \in Nat /\ Span > 0 /\ a \in Nat /\ b \in Nat /\ b <= a /\ a < Span
  BY ChunkAssumption DEF Words
<1>2. a - b \in 0..(Span - 1)
  BY <1>1
<1>3. (a - b) % Span = a - b
  BY <1>1, <1>2
<1> QED BY <1>2, <1>3 DEF Minus, Words

(* A sequence of bytes, and what joining an empty one makes. *)
LEMMA Pieces ==
  ASSUME NEW f \in Int, NEW k \in Nat
  PROVE  /\ Old(f, k) \in Seq(Int)
         /\ New(k) \in Seq(Int)
         /\ Len(Old(f, k)) = k
         /\ Len(New(k)) = k
         /\ Old(f, 0) = << >>
<1>1. Old(f, k) \in [1..k -> Int]
  BY DEF Old
<1>2. New(k) \in [1..k -> Int]
  BY DEF New
<1>3. \A g \in [1..k -> Int] : g \in Seq(Int)
  OBVIOUS
<1>4. Old(f, 0) = << >>
  BY DEF Old
<1>5. Len(Old(f, k)) = k /\ Len(New(k)) = k
  BY DEF Old, New
<1> QED BY <1>1, <1>2, <1>3, <1>4, <1>5

-----------------------------------------------------------------------------

(* A run begins with a datum of no bytes and arguments of zero.             *)
LEMMA InitArguments == Init => Arguments
BY ArithAssumption, ChunkAssumption DEF Init, NoAddress, NoChunk, Arguments, Words

(* Every step changes one argument within its range.                        *)
LEMMA StepArguments == Arguments /\ [Next]_vars => Arguments'
<1> SUFFICES ASSUME Arguments, [Next]_vars PROVE Arguments'
  OBVIOUS
<1>1. CASE TakeAddress
  <2>1. \A x \in 0..(2^Bits - 1) : x \in Nat
    BY ArithAssumption, PowersOfTwo
  <2>2. \A x \in 0..Bits : x \in Nat
    BY ArithAssumption
  <2> QED BY <1>1, <2>1, <2>2, ArithAssumption DEF TakeAddress, Arguments, chunk
<1>2. CASE TakeChunk
  BY <1>2, ArithAssumption DEF TakeChunk, Arguments, address
<1>3. CASE UNCHANGED vars
  BY <1>3 DEF vars, Arguments
<1> QED BY <1>1, <1>2, <1>3 DEF Next

(* So the arguments of a call are always within their ranges.               *)
LEMMA AlwaysArguments == Spec => []Arguments
<1>1. Init => Arguments
  BY InitArguments
<1>2. Arguments /\ [Next]_vars => Arguments'
  BY StepArguments
<1> QED BY <1>1, <1>2, PTL DEF Spec

-----------------------------------------------------------------------------
(* A datum is as long as its chunk at most, hence its length is a word.     *)
LEMMA DatumIsWord ==
  ASSUME Arguments
  PROVE  /\ n \in Words /\ n \in Nat /\ off \in Nat /\ size \in Nat
         /\ Span \in Nat /\ n < Span /\ off < Span /\ size < Span /\ Chunk \in Nat
BY ArithAssumption, ChunkAssumption DEF Arguments, Words

-----------------------------------------------------------------------------
(* Edits. *)

(* Three pieces together are as long as their lengths say.                  *)
LEMMA ThreeLengths ==
  ASSUME NEW x \in Seq(Int), NEW y \in Seq(Int), NEW z \in Seq(Int)
  PROVE  Len((x \o y) \o z) = Len(x) + Len(y) + Len(z)
<1>1. x \o y \in Seq(Int) /\ Len(x \o y) = Len(x) + Len(y)
  BY ConcatProperties
<1>2. Len((x \o y) \o z) = Len(x \o y) + Len(z)
  BY <1>1, ConcatProperties
<1> QED BY <1>1, <1>2

(* The three pieces of an insertion beyond the end of the datum: the length *)
(* of the last has wrapped.                                                 *)
LEMMA InsertsBeyond ==
  ASSUME NEW k \in Words, NEW o \in Words, NEW sz \in Words, At(o, k) > k
  PROVE  Len(merge_copy(k, o, sz)) = Span + k + sz
<1> DEFINE at == At(o, k)
<1>1. /\ at \in Nat /\ k \in Nat /\ sz \in Nat /\ Span \in Nat /\ k < Span
      /\ at > k /\ at < Span
  BY ChunkAssumption DEF At, Words
<1> HIDE DEF at
<1>2. Minus(k, at) = Span + k - at
  <2>1. Span + k - at \in 0..(Span - 1)
    BY <1>1
  <2>2. (k - at) % Span = Span + k - at
    BY <1>1, <2>1
  <2> QED BY <2>2 DEF Minus
<1> DEFINE rest == Span + k - at
<1>3. rest \in Nat
  BY <1>1
<1>4. merge_copy(k, o, sz) = (Old(0, at) \o New(sz)) \o Old(at, rest)
  <2>1. at # 0 /\ at # k
    BY <1>1
  <2>2. merge_copy(k, o, sz) = Old(0, at) \o New(sz) \o Old(at, Minus(k, at))
    BY <2>1 DEF merge_copy, at
  <2> QED BY <1>2, <2>2
<1> HIDE DEF rest
<1>5. /\ Old(0, at) \in Seq(Int) /\ Len(Old(0, at)) = at
      /\ New(sz) \in Seq(Int) /\ Len(New(sz)) = sz
      /\ Old(at, rest) \in Seq(Int) /\ Len(Old(at, rest)) = rest
  <2>1. Old(0, at) \in Seq(Int) /\ Len(Old(0, at)) = at
    <3>1. 0 \in Int
      OBVIOUS
    <3> QED BY <1>1, <3>1, Pieces
  <2>2. New(sz) \in Seq(Int) /\ Len(New(sz)) = sz
    <3>1. 0 \in Int
      OBVIOUS
    <3> QED BY <1>1, <3>1, Pieces
  <2>3. Old(at, rest) \in Seq(Int) /\ Len(Old(at, rest)) = rest
    <3>1. at \in Int
      BY <1>1
    <3> QED BY <1>3, <3>1, Pieces
  <2> QED BY <2>1, <2>2, <2>3
<1>6. Len((Old(0, at) \o New(sz)) \o Old(at, rest)) = at + sz + rest
  <2> DEFINE x == Old(0, at)
             y == New(sz)
             z == Old(at, rest)
  <2>1. x \in Seq(Int) /\ y \in Seq(Int) /\ z \in Seq(Int)
    BY <1>5
  <2>2. Len(x) = at /\ Len(y) = sz /\ Len(z) = rest
    BY <1>5
  <2> HIDE DEF x, y, z
  <2>3. Len((x \o y) \o z) = at + sz + rest
    BY <2>1, <2>2, ThreeLengths
  <2> QED BY <2>3 DEF x, y, z
<1>7. at + sz + rest = Span + k + sz
  BY <1>1, <1>3 DEF rest
<1> QED BY <1>4, <1>6, <1>7

(* An insertion keeps the datum in order around the new bytes.              *)
LEMMA InsertsAlways ==
  ASSUME NEW k \in Words, NEW o \in Words, NEW sz \in Words
  PROVE  InsertsExactly(k, o, sz)
<1> DEFINE at == At(o, k)
<1> SUFFICES ASSUME at <= k
             PROVE  merge_copy(k, o, sz) = Inserted(k, o, sz)
  <2>1. at \in Nat /\ k \in Nat
    BY ChunkAssumption DEF At, Words
  <2>2. CASE at > k
    <3>1. Len(merge_copy(k, o, sz)) = Span + k + sz /\ ~(at <= k)
      BY <2>1, <2>2, InsertsBeyond
    <3> QED BY <3>1 DEF InsertsExactly
  <2>3. CASE at <= k
    BY <2>3 DEF InsertsExactly
  <2> QED BY <2>1, <2>2, <2>3
<1>1. at \in Nat /\ k \in Nat /\ sz \in Nat /\ at \in 0..k
  BY ChunkAssumption DEF At, Words
<1>2. Minus(k, at) = k - at
  BY <1>1, DifferenceBelow
<1> HIDE DEF at
<1>3. /\ Old(0, k) \in Seq(Int) /\ New(sz) \in Seq(Int) /\ Old(0, 0) = << >>
      /\ Old(k, 0) = << >> /\ Old(0, k) \o New(sz) \in Seq(Int)
  <2>1. 0 \in Int /\ k \in Int /\ 0 \in Nat
    BY <1>1
  <2>2. /\ Old(0, k) \in Seq(Int) /\ Old(0, 0) = << >> /\ Old(k, 0) = << >>
    BY <1>1, <2>1, Pieces
  <2>3. New(sz) \in Seq(Int)
    BY <1>1, <2>1, Pieces
  <2> QED BY <2>2, <2>3, ConcatProperties
<1>4. CASE at = 0
  <2>1. merge_copy(k, o, sz) = New(sz) \o Old(0, k)
    BY <1>4 DEF merge_copy, at
  <2>2. Inserted(k, o, sz) = (Old(0, 0) \o New(sz)) \o Old(0, k)
    BY <1>1, <1>4 DEF Inserted, at
  <2>3. Old(0, 0) \o New(sz) = New(sz)
    BY <1>3, ConcatEmptySeq
  <2> QED BY <2>1, <2>2, <2>3
<1>5. CASE at = k /\ at # 0
  <2>1. merge_copy(k, o, sz) = Old(0, k) \o New(sz)
    BY <1>5 DEF merge_copy, at
  <2>2. Inserted(k, o, sz) = (Old(0, k) \o New(sz)) \o Old(k, 0)
    BY <1>1, <1>5 DEF Inserted, at
  <2>3. (Old(0, k) \o New(sz)) \o Old(k, 0) = Old(0, k) \o New(sz)
    BY <1>3, ConcatEmptySeq
  <2> QED BY <2>1, <2>2, <2>3
<1>6. CASE at # k /\ at # 0
  <2>1. merge_copy(k, o, sz) = Old(0, at) \o New(sz) \o Old(at, Minus(k, at))
    BY <1>6 DEF merge_copy, at
  <2> QED BY <1>2, <2>1 DEF Inserted, at
<1> QED BY <1>4, <1>5, <1>6

(* A partial del takes exactly the bytes named, wherever its sum wraps, all *)
(* that is left for a size of zero, and nothing beyond the end.             *)
LEMMA ErasesAlways ==
  ASSUME NEW k \in Words, NEW o \in Words, NEW sz \in Words
  PROVE  ErasesExactly(k, o, sz)
<1> DEFINE gone == IF sz = 0 THEN k - o ELSE Smaller(sz, k - o)
<1>1. k \in Nat /\ o \in Nat /\ sz \in Nat /\ Span \in Nat /\ k < Span /\ sz < Span /\ o < Span
  BY ChunkAssumption DEF Words
<1>2. CASE o > k
  BY <1>2 DEF ErasesExactly, erase
<1>3. CASE o <= k
  <2>1. EraseLength(k, o, sz) = gone
    <3>1. CASE o + sz < Span
      <4>1. Plus(o, sz) = o + sz
        BY <1>1, <3>1, SumBelow
      <4> QED BY <1>1, <1>3, <4>1 DEF EraseLength, Smaller
    <3>2. CASE o + sz >= Span
      <4>1. Plus(o, sz) = o + sz - Span
        BY <1>1, <3>2, SumBelow
      <4> QED BY <1>1, <1>3, <3>2, <4>1 DEF EraseLength, Smaller
    <3> QED BY <1>1, <3>1, <3>2
  <2>2. gone \in 0..k /\ k - gone \in Nat /\ o \in 0..(k - gone)
    BY <1>1, <1>3 DEF Smaller
  <2>3. erase(k, o, sz) = Old(0, o) \o Old(o + gone, Minus(Minus(k, gone), o))
    BY <1>1, <1>3, <2>1 DEF erase
  <2>4. ErasesExactly(k, o, sz) <=> erase(k, o, sz) = Without(k, o, gone)
    BY <1>1, <1>3 DEF ErasesExactly
  <2> HIDE DEF gone
  <2>5. Minus(k, gone) = k - gone /\ k - gone \in Words
    BY <2>2, DifferenceBelow
  <2>6. Minus(k - gone, o) = k - gone - o
    BY <2>2, <2>5, DifferenceBelow
  <2>7. k - o - gone = k - gone - o
    BY <1>1, <2>2
  <2>8. Without(k, o, gone) = Old(0, o) \o Old(o + gone, k - o - gone)
    BY DEF Without
  <2> QED BY <2>3, <2>4, <2>5, <2>6, <2>7, <2>8
<1> QED BY <1>1, <1>2, <1>3

(* Insertions and erasures touch no byte but the ones named, for every      *)
(* datum, offset and size; a size of zero and an offset beyond the end are  *)
(* among them, with what pool makes of those.                               *)
THEOREM EditsAlways == Spec => []Edits
<1>1. Arguments => Edits
  <2> SUFFICES ASSUME Arguments PROVE Edits
    OBVIOUS
  <2>1. n \in Words /\ off \in Words /\ size \in Words
    BY DatumIsWord DEF Arguments
  <2> QED BY <2>1, InsertsAlways, ErasesAlways DEF Edits
<1> QED BY <1>1, AlwaysArguments, PTL

-----------------------------------------------------------------------------
(* Reads. *)

(* A read that may go to the end of the datum asks for what there is.       *)
LEMMA TailReadsAlways ==
  ASSUME NEW k \in Words, NEW o \in Words, NEW sz \in Words
  PROVE  TailReadsExactly(k, o, sz)
BY DEF TailReadsExactly, read, Asked

(* What the rounds of a read into a string come to when a block is larger   *)
(* than the datum, from offset r[1] on and with r[2] bytes counted before.  *)
Rounds(k, limit) ==
  [r \in Words \X Words |->
     LET o == r[1]
         t == Plus(r[2], k - o)
     IN  IF o >= k THEN [count |-> r[2], bytes |-> << >>]
         ELSE [count |-> t, bytes |-> IF t >= limit THEN << >> ELSE Old(o, k - o)]]

(* What one round makes of those that follow. *)
Turn(f, k, limit) ==
  [r \in Words \X Words |->
     LET o == r[1]
         a == Asked(k, o, Block)
         t == Plus(r[2], a)
     IN  IF a = 0 THEN [count |-> r[2], bytes |-> << >>]
         ELSE IF t >= limit THEN [count |-> t, bytes |-> << >>]
         ELSE LET more == f[<<Plus(o, a), t>>]
              IN  [more EXCEPT !.bytes = Old(o, a) \o @]]

(* They solve the equation of the loop.                                     *)
LEMMA RoundsTurn ==
  ASSUME NEW k \in Words, NEW limit \in Words, k < Block
  PROVE  Turn(Rounds(k, limit), k, limit) = Rounds(k, limit)
<1> DEFINE R == Rounds(k, limit)
<1>1. ASSUME NEW r \in Words \X Words
      PROVE  Turn(R, k, limit)[r] = R[r]
  <2> DEFINE o == r[1]
             total == r[2]
  <2>1. /\ k \in Nat /\ o \in Nat /\ total \in Nat /\ Block \in Nat /\ limit \in Nat
        /\ o \in Words /\ total \in Words /\ r = <<o, total>>
    BY ChunkAssumption DEF Words
  <2> HIDE DEF o, total
  <2>2. CASE o >= k
    <3>1. Asked(k, o, Block) = 0
      BY <2>1, <2>2 DEF Asked
    <3> QED BY <2>2, <3>1 DEF Turn, Rounds, o, total
  <2>3. CASE o < k
    <3> DEFINE t == Plus(total, k - o)
    <3>1. Asked(k, o, Block) = k - o /\ k - o # 0 /\ k - o \in Words
      BY <2>1, <2>3, ChunkAssumption DEF Asked, Words
    <3>2. Plus(o, k - o) = k /\ t \in Words
      <4>1. o + (k - o) = k /\ k < Span
        BY <2>1, ChunkAssumption DEF Words
      <4> QED BY <2>1, <3>1, <4>1, SumBelow
    <3> HIDE DEF t
    <3>3. R[<<k, t>>] = [count |-> t, bytes |-> << >>]
      BY <2>1, <3>2 DEF Rounds
    <3>4. R[r] = [count |-> t, bytes |-> IF t >= limit THEN << >> ELSE Old(o, k - o)]
      BY <2>1, <2>3 DEF Rounds, t, o, total
    <3>5. Turn(R, k, limit)[r] =
            IF t >= limit THEN [count |-> t, bytes |-> << >>]
            ELSE [R[<<k, t>>] EXCEPT !.bytes = Old(o, k - o) \o @]
      <4> HIDE DEF R
      <4> QED BY <3>1, <3>2 DEF Turn, t, o, total
    <3> HIDE DEF R
    <3>6. Old(o, k - o) \o << >> = Old(o, k - o)
      BY <2>1, <3>1, Pieces
    <3> QED BY <3>3, <3>4, <3>5, <3>6
  <2> QED BY <2>1, <2>2, <2>3
<1> QED BY <1>1 DEF Turn, Rounds

(* A read into a string returns the rest of the datum.                      *)
LEMMA StringReadsAlways ==
  ASSUME NEW k \in Words, NEW limit \in Words, NEW o \in Words
  PROVE  StringReadsExactly(k, limit, o)
<1> SUFFICES ASSUME k < Block
             PROVE  LET got == read_string(k, limit, o)
                        rest == IF o > k THEN 0 ELSE k - o
                    IN  /\ got.count = rest
                        /\ got.bytes = IF rest < limit THEN Old(o, rest) ELSE << >>
  BY DEF StringReadsExactly
<1> DEFINE Loop == CHOOSE f : f = Turn(f, k, limit)
<1>1. Loop = Turn(Loop, k, limit)
  BY RoundsTurn
<1>2. read_string(k, limit, o) = Loop[<<o, 0>>]
  BY DEF read_string, Turn
<1> HIDE DEF Loop
<1>3. /\ k \in Nat /\ o \in Nat /\ Block \in Nat /\ limit \in Nat /\ 0 \in Words
      /\ k < Span /\ o < Span /\ Span \in Nat
  BY ChunkAssumption DEF Words
<1>4. ASSUME NEW t \in Words
      PROVE  Loop[<<k, t>>] = [count |-> t, bytes |-> << >>]
  <2>1. Asked(k, k, Block) = 0
    BY <1>3 DEF Asked
  <2>2. Turn(Loop, k, limit)[<<k, t>>] = [count |-> t, bytes |-> << >>]
    BY <2>1 DEF Turn
  <2> QED BY <1>1, <2>2
<1>5. CASE o >= k
  <2>1. Asked(k, o, Block) = 0
    BY <1>3, <1>5 DEF Asked
  <2>2. Turn(Loop, k, limit)[<<o, 0>>] = [count |-> 0, bytes |-> << >>]
    BY <1>3, <2>1 DEF Turn
  <2>3. Old(o, 0) = << >>
    BY <1>3, Pieces
  <2> QED BY <1>1, <1>2, <1>3, <1>5, <2>2, <2>3
<1>6. CASE o < k
  <2>1. Asked(k, o, Block) = k - o /\ k - o # 0 /\ k - o \in Words
    BY <1>3, <1>6 DEF Asked, Words
  <2>2. Plus(o, k - o) = k /\ Plus(0, k - o) = k - o
    <3>1. o + (k - o) = k /\ 0 + (k - o) = k - o /\ k - o < Span
      BY <1>3, <1>6
    <3> QED BY <1>3, <2>1, <3>1, SumBelow
  <2>3. Turn(Loop, k, limit)[<<o, 0>>] =
          IF k - o >= limit THEN [count |-> k - o, bytes |-> << >>]
          ELSE [Loop[<<k, k - o>>] EXCEPT !.bytes = Old(o, k - o) \o @]
    BY <1>3, <2>1, <2>2 DEF Turn
  <2>4. Old(o, k - o) \o << >> = Old(o, k - o)
    BY <1>3, <2>1, Pieces
  <2>5. Loop[<<o, 0>>] =
          [count |-> k - o, bytes |-> IF k - o >= limit THEN << >> ELSE Old(o, k - o)]
    <3>1. Loop[<<k, k - o>>] = [count |-> k - o, bytes |-> << >>]
      BY <1>4, <2>1
    <3>2. Loop[<<o, 0>>] = Turn(Loop, k, limit)[<<o, 0>>]
      BY <1>1
    <3>3. [Loop[<<k, k - o>>] EXCEPT !.bytes = Old(o, k - o) \o @] =
            [count |-> k - o, bytes |-> Old(o, k - o)]
      BY <2>4, <3>1
    <3> QED BY <2>3, <3>2, <3>3
  <2> QED BY <1>2, <1>3, <1>6, <2>5
<1> QED BY <1>3, <1>5, <1>6

(* Reads to the end of a datum return it, into a string only below the      *)
(* limit, for words of every width.                                         *)
THEOREM ReadsAlways == Spec => []Reads
<1>1. Arguments => Reads
  <2> SUFFICES ASSUME Arguments PROVE Reads
    OBVIOUS
  <2>1. n \in Words /\ off \in Words /\ size \in Words /\ max \in Words
    BY DatumIsWord DEF Arguments
  <2> QED BY <2>1, TailReadsAlways, StringReadsAlways DEF Reads
<1> QED BY <1>1, AlwaysArguments, PTL

-----------------------------------------------------------------------------
(* The choice of a pool. *)

(* What the capacity test lets pass fits the chunk. *)
LEMMA PassingFits ==
  ASSUME NEW d \in Dirs, NEW sz \in Nat, capacity_test(d, sz)
  PROVE  sz <= chunk_size_estimation(d)
<1>1. CSE[d] \in Nat
  BY EvalAssumption
<1>2. CSE[d] \div 4 >= 0
  BY <1>1
<1> QED BY <1>1, <1>2
     DEF capacity_test, default_capacity_test, chunk_size_estimation

(* directory() chooses the first pool that passes, or the last that holds.  *)
LEMMA ChoosesWell ==
  ASSUME NEW sz \in Nat,
         \A d \in Dirs : CSE[d] <= CSE[DirCount - 1]
  PROVE  DirectoryFits(sz)
<1>1. /\ Dirs \subseteq Nat /\ DirCount - 1 \in Dirs /\ NoDir \notin Dirs
      /\ \A d \in Dirs : CSE[d] \in Nat
      /\ \A d \in Dirs : 0..(d - 1) \subseteq Dirs
  BY EvalAssumption DEF Dirs, NoDir
<1>2. CASE Passing(sz) # {}
  <2>1. Passing(sz) \subseteq Nat
    BY <1>1 DEF Passing
  <2>2. \E m \in Passing(sz) : \A y \in Passing(sz) : m <= y
    BY <1>2, <2>1, LeastElement
  <2>3. PICK d : d = FirstOf(Passing(sz))
    OBVIOUS
  <2>4. d \in Passing(sz) /\ \A y \in Passing(sz) : d <= y
    BY <2>2, <2>3 DEF FirstOf
  <2>5. directory(sz) = d
    BY <1>2, <2>3 DEF directory
  <2>6. d \in Dirs /\ capacity_test(d, sz)
    BY <2>4 DEF Passing
  <2>7. \A e \in 0..(d - 1) : ~capacity_test(e, sz)
    BY <1>1, <2>4, <2>6 DEF Passing
  <2> QED BY <1>1, <2>5, <2>6, <2>7, PassingFits DEF DirectoryFits
<1>3. CASE Passing(sz) = {}
  <2>1. \A e \in Dirs : ~capacity_test(e, sz)
    BY <1>3 DEF Passing
  <2>2. CASE sz <= chunk_size_estimation(DirCount - 1)
    <3>1. directory(sz) = DirCount - 1
      BY <1>3, <2>2 DEF directory
    <3> QED BY <1>1, <2>1, <2>2, <3>1 DEF DirectoryFits
  <2>3. CASE ~(sz <= chunk_size_estimation(DirCount - 1))
    <3>1. directory(sz) = NoDir
      BY <1>3, <2>3 DEF directory
    <3>2. \A e \in Dirs : sz > chunk_size_estimation(e)
      <4>1. ~(sz <= CSE[DirCount - 1])
        BY <2>3 DEF chunk_size_estimation
      <4> SUFFICES ASSUME NEW e \in Dirs PROVE sz > CSE[e]
        BY DEF chunk_size_estimation
      <4>2. CSE[e] \in Nat /\ CSE[DirCount - 1] \in Nat /\ CSE[e] <= CSE[DirCount - 1]
        BY <1>1
      <4> QED BY <4>1, <4>2
    <3> QED BY <3>1, <3>2 DEF DirectoryFits
  <2> QED BY <2>2, <2>3
<1> QED BY <1>2, <1>3

(* A datum goes to the smallest pool that takes it and fits there, for      *)
(* every number of pools and every callback whose last pool is the largest. *)
THEOREM PoolFitsAlways ==
  ASSUME \A d \in Dirs : CSE[d] <= CSE[DirCount - 1]
  PROVE  Spec => []PoolFits
<1>1. Arguments => PoolFits
  BY ChoosesWell DEF Arguments, PoolFits
<1> QED BY <1>1, AlwaysArguments, PTL

-----------------------------------------------------------------------------
(* Admission. *)

(* write() refuses an insertion exactly when the sum is larger than the     *)
(* chunk and is a word; one that wraps is always admitted, as the datum     *)
(* before the insertion fits the chunk.                                     *)
LEMMA AdmitsWhatFits ==
  ASSUME NEW room \in Words, NEW k \in 0..room, NEW sz \in Words
  PROVE  /\ Admits(room, k, sz) <=> sz + k <= room \/ sz + k >= Span
         /\ ~Admits(room, k, sz) => Plus(sz, k) = sz + k
<1>1. Span \in Nat /\ room \in Nat /\ room < Span /\ k \in Nat /\ sz \in Nat /\ sz < Span
      /\ k \in Words
  BY ChunkAssumption DEF Words
<1>2. CASE sz + k < Span
  BY <1>1, <1>2, SumBelow DEF Admits
<1>3. CASE sz + k >= Span
  <2>1. Plus(sz, k) = sz + k - Span
    BY <1>1, <1>3, SumBelow
  <2> QED BY <1>1, <1>3, <2>1 DEF Admits
<1> QED BY <1>1, <1>2, <1>3

(* An insertion stays in its chunk, goes to another pool or is refused as   *)
(* its size demands, but for a sum that wraps, which always stays: for      *)
(* words of every width and every callback whose last pool is the largest.  *)
THEOREM AdmissionAlways ==
  ASSUME \A d \in Dirs : CSE[d] <= CSE[DirCount - 1]
  PROVE  Spec => []Admission
<1>1. Arguments => Admission
  <2> SUFFICES ASSUME Arguments, NEW d \in Dirs, CSE[d] \in Words, n <= CSE[d]
               PROVE  LET to == insert_dir(d, size)
                      IN  /\ to = d <=> size + n <= CSE[d] \/ size + n >= Span
                          /\ to \notin {d, NoDir} => size + n <= CSE[to]
                          /\ to = NoDir => \A e \in Dirs : size + n > CSE[e]
    BY DEF Admission
  <2>1. n \in Nat /\ size \in Words /\ CSE[d] \in Nat /\ n \in 0..CSE[d] /\ size + n \in Nat
    BY DatumIsWord, EvalAssumption DEF Arguments
  <2>2. /\ Admits(CSE[d], n, size) <=> size + n <= CSE[d] \/ size + n >= Span
        /\ ~Admits(CSE[d], n, size) => Plus(size, n) = size + n
    BY <2>1, AdmitsWhatFits
  <2>3. d # NoDir
    BY EvalAssumption DEF Dirs, NoDir
  <2>4. CASE Admits(CSE[d], n, size)
    <3>1. insert_dir(d, size) = d
      BY <2>4 DEF insert_dir
    <3> QED BY <2>2, <2>3, <2>4, <3>1
  <2>5. CASE ~Admits(CSE[d], n, size)
    <3>1. insert_dir(d, size) = directory(size + n)
      BY <2>2, <2>5 DEF insert_dir
    <3>2. DirectoryFits(size + n)
      BY <2>1, ChoosesWell
    <3>3. ~(size + n <= CSE[d]) /\ ~(size + n >= Span)
      BY <2>2, <2>5
    <3>4. \/ directory(size + n) = NoDir /\ \A e \in Dirs : size + n > CSE[e]
          \/ directory(size + n) # NoDir /\ size + n <= CSE[directory(size + n)]
      BY <3>2 DEF DirectoryFits, chunk_size_estimation
    <3> QED BY <2>3, <3>1, <3>3, <3>4
  <2> QED BY <2>4, <2>5
<1> QED BY <1>1, AlwaysArguments, PTL

-----------------------------------------------------------------------------
(* Packing. *)

(* Packing an address and unpacking it are inverse, for every number of     *)
(* pools, every width and every chunk number, one too large included.       *)
THEOREM PackingInverts ==
  ASSUME NEW d \in Dirs, NEW l \in Nat
  PROVE  UnpacksWhatItPacks(d, l)
<1>1. CASE l = NoAddr
  BY <1>1 DEF UnpacksWhatItPacks, global_addr
<1>2. CASE l # NoAddr
  <2>1. LocalSpan \in Nat \ {0} /\ DirCount \in Nat \ {0} /\ d \in 0..(DirCount - 1)
    BY EvalAssumption DEF Dirs
  <2>2. l % LocalSpan \in 0..(LocalSpan - 1)
    BY <2>1
  <2>3. d * LocalSpan \in Nat /\ Word \in Nat /\ d * LocalSpan <= Word - LocalSpan
    BY <2>1, Below DEF Word
  <2>4. (d * LocalSpan) % Word = d * LocalSpan
    BY <2>1, <2>3
  <2> DEFINE base == d * LocalSpan
             r == l % LocalSpan
  <2>5. global_addr(d, l) = base + r
    BY <1>2, <2>4 DEF global_addr
  <2>6. base + r \in 0..(Word - 1)
    <3>1. base \in Nat /\ r \in 0..(LocalSpan - 1) /\ base <= Word - LocalSpan
      BY <2>2, <2>3
    <3> HIDE DEF base, r
    <3> QED BY <2>1, <2>3, <3>1
  <2>7. (base + r) \div LocalSpan = d /\ (base + r) % LocalSpan = r
    <3>1. r \in 0..(LocalSpan - 1) /\ d \in Nat
      BY <2>1, <2>2
    <3>2. base = d * LocalSpan
      OBVIOUS
    <3> HIDE DEF base, r
    <3> QED BY <2>1, <3>1, <3>2, Remainders
  <2> HIDE DEF base, r
  <2>8. /\ addr_to_dir(base + r) = d
        /\ local_addr(base + r) = r
    BY <2>7 DEF addr_to_dir, local_addr
  <2> QED BY <1>2, <2>5, <2>6, <2>8 DEF UnpacksWhatItPacks, r
<1> QED BY <1>1, <1>2

(* The same in the shifts and masks of the source: a prefix of a bits and   *)
(* chunk numbers of b.                                                      *)
LEMMA ShiftsInvert ==
  ASSUME NEW a \in Nat \ {0}, NEW b \in Nat \ {0}, NEW w, w = a + b,
         NEW d \in Nat, d < 2^a, NEW l \in Nat, l < 2^b,
         NEW mask \in loc_addr_mask(a, w), NEW g \in packed(d, l, a, w, mask)
  PROVE  prefix(g, a, w) = {d} /\ Masked(mask, g) = l
<1> DEFINE A == 2^a
           B == 2^b
           W == 2^(w)
<1>1. /\ A \in Nat \ {0} /\ B \in Nat \ {0} /\ W = A * B /\ d < A /\ l < B
  <2>1. 2^(a + b) = A * B
    BY PowerSum
  <2> QED BY <2>1, PowersOfTwo
<1>2. A >= 2 /\ B >= 2
  <2>1. \A e \in Nat \ {0} : 2^e >= 2
    <3> TAKE e \in Nat \ {0}
    <3>1. 2^e = 2^1 * 2^(e - 1)
      <4>1. e - 1 \in Nat /\ 1 \in Nat /\ 1 + (e - 1) = e
        OBVIOUS
      <4>2. 2^(1 + (e - 1)) = 2^1 * 2^(e - 1)
        BY <4>1, PowerSum
      <4> QED BY <4>1, <4>2
    <3>2. 2^(e - 1) \in Nat \ {0}
      <4>1. e - 1 \in Nat
        OBVIOUS
      <4> QED BY <4>1, PowersOfTwo
    <3>3. 2^1 = 2
      BY OneBit
    <3> DEFINE h == 2^(e - 1)
    <3> HIDE DEF h
    <3> QED BY <3>1, <3>2, <3>3 DEF h
  <2> QED BY <2>1
<1>3. local_addr_len(a, w) = b /\ b < w
  BY DEF local_addr_len
<1> HIDE DEF A, B, W
<1>4. \A x : /\ ShiftLeft(x, b, w) = {(x * B) % W}
             /\ ShiftRight(x, b, w) = {x \div B}
  BY <1>3 DEF ShiftLeft, ShiftRight, B, W
<1>5. \A x \in 0..(A - 1), r \in 0..(B - 1) :
        /\ (x * B) % W = x * B
        /\ (x * B + r) \div B = x /\ (x * B + r) % B = r
  <2> TAKE x \in 0..(A - 1), r \in 0..(B - 1)
  <2>1. x \in Nat
    BY <1>1
  <2>2. x * B \in Nat /\ A * B \in Nat /\ x * B <= A * B - B
    BY <1>1, Below
  <2>3. (x * B) % W = x * B
    <3> DEFINE y == x * B
    <3>1. y \in Nat /\ W \in Nat /\ y < W
      BY <1>1, <2>2
    <3> HIDE DEF y
    <3>2. y % W = y
      BY <3>1
    <3> QED BY <3>2 DEF y
  <2> QED BY <1>1, <2>1, <2>3, Remainders
<1>6. mask = B - 1
  <2>1. W - 1 = (A - 1) * B + (B - 1)
    BY <1>1
  <2>2. A - 1 \in 0..(A - 1) /\ B - 1 \in 0..(B - 1)
    BY <1>1
  <2>3. (W - 1) \div B = A - 1 /\ ((A - 1) * B) % W = (A - 1) * B
    BY <1>5, <2>1, <2>2
  <2>4. loc_addr_mask(a, w) = {(W - 1) - (A - 1) * B}
    BY <1>3, <1>4, <2>3 DEF loc_addr_mask, W
  <2>5. (W - 1) - (A - 1) * B = B - 1
    BY <1>1
  <2> QED BY <2>4, <2>5
<1>7. g = d * B + l
  <2>1. d \in 0..(A - 1) /\ l \in 0..(B - 1) /\ 0 \in 0..(B - 1) /\ 0 \in 0..(A - 1)
    BY <1>1
  <2>2. l # W - 1
    <3>1. B \in Nat /\ A \in Nat /\ A >= 2 /\ B >= 2 /\ W = A * B
      BY <1>1, <1>2
    <3>2. A * B >= 2 * B
      BY <3>1
    <3> QED BY <1>1, <3>1, <3>2
  <2>3. Masked(mask, l) = l
    <3>1. mask + 1 = B /\ l % B = l
      BY <1>1, <1>6
    <3> QED BY <3>1 DEF Masked
  <2>4. ShiftLeft(d, b, w) = {d * B}
    BY <1>4, <1>5, <2>1
  <2>5. packed(d, l, a, w, mask) = {d * B + l}
    BY <1>3, <2>2, <2>3, <2>4 DEF packed, W
  <2> QED BY <2>5
<1>8. g \div B = d /\ g % B = l
  <2>1. d \in 0..(A - 1) /\ l \in 0..(B - 1)
    BY <1>1
  <2> QED BY <1>5, <1>7, <2>1
<1>9. mask + 1 = B
  BY <1>1, <1>6
<1> QED BY <1>3, <1>4, <1>8, <1>9 DEF prefix, Masked

(* For words of every width: what packing makes of a pool and a chunk       *)
(* number is taken apart again by the pool number's shift and the mask,     *)
(* for every prefix that is neither empty nor the whole word.               *)
THEOREM PacksAlways == Spec => []Packs
<1>1. Arguments => Packs
  <2> SUFFICES ASSUME Arguments PROVE Packs
    OBVIOUS
  <2>1. dir \in Nat /\ loc \in Nat /\ len \in Nat /\ Bits \in Nat
    BY ArithAssumption DEF Arguments
  <2>2. dir \in Dirs => UnpacksWhatItPacks(dir, loc)
    BY <2>1, PackingInverts
  <2>3. ASSUME validate(Conf), len > 0, dir < 2^len,
               NEW mask \in loc_addr_mask(len, Bits),
               NEW g \in packed(dir, loc, len, Bits, mask), loc < 2^(Bits - len)
        PROVE  prefix(g, len, Bits) = {dir} /\ Masked(mask, g) = loc
    <3>1. len < Bits
      BY <2>3 DEF validate, Conf
    <3> DEFINE b == Bits - len
    <3>2. b \in Nat \ {0} /\ len \in Nat \ {0} /\ Bits = len + b
      BY <2>1, <2>3, <3>1
    <3> HIDE DEF b
    <3>3. loc < 2^b
      BY <2>3 DEF b
    <3> QED BY <2>1, <2>3, <3>2, <3>3, ShiftsInvert
  <2> QED BY <2>2, <2>3 DEF Packs
<1> QED BY <1>1, AlwaysArguments, PTL
=============================================================================

-------------------------- MODULE BehaviorDBProofs --------------------------
(***************************************************************************)
(* The inductive invariant of BehaviorDB, and what follows from it, for    *)
(* every number of pools and ids, all data, and any number of crashes and  *)
(* failing writes; behind it, in the last part of the module, those of     *)
(* NtApi, whose actions work on the same state.                            *)
(***************************************************************************)
EXTENDS NtApi, Numbers, SequenceTheorems

GidP == INSTANCE IdTableProofs WITH Cap <- GidCap, InitSize <- GidInit
ChkP == INSTANCE IdTableProofs WITH Cap <- PoolCap, InitSize <- PoolInit

(* The limits inside which an address has room for every chunk number and a *)
(* position for every chunk.                                                *)
Roomy ==
  /\ PoolCap <= LocalSpan
  /\ \A d \in Dirs : CSE[d] > 0 /\ PoolCap <= PosSpan \div CSE[d]

-----------------------------------------------------------------------------
(* The shape of the state. *)

Signs == Symbols \cup {None}
Texts == Seq(Signs)
Addresses == {Address(q) : q \in Places}

PoolStates ==
  [bm : Chk!Bitmaps, size : [Chunks -> Nat \cup {None}], hi : 0..PoolCap]

IdStates ==
  [bm : Gid!Bitmaps, tab : [Ids -> Addresses \cup {None}], hi : 0..GidCap]

Shape ==
  /\ gids \in IdStates
  /\ pools \in [Dirs -> PoolStates]
  /\ file \in [Dirs -> [Chunks -> Texts]]
  /\ want \in [Ids -> Texts \cup {None}]
  /\ hurt \in BOOLEAN
  /\ crashes \in Nat

(* The marks bound what is in use, in memory and in the log. *)
Marks ==
  /\ gids.bm.top <= gids.bm.size
  /\ \A d \in Dirs :
       /\ pools[d].bm.top <= pools[d].bm.size
       /\ \A l \in pools[d].bm.used : l < pools[d].bm.top
       /\ \A l \in Chunks : pools[d].size[l] # None => l < pools[d].hi

(* The bitmaps agree with the rows, but for the ids S and the places T that *)
(* the present call has acquired and not committed.                         *)
Matches(S, T) ==
  /\ \A i \in Ids : Known(i) <=> HasRow(i) \/ i \in S
  /\ \A r \in Places : Acquired(r) <=> SizeAt(r) # None \/ r \in T

(* No crash has damaged an id (a failed write may have). *)
Clean == crashes = 0 \/ ~hurt

(* The id has a row, and the row names the place r. *)
LeadsTo(i, r) == HasRow(i) /\ PlaceOf(i) = r

(* Ids lead to places of their own that hold a datum, except the ids in     *)
(* Open; no id leads to a place in Fresh; without a crash every other place *)
(* with a datum belongs to an id, or is known to K.                         *)
(*                                                                          *)
(* K says what is kept beside the ids: for a place a datum, or another mark *)
(* that it is taken, or None.  For BehaviorDB alone there is nothing; the   *)
(* clients of the nt_ calls keep such places.                               *)
Structure(K, Open, Fresh) ==
  Clean =>
    /\ \A i \in Ids \ Open, r \in Places : LeadsTo(i, r) => SizeAt(r) # None
    /\ \A i, j \in Ids, r \in Places : LeadsTo(i, r) /\ LeadsTo(j, r) => i = j
    /\ \A i \in Ids, r \in Fresh : ~LeadsTo(i, r)
    /\ crashes = 0 =>
         \A r \in Places : SizeAt(r) # None /\ r \notin Fresh /\ K[r] = None =>
           \E i \in Ids : LeadsTo(i, r)

FileAt(r) == file[r.dir][r.loc]

(* The id reads back what it should. *)
Reads(i) ==
  /\ \A r \in Places : LeadsTo(i, r) => BytesAt(r) = want[i]
  /\ ~HasRow(i) => want[i] = None

(* What is kept beside the ids is in places no call and no id has to do     *)
(* with, and reads back.                                                    *)
Others(K, Fresh) ==
  \A r \in Places : K[r] # None =>
    /\ r \notin Fresh
    /\ SizeAt(r) # None
    /\ \A i \in Ids : ~LeadsTo(i, r)
    /\ K[r] \in Texts => BytesAt(r) = K[r]

(* What is kept beside the ids where there is only BehaviorDB.              *)
Nobody == [p \in Places |-> None]

Store(K, S, T, Open, Fresh, Hot) ==
  /\ Matches(S, T)
  /\ Structure(K, Open, Fresh)
  /\ ~hurt => (\A i \in Ids \ Hot : Reads(i)) /\ Others(K, Fresh)

(* What the durable steps make of the tables. *)
Sized(q, n) == [pools EXCEPT ![q.dir].size[q.loc] = n,
                             ![q.dir].hi = IF q.loc >= @ THEN q.loc + 1 ELSE @]

Freed(q) == [pools EXCEPT ![q.dir].bm = Chk!LetGo(@, q.loc), ![q.dir].size[q.loc] = None]

Bound(i, a) == [gids EXCEPT !.tab[i] = a, !.hi = IF i >= @ THEN i + 1 ELSE @]

Unbound(i) == [gids EXCEPT !.bm = Gid!LetGo(@, i), !.tab[i] = None]

(* What the id i should read back becomes x. *)
Marked(i, x) == [want EXCEPT ![i] = x]

-----------------------------------------------------------------------------
(* The places a call can be at. *)

JobIs(call, id, datum, effect, hot, todo) ==
  job = [call |-> call, id |-> id, datum |-> datum, effect |-> effect, hot |-> hot,
         todo |-> todo]

(* The calls that write a datum to a fresh chunk q; p is the old chunk.      *)
FreshCalls == {"put", "insert", "move"}

(* The id such a call acquired itself. *)
OwnId(c, i) == IF c = "put" THEN {i} ELSE {}

Publishing(c, p, q) ==
  IF c = "put" THEN <<Bind(Address(q))>>
  ELSE IF c = "insert" THEN <<FreeChunk(p), Bind(Address(q))>>
  ELSE <<Bind(Address(q)), FreeChunk(p)>>

Sizing(c, p, q, n) ==
  IF c = "put" THEN <<SetSize(q, n), Bind(Address(q))>>
  ELSE IF c = "insert" THEN <<SetSize(q, n), FreeChunk(p), Bind(Address(q))>>
  ELSE <<SetSize(q, n), Bind(Address(q)), FreeChunk(p)>>

Writing(c, p, q, x) ==
  IF c = "put" THEN <<Bytes(q, 0, x), SetSize(q, Len(x)), Bind(Address(q))>>
  ELSE IF c = "insert"
  THEN <<Bytes(q, 0, x), SetSize(q, Len(x)), FreeChunk(p), Bind(Address(q))>>
  ELSE <<Bytes(q, 0, x), SetSize(q, Len(x)), Bind(Address(q)), FreeChunk(p)>>

(* The id has no row, or leads to p where its old datum is. *)
Before(c, i, p) ==
  IF c = "put" THEN ~HasRow(i)
  ELSE LeadsTo(i, p) /\ (c = "insert" \/ Clean => SizeAt(p) # None)

(* Only an update does not ask whether the old chunk is in use.             *)
Apart(c, p, q) == c = "insert" \/ (c = "move" /\ Clean) => p # q

(* A call c about id i that moves it to q: before the bytes, before the     *)
(* size, before the id.                                                     *)
ToWrite(K, c, i, p, q, x) ==
  /\ JobIs(c, i, x, "bind", FALSE, Writing(c, p, q, x))
  /\ Before(c, i, p) /\ SizeAt(q) = None
  /\ Store(K, OwnId(c, i), {q}, {}, {q}, {})

ToSize(K, c, i, p, q, x) ==
  /\ JobIs(c, i, x, "bind", FALSE, Sizing(c, p, q, Len(x)))
  /\ Before(c, i, p) /\ SizeAt(q) = None
  /\ FirstBytes(FileAt(q), Len(x)) = x
  /\ Store(K, OwnId(c, i), {q}, {}, {q}, {})

ToPublish(K, c, i, p, q, x) ==
  /\ JobIs(c, i, x, "bind", FALSE, Publishing(c, p, q))
  /\ Before(c, i, p) /\ SizeAt(q) # None /\ Apart(c, p, q)
  /\ BytesAt(q) = x
  /\ Store(K, OwnId(c, i), {}, {}, {q}, {})

(* An insertion that has freed the old chunk. *)
ToRebind(K, i, q, x) ==
  /\ JobIs("insert", i, x, "bind", TRUE, <<Bind(Address(q))>>)
  /\ HasRow(i) /\ SizeAt(q) # None
  /\ \A r \in Places : LeadsTo(i, r) => SizeAt(r) = None
  /\ BytesAt(q) = x
  /\ Store(K, {}, {}, {i}, {q}, {i})

(* An update that has bound the id to the new chunk and still has the old. *)
ToDiscard(K, i, p, x) ==
  /\ JobIs("move", i, x, "none", FALSE, <<FreeChunk(p)>>)
  /\ Store(K, {}, {}, {}, {p}, {})

(* The calls that change the datum in its chunk p. *)
EditCalls == {"replace", "erase"}

Holds(i, p) == LeadsTo(i, p) /\ SizeAt(p) # None

Editing(c, p, at, y, n, a) ==
  IF c = "replace" THEN <<Bytes(p, at, y), SetSize(p, n)>>
  ELSE <<Bytes(p, at, y), SetSize(p, n), Bind(a)>>

Resizing(c, p, n, a) ==
  IF c = "replace" THEN <<SetSize(p, n)>> ELSE <<SetSize(p, n), Bind(a)>>

ToEdit(K, c, i, p, x, at, y, n) ==
  /\ JobIs(c, i, x, "size", FALSE, Editing(c, p, at, y, n, gids.tab[i]))
  /\ at \in Nat /\ n \in Nat /\ y \in Texts
  /\ Holds(i, p)
  /\ FirstBytes(Over(FileAt(p), at, y), n) = x
  /\ Store(K, {}, {}, {}, {}, {})

ToResize(K, c, i, p, x, n, h) ==
  /\ JobIs(c, i, x, "size", h, Resizing(c, p, n, gids.tab[i]))
  /\ n \in Nat /\ h \in BOOLEAN
  /\ Holds(i, p)
  /\ FirstBytes(FileAt(p), n) = x
  /\ Store(K, {}, {}, {}, {}, IF h THEN {i} ELSE {})

(* The erase writes the row of the id once more, as it is. *)
ToConfirm(K, i, x, e) ==
  /\ JobIs("erase", i, x, e, FALSE, <<Bind(gids.tab[i])>>)
  /\ e = "none" \/ (e = "bind" /\ x = want[i])
  /\ HasRow(i)
  /\ Store(K, {}, {}, {}, {}, {})

(* The del before and after it frees the chunk. *)
ToFree(K, i, p) ==
  /\ JobIs("del", i, None, "unbind", FALSE, <<FreeChunk(p), Unbind>>)
  /\ Holds(i, p)
  /\ Store(K, {}, {}, {}, {}, {})

ToUnbind(K, i) ==
  /\ JobIs("del", i, None, "unbind", TRUE, <<Unbind>>)
  /\ HasRow(i)
  /\ \A r \in Places : LeadsTo(i, r) => SizeAt(r) = None
  /\ Store(K, {}, {}, {i}, {}, {i})

AtRest(K) == job = NoJob /\ Store(K, {}, {}, {}, {}, {})

Moving(K, x) ==
  \E c \in FreshCalls, i \in Ids, p, q \in Places :
    ToWrite(K, c, i, p, q, x) \/ ToSize(K, c, i, p, q, x) \/ ToPublish(K, c, i, p, q, x)

Settling(K, x) == \E i \in Ids, p \in Places : ToRebind(K, i, p, x) \/ ToDiscard(K, i, p, x)

Changing(K, x) ==
  \/ /\ Due("bytes")
     /\ \E c \in EditCalls, i \in Ids, p \in Places, at \in {Head(job.todo).at},
           y \in {Head(job.todo).data}, n \in {job.todo[2].size} :
          ToEdit(K, c, i, p, x, at, y, n)
  \/ /\ Due("size")
     /\ \E c \in EditCalls, i \in Ids, p \in Places, n \in {Head(job.todo).size},
           h \in BOOLEAN :
          ToResize(K, c, i, p, x, n, h)

Confirming(K, x) == \E i \in Ids, e \in {"none", "bind"} : ToConfirm(K, i, x, e)

Deleting(K) == \E i \in Ids : (\E p \in Places : ToFree(K, i, p)) \/ ToUnbind(K, i)

Stage(K) ==
  \/ AtRest(K)
  \/ Deleting(K)
  \/ \E x \in {job.datum} : \/ x \in Texts /\ (Moving(K, x) \/ Settling(K, x) \/ Changing(K, x))
                            \/ x \in Texts \cup {None} /\ Confirming(K, x)

BInv(K) == Shape /\ Marks /\ Stage(K)

-----------------------------------------------------------------------------
(* Addresses and places. *)

(* What the assumptions say of the constants.                               *)
LEMMA Constants ==
  /\ PoolCap \in Nat \ {0} /\ PoolInit \in 1..PoolCap
  /\ GidCap \in Nat \ {0} /\ GidInit \in 1..GidCap
  /\ None \notin Int /\ 0 \in Nat
  /\ Ids = 0..(GidCap - 1) /\ Chunks = 0..(PoolCap - 1)
  /\ GidP!TableAssumption /\ ChkP!TableAssumption
BY StoreAssumption DEF Ids, Chunks, Gid!Offs, Chk!Offs, GidP!TableAssumption,
                       ChkP!TableAssumption

(* An address is a word, and packs and unpacks its place.                   *)
LEMMA AddressFacts ==
  ASSUME Roomy, NEW q \in Places
  PROVE  /\ Address(q) \in Nat
         /\ Address(q) \in 0..(Word - 1)
         /\ Address(q) # None
         /\ [dir |-> addr_to_dir(Address(q)), loc |-> local_addr(Address(q))] = q
<1>1. /\ LocalSpan \in Nat \ {0} /\ DirCount \in Nat \ {0, 1} /\ q.dir \in 0..(DirCount - 1)
      /\ q.loc \in 0..(LocalSpan - 1)
      /\ q = [dir |-> q.dir, loc |-> q.loc]
  BY EvalAssumption, Constants DEF Roomy, Places, Dirs
<1>2. /\ q.dir * LocalSpan \in Nat /\ Word \in Nat
      /\ q.dir * LocalSpan <= Word - LocalSpan
  BY <1>1, Below DEF Word
<1>3. (q.dir * LocalSpan) % Word = q.dir * LocalSpan
  BY <1>1, <1>2
<1>4. q.loc # NoAddr
  <2>1. 1 * LocalSpan <= Word - LocalSpan
    BY <1>1, Below DEF Word
  <2> QED BY <1>1, <1>2, <2>1 DEF NoAddr
<1>5. q.loc % LocalSpan = q.loc
  BY <1>1
<1>6. Address(q) = q.dir * LocalSpan + q.loc
  BY <1>3, <1>4, <1>5 DEF Address, global_addr
<1>7. Address(q) \in Nat /\ Address(q) \in 0..(Word - 1)
  BY <1>1, <1>2, <1>6
<1>8. Address(q) \div LocalSpan = q.dir /\ Address(q) % LocalSpan = q.loc
  BY <1>1, <1>6, Remainders
<1> QED BY <1>1, <1>7, <1>8, Constants DEF addr_to_dir, local_addr

(* A row leads to a place, and says nothing but that place. *)
LEMMA RowFacts ==
  ASSUME Roomy, Shape, NEW i \in Ids, HasRow(i)
  PROVE  /\ PlaceOf(i) \in Places
         /\ gids.tab[i] \in Addresses
<1>1. gids.tab[i] \in Addresses
  BY DEF Shape, IdStates, HasRow
<1>2. PICK q \in Places : gids.tab[i] = Address(q)
  BY <1>1 DEF Addresses
<1>3. PlaceOf(i) = q
  BY <1>2, AddressFacts DEF PlaceOf
<1> QED BY <1>1, <1>3

(* A gathered write lands where the chunk is. *)
LEMMA LandingFacts ==
  ASSUME Roomy, NEW q \in Places
  PROVE  Landed(q) = q
<1>1. q = [dir |-> q.dir, loc |-> q.loc] /\ q.loc \in 0..(PoolCap - 1) /\ q.dir \in Dirs
  BY Constants DEF Places
<1> DEFINE n == PosSpan \div CSE[q.dir]
<1>2. n \in Nat /\ PoolCap <= n
  BY <1>1, EvalAssumption, StoreAssumption DEF Roomy
<1> HIDE DEF n
<1>3. q.loc % n = q.loc
  BY <1>1, <1>2, Constants
<1>4. Landed(q) = [q EXCEPT !.loc = @ % n]
  BY DEF Landed, n
<1> QED BY <1>1, <1>3, <1>4

-----------------------------------------------------------------------------
(* Bytes. *)

(* FirstBytes has the length asked for and pads with None.                  *)
LEMMA FirstFacts ==
  ASSUME NEW f \in Texts, NEW n \in Nat
  PROVE  /\ FirstBytes(f, n) \in Texts
         /\ Len(FirstBytes(f, n)) = n
         /\ \A k \in 1..n : FirstBytes(f, n)[k] = IF k <= Len(f) THEN f[k] ELSE None
         /\ FirstBytes(FirstBytes(f, n), n) = FirstBytes(f, n)
<1>1. ASSUME NEW g \in Texts
      PROVE  FirstBytes(g, n) \in [1..n -> Signs]
  BY <1>1 DEF FirstBytes, Texts, Signs
<1>2. \A g \in [1..n -> Signs] : g \in Seq(Signs) /\ Len(g) = n
  OBVIOUS
<1>3. FirstBytes(f, n) \in Texts /\ Len(FirstBytes(f, n)) = n
  BY <1>1, <1>2 DEF Texts
<1>4. \A k \in 1..n : FirstBytes(f, n)[k] = IF k <= Len(f) THEN f[k] ELSE None
  BY DEF FirstBytes
<1>5. FirstBytes(FirstBytes(f, n), n) = FirstBytes(f, n)
  <2>1. \A k \in 1..n : FirstBytes(FirstBytes(f, n), n)[k] = FirstBytes(f, n)[k]
    BY <1>3, <1>4 DEF FirstBytes
  <2>2. FirstBytes(f, n) \in [1..n -> Signs]
    BY <1>1
  <2>3. FirstBytes(FirstBytes(f, n), n) \in [1..n -> Signs]
    BY <1>1, <1>3
  <2> QED BY <2>1, <2>2, <2>3
<1> QED BY <1>3, <1>4, <1>5

(* The first Len(x) bytes of what begins with x are x. *)
LEMMA PrefixFacts ==
  ASSUME NEW x \in Texts, NEW y \in Texts
  PROVE  FirstBytes(x \o y, Len(x)) = x
<1>1. Len(x) \in Nat /\ x \in [1..Len(x) -> Signs]
  BY DEF Texts
<1>2. /\ x \o y \in Texts
      /\ Len(x \o y) = Len(x) + Len(y)
      /\ \A k \in 1..Len(x) : (x \o y)[k] = x[k]
  BY <1>1 DEF Texts
<1>3. Len(y) \in Nat
  BY DEF Texts
<1>4. ASSUME NEW k \in 1..Len(x) PROVE FirstBytes(x \o y, Len(x))[k] = x[k]
  <2>1. k <= Len(x \o y) /\ (x \o y)[k] = x[k]
    BY <1>1, <1>2, <1>3
  <2> QED BY <1>1, <1>2, <2>1 DEF FirstBytes
<1>5. FirstBytes(x \o y, Len(x)) \in Texts /\ Len(FirstBytes(x \o y, Len(x))) = Len(x)
  BY <1>1, <1>2, FirstFacts
<1>6. FirstBytes(x \o y, Len(x)) \in [1..Len(x) -> Signs]
  BY <1>5 DEF Texts
<1> QED BY <1>1, <1>4, <1>6

(* Writing x at a position keeps what lies before it.                       *)
LEMMA OverFacts ==
  ASSUME NEW f \in Texts, NEW at \in Nat, NEW x \in Texts
  PROVE  /\ Over(f, at, x) \in Texts
         /\ FirstBytes(Over(f, at, x), at + Len(x)) = FirstBytes(f, at) \o x
<1> DEFINE a == FirstBytes(f, at)
           r == SubSeq(f, at + Len(x) + 1, Len(f))
<1>1. a \in Texts /\ Len(a) = at
  BY FirstFacts
<1>2. r \in Texts
  BY DEF Texts
<1>3. a \o x \in Texts /\ Len(a \o x) = at + Len(x)
  BY <1>1 DEF Texts
<1>4. Over(f, at, x) = (a \o x) \o r
  BY DEF Over
<1> HIDE DEF a, r
<1>5. (a \o x) \o r \in Texts
  BY <1>2, <1>3 DEF Texts
<1>6. FirstBytes((a \o x) \o r, at + Len(x)) = a \o x
  BY <1>2, <1>3, PrefixFacts
<1> QED BY <1>4, <1>5, <1>6 DEF a

(* A whole datum written to a chunk reads back. *)
LEMMA WholeFacts ==
  ASSUME NEW f \in Texts, NEW x \in Texts
  PROVE  FirstBytes(Over(f, 0, x), Len(x)) = x
<1>1. FirstBytes(Over(f, 0, x), 0 + Len(x)) = FirstBytes(f, 0) \o x
  BY OverFacts
<1>2. FirstBytes(f, 0) = << >>
  BY DEF FirstBytes
<1>3. << >> \o x = x
  BY DEF Texts
<1>4. Len(x) \in Nat
  BY DEF Texts
<1>5. 0 + Len(x) = Len(x)
  BY <1>4
<1> QED BY <1>1, <1>2, <1>3, <1>5

(* What an insertion makes of a datum has the length the header is given.   *)
LEMMA SpliceFacts ==
  ASSUME NEW f \in Texts, NEW at \in 0..Len(f), NEW x \in Texts
  PROVE  /\ Splice(f, at, x) \in Texts
         /\ Len(Splice(f, at, x)) = Len(f) + Len(x)
<1> DEFINE a == SubSeq(f, 1, at)
           r == SubSeq(f, at + 1, Len(f))
<1>1. at \in Nat /\ Len(f) \in Nat /\ Len(x) \in Nat /\ at <= Len(f)
  BY DEF Texts
<1>2. a \in Texts /\ Len(a) = at
  BY <1>1 DEF Texts
<1>3. r \in Texts /\ Len(r) = Len(f) - at
  <2>1. \A k \in (at + 1)..Len(f) : f[k] \in Signs
    BY <1>1 DEF Texts
  <2>2. /\ at + 1 \in Int /\ Len(f) \in Int
        /\ (IF at + 1 <= Len(f) THEN Len(f) - (at + 1) + 1 ELSE 0) = Len(f) - at
    BY <1>1
  <2> QED BY <2>1, <2>2, SubSeqProperties DEF Texts
<1>4. Splice(f, at, x) = (a \o x) \o r
  BY DEF Splice
<1> HIDE DEF a, r
<1>5. a \o x \in Texts /\ Len(a \o x) = at + Len(x)
  BY <1>1, <1>2 DEF Texts
<1>6. (a \o x) \o r \in Texts /\ Len((a \o x) \o r) = Len(a \o x) + Len(r)
  BY <1>3, <1>5, ConcatProperties DEF Texts
<1>7. (at + Len(x)) + (Len(f) - at) = Len(f) + Len(x)
  BY <1>1
<1> QED BY <1>3, <1>4, <1>5, <1>6, <1>7

(* The head of a text, seen from what begins with it. *)
LEMMA HeadOfFirst ==
  ASSUME NEW f \in Texts, NEW n \in Nat, NEW m \in 0..n
  PROVE  SubSeq(FirstBytes(f, n), 1, m) = FirstBytes(f, m)
<1> DEFINE B == FirstBytes(f, n)
<1>1. B \in Texts /\ Len(B) = n /\ m \in Nat /\ m <= n
  BY FirstFacts
<1>2. \A k \in 1..m : B[k] = FirstBytes(f, m)[k]
  BY <1>1 DEF FirstBytes
<1>3. FirstBytes(f, m) \in Texts /\ Len(FirstBytes(f, m)) = m
  BY <1>1, FirstFacts
<1> HIDE DEF B
<1>4. /\ SubSeq(B, 1, m) \in Texts
      /\ Len(SubSeq(B, 1, m)) = m
      /\ \A k \in 1..m : SubSeq(B, 1, m)[k] = B[k]
  <2>1. \A k \in 1..m : B[k] \in Signs
    BY <1>1 DEF Texts
  <2>2. 1 \in Int /\ m \in Int /\ (IF 1 <= m THEN m - 1 + 1 ELSE 0) = m
        /\ \A k \in 1..m : k \in 1..(m - 1 + 1) /\ 1 + k - 1 = k
    BY <1>1
  <2> QED BY <2>1, <2>2, SubSeqProperties DEF Texts
<1>5. SubSeq(B, 1, m) \in [1..m -> Signs]
  BY <1>4, LenProperties DEF Texts
<1>6. FirstBytes(f, m) \in [1..m -> Signs]
  BY <1>3 DEF Texts
<1>7. SubSeq(B, 1, m) = FirstBytes(f, m)
  BY <1>2, <1>4, <1>5, <1>6
<1> QED BY <1>7 DEF B

(* The steps of a partial del leave what it should, moved down or cut off.  *)
LEMMA ErasedFacts ==
  ASSUME NEW f \in Texts, NEW n \in Nat, NEW off \in 0..n, NEW size \in Nat \ {0}
  PROVE  LET B == FirstBytes(f, n)
             k == Erased(n, off, size)
             tail == SubSeq(B, off + k + 1, n)
             x == SubSeq(B, 1, off) \o SubSeq(B, off + size + 1, n)
         IN  /\ n - k \in Nat
             /\ x \in Texts /\ tail \in Texts
             /\ tail = << >> => FirstBytes(f, n - k) = x
             /\ tail # << >> => FirstBytes(Over(f, off, tail), n - k) = x
<1> DEFINE B == FirstBytes(f, n)
           k == Erased(n, off, size)
           tail == SubSeq(B, off + k + 1, n)
           last == SubSeq(B, off + size + 1, n)
           first == FirstBytes(f, off)
<1>1. off \in Nat /\ off <= n /\ off + size > off
  OBVIOUS
<1>2. B \in Texts /\ Len(B) = n
  BY FirstFacts
<1>3. SubSeq(B, 1, off) = first /\ first \in Texts /\ Len(first) = off
  BY <1>1, HeadOfFirst, FirstFacts
<1>4. k \in Nat /\ off + k <= n /\ (k = size \/ (k = n - off /\ off + size > n))
  BY <1>1 DEF Erased
<1> HIDE DEF B, k, first
<1>5. tail \in Texts /\ Len(tail) = n - (off + k)
  BY <1>1, <1>2, <1>4 DEF Texts
<1>6. last = tail
  <2>1. CASE k = size
    BY <2>1
  <2>2. CASE k = n - off /\ off + size > n
    <3>1. Len(tail) = 0
      BY <1>4, <1>5, <2>2
    <3>2. last = << >>
      BY <1>1, <2>2, SubSeqEmpty
    <3> QED BY <1>5, <3>1, <3>2, EmptySeq DEF Texts
  <2> QED BY <1>4, <2>1, <2>2
<1> HIDE DEF tail, last
<1>7. n - k \in Nat
  BY <1>1, <1>4
<1>8. CASE tail = << >>
  <2>1. n - k = off
    BY <1>1, <1>4, <1>5, <1>8
  <2>2. first \o last = first
    BY <1>3, <1>6, <1>8 DEF Texts
  <2>3. FirstBytes(f, n - k) = first \o last
    BY <2>1, <2>2 DEF first
  <2> QED BY <1>3, <1>5, <1>7, <1>8, <2>2, <2>3 DEF B, k, tail, last
<1>9. CASE tail # << >>
  <2>1. n - k = off + Len(tail)
    BY <1>1, <1>4, <1>5
  <2>2. FirstBytes(Over(f, off, tail), n - k) = first \o tail
    <3>1. FirstBytes(Over(f, off, tail), off + Len(tail)) = first \o tail
      BY <1>1, <1>5, OverFacts DEF first
    <3> QED BY <2>1, <3>1
  <2>3. first \o last \in Texts
    BY <1>3, <1>5, <1>6 DEF Texts
  <2> QED BY <1>3, <1>5, <1>6, <1>7, <1>9, <2>2, <2>3 DEF B, k, tail, last
<1> QED BY <1>8, <1>9

-----------------------------------------------------------------------------
(* Tuples. *)

(* Head, tail and second step of short lists of steps.                      *)
LEMMA Tuple1 ==
  ASSUME NEW a PROVE <<a>> # << >> /\ Head(<<a>>) = a /\ Tail(<<a>>) = << >>
OBVIOUS

(* The same of two steps.                                                   *)
LEMMA Tuple2 ==
  ASSUME NEW a, NEW b
  PROVE  /\ <<a, b>> # << >> /\ Head(<<a, b>>) = a /\ Tail(<<a, b>>) = <<b>>
         /\ <<a, b>>[2] = b
OBVIOUS

(* The same of three.                                                       *)
LEMMA Tuple3 ==
  ASSUME NEW a, NEW b, NEW c
  PROVE  /\ <<a, b, c>> # << >> /\ Head(<<a, b, c>>) = a /\ Tail(<<a, b, c>>) = <<b, c>>
         /\ <<a, b, c>>[2] = b
OBVIOUS

(* The same of four.                                                        *)
LEMMA Tuple4 ==
  ASSUME NEW a, NEW b, NEW c, NEW d
  PROVE  /\ <<a, b, c, d>> # << >> /\ Head(<<a, b, c, d>>) = a
         /\ Tail(<<a, b, c, d>>) = <<b, c, d>>
         /\ <<a, b, c, d>>[2] = b
OBVIOUS

(* Short lists of steps joined.                                             *)
LEMMA Joined ==
  ASSUME NEW a, NEW b, NEW c
  PROVE  /\ << >> \o <<a>> = <<a>>
         /\ <<a>> \o <<b>> = <<a, b>>
         /\ <<a, b>> \o <<c>> = <<a, b, c>>
<1> DEFINE T == {a, b, c}
<1>1. /\ <<a>> \in Seq(T) /\ <<b>> \in Seq(T) /\ <<c>> \in Seq(T) /\ << >> \in Seq(T)
      /\ <<a, b>> \in Seq(T) /\ <<a, b, c>> \in Seq(T)
  OBVIOUS
<1>2. << >> \o <<a>> = <<a>>
  BY <1>1, ConcatEmptySeq
<1>3. <<a>> \o <<b>> = <<a, b>>
  <2>1. /\ <<a>> \o <<b>> \in Seq(T) /\ Len(<<a>> \o <<b>>) = 2
        /\ (<<a>> \o <<b>>)[1] = a /\ (<<a>> \o <<b>>)[2] = b
    BY <1>1
  <2>2. Len(<<a, b>>) = 2 /\ <<a, b>>[1] = a /\ <<a, b>>[2] = b
    OBVIOUS
  <2>3. \A k \in 1..2 : (<<a>> \o <<b>>)[k] = <<a, b>>[k]
    BY <2>1, <2>2
  <2> HIDE DEF T
  <2> QED BY <1>1, <2>1, <2>2, <2>3, SeqEqual
<1>4. <<a, b>> \o <<c>> = <<a, b, c>>
  <2>1. /\ <<a, b>> \o <<c>> \in Seq(T) /\ Len(<<a, b>> \o <<c>>) = 3
        /\ (<<a, b>> \o <<c>>)[1] = a /\ (<<a, b>> \o <<c>>)[2] = b
        /\ (<<a, b>> \o <<c>>)[3] = c
    BY <1>1
  <2>2. Len(<<a, b, c>>) = 3 /\ <<a, b, c>>[1] = a /\ <<a, b, c>>[2] = b /\ <<a, b, c>>[3] = c
    OBVIOUS
  <2>3. \A k \in 1..3 : (<<a, b>> \o <<c>>)[k] = <<a, b, c>>[k]
    BY <2>1, <2>2
  <2> HIDE DEF T
  <2> QED BY <1>1, <2>1, <2>2, <2>3, SeqEqual
<1> QED BY <1>2, <1>3, <1>4

-----------------------------------------------------------------------------
(* The job. *)

(* The fields of the present call.                                          *)
LEMMA JobFields ==
  ASSUME NEW c, NEW i, NEW x, NEW e, NEW h, NEW t, JobIs(c, i, x, e, h, t)
  PROVE  /\ job.call = c /\ job.id = i /\ job.datum = x /\ job.effect = e
         /\ job.hot = h /\ job.todo = t
BY DEF JobIs

(* What a durable step leaves of the call. *)
LEMMA AdvanceSame ==
  ASSUME NEW c, NEW i, NEW x, NEW e, NEW h, NEW t, JobIs(c, i, x, e, h, t), Advance
  PROVE  UNCHANGED <<out, hurt, crashes>>
BY DEF Advance

(* The last step. *)
LEMMA AdvanceEnds ==
  ASSUME NEW c, NEW i, NEW x, NEW e, NEW h, NEW t, JobIs(c, i, x, e, h, t), Advance,
         Tail(t) = << >>
  PROVE  job' = NoJob
BY JobFields DEF Advance

(* The step that makes the datum what the id reads back. *)
LEMMA AdvanceMarks ==
  ASSUME NEW c, NEW i, NEW x, NEW e, NEW h, NEW t, JobIs(c, i, x, e, h, t), Advance,
         Head(t).do = e
  PROVE  /\ want' = Marked(i, x)
         /\ Tail(t) # << >> => JobIs(c, i, x, "none", FALSE, Tail(t))'
<1>1. /\ job.call = c /\ job.id = i /\ job.datum = x /\ job.effect = e
      /\ job.hot = h /\ job.todo = t
      /\ job = [call |-> c, id |-> i, datum |-> x, effect |-> e, hot |-> h, todo |-> t]
  BY JobFields DEF JobIs
<1>2. want' = Marked(i, x)
  BY <1>1 DEF Advance, Marked
<1>3. ASSUME Tail(t) # << >> PROVE JobIs(c, i, x, "none", FALSE, Tail(t))'
  <2>1. job' = [job EXCEPT !.todo = Tail(t), !.effect = "none", !.hot = FALSE]
    BY <1>1, <1>3 DEF Advance
  <2>2. job' = [call |-> c, id |-> i, datum |-> x, effect |-> "none", hot |-> FALSE,
                todo |-> Tail(t)]
    BY <1>1, <2>1
  <2> QED BY <2>2 DEF JobIs
<1> QED BY <1>2, <1>3

(* Any other step. *)
LEMMA AdvancePasses ==
  ASSUME NEW c, NEW i, NEW x, NEW e, NEW h, NEW t, JobIs(c, i, x, e, h, t), Advance,
         Head(t).do # e
  PROVE  want' = want
BY JobFields DEF Advance

(* A step that destroys nothing leaves the id safe.                         *)
LEMMA AdvanceQuiet ==
  ASSUME NEW c, NEW i, NEW x, NEW e, NEW t, JobIs(c, i, x, e, FALSE, t), Advance,
         Head(t).do # e, ~Destroys(Head(t)), Tail(t) # << >>
  PROVE  JobIs(c, i, x, e, FALSE, Tail(t))'
<1>1. /\ job.call = c /\ job.id = i /\ job.datum = x /\ job.effect = e
      /\ job.hot = FALSE /\ job.todo = t
      /\ job = [call |-> c, id |-> i, datum |-> x, effect |-> e, hot |-> FALSE, todo |-> t]
  BY JobFields DEF JobIs
<1>2. job' = [job EXCEPT !.todo = Tail(t), !.effect = e,
                !.hot = e # "none" /\ (job.hot \/ Destroys(Head(t)))]
  BY <1>1 DEF Advance
<1>3. (e # "none" /\ (job.hot \/ Destroys(Head(t)))) = FALSE
  BY <1>1, Zenon
<1>4. job' = [call |-> c, id |-> i, datum |-> x, effect |-> e, hot |-> FALSE, todo |-> Tail(t)]
  BY <1>1, <1>2, <1>3
<1> QED BY <1>4 DEF JobIs

(* A step that destroys the old datum puts the id at risk.                  *)
LEMMA AdvanceHot ==
  ASSUME NEW c, NEW i, NEW x, NEW e, NEW t, JobIs(c, i, x, e, FALSE, t), Advance,
         Head(t).do # e, e # "none", Destroys(Head(t)), Tail(t) # << >>
  PROVE  JobIs(c, i, x, e, TRUE, Tail(t))'
<1>1. /\ job.call = c /\ job.id = i /\ job.datum = x /\ job.effect = e
      /\ job.hot = FALSE /\ job.todo = t
      /\ job = [call |-> c, id |-> i, datum |-> x, effect |-> e, hot |-> FALSE, todo |-> t]
  BY JobFields DEF JobIs
<1>2. job' = [job EXCEPT !.todo = Tail(t), !.effect = e,
                !.hot = e # "none" /\ (job.hot \/ Destroys(Head(t)))]
  BY <1>1 DEF Advance
<1>3. (e # "none" /\ (job.hot \/ Destroys(Head(t)))) = TRUE
  BY <1>1, Zenon
<1>4. job' = [call |-> c, id |-> i, datum |-> x, effect |-> e, hot |-> TRUE, todo |-> Tail(t)]
  BY <1>1, <1>2, <1>3
<1> QED BY <1>4 DEF JobIs

-----------------------------------------------------------------------------
(* What each durable step does to the tables and the files. *)

(* The parts of a place, which identify it.                                 *)
LEMMA PlaceParts ==
  ASSUME NEW q \in Places
  PROVE  /\ q.dir \in Dirs /\ q.loc \in Chunks /\ q.loc \in Nat
         /\ \A r \in Places : r = q \/ r.dir # q.dir \/ r.loc # q.loc
BY Constants DEF Places

(* The types of the tables of one pool.                                     *)
LEMMA PoolParts ==
  ASSUME Shape, NEW d \in Dirs
  PROVE  /\ pools[d] \in PoolStates
         /\ pools[d].bm \in Chk!Bitmaps
         /\ pools[d].bm.used \subseteq Chunks
         /\ pools[d].bm.top \in Nat /\ pools[d].bm.size \in Nat
         /\ file[d] \in [Chunks -> Texts]
         /\ \A l \in Chunks : file[d][l] \in Texts
<1>1. pools[d] \in PoolStates
  BY DEF Shape, PoolStates
<1>2. \A b \in Chk!Bitmaps : b.used \subseteq Chunks /\ b.top \in Nat /\ b.size \in Nat
  BY Constants DEF Chk!Bitmaps, Chunks
<1> QED BY <1>1, <1>2 DEF Shape, PoolStates

(* A write of bytes changes its chunk and no other.                         *)
LEMMA PutFacts ==
  ASSUME Shape, NEW q \in Places, NEW at \in Nat, NEW y \in Texts
  PROVE  LET f == PutBytes(q, at, y)
         IN  /\ f \in [Dirs -> [Chunks -> Texts]]
             /\ f[q.dir][q.loc] = Over(FileAt(q), at, y)
             /\ \A r \in Places : r # q => f[r.dir][r.loc] = FileAt(r)
<1>1. FileAt(q) \in Texts
  BY PlaceParts, PoolParts DEF FileAt
<1> DEFINE z == Over(FileAt(q), at, y)
           f == PutBytes(q, at, y)
<1>2. z \in Texts
  BY <1>1, OverFacts
<1>3. f = [file EXCEPT ![q.dir][q.loc] = z]
  BY DEF PutBytes, FileAt
<1> HIDE DEF z, f
<1>4. file \in [Dirs -> [Chunks -> Texts]] /\ q.dir \in Dirs /\ q.loc \in Chunks
  BY PlaceParts DEF Shape
<1>5. f \in [Dirs -> [Chunks -> Texts]] /\ f[q.dir][q.loc] = z
  BY <1>2, <1>3, <1>4
<1>6. ASSUME NEW r \in Places, r # q PROVE f[r.dir][r.loc] = FileAt(r)
  BY <1>3, <1>4, <1>6, PlaceParts DEF FileAt
<1> QED BY <1>5, <1>6 DEF f, z

(* The same of the pool files after the step.                               *)
LEMMA WriteEffect ==
  ASSUME Roomy, Shape, NEW q \in Places, NEW at \in Nat, NEW y \in Texts,
         file' = PutBytes(q, at, y)
  PROVE  /\ file' \in [Dirs -> [Chunks -> Texts]]
         /\ FileAt(q)' = Over(FileAt(q), at, y)
         /\ \A r \in Places : r # q => FileAt(r)' = FileAt(r)
BY PutFacts DEF FileAt

(* The same of forgetting the bytes beyond a size. *)
LEMMA CoverEffect ==
  ASSUME Roomy, Shape, NEW q \in Places, NEW n \in Nat, file' = Covered(file, q, n)
  PROVE  /\ file' \in [Dirs -> [Chunks -> Texts]]
         /\ FileAt(q)' = FirstBytes(FileAt(q), n)
         /\ \A r \in Places : r # q => FileAt(r)' = FileAt(r)
<1>1. FileAt(q) \in Texts
  BY PlaceParts, PoolParts DEF FileAt
<1> DEFINE z == FirstBytes(FileAt(q), n)
<1>2. z \in Texts
  BY <1>1, FirstFacts
<1>3. file' = [file EXCEPT ![q.dir][q.loc] = z]
  BY DEF Covered, FileAt
<1> HIDE DEF z
<1>4. /\ file \in [Dirs -> [Chunks -> Texts]] /\ q.dir \in Dirs /\ q.loc \in Chunks
  BY PlaceParts DEF Shape
<1>5. file' \in [Dirs -> [Chunks -> Texts]] /\ file'[q.dir][q.loc] = z
  BY <1>2, <1>3, <1>4
<1>6. ASSUME NEW r \in Places, r # q PROVE file'[r.dir][r.loc] = file[r.dir][r.loc]
  BY <1>3, <1>4, <1>6, PlaceParts
<1> QED BY <1>5, <1>6 DEF FileAt, z

(* One pool changes: what it becomes says what becomes of its places.       *)
LEMMA PoolEffect ==
  ASSUME Roomy, Shape, Marks, NEW d \in Dirs, NEW is \in PoolStates,
         is.bm.top <= is.bm.size,
         \A l \in is.bm.used : l < is.bm.top,
         \A l \in Chunks : is.size[l] # None => l < is.hi,
         pools' = [pools EXCEPT ![d] = is]
  PROVE  /\ pools' \in [Dirs -> PoolStates]
         /\ gids'.bm.top <= gids'.bm.size => Marks'
         /\ \A r \in Places : r.dir # d =>
              /\ Acquired(r)' <=> Acquired(r)
              /\ SizeAt(r)' = SizeAt(r)
         /\ \A r \in Places : r.dir = d =>
              /\ Acquired(r)' <=> r.loc \in is.bm.used
              /\ SizeAt(r)' = is.size[r.loc]
<1>1. pools \in [Dirs -> PoolStates]
  BY DEF Shape
<1>2. pools' \in [Dirs -> PoolStates]
  BY <1>1
<1>3. pools'[d] = is /\ \A e \in Dirs : e # d => pools'[e] = pools[e]
  BY <1>1
<1>4. ASSUME gids'.bm.top <= gids'.bm.size PROVE Marks'
  <2>1. ASSUME NEW e \in Dirs
        PROVE  /\ pools'[e].bm.top <= pools'[e].bm.size
               /\ \A l \in pools'[e].bm.used : l < pools'[e].bm.top
               /\ \A l \in Chunks : pools'[e].size[l] # None => l < pools'[e].hi
    <3>1. CASE e = d
      BY <1>3, <3>1
    <3>2. CASE e # d
      BY <1>3, <3>2 DEF Marks
    <3> QED BY <3>1, <3>2
  <2> QED BY <1>4, <2>1 DEF Marks
<1>5. ASSUME NEW r \in Places, r.dir # d
      PROVE  (Acquired(r)' <=> Acquired(r)) /\ SizeAt(r)' = SizeAt(r)
  BY <1>3, <1>5, PlaceParts DEF Acquired, SizeAt
<1>6. ASSUME NEW r \in Places, r.dir = d
      PROVE  (Acquired(r)' <=> r.loc \in is.bm.used) /\ SizeAt(r)' = is.size[r.loc]
  BY <1>3, <1>6, PlaceParts DEF Acquired, SizeAt
<1> QED BY <1>2, <1>4, <1>5, <1>6

(* A chunk that gets another size, or one that had none. *)
LEMMA SizeEffect ==
  ASSUME Roomy, Shape, Marks, NEW q \in Places, NEW n \in Nat, gids' = gids,
         pools' = Sized(q, n)
  PROVE  /\ pools' \in [Dirs -> PoolStates]
         /\ Marks'
         /\ \A r \in Places : Acquired(r)' <=> Acquired(r)
         /\ \A r \in Places : SizeAt(r)' = IF r = q THEN n ELSE SizeAt(r)
<1> DEFINE l == q.loc
           d == q.dir
           was == pools[d]
           h == IF l >= was.hi THEN l + 1 ELSE was.hi
           is == [bm |-> was.bm, size |-> [was.size EXCEPT ![l] = n], hi |-> h]
<1>1. d \in Dirs /\ l \in Chunks /\ l \in 0..(PoolCap - 1)
  BY PlaceParts, Constants
<1>2. was \in PoolStates
  BY <1>1, PoolParts
<1>3. h \in 0..PoolCap /\ l < h /\ was.hi <= h /\ was.hi \in Nat /\ h \in Nat
  BY <1>1, <1>2, Constants, SMTT(30) DEF PoolStates
<1>4. pools' = [pools EXCEPT ![d] = is]
  <2>1. pools' = [[pools EXCEPT ![d].size[l] = n] EXCEPT ![d].hi =
                    IF l >= @ THEN l + 1 ELSE @]
    BY DEF Sized
  <2>2. [pools EXCEPT ![d].size[l] = n] =
          [pools EXCEPT ![d] = [was EXCEPT !.size = [was.size EXCEPT ![l] = n]]]
    BY <1>1 DEF Shape
  <2>3. [was EXCEPT !.size = [was.size EXCEPT ![l] = n]] =
          [bm |-> was.bm, size |-> [was.size EXCEPT ![l] = n], hi |-> was.hi]
    BY <1>2 DEF PoolStates
  <2> DEFINE mid == [bm |-> was.bm, size |-> [was.size EXCEPT ![l] = n], hi |-> was.hi]
             top == IF l >= mid.hi THEN l + 1 ELSE mid.hi
  <2>4. pools' = [[pools EXCEPT ![d] = mid] EXCEPT ![d].hi = IF l >= @ THEN l + 1 ELSE @]
    BY <2>1, <2>2, <2>3
  <2>5. [mid EXCEPT !.hi = top] = is
    OBVIOUS
  <2>6. d \in Dirs /\ pools \in [Dirs -> PoolStates]
    BY <1>1 DEF Shape
  <2> HIDE DEF mid, was, is, l, d
  <2>7. [[pools EXCEPT ![d] = mid] EXCEPT ![d].hi = IF l >= @ THEN l + 1 ELSE @] =
          [pools EXCEPT ![d] = [mid EXCEPT !.hi = top]]
    BY <2>6
  <2> QED BY <2>4, <2>5, <2>7
<1>5. is \in PoolStates
  BY <1>1, <1>2, <1>3 DEF PoolStates
<1>6. /\ is.bm = was.bm /\ is.hi = h
      /\ \A k \in Chunks : is.size[k] = IF k = l THEN n ELSE was.size[k]
  BY <1>2 DEF PoolStates
<1>7. /\ is.bm.top <= is.bm.size /\ \A k \in is.bm.used : k < is.bm.top
      /\ gids'.bm.top <= gids'.bm.size
  BY <1>1, <1>6 DEF Marks
<1>8. ASSUME NEW k \in Chunks, is.size[k] # None PROVE k < is.hi
  <2>1. k # l => k < was.hi
    BY <1>1, <1>6, <1>8 DEF Marks
  <2> HIDE DEF is, h, was, l
  <2> QED BY <1>3, <1>6, <2>1, Constants
<1> HIDE DEF is, h
<1>9. /\ pools' \in [Dirs -> PoolStates]
      /\ Marks'
      /\ \A r \in Places : r.dir # d =>
           (Acquired(r)' <=> Acquired(r)) /\ SizeAt(r)' = SizeAt(r)
      /\ \A r \in Places : r.dir = d =>
           (Acquired(r)' <=> r.loc \in is.bm.used) /\ SizeAt(r)' = is.size[r.loc]
  BY <1>1, <1>4, <1>5, <1>7, <1>8, PoolEffect
<1>10. ASSUME NEW r \in Places
       PROVE  /\ Acquired(r)' <=> Acquired(r)
              /\ SizeAt(r)' = IF r = q THEN n ELSE SizeAt(r)
  <2>1. r.dir \in Dirs /\ r.loc \in Chunks /\ (r = q \/ r.dir # d \/ r.loc # l)
    BY PlaceParts
  <2> QED BY <1>6, <1>9, <2>1 DEF Acquired, SizeAt
<1> QED BY <1>9, <1>10

(* Only the bitmap of a pool changes. *)
LEMMA BitmapEffect ==
  ASSUME Roomy, Shape, Marks, NEW d \in Dirs, NEW b \in Chk!Bitmaps, b.top <= b.size,
         \A l \in b.used : l < b.top,
         pools' = [pools EXCEPT ![d].bm = b]
  PROVE  /\ pools' \in [Dirs -> PoolStates]
         /\ gids'.bm.top <= gids'.bm.size => Marks'
         /\ \A r \in Places : SizeAt(r)' = SizeAt(r)
         /\ \A r \in Places :
              Acquired(r)' <=> IF r.dir = d THEN r.loc \in b.used ELSE Acquired(r)
<1> DEFINE was == pools[d]
           is == [bm |-> b, size |-> was.size, hi |-> was.hi]
<1>1. was \in PoolStates
  BY PoolParts
<1>2. pools' = [pools EXCEPT ![d] = is]
  <2>1. [was EXCEPT !.bm = b] = is
    BY <1>1 DEF PoolStates
  <2> QED BY <2>1
<1>3. is \in PoolStates
  BY <1>1 DEF PoolStates
<1>4. is.bm = b /\ is.size = was.size /\ is.hi = was.hi
  OBVIOUS
<1>5. \A l \in Chunks : is.size[l] # None => l < is.hi
  BY <1>4 DEF Marks
<1> HIDE DEF is
<1>6. /\ pools' \in [Dirs -> PoolStates]
      /\ gids'.bm.top <= gids'.bm.size => Marks'
      /\ \A r \in Places : r.dir # d =>
           (Acquired(r)' <=> Acquired(r)) /\ SizeAt(r)' = SizeAt(r)
      /\ \A r \in Places : r.dir = d =>
           (Acquired(r)' <=> r.loc \in is.bm.used) /\ SizeAt(r)' = is.size[r.loc]
  BY <1>2, <1>3, <1>4, <1>5, PoolEffect
<1> QED BY <1>4, <1>6 DEF SizeAt

(* A chunk is freed. *)
LEMMA FreeEffect ==
  ASSUME Roomy, Shape, Marks, NEW q \in Places, gids' = gids,
         pools' = Freed(q)
  PROVE  /\ pools' \in [Dirs -> PoolStates]
         /\ Marks'
         /\ \A r \in Places : Acquired(r)' <=> Acquired(r) /\ r # q
         /\ \A r \in Places : SizeAt(r)' = IF r = q THEN None ELSE SizeAt(r)
<1> DEFINE l == q.loc
           d == q.dir
           was == pools[d]
           c == Chk!LetGo(was.bm, l)
           is == [bm |-> c, size |-> [was.size EXCEPT ![l] = None], hi |-> was.hi]
<1>1. d \in Dirs /\ l \in Chunks
  BY PlaceParts
<1>2. was \in PoolStates /\ was.bm \in Chk!Bitmaps
  BY <1>1, PoolParts
<1>3. /\ c \in Chk!Bitmaps /\ c.used = was.bm.used \ {l} /\ c.top = was.bm.top
      /\ c.size = was.bm.size
  BY <1>2 DEF Chk!LetGo, Chk!Bitmaps
<1> HIDE DEF c
<1>4. pools' = [pools EXCEPT ![d] = is]
  <2>1. pools' = [[pools EXCEPT ![d].bm = c] EXCEPT ![d].size[l] = None]
    BY DEF c, Freed
  <2>2. [was EXCEPT !.bm = c] = [bm |-> c, size |-> was.size, hi |-> was.hi]
    BY <1>2 DEF PoolStates
  <2> DEFINE rec == [bm |-> c, size |-> was.size, hi |-> was.hi]
             mid == [pools EXCEPT ![d] = rec]
  <2>3. [pools EXCEPT ![d].bm = c] = mid
    BY <2>2
  <2>4. pools' = [mid EXCEPT ![d].size[l] = None]
    BY <2>1, <2>3
  <2>5. mid[d] = rec
    BY <1>1 DEF Shape
  <2>6. [rec EXCEPT !.size[l] = None] = is
    OBVIOUS
  <2>7. [mid EXCEPT ![d].size[l] = None] = [mid EXCEPT ![d] = [rec EXCEPT !.size[l] = None]]
    BY <2>5
  <2>8. [mid EXCEPT ![d] = is] = [pools EXCEPT ![d] = is]
    <3> HIDE DEF is, rec
    <3> QED BY <1>1 DEF Shape
  <2> QED BY <2>4, <2>6, <2>7, <2>8
<1>5. is \in PoolStates
  BY <1>1, <1>2, <1>3 DEF PoolStates
<1>6. /\ is.bm = c /\ is.hi = was.hi
      /\ \A k \in Chunks : is.size[k] = IF k = l THEN None ELSE was.size[k]
  BY <1>2 DEF PoolStates
<1>7. /\ is.bm.top <= is.bm.size /\ \A k \in is.bm.used : k < is.bm.top
      /\ gids'.bm.top <= gids'.bm.size
      /\ \A k \in Chunks : is.size[k] # None => k < is.hi
  BY <1>1, <1>3, <1>6 DEF Marks
<1> HIDE DEF is
<1>8. /\ pools' \in [Dirs -> PoolStates]
      /\ Marks'
      /\ \A r \in Places : r.dir # d =>
           (Acquired(r)' <=> Acquired(r)) /\ SizeAt(r)' = SizeAt(r)
      /\ \A r \in Places : r.dir = d =>
           (Acquired(r)' <=> r.loc \in is.bm.used) /\ SizeAt(r)' = is.size[r.loc]
  BY <1>1, <1>4, <1>5, <1>7, PoolEffect
<1>9. ASSUME NEW r \in Places
      PROVE  /\ Acquired(r)' <=> Acquired(r) /\ r # q
             /\ SizeAt(r)' = IF r = q THEN None ELSE SizeAt(r)
  <2>1. r.dir \in Dirs /\ r.loc \in Chunks /\ (r = q \/ r.dir # d \/ r.loc # l)
    BY PlaceParts
  <2> QED BY <1>3, <1>6, <1>8, <2>1 DEF Acquired, SizeAt
<1> QED BY <1>8, <1>9

(* The types of the table of ids.                                           *)
LEMMA GidParts ==
  ASSUME Shape
  PROVE  /\ gids \in IdStates
         /\ gids.bm \in Gid!Bitmaps /\ gids.bm.used \subseteq Ids
         /\ gids.bm.top \in Nat /\ gids.bm.size \in Nat
         /\ gids.tab \in [Ids -> Addresses \cup {None}]
         /\ gids.hi \in 0..GidCap
<1>1. \A b \in Gid!Bitmaps : b.used \subseteq Ids /\ b.top \in Nat /\ b.size \in Nat
  BY Constants DEF Gid!Bitmaps, Ids
<1> QED BY <1>1 DEF Shape, IdStates

(* An id with a row leads to one place.                                     *)
LEMMA LeadsToPlace ==
  ASSUME Roomy, Shape, NEW i \in Ids, HasRow(i)
  PROVE  \E r \in Places : /\ gids.tab[i] = Address(r)
                           /\ \A q \in Places : LeadsTo(i, q) <=> q = r
<1>1. PICK r \in Places : gids.tab[i] = Address(r)
  BY DEF Shape, IdStates, HasRow, Addresses
<1>2. PlaceOf(i) = r
  BY <1>1, AddressFacts DEF PlaceOf
<1> QED BY <1>1, <1>2 DEF LeadsTo

(* An id gets a row, or another one. *)
LEMMA BindEffect ==
  ASSUME Roomy, Shape, NEW i \in Ids, NEW q \in Places,
         gids' = Bound(i, Address(q))
  PROVE  /\ gids' \in IdStates
         /\ Marks /\ pools' = pools => Marks'
         /\ \A k \in Ids :
              /\ Known(k)' <=> Known(k)
              /\ HasRow(k)' <=> k = i \/ HasRow(k)
              /\ \A r \in Places : LeadsTo(k, r)' <=>
                   IF k = i THEN r = q ELSE LeadsTo(k, r)
<1> DEFINE h == IF i >= gids.hi THEN i + 1 ELSE gids.hi
           t == [gids.tab EXCEPT ![i] = Address(q)]
<1>1. i \in 0..(GidCap - 1) /\ gids.hi \in 0..GidCap /\ GidCap \in Nat
  BY Constants, GidParts
<1>2. h \in 0..GidCap
  BY <1>1
<1>3. Address(q) \in Addresses /\ Address(q) # None
  BY AddressFacts DEF Addresses
<1>4. t \in [Ids -> Addresses \cup {None}]
  BY <1>3, GidParts
<1>5. gids' = [bm |-> gids.bm, tab |-> t, hi |-> h]
  BY GidParts DEF IdStates, Bound
<1>6. \A k \in Ids : t[k] = IF k = i THEN Address(q) ELSE gids.tab[k]
  BY GidParts
<1>7. gids'.bm = gids.bm /\ gids'.tab = t
  BY <1>5
<1> HIDE DEF h, t
<1>8. gids' \in IdStates
  BY <1>2, <1>4, <1>5, GidParts DEF IdStates
<1>9. ASSUME NEW k \in Ids
      PROVE  /\ Known(k)' <=> Known(k)
             /\ HasRow(k)' <=> k = i \/ HasRow(k)
             /\ \A r \in Places : LeadsTo(k, r)' <=>
                  IF k = i THEN r = q ELSE LeadsTo(k, r)
  <2>1. (Known(k)' <=> Known(k)) /\ (HasRow(k)' <=> k = i \/ HasRow(k))
    BY <1>3, <1>6, <1>7 DEF Known, HasRow
  <2>2. ASSUME NEW r \in Places
        PROVE  LeadsTo(k, r)' <=> IF k = i THEN r = q ELSE LeadsTo(k, r)
    <3>1. CASE k = i
      <4>1. gids'.tab[k] = Address(q)
        BY <1>6, <1>7, <3>1
      <4>2. PlaceOf(k)' = q
        BY <4>1, AddressFacts DEF PlaceOf
      <4> QED BY <2>1, <3>1, <4>2 DEF LeadsTo
    <3>2. CASE k # i
      <4>1. gids'.tab[k] = gids.tab[k]
        BY <1>6, <1>7, <3>2
      <4>2. PlaceOf(k)' = PlaceOf(k)
        BY <4>1 DEF PlaceOf
      <4> QED BY <2>1, <3>2, <4>2 DEF LeadsTo
    <3> QED BY <3>1, <3>2
  <2> QED BY <2>1, <2>2
<1>10. Marks /\ pools' = pools => Marks'
  BY <1>7 DEF Marks
<1> QED BY <1>8, <1>9, <1>10

(* Only the bitmap of the ids changes. *)
LEMMA IdBitmapEffect ==
  ASSUME Roomy, Shape, NEW b \in Gid!Bitmaps, b.top <= b.size,
         gids' = [gids EXCEPT !.bm = b]
  PROVE  /\ gids' \in IdStates
         /\ gids'.bm.top <= gids'.bm.size
         /\ Marks /\ pools' = pools => Marks'
         /\ \A k \in Ids :
              /\ Known(k)' <=> k \in b.used
              /\ HasRow(k)' <=> HasRow(k)
              /\ \A r \in Places : LeadsTo(k, r)' <=> LeadsTo(k, r)
<1>1. gids' = [bm |-> b, tab |-> gids.tab, hi |-> gids.hi]
  BY GidParts DEF IdStates
<1>2. gids'.bm = b /\ gids'.tab = gids.tab
  BY <1>1
<1>3. gids' \in IdStates
  BY <1>1, GidParts DEF IdStates
<1>4. ASSUME NEW k \in Ids
      PROVE  /\ Known(k)' <=> k \in b.used
             /\ HasRow(k)' <=> HasRow(k)
             /\ \A r \in Places : LeadsTo(k, r)' <=> LeadsTo(k, r)
  <2>1. PlaceOf(k)' = PlaceOf(k)
    BY <1>2 DEF PlaceOf
  <2> QED BY <1>2, <2>1 DEF Known, HasRow, LeadsTo
<1>5. Marks /\ pools' = pools => Marks'
  BY <1>2 DEF Marks
<1> QED BY <1>2, <1>3, <1>4, <1>5

(* An id is released. *)
LEMMA UnbindEffect ==
  ASSUME Roomy, Shape, Marks, NEW i \in Ids, pools' = pools,
         gids' = Unbound(i)
  PROVE  /\ gids' \in IdStates
         /\ Marks'
         /\ \A k \in Ids :
              /\ Known(k)' <=> Known(k) /\ k # i
              /\ HasRow(k)' <=> HasRow(k) /\ k # i
              /\ \A r \in Places : LeadsTo(k, r)' <=> LeadsTo(k, r) /\ k # i
<1> DEFINE t == [gids.tab EXCEPT ![i] = None]
           b == Gid!LetGo(gids.bm, i)
<1>1. /\ b \in Gid!Bitmaps /\ b.used = gids.bm.used \ {i} /\ b.top = gids.bm.top
      /\ b.size = gids.bm.size
  BY GidParts DEF Gid!LetGo, Gid!Bitmaps
<1>2. t \in [Ids -> Addresses \cup {None}]
  BY GidParts
<1>3. \A k \in Ids : t[k] = IF k = i THEN None ELSE gids.tab[k]
  BY GidParts
<1>4. gids' = [bm |-> b, tab |-> t, hi |-> gids.hi]
  BY GidParts DEF IdStates, Unbound
<1>5. gids'.bm = b /\ gids'.tab = t
  BY <1>4
<1> HIDE DEF b, t
<1>6. gids' \in IdStates
  BY <1>1, <1>2, <1>4, GidParts DEF IdStates
<1>7. ASSUME NEW k \in Ids
      PROVE  /\ Known(k)' <=> Known(k) /\ k # i
             /\ HasRow(k)' <=> HasRow(k) /\ k # i
             /\ \A r \in Places : LeadsTo(k, r)' <=> LeadsTo(k, r) /\ k # i
  <2>1. (Known(k)' <=> Known(k) /\ k # i) /\ (HasRow(k)' <=> HasRow(k) /\ k # i)
    BY <1>1, <1>3, <1>5 DEF Known, HasRow
  <2>2. k # i => PlaceOf(k)' = PlaceOf(k)
    BY <1>3, <1>5 DEF PlaceOf
  <2> QED BY <2>1, <2>2 DEF LeadsTo
<1>8. Marks'
  BY <1>1, <1>5 DEF Marks
<1> QED BY <1>6, <1>7, <1>8

-----------------------------------------------------------------------------
(* What does not change. *)

(* What an unchanged table of ids keeps.                                    *)
LEMMA SameIds ==
  ASSUME gids' = gids
  PROVE  \A k \in Ids : /\ Known(k)' <=> Known(k)
                        /\ HasRow(k)' <=> HasRow(k)
                        /\ \A r \in Places : LeadsTo(k, r)' <=> LeadsTo(k, r)
BY DEF Known, HasRow, LeadsTo, PlaceOf

(* What unchanged pools keep.                                               *)
LEMMA SamePools ==
  ASSUME pools' = pools
  PROVE  \A r \in Places : (Acquired(r)' <=> Acquired(r)) /\ SizeAt(r)' = SizeAt(r)
BY DEF Acquired, SizeAt

(* A chunk with the same size and bytes reads the same.                     *)
LEMMA SameBytes ==
  ASSUME NEW r \in Places, SizeAt(r)' = SizeAt(r), FileAt(r)' = FileAt(r)
  PROVE  BytesAt(r)' = BytesAt(r)
BY DEF BytesAt, FileAt

(* What a chunk reads, before and after a step.                             *)
LEMMA BytesAre ==
  ASSUME NEW r \in Places
  PROVE  /\ BytesAt(r) = FirstBytes(FileAt(r), SizeAt(r))
         /\ BytesAt(r)' = FirstBytes(FileAt(r)', SizeAt(r)')
BY DEF BytesAt, FileAt

-----------------------------------------------------------------------------
(* What the durable steps do to the store: the bitmaps, the structure, and  *)
(* what ids read back.                                                      *)

(* An id leads to at most one place.                                        *)
LEMMA OneplacePerId ==
  ASSUME NEW i \in Ids, NEW p, NEW r, LeadsTo(i, p), LeadsTo(i, r)
  PROVE  p = r
BY DEF LeadsTo

(* Bytes change in a place that only the ids in H2 lead to. *)
LEMMA StoreWritten ==
  ASSUME NEW K, NEW S, NEW T, NEW O, NEW F, NEW H, NEW H2, Store(K, S, T, O, F, H),
         H \subseteq H2, F \subseteq Places, NEW q \in Places,
         UNCHANGED <<gids, pools, want, hurt, crashes>>,
         \A r \in Places : r # q => FileAt(r)' = FileAt(r),
         ~hurt => \A k \in Ids \ H2 : ~LeadsTo(k, q),
         ~hurt => K[q] = None \/ (K[q] \in Texts => BytesAt(q)' = K[q])
  PROVE  Store(K, S, T, O, F, H2)'
<1>1. \A k \in Ids : /\ Known(k)' <=> Known(k)
                     /\ HasRow(k)' <=> HasRow(k)
                     /\ \A r \in Places : LeadsTo(k, r)' <=> LeadsTo(k, r)
  BY SameIds
<1>2. \A r \in Places : (Acquired(r)' <=> Acquired(r)) /\ SizeAt(r)' = SizeAt(r)
  BY SamePools
<1>3. Matches(S, T)'
  BY <1>1, <1>2 DEF Matches, Store
<1>4. Clean' <=> Clean
  BY DEF Clean
<1>5. Structure(K, O, F)'
  BY <1>1, <1>2, <1>4 DEF Structure, Store
<1>6. ASSUME ~hurt, NEW k \in Ids \ H2 PROVE Reads(k)'
  <2>1. Reads(k)
    BY <1>6 DEF Store
  <2>2. ASSUME NEW r \in Places, LeadsTo(k, r) PROVE BytesAt(r)' = BytesAt(r)
    BY <1>2, <1>6, <2>2, SameBytes
  <2> QED BY <1>1, <1>6, <2>1, <2>2 DEF Reads
<1>7. ASSUME ~hurt PROVE Others(K, F)'
  <2>1. Others(K, F)
    BY <1>7 DEF Store
  <2>2. \A r \in Places : r # q => BytesAt(r)' = BytesAt(r)
    BY <1>2, SameBytes
  <2> QED BY <1>1, <1>2, <1>7, <2>1, <2>2 DEF Others
<1> QED BY <1>3, <1>5, <1>6, <1>7 DEF Store

(* A fresh place gets its size. *)
LEMMA StoreSized ==
  ASSUME NEW K, NEW S, NEW q \in Places, NEW n, n # None, Store(K, S, {q}, {}, {q}, {}),
         SizeAt(q) = None,
         UNCHANGED <<gids, want, hurt, crashes>>,
         \A r \in Places : Acquired(r)' <=> Acquired(r),
         \A r \in Places : SizeAt(r)' = IF r = q THEN n ELSE SizeAt(r),
         \A r \in Places : r # q => FileAt(r)' = FileAt(r)
  PROVE  Store(K, S, {}, {}, {q}, {})'
<1>1. \A k \in Ids : /\ Known(k)' <=> Known(k)
                     /\ HasRow(k)' <=> HasRow(k)
                     /\ \A r \in Places : LeadsTo(k, r)' <=> LeadsTo(k, r)
  BY SameIds
<1>2. Matches(S, {})'
  BY <1>1 DEF Matches, Store
<1>3. Clean' <=> Clean
  BY DEF Clean
<1>4. Structure(K, {}, {q})'
  BY <1>1, <1>3 DEF Structure, Store
<1>5. ASSUME ~hurt, NEW k \in Ids PROVE Reads(k)'
  <2>1. Reads(k) /\ ~LeadsTo(k, q)
    BY <1>5 DEF Store, Structure, Clean
  <2>2. ASSUME NEW r \in Places, LeadsTo(k, r) PROVE BytesAt(r)' = BytesAt(r)
    BY <2>1, <2>2, SameBytes
  <2> QED BY <1>1, <2>1, <2>2 DEF Reads
<1>6. ASSUME ~hurt PROVE Others(K, {q})'
  <2>1. Others(K, {q})
    BY <1>6 DEF Store
  <2>2. \A r \in Places : r # q => BytesAt(r)' = BytesAt(r)
    BY SameBytes
  <2> QED BY <1>1, <2>1, <2>2 DEF Others
<1> QED BY <1>2, <1>4, <1>5, <1>6 DEF Store

(* The datum of id i gets another size in its place, and is what it should. *)
LEMMA StoreResized ==
  ASSUME NEW K, Shape, NEW i \in Ids, NEW p \in Places, NEW n, n # None, NEW x,
         NEW H, H \subseteq {i},
         Store(K, {}, {}, {}, {}, H), Holds(i, p),
         UNCHANGED <<gids, hurt, crashes>>, want' = Marked(i, x),
         \A r \in Places : Acquired(r)' <=> Acquired(r),
         \A r \in Places : SizeAt(r)' = IF r = p THEN n ELSE SizeAt(r),
         \A r \in Places : r # p => FileAt(r)' = FileAt(r),
         BytesAt(p)' = x
  PROVE  Store(K, {}, {}, {}, {}, {})'
<1>1. \A k \in Ids : /\ Known(k)' <=> Known(k)
                     /\ HasRow(k)' <=> HasRow(k)
                     /\ \A r \in Places : LeadsTo(k, r)' <=> LeadsTo(k, r)
  BY SameIds
<1>2. LeadsTo(i, p) /\ SizeAt(p) # None
  BY DEF Holds
<1>3. Matches({}, {})'
  BY <1>1, <1>2 DEF Matches, Store
<1>4. Clean' <=> Clean
  BY DEF Clean
<1>5. Structure(K, {}, {})'
  BY <1>1, <1>2, <1>4 DEF Structure, Store
<1>6. ASSUME ~hurt, NEW k \in Ids PROVE Reads(k)'
  <2>1. CASE k = i
    <3>1. want'[k] = x
      BY <2>1 DEF Shape, Marked
    <3>2. \A r \in Places : LeadsTo(k, r)' => r = p
      BY <1>1, <1>2, <2>1, OneplacePerId
    <3>3. HasRow(k)'
      BY <1>1, <1>2, <2>1 DEF LeadsTo
    <3> QED BY <3>1, <3>2, <3>3 DEF Reads
  <2>2. CASE k # i
    <3>1. Reads(k) /\ ~LeadsTo(k, p)
      BY <1>2, <1>6, <2>2 DEF Store, Structure, Clean
    <3>2. ASSUME NEW r \in Places, LeadsTo(k, r) PROVE BytesAt(r)' = BytesAt(r)
      BY <3>1, <3>2, SameBytes
    <3>3. want'[k] = want[k]
      BY <2>2 DEF Shape, Marked
    <3> QED BY <1>1, <3>1, <3>2, <3>3 DEF Reads
  <2> QED BY <2>1, <2>2
<1>7. ASSUME ~hurt PROVE Others(K, {})'
  <2>1. Others(K, {})
    BY <1>7 DEF Store
  <2>2. K[p] = None
    BY <1>2, <2>1 DEF Others
  <2>3. \A r \in Places : r # p => BytesAt(r)' = BytesAt(r)
    BY SameBytes
  <2> QED BY <1>1, <2>1, <2>2, <2>3 DEF Others
<1> QED BY <1>3, <1>5, <1>6, <1>7 DEF Store

(* Id i is bound to q, where its datum is. *)
LEMMA StoreBound ==
  ASSUME NEW K, Shape, NEW i \in Ids, NEW q \in Places, NEW x,
         NEW S, NEW O, NEW H, NEW F, S \subseteq {i}, O \subseteq {i}, H \subseteq {i},
         F \subseteq Places,
         Store(K, S, {}, O, {q}, H), Known(i), SizeAt(q) # None, BytesAt(q) = x,
         Clean => \A r \in F : r # q /\ \A k \in Ids : k # i => ~LeadsTo(k, r),
         \A r \in Places : LeadsTo(i, r) => r \in F \/ SizeAt(r) = None,
         ~hurt => \A r \in F : K[r] = None,
         UNCHANGED <<pools, file, hurt, crashes>>, want' = Marked(i, x),
         \A k \in Ids : /\ Known(k)' <=> Known(k)
                        /\ HasRow(k)' <=> k = i \/ HasRow(k)
                        /\ \A r \in Places : LeadsTo(k, r)' <=>
                             IF k = i THEN r = q ELSE LeadsTo(k, r)
  PROVE  Store(K, {}, {}, {}, F, {})'
<1>1. \A r \in Places : /\ Acquired(r)' <=> Acquired(r)
                        /\ SizeAt(r)' = SizeAt(r)
                        /\ BytesAt(r)' = BytesAt(r)
  BY SamePools, SameBytes DEF FileAt
<1>2. Matches({}, {})'
  BY <1>1 DEF Matches, Store
<1>3. Clean' <=> Clean
  BY DEF Clean
<1>4. ASSUME Clean PROVE
        /\ \A k \in Ids, r \in Places : LeadsTo(k, r)' => SizeAt(r)' # None
        /\ \A j, k \in Ids, r \in Places : LeadsTo(j, r)' /\ LeadsTo(k, r)' => j = k
        /\ \A k \in Ids, r \in F : ~LeadsTo(k, r)'
        /\ crashes = 0 => \A r \in Places : SizeAt(r)' # None /\ r \notin F /\ K[r] = None =>
             \E k \in Ids : LeadsTo(k, r)'
  <2>1. /\ \A k \in Ids \ O, r \in Places : LeadsTo(k, r) => SizeAt(r) # None
        /\ \A j, k \in Ids, r \in Places : LeadsTo(j, r) /\ LeadsTo(k, r) => j = k
        /\ \A k \in Ids : ~LeadsTo(k, q)
        /\ crashes = 0 => \A r \in Places : SizeAt(r) # None /\ r # q /\ K[r] = None =>
             \E k \in Ids : LeadsTo(k, r)
    BY <1>4 DEF Store, Structure
  <2>2. \A k \in Ids, r \in Places : LeadsTo(k, r)' => SizeAt(r)' # None
    BY <1>1, <2>1
  <2>3. \A j, k \in Ids, r \in Places : LeadsTo(j, r)' /\ LeadsTo(k, r)' => j = k
    BY <2>1
  <2>4. \A k \in Ids, r \in F : ~LeadsTo(k, r)'
    BY <1>4
  <2>5. ASSUME crashes = 0, NEW r \in Places, SizeAt(r)' # None, r \notin F, K[r] = None
        PROVE  \E k \in Ids : LeadsTo(k, r)'
    <3>1. CASE r = q
      BY <3>1
    <3>2. CASE r # q
      <4>1. PICK k \in Ids : LeadsTo(k, r)
        BY <1>1, <2>1, <2>5, <3>2
      <4>2. k # i
        BY <1>1, <2>5, <4>1
      <4> QED BY <4>1, <4>2
    <3> QED BY <3>1, <3>2
  <2> QED BY <2>2, <2>3, <2>4, <2>5
<1>5. Structure(K, {}, F)'
  BY <1>3, <1>4 DEF Structure
<1>6. ASSUME ~hurt, NEW k \in Ids PROVE Reads(k)'
  <2>1. CASE k = i
    <3>1. want'[k] = x
      BY <2>1 DEF Shape, Marked
    <3> QED BY <1>1, <2>1, <3>1 DEF Reads
  <2>2. CASE k # i
    <3>1. Reads(k)
      BY <1>6, <2>2 DEF Store
    <3>2. want'[k] = want[k]
      BY <2>2 DEF Shape, Marked
    <3> QED BY <1>1, <2>2, <3>1, <3>2 DEF Reads
  <2> QED BY <2>1, <2>2
<1>7. ASSUME ~hurt PROVE Others(K, F)'
  <2>1. Others(K, {q})
    BY <1>7 DEF Store
  <2>2. ASSUME NEW r \in Places, K[r] # None, NEW k \in Ids PROVE ~LeadsTo(k, r)'
    BY <2>1, <2>2 DEF Others
  <2>3. \A r \in Places : K[r] # None => r \notin F
    BY <1>7
  <2> QED BY <1>1, <2>1, <2>2, <2>3 DEF Others
<1> QED BY <1>2, <1>5, <1>6, <1>7 DEF Store

(* The place p is freed; only the ids in O2 led to it. *)
LEMMA StoreFreed ==
  ASSUME NEW K, NEW p \in Places, NEW F, NEW F2, NEW O2, F2 \subseteq F, F \subseteq F2 \cup {p},
         F \subseteq Places,
         Store(K, {}, {}, {}, F, {}),
         Clean => \A k \in Ids \ O2 : ~LeadsTo(k, p),
         ~hurt => K[p] = None,
         UNCHANGED <<gids, want, hurt, crashes>>,
         \A r \in Places : Acquired(r)' <=> Acquired(r) /\ r # p,
         \A r \in Places : SizeAt(r)' = IF r = p THEN None ELSE SizeAt(r),
         \A r \in Places : r # p => FileAt(r)' = FileAt(r)
  PROVE  Store(K, {}, {}, O2, F2, O2)'
<1>1. \A k \in Ids : /\ Known(k)' <=> Known(k)
                     /\ HasRow(k)' <=> HasRow(k)
                     /\ \A r \in Places : LeadsTo(k, r)' <=> LeadsTo(k, r)
  BY SameIds
<1>2. Matches({}, {})'
  BY <1>1 DEF Matches, Store
<1>3. Clean' <=> Clean
  BY DEF Clean
<1>4. Structure(K, O2, F2)'
  BY <1>1, <1>3 DEF Structure, Store
<1>5. ASSUME ~hurt, NEW k \in Ids \ O2 PROVE Reads(k)'
  <2>1. Reads(k) /\ ~LeadsTo(k, p)
    BY <1>5 DEF Store, Clean
  <2>2. ASSUME NEW r \in Places, LeadsTo(k, r) PROVE BytesAt(r)' = BytesAt(r)
    BY <2>1, <2>2, SameBytes
  <2> QED BY <1>1, <2>1, <2>2 DEF Reads
<1>6. ASSUME ~hurt PROVE Others(K, F2)'
  <2>1. Others(K, F) /\ K[p] = None
    BY <1>6 DEF Store
  <2>2. \A r \in Places : r # p => BytesAt(r)' = BytesAt(r)
    BY SameBytes
  <2> QED BY <1>1, <2>1, <2>2 DEF Others
<1> QED BY <1>2, <1>4, <1>5, <1>6 DEF Store

(* Id i is released; it led to no datum. *)
LEMMA StoreUnbound ==
  ASSUME NEW K, Shape, NEW i \in Ids, Store(K, {}, {}, {i}, {}, {i}),
         \A r \in Places : LeadsTo(i, r) => SizeAt(r) = None,
         UNCHANGED <<pools, file, hurt, crashes>>, want' = Marked(i, None),
         \A k \in Ids : /\ Known(k)' <=> Known(k) /\ k # i
                        /\ HasRow(k)' <=> HasRow(k) /\ k # i
                        /\ \A r \in Places : LeadsTo(k, r)' <=> LeadsTo(k, r) /\ k # i
  PROVE  Store(K, {}, {}, {}, {}, {})'
<1>1. \A r \in Places : /\ Acquired(r)' <=> Acquired(r)
                        /\ SizeAt(r)' = SizeAt(r)
                        /\ BytesAt(r)' = BytesAt(r)
  BY SamePools, SameBytes DEF FileAt
<1>2. Matches({}, {})'
  BY <1>1 DEF Matches, Store
<1>3. Clean' <=> Clean
  BY DEF Clean
<1>4. Structure(K, {}, {})'
  BY <1>1, <1>3 DEF Structure, Store
<1>5. ASSUME ~hurt, NEW k \in Ids PROVE Reads(k)'
  <2>1. CASE k = i
    <3>1. want'[k] = None
      BY <2>1 DEF Shape, Marked
    <3> QED BY <2>1, <3>1 DEF Reads
  <2>2. CASE k # i
    <3>1. Reads(k)
      BY <1>5, <2>2 DEF Store
    <3>2. want'[k] = want[k]
      BY <2>2 DEF Shape, Marked
    <3> QED BY <1>1, <2>2, <3>1, <3>2 DEF Reads
  <2> QED BY <2>1, <2>2
<1>6. ASSUME ~hurt PROVE Others(K, {})'
  <2>1. Others(K, {})
    BY <1>6 DEF Store
  <2> QED BY <1>1, <2>1 DEF Others
<1> QED BY <1>2, <1>4, <1>5, <1>6 DEF Store

(* A place is acquired, and the ids in S. *)
LEMMA StoreClaimed ==
  ASSUME NEW K, NEW S, NEW q \in Places, Store(K, {}, {}, {}, {}, {}), ~Acquired(q),
         UNCHANGED <<file, want, hurt, crashes>>,
         \A r \in Places : SizeAt(r)' = SizeAt(r),
         \A r \in Places : Acquired(r)' <=> Acquired(r) \/ r = q,
         \A k \in Ids : /\ Known(k)' <=> Known(k) \/ k \in S
                        /\ HasRow(k)' <=> HasRow(k)
                        /\ \A r \in Places : LeadsTo(k, r)' <=> LeadsTo(k, r)
  PROVE  Store(K, S, {q}, {}, {q}, {})' /\ SizeAt(q)' = None
<1>1. \A r \in Places : BytesAt(r)' = BytesAt(r)
  BY SameBytes DEF FileAt
<1>2. Matches({}, {}) /\ SizeAt(q) = None
  BY DEF Matches, Store
<1>3. Matches(S, {q})'
  BY <1>2 DEF Matches
<1>4. Clean' <=> Clean
  BY DEF Clean
<1>5. Structure(K, {}, {q})'
  BY <1>2, <1>4 DEF Structure, Store
<1>6. ASSUME ~hurt, NEW k \in Ids PROVE Reads(k)'
  <2>1. Reads(k)
    BY <1>6 DEF Store
  <2> QED BY <1>1, <2>1 DEF Reads
<1>7. ASSUME ~hurt PROVE Others(K, {q})'
  <2>1. Others(K, {})
    BY <1>7 DEF Store
  <2> QED BY <1>1, <1>2, <2>1 DEF Others
<1> QED BY <1>2, <1>3, <1>5, <1>6, <1>7 DEF Store

(* Nothing that is read changes, and every handle has given back its own.   *)
LEMMA StoreKept ==
  ASSUME NEW K, NEW S, NEW T, NEW O, NEW F, NEW H, NEW F2, Store(K, S, T, O, F, H),
         F2 \subseteq F, F2 \subseteq Places,
         Clean' => Clean /\ O = {}, ~hurt' => ~hurt /\ Clean /\ O = {} /\ H = {},
         crashes' = 0 => crashes = 0 /\ \A r \in F \ F2 : SizeAt(r) = None,
         want' = want,
         \A r \in Places : /\ SizeAt(r)' = SizeAt(r)
                           /\ Acquired(r)' <=> SizeAt(r) # None
                           /\ ~hurt' /\ SizeAt(r) # None => FileAt(r)' = FileAt(r),
         \A k \in Ids : /\ Known(k)' <=> HasRow(k)
                        /\ HasRow(k)' <=> HasRow(k)
                        /\ \A r \in Places : LeadsTo(k, r)' <=> LeadsTo(k, r)
  PROVE  Store(K, {}, {}, {}, F2, {})'
<1>1. ~hurt' => \A r \in Places : SizeAt(r) # None => BytesAt(r)' = BytesAt(r)
  BY SameBytes
<1>2. Matches({}, {})'
  BY DEF Matches
<1>3. Structure(K, {}, F2)'
  BY DEF Structure, Store
<1>4. ASSUME ~hurt', NEW k \in Ids PROVE Reads(k)'
  <2>1. Reads(k) /\ \A r \in Places : LeadsTo(k, r) => SizeAt(r) # None
    BY <1>4 DEF Store, Structure
  <2> QED BY <1>1, <1>4, <2>1 DEF Reads
<1>5. ASSUME ~hurt' PROVE Others(K, F2)'
  <2>1. Others(K, F)
    BY <1>5 DEF Store
  <2> QED BY <1>1, <1>5, <2>1 DEF Others
<1> QED BY <1>2, <1>3, <1>4, <1>5 DEF Store

-----------------------------------------------------------------------------
(* The durable step a call makes is the first of those it has left. *)

(* The step due is a write of bytes: what it does.                          *)
LEMMA WriteIs ==
  ASSUME NEW c, NEW i, NEW x, NEW e, NEW h, NEW t, JobIs(c, i, x, e, h, t), t # << >>,
         NEW q, NEW at, NEW y, Head(t) = Bytes(q, at, y), Steps
  PROVE  Advance /\ file' = PutBytes(q, at, y) /\ UNCHANGED <<gids, pools>>
<1>1. job.todo = t
  BY JobFields
<1>2. Head(t).do = "bytes" /\ Head(t).place = q /\ Head(t).at = at /\ Head(t).data = y
  BY DEF Bytes
<1>3. WriteBytes
  BY <1>1, <1>2 DEF Steps, Due, CommitSize, ReleaseChunk, CommitId, ReleaseId
<1> QED BY <1>1, <1>2, <1>3 DEF WriteBytes

(* The step due commits a size: what it does.                               *)
LEMMA SizeIs ==
  ASSUME NEW c, NEW i, NEW x, NEW e, NEW h, NEW t, JobIs(c, i, x, e, h, t), t # << >>,
         NEW q, NEW n, Head(t) = SetSize(q, n), Steps
  PROVE  /\ Advance
         /\ file' = Covered(file, q, n)
         /\ gids' = gids
         /\ pools' = Sized(q, n)
<1>1. job.todo = t
  BY JobFields
<1>2. Head(t).do = "size" /\ Head(t).place = q /\ Head(t).size = n
  BY DEF SetSize
<1>3. CommitSize
  BY <1>1, <1>2 DEF Steps, Due, WriteBytes, ReleaseChunk, CommitId, ReleaseId
<1> QED BY <1>1, <1>2, <1>3 DEF CommitSize, Sized

(* The step due frees a chunk: what it does.                                *)
LEMMA FreeIs ==
  ASSUME NEW c, NEW i, NEW x, NEW e, NEW h, NEW t, JobIs(c, i, x, e, h, t), t # << >>,
         NEW q, Head(t) = FreeChunk(q), Steps
  PROVE  /\ gids' = gids
         /\ \/ /\ Acquired(q)
               /\ pools' = Freed(q)
               /\ file' = Covered(file, q, 0)
               /\ Advance
            \/ /\ ~Acquired(q)
               /\ job' = NoJob
               /\ UNCHANGED <<pools, file, want, hurt, crashes>>
<1>1. job.todo = t
  BY JobFields
<1>2. Head(t).do = "free" /\ Head(t).place = q
  BY DEF FreeChunk
<1>3. ReleaseChunk
  BY <1>1, <1>2 DEF Steps, Due, WriteBytes, CommitSize, CommitId, ReleaseId
<1> QED BY <1>1, <1>2, <1>3 DEF ReleaseChunk, Freed

(* The step due commits an id: what it does.                                *)
LEMMA BindIs ==
  ASSUME NEW c, NEW i, NEW x, NEW e, NEW h, NEW t, JobIs(c, i, x, e, h, t), t # << >>,
         NEW a, Head(t) = Bind(a), Steps
  PROVE  /\ Advance
         /\ UNCHANGED <<pools, file>>
         /\ gids' = Bound(i, a)
<1>1. job.todo = t /\ job.id = i
  BY JobFields
<1>2. Head(t).do = "bind" /\ Head(t).addr = a
  BY DEF Bind
<1>3. CommitId
  BY <1>1, <1>2 DEF Steps, Due, WriteBytes, CommitSize, ReleaseChunk, ReleaseId
<1> QED BY <1>1, <1>2, <1>3 DEF CommitId, Bound

(* The step due releases an id: what it does.                               *)
LEMMA UnbindIs ==
  ASSUME NEW c, NEW i, NEW x, NEW e, NEW h, NEW t, JobIs(c, i, x, e, h, t), t # << >>,
         Head(t) = Unbind, Steps
  PROVE  /\ Advance
         /\ UNCHANGED <<pools, file>>
         /\ gids' = Unbound(i)
<1>1. job.todo = t /\ job.id = i
  BY JobFields
<1>2. Head(t).do = "unbind"
  BY DEF Unbind
<1>3. ReleaseId
  BY <1>1, <1>2 DEF Steps, Due, WriteBytes, CommitSize, ReleaseChunk, CommitId
<1> QED BY <1>1, <1>2, <1>3 DEF ReleaseId, Unbound

-----------------------------------------------------------------------------
(* What is left of a call. *)

(* The steps of a call that writes to a fresh chunk, taken apart.           *)
LEMMA WritingFacts ==
  ASSUME NEW c \in FreshCalls, NEW p, NEW q, NEW x
  PROVE  LET t == Writing(c, p, q, x)
         IN  /\ t # << >> /\ Head(t) = Bytes(q, 0, x)
             /\ Tail(t) = Sizing(c, p, q, Len(x)) /\ Tail(t) # << >>
             /\ t[2] = SetSize(q, Len(x))
<1>1. CASE c = "put"
  BY <1>1, Tuple3, Tuple2 DEF Writing, Sizing
<1>2. CASE c = "insert"
  BY <1>2, Tuple4, Tuple3 DEF Writing, Sizing
<1>3. CASE c = "move"
  BY <1>3, Tuple4, Tuple3 DEF Writing, Sizing
<1> QED BY <1>1, <1>2, <1>3 DEF FreshCalls

(* The same once the bytes are written.                                     *)
LEMMA SizingFacts ==
  ASSUME NEW c \in FreshCalls, NEW p, NEW q, NEW n
  PROVE  LET t == Sizing(c, p, q, n)
         IN  /\ t # << >> /\ Head(t) = SetSize(q, n)
             /\ Tail(t) = Publishing(c, p, q) /\ Tail(t) # << >>
<1>1. CASE c = "put"
  BY <1>1, Tuple2, Tuple1 DEF Sizing, Publishing
<1>2. CASE c = "insert"
  BY <1>2, Tuple3, Tuple2 DEF Sizing, Publishing
<1>3. CASE c = "move"
  BY <1>3, Tuple3, Tuple2 DEF Sizing, Publishing
<1> QED BY <1>1, <1>2, <1>3 DEF FreshCalls

(* The steps of a call that changes a datum in its chunk, taken apart.      *)
LEMMA EditingFacts ==
  ASSUME NEW c \in EditCalls, NEW p, NEW at, NEW y, NEW n, NEW a
  PROVE  LET t == Editing(c, p, at, y, n, a)
         IN  /\ t # << >> /\ Head(t) = Bytes(p, at, y)
             /\ Tail(t) = Resizing(c, p, n, a) /\ Tail(t) # << >>
             /\ t[2] = SetSize(p, n)
<1>1. CASE c = "replace"
  BY <1>1, Tuple2, Tuple1 DEF Editing, Resizing
<1>2. CASE c = "erase"
  BY <1>2, Tuple3, Tuple2 DEF Editing, Resizing
<1> QED BY <1>1, <1>2 DEF EditCalls

(* The same once the bytes are written.                                     *)
LEMMA ResizingFacts ==
  ASSUME NEW c \in EditCalls, NEW p, NEW n, NEW a
  PROVE  LET t == Resizing(c, p, n, a)
         IN  /\ t # << >> /\ Head(t) = SetSize(p, n)
             /\ c = "replace" => Tail(t) = << >>
             /\ c = "erase" => Tail(t) = <<Bind(a)>> /\ Tail(t) # << >>
<1>1. CASE c = "replace"
  BY <1>1, Tuple1 DEF Resizing
<1>2. CASE c = "erase"
  BY <1>2, Tuple2, Tuple1 DEF Resizing
<1> QED BY <1>1, <1>2 DEF EditCalls

(* The shape of the next state, variable by variable.                       *)
LEMMA ShapeKept ==
  ASSUME Shape, gids' \in IdStates, pools' \in [Dirs -> PoolStates],
         file' \in [Dirs -> [Chunks -> Texts]],
         want' \in [Ids -> Texts \cup {None}], hurt' \in BOOLEAN, crashes' \in Nat
  PROVE  Shape'
BY DEF Shape

-----------------------------------------------------------------------------
(* The durable steps, one stage at a time. *)

(* The facts about an id and its old chunk that other places cannot disturb. *)
LEMMA BeforeKept ==
  ASSUME Roomy, Shape, NEW c \in FreshCalls, NEW i \in Ids, NEW p \in Places, Before(c, i, p),
         SizeAt(p) # None => SizeAt(p)' # None, UNCHANGED <<gids, hurt, crashes>>
  PROVE  Before(c, i, p)'
<1>1. /\ HasRow(i)' <=> HasRow(i)
      /\ LeadsTo(i, p)' <=> LeadsTo(i, p)
  BY SameIds
<1>2. Clean' <=> Clean
  BY DEF Clean
<1> QED BY <1>1, <1>2 DEF Before

(* Writing the bytes of a fresh chunk.                                      *)
LEMMA WriteKeeps ==
  ASSUME NEW K, Roomy, Shape, Marks, NEW c \in FreshCalls, NEW i \in Ids, NEW p \in Places,
         NEW q \in Places, NEW x \in Texts, ToWrite(K, c, i, p, q, x), Steps
  PROVE  Shape' /\ Marks' /\ ToSize(K, c, i, p, q, x)'
<1> DEFINE t == Writing(c, p, q, x)
<1>1. /\ t # << >> /\ Head(t) = Bytes(q, 0, x) /\ Tail(t) = Sizing(c, p, q, Len(x))
      /\ Tail(t) # << >>
  BY WritingFacts, SMTT(30)
<1>2. JobIs(c, i, x, "bind", FALSE, t) /\ Before(c, i, p) /\ SizeAt(q) = None
      /\ Store(K, OwnId(c, i), {q}, {}, {q}, {})
  BY DEF ToWrite
<1> HIDE DEF t
<1>3. Advance /\ file' = PutBytes(q, 0, x) /\ UNCHANGED <<gids, pools>>
  BY <1>1, <1>2, WriteIs
<1>4. ~Destroys(Head(t)) /\ Head(t).do # "bind"
  BY <1>1, <1>2 DEF Destroys, Bytes
<1>5. UNCHANGED <<want, hurt, crashes>> /\ JobIs(c, i, x, "bind", FALSE, Tail(t))'
  BY <1>1, <1>2, <1>3, <1>4, AdvanceSame, AdvancePasses, AdvanceQuiet
<1>6. /\ file' \in [Dirs -> [Chunks -> Texts]]
      /\ FileAt(q)' = Over(FileAt(q), 0, x)
      /\ \A r \in Places : r # q => FileAt(r)' = FileAt(r)
  BY <1>3, WriteEffect, Constants
<1>7. FirstBytes(FileAt(q)', Len(x)) = x
  <2>1. FileAt(q) \in Texts
    BY PlaceParts, PoolParts DEF FileAt
  <2> QED BY <1>6, <2>1, WholeFacts
<1>8. ~hurt => K[q] = None /\ \A k \in Ids : ~LeadsTo(k, q)
  BY <1>2 DEF Store, Structure, Clean, Others
<1>9. Store(K, OwnId(c, i), {q}, {}, {q}, {})'
  BY <1>2, <1>3, <1>5, <1>6, <1>8, StoreWritten
<1>10. Before(c, i, p)' /\ SizeAt(q)' = None
  BY <1>2, <1>3, <1>5, SamePools, BeforeKept
<1>11. Shape' /\ Marks'
  BY <1>3, <1>5, <1>6, ShapeKept DEF Shape, Marks
<1> QED BY <1>1, <1>5, <1>7, <1>9, <1>10, <1>11 DEF ToSize

(* Committing the size of a fresh chunk.                                    *)
LEMMA SizeKeeps ==
  ASSUME NEW K, Roomy, Shape, Marks, NEW c \in FreshCalls, NEW i \in Ids, NEW p \in Places,
         NEW q \in Places, NEW x \in Texts, ToSize(K, c, i, p, q, x), Steps
  PROVE  Shape' /\ Marks' /\ ToPublish(K, c, i, p, q, x)'
<1> DEFINE t == Sizing(c, p, q, Len(x))
<1>1. /\ t # << >> /\ Head(t) = SetSize(q, Len(x)) /\ Tail(t) = Publishing(c, p, q)
      /\ Tail(t) # << >>
  BY SizingFacts
<1>2. /\ JobIs(c, i, x, "bind", FALSE, t) /\ Before(c, i, p) /\ SizeAt(q) = None
      /\ FirstBytes(FileAt(q), Len(x)) = x
      /\ Store(K, OwnId(c, i), {q}, {}, {q}, {})
  BY DEF ToSize
<1> HIDE DEF t
<1>3. /\ Advance
      /\ file' = Covered(file, q, Len(x))
      /\ gids' = gids
      /\ pools' = Sized(q, Len(x))
  BY <1>1, <1>2, SizeIs
<1>4. ~Destroys(Head(t)) /\ Head(t).do # "bind"
  BY <1>1 DEF Destroys, SetSize
<1>5. UNCHANGED <<want, hurt, crashes>> /\ JobIs(c, i, x, "bind", FALSE, Tail(t))'
  BY <1>1, <1>2, <1>3, <1>4, AdvanceSame, AdvancePasses, AdvanceQuiet
<1>6. Len(x) \in Nat /\ Len(x) # None
  BY Constants DEF Texts
<1>7. /\ pools' \in [Dirs -> PoolStates]
      /\ Marks'
      /\ \A r \in Places : Acquired(r)' <=> Acquired(r)
      /\ \A r \in Places : SizeAt(r)' = IF r = q THEN Len(x) ELSE SizeAt(r)
  BY <1>3, <1>6, SizeEffect
<1>8. /\ file' \in [Dirs -> [Chunks -> Texts]]
      /\ FileAt(q)' = FirstBytes(FileAt(q), Len(x))
      /\ \A r \in Places : r # q => FileAt(r)' = FileAt(r)
  BY <1>3, <1>6, CoverEffect
<1>9. BytesAt(q)' = x
  <2>1. FileAt(q)' = x
    BY <1>2, <1>8
  <2>2. BytesAt(q)' = FirstBytes(x, Len(x))
    BY <1>7, <2>1, BytesAre
  <2> QED BY <1>2, <1>6, <1>8, <2>1, <2>2, FirstFacts, PlaceParts, PoolParts DEF FileAt
<1>10. Store(K, OwnId(c, i), {}, {}, {q}, {})'
  BY <1>2, <1>3, <1>5, <1>6, <1>7, <1>8, StoreSized
<1>11. Before(c, i, p)' /\ SizeAt(q)' # None
  BY <1>2, <1>3, <1>5, <1>6, <1>7, BeforeKept
<1>12. Apart(c, p, q)'
  <2>1. Clean' <=> Clean
    BY <1>5 DEF Clean
  <2>2. Apart(c, p, q)
    BY <1>2 DEF Before, Apart
  <2> QED BY <2>1, <2>2 DEF Apart
<1>13. Shape'
  BY <1>3, <1>5, <1>7, <1>8, ShapeKept DEF Shape
<1> QED BY <1>1, <1>5, <1>7, <1>9, <1>10, <1>11, <1>12, <1>13 DEF ToPublish

(* A put of a new id ends, and the id reads back the datum. *)
LEMMA PutPublishes ==
  ASSUME NEW K, Roomy, Shape, Marks, NEW i \in Ids, NEW p \in Places,
         NEW q \in Places, NEW x \in Texts, ToPublish(K, "put", i, p, q, x), Steps
  PROVE  Shape' /\ Marks' /\ AtRest(K)'
<1> DEFINE t == <<Bind(Address(q))>>
<1>1. t # << >> /\ Head(t) = Bind(Address(q)) /\ Tail(t) = << >>
  BY Tuple1
<1>2. /\ JobIs("put", i, x, "bind", FALSE, t) /\ ~HasRow(i) /\ SizeAt(q) # None
      /\ BytesAt(q) = x
      /\ Store(K, {i}, {}, {}, {q}, {})
  BY DEF ToPublish, Publishing, OwnId, Before
<1> HIDE DEF t
<1>3. /\ Advance
      /\ UNCHANGED <<pools, file>>
      /\ gids' = Bound(i, Address(q))
  BY <1>1, <1>2, BindIs
<1>4. Head(t).do = "bind"
  BY <1>1 DEF Bind
<1>5. UNCHANGED <<hurt, crashes>> /\ want' = Marked(i, x) /\ job' = NoJob
  BY <1>1, <1>2, <1>3, <1>4, AdvanceSame, AdvanceMarks, AdvanceEnds
<1>6. /\ gids' \in IdStates
      /\ Marks'
      /\ \A k \in Ids : /\ Known(k)' <=> Known(k)
                        /\ HasRow(k)' <=> k = i \/ HasRow(k)
                        /\ \A r \in Places : LeadsTo(k, r)' <=>
                             IF k = i THEN r = q ELSE LeadsTo(k, r)
  BY <1>3, BindEffect
<1>7. Known(i) /\ \A r \in Places : ~LeadsTo(i, r)
  BY <1>2 DEF Store, Matches, LeadsTo
<1>8. Store(K, {}, {}, {}, {}, {})'
  BY <1>2, <1>3, <1>5, <1>6, <1>7, StoreBound, SMTT(30)
<1>9. Shape'
  BY <1>3, <1>5, <1>6, ShapeKept DEF Shape, Marked
<1> QED BY <1>5, <1>6, <1>8, <1>9 DEF AtRest

(* An update leads the id to the new chunk, and the old one is left. *)
LEMMA MovePublishes ==
  ASSUME NEW K, Roomy, Shape, Marks, NEW i \in Ids, NEW p \in Places,
         NEW q \in Places, NEW x \in Texts, ToPublish(K, "move", i, p, q, x), Steps
  PROVE  Shape' /\ Marks' /\ ToDiscard(K, i, p, x)'
<1> DEFINE t == <<Bind(Address(q)), FreeChunk(p)>>
<1>1. /\ t # << >> /\ Head(t) = Bind(Address(q)) /\ Tail(t) = <<FreeChunk(p)>>
      /\ Tail(t) # << >>
  BY Tuple2, Tuple1
<1>2. /\ JobIs("move", i, x, "bind", FALSE, t) /\ LeadsTo(i, p) /\ SizeAt(q) # None
      /\ Clean => p # q
      /\ BytesAt(q) = x
      /\ Store(K, {}, {}, {}, {q}, {})
  BY DEF ToPublish, Publishing, OwnId, Before, Apart
<1> HIDE DEF t
<1>3. /\ Advance
      /\ UNCHANGED <<pools, file>>
      /\ gids' = Bound(i, Address(q))
  BY <1>1, <1>2, BindIs
<1>4. Head(t).do = "bind"
  BY <1>1 DEF Bind
<1>5. /\ UNCHANGED <<hurt, crashes>> /\ want' = Marked(i, x)
      /\ JobIs("move", i, x, "none", FALSE, Tail(t))'
  BY <1>1, <1>2, <1>3, <1>4, AdvanceSame, AdvanceMarks
<1>6. /\ gids' \in IdStates
      /\ Marks'
      /\ \A k \in Ids : /\ Known(k)' <=> Known(k)
                        /\ HasRow(k)' <=> k = i \/ HasRow(k)
                        /\ \A r \in Places : LeadsTo(k, r)' <=>
                             IF k = i THEN r = q ELSE LeadsTo(k, r)
  BY <1>3, BindEffect
<1>7. Known(i) /\ \A r \in Places : LeadsTo(i, r) => r \in {p}
  BY <1>2, OneplacePerId DEF Store, Matches, LeadsTo
<1>8. /\ Clean => \A r \in {p} : r # q /\ \A k \in Ids : k # i => ~LeadsTo(k, r)
      /\ ~hurt => \A r \in {p} : K[r] = None
  BY <1>2 DEF Store, Structure, Others
<1>9. Store(K, {}, {}, {}, {p}, {})'
  <2>1. PICK F : F = {p}
    OBVIOUS
  <2>2. PICK N : N = {}
    OBVIOUS
  <2>3. /\ N \subseteq {i} /\ F \subseteq Places
        /\ Clean => \A r \in F : r # q /\ \A k \in Ids : k # i => ~LeadsTo(k, r)
        /\ \A r \in Places : LeadsTo(i, r) => r \in F \/ SizeAt(r) = None
        /\ ~hurt => \A r \in F : K[r] = None
    BY <1>7, <1>8, <2>1, <2>2
  <2>4. Store(K, N, {}, N, {q}, N)
    BY <1>2, <2>2
  <2>5. Store(K, {}, {}, {}, F, {})'
    BY <1>2, <1>3, <1>5, <1>6, <1>7, <2>3, <2>4, StoreBound
  <2> QED BY <2>1, <2>5
<1>10. Shape'
  BY <1>3, <1>5, <1>6, ShapeKept DEF Shape, Marked
<1> QED BY <1>1, <1>5, <1>6, <1>9, <1>10 DEF ToDiscard

(* An insertion frees the old chunk first. *)
LEMMA InsertFrees ==
  ASSUME NEW K, Roomy, Shape, Marks, NEW i \in Ids, NEW p \in Places,
         NEW q \in Places, NEW x \in Texts, ToPublish(K, "insert", i, p, q, x), Steps
  PROVE  Shape' /\ Marks' /\ ToRebind(K, i, q, x)'
<1> DEFINE t == <<FreeChunk(p), Bind(Address(q))>>
<1>1. /\ t # << >> /\ Head(t) = FreeChunk(p) /\ Tail(t) = <<Bind(Address(q))>>
      /\ Tail(t) # << >>
  BY Tuple2, Tuple1
<1>2. /\ JobIs("insert", i, x, "bind", FALSE, t) /\ LeadsTo(i, p) /\ SizeAt(p) # None
      /\ SizeAt(q) # None /\ p # q /\ BytesAt(q) = x
      /\ Store(K, {}, {}, {}, {q}, {})
  BY DEF ToPublish, Publishing, OwnId, Before, Apart
<1> HIDE DEF t
<1>3. Acquired(p)
  BY <1>2 DEF Store, Matches
<1>4. /\ Advance
      /\ gids' = gids
      /\ file' = Covered(file, p, 0)
      /\ pools' = Freed(p)
  BY <1>1, <1>2, <1>3, FreeIs
<1>5. Head(t).do # "bind" /\ Destroys(Head(t))
  BY <1>1 DEF Destroys, FreeChunk
<1>6. UNCHANGED <<want, hurt, crashes>> /\ JobIs("insert", i, x, "bind", TRUE, Tail(t))'
  <2>1. UNCHANGED <<want, hurt, crashes>>
    BY <1>2, <1>4, <1>5, AdvanceSame, AdvancePasses
  <2>2. JobIs("insert", i, x, "bind", TRUE, Tail(t))'
    BY <1>1, <1>2, <1>4, <1>5, AdvanceHot
  <2> QED BY <2>1, <2>2
<1>7. /\ pools' \in [Dirs -> PoolStates]
      /\ Marks'
      /\ \A r \in Places : Acquired(r)' <=> Acquired(r) /\ r # p
      /\ \A r \in Places : SizeAt(r)' = IF r = p THEN None ELSE SizeAt(r)
  BY <1>4, FreeEffect
<1>8. /\ file' \in [Dirs -> [Chunks -> Texts]]
      /\ \A r \in Places : r # p => FileAt(r)' = FileAt(r)
  BY <1>4, CoverEffect, Constants
<1>9. /\ Clean => \A k \in Ids \ {i} : ~LeadsTo(k, p)
      /\ ~hurt => K[p] = None
  BY <1>2 DEF Store, Structure, Others
<1>10. Store(K, {}, {}, {i}, {q}, {i})'
  BY <1>2, <1>4, <1>6, <1>7, <1>8, <1>9, StoreFreed
<1>11. BytesAt(q)' = x /\ SizeAt(q)' # None
  BY <1>2, <1>7, <1>8, SameBytes
<1>12. HasRow(i)' /\ \A r \in Places : LeadsTo(i, r)' => SizeAt(r)' = None
  BY <1>2, <1>4, <1>7, SameIds, OneplacePerId DEF LeadsTo
<1>13. Shape'
  BY <1>4, <1>6, <1>7, <1>8, GidParts, ShapeKept DEF Shape
<1> QED BY <1>1, <1>6, <1>7, <1>10, <1>11, <1>12, <1>13 DEF ToRebind

(* And then leads the id to the new one. *)
LEMMA InsertRebinds ==
  ASSUME NEW K, Roomy, Shape, Marks, NEW i \in Ids, NEW q \in Places, NEW x \in Texts,
         ToRebind(K, i, q, x), Steps
  PROVE  Shape' /\ Marks' /\ AtRest(K)'
<1> DEFINE t == <<Bind(Address(q))>>
<1>1. t # << >> /\ Head(t) = Bind(Address(q)) /\ Tail(t) = << >>
  BY Tuple1
<1>2. /\ JobIs("insert", i, x, "bind", TRUE, t) /\ HasRow(i) /\ SizeAt(q) # None
      /\ \A r \in Places : LeadsTo(i, r) => SizeAt(r) = None
      /\ BytesAt(q) = x
      /\ Store(K, {}, {}, {i}, {q}, {i})
  BY DEF ToRebind
<1> HIDE DEF t
<1>3. /\ Advance
      /\ UNCHANGED <<pools, file>>
      /\ gids' = Bound(i, Address(q))
  BY <1>1, <1>2, BindIs
<1>4. Head(t).do = "bind"
  BY <1>1 DEF Bind
<1>5. UNCHANGED <<hurt, crashes>> /\ want' = Marked(i, x) /\ job' = NoJob
  BY <1>1, <1>2, <1>3, <1>4, AdvanceSame, AdvanceMarks, AdvanceEnds
<1>6. /\ gids' \in IdStates
      /\ Marks'
      /\ \A k \in Ids : /\ Known(k)' <=> Known(k)
                        /\ HasRow(k)' <=> k = i \/ HasRow(k)
                        /\ \A r \in Places : LeadsTo(k, r)' <=>
                             IF k = i THEN r = q ELSE LeadsTo(k, r)
  BY <1>3, BindEffect
<1>7. Known(i)
  BY <1>2 DEF Store, Matches
<1>8. Store(K, {}, {}, {}, {}, {})'
  <2>1. PICK O : O = {i}
    OBVIOUS
  <2>2. PICK F : F = {}
    OBVIOUS
  <2>3. /\ F \subseteq {i} /\ O \subseteq {i} /\ F \subseteq Places
        /\ Clean => \A r \in F : r # q /\ \A k \in Ids : k # i => ~LeadsTo(k, r)
        /\ \A r \in Places : LeadsTo(i, r) => r \in F \/ SizeAt(r) = None
        /\ ~hurt => \A r \in F : K[r] = None
    BY <1>2, <2>1, <2>2
  <2>4. Store(K, F, F, O, {q}, O)
    BY <1>2, <2>1, <2>2
  <2>5. Store(K, F, F, F, F, F)'
    BY <1>2, <1>3, <1>5, <1>6, <1>7, <2>2, <2>3, <2>4, StoreBound
  <2> QED BY <2>2, <2>5
<1>9. Shape'
  BY <1>3, <1>5, <1>6, ShapeKept DEF Shape, Marked
<1> QED BY <1>5, <1>6, <1>8, <1>9 DEF AtRest

(* The update gives up the old chunk, if it still has it. *)
LEMMA MoveDiscards ==
  ASSUME NEW K, Roomy, Shape, Marks, NEW i \in Ids, NEW p \in Places, NEW x \in Texts,
         ToDiscard(K, i, p, x), Steps
  PROVE  Shape' /\ Marks' /\ AtRest(K)'
<1> DEFINE t == <<FreeChunk(p)>>
<1>1. t # << >> /\ Head(t) = FreeChunk(p) /\ Tail(t) = << >>
  BY Tuple1
<1>2. JobIs("move", i, x, "none", FALSE, t) /\ Store(K, {}, {}, {}, {p}, {})
  BY DEF ToDiscard
<1> HIDE DEF t
<1>3. CASE Acquired(p)
  <2>1. /\ Advance
        /\ gids' = gids
        /\ file' = Covered(file, p, 0)
        /\ pools' = Freed(p)
    BY <1>1, <1>2, <1>3, FreeIs
  <2>2. Head(t).do # "none"
    BY <1>1 DEF FreeChunk
  <2>3. UNCHANGED <<want, hurt, crashes>> /\ job' = NoJob
    BY <1>1, <1>2, <2>1, <2>2, AdvanceSame, AdvancePasses, AdvanceEnds
  <2>4. /\ pools' \in [Dirs -> PoolStates]
        /\ Marks'
        /\ \A r \in Places : Acquired(r)' <=> Acquired(r) /\ r # p
        /\ \A r \in Places : SizeAt(r)' = IF r = p THEN None ELSE SizeAt(r)
    BY <2>1, FreeEffect
  <2>5. /\ file' \in [Dirs -> [Chunks -> Texts]]
        /\ \A r \in Places : r # p => FileAt(r)' = FileAt(r)
    BY <2>1, CoverEffect, Constants
  <2>6. /\ Clean => \A k \in Ids \ {} : ~LeadsTo(k, p)
        /\ ~hurt => K[p] = None
    BY <1>2 DEF Store, Structure, Others
  <2>7. Store(K, {}, {}, {}, {}, {})'
    BY <1>2, <2>1, <2>3, <2>4, <2>5, <2>6, StoreFreed, ZenonT(60)
  <2>8. Shape'
    BY <2>1, <2>3, <2>4, <2>5, GidParts, ShapeKept DEF Shape
  <2> QED BY <2>3, <2>4, <2>7, <2>8 DEF AtRest
<1>4. CASE ~Acquired(p)
  <2>1. UNCHANGED <<gids, pools, file, want, hurt, crashes>> /\ job' = NoJob
    BY <1>1, <1>2, <1>4, FreeIs
  <2>2. \A r \in Places : (Acquired(r)' <=> Acquired(r)) /\ SizeAt(r)' = SizeAt(r)
    BY <2>1, SamePools
  <2>3. \A k \in Ids : /\ Known(k)' <=> Known(k)
                       /\ HasRow(k)' <=> HasRow(k)
                       /\ \A r \in Places : LeadsTo(k, r)' <=> LeadsTo(k, r)
    BY <2>1, SameIds
  <2>4. /\ \A r \in Places : Acquired(r) <=> SizeAt(r) # None
        /\ \A k \in Ids : Known(k) <=> HasRow(k)
    BY <1>2 DEF Store, Matches
  <2>5. (Clean' <=> Clean) /\ (~hurt => Clean) /\ SizeAt(p) = None
    BY <1>4, <2>1, <2>4 DEF Clean
  <2>6. \A r \in Places : FileAt(r)' = FileAt(r)
    BY <2>1 DEF FileAt
  <2>7. Store(K, {}, {}, {}, {}, {})'
    BY <1>2, <2>1, <2>2, <2>3, <2>4, <2>5, <2>6, StoreKept
  <2>8. Shape' /\ Marks'
    BY <2>1 DEF Shape, Marks
  <2> QED BY <2>1, <2>7, <2>8 DEF AtRest
<1> QED BY <1>3, <1>4

(* A call that changes the datum where it is: the bytes. *)
LEMMA EditKeeps ==
  ASSUME NEW K, Roomy, Shape, Marks, NEW c \in EditCalls, NEW i \in Ids, NEW p \in Places,
         NEW x \in Texts, NEW at, NEW y, NEW n, ToEdit(K, c, i, p, x, at, y, n), Steps
  PROVE  Shape' /\ Marks' /\ ToResize(K, c, i, p, x, n, TRUE)'
<1>1. PICK a : a = gids.tab[i]
  OBVIOUS
<1> DEFINE t == Editing(c, p, at, y, n, a)
<1>2. /\ t # << >> /\ Head(t) = Bytes(p, at, y) /\ Tail(t) = Resizing(c, p, n, a)
      /\ Tail(t) # << >>
  BY EditingFacts, SMTT(30)
<1>3. /\ JobIs(c, i, x, "size", FALSE, t)
      /\ at \in Nat /\ n \in Nat /\ y \in Texts
      /\ LeadsTo(i, p) /\ SizeAt(p) # None
      /\ FirstBytes(Over(FileAt(p), at, y), n) = x
      /\ Store(K, {}, {}, {}, {}, {})
  BY <1>1 DEF ToEdit, Holds
<1> HIDE DEF t
<1>4. Advance /\ file' = PutBytes(p, at, y) /\ UNCHANGED <<gids, pools>>
  BY <1>2, <1>3, WriteIs
<1>5. Destroys(Head(t)) /\ Head(t).do # "size"
  BY <1>2, <1>3 DEF Destroys, Bytes
<1>6. UNCHANGED <<want, hurt, crashes>>
  BY <1>3, <1>4, <1>5, AdvanceSame, AdvancePasses
<1>7. JobIs(c, i, x, "size", TRUE, Resizing(c, p, n, a))'
  <2>1. JobIs(c, i, x, "size", TRUE, Tail(t))'
    BY <1>2, <1>3, <1>4, <1>5, AdvanceHot
  <2> QED BY <1>2, <2>1
<1>8. /\ file' \in [Dirs -> [Chunks -> Texts]]
      /\ FileAt(p)' = Over(FileAt(p), at, y)
      /\ \A r \in Places : r # p => FileAt(r)' = FileAt(r)
  BY <1>3, <1>4, WriteEffect
<1>9. ~hurt => K[p] = None /\ \A k \in Ids \ {i} : ~LeadsTo(k, p)
  BY <1>3 DEF Store, Structure, Clean, Others
<1>10. Store(K, {}, {}, {}, {}, {i})'
  BY <1>3, <1>4, <1>6, <1>8, <1>9, StoreWritten
<1>11. LeadsTo(i, p)' /\ SizeAt(p)' # None /\ gids'.tab[i] = a
  BY <1>1, <1>3, <1>4, SameIds, SamePools
<1>12. Shape' /\ Marks'
  BY <1>4, <1>6, <1>8, ShapeKept DEF Shape, Marks
<1> QED BY <1>3, <1>7, <1>8, <1>10, <1>11, <1>12 DEF ToResize, Holds

(* The size: what both calls that change a datum in place have in common.   *)
LEMMA ResizeEffect ==
  ASSUME NEW K, Roomy, Shape, Marks, NEW c \in EditCalls, NEW i \in Ids, NEW p \in Places,
         NEW x \in Texts, NEW n, NEW h, NEW a, a = gids.tab[i],
         ToResize(K, c, i, p, x, n, h), Steps
  PROVE  /\ Shape' /\ Marks' /\ Store(K, {}, {}, {}, {}, {})'
         /\ gids' = gids
         /\ c = "replace" => job' = NoJob
         /\ c = "erase" => JobIs(c, i, x, "none", FALSE, <<Bind(a)>>)'
<1> DEFINE t == Resizing(c, p, n, a)
<1>1. /\ t # << >> /\ Head(t) = SetSize(p, n)
      /\ c = "replace" => Tail(t) = << >>
      /\ c = "erase" => Tail(t) = <<Bind(a)>> /\ Tail(t) # << >>
  BY ResizingFacts
<1>2. PICK H \in {{}, {i}} :
        /\ JobIs(c, i, x, "size", h, t)
        /\ n \in Nat
        /\ Holds(i, p)
        /\ FirstBytes(FileAt(p), n) = x
        /\ Store(K, {}, {}, {}, {}, H)
  BY DEF ToResize
<1> HIDE DEF t
<1>3. /\ Advance
      /\ file' = Covered(file, p, n)
      /\ gids' = gids
      /\ pools' = Sized(p, n)
  BY <1>1, <1>2, SizeIs
<1>4. Head(t).do = "size"
  BY <1>1 DEF SetSize
<1>5. UNCHANGED <<hurt, crashes>> /\ want' = Marked(i, x)
  BY <1>2, <1>3, <1>4, AdvanceSame, AdvanceMarks
<1>6. c = "replace" => job' = NoJob
  BY <1>1, <1>2, <1>3, AdvanceEnds
<1>7. ASSUME c = "erase" PROVE JobIs(c, i, x, "none", FALSE, <<Bind(a)>>)'
  <2>1. JobIs(c, i, x, "none", FALSE, Tail(t))'
    BY <1>1, <1>2, <1>3, <1>4, <1>7, AdvanceMarks
  <2> QED BY <1>1, <1>7, <2>1
<1>8. n # None
  BY <1>2, Constants
<1>9. /\ pools' \in [Dirs -> PoolStates]
      /\ Marks'
      /\ \A r \in Places : Acquired(r)' <=> Acquired(r)
      /\ \A r \in Places : SizeAt(r)' = IF r = p THEN n ELSE SizeAt(r)
  BY <1>2, <1>3, SizeEffect
<1>10. /\ file' \in [Dirs -> [Chunks -> Texts]]
       /\ FileAt(p)' = FirstBytes(FileAt(p), n)
       /\ \A r \in Places : r # p => FileAt(r)' = FileAt(r)
  BY <1>2, <1>3, CoverEffect
<1>11. BytesAt(p)' = x
  <2>1. FileAt(p)' = x
    BY <1>2, <1>10
  <2>2. BytesAt(p)' = FirstBytes(x, n)
    BY <1>9, <2>1, BytesAre
  <2>3. FirstBytes(x, n) = x
    BY <1>2, FirstFacts, PlaceParts, PoolParts DEF FileAt
  <2> QED BY <2>2, <2>3
<1>12. Store(K, {}, {}, {}, {}, {})'
  BY <1>2, <1>3, <1>5, <1>8, <1>9, <1>10, <1>11, StoreResized
<1>13. Shape'
  BY <1>3, <1>5, <1>9, <1>10, ShapeKept DEF Shape, Marked
<1> QED BY <1>3, <1>6, <1>7, <1>9, <1>12, <1>13

(* Committing the new size of a datum changed in its chunk.                 *)
LEMMA ResizeKeeps ==
  ASSUME NEW K, Roomy, Shape, Marks, NEW c \in EditCalls, NEW i \in Ids, NEW p \in Places,
         NEW x \in Texts, NEW n, NEW h, ToResize(K, c, i, p, x, n, h), Steps
  PROVE  Shape' /\ Marks' /\ (AtRest(K) \/ ToConfirm(K, i, x, "none"))'
<1>1. PICK a : a = gids.tab[i]
  OBVIOUS
<1>2. /\ Shape' /\ Marks' /\ Store(K, {}, {}, {}, {}, {})'
      /\ gids' = gids
      /\ c = "replace" => job' = NoJob
      /\ c = "erase" => JobIs(c, i, x, "none", FALSE, <<Bind(a)>>)'
  BY <1>1, ResizeEffect
<1>3. HasRow(i)' /\ gids'.tab[i] = a
  BY <1>1, <1>2, SameIds DEF ToResize, Holds, LeadsTo
<1>4. CASE c = "replace"
  BY <1>2, <1>4 DEF AtRest
<1>5. CASE c = "erase"
  BY <1>2, <1>3, <1>5 DEF ToConfirm
<1> QED BY <1>2, <1>4, <1>5 DEF EditCalls

(* An erase writes the row of the id as it is. *)
LEMMA ConfirmKeeps ==
  ASSUME NEW K, Roomy, Shape, Marks, NEW i \in Ids, NEW x \in Texts \cup {None}, NEW e,
         ToConfirm(K, i, x, e), Steps
  PROVE  Shape' /\ Marks' /\ AtRest(K)'
<1>1. PICK q \in Places : /\ gids.tab[i] = Address(q)
                          /\ \A r \in Places : LeadsTo(i, r) <=> r = q
  BY LeadsToPlace DEF ToConfirm
<1> DEFINE t == <<Bind(Address(q))>>
<1>2. t # << >> /\ Head(t) = Bind(Address(q)) /\ Tail(t) = << >>
  BY Tuple1
<1>3. /\ JobIs("erase", i, x, e, FALSE, t)
      /\ HasRow(i)
      /\ e = "none" \/ (e = "bind" /\ x = want[i])
      /\ Store(K, {}, {}, {}, {}, {})
  BY <1>1 DEF ToConfirm
<1> HIDE DEF t
<1>4. Advance /\ UNCHANGED <<pools, file>> /\ gids' = Bound(i, Address(q))
  BY <1>2, <1>3, BindIs
<1>5. Head(t).do = "bind"
  BY <1>2 DEF Bind
<1>6. UNCHANGED <<hurt, crashes>> /\ job' = NoJob
  BY <1>2, <1>3, <1>4, AdvanceSame, AdvanceEnds
<1>7. want' = want
  <2>1. CASE e = "none"
    BY <1>3, <1>4, <1>5, <2>1, AdvancePasses
  <2>2. CASE e = "bind" /\ x = want[i]
    <3>1. want' = Marked(i, x)
      BY <1>3, <1>4, <1>5, <2>2, AdvanceMarks
    <3> QED BY <2>2, <3>1 DEF Marked, Shape
  <2> QED BY <1>3, <2>1, <2>2
<1>8. /\ gids' \in IdStates
      /\ Marks'
      /\ \A k \in Ids : /\ Known(k)' <=> Known(k)
                        /\ HasRow(k)' <=> k = i \/ HasRow(k)
                        /\ \A r \in Places : LeadsTo(k, r)' <=>
                             IF k = i THEN r = q ELSE LeadsTo(k, r)
  BY <1>4, BindEffect
<1>9. \A k \in Ids : /\ HasRow(k)' <=> HasRow(k)
                     /\ \A r \in Places : LeadsTo(k, r)' <=> LeadsTo(k, r)
  BY <1>1, <1>3, <1>8
<1>10. \A r \in Places : /\ Acquired(r)' <=> Acquired(r)
                         /\ SizeAt(r)' = SizeAt(r)
                         /\ FileAt(r)' = FileAt(r)
  BY <1>4, SamePools DEF FileAt
<1>11. /\ \A r \in Places : Acquired(r) <=> SizeAt(r) # None
       /\ \A k \in Ids : Known(k) <=> HasRow(k)
  BY <1>3 DEF Store, Matches
<1>12. (Clean' <=> Clean) /\ (~hurt => Clean)
  BY <1>6 DEF Clean
<1>13. Store(K, {}, {}, {}, {}, {})'
  BY <1>3, <1>6, <1>7, <1>8, <1>9, <1>10, <1>11, <1>12, StoreKept
<1>14. Shape'
  BY <1>4, <1>6, <1>7, <1>8, ShapeKept DEF Shape
<1> QED BY <1>6, <1>8, <1>13, <1>14 DEF AtRest

(* A del frees the chunk. *)
LEMMA DelFrees ==
  ASSUME NEW K, Roomy, Shape, Marks, NEW i \in Ids, NEW p \in Places, ToFree(K, i, p), Steps
  PROVE  Shape' /\ Marks' /\ ToUnbind(K, i)'
<1> DEFINE t == <<FreeChunk(p), Unbind>>
<1>1. /\ t # << >> /\ Head(t) = FreeChunk(p) /\ Tail(t) = <<Unbind>> /\ Tail(t) # << >>
  BY Tuple2, Tuple1
<1>2. /\ JobIs("del", i, None, "unbind", FALSE, t) /\ LeadsTo(i, p) /\ SizeAt(p) # None
      /\ Store(K, {}, {}, {}, {}, {})
  BY DEF ToFree, Holds
<1> HIDE DEF t
<1>3. Acquired(p)
  BY <1>2 DEF Store, Matches
<1>4. /\ Advance
      /\ gids' = gids
      /\ file' = Covered(file, p, 0)
      /\ pools' = Freed(p)
  BY <1>1, <1>2, <1>3, FreeIs
<1>5. Head(t).do # "unbind" /\ Destroys(Head(t))
  BY <1>1 DEF Destroys, FreeChunk
<1>6. UNCHANGED <<want, hurt, crashes>> /\ JobIs("del", i, None, "unbind", TRUE, Tail(t))'
  <2>1. UNCHANGED <<want, hurt, crashes>>
    BY <1>2, <1>4, <1>5, AdvanceSame, AdvancePasses
  <2>2. JobIs("del", i, None, "unbind", TRUE, Tail(t))'
    BY <1>1, <1>2, <1>4, <1>5, AdvanceHot
  <2> QED BY <2>1, <2>2
<1>7. /\ pools' \in [Dirs -> PoolStates]
      /\ Marks'
      /\ \A r \in Places : Acquired(r)' <=> Acquired(r) /\ r # p
      /\ \A r \in Places : SizeAt(r)' = IF r = p THEN None ELSE SizeAt(r)
  BY <1>4, FreeEffect
<1>8. /\ file' \in [Dirs -> [Chunks -> Texts]]
      /\ \A r \in Places : r # p => FileAt(r)' = FileAt(r)
  BY <1>4, CoverEffect, Constants
<1>9. /\ Clean => \A k \in Ids \ {i} : ~LeadsTo(k, p)
      /\ ~hurt => K[p] = None
  BY <1>2 DEF Store, Structure, Others
<1>10. Store(K, {}, {}, {i}, {}, {i})'
  <2>1. PICK O : O = {i}
    OBVIOUS
  <2>2. PICK N : N = {}
    OBVIOUS
  <2>3. /\ N \subseteq N /\ N \subseteq N \cup {p} /\ N \subseteq Places
        /\ Clean => \A k \in Ids \ O : ~LeadsTo(k, p)
        /\ ~hurt => K[p] = None
    BY <1>9, <2>1, <2>2
  <2>4. Store(K, {}, {}, {}, N, {})
    BY <1>2, <2>2
  <2>5. Store(K, {}, {}, O, N, O)'
    BY <1>4, <1>6, <1>7, <1>8, <2>3, <2>4, StoreFreed
  <2> QED BY <2>1, <2>2, <2>5
<1>11. HasRow(i)' /\ \A r \in Places : LeadsTo(i, r)' => SizeAt(r)' = None
  BY <1>2, <1>4, <1>7, SameIds, OneplacePerId DEF LeadsTo
<1>12. Shape'
  BY <1>4, <1>6, <1>7, <1>8, GidParts, ShapeKept DEF Shape
<1> QED BY <1>1, <1>6, <1>7, <1>10, <1>11, <1>12 DEF ToUnbind

(* And then the id. *)
LEMMA DelUnbinds ==
  ASSUME NEW K, Roomy, Shape, Marks, NEW i \in Ids, ToUnbind(K, i), Steps
  PROVE  Shape' /\ Marks' /\ AtRest(K)'
<1> DEFINE t == <<Unbind>>
<1>1. t # << >> /\ Head(t) = Unbind /\ Tail(t) = << >>
  BY Tuple1
<1>2. /\ JobIs("del", i, None, "unbind", TRUE, t)
      /\ \A r \in Places : LeadsTo(i, r) => SizeAt(r) = None
      /\ Store(K, {}, {}, {i}, {}, {i})
  BY DEF ToUnbind
<1> HIDE DEF t
<1>3. Advance /\ UNCHANGED <<pools, file>> /\ gids' = Unbound(i)
  BY <1>1, <1>2, UnbindIs
<1>4. Head(t).do = "unbind"
  BY <1>1 DEF Unbind
<1>5. UNCHANGED <<hurt, crashes>> /\ want' = Marked(i, None) /\ job' = NoJob
  BY <1>1, <1>2, <1>3, <1>4, AdvanceSame, AdvanceMarks, AdvanceEnds
<1>6. /\ gids' \in IdStates
      /\ Marks'
      /\ \A k \in Ids : /\ Known(k)' <=> Known(k) /\ k # i
                        /\ HasRow(k)' <=> HasRow(k) /\ k # i
                        /\ \A r \in Places : LeadsTo(k, r)' <=> LeadsTo(k, r) /\ k # i
  BY <1>3, UnbindEffect
<1>7. Store(K, {}, {}, {}, {}, {})'
  BY <1>2, <1>3, <1>5, <1>6, StoreUnbound
<1>8. Shape'
  BY <1>3, <1>5, <1>6, ShapeKept DEF Shape, Marked
<1> QED BY <1>5, <1>6, <1>7, <1>8 DEF AtRest

-----------------------------------------------------------------------------
(* The places of a call, before and after a step. *)

(* Each place of a call is one of the invariant.                            *)
LEMMA AtRestStage ==
  ASSUME NEW K, AtRest(K)'
  PROVE  Stage(K)'
BY DEF Stage

(* A call that fills a fresh chunk.                                         *)
LEMMA MovingStage ==
  ASSUME NEW K, NEW c \in FreshCalls, NEW i \in Ids, NEW p \in Places, NEW q \in Places,
         NEW x \in Texts,
         (ToWrite(K, c, i, p, q, x) \/ ToSize(K, c, i, p, q, x) \/ ToPublish(K, c, i, p, q, x))'
  PROVE  Stage(K)'
<1>1. job'.datum = x
  BY DEF ToWrite, ToSize, ToPublish, JobIs
<1>2. Moving(K, x)'
  BY DEF Moving
<1> QED BY <1>1, <1>2 DEF Stage

(* A call that has published the chunk, or has freed the old one.           *)
LEMMA SettlingStage ==
  ASSUME NEW K, NEW i \in Ids, NEW p \in Places, NEW x \in Texts,
         (ToRebind(K, i, p, x) \/ ToDiscard(K, i, p, x))'
  PROVE  Stage(K)'
<1>1. job'.datum = x
  BY DEF ToRebind, ToDiscard, JobIs
<1>2. Settling(K, x)'
  BY DEF Settling
<1> QED BY <1>1, <1>2 DEF Stage

(* A call about to write in the chunk of the datum.                         *)
LEMMA EditStage ==
  ASSUME NEW K, NEW c \in EditCalls, NEW i \in Ids, NEW p \in Places, NEW x \in Texts,
         NEW at, NEW y, NEW n, ToEdit(K, c, i, p, x, at, y, n)'
  PROVE  Stage(K)'
<1>1. PICK a : a = gids'.tab[i]
  OBVIOUS
<1> DEFINE t == Editing(c, p, at, y, n, a)
<1>2. job'.datum = x /\ job'.todo = t
  BY <1>1 DEF ToEdit, JobIs
<1>3. t # << >> /\ Head(t) = Bytes(p, at, y) /\ t[2] = SetSize(p, n)
  BY EditingFacts
<1> HIDE DEF t
<1>4. /\ Due("bytes")'
      /\ Head(job'.todo).at = at /\ Head(job'.todo).data = y /\ job'.todo[2].size = n
  BY <1>2, <1>3 DEF Due, Idle, Bytes, SetSize
<1>5. Changing(K, x)'
  BY <1>4 DEF Changing
<1> QED BY <1>2, <1>5 DEF Stage

(* A call about to commit the new size.                                     *)
LEMMA ResizeStage ==
  ASSUME NEW K, NEW c \in EditCalls, NEW i \in Ids, NEW p \in Places, NEW x \in Texts,
         NEW n, NEW h \in BOOLEAN, ToResize(K, c, i, p, x, n, h)'
  PROVE  Stage(K)'
<1>1. PICK a : a = gids'.tab[i]
  OBVIOUS
<1> DEFINE t == Resizing(c, p, n, a)
<1>2. job'.datum = x /\ job'.todo = t
  BY <1>1 DEF ToResize, JobIs
<1>3. t # << >> /\ Head(t) = SetSize(p, n)
  BY ResizingFacts
<1> HIDE DEF t
<1>4. Due("size")' /\ Head(job'.todo).size = n
  BY <1>2, <1>3 DEF Due, Idle, SetSize
<1>5. Changing(K, x)'
  BY <1>4 DEF Changing
<1> QED BY <1>2, <1>5 DEF Stage

(* An erase about to write the row again.                                   *)
LEMMA ConfirmStage ==
  ASSUME NEW K, NEW i \in Ids, NEW x \in Texts \cup {None}, NEW e \in {"none", "bind"},
         ToConfirm(K, i, x, e)'
  PROVE  Stage(K)'
<1>1. job'.datum = x
  BY DEF ToConfirm, JobIs
<1>2. Confirming(K, x)'
  BY DEF Confirming
<1> QED BY <1>1, <1>2 DEF Stage

(* A del under way.                                                         *)
LEMMA DeletingStage ==
  ASSUME NEW K, NEW i \in Ids, (\E p \in Places : ToFree(K, i, p)') \/ ToUnbind(K, i)'
  PROVE  Stage(K)'
<1>1. Deleting(K)'
  BY DEF Deleting
<1> QED BY <1>1 DEF Stage

(* Each durable step keeps the invariant. *)
LEMMA StepKeeps ==
  ASSUME NEW K, Roomy, BInv(K), Steps
  PROVE  BInv(K)'
<1>1. Shape /\ Marks /\ Stage(K)
  BY DEF BInv
<1>2. ~AtRest(K)
  <2>1. ~Idle
    BY DEF Steps, WriteBytes, CommitSize, ReleaseChunk, CommitId, ReleaseId, Due
  <2>2. NoJob.todo = << >>
    BY DEF NoJob
  <2> QED BY <2>1, <2>2 DEF AtRest, Idle
<1>3. CASE Deleting(K)
  <2>1. PICK i \in Ids : (\E p \in Places : ToFree(K, i, p)) \/ ToUnbind(K, i)
    BY <1>3 DEF Deleting
  <2>2. ASSUME NEW p \in Places, ToFree(K, i, p) PROVE BInv(K)'
    BY <1>1, <2>2, DelFrees, DeletingStage DEF BInv
  <2>3. CASE ToUnbind(K, i)
    BY <1>1, <2>3, DelUnbinds, AtRestStage DEF BInv
  <2> QED BY <2>1, <2>2, <2>3
<1>4. ASSUME NEW x \in Texts, Moving(K, x) PROVE BInv(K)'
  <2>1. PICK c \in FreshCalls, i \in Ids, p \in Places, q \in Places :
          ToWrite(K, c, i, p, q, x) \/ ToSize(K, c, i, p, q, x) \/ ToPublish(K, c, i, p, q, x)
    BY <1>4 DEF Moving
  <2>2. CASE ToWrite(K, c, i, p, q, x)
    BY <1>1, <2>2, WriteKeeps, MovingStage DEF BInv
  <2>3. CASE ToSize(K, c, i, p, q, x)
    BY <1>1, <2>3, SizeKeeps, MovingStage DEF BInv
  <2>4. CASE ToPublish(K, c, i, p, q, x)
    <3>1. CASE c = "put"
      BY <1>1, <2>4, <3>1, PutPublishes, AtRestStage DEF BInv
    <3>2. CASE c = "insert"
      BY <1>1, <2>4, <3>2, InsertFrees, SettlingStage DEF BInv
    <3>3. CASE c = "move"
      BY <1>1, <2>4, <3>3, MovePublishes, SettlingStage DEF BInv
    <3> QED BY <3>1, <3>2, <3>3 DEF FreshCalls
  <2> QED BY <2>1, <2>2, <2>3, <2>4
<1>5. ASSUME NEW x \in Texts, Settling(K, x) PROVE BInv(K)'
  <2>1. PICK i \in Ids, p \in Places : ToRebind(K, i, p, x) \/ ToDiscard(K, i, p, x)
    BY <1>5 DEF Settling
  <2>2. CASE ToRebind(K, i, p, x)
    BY <1>1, <2>2, InsertRebinds, AtRestStage DEF BInv
  <2>3. CASE ToDiscard(K, i, p, x)
    BY <1>1, <2>3, MoveDiscards, AtRestStage DEF BInv
  <2> QED BY <2>1, <2>2, <2>3
<1>6. ASSUME NEW x \in Texts, Changing(K, x) PROVE BInv(K)'
  <2>1. ASSUME NEW c \in EditCalls, NEW i \in Ids, NEW p \in Places, NEW at, NEW y, NEW n,
               ToEdit(K, c, i, p, x, at, y, n)
        PROVE  BInv(K)'
    BY <1>1, <2>1, EditKeeps, ResizeStage DEF BInv
  <2>2. ASSUME NEW c \in EditCalls, NEW i \in Ids, NEW p \in Places, NEW n,
               NEW h \in BOOLEAN, ToResize(K, c, i, p, x, n, h)
        PROVE  BInv(K)'
    <3>1. Shape' /\ Marks' /\ (AtRest(K)' \/ ToConfirm(K, i, x, "none")')
      BY <1>1, <2>2, ResizeKeeps
    <3> QED BY <3>1, AtRestStage, ConfirmStage DEF BInv
  <2> QED BY <1>6, <2>1, <2>2 DEF Changing
<1>7. ASSUME NEW x \in Texts \cup {None}, Confirming(K, x) PROVE BInv(K)'
  <2>1. PICK i \in Ids, e \in {"none", "bind"} : ToConfirm(K, i, x, e)
    BY <1>7 DEF Confirming
  <2> QED BY <1>1, <2>1, ConfirmKeeps, AtRestStage DEF BInv
<1> QED BY <1>1, <1>2, <1>3, <1>4, <1>5, <1>6, <1>7 DEF Stage

-----------------------------------------------------------------------------
(* Crashes and failing writes. *)

(* A write that is due is that of a text to a place. *)
Gathered ==
  Due("bytes") => \E q \in Places, at \in Nat, y \in Texts : Head(job.todo) = Bytes(q, at, y)

(* What a torn write leaves of the other places. *)
LEMMA TornFacts ==
  ASSUME Shape, Gathered, NEW f \in Torn
  PROVE  /\ f \in [Dirs -> [Chunks -> Texts]]
         /\ \A r \in Places :
              f[r.dir][r.loc] = FileAt(r) \/ (Due("bytes") /\ r = Head(job.todo).place)
<1>1. CASE ~Due("bytes")
  BY <1>1 DEF Torn, Shape, FileAt
<1>2. CASE Due("bytes")
  <2>1. PICK q \in Places, at \in Nat, y \in Texts : Head(job.todo) = Bytes(q, at, y)
    BY <1>2 DEF Gathered
  <2>2. PICK k \in 0..Len(y) : f = PutBytes(q, at, SubSeq(y, 1, k))
    BY <1>2, <2>1 DEF Torn, Bytes
  <2>3. SubSeq(y, 1, k) \in Texts
    BY <2>2 DEF Texts
  <2>4. /\ f \in [Dirs -> [Chunks -> Texts]]
        /\ \A r \in Places : r # q => f[r.dir][r.loc] = FileAt(r)
    BY <2>2, <2>3, PutFacts
  <2>5. Head(job.todo).place = q
    BY <2>1 DEF Bytes
  <2> QED BY <1>2, <2>4, <2>5
<1> QED BY <1>1, <1>2

(* An interruption that damages no id leaves every datum a row covers.      *)
LEMMA InterruptFacts ==
  ASSUME Shape, Gathered, Interrupt
  PROVE  /\ file' \in [Dirs -> [Chunks -> Texts]]
         /\ hurt' \in BOOLEAN
         /\ ~hurt' => ~hurt /\ ~job.hot
         /\ hurt' => hurt \/ job.hot \/ (Due("bytes") /\ Destroys(Head(job.todo)))
         /\ \A r \in Places : ~hurt' /\ SizeAt(r) # None => FileAt(r)' = FileAt(r)
<1>1. PICK f \in Torn :
        /\ file' = [d \in Dirs |-> [l \in Chunks |->
                     IF pools[d].size[l] = None THEN << >> ELSE f[d][l]]]
        /\ hurt' = (hurt \/ job.hot \/ (f # file /\ Destroys(Head(job.todo))))
  BY DEF Interrupt
<1>2. /\ f \in [Dirs -> [Chunks -> Texts]]
      /\ \A r \in Places :
           f[r.dir][r.loc] = FileAt(r) \/ (Due("bytes") /\ r = Head(job.todo).place)
  BY TornFacts
<1>3. << >> \in Texts
  BY DEF Texts
<1>4. file' \in [Dirs -> [Chunks -> Texts]]
  BY <1>1, <1>2, <1>3
<1>5. hurt' \in BOOLEAN
  BY <1>1, Zenon
<1>6. hurt' <=> hurt \/ job.hot \/ (f # file /\ Destroys(Head(job.todo)))
  BY <1>1, Zenon
<1>7. f # file => Due("bytes")
  BY DEF Torn
<1>8. ASSUME NEW r \in Places, ~hurt', SizeAt(r) # None PROVE FileAt(r)' = FileAt(r)
  <2>1. FileAt(r)' = f[r.dir][r.loc]
    BY <1>1, <1>8, PlaceParts DEF FileAt, SizeAt
  <2>2. CASE f = file
    BY <2>1, <2>2 DEF FileAt
  <2>3. CASE f # file
    <3>1. Due("bytes") /\ ~Destroys(Head(job.todo))
      BY <1>6, <1>7, <1>8, <2>3
    <3>2. PICK q \in Places, at \in Nat, y \in Texts : Head(job.todo) = Bytes(q, at, y)
      BY <3>1 DEF Gathered
    <3>3. SizeAt(q) = None /\ Head(job.todo).place = q
      BY <3>1, <3>2 DEF Destroys, Bytes
    <3> QED BY <1>2, <1>8, <2>1, <3>3
  <2> QED BY <2>2, <2>3
<1> QED BY <1>4, <1>5, <1>6, <1>7, <1>8

(* The bitmaps a restart builds are those of the rows. *)
LEMMA ReopenedIds ==
  ASSUME Roomy, Shape,
         gids' = [gids EXCEPT !.bm = Gid!Reopened({k \in Ids : HasRow(k)}, gids.hi)]
  PROVE  /\ gids' \in IdStates
         /\ gids'.bm.top <= gids'.bm.size
         /\ \A k \in Ids : /\ Known(k)' <=> HasRow(k)
                           /\ HasRow(k)' <=> HasRow(k)
                           /\ \A r \in Places : LeadsTo(k, r)' <=> LeadsTo(k, r)
<1> DEFINE U == {k \in Ids : HasRow(k)}
           b == Gid!Reopened(U, gids.hi)
<1>1. gids.hi \in 0..GidCap /\ GidInit \in 1..GidCap /\ GidCap \in Nat
  BY GidParts, Constants
<1>2. U \subseteq Gid!Offs
  BY DEF Ids
<1> HIDE DEF U
<1>3. b \in Gid!Bitmaps /\ b.top <= b.size /\ b.used = U
  BY <1>1, <1>2 DEF Gid!Reopened, Gid!Bitmaps
<1>4. gids' = [gids EXCEPT !.bm = b]
  BY DEF U
<1> HIDE DEF b
<1>5. /\ gids' \in IdStates
      /\ gids'.bm.top <= gids'.bm.size
      /\ \A k \in Ids :
              /\ Known(k)' <=> k \in b.used
              /\ HasRow(k)' <=> HasRow(k)
              /\ \A r \in Places : LeadsTo(k, r)' <=> LeadsTo(k, r)
  BY <1>3, <1>4, IdBitmapEffect
<1> QED BY <1>3, <1>5 DEF U

(* The bitmaps of the chunks a restart builds are those of the rows.        *)
LEMMA ReopenedPools ==
  ASSUME Roomy, Shape, Marks,
         pools' = [d \in Dirs |-> [pools[d] EXCEPT
           !.bm = Chk!Reopened({l \in Chunks : pools[d].size[l] # None}, pools[d].hi)]]
  PROVE  /\ pools' \in [Dirs -> PoolStates]
         /\ gids'.bm.top <= gids'.bm.size => Marks'
         /\ \A r \in Places : /\ SizeAt(r)' = SizeAt(r)
                              /\ Acquired(r)' <=> SizeAt(r) # None
<1>1. ASSUME NEW d \in Dirs
      PROVE  /\ pools'[d] \in PoolStates
             /\ pools'[d].bm.top <= pools'[d].bm.size
             /\ pools'[d].size = pools[d].size
             /\ pools'[d].hi = pools[d].hi /\ pools'[d].bm.top = pools[d].hi
             /\ pools'[d].bm.used = {l \in Chunks : pools[d].size[l] # None}
  <2> DEFINE U == {l \in Chunks : pools[d].size[l] # None}
             was == pools[d]
             b == Chk!Reopened(U, was.hi)
  <2>1. was \in PoolStates /\ was.hi \in 0..PoolCap /\ PoolInit \in 1..PoolCap /\ PoolCap \in Nat
    BY <1>1, PoolParts, Constants DEF PoolStates
  <2>2. U \subseteq Chk!Offs
    BY DEF Chunks
  <2>3. pools'[d] = [was EXCEPT !.bm = b]
    BY <1>1
  <2> HIDE DEF U, was
  <2>4. b \in Chk!Bitmaps /\ b.top <= b.size /\ b.used = U /\ b.top = was.hi
    BY <2>1, <2>2 DEF Chk!Reopened, Chk!Bitmaps
  <2> HIDE DEF b
  <2>5. pools'[d] = [bm |-> b, size |-> was.size, hi |-> was.hi]
    BY <2>1, <2>3 DEF PoolStates
  <2>6. pools'[d] \in PoolStates
    BY <2>1, <2>4, <2>5 DEF PoolStates
  <2> QED BY <2>4, <2>5, <2>6 DEF U, was
<1>2. pools' \in [Dirs -> PoolStates]
  BY <1>1
<1>3. ASSUME gids'.bm.top <= gids'.bm.size PROVE Marks'
  <2>1. ASSUME NEW d \in Dirs
        PROVE  /\ pools'[d].bm.top <= pools'[d].bm.size
               /\ \A l \in pools'[d].bm.used : l < pools'[d].bm.top
               /\ \A l \in Chunks : pools'[d].size[l] # None => l < pools'[d].hi
    <3>1. \A l \in Chunks : pools[d].size[l] # None => l < pools[d].hi
      BY DEF Marks
    <3>2. pools'[d].bm.top <= pools'[d].bm.size
      BY <1>1
    <3>3. /\ pools'[d].size = pools[d].size /\ pools'[d].hi = pools[d].hi
          /\ pools'[d].bm.top = pools[d].hi
          /\ pools'[d].bm.used = {l \in Chunks : pools[d].size[l] # None}
      BY <1>1
    <3>4. \A l \in pools'[d].bm.used : l < pools'[d].bm.top
      BY <3>1, <3>3
    <3>5. \A l \in Chunks : pools'[d].size[l] # None => l < pools'[d].hi
      BY <3>1, <3>3
    <3> QED BY <3>2, <3>4, <3>5
  <2> QED BY <1>3, <2>1 DEF Marks
<1>4. ASSUME NEW r \in Places
      PROVE  SizeAt(r)' = SizeAt(r) /\ (Acquired(r)' <=> SizeAt(r) # None)
  BY <1>1, PlaceParts DEF SizeAt, Acquired
<1> QED BY <1>2, <1>3, <1>4

(* What every place of a call promises a restart. *)
Recoverable(K) ==
  \E S, O, H \in SUBSET Ids, T, F \in SUBSET Places :
    /\ Store(K, S, T, O, F, H)
    /\ O # {} \/ H # {} => job.hot
    /\ O \subseteq {job.id} /\ H \subseteq {job.id}
    /\ Idle => O = {} /\ H = {} /\ F = {}

Restartable(K) == Gathered /\ Recoverable(K)

(* A restart between any two steps, or in the middle of a write.            *)
LEMMA CrashKeeps ==
  ASSUME NEW K, Roomy, Shape, Marks, Restartable(K), Crash
  PROVE  BInv(K)'
<1>1. PICK S \in SUBSET Ids, O \in SUBSET Ids, H \in SUBSET Ids, T \in SUBSET Places,
           F \in SUBSET Places :
        /\ Store(K, S, T, O, F, H)
        /\ O # {} \/ H # {} => job.hot
        /\ Idle => O = {} /\ H = {} /\ F = {}
  BY DEF Restartable, Recoverable
<1>2. /\ file' \in [Dirs -> [Chunks -> Texts]]
      /\ hurt' \in BOOLEAN
      /\ ~hurt' => ~hurt /\ ~job.hot
      /\ \A r \in Places : ~hurt' /\ SizeAt(r) # None => FileAt(r)' = FileAt(r)
  BY InterruptFacts DEF Restartable, Crash
<1>3. /\ gids' \in IdStates
      /\ gids'.bm.top <= gids'.bm.size
      /\ \A k \in Ids : /\ Known(k)' <=> HasRow(k)
                        /\ HasRow(k)' <=> HasRow(k)
                        /\ \A r \in Places : LeadsTo(k, r)' <=> LeadsTo(k, r)
  BY ReopenedIds DEF Crash
<1>4. /\ pools' \in [Dirs -> PoolStates]
      /\ Marks'
      /\ \A r \in Places : /\ SizeAt(r)' = SizeAt(r)
                           /\ Acquired(r)' <=> SizeAt(r) # None
  BY <1>3, ReopenedPools DEF Crash
<1>5. crashes' = (IF Idle THEN crashes ELSE crashes + 1) /\ job' = NoJob /\ want' = want
  BY DEF Crash
<1>6. crashes \in Nat
  BY DEF Shape
<1>7. Clean' => Clean /\ O = {}
  BY <1>1, <1>2, <1>5, <1>6 DEF Clean
<1>8. ~hurt' => ~hurt /\ Clean /\ O = {} /\ H = {}
  BY <1>1, <1>2 DEF Clean
<1>9. crashes' = 0 => crashes = 0 /\ \A r \in F \ {} : SizeAt(r) = None
  BY <1>1, <1>5, <1>6
<1>10. Store(K, {}, {}, {}, {}, {})'
  BY <1>1, <1>2, <1>3, <1>4, <1>5, <1>7, <1>8, <1>9, StoreKept
<1>11. Shape'
  BY <1>2, <1>3, <1>4, <1>5, <1>6, ShapeKept DEF Shape
<1>12. AtRest(K)'
  BY <1>5, <1>10 DEF AtRest
<1> QED BY <1>4, <1>11, <1>12, AtRestStage DEF BInv

(* A call that has steps left.                                              *)
LEMMA Waiting ==
  ASSUME NEW c, NEW i, NEW x, NEW e, NEW h, NEW t, JobIs(c, i, x, e, h, t), t # << >>
  PROVE  /\ ~Idle /\ job.hot = h /\ job.id = i
         /\ Head(t).do # "bytes" => Gathered
BY JobFields DEF Idle, Gathered, Due

(* A call whose next step is a write.                                       *)
LEMMA WaitingToWrite ==
  ASSUME NEW c, NEW i, NEW x, NEW e, NEW h, NEW t, JobIs(c, i, x, e, h, t),
         NEW q \in Places, NEW at \in Nat, NEW y \in Texts, Head(t) = Bytes(q, at, y)
  PROVE  Gathered
BY JobFields DEF Gathered

(* A call that has put no id at risk can be interrupted.                    *)
LEMMA QuietRecovers ==
  ASSUME NEW K, NEW S, NEW T, NEW F, Store(K, S, T, {}, F, {}), ~Idle,
         S \subseteq Ids, T \subseteq Places, F \subseteq Places
  PROVE  Recoverable(K)
BY DEF Recoverable

(* So can a call that has, with its own id excepted.                        *)
LEMMA HotRecovers ==
  ASSUME NEW K, NEW O, NEW F, NEW H, Store(K, {}, {}, O, F, H), ~Idle, job.hot = TRUE,
         O \subseteq Ids, F \subseteq Places, H \subseteq Ids,
         O \subseteq {job.id}, H \subseteq {job.id}
  PROVE  Recoverable(K)
<1>1. O # {} \/ H # {} => job.hot
  OBVIOUS
<1> QED BY <1>1 DEF Recoverable

(* Every place of a call can be interrupted.                                *)
LEMMA StageRestartable ==
  ASSUME NEW K, Shape, Stage(K)
  PROVE  Restartable(K)
<1>1. CASE AtRest(K)
  <2>1. Idle
    BY <1>1 DEF AtRest, NoJob, Idle
  <2> QED BY <1>1, <2>1 DEF AtRest, Restartable, Recoverable, Gathered, Due
<1>2. CASE Deleting(K)
  <2>1. ASSUME NEW i \in Ids, NEW p \in Places, ToFree(K, i, p) PROVE Restartable(K)
    <3> DEFINE t == <<FreeChunk(p), Unbind>>
    <3>1. t # << >> /\ Head(t).do # "bytes"
      BY Tuple2 DEF FreeChunk
    <3>2. JobIs("del", i, None, "unbind", FALSE, t) /\ Store(K, {}, {}, {}, {}, {})
      BY <2>1 DEF ToFree
    <3> HIDE DEF t
    <3>8. ~Idle /\ Gathered
      BY <3>1, <3>2, Waiting
    <3>9. Recoverable(K)
      BY <3>1, <3>2, <3>8, QuietRecovers
    <3> QED BY <3>8, <3>9 DEF Restartable
  <2>2. ASSUME NEW i \in Ids, ToUnbind(K, i) PROVE Restartable(K)
    <3> DEFINE t == <<Unbind>>
    <3>1. t # << >> /\ Head(t).do # "bytes"
      BY Tuple1 DEF Unbind
    <3>2. JobIs("del", i, None, "unbind", TRUE, t) /\ Store(K, {}, {}, {i}, {}, {i})
      BY <2>2 DEF ToUnbind
    <3> HIDE DEF t
    <3>8. ~Idle /\ Gathered /\ job.hot = TRUE /\ job.id = i
      BY <3>1, <3>2, Waiting
    <3>9. Recoverable(K)
      <4>1. PICK O : O = {i} /\ O \subseteq Ids
        OBVIOUS
      <4>2. PICK F \in {{}} : F \subseteq Places
        OBVIOUS
      <4>3. Store(K, {}, {}, O, F, O) /\ job.hot = TRUE
        BY <3>2, <3>8, <4>1, <4>2
      <4> QED BY <3>8, <4>1, <4>2, <4>3, HotRecovers
    <3> QED BY <3>8, <3>9 DEF Restartable
  <2> QED BY <1>2, <2>1, <2>2 DEF Deleting
<1>3. ASSUME NEW x \in Texts, Moving(K, x) PROVE Restartable(K)
  <2>1. PICK c \in FreshCalls, i \in Ids, p \in Places, q \in Places :
          ToWrite(K, c, i, p, q, x) \/ ToSize(K, c, i, p, q, x) \/ ToPublish(K, c, i, p, q, x)
    BY <1>3 DEF Moving
  <2>2. OwnId(c, i) \subseteq Ids
    BY DEF OwnId
  <2>3. CASE ToWrite(K, c, i, p, q, x)
    <3> DEFINE t == Writing(c, p, q, x)
    <3>1. t # << >> /\ Head(t) = Bytes(q, 0, x)
      BY WritingFacts
    <3>2. JobIs(c, i, x, "bind", FALSE, t) /\ Store(K, OwnId(c, i), {q}, {}, {q}, {})
      BY <2>3 DEF ToWrite
    <3> HIDE DEF t
    <3>8. ~Idle /\ Gathered
      BY <2>2, <3>1, <3>2, Waiting, WaitingToWrite, Constants
    <3>9. Recoverable(K)
      BY <2>2, <3>1, <3>2, <3>8, QuietRecovers
    <3> QED BY <3>8, <3>9 DEF Restartable
  <2>4. CASE ToSize(K, c, i, p, q, x)
    <3> DEFINE t == Sizing(c, p, q, Len(x))
    <3>1. t # << >> /\ Head(t).do # "bytes"
      BY SizingFacts DEF SetSize
    <3>2. JobIs(c, i, x, "bind", FALSE, t) /\ Store(K, OwnId(c, i), {q}, {}, {q}, {})
      BY <2>4 DEF ToSize
    <3> HIDE DEF t
    <3>8. ~Idle /\ Gathered
      BY <2>2, <3>1, <3>2, Waiting
    <3>9. Recoverable(K)
      BY <2>2, <3>1, <3>2, <3>8, QuietRecovers
    <3> QED BY <3>8, <3>9 DEF Restartable
  <2>5. CASE ToPublish(K, c, i, p, q, x)
    <3> DEFINE t == Publishing(c, p, q)
    <3>1. t # << >> /\ Head(t).do # "bytes"
      <4>1. CASE c = "put"
        BY <4>1, Tuple1 DEF Publishing, Bind
      <4>2. CASE c = "insert"
        BY <4>2, Tuple2 DEF Publishing, FreeChunk
      <4>3. CASE c = "move"
        BY <4>3, Tuple2 DEF Publishing, Bind
      <4> QED BY <4>1, <4>2, <4>3 DEF FreshCalls
    <3>2. JobIs(c, i, x, "bind", FALSE, t) /\ Store(K, OwnId(c, i), {}, {}, {q}, {})
      BY <2>5 DEF ToPublish
    <3> HIDE DEF t
    <3>8. ~Idle /\ Gathered
      BY <2>2, <3>1, <3>2, Waiting
    <3>9. Recoverable(K)
      BY <2>2, <3>1, <3>2, <3>8, QuietRecovers
    <3> QED BY <3>8, <3>9 DEF Restartable
  <2> QED BY <2>1, <2>3, <2>4, <2>5
<1>4. ASSUME NEW x \in Texts, Settling(K, x) PROVE Restartable(K)
  <2>1. ASSUME NEW i \in Ids, NEW q \in Places, ToRebind(K, i, q, x) PROVE Restartable(K)
    <3> DEFINE t == <<Bind(Address(q))>>
    <3>1. t # << >> /\ Head(t).do # "bytes"
      BY Tuple1 DEF Bind
    <3>2. JobIs("insert", i, x, "bind", TRUE, t) /\ Store(K, {}, {}, {i}, {q}, {i})
      BY <2>1 DEF ToRebind
    <3> HIDE DEF t
    <3>8. ~Idle /\ Gathered /\ job.hot = TRUE /\ job.id = i
      BY <3>1, <3>2, Waiting
    <3>9. Recoverable(K)
      <4>1. PICK O : O = {i} /\ O \subseteq Ids
        OBVIOUS
      <4>2. PICK F : F = {q} /\ F \subseteq Places
        OBVIOUS
      <4>3. Store(K, {}, {}, O, F, O) /\ job.hot = TRUE
        BY <3>2, <3>8, <4>1, <4>2
      <4>4. O \subseteq {job.id}
        BY <3>8, <4>1
      <4> QED BY <3>8, <4>1, <4>2, <4>3, <4>4, HotRecovers
    <3> QED BY <3>8, <3>9 DEF Restartable
  <2>2. ASSUME NEW i \in Ids, NEW p \in Places, ToDiscard(K, i, p, x) PROVE Restartable(K)
    <3> DEFINE t == <<FreeChunk(p)>>
    <3>1. t # << >> /\ Head(t).do # "bytes"
      BY Tuple1 DEF FreeChunk
    <3>2. JobIs("move", i, x, "none", FALSE, t) /\ Store(K, {}, {}, {}, {p}, {})
      BY <2>2 DEF ToDiscard
    <3> HIDE DEF t
    <3>8. ~Idle /\ Gathered
      BY <3>1, <3>2, Waiting
    <3>9. Recoverable(K)
      BY <3>1, <3>2, <3>8, QuietRecovers
    <3> QED BY <3>8, <3>9 DEF Restartable
  <2> QED BY <1>4, <2>1, <2>2 DEF Settling
<1>5. ASSUME NEW x \in Texts, Changing(K, x) PROVE Restartable(K)
  <2>1. ASSUME NEW c \in EditCalls, NEW i \in Ids, NEW p \in Places, NEW at, NEW y, NEW n,
               ToEdit(K, c, i, p, x, at, y, n)
        PROVE  Restartable(K)
    <3>1. PICK a : a = gids.tab[i]
      OBVIOUS
    <3> DEFINE t == Editing(c, p, at, y, n, a)
    <3>2. t # << >> /\ Head(t) = Bytes(p, at, y)
      BY EditingFacts
    <3>3. /\ JobIs(c, i, x, "size", FALSE, t) /\ Store(K, {}, {}, {}, {}, {})
          /\ at \in Nat /\ y \in Texts
      BY <2>1, <3>1 DEF ToEdit
    <3> HIDE DEF t
    <3>8. ~Idle /\ Gathered
      BY <3>2, <3>3, Waiting, WaitingToWrite
    <3>9. Recoverable(K)
      BY <3>2, <3>3, <3>8, QuietRecovers
    <3> QED BY <3>8, <3>9 DEF Restartable
  <2>2. ASSUME NEW c \in EditCalls, NEW i \in Ids, NEW p \in Places, NEW n,
               NEW h \in BOOLEAN, ToResize(K, c, i, p, x, n, h)
        PROVE  Restartable(K)
    <3>1. PICK a : a = gids.tab[i]
      OBVIOUS
    <3> DEFINE t == Resizing(c, p, n, a)
               H == IF h THEN {i} ELSE {}
    <3>2. t # << >> /\ Head(t).do # "bytes"
      BY ResizingFacts DEF SetSize
    <3>3. JobIs(c, i, x, "size", h, t) /\ Store(K, {}, {}, {}, {}, H)
      BY <2>2, <3>1 DEF ToResize
    <3>4. /\ H \subseteq Ids /\ H \subseteq {i}
          /\ h = FALSE => H = {}
      OBVIOUS
    <3> HIDE DEF t, H
    <3>5. ~Idle /\ job.hot = h /\ job.id = i /\ Gathered
      BY <3>2, <3>3, Waiting
    <3>6. CASE h = TRUE
      BY <3>3, <3>4, <3>5, <3>6, HotRecovers DEF Restartable
    <3>7. CASE h = FALSE
      BY <3>3, <3>4, <3>5, <3>7, QuietRecovers DEF Restartable
    <3> QED BY <3>6, <3>7
  <2> QED BY <1>5, <2>1, <2>2 DEF Changing
<1>6. ASSUME NEW x \in Texts \cup {None}, Confirming(K, x) PROVE Restartable(K)
  <2>1. PICK i \in Ids, e \in {"none", "bind"} : ToConfirm(K, i, x, e)
    BY <1>6 DEF Confirming
  <2>2. PICK a : a = gids.tab[i]
    OBVIOUS
  <2> DEFINE t == <<Bind(a)>>
  <2>3. t # << >> /\ Head(t).do # "bytes"
    BY Tuple1 DEF Bind
  <2>4. JobIs("erase", i, x, e, FALSE, t) /\ Store(K, {}, {}, {}, {}, {})
    BY <2>1, <2>2 DEF ToConfirm
  <2> HIDE DEF t
  <2>8. ~Idle /\ Gathered
    BY <2>3, <2>4, Waiting
  <2>9. Recoverable(K)
    BY <2>3, <2>4, <2>8, QuietRecovers
  <2> QED BY <2>8, <2>9 DEF Restartable
<1> QED BY <1>1, <1>2, <1>3, <1>4, <1>5, <1>6 DEF Stage

(* The handle of a chunk without a row gives it back. *)
LEMMA GivenBack ==
  ASSUME Roomy, Shape, Marks, NEW q \in Places,
         pools' = [pools EXCEPT ![q.dir].bm = Chk!LetGo(@, q.loc)],
         gids'.bm.top <= gids'.bm.size
  PROVE  /\ pools' \in [Dirs -> PoolStates]
         /\ Marks'
         /\ \A r \in Places : /\ SizeAt(r)' = SizeAt(r)
                              /\ Acquired(r)' <=> Acquired(r) /\ r # q
<1> DEFINE d == q.dir
           b == Chk!LetGo(pools[d].bm, q.loc)
<1>1. pools' = [pools EXCEPT ![d].bm = b]
  OBVIOUS
<1>2. d \in Dirs /\ q.loc \in Chunks
  BY PlaceParts
<1>3. /\ b \in Chk!Bitmaps /\ b.used = pools[d].bm.used \ {q.loc}
      /\ b.top = pools[d].bm.top /\ b.size = pools[d].bm.size
  BY <1>2, PoolParts DEF Chk!LetGo, Chk!Bitmaps
<1> HIDE DEF b
<1>4. b.top <= b.size /\ \A l \in b.used : l < b.top
  BY <1>2, <1>3 DEF Marks
<1>5. /\ pools' \in [Dirs -> PoolStates]
      /\ gids'.bm.top <= gids'.bm.size => Marks'
      /\ \A r \in Places : SizeAt(r)' = SizeAt(r)
      /\ \A r \in Places :
           Acquired(r)' <=> IF r.dir = d THEN r.loc \in b.used ELSE Acquired(r)
  BY <1>1, <1>2, <1>3, <1>4, BitmapEffect
<1>6. ASSUME NEW r \in Places PROVE Acquired(r)' <=> Acquired(r) /\ r # q
  <2>1. r = q \/ r.dir # d \/ r.loc # q.loc
    BY PlaceParts
  <2>2. r.loc \in Chunks
    BY PlaceParts
  <2> QED BY <1>3, <1>5, <2>1, <2>2 DEF Acquired
<1> QED BY <1>5, <1>6

(* The handles of a failed put of a new id, insertion or update give back   *)
(* what it acquired.                                                        *)
LEMMA FreshFails ==
  ASSUME NEW K, Roomy, Shape, Marks, NEW c \in FreshCalls, NEW i \in Ids, NEW p \in Places,
         NEW q \in Places, NEW x \in Texts, ToWrite(K, c, i, p, q, x), WriteFails, Restartable(K)
  PROVE  BInv(K)'
<1> DEFINE t == Writing(c, p, q, x)
<1>1. t # << >> /\ Head(t) = Bytes(q, 0, x) /\ t[2] = SetSize(q, Len(x))
  BY WritingFacts
<1>2. /\ JobIs(c, i, x, "bind", FALSE, t) /\ Before(c, i, p) /\ SizeAt(q) = None
      /\ Store(K, OwnId(c, i), {q}, {}, {q}, {})
  BY DEF ToWrite
<1> HIDE DEF t
<1>3. job.todo = t /\ job.hot = FALSE /\ job.id = i
  BY <1>2, JobFields
<1>4. ~Destroys(Head(job.todo)) /\ job.todo[2].place = q
  BY <1>1, <1>2, <1>3 DEF Destroys, Bytes, SetSize
<1>5. /\ file' \in [Dirs -> [Chunks -> Texts]]
      /\ hurt' \in BOOLEAN
      /\ hurt' <=> hurt
      /\ \A r \in Places : ~hurt' /\ SizeAt(r) # None => FileAt(r)' = FileAt(r)
  BY <1>3, <1>4, InterruptFacts DEF Restartable, WriteFails
<1>6. UNCHANGED <<want, crashes>> /\ job' = NoJob
  BY DEF WriteFails
<1>7. i # None
  BY Constants
<1>8. KeepsId <=> HasRow(i)
  BY <1>3, <1>7 DEF KeepsId
<1>9. /\ \A k \in Ids : Known(k) <=> HasRow(k) \/ k \in OwnId(c, i)
      /\ \A r \in Places : Acquired(r) <=> SizeAt(r) # None \/ r = q
  BY <1>2 DEF Store, Matches
<1>10. /\ gids' \in IdStates
       /\ gids'.bm.top <= gids'.bm.size
       /\ \A k \in Ids : /\ Known(k)' <=> HasRow(k)
                         /\ HasRow(k)' <=> HasRow(k)
                         /\ \A r \in Places : LeadsTo(k, r)' <=> LeadsTo(k, r)
  <2>1. CASE HasRow(i)
    <3>1. gids' = gids
      BY <1>8, <2>1 DEF WriteFails
    <3>2. c # "put"
      BY <1>2, <2>1 DEF Before
    <3>3. \A k \in Ids : Known(k) <=> HasRow(k)
      BY <1>9, <3>2 DEF OwnId
    <3> QED BY <3>1, <3>3, SameIds, GidParts DEF Marks
  <2>2. CASE ~HasRow(i)
    <3> DEFINE b == Gid!LetGo(gids.bm, i)
    <3>1. gids' = [gids EXCEPT !.bm = b]
      BY <1>3, <1>8, <2>2 DEF WriteFails
    <3>2. /\ b \in Gid!Bitmaps /\ b.used = gids.bm.used \ {i} /\ b.top = gids.bm.top
          /\ b.size = gids.bm.size
      BY GidParts DEF Gid!LetGo, Gid!Bitmaps
    <3> HIDE DEF b
    <3>3. c = "put"
      BY <1>2, <2>2 DEF Before, LeadsTo
    <3>4. b.top <= b.size
      BY <3>2 DEF Marks
    <3>5. /\ gids' \in IdStates
          /\ gids'.bm.top <= gids'.bm.size
          /\ \A k \in Ids :
               /\ Known(k)' <=> k \in b.used
               /\ HasRow(k)' <=> HasRow(k)
               /\ \A r \in Places : LeadsTo(k, r)' <=> LeadsTo(k, r)
      BY <3>1, <3>2, <3>4, IdBitmapEffect
    <3>6. \A k \in Ids : k \in b.used <=> HasRow(k)
      BY <1>9, <2>2, <3>2, <3>3 DEF Known, OwnId
    <3> QED BY <3>5, <3>6
  <2> QED BY <2>1, <2>2
<1>11. /\ pools' \in [Dirs -> PoolStates]
       /\ Marks'
       /\ \A r \in Places : /\ SizeAt(r)' = SizeAt(r)
                            /\ Acquired(r)' <=> SizeAt(r) # None
  <2>1. pools' = [pools EXCEPT ![q.dir].bm = Chk!LetGo(@, q.loc)]
    BY <1>2, <1>4 DEF WriteFails
  <2> QED BY <1>2, <1>9, <1>10, <2>1, GivenBack
<1>12. (Clean' <=> Clean) /\ (~hurt' => ~hurt /\ Clean)
  BY <1>5, <1>6 DEF Clean
<1>13. Store(K, {}, {}, {}, {}, {})'
  BY <1>2, <1>5, <1>6, <1>10, <1>11, <1>12, StoreKept
<1>14. Shape'
  BY <1>5, <1>6, <1>10, <1>11, ShapeKept DEF Shape
<1>15. AtRest(K)'
  BY <1>6, <1>13 DEF AtRest
<1> QED BY <1>11, <1>14, <1>15, AtRestStage DEF BInv

(* A write into the datum itself that fails may have damaged its id, and    *)
(* nothing else.                                                            *)
LEMMA EditFails ==
  ASSUME NEW K, Roomy, Shape, Marks, NEW c \in EditCalls, NEW i \in Ids, NEW p \in Places,
         NEW x \in Texts, NEW at, NEW y, NEW n, ToEdit(K, c, i, p, x, at, y, n), WriteFails,
         Restartable(K)
  PROVE  BInv(K)'
<1>1. PICK a : a = gids.tab[i]
  OBVIOUS
<1> DEFINE t == Editing(c, p, at, y, n, a)
<1>2. t # << >> /\ Head(t) = Bytes(p, at, y) /\ t[2] = SetSize(p, n)
  BY EditingFacts
<1>3. /\ JobIs(c, i, x, "size", FALSE, t) /\ LeadsTo(i, p) /\ SizeAt(p) # None
      /\ Store(K, {}, {}, {}, {}, {})
  BY <1>1 DEF ToEdit, Holds
<1> HIDE DEF t
<1>4. job.todo = t /\ job.hot = FALSE /\ job.id = i /\ job.todo[2].place = p
  <2>1. job.todo = t /\ job.hot = FALSE /\ job.id = i
    BY <1>3, JobFields
  <2> QED BY <1>2, <2>1 DEF SetSize
<1>5. /\ file' \in [Dirs -> [Chunks -> Texts]]
      /\ hurt' \in BOOLEAN
      /\ ~hurt' => ~hurt
      /\ \A r \in Places : ~hurt' /\ SizeAt(r) # None => FileAt(r)' = FileAt(r)
  BY InterruptFacts DEF Restartable, WriteFails
<1>6. UNCHANGED <<want, crashes>> /\ job' = NoJob
  BY DEF WriteFails
<1>7. gids' = gids /\ pools' = pools
  <2>1. KeepsId
    BY <1>3, <1>4 DEF KeepsId, LeadsTo
  <2> QED BY <1>3, <1>4, <2>1 DEF WriteFails
<1>8. /\ \A k \in Ids : Known(k) <=> HasRow(k)
      /\ \A r \in Places : Acquired(r) <=> SizeAt(r) # None
  BY <1>3 DEF Store, Matches
<1>9. \A k \in Ids : /\ Known(k)' <=> HasRow(k)
                     /\ HasRow(k)' <=> HasRow(k)
                     /\ \A r \in Places : LeadsTo(k, r)' <=> LeadsTo(k, r)
  BY <1>7, <1>8, SameIds
<1>10. \A r \in Places : /\ SizeAt(r)' = SizeAt(r)
                         /\ Acquired(r)' <=> SizeAt(r) # None
  BY <1>7, <1>8, SamePools
<1>11. (Clean' => Clean) /\ (~hurt' => ~hurt /\ Clean)
  BY <1>5, <1>6 DEF Clean
<1>12. Store(K, {}, {}, {}, {}, {})'
  BY <1>3, <1>5, <1>6, <1>9, <1>10, <1>11, StoreKept
<1>13. Shape' /\ Marks'
  BY <1>5, <1>6, <1>7, ShapeKept DEF Shape, Marks
<1>14. AtRest(K)'
  BY <1>6, <1>12 DEF AtRest
<1> QED BY <1>13, <1>14, AtRestStage DEF BInv

-----------------------------------------------------------------------------
(* The calls. *)

(* The data of clients are texts.                                           *)
LEMMA TextsOfData ==
  ASSUME NEW x \in Data
  PROVE  x \in Texts
BY StoreAssumption DEF Texts, Signs

(* Between calls the bitmaps are those of the rows. *)
LEMMA AtRestFacts ==
  ASSUME NEW K, AtRest(K)
  PROVE  /\ Store(K, {}, {}, {}, {}, {})
         /\ \A k \in Ids : Known(k) <=> HasRow(k)
         /\ \A r \in Places : Acquired(r) <=> SizeAt(r) # None
BY DEF AtRest, Store, Matches

(* A known id leads to a place, which a sound id has in use.                *)
LEMMA KnownPlace ==
  ASSUME NEW K, Roomy, Shape, AtRest(K), NEW i \in Ids, Known(i)
  PROVE  \E p \in Places : /\ PlaceOf(i) = p
                           /\ LeadsTo(i, p)
                           /\ Clean => SizeAt(p) # None
                           /\ Sound(i) => SizeAt(p) \in Nat /\ FileAt(p) \in Texts
<1>1. HasRow(i)
  BY AtRestFacts
<1>2. PICK p \in Places : PlaceOf(i) = p
  BY <1>1, RowFacts
<1>3. LeadsTo(i, p)
  BY <1>1, <1>2 DEF LeadsTo
<1>4. Clean => SizeAt(p) # None
  BY <1>3, AtRestFacts DEF Store, Structure
<1>5. ASSUME Sound(i) PROVE SizeAt(p) \in Nat /\ FileAt(p) \in Texts
  <2>1. SizeAt(p) # None
    BY <1>2, <1>5, AtRestFacts DEF Sound
  <2> QED BY <2>1, PlaceParts, PoolParts DEF SizeAt, FileAt, PoolStates
<1> QED BY <1>2, <1>3, <1>4, <1>5

(* The call that begins.                                                    *)
LEMMA BeginIs ==
  ASSUME NEW c, NEW i, NEW x, NEW e, NEW t, Begin(c, i, x, e, t)
  PROVE  /\ JobIs(c, i, x, e, FALSE, t)'
         /\ UNCHANGED <<file, want, hurt, crashes>>
BY DEF Begin, JobIs

(* A refused call changes nothing. *)
LEMMA ThrowKeeps ==
  ASSUME NEW K, Roomy, Shape, Marks, AtRest(K), NEW e, Throw(e),
         gids' \in IdStates, gids'.bm.top <= gids'.bm.size,
         \A k \in Ids : /\ Known(k)' <=> Known(k)
                        /\ HasRow(k)' <=> HasRow(k)
                        /\ \A r \in Places : LeadsTo(k, r)' <=> LeadsTo(k, r)
  PROVE  BInv(K)'
<1>1. UNCHANGED <<pools, file, job, want, hurt, crashes>>
  BY DEF Throw
<1>2. \A r \in Places : /\ SizeAt(r)' = SizeAt(r)
                        /\ Acquired(r)' <=> SizeAt(r) # None
                        /\ FileAt(r)' = FileAt(r)
  BY <1>1, SamePools, AtRestFacts DEF FileAt
<1>3. (Clean' <=> Clean) /\ (~hurt => Clean)
  BY <1>1 DEF Clean
<1>4. Store(K, {}, {}, {}, {}, {})'
  BY <1>1, <1>2, <1>3, AtRestFacts, StoreKept
<1>5. Shape' /\ Marks'
  BY <1>1 DEF Shape, Marks
<1>6. AtRest(K)'
  BY <1>1, <1>4 DEF AtRest
<1> QED BY <1>5, <1>6, AtRestStage DEF BInv

(* A call that throws without touching the table of ids.                    *)
LEMMA RefusedKeeps ==
  ASSUME NEW K, Roomy, Shape, Marks, AtRest(K), NEW e, Throw(e), gids' = gids
  PROVE  BInv(K)'
<1>1. gids' \in IdStates /\ gids'.bm.top <= gids'.bm.size
  BY GidParts DEF Marks
<1> QED BY <1>1, SameIds, ThrowKeeps

(* Acquiring a chunk marks it and changes nothing else.                     *)
LEMMA ClaimFacts ==
  ASSUME Roomy, Shape, Marks, NEW mem \in BOOLEAN, NEW q \in Places,
         q.loc \in Granted(q.dir, mem), Claim(q, mem), gids'.bm.top <= gids'.bm.size
  PROVE  /\ pools' \in [Dirs -> PoolStates]
         /\ Marks'
         /\ ~Acquired(q)
         /\ \A r \in Places : SizeAt(r)' = SizeAt(r)
         /\ \A r \in Places : Acquired(r)' <=> Acquired(r) \/ r = q
<1> DEFINE d == q.dir
           l == q.loc
           was == pools[d].bm
           b == Chk!AfterAcquire(was, mem, l)
<1>1. d \in Dirs /\ l \in Chunks /\ was \in Chk!Bitmaps /\ was.top <= was.size
  BY PlaceParts, PoolParts DEF Marks
<1>2. l \in Chk!Grants(was, mem)
  BY DEF Granted
<1>3. pools' = [pools EXCEPT ![d].bm = b]
  BY DEF Claim
<1> HIDE DEF was
<1>4. was \in ChkP!Bitmaps /\ l \in ChkP!Grants(was, mem) /\ b = ChkP!AfterAcquire(was, mem, l)
  <2>1. Chk!Bitmaps = ChkP!Bitmaps
    BY DEF Chk!Bitmaps, Chk!Offs, ChkP!Bitmaps, ChkP!Offs
  <2>2. Chk!Room(was, mem) = ChkP!Room(was, mem)
    BY DEF Chk!Room, Chk!Above, Chk!Free, Chk!CanExtend, Chk!Extend, Chk!GrownSize,
           ChkP!Room, ChkP!Above, ChkP!Free, ChkP!CanExtend, ChkP!Extend, ChkP!GrownSize
  <2>3. Chk!Grants(was, mem) = ChkP!Grants(was, mem)
    BY <2>2 DEF Chk!Grants, Chk!Choice, Chk!First, Chk!Above, Chk!Free,
                ChkP!Grants, ChkP!Choice, ChkP!First, ChkP!Above, ChkP!Free
  <2>4. b = ChkP!AfterAcquire(was, mem, l)
    BY <2>2 DEF Chk!AfterAcquire, Chk!Hold, ChkP!AfterAcquire, ChkP!Hold
  <2> QED BY <1>1, <1>2, <2>1, <2>3, <2>4
<1>5. /\ b \in Chk!Bitmaps /\ l \notin was.used /\ b.used = was.used \cup {l}
      /\ b.top <= b.size /\ was.top <= b.top /\ l < b.top
  <2>1. ChkP!TableAssumption
    BY Constants
  <2>2. Chk!Bitmaps = ChkP!Bitmaps
    BY DEF Chk!Bitmaps, Chk!Offs, ChkP!Bitmaps, ChkP!Offs
  <2> HIDE DEF b
  <2> QED BY <1>1, <1>4, <2>1, <2>2, ChkP!AcquireFacts
<1> HIDE DEF b
<1>6. \A k \in b.used : k < b.top
  <2>1. \A k \in was.used : k \in Nat /\ k < was.top
    BY <1>1, PoolParts, Constants DEF Marks, was
  <2>2. b.top \in Nat /\ was.top \in Nat
    BY <1>1, <1>5 DEF Chk!Bitmaps
  <2> QED BY <1>5, <2>1, <2>2
<1>7. /\ pools' \in [Dirs -> PoolStates]
      /\ gids'.bm.top <= gids'.bm.size => Marks'
      /\ \A r \in Places : SizeAt(r)' = SizeAt(r)
      /\ \A r \in Places :
           Acquired(r)' <=> IF r.dir = d THEN r.loc \in b.used ELSE Acquired(r)
  BY <1>1, <1>3, <1>5, <1>6, BitmapEffect
<1>8. ~Acquired(q)
  BY <1>5 DEF Acquired, was
<1>9. ASSUME NEW r \in Places PROVE Acquired(r)' <=> Acquired(r) \/ r = q
  <2>1. (r = q \/ r.dir # d \/ r.loc # l) /\ r.loc \in Chunks
    BY PlaceParts
  <2> QED BY <1>5, <1>7, <2>1 DEF Acquired, was
<1> QED BY <1>7, <1>8, <1>9

(* A call that has found a chunk for its datum. *)
LEMMA FreshBegins ==
  ASSUME NEW K, Roomy, Shape, Marks, AtRest(K), NEW c \in FreshCalls, NEW i \in Ids,
         NEW p \in Places, NEW q \in Places, NEW x \in Texts, NEW mem \in BOOLEAN,
         q.loc \in Granted(q.dir, mem), Claim(q, mem), Before(c, i, p),
         Begin(c, i, x, "bind", Writing(c, p, q, x)),
         gids' \in IdStates, gids'.bm.top <= gids'.bm.size,
         \A k \in Ids : /\ Known(k)' <=> Known(k) \/ k \in OwnId(c, i)
                        /\ HasRow(k)' <=> HasRow(k)
                        /\ \A r \in Places : LeadsTo(k, r)' <=> LeadsTo(k, r)
  PROVE  BInv(K)'
<1> DEFINE t == Writing(c, p, q, x)
<1> HIDE DEF t
<1>1. JobIs(c, i, x, "bind", FALSE, t)' /\ UNCHANGED <<file, want, hurt, crashes>>
  BY BeginIs DEF t
<1>2. /\ pools' \in [Dirs -> PoolStates]
      /\ Marks'
      /\ ~Acquired(q)
      /\ \A r \in Places : SizeAt(r)' = SizeAt(r)
      /\ \A r \in Places : Acquired(r)' <=> Acquired(r) \/ r = q
  BY ClaimFacts
<1>3. PICK S : S = OwnId(c, i)
  OBVIOUS
<1>4. Store(K, S, {q}, {}, {q}, {})' /\ SizeAt(q)' = None
  BY <1>1, <1>2, <1>3, AtRestFacts, StoreClaimed
<1>5. Before(c, i, p)'
  <2>1. Clean' <=> Clean
    BY <1>1 DEF Clean
  <2> QED BY <1>2, <2>1 DEF Before
<1>6. ToWrite(K, c, i, p, q, x)'
  BY <1>1, <1>3, <1>4, <1>5 DEF ToWrite, t
<1>7. Shape'
  BY <1>1, <1>2, ShapeKept DEF Shape
<1> QED BY <1>2, <1>6, <1>7, MovingStage DEF BInv

(* A put that holds its new id, with or without room for the datum.         *)
LEMMA PutNewKeeps ==
  ASSUME NEW K, Roomy, Shape, Marks, AtRest(K), NEW i \in Ids, ~Known(i), NEW b \in Gid!Bitmaps,
         b.used = gids.bm.used \cup {i}, b.top <= b.size, NEW x \in Data,
         NEW mem \in BOOLEAN, PutNew(i, b, x, mem)
  PROVE  BInv(K)'
<1>1. x \in Texts
  BY TextsOfData
<1>2. ASSUME NEW e, gids' = [gids EXCEPT !.bm = Gid!LetGo(b, i)], Throw(e)
      PROVE  BInv(K)'
  <2> DEFINE g == Gid!LetGo(b, i)
  <2>1. g \in Gid!Bitmaps /\ g.top <= g.size /\ g.used = gids.bm.used
    BY DEF Gid!LetGo, Gid!Bitmaps, Known
  <2> HIDE DEF g
  <2>2. gids' = [gids EXCEPT !.bm = g]
    BY <1>2 DEF g
  <2>3. /\ gids' \in IdStates
        /\ gids'.bm.top <= gids'.bm.size
        /\ \A k \in Ids :
             /\ Known(k)' <=> k \in g.used
             /\ HasRow(k)' <=> HasRow(k)
             /\ \A r \in Places : LeadsTo(k, r)' <=> LeadsTo(k, r)
    BY <2>1, <2>2, IdBitmapEffect
  <2>4. \A k \in Ids : k \in g.used <=> Known(k)
    BY <2>1 DEF Known
  <2> QED BY <1>2, <2>3, <2>4, ThrowKeeps
<1>3. ASSUME NEW q \in LandingFrom(directory(Len(x)), mem),
             gids' = [gids EXCEPT !.bm = b], Claim(q, mem),
             Begin("put", i, x, "bind",
               <<Bytes(q, 0, x), SetSize(q, Len(x)), Bind(Address(q))>>)
      PROVE  BInv(K)'
  <2>1. q \in Places /\ q.loc \in Granted(q.dir, mem)
    BY <1>3 DEF LandingFrom
  <2>2. /\ gids' \in IdStates
        /\ gids'.bm.top <= gids'.bm.size
        /\ \A k \in Ids :
             /\ Known(k)' <=> k \in b.used
             /\ HasRow(k)' <=> HasRow(k)
             /\ \A r \in Places : LeadsTo(k, r)' <=> LeadsTo(k, r)
    BY <1>3, IdBitmapEffect
  <2>3. \A k \in Ids : k \in b.used <=> Known(k) \/ k \in OwnId("put", i)
    BY DEF Known, OwnId
  <2>4. Before("put", i, q)
    BY AtRestFacts DEF Before
  <2>5. Begin("put", i, x, "bind", Writing("put", q, q, x))
    BY <1>3 DEF Writing
  <2>6. "put" \in FreshCalls
    BY DEF FreshCalls
  <2> QED BY <1>1, <1>3, <2>1, <2>2, <2>3, <2>4, <2>5, <2>6, FreshBegins
<1> QED BY <1>2, <1>3 DEF PutNew

(* A put of a new id, which Acquire() chooses.                              *)
LEMMA PutKeeps ==
  ASSUME NEW K, Roomy, Shape, Marks, AtRest(K), NEW x \in Data, NEW gmem \in BOOLEAN,
         NEW mem \in BOOLEAN, put(x, gmem, mem)
  PROVE  BInv(K)'
<1>1. CASE Throw("addr_overflow") /\ gids' = gids
  BY <1>1, RefusedKeeps
<1>2. ASSUME NEW i \in Gid!Grants(gids.bm, gmem),
             PutNew(i, Gid!AfterAcquire(gids.bm, gmem, i), x, mem)
      PROVE  BInv(K)'
  <2> DEFINE was == gids.bm
  <2>1. PICK b : b = Gid!AfterAcquire(was, gmem, i)
    OBVIOUS
  <2>2. was \in Gid!Bitmaps /\ was.top <= was.size /\ i \in Gid!Grants(was, gmem)
    BY <1>2, GidParts DEF Marks
  <2>3. PutNew(i, b, x, mem)
    BY <1>2, <2>1
  <2> HIDE DEF was
  <2>4. was \in GidP!Bitmaps /\ i \in GidP!Grants(was, gmem) /\ b = GidP!AfterAcquire(was, gmem, i)
    <3>1. Gid!Bitmaps = GidP!Bitmaps
      BY DEF Gid!Bitmaps, Gid!Offs, GidP!Bitmaps, GidP!Offs
    <3>2. Gid!Room(was, gmem) = GidP!Room(was, gmem)
      BY DEF Gid!Room, Gid!Above, Gid!Free, Gid!CanExtend, Gid!Extend, Gid!GrownSize,
             GidP!Room, GidP!Above, GidP!Free, GidP!CanExtend, GidP!Extend, GidP!GrownSize
    <3>3. Gid!Grants(was, gmem) = GidP!Grants(was, gmem)
      BY <3>2 DEF Gid!Grants, Gid!Choice, Gid!First, Gid!Above, Gid!Free,
                  GidP!Grants, GidP!Choice, GidP!First, GidP!Above, GidP!Free
    <3>4. b = GidP!AfterAcquire(was, gmem, i)
      BY <2>1, <3>2 DEF Gid!AfterAcquire, Gid!Hold, GidP!AfterAcquire, GidP!Hold
    <3> QED BY <2>2, <3>1, <3>3, <3>4
  <2>5. /\ b \in Gid!Bitmaps /\ i \in Ids \ was.used /\ b.used = was.used \cup {i}
        /\ b.top <= b.size
    <3>1. GidP!TableAssumption
      BY Constants
    <3>2. Gid!Bitmaps = GidP!Bitmaps /\ Ids = GidP!Offs
      BY DEF Gid!Bitmaps, Gid!Offs, GidP!Bitmaps, GidP!Offs, Ids
    <3> QED BY <2>2, <2>4, <3>1, <3>2, GidP!AcquireFacts
  <2>6. ~Known(i) /\ b.used = gids.bm.used \cup {i}
    BY <2>5 DEF Known, was
  <2> QED BY <2>3, <2>5, <2>6, PutNewKeeps
<1> QED BY <1>1, <1>2 DEF put

(* A put at an id the client names.                                         *)
LEMMA PutSpecKeeps ==
  ASSUME NEW K, Roomy, Shape, Marks, AtRest(K), NEW x \in Data, NEW i \in Ids, NEW gmem \in BOOLEAN,
         NEW mem \in BOOLEAN, put_spec(x, i, gmem, mem)
  PROVE  BInv(K)'
<1>1. CASE Throw("addr_overflow") /\ gids' = gids
  BY <1>1, RefusedKeeps
<1>2. ASSUME PutNew(i, Gid!AfterAcquireAt(gids.bm, i), x, mem)
      PROVE  BInv(K)'
  <2> DEFINE was == gids.bm
  <2>1. PICK b : b = Gid!AfterAcquireAt(was, i)
    OBVIOUS
  <2>2. was \in Gid!Bitmaps /\ was.top <= was.size
    BY GidParts DEF Marks
  <2>3. PutNew(i, b, x, mem)
    BY <1>2, <2>1
  <2> HIDE DEF was
  <2>4. b = GidP!AfterAcquireAt(was, i)
    BY <2>1 DEF Gid!AfterAcquireAt, Gid!Hold, Gid!ExtendTo,
                GidP!AfterAcquireAt, GidP!Hold, GidP!ExtendTo
  <2>5. b \in Gid!Bitmaps /\ b.used = was.used \cup {i} /\ b.top <= b.size
    <3>1. GidP!TableAssumption
      BY Constants
    <3>2. Gid!Bitmaps = GidP!Bitmaps /\ Ids = GidP!Offs
      BY DEF Gid!Bitmaps, Gid!Offs, GidP!Bitmaps, GidP!Offs, Ids
    <3> QED BY <2>2, <2>4, <3>1, <3>2, GidP!AcquireAtFacts
  <2>6. ~Known(i) /\ b.used = gids.bm.used \cup {i}
    BY <2>5 DEF put_spec, was
  <2> QED BY <2>3, <2>5, <2>6, PutNewKeeps
<1> QED BY <1>1, <1>2 DEF put_spec

(* A call that has found a chunk for the datum of an id in use.             *)
LEMMA MoveBegins ==
  ASSUME NEW K, Roomy, Shape, Marks, AtRest(K), NEW c \in FreshCalls \ {"put"}, NEW i \in Ids,
         NEW p \in Places, NEW q \in Places, NEW x \in Texts, NEW mem \in BOOLEAN,
         q.loc \in Granted(q.dir, mem), Claim(q, mem), Before(c, i, p), gids' = gids,
         Begin(c, i, x, "bind", Writing(c, p, q, x))
  PROVE  BInv(K)'
<1>1. gids' \in IdStates /\ gids'.bm.top <= gids'.bm.size
  BY GidParts DEF Marks
<1>2. \A k \in Ids : /\ Known(k)' <=> Known(k) \/ k \in OwnId(c, i)
                     /\ HasRow(k)' <=> HasRow(k)
                     /\ \A r \in Places : LeadsTo(k, r)' <=> LeadsTo(k, r)
  BY SameIds DEF OwnId
<1> QED BY <1>1, <1>2, FreshBegins

(* An insertion at an id in use.                                            *)
LEMMA InsertKeeps ==
  ASSUME NEW K, Roomy, Shape, Marks, AtRest(K), NEW x \in Data, NEW i \in Ids, NEW off \in Offsets,
         NEW mem \in BOOLEAN, insert(x, i, off, mem)
  PROVE  BInv(K)'
<1>1. Known(i) /\ gids' = gids
  BY DEF insert
<1>2. PICK p \in Places : /\ PlaceOf(i) = p
                          /\ LeadsTo(i, p)
                          /\ Sound(i) => SizeAt(p) \in Nat /\ FileAt(p) \in Texts
  BY <1>1, KnownPlace
<1>3. PICK n : n = SizeAt(p) + Len(x)
  OBVIOUS
<1>4. PICK at : at = IF off = npos THEN SizeAt(p) ELSE off
  OBVIOUS
<1>5. PICK y : y = Splice(BytesAt(p), at, x)
  OBVIOUS
<1>6. CASE \E e : Throw(e)
  BY <1>1, <1>6, RefusedKeeps
<1>7. ASSUME Sound(i), at <= SizeAt(p), NEW q \in Targets(p, n, mem), Claim(q, mem),
             Begin("insert", i, y, "bind",
               <<Bytes(Landed(q), 0, y), SetSize(q, n), FreeChunk(p), Bind(Address(q))>>)
      PROVE  BInv(K)'
  <2>1. q \in Places /\ q.loc \in Granted(q.dir, mem)
    BY <1>7 DEF Targets, LandingFrom
  <2>2. SizeAt(p) \in Nat /\ FileAt(p) \in Texts
    BY <1>2, <1>7
  <2>3. BytesAt(p) \in Texts /\ Len(BytesAt(p)) = SizeAt(p)
    BY <2>2, BytesAre, FirstFacts
  <2>4. at \in 0..SizeAt(p)
    BY <1>4, <1>7, <2>2, StoreAssumption
  <2>5. y \in Texts /\ Len(y) = n
    BY <1>3, <1>5, <2>3, <2>4, TextsOfData, SpliceFacts
  <2>6. Begin("insert", i, y, "bind", Writing("insert", p, q, y))
    BY <1>7, <2>1, <2>5, LandingFacts DEF Writing
  <2>7. "insert" \in FreshCalls \ {"put"}
    BY DEF FreshCalls
  <2>8. Before("insert", i, p)
    BY <1>2, <2>2, Constants DEF Before
  <2> QED BY <1>1, <1>7, <2>1, <2>5, <2>6, <2>7, <2>8, MoveBegins
<1> QED BY <1>2, <1>3, <1>4, <1>5, <1>6, <1>7 DEF insert

(* An update into another chunk.                                            *)
LEMMA MovingKeeps ==
  ASSUME NEW K, Roomy, Shape, Marks, AtRest(K), NEW x \in Data, NEW i \in Ids,
         NEW mem \in BOOLEAN, update_moving(x, i, mem)
  PROVE  BInv(K)'
<1>1. Known(i) /\ gids' = gids
  BY DEF update_moving
<1>2. PICK p \in Places : /\ PlaceOf(i) = p
                          /\ LeadsTo(i, p)
                          /\ Clean => SizeAt(p) # None
  BY <1>1, KnownPlace
<1>3. CASE \E e : Throw(e)
  BY <1>1, <1>3, RefusedKeeps
<1>4. ASSUME NEW q \in LandingFrom(directory(Len(x)), mem), Claim(q, mem),
             Begin("move", i, x, "bind",
               <<Bytes(q, 0, x), SetSize(q, Len(x)), Bind(Address(q)), FreeChunk(p)>>)
      PROVE  BInv(K)'
  <2>1. q \in Places /\ q.loc \in Granted(q.dir, mem)
    BY <1>4 DEF LandingFrom
  <2>2. Begin("move", i, x, "bind", Writing("move", p, q, x))
    BY <1>4 DEF Writing
  <2>3. "move" \in FreshCalls \ {"put"}
    BY DEF FreshCalls
  <2>4. Before("move", i, p)
    BY <1>2 DEF Before
  <2> QED BY <1>1, <1>4, <2>1, <2>2, <2>3, <2>4, TextsOfData, MoveBegins
<1> QED BY <1>2, <1>3, <1>4 DEF update_moving

(* A call that begins without a claim leaves the tables and the files.      *)
LEMMA RestKept ==
  ASSUME NEW K, Roomy, Shape, Marks, AtRest(K), UNCHANGED <<gids, pools, file, want, hurt, crashes>>
  PROVE  /\ Shape' /\ Marks' /\ Store(K, {}, {}, {}, {}, {})'
         /\ \A r \in Places : SizeAt(r)' = SizeAt(r) /\ FileAt(r)' = FileAt(r)
         /\ \A k \in Ids : /\ HasRow(k)' <=> HasRow(k)
                           /\ \A r \in Places : LeadsTo(k, r)' <=> LeadsTo(k, r)
<1>1. Shape' /\ Marks'
  BY DEF Shape, Marks
<1>2. \A r \in Places : /\ SizeAt(r)' = SizeAt(r)
                        /\ Acquired(r)' <=> SizeAt(r) # None
                        /\ FileAt(r)' = FileAt(r)
  BY SamePools, AtRestFacts DEF FileAt
<1>3. (Clean' <=> Clean) /\ (~hurt => Clean)
  BY DEF Clean
<1>4. \A k \in Ids : /\ Known(k)' <=> HasRow(k)
                     /\ HasRow(k)' <=> HasRow(k)
                     /\ \A r \in Places : LeadsTo(k, r)' <=> LeadsTo(k, r)
  BY SameIds, AtRestFacts
<1>5. Store(K, {}, {}, {}, {}, {})'
  BY <1>2, <1>3, <1>4, AtRestFacts, StoreKept
<1> QED BY <1>1, <1>2, <1>4, <1>5

(* A call that finds its id and its chunk in use. *)
LEMMA SoundPlace ==
  ASSUME NEW K, Roomy, Shape, AtRest(K), NEW i \in Ids, Known(i), Sound(i)
  PROVE  \E p \in Places : /\ PlaceOf(i) = p
                           /\ Holds(i, p)
                           /\ SizeAt(p) \in Nat /\ FileAt(p) \in Texts
<1>1. PICK p \in Places : /\ PlaceOf(i) = p
                          /\ LeadsTo(i, p)
                          /\ Sound(i) => SizeAt(p) \in Nat /\ FileAt(p) \in Texts
  BY KnownPlace
<1>2. SizeAt(p) # None
  BY <1>1, Constants
<1> QED BY <1>1, <1>2 DEF Holds

(* An update in place.                                                      *)
LEMMA InPlaceKeeps ==
  ASSUME NEW K, Roomy, Shape, Marks, AtRest(K), NEW x \in Data, NEW i \in Ids, update_in_place(x, i)
  PROVE  BInv(K)'
<1>1. Known(i) /\ gids' = gids
  BY DEF update_in_place
<1>2. CASE \E e : Throw(e)
  BY <1>1, <1>2, RefusedKeeps
<1>3. ASSUME Sound(i), UNCHANGED pools,
             Begin("replace", i, x, "size",
               <<Bytes(PlaceOf(i), 0, x), SetSize(PlaceOf(i), Len(x))>>)
      PROVE  BInv(K)'
  <2>1. PICK p \in Places : PlaceOf(i) = p /\ Holds(i, p) /\ FileAt(p) \in Texts
    BY <1>1, <1>3, SoundPlace
  <2>2. x \in Texts /\ Len(x) \in Nat
    BY TextsOfData DEF Texts
  <2>3. /\ JobIs("replace", i, x, "size", FALSE, <<Bytes(p, 0, x), SetSize(p, Len(x))>>)'
        /\ UNCHANGED <<file, want, hurt, crashes>>
    BY <1>3, <2>1, BeginIs
  <2>4. /\ Shape' /\ Marks' /\ Store(K, {}, {}, {}, {}, {})'
        /\ \A r \in Places : SizeAt(r)' = SizeAt(r) /\ FileAt(r)' = FileAt(r)
        /\ \A r \in Places : LeadsTo(i, r)' <=> LeadsTo(i, r)
    BY <1>1, <1>3, <2>3, RestKept
  <2>5. Holds(i, p)'
    BY <2>1, <2>4 DEF Holds
  <2>6. FirstBytes(Over(FileAt(p), 0, x), Len(x))' = x
    <3>1. FirstBytes(Over(FileAt(p), 0, x), Len(x)) = x
      BY <2>1, <2>2, WholeFacts
    <3>2. FirstBytes(Over(FileAt(p), 0, x), Len(x))' = FirstBytes(Over(FileAt(p)', 0, x), Len(x))
      BY DEF FirstBytes, Over
    <3>3. PICK f : f = FileAt(p)
      OBVIOUS
    <3>4. FileAt(p)' = f
      BY <2>4, <3>3
    <3> QED BY <3>1, <3>2, <3>3, <3>4
  <2>7. ToEdit(K, "replace", i, p, x, 0, x, Len(x))'
    BY <2>2, <2>3, <2>4, <2>5, <2>6 DEF ToEdit, Editing
  <2>8. "replace" \in EditCalls
    BY DEF EditCalls
  <2> QED BY <2>2, <2>4, <2>7, <2>8, EditStage DEF BInv
<1> QED BY <1>2, <1>3 DEF update_in_place

(* A del.                                                                   *)
LEMMA DelKeeps ==
  ASSUME NEW K, Roomy, Shape, Marks, AtRest(K), NEW i \in Ids, del(i)
  PROVE  BInv(K)'
<1>1. Known(i) /\ gids' = gids /\ pools' = pools
  BY DEF del
<1>2. CASE \E e : Throw(e)
  BY <1>1, <1>2, RefusedKeeps
<1>3. ASSUME Sound(i), Begin("del", i, None, "unbind", <<FreeChunk(PlaceOf(i)), Unbind>>)
      PROVE  BInv(K)'
  <2>1. PICK p \in Places : PlaceOf(i) = p /\ Holds(i, p)
    BY <1>1, <1>3, SoundPlace
  <2>2. /\ JobIs("del", i, None, "unbind", FALSE, <<FreeChunk(p), Unbind>>)'
        /\ UNCHANGED <<file, want, hurt, crashes>>
    BY <1>3, <2>1, BeginIs
  <2>3. /\ Shape' /\ Marks' /\ Store(K, {}, {}, {}, {}, {})'
        /\ \A r \in Places : SizeAt(r)' = SizeAt(r) /\ FileAt(r)' = FileAt(r)
        /\ \A r \in Places : LeadsTo(i, r)' <=> LeadsTo(i, r)
    BY <1>1, <2>2, RestKept
  <2>4. ToFree(K, i, p)'
    BY <2>1, <2>2, <2>3 DEF ToFree, Holds
  <2> QED BY <2>3, <2>4, DeletingStage DEF BInv
<1> QED BY <1>2, <1>3 DEF del

(* An erase that starts beyond the datum only writes the row of the id.     *)
LEMMA BeyondKeeps ==
  ASSUME NEW K, Roomy, Shape, Marks, AtRest(K), NEW i \in Ids, Known(i), UNCHANGED <<gids, pools>>,
         Begin("erase", i, want[i], "bind", <<Bind(gids.tab[i])>>)
  PROVE  BInv(K)'
<1>1. PICK a : a = gids.tab[i]
  OBVIOUS
<1>2. PICK x : x = want[i]
  OBVIOUS
<1>3. /\ JobIs("erase", i, x, "bind", FALSE, <<Bind(a)>>)'
      /\ UNCHANGED <<file, want, hurt, crashes>>
  BY <1>1, <1>2, BeginIs
<1>4. /\ Shape' /\ Marks' /\ Store(K, {}, {}, {}, {}, {})'
      /\ HasRow(i)'
  BY <1>3, RestKept, AtRestFacts
<1>5. x \in Texts \cup {None}
  BY <1>2 DEF Shape
<1>6. gids'.tab[i] = a /\ want'[i] = x
  BY <1>1, <1>2, <1>3
<1>7. ToConfirm(K, i, x, "bind")'
  BY <1>3, <1>4, <1>6 DEF ToConfirm
<1> QED BY <1>4, <1>5, <1>7, ConfirmStage DEF BInv

(* An erase within the datum. *)
LEMMA WithinKeeps ==
  ASSUME NEW K, Roomy, Shape, Marks, AtRest(K), NEW i \in Ids, NEW p \in Places, Holds(i, p),
         SizeAt(p) \in Nat, FileAt(p) \in Texts, NEW off \in 0..SizeAt(p),
         NEW size \in Nat \ {0}, UNCHANGED <<gids, pools>>,
         Begin("erase", i, Remaining(p, off, size), "size",
               EraseSteps(p, off, size) \o <<Bind(gids.tab[i])>>)
  PROVE  BInv(K)'
<1>1. PICK a : a = gids.tab[i]
  OBVIOUS
<1>2. PICK f : f = FileAt(p)
  OBVIOUS
<1>3. PICK n : n = SizeAt(p)
  OBVIOUS
<1>4. PICK k : k = Erased(n, off, size)
  OBVIOUS
<1>5. PICK tail : tail = SubSeq(FirstBytes(f, n), off + k + 1, n)
  OBVIOUS
<1>6. PICK x : x = SubSeq(FirstBytes(f, n), 1, off)
                   \o SubSeq(FirstBytes(f, n), off + size + 1, n)
  OBVIOUS
<1>7. /\ n - k \in Nat /\ x \in Texts /\ tail \in Texts
      /\ tail = << >> => FirstBytes(f, n - k) = x
      /\ tail # << >> => FirstBytes(Over(f, off, tail), n - k) = x
  BY <1>2, <1>3, <1>4, <1>5, <1>6, ErasedFacts
<1>8. BytesAt(p) = FirstBytes(f, n)
  BY <1>2, <1>3, BytesAre
<1>9. Remaining(p, off, size) = x
  BY <1>3, <1>6, <1>8 DEF Remaining
<1>10. EraseSteps(p, off, size) =
         (IF tail = << >> THEN << >> ELSE <<Bytes(p, off, tail)>>) \o <<SetSize(p, n - k)>>
  BY <1>3, <1>4, <1>5, <1>8 DEF EraseSteps
<1>11. PICK t : t = EraseSteps(p, off, size) \o <<Bind(a)>>
  OBVIOUS
<1>12. /\ JobIs("erase", i, x, "size", FALSE, t)'
       /\ UNCHANGED <<file, want, hurt, crashes>>
  BY <1>1, <1>9, <1>11, BeginIs
<1>13. /\ Shape' /\ Marks' /\ Store(K, {}, {}, {}, {}, {})'
       /\ FileAt(p)' = f
       /\ Holds(i, p)'
  BY <1>2, <1>12, RestKept DEF Holds
<1>14. gids'.tab[i] = a
  BY <1>1
<1>15. off \in Nat
  OBVIOUS
<1>16. "erase" \in EditCalls
  BY DEF EditCalls
<1>17. CASE tail = << >>
  <2>1. t = Resizing("erase", p, n - k, a)
    BY <1>10, <1>11, <1>17, Joined DEF Resizing
  <2>2. PICK m \in Nat : m = n - k
    BY <1>7
  <2>3. FirstBytes(FileAt(p), m)' = x
    <3>1. FirstBytes(FileAt(p), m)' = FirstBytes(FileAt(p)', m)
      BY DEF FirstBytes
    <3> QED BY <1>7, <1>13, <1>17, <2>2, <3>1
  <2>4. JobIs("erase", i, x, "size", FALSE, Resizing("erase", p, m, gids.tab[i]))'
    BY <1>12, <1>14, <2>1, <2>2 DEF JobIs, Resizing
  <2>5. ToResize(K, "erase", i, p, x, m, FALSE)'
    BY <1>13, <2>3, <2>4 DEF ToResize
  <2> QED BY <1>7, <1>13, <1>16, <2>5, ResizeStage DEF BInv
<1>18. CASE tail # << >>
  <2>1. t = Editing("erase", p, off, tail, n - k, a)
    BY <1>10, <1>11, <1>18, Joined DEF Editing
  <2>2. PICK m \in Nat : m = n - k
    BY <1>7
  <2>3. FirstBytes(Over(FileAt(p), off, tail), m)' = x
    <3>1. FirstBytes(Over(FileAt(p), off, tail), m)' = FirstBytes(Over(FileAt(p)', off, tail), m)
      BY DEF FirstBytes, Over
    <3> QED BY <1>7, <1>13, <1>18, <2>2, <3>1
  <2>4. JobIs("erase", i, x, "size", FALSE, Editing("erase", p, off, tail, m, gids.tab[i]))'
    BY <1>12, <1>14, <2>1, <2>2 DEF JobIs, Editing
  <2>5. ToEdit(K, "erase", i, p, x, off, tail, m)'
    BY <1>7, <1>13, <1>15, <2>3, <2>4 DEF ToEdit
  <2> QED BY <1>7, <1>13, <1>16, <2>5, EditStage DEF BInv
<1> QED BY <1>17, <1>18

(* A partial del.                                                           *)
LEMMA EraseKeeps ==
  ASSUME NEW K, Roomy, Shape, Marks, AtRest(K), NEW i \in Ids, NEW off \in Offsets,
         NEW size \in Counts, erase(i, off, size)
  PROVE  BInv(K)'
<1>1. Known(i) /\ gids' = gids
  BY DEF erase
<1>2. CASE \E e : Throw(e)
  BY <1>1, <1>2, RefusedKeeps
<1>3. CASE pools' = pools /\ Begin("erase", i, want[i], "bind", <<Bind(gids.tab[i])>>)
  BY <1>1, <1>3, BeyondKeeps
<1>4. ASSUME Sound(i), off \in 0..SizeAt(PlaceOf(i)), pools' = pools,
             Begin("erase", i, Remaining(PlaceOf(i), off, size), "size",
               EraseSteps(PlaceOf(i), off, size) \o <<Bind(gids.tab[i])>>)
      PROVE  BInv(K)'
  <2>1. PICK p \in Places : /\ PlaceOf(i) = p /\ Holds(i, p)
                            /\ SizeAt(p) \in Nat /\ FileAt(p) \in Texts
    BY <1>1, <1>4, SoundPlace
  <2>2. size \in Nat \ {0}
    BY StoreAssumption
  <2> QED BY <1>1, <1>4, <2>1, <2>2, WithinKeeps
<1> QED BY <1>2, <1>3, <1>4 DEF erase

(* A call begins only when none is under way. *)
LEMMA IdleAtRest ==
  ASSUME NEW K, Shape, Stage(K), Idle
  PROVE  AtRest(K)
<1>1. CASE Deleting(K)
  <2>1. ASSUME NEW i \in Ids, NEW p \in Places, ToFree(K, i, p) PROVE FALSE
    BY <2>1, Tuple2, Waiting DEF ToFree
  <2>2. ASSUME NEW i \in Ids, ToUnbind(K, i) PROVE FALSE
    BY <2>2, Tuple1, Waiting DEF ToUnbind
  <2> QED BY <1>1, <2>1, <2>2 DEF Deleting
<1>2. ASSUME NEW x \in Texts, Moving(K, x) PROVE FALSE
  <2>1. PICK c \in FreshCalls, i \in Ids, p \in Places, q \in Places :
          ToWrite(K, c, i, p, q, x) \/ ToSize(K, c, i, p, q, x) \/ ToPublish(K, c, i, p, q, x)
    BY <1>2 DEF Moving
  <2>2. CASE ToWrite(K, c, i, p, q, x)
    BY <2>2, WritingFacts, Waiting DEF ToWrite
  <2>3. CASE ToSize(K, c, i, p, q, x)
    BY <2>3, SizingFacts, Waiting DEF ToSize
  <2>4. CASE ToPublish(K, c, i, p, q, x)
    <3>1. Publishing(c, p, q) # << >>
      BY Tuple1, Tuple2 DEF Publishing
    <3> QED BY <2>4, <3>1, Waiting DEF ToPublish
  <2> QED BY <2>1, <2>2, <2>3, <2>4
<1>3. ASSUME NEW x \in Texts, Settling(K, x) PROVE FALSE
  <2>1. ASSUME NEW i \in Ids, NEW q \in Places, ToRebind(K, i, q, x) PROVE FALSE
    BY <2>1, Tuple1, Waiting DEF ToRebind
  <2>2. ASSUME NEW i \in Ids, NEW p \in Places, ToDiscard(K, i, p, x) PROVE FALSE
    BY <2>2, Tuple1, Waiting DEF ToDiscard
  <2> QED BY <1>3, <2>1, <2>2 DEF Settling
<1>4. ASSUME NEW x, Changing(K, x) PROVE FALSE
  BY <1>4 DEF Changing, Due
<1>5. ASSUME NEW x, Confirming(K, x) PROVE FALSE
  <2>1. PICK i \in Ids, e \in {"none", "bind"} : ToConfirm(K, i, x, e)
    BY <1>5 DEF Confirming
  <2> QED BY <2>1, Tuple1, Waiting DEF ToConfirm
<1> QED BY <1>1, <1>2, <1>3, <1>4, <1>5 DEF Stage

(* A call waits for the one before to end.                                  *)
LEMMA CallsWait ==
  ASSUME Calls
  PROVE  Idle
<1>1. \A x, gmem, mem : put(x, gmem, mem) => Idle
  BY DEF put
<1>2. \A x, i, gmem, mem : put_spec(x, i, gmem, mem) => Idle
  BY DEF put_spec
<1>3. \A x, i, off, mem : insert(x, i, off, mem) => Idle
  BY DEF insert
<1>4. \A x, i, mem : update_moving(x, i, mem) => Idle
  BY DEF update_moving
<1>5. \A x, i : update_in_place(x, i) => Idle
  BY DEF update_in_place
<1>6. \A i : (del(i) => Idle) /\ (refuse(i) => Idle)
  BY DEF del, refuse
<1>7. \A i, off, size : erase(i, off, size) => Idle
  BY DEF erase
<1> QED BY <1>1, <1>2, <1>3, <1>4, <1>5, <1>6, <1>7 DEF Calls

(* Each call keeps the invariant. *)
LEMMA CallKeeps ==
  ASSUME NEW K, Roomy, BInv(K), Calls
  PROVE  BInv(K)'
<1>1. Idle
  BY CallsWait
<1>2. Shape /\ Marks /\ AtRest(K)
  BY <1>1, IdleAtRest DEF BInv
<1>3. {TRUE, ~MemMayFail} \subseteq BOOLEAN
  BY StoreAssumption
<1>4. ASSUME NEW x \in Data, NEW gmem \in BOOLEAN, NEW mem \in BOOLEAN, put(x, gmem, mem)
      PROVE  BInv(K)'
  BY <1>2, <1>4, PutKeeps
<1>5. ASSUME NEW x \in Data, NEW i \in Ids, NEW gmem \in BOOLEAN, NEW mem \in BOOLEAN,
             put_spec(x, i, gmem, mem)
      PROVE  BInv(K)'
  BY <1>2, <1>5, PutSpecKeeps
<1>6. ASSUME NEW x \in Data, NEW i \in Ids, NEW off \in Offsets, NEW mem \in BOOLEAN,
             insert(x, i, off, mem)
      PROVE  BInv(K)'
  BY <1>2, <1>6, InsertKeeps
<1>7. ASSUME NEW x \in Data, NEW i \in Ids, update_in_place(x, i)
      PROVE  BInv(K)'
  BY <1>2, <1>7, InPlaceKeeps
<1>8. ASSUME NEW x \in Data, NEW i \in Ids, NEW mem \in BOOLEAN, update_moving(x, i, mem)
      PROVE  BInv(K)'
  BY <1>2, <1>8, MovingKeeps
<1>9. ASSUME NEW i \in Ids, del(i) PROVE BInv(K)'
  BY <1>2, <1>9, DelKeeps
<1>10. ASSUME NEW i \in Ids, refuse(i) PROVE BInv(K)'
  BY <1>2, <1>10, RefusedKeeps DEF refuse
<1>11. ASSUME NEW i \in Ids, NEW off \in Offsets, NEW size \in Counts, erase(i, off, size)
       PROVE  BInv(K)'
  BY <1>2, <1>11, EraseKeeps
<1> QED BY <1>3, <1>4, <1>5, <1>6, <1>7, <1>8, <1>9, <1>10, <1>11 DEF Calls

(* A call whose next step is no write.                                      *)
LEMMA NotWriting ==
  ASSUME NEW c, NEW i, NEW x, NEW e, NEW h, NEW t, JobIs(c, i, x, e, h, t),
         Head(t).do # "bytes"
  PROVE  ~Due("bytes")
BY JobFields DEF Due

(* So does a write that fails: only two places of a call write bytes. *)
LEMMA FailKeeps ==
  ASSUME NEW K, Roomy, BInv(K), WriteFails
  PROVE  BInv(K)'
<1>1. Shape /\ Marks /\ Stage(K) /\ Restartable(K)
  BY StageRestartable DEF BInv
<1>2. Due("bytes")
  BY DEF WriteFails
<1>4. ~AtRest(K)
  BY <1>2 DEF AtRest, NoJob, Due, Idle
<1>5. CASE Deleting(K)
  <2>1. ASSUME NEW i \in Ids, NEW p \in Places, ToFree(K, i, p) PROVE FALSE
    <3> DEFINE t == <<FreeChunk(p), Unbind>>
    <3>1. t # << >> /\ Head(t).do # "bytes"
      BY Tuple2 DEF FreeChunk
    <3>2. JobIs("del", i, None, "unbind", FALSE, t)
      BY <2>1 DEF ToFree
    <3> HIDE DEF t
    <3> QED BY <1>2, <3>1, <3>2, NotWriting
  <2>2. ASSUME NEW i \in Ids, ToUnbind(K, i) PROVE FALSE
    <3> DEFINE t == <<Unbind>>
    <3>1. t # << >> /\ Head(t).do # "bytes"
      BY Tuple1 DEF Unbind
    <3>2. JobIs("del", i, None, "unbind", TRUE, t)
      BY <2>2 DEF ToUnbind
    <3> HIDE DEF t
    <3> QED BY <1>2, <3>1, <3>2, NotWriting
  <2> QED BY <1>5, <2>1, <2>2 DEF Deleting
<1>6. ASSUME NEW x \in Texts, Moving(K, x) PROVE BInv(K)'
  <2>1. PICK c \in FreshCalls, i \in Ids, p \in Places, q \in Places :
          ToWrite(K, c, i, p, q, x) \/ ToSize(K, c, i, p, q, x) \/ ToPublish(K, c, i, p, q, x)
    BY <1>6 DEF Moving
  <2>2. CASE ToWrite(K, c, i, p, q, x)
    BY <1>1, <2>2, FreshFails
  <2>3. ~ToSize(K, c, i, p, q, x)
    <3>1. Head(Sizing(c, p, q, Len(x))).do # "bytes"
      BY SizingFacts DEF SetSize
    <3> QED BY <1>2, <3>1, NotWriting DEF ToSize
  <2>4. ~ToPublish(K, c, i, p, q, x)
    <3>1. Head(Publishing(c, p, q)).do # "bytes"
      BY Tuple1, Tuple2 DEF Publishing, Bind, FreeChunk
    <3> QED BY <1>2, <3>1, NotWriting DEF ToPublish
  <2> QED BY <2>1, <2>2, <2>3, <2>4
<1>7. ASSUME NEW x \in Texts, Settling(K, x) PROVE FALSE
  <2>1. ASSUME NEW i \in Ids, NEW q \in Places, ToRebind(K, i, q, x) PROVE FALSE
    <3> DEFINE t == <<Bind(Address(q))>>
    <3>1. t # << >> /\ Head(t).do # "bytes"
      BY Tuple1 DEF Bind
    <3>2. JobIs("insert", i, x, "bind", TRUE, t)
      BY <2>1 DEF ToRebind
    <3> HIDE DEF t
    <3> QED BY <1>2, <3>1, <3>2, NotWriting
  <2>2. ASSUME NEW i \in Ids, NEW p \in Places, ToDiscard(K, i, p, x) PROVE FALSE
    <3> DEFINE t == <<FreeChunk(p)>>
    <3>1. t # << >> /\ Head(t).do # "bytes"
      BY Tuple1 DEF FreeChunk
    <3>2. JobIs("move", i, x, "none", FALSE, t)
      BY <2>2 DEF ToDiscard
    <3> HIDE DEF t
    <3> QED BY <1>2, <3>1, <3>2, NotWriting
  <2> QED BY <1>7, <2>1, <2>2 DEF Settling
<1>8. ASSUME NEW x \in Texts, Changing(K, x) PROVE BInv(K)'
  <2>1. ~Due("size")
    BY <1>2 DEF Due
  <2>2. ASSUME NEW c \in EditCalls, NEW i \in Ids, NEW p \in Places, NEW at, NEW y, NEW n,
               ToEdit(K, c, i, p, x, at, y, n)
        PROVE  BInv(K)'
    BY <1>1, <2>2, EditFails
  <2> QED BY <1>8, <2>1, <2>2 DEF Changing
<1>9. ASSUME NEW x, Confirming(K, x) PROVE FALSE
  <2>1. PICK i \in Ids, e \in {"none", "bind"} : ToConfirm(K, i, x, e)
    BY <1>9 DEF Confirming
  <2>2. PICK a : a = gids.tab[i]
    OBVIOUS
  <2> DEFINE t == <<Bind(a)>>
  <2>3. t # << >> /\ Head(t).do # "bytes"
    BY Tuple1 DEF Bind
  <2>4. JobIs("erase", i, x, e, FALSE, t)
    BY <2>1, <2>2 DEF ToConfirm
  <2> HIDE DEF t
  <2> QED BY <1>2, <2>3, <2>4, NotWriting
<1> QED BY <1>1, <1>4, <1>5, <1>6, <1>7, <1>8, <1>9 DEF Stage

(* The initial state.                                                       *)
LEMMA InitKeeps ==
  ASSUME Roomy, Init
  PROVE  BInv(Nobody)
<1>1. /\ gids = [bm |-> Gid!Fresh, tab |-> [i \in Ids |-> None], hi |-> 0]
      /\ pools = [d \in Dirs |->
                    [bm |-> Chk!Fresh, size |-> [l \in Chunks |-> None], hi |-> 0]]
      /\ file = [d \in Dirs |-> [l \in Chunks |-> << >>]]
      /\ want = [i \in Ids |-> None]
      /\ job = NoJob /\ hurt = FALSE /\ crashes = 0
  BY DEF Init
<1>2. Gid!Fresh \in Gid!Bitmaps /\ Chk!Fresh \in Chk!Bitmaps
  BY Constants, StoreAssumption DEF Gid!Fresh, Gid!Bitmaps, Gid!Offs, Chk!Fresh, Chk!Bitmaps,
     Chk!Offs
<1>3. /\ Gid!Fresh.used = {} /\ Gid!Fresh.top = 0 /\ Gid!Fresh.size \in Nat
      /\ Chk!Fresh.used = {} /\ Chk!Fresh.top = 0 /\ Chk!Fresh.size \in Nat
  BY StoreAssumption DEF Gid!Fresh, Chk!Fresh
<1>4. << >> \in Texts
  BY DEF Texts
<1>5. Shape
  <2>1. 0 \in 0..GidCap /\ 0 \in 0..PoolCap
    BY Constants
  <2>2. gids \in IdStates
    BY <1>1, <1>2, <2>1 DEF IdStates
  <2>3. pools \in [Dirs -> PoolStates]
    BY <1>1, <1>2, <2>1 DEF PoolStates
  <2>4. file \in [Dirs -> [Chunks -> Texts]] /\ want \in [Ids -> Texts \cup {None}]
    BY <1>1, <1>4
  <2> QED BY <1>1, <2>2, <2>3, <2>4 DEF Shape
<1>6. Marks
  BY <1>1, <1>3 DEF Marks
<1>7. \A i \in Ids : ~Known(i) /\ ~HasRow(i)
  BY <1>1, <1>3 DEF Known, HasRow
<1>8. \A r \in Places : ~Acquired(r) /\ SizeAt(r) = None
  BY <1>1, <1>3, PlaceParts DEF Acquired, SizeAt
<1>9. Store(Nobody, {}, {}, {}, {}, {})
  <2>1. Matches({}, {})
    BY <1>7, <1>8 DEF Matches
  <2>2. Structure(Nobody, {}, {})
    BY <1>7, <1>8 DEF Structure, LeadsTo
  <2>3. \A i \in Ids : Reads(i)
    BY <1>1, <1>7 DEF Reads, LeadsTo
  <2>4. Others(Nobody, {})
    BY DEF Others, Nobody
  <2> QED BY <2>1, <2>2, <2>3, <2>4 DEF Store
<1> QED BY <1>1, <1>5, <1>6, <1>9 DEF AtRest, Stage, BInv

(* A step that changes nothing. *)
LEMMA SameStore ==
  ASSUME NEW K, UNCHANGED vars, NEW S, NEW T, NEW O, NEW F, NEW H, Store(K, S, T, O, F, H)
  PROVE  Store(K, S, T, O, F, H)'
<1>1. UNCHANGED <<gids, pools, file, want, hurt, crashes>>
  BY DEF vars
<1>2. Matches(S, T)'
  BY <1>1 DEF Store, Matches, Known, HasRow, Acquired, SizeAt
<1>3. Structure(K, O, F)'
  BY <1>1 DEF Store, Structure, Clean, LeadsTo, HasRow, PlaceOf, SizeAt
<1>4. ASSUME ~hurt, NEW i \in Ids \ H PROVE Reads(i)'
  <2>1. Reads(i)
    BY <1>4 DEF Store
  <2> QED BY <1>1, <2>1 DEF Reads, LeadsTo, HasRow, PlaceOf, BytesAt, SizeAt
<1>5. ASSUME ~hurt PROVE Others(K, F)'
  <2>1. Others(K, F)
    BY <1>5 DEF Store
  <2> QED BY <1>1, <2>1 DEF Others, LeadsTo, HasRow, PlaceOf, BytesAt, SizeAt
<1> QED BY <1>1, <1>2, <1>3, <1>4, <1>5 DEF Store

(* A stuttering step.                                                       *)
LEMMA NothingKeeps ==
  ASSUME NEW K, BInv(K), UNCHANGED vars
  PROVE  BInv(K)'
<1>1. UNCHANGED <<gids, pools, file, job, want, hurt, crashes>>
  BY DEF vars
<1>2. Shape' /\ Marks'
  BY <1>1 DEF BInv, Shape, Marks
<1>3. \A i, r : LeadsTo(i, r) => LeadsTo(i, r)'
  BY <1>1 DEF LeadsTo, HasRow, PlaceOf
<1>4. \A i, r : LeadsTo(i, r)' => LeadsTo(i, r)
  BY <1>1 DEF LeadsTo, HasRow, PlaceOf
<1>5. \A i : HasRow(i)' <=> HasRow(i)
  BY <1>1 DEF HasRow
<1>6. \A r : SizeAt(r)' = SizeAt(r) /\ FileAt(r)' = FileAt(r) /\ BytesAt(r)' = BytesAt(r)
  BY <1>1 DEF SizeAt, FileAt, BytesAt
<1>7. ASSUME NEW c, NEW i, NEW x, NEW e, NEW h, NEW t, JobIs(c, i, x, e, h, t)
      PROVE  JobIs(c, i, x, e, h, t)'
  BY <1>1, <1>7 DEF JobIs
<1>8. Clean' <=> Clean
  BY <1>1 DEF Clean
<1>9. ASSUME NEW c, NEW i \in Ids, NEW p \in Places, Before(c, i, p)
      PROVE  Before(c, i, p)'
  BY <1>3, <1>5, <1>6, <1>8, <1>9 DEF Before
<1>10. ASSUME NEW c, NEW i \in Ids, NEW p \in Places, NEW q \in Places, NEW x,
              ToWrite(K, c, i, p, q, x)
       PROVE  ToWrite(K, c, i, p, q, x)'
  <2>1. PICK t : t = Writing(c, p, q, x)
    OBVIOUS
  <2>2. JobIs(c, i, x, "bind", FALSE, t)'
    BY <1>7, <1>10, <2>1 DEF ToWrite
  <2> QED BY <1>6, <1>9, <1>10, <2>1, <2>2, SameStore DEF ToWrite
<1>11. ASSUME NEW c, NEW i \in Ids, NEW p \in Places, NEW q \in Places, NEW x,
              ToSize(K, c, i, p, q, x)
       PROVE  ToSize(K, c, i, p, q, x)'
  <2>1. PICK t : t = Sizing(c, p, q, Len(x))
    OBVIOUS
  <2>2. JobIs(c, i, x, "bind", FALSE, t)'
    BY <1>7, <1>11, <2>1 DEF ToSize
  <2> QED BY <1>6, <1>9, <1>11, <2>1, <2>2, SameStore DEF ToSize
<1>12. ASSUME NEW c, NEW i \in Ids, NEW p \in Places, NEW q \in Places, NEW x,
              ToPublish(K, c, i, p, q, x)
       PROVE  ToPublish(K, c, i, p, q, x)'
  <2>1. PICK t : t = Publishing(c, p, q)
    OBVIOUS
  <2>2. JobIs(c, i, x, "bind", FALSE, t)'
    BY <1>7, <1>12, <2>1 DEF ToPublish
  <2> QED BY <1>6, <1>8, <1>9, <1>12, <2>1, <2>2, SameStore DEF ToPublish, Apart
<1>13. ASSUME NEW i \in Ids, NEW q \in Places, NEW x, ToRebind(K, i, q, x)
       PROVE  ToRebind(K, i, q, x)'
  BY <1>4, <1>5, <1>6, <1>7, <1>13, SameStore DEF ToRebind
<1>14. ASSUME NEW i \in Ids, NEW p \in Places, NEW x, ToDiscard(K, i, p, x)
       PROVE  ToDiscard(K, i, p, x)'
  BY <1>7, <1>14, SameStore DEF ToDiscard
<1>15. ASSUME NEW i \in Ids, NEW p \in Places, Holds(i, p)
       PROVE  Holds(i, p)'
  BY <1>3, <1>6, <1>15 DEF Holds
<1>16. ASSUME NEW c, NEW i \in Ids, NEW p \in Places, NEW x, NEW at, NEW y, NEW n,
              ToEdit(K, c, i, p, x, at, y, n)
       PROVE  ToEdit(K, c, i, p, x, at, y, n)'
  <2>1. PICK t : t = Editing(c, p, at, y, n, gids.tab[i])
    OBVIOUS
  <2>2. t = Editing(c, p, at, y, n, gids'.tab[i])
    BY <1>1, <2>1
  <2>3. JobIs(c, i, x, "size", FALSE, t)'
    BY <1>7, <1>16, <2>1 DEF ToEdit
  <2> QED BY <1>6, <1>15, <1>16, <2>2, <2>3, SameStore DEF ToEdit
<1>17. ASSUME NEW c, NEW i \in Ids, NEW p \in Places, NEW x, NEW n, NEW h,
              ToResize(K, c, i, p, x, n, h)
       PROVE  ToResize(K, c, i, p, x, n, h)'
  <2>1. PICK t : t = Resizing(c, p, n, gids.tab[i])
    OBVIOUS
  <2>2. t = Resizing(c, p, n, gids'.tab[i])
    BY <1>1, <2>1
  <2>3. JobIs(c, i, x, "size", h, t)'
    BY <1>7, <1>17, <2>1 DEF ToResize
  <2>4. PICK H : H = IF h THEN {i} ELSE {}
    OBVIOUS
  <2>5. Store(K, {}, {}, {}, {}, H)'
    BY <1>17, <2>4, SameStore DEF ToResize
  <2> QED BY <1>6, <1>15, <1>17, <2>2, <2>3, <2>4, <2>5 DEF ToResize
<1>18. ASSUME NEW i \in Ids, NEW x, NEW e, ToConfirm(K, i, x, e)
       PROVE  ToConfirm(K, i, x, e)'
  <2>1. PICK t : t = <<Bind(gids.tab[i])>>
    OBVIOUS
  <2>2. t = <<Bind(gids'.tab[i])>>
    BY <1>1, <2>1
  <2>3. JobIs("erase", i, x, e, FALSE, t)'
    BY <1>7, <1>18, <2>1 DEF ToConfirm
  <2>4. want'[i] = want[i]
    BY <1>1
  <2> QED BY <1>5, <1>18, <2>2, <2>3, <2>4, SameStore DEF ToConfirm
<1>19. ASSUME NEW i \in Ids, NEW p \in Places, ToFree(K, i, p) PROVE ToFree(K, i, p)'
  BY <1>7, <1>15, <1>19, SameStore DEF ToFree
<1>20. ASSUME NEW i \in Ids, ToUnbind(K, i) PROVE ToUnbind(K, i)'
  BY <1>4, <1>5, <1>6, <1>7, <1>20, SameStore DEF ToUnbind
<1>21. CASE AtRest(K)
  BY <1>1, <1>2, <1>21, SameStore, AtRestStage DEF AtRest, BInv
<1>22. CASE Deleting(K)
  BY <1>2, <1>19, <1>20, <1>22, DeletingStage DEF Deleting, BInv
<1>23. ASSUME NEW x \in Texts, Moving(K, x) PROVE BInv(K)'
  BY <1>2, <1>10, <1>11, <1>12, <1>23, MovingStage DEF Moving, BInv
<1>24. ASSUME NEW x \in Texts, Settling(K, x) PROVE BInv(K)'
  BY <1>2, <1>13, <1>14, <1>24, SettlingStage DEF Settling, BInv
<1>25. ASSUME NEW x \in Texts, Changing(K, x) PROVE BInv(K)'
  BY <1>2, <1>16, <1>17, <1>25, EditStage, ResizeStage DEF Changing, BInv
<1>26. ASSUME NEW x \in Texts \cup {None}, Confirming(K, x) PROVE BInv(K)'
  BY <1>2, <1>18, <1>26, ConfirmStage DEF Confirming, BInv
<1> QED BY <1>21, <1>22, <1>23, <1>24, <1>25, <1>26 DEF Stage, BInv

(* Every step keeps the invariant.                                          *)
LEMMA NextKeeps ==
  ASSUME NEW K, Roomy, BInv(K), [Next]_vars
  PROVE  BInv(K)'
<1>1. CASE Crash
  BY <1>1, CrashKeeps, StageRestartable DEF BInv
<1> QED BY <1>1, CallKeeps, StepKeeps, FailKeeps, NothingKeeps DEF Next

(* The tables, the files and the present call are always in one of the      *)
(* states above: every step of every call, every restart and every failed   *)
(* write keeps them there.                                                  *)
THEOREM StoreInvariance ==
  ASSUME Roomy
  PROVE  Spec => []BInv(Nobody)
<1>1. Init => BInv(Nobody)
  BY InitKeeps
<1>2. BInv(Nobody) /\ [Next]_vars => BInv(Nobody)'
  BY NextKeeps
<1> QED BY <1>1, <1>2, PTL DEF Spec

-----------------------------------------------------------------------------
(* What follows from it. *)

(* Between calls no call is under way, and the bitmaps match.               *)
LEMMA MemoryFollows ==
  ASSUME NEW K, BInv(K)
  PROVE  MemoryMatchesDisk
<1> SUFFICES ASSUME Idle
             PROVE  /\ gids.bm.used = {id \in Ids : HasRow(id)}
                    /\ \A d \in Dirs :
                         pools[d].bm.used = {l \in Chunks : pools[d].size[l] # None}
  BY DEF MemoryMatchesDisk
<1>1. Shape /\ AtRest(K)
  BY IdleAtRest DEF BInv
<1>2. gids.bm.used = {id \in Ids : HasRow(id)}
  BY <1>1, AtRestFacts, GidParts DEF Known
<1>3. ASSUME NEW d \in Dirs
      PROVE  pools[d].bm.used = {l \in Chunks : pools[d].size[l] # None}
  <2>1. pools[d].bm.used \subseteq Chunks
    BY <1>1, PoolParts
  <2>2. ASSUME NEW l \in Chunks
        PROVE  l \in pools[d].bm.used <=> pools[d].size[l] # None
    <3>1. PICK r \in Places : r.dir = d /\ r.loc = l
      <4>1. [dir |-> d, loc |-> l] \in Places
        BY DEF Places
      <4> QED BY <4>1
    <3>2. Acquired(r) <=> SizeAt(r) # None
      BY <1>1, AtRestFacts
    <3> QED BY <3>1, <3>2 DEF Acquired, SizeAt
  <2> QED BY <2>1, <2>2
<1> QED BY <1>2, <1>3

(* The open and the hot ids are those of the present call.                  *)
LEMMA ReadsFollow ==
  ASSUME NEW K, Roomy, Shape, Recoverable(K)
  PROVE  ReadsBack
<1> SUFFICES ASSUME ~hurt, NEW i \in Ids, ~(job.hot /\ job.id = i)
             PROVE  IF HasRow(i)
                    THEN /\ PlaceOf(i).loc \in Chunks
                         /\ SizeAt(PlaceOf(i)) # None
                         /\ BytesAt(PlaceOf(i)) = want[i]
                    ELSE want[i] = None
  BY DEF ReadsBack
<1>1. PICK S \in SUBSET Ids, O \in SUBSET Ids, H \in SUBSET Ids, T \in SUBSET Places,
           F \in SUBSET Places :
        /\ Store(K, S, T, O, F, H)
        /\ O # {} \/ H # {} => job.hot
        /\ O \subseteq {job.id} /\ H \subseteq {job.id}
  BY DEF Recoverable
<1>2. i \notin O /\ i \notin H
  BY <1>1
<1>3. Structure(K, O, F) /\ Reads(i) /\ Clean
  BY <1>1, <1>2 DEF Store, Clean
<1>4. CASE ~HasRow(i)
  BY <1>3, <1>4 DEF Reads
<1>5. CASE HasRow(i)
  <2>1. PICK p \in Places : p = PlaceOf(i)
    BY <1>5, RowFacts
  <2>2. LeadsTo(i, p)
    BY <1>5, <2>1 DEF LeadsTo
  <2>3. SizeAt(p) # None
    BY <1>2, <1>3, <2>2 DEF Structure
  <2>4. BytesAt(p) = want[i]
    BY <1>3, <2>2 DEF Reads
  <2> QED BY <1>5, <2>1, <2>3, <2>4, PlaceParts
<1> QED BY <1>4, <1>5

(* Two ids that lead to one place are the same id.                          *)
LEMMA SharingFollows ==
  ASSUME NEW K, Roomy, BInv(K)
  PROVE  NoSharing
<1> SUFFICES ASSUME ~hurt, NEW i \in Ids, NEW j \in Ids, HasRow(i), HasRow(j),
                    PlaceOf(i) = PlaceOf(j)
             PROVE  i = j
  BY DEF NoSharing
<1>1. Shape /\ Recoverable(K)
  BY StageRestartable DEF BInv, Restartable
<1>2. PICK S \in SUBSET Ids, O \in SUBSET Ids, H \in SUBSET Ids, T \in SUBSET Places,
           F \in SUBSET Places : Store(K, S, T, O, F, H)
  BY <1>1 DEF Recoverable
<1>3. Structure(K, O, F) /\ Clean
  BY <1>2 DEF Store, Clean
<1>4. PICK p \in Places : p = PlaceOf(i)
  BY <1>1, RowFacts
<1>5. LeadsTo(i, p) /\ LeadsTo(j, p)
  BY <1>4 DEF LeadsTo
<1> QED BY <1>3, <1>5 DEF Structure

(* Between calls no chunk is fresh.                                         *)
LEMMA OwnersFollow ==
  ASSUME BInv(Nobody)
  PROVE  NoOrphans
<1> SUFFICES ASSUME Idle, crashes = 0, NEW d \in Dirs, NEW l \in pools[d].bm.used
             PROVE  \E id \in Ids : HasRow(id) /\ PlaceOf(id) = [dir |-> d, loc |-> l]
  BY DEF NoOrphans
<1>1. Shape /\ AtRest(Nobody)
  BY IdleAtRest DEF BInv
<1>2. l \in Chunks
  BY <1>1, PoolParts
<1>3. PICK r \in Places : r = [dir |-> d, loc |-> l]
  BY <1>2 DEF Places
<1>4. Acquired(r)
  BY <1>2, <1>3 DEF Acquired
<1>5. SizeAt(r) # None
  BY <1>1, <1>4, AtRestFacts
<1>6. \E i \in Ids : LeadsTo(i, r)
  BY <1>1, <1>5, AtRestFacts DEF Store, Structure, Clean, Nobody
<1> QED BY <1>3, <1>6 DEF LeadsTo

(* The chunks in use lie below the mark.                                    *)
LEMMA StatFollows ==
  ASSUME NEW K, BInv(K)
  PROVE  StatCovers
<1> SUFFICES ASSUME NEW d \in Dirs, pools[d].bm.top * CSE[d] < PosSpan,
                    NEW l \in pools[d].bm.used
             PROVE  (l + 1) * CSE[d] <= DiskSize(d)
  BY DEF StatCovers
<1>1. Shape /\ Marks
  BY DEF BInv
<1>2. PICK t \in Nat : t = pools[d].bm.top
  BY <1>1, PoolParts
<1>3. PICK c \in Nat : c = CSE[d]
  BY EvalAssumption
<1>4. l \in Nat /\ l + 1 <= t
  <2>1. l \in Chunks
    BY <1>1, PoolParts
  <2> QED BY <1>1, <1>2, <2>1, Constants DEF Marks
<1>5. t * c \in Nat /\ (l + 1) * c <= t * c
  <2>1. PICK e \in Nat : t = l + 1 + e
    BY <1>4
  <2>2. t * c = (l + 1) * c + e * c /\ e * c \in Nat /\ (l + 1) * c \in Nat
    BY <1>4, <2>1
  <2> QED BY <2>2
<1>6. (t * c) % PosSpan = t * c
  <2>1. PICK k \in Nat : k = t * c
    BY <1>5
  <2>2. k < PosSpan
    BY <1>2, <1>3, <2>1
  <2>3. PosSpan \in Nat
    BY StoreAssumption
  <2>4. k % PosSpan = k
    BY <2>2, <2>3
  <2> QED BY <2>1, <2>4
<1> QED BY <1>2, <1>3, <1>5, <1>6 DEF DiskSize

(* Only four calls ever have an id at risk. *)
LEMMA RiskyCalls ==
  ASSUME NEW K, Stage(K)
  PROVE  \/ job.call \in {"insert", "replace", "erase", "del"}
         \/ job.hot = FALSE /\ ~(Due("bytes") /\ Destroys(Head(job.todo)))
<1>1. CASE AtRest(K)
  BY <1>1 DEF AtRest, NoJob, Due, Idle
<1>2. CASE Deleting(K)
  BY <1>2, JobFields DEF Deleting, ToFree, ToUnbind
<1>3. ASSUME NEW x \in Texts, Moving(K, x)
      PROVE  job.hot = FALSE /\ ~(Due("bytes") /\ Destroys(Head(job.todo)))
  <2>1. PICK c \in FreshCalls, i \in Ids, p \in Places, q \in Places :
          ToWrite(K, c, i, p, q, x) \/ ToSize(K, c, i, p, q, x) \/ ToPublish(K, c, i, p, q, x)
    BY <1>3 DEF Moving
  <2>2. job.hot = FALSE
    <3>1. PICK t : JobIs(c, i, x, "bind", FALSE, t)
      BY <2>1 DEF ToWrite, ToSize, ToPublish
    <3> QED BY <3>1, JobFields
  <2>3. CASE ToWrite(K, c, i, p, q, x)
    <3>1. Head(job.todo) = Bytes(q, 0, x) /\ SizeAt(q) = None
      <4>1. PICK t : t = Writing(c, p, q, x)
        OBVIOUS
      <4>2. JobIs(c, i, x, "bind", FALSE, t) /\ SizeAt(q) = None
        BY <2>3, <4>1 DEF ToWrite
      <4>3. Head(t) = Bytes(q, 0, x)
        BY <4>1, WritingFacts
      <4> QED BY <4>2, <4>3, JobFields
    <3> QED BY <2>2, <3>1 DEF Destroys, Bytes
  <2>4. CASE ToSize(K, c, i, p, q, x)
    <3>1. Head(Sizing(c, p, q, Len(x))).do # "bytes"
      BY SizingFacts DEF SetSize
    <3> QED BY <2>2, <2>4, <3>1, NotWriting DEF ToSize
  <2>5. CASE ToPublish(K, c, i, p, q, x)
    <3>1. Head(Publishing(c, p, q)).do # "bytes"
      BY Tuple1, Tuple2 DEF Publishing, Bind, FreeChunk
    <3> QED BY <2>2, <2>5, <3>1, NotWriting DEF ToPublish
  <2> QED BY <2>1, <2>3, <2>4, <2>5
<1>4. ASSUME NEW x \in Texts, Settling(K, x)
      PROVE  \/ job.call = "insert"
             \/ job.hot = FALSE /\ ~Due("bytes")
  <2>1. ASSUME NEW i \in Ids, NEW q \in Places, ToRebind(K, i, q, x) PROVE job.call = "insert"
    BY <2>1, JobFields DEF ToRebind
  <2>2. ASSUME NEW i \in Ids, NEW p \in Places, ToDiscard(K, i, p, x)
        PROVE  job.hot = FALSE /\ ~Due("bytes")
    <3> DEFINE t == <<FreeChunk(p)>>
    <3>1. t # << >> /\ Head(t).do # "bytes"
      BY Tuple1 DEF FreeChunk
    <3>2. JobIs("move", i, x, "none", FALSE, t)
      BY <2>2 DEF ToDiscard
    <3> HIDE DEF t
    <3> QED BY <3>1, <3>2, NotWriting, JobFields
  <2> QED BY <1>4, <2>1, <2>2 DEF Settling
<1>5. ASSUME NEW x, Changing(K, x) PROVE job.call \in {"replace", "erase"}
  <2>1. ASSUME NEW c \in EditCalls, NEW i \in Ids, NEW p \in Places, NEW at, NEW y, NEW n,
               ToEdit(K, c, i, p, x, at, y, n)
        PROVE  job.call \in {"replace", "erase"}
    BY <2>1, JobFields DEF ToEdit, EditCalls
  <2>2. ASSUME NEW c \in EditCalls, NEW i \in Ids, NEW p \in Places, NEW n, NEW h \in BOOLEAN,
               ToResize(K, c, i, p, x, n, h)
        PROVE  job.call \in {"replace", "erase"}
    <3>1. PICK t : t = Resizing(c, p, n, gids.tab[i])
      OBVIOUS
    <3>2. JobIs(c, i, x, "size", h, t)
      BY <2>2, <3>1 DEF ToResize
    <3> QED BY <3>2, JobFields DEF EditCalls
  <2> QED BY <1>5, <2>1, <2>2 DEF Changing
<1>6. ASSUME NEW x, Confirming(K, x) PROVE job.call = "erase"
  BY <1>6, JobFields DEF Confirming, ToConfirm
<1> QED BY <1>1, <1>2, <1>3, <1>4, <1>5, <1>6 DEF Stage

(* Calls and durable steps that complete damage nothing.                    *)
LEMMA OnlyInterruptsHurt ==
  ASSUME Next, ~hurt, hurt'
  PROVE  Interrupt
<1>1. ASSUME NEW e, Throw(e) PROVE FALSE
  BY <1>1 DEF Throw
<1>2. ASSUME NEW c, NEW i, NEW x, NEW e, NEW t, Begin(c, i, x, e, t) PROVE FALSE
  BY <1>2 DEF Begin
<1>3. ASSUME NEW i, NEW b, NEW x, NEW mem, PutNew(i, b, x, mem) PROVE FALSE
  BY <1>1, <1>2, <1>3 DEF PutNew
<1>4. ASSUME NEW x, NEW gmem, NEW mem, put(x, gmem, mem) PROVE FALSE
  BY <1>1, <1>3, <1>4 DEF put
<1>5. ASSUME NEW x, NEW i, NEW gmem, NEW mem, put_spec(x, i, gmem, mem) PROVE FALSE
  BY <1>1, <1>3, <1>5 DEF put_spec
<1>6. ASSUME NEW x, NEW i, NEW off, NEW mem, insert(x, i, off, mem) PROVE FALSE
  BY <1>1, <1>2, <1>6 DEF insert
<1>7. ASSUME NEW x, NEW i, update_in_place(x, i) PROVE FALSE
  BY <1>1, <1>2, <1>7 DEF update_in_place
<1>8. ASSUME NEW x, NEW i, NEW mem, update_moving(x, i, mem) PROVE FALSE
  BY <1>1, <1>2, <1>8 DEF update_moving
<1>9. ASSUME NEW i, del(i) \/ refuse(i) PROVE FALSE
  BY <1>1, <1>2, <1>9 DEF del, refuse
<1>10. ASSUME NEW i, NEW off, NEW size, erase(i, off, size) PROVE FALSE
  BY <1>1, <1>2, <1>10 DEF erase
<1>11. ~Calls
  BY <1>4, <1>5, <1>6, <1>7, <1>8, <1>9, <1>10 DEF Calls
<1>12. ~Steps
  BY DEF Steps, WriteBytes, CommitSize, ReleaseChunk, CommitId, ReleaseId, Advance
<1> QED BY <1>11, <1>12 DEF Next, WriteFails, Crash

(* A step that damages an id interrupts a call that has put it at risk.     *)
LEMMA SafetyOfCalls ==
  ASSUME NEW K, BInv(K), [Next]_vars
  PROVE  [~hurt /\ hurt' => job.call \in {"insert", "replace", "erase", "del"}]_vars
<1> SUFFICES ASSUME Next, ~hurt, hurt'
             PROVE  job.call \in {"insert", "replace", "erase", "del"}
  OBVIOUS
<1>1. Interrupt
  BY OnlyInterruptsHurt
<1>2. Shape /\ Stage(K) /\ Gathered
  BY StageRestartable DEF BInv, Restartable
<1>3. job.hot \/ (Due("bytes") /\ Destroys(Head(job.todo)))
  BY <1>1, <1>2, InterruptFacts
<1> QED BY <1>2, <1>3, RiskyCalls

(* After any number of restarts, failed writes and interrupted calls, every *)
(* id outside the window of the present call reads back, to the byte, what  *)
(* the completed calls make of it, unless one of them has damaged an id.    *)
THEOREM DataReadsBack ==
  ASSUME Roomy
  PROVE  Spec => []ReadsBack
<1>1. Spec => []BInv(Nobody)
  BY StoreInvariance
<1>2. BInv(Nobody) => ReadsBack
  BY StageRestartable, ReadsFollow DEF BInv, Restartable
<1> QED BY <1>1, <1>2, PTL

(* No two ids ever lead to the same chunk, unless an id was damaged. *)
THEOREM ChunksNotShared ==
  ASSUME Roomy
  PROVE  Spec => []NoSharing
<1>1. Spec => []BInv(Nobody)
  BY StoreInvariance
<1>2. BInv(Nobody) => NoSharing
  BY SharingFollows
<1> QED BY <1>1, <1>2, PTL

(* Without a crash inside a call nothing leaks: between calls every chunk   *)
(* in use belongs to an id, whatever threw and whichever write failed.      *)
THEOREM ChunksBelong ==
  ASSUME Roomy
  PROVE  Spec => []NoOrphans
<1>1. Spec => []BInv(Nobody)
  BY StoreInvariance
<1>2. BInv(Nobody) => NoOrphans
  BY OwnersFollow
<1> QED BY <1>1, <1>2, PTL

(* Between calls the bitmaps are those of the rows on disk. *)
THEOREM BitmapsAgree ==
  ASSUME Roomy
  PROVE  Spec => []MemoryMatchesDisk
<1>1. Spec => []BInv(Nobody)
  BY StoreInvariance
<1>2. BInv(Nobody) => MemoryMatchesDisk
  BY MemoryFollows
<1> QED BY <1>1, <1>2, PTL

(* The disk size stat() reports reaches the end of every chunk in use.      *)
THEOREM StatIsEnough ==
  ASSUME Roomy
  PROVE  Spec => []StatCovers
<1>1. Spec => []BInv(Nobody)
  BY StoreInvariance
<1>2. BInv(Nobody) => StatCovers
  BY StatFollows
<1> QED BY <1>1, <1>2, PTL

(* Neither a crash nor a failed write inside a put of a new id or an update *)
(* that moves the datum damages an id.                                      *)
THEOREM CallsAreSafe ==
  ASSUME Roomy
  PROVE  Spec => SafeCalls
<1>1. Spec => []BInv(Nobody)
  BY StoreInvariance
<1>2. BInv(Nobody) /\ [Next]_vars =>
        [~hurt /\ hurt' => job.call \in {"insert", "replace", "erase", "del"}]_vars
  BY SafetyOfCalls
<1> QED BY <1>1, <1>2, PTL DEF Spec, SafeCalls

-----------------------------------------------------------------------------
(* What is written fits. *)

(* The sizes of the chunks ascend, as the message of validate() says they   *)
(* should (validate() compares the first two).                              *)
Ordered == \A d, e \in Dirs : d <= e => CSE[d] <= CSE[e]

WriteSteps == {Bytes(p, at, x) : p \in Places, at \in Nat, x \in Texts}
SizeSteps == {SetSize(p, n) : p \in Places, n \in Nat}

(* The durable steps that keep within the chunk they are about. *)
FitSteps ==
  {s \in WriteSteps : s.at + Len(s.data) <= CSE[s.place.dir]}
    \cup {s \in SizeSteps : s.size <= CSE[s.place.dir]}
    \cup {FreeChunk(p) : p \in Places}
    \cup {Bind(a) : a \in Addresses \cup {None}} \cup {Unbind}

(* The call is a record, and each of its steps fits. *)
TodoFits ==
  /\ job = [call |-> job.call, id |-> job.id, datum |-> job.datum, effect |-> job.effect,
            hot |-> job.hot, todo |-> job.todo]
  /\ job.todo \in Seq(FitSteps)

(* The same of each chunk. *)
Fits(r) ==
  /\ SizeAt(r) # None => SizeAt(r) <= CSE[r.dir]
  /\ Len(FileAt(r)) <= CSE[r.dir]

FInv == BInv(Nobody) /\ TodoFits /\ \A r \in Places : Fits(r)

(* Each kind of step that fits. *)
LEMMA FitFacts ==
  /\ \A p \in Places, at \in Nat, x \in Texts :
       at + Len(x) <= CSE[p.dir] => Bytes(p, at, x) \in FitSteps
  /\ \A p \in Places, n \in Nat : n <= CSE[p.dir] => SetSize(p, n) \in FitSteps
  /\ \A p \in Places : FreeChunk(p) \in FitSteps
  /\ \A a \in Addresses \cup {None} : Bind(a) \in FitSteps
  /\ Unbind \in FitSteps
<1>1. ASSUME NEW p \in Places, NEW at \in Nat, NEW x \in Texts,
             at + Len(x) <= CSE[p.dir]
      PROVE  Bytes(p, at, x) \in FitSteps
  <2>1. Bytes(p, at, x) \in WriteSteps
    BY DEF WriteSteps
  <2>2. /\ Bytes(p, at, x).at = at /\ Bytes(p, at, x).data = x
        /\ Bytes(p, at, x).place = p
    BY DEF Bytes
  <2> QED BY <1>1, <2>1, <2>2 DEF FitSteps
<1>2. ASSUME NEW p \in Places, NEW n \in Nat, n <= CSE[p.dir]
      PROVE  SetSize(p, n) \in FitSteps
  <2>1. SetSize(p, n) \in SizeSteps
    BY DEF SizeSteps
  <2>2. SetSize(p, n).size = n /\ SetSize(p, n).place = p
    BY DEF SetSize
  <2> QED BY <1>2, <2>1, <2>2 DEF FitSteps
<1> QED BY <1>1, <1>2 DEF FitSteps

(* A write that fits is a write of a text at a place with room for it. *)
LEMMA WriteFits ==
  ASSUME NEW s \in FitSteps, s.do = "bytes"
  PROVE  \E p \in Places, at \in Nat, x \in Texts :
           s = Bytes(p, at, x) /\ at + Len(x) <= CSE[p.dir]
<1>1. s \in WriteSteps /\ s.at + Len(s.data) <= CSE[s.place.dir]
  BY DEF FitSteps, SizeSteps, SetSize, FreeChunk, Bind, Unbind
<1>2. PICK p \in Places, at \in Nat, x \in Texts : s = Bytes(p, at, x)
  BY <1>1 DEF WriteSteps
<1>3. s.at = at /\ s.data = x /\ s.place = p
  BY <1>2 DEF Bytes
<1> QED BY <1>1, <1>2, <1>3

(* A size that fits. *)
LEMMA SizeFits ==
  ASSUME NEW s \in FitSteps, s.do = "size"
  PROVE  \E p \in Places, n \in Nat : s = SetSize(p, n) /\ n <= CSE[p.dir]
<1>1. s \in SizeSteps /\ s.size <= CSE[s.place.dir]
  BY DEF FitSteps, WriteSteps, Bytes, FreeChunk, Bind, Unbind
<1>2. PICK p \in Places, n \in Nat : s = SetSize(p, n)
  BY <1>1 DEF SizeSteps
<1>3. s.size = n /\ s.place = p
  BY <1>2 DEF SetSize
<1> QED BY <1>1, <1>2, <1>3

(* A chunk that is freed. *)
LEMMA FreeFits ==
  ASSUME NEW s \in FitSteps, s.do = "free"
  PROVE  \E p \in Places : s = FreeChunk(p)
BY DEF FitSteps, WriteSteps, SizeSteps, Bytes, SetSize, Bind, Unbind

(* Texts joined. *)
LEMMA JoinedTexts ==
  ASSUME NEW s \in Texts, NEW t \in Texts
  PROVE  /\ s \o t \in Texts
         /\ Len(s \o t) = Len(s) + Len(t)
         /\ Len(s) \in Nat /\ Len(t) \in Nat
BY ConcatProperties DEF Texts

(* The end of a text. *)
LEMMA EndOfText ==
  ASSUME NEW f \in Texts, NEW m \in Nat
  PROVE  /\ SubSeq(f, m + 1, Len(f)) \in Texts
         /\ Len(SubSeq(f, m + 1, Len(f))) = IF m < Len(f) THEN Len(f) - m ELSE 0
<1>1. Len(f) \in Nat
  BY DEF Texts
<1>2. \A k \in (m + 1)..Len(f) : f[k] \in Signs
  BY <1>1 DEF Texts
<1>3. (IF m + 1 <= Len(f) THEN Len(f) - (m + 1) + 1 ELSE 0) =
        IF m < Len(f) THEN Len(f) - m ELSE 0
  BY <1>1
<1> QED BY <1>1, <1>2, <1>3, SubSeqProperties DEF Texts

(* A write within the chunk leaves a text within the chunk. *)
LEMMA OverFits ==
  ASSUME NEW f \in Texts, NEW at \in Nat, NEW x \in Texts, NEW n \in Nat,
         Len(f) <= n, at + Len(x) <= n
  PROVE  Over(f, at, x) \in Texts /\ Len(Over(f, at, x)) <= n
<1>1. PICK m \in Nat : m = at + Len(x)
  BY DEF Texts
<1>2. PICK g \in Texts : g = FirstBytes(f, at) /\ Len(g) = at
  BY FirstFacts
<1>3. PICK h \in Texts : /\ h = SubSeq(f, m + 1, Len(f))
                        /\ Len(h) = IF m < Len(f) THEN Len(f) - m ELSE 0
  BY EndOfText
<1>4. PICK u \in Texts : u = g \o x /\ Len(u) = m
  <2>1. g \o x \in Texts /\ Len(g \o x) = Len(g) + Len(x)
    BY JoinedTexts
  <2>2. Len(g) + Len(x) = m
    BY <1>1, <1>2
  <2> QED BY <2>1, <2>2
<1>5. Over(f, at, x) = u \o h
  BY <1>1, <1>2, <1>3, <1>4 DEF Over
<1>6. u \o h \in Texts /\ Len(u \o h) = m + Len(h)
  BY <1>4, JoinedTexts
<1>7. PICK k \in Nat : k = Len(f)
  BY DEF Texts
<1>8. m + Len(h) <= n
  <2>1. k <= n /\ m <= n
    BY <1>1, <1>7
  <2>2. CASE m < k
    <3>1. Len(h) = k - m
      BY <1>3, <1>7, <2>2
    <3>2. m + (k - m) = k
      OBVIOUS
    <3> QED BY <2>1, <3>1, <3>2
  <2>3. CASE ~(m < k)
    <3>1. Len(h) = 0
      BY <1>3, <1>7, <2>3
    <3> QED BY <2>1, <3>1
  <2> QED BY <2>2, <2>3
<1> QED BY <1>5, <1>6, <1>8

(* The pool directory() names holds the datum. *)
LEMMA DirectoryHolds ==
  ASSUME NEW n \in Nat, directory(n) # NoDir
  PROVE  directory(n) \in Dirs /\ n <= CSE[directory(n)]
<1>1. \A d \in Dirs : CSE[d] \in Nat
  BY EvalAssumption
<1>2. DirCount - 1 \in Dirs /\ Dirs \subseteq Nat
  BY EvalAssumption DEF Dirs
<1>3. CASE Passing(n) # {}
  <2>1. Passing(n) \in SUBSET Nat
    BY <1>2 DEF Passing
  <2>2. \E m \in Passing(n) : \A y \in Passing(n) : m <= y
    BY <1>3, <2>1, LeastElement
  <2>3. FirstOf(Passing(n)) \in Passing(n)
    BY <2>2 DEF FirstOf
  <2>4. PICK d : d = FirstOf(Passing(n))
    OBVIOUS
  <2>5. d \in Dirs /\ CSE[d] - (CSE[d] \div 4) >= n
    BY <2>3, <2>4 DEF Passing, capacity_test, default_capacity_test
  <2>6. n <= CSE[d]
    BY <1>1, <2>5
  <2> QED BY <1>3, <2>4, <2>5, <2>6 DEF directory
<1>4. CASE Passing(n) = {}
  BY <1>2, <1>4 DEF directory, chunk_size_estimation
<1> QED BY <1>3, <1>4

(* So does every pool write_pool() tries from there on. *)
LEMMA LandingHolds ==
  ASSUME Ordered, NEW n \in Nat, directory(n) # NoDir, NEW mem,
         NEW q \in LandingFrom(directory(n), mem)
  PROVE  q \in Places /\ n <= CSE[q.dir]
<1>1. q \in Places /\ q.dir >= directory(n)
  BY DEF LandingFrom
<1>2. PICK d \in Dirs : d = directory(n) /\ n <= CSE[d]
  BY DirectoryHolds
<1>3. d \in Nat /\ q.dir \in Nat /\ q.dir \in Dirs
  BY <1>1, PlaceParts, EvalAssumption DEF Dirs
<1>4. CSE[d] <= CSE[q.dir] /\ CSE[d] \in Nat /\ CSE[q.dir] \in Nat
  BY <1>1, <1>2, <1>3, EvalAssumption DEF Ordered
<1> QED BY <1>1, <1>2, <1>4

-----------------------------------------------------------------------------
(* Tuples of steps. *)

(* Short plans of steps that fit.                                           *)
LEMMA FitTuples ==
  ASSUME NEW a \in FitSteps, NEW b \in FitSteps, NEW c \in FitSteps, NEW d \in FitSteps
  PROVE  /\ << >> \in Seq(FitSteps) /\ <<a>> \in Seq(FitSteps)
         /\ <<a, b>> \in Seq(FitSteps) /\ <<a, b, c>> \in Seq(FitSteps)
         /\ <<a, b, c, d>> \in Seq(FitSteps)
OBVIOUS

(* A call that begins with steps that fit. *)
LEMMA BeginsFit ==
  ASSUME NEW c, NEW i, NEW x, NEW e, NEW t \in Seq(FitSteps), Begin(c, i, x, e, t)
  PROVE  TodoFits' /\ file' = file
<1>1. job' = [call |-> c, id |-> i, datum |-> x, effect |-> e, hot |-> FALSE, todo |-> t]
      /\ file' = file
  BY DEF Begin
<1> QED BY <1>1 DEF TodoFits

(* A refused call leaves the plan.                                          *)
LEMMA ThrowFits ==
  ASSUME FInv, NEW e, Throw(e)
  PROVE  TodoFits' /\ file' = file /\ pools' = pools
<1>1. UNCHANGED <<pools, file, job>>
  BY DEF Throw
<1> QED BY <1>1 DEF FInv, TodoFits

(* No call under way. *)
LEMMA NoJobFits ==
  ASSUME job' = NoJob
  PROVE  TodoFits'
BY DEF NoJob, TodoFits

(* Bitmaps come and go, sizes stay. *)
LEMMA SameSizes ==
  ASSUME Shape, NEW d, NEW b, pools' = [pools EXCEPT ![d].bm = b]
  PROVE  \A r \in Places : SizeAt(r)' = SizeAt(r)
<1>1. ASSUME NEW k \in Dirs PROVE pools'[k].size = pools[k].size
  <2>1. pools[k] \in PoolStates
    BY PoolParts
  <2>2. pools'[k] = IF k = d THEN [pools[k] EXCEPT !.bm = b] ELSE pools[k]
    BY DEF Shape
  <2>3. [pools[k] EXCEPT !.bm = b].size = pools[k].size
    BY <2>1 DEF PoolStates
  <2> QED BY <2>2, <2>3
<1> QED BY <1>1, PlaceParts DEF SizeAt

(* What leaves the sizes and the files leaves them fitting. *)
LEMMA FitKept ==
  ASSUME FInv, file' = file, \A r \in Places : SizeAt(r)' = SizeAt(r)
  PROVE  \A r \in Places : Fits(r)'
<1>1. ASSUME NEW r \in Places PROVE Fits(r)'
  <2>1. SizeAt(r)' = SizeAt(r) /\ FileAt(r)' = FileAt(r)
    BY DEF FileAt
  <2> QED BY <2>1 DEF FInv, Fits
<1> QED BY <1>1

(* Unchanged pools have unchanged sizes.                                    *)
LEMMA SizesKept ==
  ASSUME pools' = pools
  PROVE  \A r \in Places : SizeAt(r)' = SizeAt(r)
BY DEF SizeAt

-----------------------------------------------------------------------------
(* The calls plan steps that fit. *)

(* A claim changes no size.                                                 *)
LEMMA ClaimSizes ==
  ASSUME Shape, NEW q, NEW mem, Claim(q, mem)
  PROVE  \A r \in Places : SizeAt(r)' = SizeAt(r)
<1>1. PICK b : pools' = [pools EXCEPT ![q.dir].bm = b]
  BY DEF Claim
<1> QED BY <1>1, SameSizes

(* The steps of a call that moves a datum of n bytes to q. *)
LEMMA FreshFits ==
  ASSUME Roomy, NEW q \in Places, NEW x \in Texts, Len(x) <= CSE[q.dir]
  PROVE  /\ Bytes(q, 0, x) \in FitSteps
         /\ SetSize(q, Len(x)) \in FitSteps
         /\ Bind(Address(q)) \in FitSteps
<1>1. PICK n \in Nat : n = Len(x)
  BY DEF Texts
<1>2. 0 + n = n
  OBVIOUS
<1>3. Address(q) \in Addresses \cup {None}
  BY DEF Addresses
<1>4. Bytes(q, 0, x) \in FitSteps
  BY <1>1, <1>2, FitFacts
<1> QED BY <1>1, <1>3, <1>4, FitFacts

(* A put of a new id plans what fits.                                       *)
LEMMA PutNewFits ==
  ASSUME Roomy, Ordered, FInv, NEW i, NEW b, NEW x \in Data, NEW mem, PutNew(i, b, x, mem)
  PROVE  TodoFits' /\ \A r \in Places : Fits(r)'
<1>1. Shape /\ x \in Texts /\ Len(x) \in Nat
  BY TextsOfData DEF FInv, BInv, Texts
<1>2. CASE \E e : Throw(e)
  BY <1>2, ThrowFits, SizesKept, FitKept
<1>3. ASSUME directory(Len(x)) # NoDir, NEW q \in LandingFrom(directory(Len(x)), mem),
             Claim(q, mem),
             Begin("put", i, x, "bind",
               <<Bytes(q, 0, x), SetSize(q, Len(x)), Bind(Address(q))>>)
      PROVE  TodoFits' /\ \A r \in Places : Fits(r)'
  <2>1. q \in Places /\ Len(x) <= CSE[q.dir]
    BY <1>1, <1>3, LandingHolds
  <2>2. <<Bytes(q, 0, x), SetSize(q, Len(x)), Bind(Address(q))>> \in Seq(FitSteps)
    BY <1>1, <2>1, FreshFits, FitTuples
  <2>3. TodoFits' /\ file' = file
    BY <1>3, <2>2, BeginsFit
  <2> QED BY <1>1, <1>3, <2>3, ClaimSizes, FitKept
<1> QED BY <1>2, <1>3 DEF PutNew

(* So does an update into another chunk.                                    *)
LEMMA MovingFits ==
  ASSUME Roomy, Ordered, FInv, AtRest(Nobody), NEW x \in Data, NEW i \in Ids, NEW mem,
         update_moving(x, i, mem)
  PROVE  TodoFits' /\ \A r \in Places : Fits(r)'
<1>1. Shape /\ x \in Texts /\ Len(x) \in Nat /\ Known(i)
  BY TextsOfData DEF FInv, BInv, Texts, update_moving
<1>2. PICK p \in Places : PlaceOf(i) = p
  BY <1>1, KnownPlace
<1>3. CASE \E e : Throw(e)
  BY <1>3, ThrowFits, SizesKept, FitKept
<1>4. ASSUME directory(Len(x)) # NoDir, NEW q \in LandingFrom(directory(Len(x)), mem),
             Claim(q, mem),
             Begin("move", i, x, "bind",
               <<Bytes(q, 0, x), SetSize(q, Len(x)), Bind(Address(q)), FreeChunk(p)>>)
      PROVE  TodoFits' /\ \A r \in Places : Fits(r)'
  <2>1. q \in Places /\ Len(x) <= CSE[q.dir]
    BY <1>1, <1>4, LandingHolds
  <2>2. <<Bytes(q, 0, x), SetSize(q, Len(x)), Bind(Address(q)), FreeChunk(p)>> \in
          Seq(FitSteps)
    BY <1>1, <2>1, FreshFits, FitFacts, FitTuples
  <2>3. TodoFits' /\ file' = file
    BY <1>4, <2>2, BeginsFit
  <2> QED BY <1>1, <1>4, <2>3, ClaimSizes, FitKept
<1> QED BY <1>2, <1>3, <1>4 DEF update_moving

(* An insertion stays in the pool of the datum only if it fits there.       *)
LEMMA TargetsHold ==
  ASSUME Ordered, NEW p \in Places, NEW n \in Nat, NEW mem, NEW q \in Targets(p, n, mem),
         ~(n > chunk_size_estimation(p.dir) /\ directory(n) = NoDir)
  PROVE  q \in Places /\ n <= CSE[q.dir]
<1>1. p.dir \in Dirs /\ CSE[p.dir] \in Nat
  BY PlaceParts, EvalAssumption
<1>2. CASE n <= CSE[p.dir]
  BY <1>2 DEF Targets, chunk_size_estimation
<1>3. CASE ~(n <= CSE[p.dir])
  <2>1. q \in LandingFrom(directory(n), mem)
    BY <1>3 DEF Targets, chunk_size_estimation
  <2>2. directory(n) # NoDir
    BY <1>1, <1>3 DEF chunk_size_estimation
  <2> QED BY <2>1, <2>2, LandingHolds
<1> QED BY <1>2, <1>3

(* So does an insertion.                                                    *)
LEMMA InsertFits ==
  ASSUME Roomy, Ordered, FInv, AtRest(Nobody), NEW x \in Data, NEW i \in Ids,
         NEW off \in Offsets, NEW mem, insert(x, i, off, mem)
  PROVE  TodoFits' /\ \A r \in Places : Fits(r)'
<1>1. Shape /\ Known(i)
  BY DEF FInv, BInv, insert
<1>2. PICK p \in Places : /\ PlaceOf(i) = p
                          /\ Sound(i) => SizeAt(p) \in Nat /\ FileAt(p) \in Texts
  BY <1>1, KnownPlace
<1>3. PICK n : n = SizeAt(p) + Len(x)
  OBVIOUS
<1>4. PICK at : at = IF off = npos THEN SizeAt(p) ELSE off
  OBVIOUS
<1>5. PICK y : y = Splice(BytesAt(p), at, x)
  OBVIOUS
<1>6. CASE \E e : Throw(e)
  BY <1>6, ThrowFits, SizesKept, FitKept
<1>7. ASSUME Sound(i), at <= SizeAt(p), NEW q \in Targets(p, n, mem), Claim(q, mem),
             ~(n > chunk_size_estimation(p.dir) /\ directory(n) = NoDir),
             Begin("insert", i, y, "bind",
               <<Bytes(Landed(q), 0, y), SetSize(q, n), FreeChunk(p), Bind(Address(q))>>)
      PROVE  TodoFits' /\ \A r \in Places : Fits(r)'
  <2>1. SizeAt(p) \in Nat /\ FileAt(p) \in Texts
    BY <1>2, <1>7
  <2>2. BytesAt(p) \in Texts /\ Len(BytesAt(p)) = SizeAt(p)
    BY <2>1, BytesAre, FirstFacts
  <2>3. at \in 0..SizeAt(p)
    BY <1>4, <1>7, <2>1, StoreAssumption
  <2>4. y \in Texts /\ Len(y) = n
    BY <1>3, <1>5, <2>2, <2>3, TextsOfData, SpliceFacts
  <2>5. n \in Nat
    BY <2>4 DEF Texts
  <2>6. q \in Places /\ n <= CSE[q.dir]
    BY <1>7, <2>5, TargetsHold
  <2>7. <<Bytes(q, 0, y), SetSize(q, n), FreeChunk(p), Bind(Address(q))>> \in Seq(FitSteps)
    BY <2>4, <2>6, FreshFits, FitFacts, FitTuples
  <2>8. Landed(q) = q
    BY <2>6, LandingFacts
  <2>9. TodoFits' /\ file' = file
    BY <1>7, <2>7, <2>8, BeginsFit
  <2> QED BY <1>1, <1>7, <2>9, ClaimSizes, FitKept
<1> QED BY <1>2, <1>3, <1>4, <1>5, <1>6, <1>7 DEF insert

(* So does an update in place.                                              *)
LEMMA InPlaceFits ==
  ASSUME Roomy, FInv, AtRest(Nobody), NEW x \in Data, NEW i \in Ids, update_in_place(x, i)
  PROVE  TodoFits' /\ \A r \in Places : Fits(r)'
<1>1. Shape /\ x \in Texts /\ Len(x) \in Nat /\ Known(i)
  BY TextsOfData DEF FInv, BInv, Texts, update_in_place
<1>2. PICK p \in Places : PlaceOf(i) = p
  BY <1>1, KnownPlace
<1>3. CASE \E e : Throw(e)
  BY <1>3, ThrowFits, SizesKept, FitKept
<1>4. ASSUME pools' = pools, Begin("replace", i, x, "size", <<Bytes(p, 0, x), SetSize(p, Len(x))>>)
      PROVE  TodoFits' /\ \A r \in Places : Fits(r)'
  <2>1. capacity_test(p.dir, Len(x))
    BY <1>2 DEF update_in_place
  <2>2. CSE[p.dir] \in Nat
    BY PlaceParts, EvalAssumption
  <2>3. Len(x) <= CSE[p.dir]
    BY <1>1, <2>1, <2>2 DEF capacity_test, default_capacity_test
  <2>4. <<Bytes(p, 0, x), SetSize(p, Len(x))>> \in Seq(FitSteps)
    BY <1>1, <2>3, FreshFits, FitTuples
  <2>5. TodoFits' /\ file' = file
    BY <1>4, <2>4, BeginsFit
  <2> QED BY <1>4, <2>5, SizesKept, FitKept
<1> QED BY <1>2, <1>3, <1>4 DEF update_in_place

(* So does a del.                                                           *)
LEMMA DelFits ==
  ASSUME Roomy, FInv, AtRest(Nobody), NEW i \in Ids, del(i)
  PROVE  TodoFits' /\ \A r \in Places : Fits(r)'
<1>1. Shape /\ Known(i) /\ pools' = pools
  BY DEF FInv, BInv, del
<1>2. PICK p \in Places : PlaceOf(i) = p
  BY <1>1, KnownPlace
<1>3. CASE \E e : Throw(e)
  BY <1>3, ThrowFits, SizesKept, FitKept
<1>4. ASSUME Begin("del", i, None, "unbind", <<FreeChunk(p), Unbind>>)
      PROVE  TodoFits' /\ \A r \in Places : Fits(r)'
  <2>1. <<FreeChunk(p), Unbind>> \in Seq(FitSteps)
    BY FitFacts, FitTuples
  <2>2. TodoFits' /\ file' = file
    BY <1>4, <2>1, BeginsFit
  <2> QED BY <1>1, <2>2, SizesKept, FitKept
<1> QED BY <1>2, <1>3, <1>4 DEF del

(* What an erase leaves is no longer than what was there. *)
LEMMA ErasedFits ==
  ASSUME NEW g \in Texts, NEW n \in Nat, Len(g) = n, NEW off \in 0..n, NEW size \in Nat \ {0},
         NEW k, k = Erased(n, off, size), NEW tail, tail = SubSeq(g, off + k + 1, n)
  PROVE  /\ n - k \in Nat /\ n - k <= n
         /\ tail \in Texts /\ off + Len(tail) <= n
<1>1. k \in Nat /\ off + k <= n
  BY DEF Erased
<1>2. PICK m \in Nat : m = off + k /\ m <= n
  BY <1>1
<1>3. tail \in Texts /\ Len(tail) = IF m < n THEN n - m ELSE 0
  BY <1>2, EndOfText
<1>4. off + Len(tail) <= n
  <2>1. CASE m < n
    <3>1. Len(tail) = n - m
      BY <1>3, <2>1
    <3>2. off + (n - m) <= n
      BY <1>1, <1>2
    <3> QED BY <3>1, <3>2
  <2>2. CASE ~(m < n)
    <3>1. Len(tail) = 0
      BY <1>3, <2>2
    <3>2. off + 0 <= n
      OBVIOUS
    <3> QED BY <3>1, <3>2
  <2> QED BY <2>1, <2>2
<1>5. n - k \in Nat /\ n - k <= n
  BY <1>1
<1> QED BY <1>3, <1>4, <1>5

(* So does a partial del.                                                   *)
LEMMA EraseFits ==
  ASSUME Roomy, FInv, AtRest(Nobody), NEW i \in Ids, NEW off \in Offsets, NEW size \in Counts,
         erase(i, off, size)
  PROVE  TodoFits' /\ \A r \in Places : Fits(r)'
<1>1. Shape /\ Known(i) /\ gids' = gids
  BY DEF FInv, BInv, erase
<1>2. PICK p \in Places : /\ PlaceOf(i) = p
                          /\ Sound(i) => SizeAt(p) \in Nat /\ FileAt(p) \in Texts
  BY <1>1, KnownPlace
<1>3. PICK a \in Addresses \cup {None} : a = gids.tab[i]
  BY <1>1, GidParts
<1>4. Bind(a) \in FitSteps
  BY FitFacts
<1>5. CASE \E e : Throw(e)
  BY <1>5, ThrowFits, SizesKept, FitKept
<1>6. CASE pools' = pools /\ Begin("erase", i, want[i], "bind", <<Bind(a)>>)
  BY <1>4, <1>6, FitTuples, BeginsFit, SizesKept, FitKept
<1>7. ASSUME Sound(i), off \in 0..SizeAt(p), pools' = pools,
             Begin("erase", i, Remaining(p, off, size), "size",
               EraseSteps(p, off, size) \o <<Bind(a)>>)
      PROVE  TodoFits' /\ \A r \in Places : Fits(r)'
  <2>1. PICK n \in Nat : n = SizeAt(p) /\ FileAt(p) \in Texts
    BY <1>2, <1>7
  <2>2. PICK g \in Texts : g = BytesAt(p) /\ Len(g) = n
    BY <2>1, BytesAre, FirstFacts
  <2>3. PICK k : k = Erased(n, off, size)
    OBVIOUS
  <2>4. PICK tail : tail = SubSeq(g, off + k + 1, n)
    OBVIOUS
  <2>5. size \in Nat \ {0} /\ off \in 0..n
    BY <1>7, <2>1, StoreAssumption
  <2>6. n - k \in Nat /\ n - k <= n /\ tail \in Texts /\ off + Len(tail) <= n
    BY <2>2, <2>3, <2>4, <2>5, ErasedFits
  <2>7. n <= CSE[p.dir] /\ CSE[p.dir] \in Nat
    BY <2>1, PlaceParts, EvalAssumption, Constants DEF FInv, Fits
  <2>8. SetSize(p, n - k) \in FitSteps
    <3>1. PICK m \in Nat : m = n - k
      BY <2>6
    <3>2. m <= CSE[p.dir]
      BY <2>6, <2>7, <3>1
    <3> QED BY <3>1, <3>2, FitFacts
  <2>9. Bytes(p, off, tail) \in FitSteps
    <3>1. PICK m \in Nat : m = Len(tail)
      BY <2>6 DEF Texts
    <3>2. off \in Nat /\ off + m <= CSE[p.dir]
      BY <2>5, <2>6, <2>7, <3>1
    <3> QED BY <2>6, <3>1, <3>2, FitFacts
  <2>10. EraseSteps(p, off, size) =
           (IF tail = << >> THEN << >> ELSE <<Bytes(p, off, tail)>>) \o <<SetSize(p, n - k)>>
    BY <2>1, <2>2, <2>3, <2>4 DEF EraseSteps
  <2>11. EraseSteps(p, off, size) \o <<Bind(a)>> \in Seq(FitSteps)
    <3>1. CASE tail = << >>
      BY <1>4, <2>8, <2>10, <3>1, Joined, FitTuples
    <3>2. CASE tail # << >>
      BY <1>4, <2>8, <2>9, <2>10, <3>2, Joined, FitTuples
    <3> QED BY <3>1, <3>2
  <2> QED BY <1>7, <2>11, BeginsFit, SizesKept, FitKept
<1> QED BY <1>2, <1>3, <1>5, <1>6, <1>7 DEF erase

(* So does every call.                                                      *)
LEMMA CallsFit ==
  ASSUME Roomy, Ordered, FInv, Calls
  PROVE  TodoFits' /\ \A r \in Places : Fits(r)'
<1>1. Idle
  BY CallsWait
<1> DEFINE Goal == TodoFits' /\ \A r \in Places : Fits(r)'
<1>2. AtRest(Nobody)
  BY <1>1, IdleAtRest DEF FInv, BInv
<1>3. \A e : Throw(e) => Goal
  BY ThrowFits, SizesKept, FitKept
<1>4. \A i, b, mem : \A x \in Data : PutNew(i, b, x, mem) => Goal
  BY PutNewFits
<1>5. ASSUME NEW x \in Data, NEW gmem, NEW mem, put(x, gmem, mem) PROVE Goal
  BY <1>3, <1>4, <1>5 DEF put
<1>6. ASSUME NEW x \in Data, NEW i \in Ids, NEW gmem, NEW mem, put_spec(x, i, gmem, mem)
      PROVE  Goal
  BY <1>3, <1>4, <1>6 DEF put_spec
<1>7. ASSUME NEW x \in Data, NEW i \in Ids, NEW off \in Offsets, NEW mem, insert(x, i, off, mem)
      PROVE  Goal
  BY <1>2, <1>7, InsertFits
<1>8. ASSUME NEW x \in Data, NEW i \in Ids, update_in_place(x, i) PROVE Goal
  BY <1>2, <1>8, InPlaceFits
<1>9. ASSUME NEW x \in Data, NEW i \in Ids, NEW mem, update_moving(x, i, mem) PROVE Goal
  BY <1>2, <1>9, MovingFits
<1>10. ASSUME NEW i \in Ids, del(i) PROVE Goal
  BY <1>2, <1>10, DelFits
<1>11. ASSUME NEW i \in Ids, refuse(i) PROVE Goal
  BY <1>3, <1>11 DEF refuse
<1>12. ASSUME NEW i \in Ids, NEW off \in Offsets, NEW size \in Counts, erase(i, off, size)
       PROVE  Goal
  BY <1>2, <1>12, EraseFits
<1> HIDE DEF Goal
<1>13. Goal
  BY <1>5, <1>6, <1>7, <1>8, <1>9, <1>10, <1>11, <1>12 DEF Calls
<1> QED BY <1>13 DEF Goal

-----------------------------------------------------------------------------
(* The steps write what they plan. *)

(* What is left of a plan fits. *)
LEMMA AdvanceFits ==
  ASSUME FInv, ~Idle, Advance
  PROVE  TodoFits'
<1>1. /\ job = [call |-> job.call, id |-> job.id, datum |-> job.datum, effect |-> job.effect,
                hot |-> job.hot, todo |-> job.todo]
      /\ Tail(job.todo) \in Seq(FitSteps)
  BY DEF FInv, TodoFits, Idle
<1>2. PICK rest \in Seq(FitSteps) : rest = Tail(job.todo)
  BY <1>1
<1>3. CASE rest = << >>
  BY <1>2, <1>3, NoJobFits DEF Advance
<1>4. CASE rest # << >>
  <2>1. PICK e, h : job' = [job EXCEPT !.todo = rest, !.effect = e, !.hot = h]
    BY <1>2, <1>4 DEF Advance
  <2>2. job' = [call |-> job.call, id |-> job.id, datum |-> job.datum, effect |-> e,
                hot |-> h, todo |-> rest]
    BY <1>1, <2>1
  <2> QED BY <2>2 DEF TodoFits
<1> QED BY <1>3, <1>4

(* The next step is one that fits. *)
LEMMA HeadFits ==
  ASSUME FInv, NEW do, Due(do)
  PROVE  Head(job.todo) \in FitSteps /\ Head(job.todo).do = do /\ ~Idle
BY DEF FInv, TodoFits, Due, Idle

(* One chunk changes and fits, the others stay. *)
LEMMA OneFits ==
  ASSUME FInv, NEW q \in Places,
         SizeAt(q)' # None => SizeAt(q)' <= CSE[q.dir],
         Len(FileAt(q)') <= CSE[q.dir],
         \A r \in Places : r # q => SizeAt(r)' = SizeAt(r) /\ FileAt(r)' = FileAt(r)
  PROVE  \A r \in Places : Fits(r)'
<1>1. Fits(q)'
  BY DEF Fits
<1>2. ASSUME NEW r \in Places, r # q PROVE Fits(r)'
  <2>1. SizeAt(r)' = SizeAt(r) /\ FileAt(r)' = FileAt(r)
    BY <1>2
  <2> QED BY <2>1 DEF FInv, Fits
<1> QED BY <1>1, <1>2

(* The bytes written fit.                                                   *)
LEMMA WriteBytesFits ==
  ASSUME Roomy, FInv, WriteBytes
  PROVE  TodoFits' /\ \A r \in Places : Fits(r)'
<1>1. Shape /\ Due("bytes") /\ Advance /\ pools' = pools
  BY DEF FInv, BInv, WriteBytes
<1>2. PICK q \in Places, at \in Nat, x \in Texts :
        Head(job.todo) = Bytes(q, at, x) /\ at + Len(x) <= CSE[q.dir]
  BY <1>1, HeadFits, WriteFits
<1>3. file' = PutBytes(q, at, x)
  BY <1>2 DEF WriteBytes, Bytes
<1>4. /\ FileAt(q)' = Over(FileAt(q), at, x)
      /\ \A r \in Places : r # q => FileAt(r)' = FileAt(r)
  BY <1>1, <1>3, WriteEffect
<1>5. FileAt(q) \in Texts /\ CSE[q.dir] \in Nat
  BY <1>1, PlaceParts, PoolParts, EvalAssumption DEF FileAt
<1>6. Len(FileAt(q)) <= CSE[q.dir] /\ (SizeAt(q) # None => SizeAt(q) <= CSE[q.dir])
  BY DEF FInv, Fits
<1>7. Len(Over(FileAt(q), at, x)) <= CSE[q.dir]
  BY <1>2, <1>5, <1>6, OverFits
<1>8. \A r \in Places : SizeAt(r)' = SizeAt(r)
  BY <1>1, SizesKept
<1>9. \A r \in Places : Fits(r)'
  BY <1>4, <1>6, <1>7, <1>8, OneFits
<1> QED BY <1>1, <1>9, HeadFits, AdvanceFits

(* So does the size committed.                                              *)
LEMMA CommitSizeFits ==
  ASSUME Roomy, FInv, CommitSize
  PROVE  TodoFits' /\ \A r \in Places : Fits(r)'
<1>1. Shape /\ Marks /\ Due("size") /\ Advance /\ gids' = gids
  BY DEF FInv, BInv, CommitSize
<1>2. PICK q \in Places, n \in Nat : Head(job.todo) = SetSize(q, n) /\ n <= CSE[q.dir]
  BY <1>1, HeadFits, SizeFits
<1>3. file' = Covered(file, q, n) /\ pools' = Sized(q, n)
  <2>1. Head(job.todo).place = q /\ Head(job.todo).size = n
    BY <1>2 DEF SetSize
  <2> QED BY <2>1 DEF CommitSize, Sized
<1>4. /\ FileAt(q)' = FirstBytes(FileAt(q), n)
      /\ \A r \in Places : r # q => FileAt(r)' = FileAt(r)
  BY <1>1, <1>3, CoverEffect
<1>5. \A r \in Places : SizeAt(r)' = IF r = q THEN n ELSE SizeAt(r)
  BY <1>1, <1>3, SizeEffect
<1>6. FileAt(q) \in Texts
  BY <1>1, PlaceParts, PoolParts DEF FileAt
<1>7. Len(FileAt(q)') <= CSE[q.dir]
  BY <1>2, <1>4, <1>6, FirstFacts
<1>8. \A r \in Places : Fits(r)'
  BY <1>2, <1>4, <1>5, <1>7, OneFits
<1> QED BY <1>1, <1>8, HeadFits, AdvanceFits

(* A chunk that is freed keeps nothing.                                     *)
LEMMA ReleaseChunkFits ==
  ASSUME Roomy, FInv, ReleaseChunk
  PROVE  TodoFits' /\ \A r \in Places : Fits(r)'
<1>1. Shape /\ Marks /\ Due("free") /\ gids' = gids
  BY DEF FInv, BInv, ReleaseChunk
<1>2. PICK q \in Places : Head(job.todo) = FreeChunk(q)
  BY <1>1, HeadFits, FreeFits
<1>3. CASE job' = NoJob /\ pools' = pools /\ file' = file
  BY <1>3, NoJobFits, SizesKept, FitKept
<1>4. CASE Advance /\ file' = Covered(file, q, 0) /\ pools' = Freed(q)
  <2>1. /\ FileAt(q)' = FirstBytes(FileAt(q), 0)
        /\ \A r \in Places : r # q => FileAt(r)' = FileAt(r)
    BY <1>1, <1>4, CoverEffect
  <2>2. \A r \in Places : SizeAt(r)' = IF r = q THEN None ELSE SizeAt(r)
    BY <1>1, <1>4, FreeEffect
  <2>3. FileAt(q) \in Texts /\ CSE[q.dir] \in Nat
    BY <1>1, PlaceParts, PoolParts, EvalAssumption DEF FileAt
  <2>4. Len(FileAt(q)') <= CSE[q.dir]
    BY <2>1, <2>3, FirstFacts
  <2>5. \A r \in Places : Fits(r)'
    BY <2>1, <2>2, <2>4, OneFits
  <2> QED BY <1>1, <1>4, <2>5, HeadFits, AdvanceFits
<1>5. Head(job.todo).place = q
  BY <1>2 DEF FreeChunk
<1> QED BY <1>3, <1>4, <1>5 DEF ReleaseChunk, Freed

(* Every durable step keeps within its chunk.                               *)
LEMMA StepsFit ==
  ASSUME Roomy, FInv, Steps
  PROVE  TodoFits' /\ \A r \in Places : Fits(r)'
<1>1. ASSUME NEW do, Due(do), Advance, pools' = pools, file' = file
      PROVE  TodoFits' /\ \A r \in Places : Fits(r)'
  BY <1>1, HeadFits, AdvanceFits, SizesKept, FitKept
<1>2. CASE CommitId
  BY <1>1, <1>2 DEF CommitId
<1>3. CASE ReleaseId
  BY <1>1, <1>3 DEF ReleaseId
<1> QED BY <1>2, <1>3, WriteBytesFits, CommitSizeFits, ReleaseChunkFits DEF Steps

-----------------------------------------------------------------------------
(* A write cut short fits as well. *)

(* Part of a write fits where the whole does.                               *)
LEMMA TornFits ==
  ASSUME FInv, NEW f \in Torn, NEW r \in Places
  PROVE  Len(f[r.dir][r.loc]) <= CSE[r.dir]
<1>1. Shape /\ Len(FileAt(r)) <= CSE[r.dir]
  BY DEF FInv, BInv, Fits
<1>2. CASE ~Due("bytes")
  BY <1>1, <1>2 DEF Torn, FileAt
<1>3. CASE Due("bytes")
  <2>1. PICK q \in Places, at \in Nat, x \in Texts :
          Head(job.todo) = Bytes(q, at, x) /\ at + Len(x) <= CSE[q.dir]
    BY <1>3, HeadFits, WriteFits
  <2>2. PICK k \in 0..Len(x) : f = PutBytes(q, at, SubSeq(x, 1, k))
    BY <1>3, <2>1 DEF Torn, Bytes
  <2>3. PICK y \in Texts : y = SubSeq(x, 1, k) /\ Len(y) = k
    <3>1. /\ 1 \in Int /\ k \in Int /\ (IF 1 <= k THEN k - 1 + 1 ELSE 0) = k
          /\ \A j \in 1..k : j \in 1..Len(x)
      BY DEF Texts
    <3>2. \A j \in 1..k : x[j] \in Signs
      BY <3>1 DEF Texts
    <3>3. Len(SubSeq(x, 1, k)) = k
      BY <3>1, <3>2, SubSeqProperties
    <3>4. SubSeq(x, 1, k) \in Seq(Signs)
      BY <3>1, <3>2, SubSeqProperties
    <3> QED BY <3>3, <3>4 DEF Texts
  <2>4. /\ f[q.dir][q.loc] = Over(FileAt(q), at, y)
        /\ r # q => f[r.dir][r.loc] = FileAt(r)
    <3>1. f = PutBytes(q, at, y)
      BY <2>2, <2>3
    <3>2. Shape /\ q \in Places /\ r \in Places /\ at \in Nat /\ y \in Texts
      BY <1>1, <2>1, <2>3
    <3> QED BY <3>1, <3>2, PutFacts
  <2>5. FileAt(q) \in Texts /\ CSE[q.dir] \in Nat /\ Len(FileAt(q)) <= CSE[q.dir]
    BY <1>1, PlaceParts, PoolParts, EvalAssumption DEF FileAt, FInv, Fits
  <2>6. at + Len(y) <= CSE[q.dir]
    <3>1. PICK m \in Nat : m = Len(x)
      BY DEF Texts
    <3> QED BY <2>1, <2>2, <2>3, <2>5, <3>1
  <2>7. Len(Over(FileAt(q), at, y)) <= CSE[q.dir]
    BY <2>5, <2>6, OverFits
  <2> QED BY <1>1, <2>4, <2>7
<1> QED BY <1>2, <1>3

(* An interruption leaves every chunk within its bounds.                    *)
LEMMA InterruptFits ==
  ASSUME FInv, Interrupt, job' = NoJob, \A r \in Places : SizeAt(r)' = SizeAt(r)
  PROVE  TodoFits' /\ \A r \in Places : Fits(r)'
<1>1. PICK f \in Torn :
        file' = [d \in Dirs |-> [l \in Chunks |->
                  IF pools[d].size[l] = None THEN << >> ELSE f[d][l]]]
  BY DEF Interrupt
<1>2. ASSUME NEW r \in Places PROVE Fits(r)'
  <2>1. r.dir \in Dirs /\ r.loc \in Chunks /\ CSE[r.dir] \in Nat
    BY PlaceParts, EvalAssumption
  <2>2. FileAt(r)' = << >> \/ FileAt(r)' = f[r.dir][r.loc]
    BY <1>1, <2>1 DEF FileAt
  <2>3. Len(FileAt(r)') <= CSE[r.dir]
    BY <2>1, <2>2, TornFits
  <2> QED BY <2>3 DEF FInv, Fits
<1> QED BY <1>2, NoJobFits

(* A crash, and the restart after it.                                       *)
LEMMA CrashFits ==
  ASSUME Roomy, FInv, Crash
  PROVE  TodoFits' /\ \A r \in Places : Fits(r)'
<1>1. Shape /\ Marks
  BY DEF FInv, BInv
<1>2. \A r \in Places : SizeAt(r)' = SizeAt(r)
  BY <1>1, ReopenedPools DEF Crash
<1> QED BY <1>2, InterruptFits DEF Crash

(* A write that fails.                                                      *)
LEMMA FailFits ==
  ASSUME Roomy, FInv, WriteFails
  PROVE  TodoFits' /\ \A r \in Places : Fits(r)'
<1>1. Shape
  BY DEF FInv, BInv
<1>2. PICK p : p = job.todo[2].place
  OBVIOUS
<1>3. pools' = IF SizeAt(p) # None THEN pools
               ELSE [pools EXCEPT ![p.dir].bm = Chk!LetGo(@, p.loc)]
  BY <1>2 DEF WriteFails
<1>4. CASE pools' = pools
  BY <1>4, SizesKept, InterruptFits DEF WriteFails
<1>5. CASE pools' # pools
  <2>1. PICK b : pools' = [pools EXCEPT ![p.dir].bm = b]
    BY <1>3, <1>5
  <2> QED BY <1>1, <2>1, SameSizes, InterruptFits DEF WriteFails
<1> QED BY <1>4, <1>5

(* Nothing is stored at first.                                              *)
LEMMA InitFits ==
  ASSUME Roomy, Init
  PROVE  FInv
<1>1. /\ pools = [d \in Dirs |->
                    [bm |-> Chk!Fresh, size |-> [l \in Chunks |-> None], hi |-> 0]]
      /\ file = [d \in Dirs |-> [l \in Chunks |-> << >>]]
      /\ job = NoJob
  BY DEF Init
<1>2. ASSUME NEW r \in Places PROVE Fits(r)
  <2>1. r.dir \in Dirs /\ r.loc \in Chunks /\ CSE[r.dir] \in Nat
    BY PlaceParts, EvalAssumption
  <2>2. SizeAt(r) = None /\ FileAt(r) = << >>
    BY <1>1, <2>1 DEF SizeAt, FileAt
  <2> QED BY <2>1, <2>2 DEF Fits
<1>3. TodoFits
  BY <1>1 DEF TodoFits, NoJob
<1> QED BY <1>2, <1>3, InitKeeps DEF FInv

(* Every step keeps what is stored within the chunks.                       *)
LEMMA NextFits ==
  ASSUME Roomy, Ordered, FInv, [Next]_vars
  PROVE  FInv'
<1>1. BInv(Nobody)'
  BY NextKeeps DEF FInv
<1>2. TodoFits' /\ \A r \in Places : Fits(r)'
  <2>1. CASE UNCHANGED vars
    <3>1. job' = job /\ pools' = pools /\ file' = file
      BY <2>1 DEF vars
    <3>2. TodoFits'
      BY <3>1 DEF FInv, TodoFits
    <3> QED BY <3>1, <3>2, SizesKept, FitKept
  <2> QED BY <2>1, CallsFit, StepsFit, FailFits, CrashFits DEF Next
<1> QED BY <1>1, <1>2 DEF FInv

(* Places are the pairs of a pool and a chunk number.                       *)
LEMMA FitFollows ==
  ASSUME FInv
  PROVE  DataFit
<1>1. ASSUME NEW d \in Dirs, NEW l \in Chunks
      PROVE  /\ pools[d].size[l] # None => pools[d].size[l] <= CSE[d]
             /\ Len(file[d][l]) <= CSE[d]
  <2>1. PICK r \in Places : r.dir = d /\ r.loc = l
    <3>1. [dir |-> d, loc |-> l] \in Places
      BY DEF Places
    <3> QED BY <3>1
  <2> QED BY <2>1 DEF FInv, Fits, SizeAt, FileAt
<1> QED BY <1>1 DEF DataFit

(* No datum runs into its neighbour in the pool file, whatever is put,      *)
(* inserted, erased, moved, interrupted or half written, if the chunk sizes *)
(* ascend.                                                                  *)
THEOREM DataFitsAlways ==
  ASSUME Roomy, Ordered
  PROVE  Spec => []DataFit
<1>1. Init => FInv
  BY InitFits
<1>2. FInv /\ [Next]_vars => FInv'
  BY NextFits
<1>3. FInv => DataFit
  BY FitFollows
<1> QED BY <1>1, <1>2, <1>3, PTL DEF Spec

-----------------------------------------------------------------------------
(* The types. *)

(* A call ends in one of the outcomes the code names, and no more crashes    *)
(* interrupt calls than the bound allows.                                   *)
Ends == out \in Outcomes /\ crashes \in 0..MaxCrashes

(* Every step ends in one of the outcomes, within the bound.                *)
LEMMA EndsKept ==
  ASSUME Ends, [Next]_vars
  PROVE  Ends'
<1>1. MaxCrashes \in Nat
  BY StoreAssumption
<1>2. ASSUME crashes' = crashes, out' \in Outcomes PROVE Ends'
  BY <1>2 DEF Ends
<1>3. ASSUME NEW e \in Outcomes, Throw(e) PROVE Ends'
  BY <1>2, <1>3 DEF Throw
<1>4. ASSUME NEW c, NEW i, NEW x, NEW e, NEW todo, Begin(c, i, x, e, todo) PROVE Ends'
  BY <1>2, <1>4 DEF Begin, Outcomes
<1>5. /\ "addr_overflow" \in Outcomes /\ "length_error" \in Outcomes
      /\ "invalid_addr" \in Outcomes /\ "chunk_overflow" \in Outcomes
      /\ "runtime_error" \in Outcomes /\ "data_currupted" \in Outcomes
  BY DEF Outcomes
<1>6. ASSUME NEW id, NEW b, NEW x, NEW mem, PutNew(id, b, x, mem) PROVE Ends'
  BY <1>3, <1>4, <1>5, <1>6 DEF PutNew
<1>7. CASE Calls
  <2>1. ASSUME NEW x \in Data, NEW gmem, NEW mem, put(x, gmem, mem) PROVE Ends'
    BY <2>1, <1>3, <1>5, <1>6 DEF put
  <2>2. ASSUME NEW x \in Data, NEW id \in Ids, NEW gmem, NEW mem,
               put_spec(x, id, gmem, mem)
        PROVE  Ends'
    BY <2>2, <1>3, <1>5, <1>6 DEF put_spec
  <2>3. ASSUME NEW x \in Data, NEW id \in Ids, NEW off \in Offsets, NEW mem,
               insert(x, id, off, mem)
        PROVE  Ends'
    BY <2>3, <1>3, <1>4, <1>5 DEF insert
  <2>4. ASSUME NEW x \in Data, NEW id \in Ids, update_in_place(x, id) PROVE Ends'
    BY <2>4, <1>3, <1>4, <1>5 DEF update_in_place
  <2>5. ASSUME NEW x \in Data, NEW id \in Ids, NEW mem, update_moving(x, id, mem)
        PROVE  Ends'
    BY <2>5, <1>3, <1>4, <1>5 DEF update_moving
  <2>6. ASSUME NEW id \in Ids, del(id) \/ refuse(id) PROVE Ends'
    BY <2>6, <1>3, <1>4, <1>5 DEF del, refuse
  <2>7. ASSUME NEW id \in Ids, NEW off \in Offsets, NEW size \in Counts,
               erase(id, off, size)
        PROVE  Ends'
    BY <2>7, <1>3, <1>4, <1>5 DEF erase
  <2> QED BY <1>7, <2>1, <2>2, <2>3, <2>4, <2>5, <2>6, <2>7 DEF Calls
<1>8. CASE Steps
  <2>1. ASSUME Advance PROVE Ends'
    BY <2>1 DEF Advance, Ends
  <2>2. CASE ReleaseChunk
    <3>1. CASE Advance
      BY <2>1, <3>1
    <3>2. CASE out' = "invalid_addr" /\ crashes' = crashes
      BY <1>2, <1>5, <3>2
    <3> QED BY <2>2, <3>1, <3>2 DEF ReleaseChunk
  <2>3. CASE WriteBytes
    BY <2>1, <2>3 DEF WriteBytes
  <2>4. CASE CommitSize
    BY <2>1, <2>4 DEF CommitSize
  <2>5. CASE CommitId
    BY <2>1, <2>5 DEF CommitId
  <2>6. CASE ReleaseId
    BY <2>1, <2>6 DEF ReleaseId
  <2> QED BY <1>8, <2>2, <2>3, <2>4, <2>5, <2>6 DEF Steps
<1>9. CASE WriteFails
  BY <1>9, <1>2, <1>5 DEF WriteFails
<1>10. CASE Crash
  BY <1>10, <1>1 DEF Crash, Ends, Outcomes
<1>11. CASE UNCHANGED vars
  BY <1>11 DEF vars, Ends
<1> QED BY <1>7, <1>8, <1>9, <1>10, <1>11 DEF Next

(* Every row of the id table is a word or none, every size a number or none, *)
(* every mark within its table, and every call ends in a named outcome.     *)
THEOREM StoreTypes ==
  ASSUME Roomy
  PROVE  Spec => []TypeOK
<1>1. Init => Ends
  BY StoreAssumption DEF Init, Ends, Outcomes
<1>2. Ends /\ [Next]_vars => Ends'
  BY EndsKept
<1>3. Spec => []BInv(Nobody)
  BY StoreInvariance
<1>4. BInv(Nobody) /\ Ends => TypeOK
  <2> SUFFICES ASSUME BInv(Nobody), Ends PROVE TypeOK
    OBVIOUS
  <2>1. Addresses \subseteq 0..(Word - 1)
    BY AddressFacts DEF Addresses
  <2>2. Shape
    BY DEF BInv
  <2>3. gids.tab \in [Ids -> 0..(Word - 1) \cup {None}]
    <3>1. gids.tab \in [Ids -> Addresses \cup {None}]
      BY <2>2 DEF Shape, IdStates
    <3> QED BY <3>1, <2>1
  <2>4. gids.bm \in Gid!Bitmaps /\ gids.hi \in 0..GidCap
    BY <2>2 DEF Shape, IdStates
  <2>5. ASSUME NEW d \in Dirs
        PROVE  /\ pools[d].bm \in Chk!Bitmaps
               /\ pools[d].size \in [Chunks -> Nat \cup {None}]
               /\ pools[d].hi \in 0..PoolCap
    <3>1. pools[d] \in PoolStates
      BY <2>2 DEF Shape
    <3> QED BY <3>1 DEF PoolStates
  <2> QED BY <2>2, <2>3, <2>4, <2>5 DEF TypeOK, Ends, Shape
<1> QED BY <1>1, <1>2, <1>3, <1>4, PTL DEF Spec

-----------------------------------------------------------------------------
(***************************************************************************)
(* The inductive invariant of NtApi, as long as no client has taken a      *)
(* wrong address and no interruption has damaged an id: the stages of      *)
(* BehaviorDB, with what the clients of the nt_ calls keep beside the ids, *)
(* and the stages of the nt_ calls themselves.                             *)
(***************************************************************************)

Quiet == ~strayed /\ ~hurt

NtShape ==
  /\ own \in [Places -> Texts \cup {None, Unsure}]
  /\ due \in [Places -> Texts \cup {None, Unsure}]

(* The present call has the steps t left and promises x at p. *)
NtJob(c, t, p, x) ==
  /\ JobIs(c, None, None, "none", FALSE, t)
  /\ out = "ok"
  /\ due = [own EXCEPT ![p] = x]

-----------------------------------------------------------------------------
(* The places an nt_ call can be at. *)

NtToWrite(K, p, x) ==
  /\ NtJob("nt_put", <<Bytes(p, 0, x), SetSize(p, Len(x))>>, p, x)
  /\ own[p] = None /\ SizeAt(p) = None
  /\ Store(K, {}, {p}, {}, {p}, {})

NtToSize(K, p, x) ==
  /\ NtJob("nt_put", <<SetSize(p, Len(x))>>, p, x)
  /\ own[p] = None /\ SizeAt(p) = None
  /\ FirstBytes(FileAt(p), Len(x)) = x
  /\ Store(K, {}, {p}, {}, {p}, {})

NtEditCalls == {"nt_replace", "nt_erase"}

NtToEdit(K, c, p, x, at, y) ==
  /\ NtJob(c, <<Bytes(p, at, y), SetSize(p, Len(x))>>, p, x)
  /\ at \in Nat /\ y \in Texts
  /\ Held(p)
  /\ FirstBytes(Over(FileAt(p), at, y), Len(x)) = x
  /\ Store(K, {}, {}, {}, {}, {})

NtToResize(K, c, p, x) ==
  /\ NtJob(c, <<SetSize(p, Len(x))>>, p, x)
  /\ Held(p)
  /\ FirstBytes(FileAt(p), Len(x)) = x
  /\ Store(K, {}, {}, {}, {}, {})

NtToFree(K, p) ==
  /\ NtJob("nt_del", <<FreeChunk(p)>>, p, None)
  /\ Held(p)
  /\ Store(K, {}, {}, {}, {}, {})

NtPutting(K, p, x) == NtToWrite(K, p, x) \/ NtToSize(K, p, x)

NtChanging(K, p, x) ==
  \E c \in NtEditCalls :
    \/ /\ Due("bytes")
       /\ \E at \in {Head(job.todo).at}, y \in {Head(job.todo).data} :
            NtToEdit(K, c, p, x, at, y)
    \/ NtToResize(K, c, p, x)

NtStage(K) ==
  \E p \in Places :
    \/ NtToFree(K, p)
    \/ \E x \in {due[p]} : x \in Texts /\ (NtPutting(K, p, x) \/ NtChanging(K, p, x))

(* What is kept beside the ids is what its clients know of it.              *)
AnyStage(K) == (Stage(K) /\ own = due) \/ NtStage(K)

NtFine == Shape /\ Marks /\ NtShape /\ \E K \in {Kept} : AnyStage(K)

NInv == Quiet => NtFine

-----------------------------------------------------------------------------
(* What the clients keep. *)

(* A datum is told from no datum, and from one that may have been damaged.  *)
LEMMA Distinct ==
  Unsure # None /\ Unsure \notin Texts /\ None \notin Texts
BY UnsureAssumption DEF Texts, Signs

(* Between nt_ calls it is what they own.                                   *)
LEMMA KeptSame ==
  ASSUME NtShape, own = due
  PROVE  Kept = own
<1>1. Kept = [r \in Places |-> own[r]]
  BY DEF Kept
<1> QED BY <1>1 DEF NtShape

(* The same of the next state. *)
LEMMA KeptSameNext ==
  ASSUME NtShape', own' = due'
  PROVE  Kept' = own'
<1>1. Kept' = [r \in Places |-> own'[r]]
  BY DEF Kept
<1> QED BY <1>1 DEF NtShape

(* During one they cannot tell the datum it changes. *)
LEMMA KeptMeanwhile ==
  ASSUME NtShape, NEW p \in Places, NEW x, due = [own EXCEPT ![p] = x], NEW K, K = Kept
  PROVE  /\ \A r \in Places : r # p => K[r] = own[r] /\ due[r] = own[r]
         /\ due[p] = x
         /\ K[p] = IF own[p] \in {x, None} THEN own[p] ELSE Unsure
         /\ \A r \in Places : K[r] = None <=> own[r] = None
<1>1. \A r \in Places : K[r] = IF own[r] \in {due[r], None} THEN own[r] ELSE Unsure
  BY DEF Kept
<1>2. due[p] = x /\ \A r \in Places : r # p => due[r] = own[r]
  BY DEF NtShape
<1> QED BY <1>1, <1>2, Distinct

(* When one begins they can tell no more than before. *)
LEMMA KeptBegins ==
  ASSUME NtShape, own = due, NEW p \in Places, NEW x \in Texts \cup {None},
         own' = own, due' = [own EXCEPT ![p] = x], NEW K, K = own, NEW L, L = Kept'
  PROVE  /\ NtShape'
         /\ \A r \in Places : L[r] = K[r] \/ (L[r] = Unsure /\ K[r] # None)
<1>1. \A r \in Places : L[r] = IF own[r] \in {due'[r], None} THEN own[r] ELSE Unsure
  BY DEF Kept
<1>2. \A r \in Places : r # p => due'[r] = own[r]
  BY DEF NtShape
<1>3. NtShape'
  BY DEF NtShape
<1> QED BY <1>1, <1>2, <1>3

(* What is kept is forgotten in part: the store is as well in order. *)
LEMMA StoreDoubted ==
  ASSUME NEW K, NEW L, NEW S, NEW T, NEW O, NEW F, NEW H, Store(K, S, T, O, F, H)',
         \A r \in Places : L[r] = K[r] \/ (L[r] = Unsure /\ K[r] # None)
  PROVE  Store(L, S, T, O, F, H)'
<1>1. \A r \in Places : L[r] = None <=> K[r] = None
  BY Distinct
<1>2. Structure(L, O, F)'
  BY <1>1 DEF Store, Structure
<1>3. ASSUME ~hurt' PROVE Others(L, F)'
  <2>1. Others(K, F)'
    BY <1>3 DEF Store
  <2>2. \A r \in Places : L[r] \in Texts => L[r] = K[r]
    BY Distinct
  <2> QED BY <1>1, <2>1, <2>2 DEF Others
<1> QED BY <1>2, <1>3 DEF Store

(* A fresh chunk that has its size goes to the client of its address. *)
LEMMA StoreGiven ==
  ASSUME NEW K, NEW L, NEW q \in Places, Store(K, {}, {}, {}, {q}, {})', ~hurt',
         SizeAt(q)' # None, BytesAt(q)' = L[q], L[q] # None,
         \A r \in Places : r # q => L[r] = K[r]
  PROVE  Store(L, {}, {}, {}, {}, {})'
<1>1. Clean'
  BY DEF Clean
<1>2. Structure(L, {}, {})'
  BY <1>1 DEF Store, Structure
<1>3. Others(K, {q})' /\ \A i \in Ids : ~LeadsTo(i, q)'
  BY <1>1 DEF Store, Structure
<1>4. Others(L, {})'
  BY <1>3 DEF Others
<1> QED BY <1>2, <1>4 DEF Store

(* The datum at p of a client becomes what the client keeps from then on. *)
LEMMA StoreRenewed ==
  ASSUME NEW K, NEW L, NEW p \in Places, ~hurt, Store(K, {}, {}, {}, {}, {}), K[p] # None,
         \A r \in Places : r # p => L[r] = K[r],
         UNCHANGED <<gids, want, hurt, crashes>>,
         \A r \in Places : r # p => SizeAt(r)' = SizeAt(r) /\ FileAt(r)' = FileAt(r),
         \A r \in Places : Acquired(r)' <=> Acquired(r) /\ (r = p => SizeAt(p)' # None),
         L[p] # None <=> SizeAt(p)' # None,
         L[p] \in Texts => BytesAt(p)' = L[p]
  PROVE  Store(L, {}, {}, {}, {}, {})'
<1>1. \A k \in Ids : /\ Known(k)' <=> Known(k)
                     /\ HasRow(k)' <=> HasRow(k)
                     /\ \A r \in Places : LeadsTo(k, r)' <=> LeadsTo(k, r)
  BY SameIds
<1>2. \A r \in Places : r # p => BytesAt(r)' = BytesAt(r)
  BY SameBytes
<1>3. Others(K, {}) /\ Clean /\ Clean'
  BY DEF Store, Clean
<1>4. SizeAt(p) # None /\ \A k \in Ids : ~LeadsTo(k, p)
  BY <1>3 DEF Others
<1>5. Matches({}, {})'
  BY <1>1, <1>4 DEF Matches, Store
<1>6. Structure(L, {}, {})'
  BY <1>1, <1>3, <1>4 DEF Structure, Store
<1>7. ASSUME NEW k \in Ids PROVE Reads(k)'
  <2>1. Reads(k) /\ ~LeadsTo(k, p)
    BY <1>4 DEF Store
  <2> QED BY <1>1, <1>2, <2>1 DEF Reads
<1>8. Others(L, {})'
  BY <1>1, <1>2, <1>3, <1>4 DEF Others
<1> QED BY <1>5, <1>6, <1>7, <1>8 DEF Store

-----------------------------------------------------------------------------
(* The durable steps of an nt_ call. *)

(* The job of an nt_ call names no id.                                      *)
LEMMA NtJobIs ==
  ASSUME NEW c, NEW t, NEW p, NEW x, NtJob(c, t, p, x)
  PROVE  JobIs(c, None, None, "none", FALSE, t)
BY DEF NtJob

(* No id is concerned and none is at risk, whatever the step destroys. *)
LEMMA NtAdvance ==
  ASSUME NEW c, NEW t, NEW p, NEW x, NtJob(c, t, p, x), Advance, Head(t).do # "none"
  PROVE  /\ UNCHANGED <<want, hurt, crashes>>
         /\ out' = "ok"
         /\ Tail(t) = << >> => job' = NoJob
         /\ Tail(t) # << >> => JobIs(c, None, None, "none", FALSE, Tail(t))'
<1>1. JobIs(c, None, None, "none", FALSE, t)
  BY NtJobIs
<1>2. UNCHANGED <<out, hurt, crashes>> /\ want' = want
  BY <1>1, AdvanceSame, AdvancePasses
<1>3. ASSUME Tail(t) # << >> PROVE JobIs(c, None, None, "none", FALSE, Tail(t))'
  <2>1. /\ job.call = c /\ job.id = None /\ job.datum = None /\ job.effect = "none"
        /\ job.hot = FALSE /\ job.todo = t
        /\ job = [call |-> c, id |-> None, datum |-> None, effect |-> "none", hot |-> FALSE,
                  todo |-> t]
    BY <1>1, JobFields DEF JobIs
  <2>2. job' = [job EXCEPT !.todo = Tail(t), !.effect = "none", !.hot = FALSE]
    BY <1>3, <2>1 DEF Advance
  <2>3. job' = [call |-> c, id |-> None, datum |-> None, effect |-> "none", hot |-> FALSE,
                todo |-> Tail(t)]
    BY <2>1, <2>2
  <2> QED BY <2>3 DEF JobIs
<1>4. Tail(t) = << >> => job' = NoJob
  BY <1>1, AdvanceEnds
<1> QED BY <1>2, <1>3, <1>4 DEF NtJob

(* While the call has steps left, what its client knows stays. *)
LEMMA NtGoesOn ==
  ASSUME NEW c, NEW t, t # << >>, JobIs(c, None, None, "none", FALSE, t)', Step
  PROVE  UNCHANGED <<own, due>>
<1>1. job'.todo = t
  BY DEF JobIs
<1>2. job' # NoJob
  BY <1>1 DEF NoJob
<1> QED BY <1>2 DEF Step

(* When it has ended the promise holds. *)
LEMMA NtEnds ==
  ASSUME job' = NoJob, out' = "ok", Step
  PROVE  own' = due /\ due' = due
BY DEF Step

(* The bytes of a new datum. *)
LEMMA NtWriteKeeps ==
  ASSUME NEW K, Roomy, Shape, Marks, ~hurt, NEW p \in Places, NEW x \in Texts,
         NtToWrite(K, p, x), Step
  PROVE  Shape' /\ Marks' /\ UNCHANGED <<own, due>> /\ NtToSize(K, p, x)'
<1> DEFINE t == <<Bytes(p, 0, x), SetSize(p, Len(x))>>
           s == <<SetSize(p, Len(x))>>
<1>1. t # << >> /\ Head(t) = Bytes(p, 0, x) /\ Tail(t) = s /\ s # << >>
  BY Tuple1, Tuple2
<1>2. /\ NtJob("nt_put", t, p, x) /\ own[p] = None /\ SizeAt(p) = None
      /\ Store(K, {}, {p}, {}, {p}, {})
  BY DEF NtToWrite
<1> HIDE DEF t, s
<1>3. Advance /\ file' = PutBytes(p, 0, x) /\ UNCHANGED <<gids, pools>>
  BY <1>1, <1>2, NtJobIs, WriteIs DEF Step
<1>4. Head(t).do # "none"
  BY <1>1 DEF Bytes
<1>5. /\ UNCHANGED <<want, hurt, crashes>> /\ out' = "ok"
      /\ JobIs("nt_put", None, None, "none", FALSE, s)'
  BY <1>1, <1>2, <1>3, <1>4, NtAdvance
<1>6. UNCHANGED <<own, due>>
  BY <1>1, <1>5, NtGoesOn
<1>7. /\ file' \in [Dirs -> [Chunks -> Texts]]
      /\ FileAt(p)' = Over(FileAt(p), 0, x)
      /\ \A r \in Places : r # p => FileAt(r)' = FileAt(r)
  BY <1>3, WriteEffect, Constants
<1>8. FirstBytes(FileAt(p)', Len(x)) = x
  <2>1. FileAt(p) \in Texts
    BY PlaceParts, PoolParts DEF FileAt
  <2> QED BY <1>7, <2>1, WholeFacts
<1>9. K[p] = None /\ \A k \in Ids : ~LeadsTo(k, p)
  BY <1>2 DEF Store, Structure, Clean, Others
<1>10. Store(K, {}, {p}, {}, {p}, {})'
  BY <1>2, <1>3, <1>5, <1>7, <1>9, StoreWritten
<1>11. Shape' /\ Marks'
  BY <1>3, <1>5, <1>7, ShapeKept DEF Shape, Marks
<1>12. SizeAt(p)' = None
  BY <1>2, <1>3, SamePools
<1>13. NtJob("nt_put", s, p, x)'
  BY <1>2, <1>5, <1>6 DEF NtJob
<1> QED BY <1>2, <1>6, <1>8, <1>10, <1>11, <1>12, <1>13 DEF NtToSize, s

(* Its size: from now on the client has the address. *)
LEMMA NtSizeKeeps ==
  ASSUME NEW K, Roomy, Shape, Marks, ~hurt, NEW p \in Places, NEW x \in Texts,
         NtToSize(K, p, x), Step, NEW L, L[p] = x, \A r \in Places : r # p => L[r] = K[r]
  PROVE  Shape' /\ Marks' /\ own' = due /\ due' = due /\ AtRest(L)'
<1>1. PICK n \in Nat : n = Len(x)
  BY DEF Texts
<1> DEFINE t == <<SetSize(p, n)>>
<1>2. t # << >> /\ Head(t) = SetSize(p, n) /\ Tail(t) = << >>
  BY Tuple1
<1>3. /\ NtJob("nt_put", t, p, x) /\ own[p] = None /\ SizeAt(p) = None
      /\ FirstBytes(FileAt(p), n) = x
      /\ Store(K, {}, {p}, {}, {p}, {})
  BY <1>1 DEF NtToSize
<1> HIDE DEF t
<1>4. /\ Advance /\ gids' = gids
      /\ file' = Covered(file, p, n)
      /\ pools' = Sized(p, n)
  <2>1. JobIs("nt_put", None, None, "none", FALSE, t)
    BY <1>3, NtJobIs
  <2>2. Steps
    BY DEF Step
  <2> QED BY <1>2, <2>1, <2>2, SizeIs
<1>5. Head(t).do # "none"
  BY <1>2 DEF SetSize
<1>6. UNCHANGED <<want, hurt, crashes>> /\ out' = "ok" /\ job' = NoJob
  BY <1>2, <1>3, <1>4, <1>5, NtAdvance
<1>7. own' = due /\ due' = due
  BY <1>6, NtEnds
<1>8. n # None
  BY Constants
<1>9. /\ pools' \in [Dirs -> PoolStates]
      /\ Marks'
      /\ \A r \in Places : Acquired(r)' <=> Acquired(r)
      /\ \A r \in Places : SizeAt(r)' = IF r = p THEN n ELSE SizeAt(r)
  BY <1>4, SizeEffect
<1>10. /\ file' \in [Dirs -> [Chunks -> Texts]]
       /\ FileAt(p)' = FirstBytes(FileAt(p), n)
       /\ \A r \in Places : r # p => FileAt(r)' = FileAt(r)
  BY <1>4, CoverEffect
<1>11. BytesAt(p)' = x
  <2>1. FileAt(p)' = x
    BY <1>3, <1>10
  <2>2. BytesAt(p)' = FirstBytes(x, n)
    BY <1>9, <2>1, BytesAre
  <2>3. FirstBytes(x, n) = x
    <3>1. PICK f \in Texts : f = FileAt(p)
      BY PlaceParts, PoolParts DEF FileAt
    <3>2. FirstBytes(FirstBytes(f, n), n) = FirstBytes(f, n)
      BY <3>1, FirstFacts
    <3> QED BY <1>3, <3>1, <3>2
  <2> QED BY <2>2, <2>3
<1>12. Store(K, {}, {}, {}, {p}, {})'
  BY <1>3, <1>4, <1>6, <1>8, <1>9, <1>10, StoreSized
<1>13. Store(L, {}, {}, {}, {}, {})'
  BY <1>6, <1>8, <1>9, <1>11, <1>12, StoreGiven, Distinct
<1>14. Shape'
  BY <1>4, <1>6, <1>9, <1>10, ShapeKept DEF Shape
<1> QED BY <1>6, <1>7, <1>9, <1>13, <1>14 DEF AtRest

(* What the client of p knows of a datum that is being changed in place. *)
LEMMA Meanwhile ==
  ASSUME Shape, Marks, NtShape, ~hurt, NEW K, K = Kept, NEW p \in Places, NEW x \in Texts,
         Held(p), due = [own EXCEPT ![p] = x], Store(K, {}, {}, {}, {}, {})
  PROVE  /\ K[p] # None /\ SizeAt(p) # None /\ Acquired(p)
         /\ \A k \in Ids : ~LeadsTo(k, p)
         /\ K[p] \in Texts => K[p] = x /\ SizeAt(p) = Len(x)
<1>1. K[p] # None /\ (K[p] \in Texts => K[p] = x)
  <2>1. /\ K[p] = IF own[p] \in {x, None} THEN own[p] ELSE Unsure
        /\ K[p] = None <=> own[p] = None
    <3>1. \A r \in Places : K[r] = IF own[r] \in {due[r], None} THEN own[r] ELSE Unsure
      BY DEF Kept
    <3>2. due[p] = x
      BY DEF NtShape
    <3> QED BY <3>1, <3>2, Distinct
  <2> QED BY <2>1, Distinct DEF Held
<1>2. Others(K, {}) /\ Matches({}, {})
  BY DEF Store
<1>3. /\ SizeAt(p) # None /\ \A k \in Ids : ~LeadsTo(k, p)
      /\ K[p] \in Texts => BytesAt(p) = K[p]
  BY <1>1, <1>2 DEF Others
<1>4. Acquired(p)
  BY <1>2, <1>3 DEF Matches
<1>5. ASSUME K[p] \in Texts PROVE SizeAt(p) = Len(x)
  <2>1. PICK f \in Texts : f = FileAt(p)
    BY PlaceParts, PoolParts DEF FileAt
  <2>2. PICK n \in Nat : n = SizeAt(p)
    BY <1>3, PlaceParts, PoolParts DEF SizeAt, PoolStates
  <2>3. Len(FirstBytes(f, n)) = n
    BY FirstFacts
  <2> QED BY <1>1, <1>3, <1>5, <2>1, <2>2, <2>3, BytesAre
<1> QED BY <1>1, <1>3, <1>4, <1>5

(* The bytes of a datum changed in place. *)
LEMMA NtEditKeeps ==
  ASSUME NEW K, K = Kept, Roomy, Shape, Marks, NtShape, ~hurt, NEW c, NEW p \in Places,
         NEW x \in Texts, NEW at, NEW y, NtToEdit(K, c, p, x, at, y), Step
  PROVE  Shape' /\ Marks' /\ UNCHANGED <<own, due>> /\ NtToResize(K, c, p, x)'
<1> DEFINE t == <<Bytes(p, at, y), SetSize(p, Len(x))>>
           s == <<SetSize(p, Len(x))>>
<1>1. t # << >> /\ Head(t) = Bytes(p, at, y) /\ Tail(t) = s /\ s # << >>
  BY Tuple1, Tuple2
<1>2. /\ NtJob(c, t, p, x) /\ Held(p)
      /\ at \in Nat /\ y \in Texts
      /\ FirstBytes(Over(FileAt(p), at, y), Len(x)) = x
      /\ Store(K, {}, {}, {}, {}, {})
  BY DEF NtToEdit
<1> HIDE DEF t, s
<1>3. Advance /\ file' = PutBytes(p, at, y) /\ UNCHANGED <<gids, pools>>
  BY <1>1, <1>2, NtJobIs, WriteIs DEF Step
<1>4. Head(t).do # "none"
  BY <1>1 DEF Bytes
<1>5. /\ UNCHANGED <<want, hurt, crashes>> /\ out' = "ok"
      /\ JobIs(c, None, None, "none", FALSE, s)'
  BY <1>1, <1>2, <1>3, <1>4, NtAdvance
<1>6. UNCHANGED <<own, due>>
  BY <1>1, <1>5, NtGoesOn
<1>7. /\ file' \in [Dirs -> [Chunks -> Texts]]
      /\ FileAt(p)' = Over(FileAt(p), at, y)
      /\ \A r \in Places : r # p => FileAt(r)' = FileAt(r)
  BY <1>2, <1>3, WriteEffect
<1>8. FirstBytes(FileAt(p)', Len(x)) = x
  BY <1>2, <1>7
<1>9. due = [own EXCEPT ![p] = x]
  BY <1>2 DEF NtJob
<1>10. /\ \A k \in Ids : ~LeadsTo(k, p)
       /\ K[p] \in Texts => K[p] = x /\ SizeAt(p) = Len(x)
  BY <1>2, <1>9, Meanwhile
<1>11. K[p] \in Texts => BytesAt(p)' = K[p]
  <2>1. SizeAt(p)' = SizeAt(p)
    BY <1>3, SamePools
  <2> QED BY <1>8, <1>10, <2>1, BytesAre
<1>12. Store(K, {}, {}, {}, {}, {})'
  BY <1>2, <1>3, <1>5, <1>7, <1>10, <1>11, StoreWritten
<1>13. Shape' /\ Marks'
  BY <1>3, <1>5, <1>7, ShapeKept DEF Shape, Marks
<1>14. NtJob(c, s, p, x)'
  BY <1>2, <1>5, <1>6 DEF NtJob
<1>15. Held(p)'
  BY <1>2, <1>6 DEF Held
<1> QED BY <1>6, <1>8, <1>12, <1>13, <1>14, <1>15 DEF NtToResize, s

(* Its size: from now on its client can tell it again. *)
LEMMA NtResizeKeeps ==
  ASSUME NEW K, K = Kept, Roomy, Shape, Marks, NtShape, ~hurt, NEW c, NEW p \in Places,
         NEW x \in Texts, NtToResize(K, c, p, x), Step,
         NEW L, L[p] = x, \A r \in Places : r # p => L[r] = K[r]
  PROVE  Shape' /\ Marks' /\ own' = due /\ due' = due /\ AtRest(L)'
<1>1. PICK n \in Nat : n = Len(x)
  BY DEF Texts
<1> DEFINE t == <<SetSize(p, n)>>
<1>2. t # << >> /\ Head(t) = SetSize(p, n) /\ Tail(t) = << >>
  BY Tuple1
<1>3. /\ NtJob(c, t, p, x) /\ Held(p)
      /\ FirstBytes(FileAt(p), n) = x
      /\ Store(K, {}, {}, {}, {}, {})
  BY <1>1 DEF NtToResize
<1> HIDE DEF t
<1>4. /\ Advance /\ gids' = gids
      /\ file' = Covered(file, p, n)
      /\ pools' = Sized(p, n)
  BY <1>2, <1>3, NtJobIs, SizeIs DEF Step
<1>5. Head(t).do # "none"
  BY <1>2 DEF SetSize
<1>6. UNCHANGED <<want, hurt, crashes>> /\ out' = "ok" /\ job' = NoJob
  BY <1>2, <1>3, <1>4, <1>5, NtAdvance
<1>7. own' = due /\ due' = due
  BY <1>6, NtEnds
<1>8. n # None
  BY Constants
<1>9. /\ pools' \in [Dirs -> PoolStates]
      /\ Marks'
      /\ \A r \in Places : Acquired(r)' <=> Acquired(r)
      /\ \A r \in Places : SizeAt(r)' = IF r = p THEN n ELSE SizeAt(r)
  BY <1>4, SizeEffect
<1>10. /\ file' \in [Dirs -> [Chunks -> Texts]]
       /\ FileAt(p)' = FirstBytes(FileAt(p), n)
       /\ \A r \in Places : r # p => FileAt(r)' = FileAt(r)
  BY <1>4, CoverEffect
<1>11. BytesAt(p)' = x
  <2>1. FileAt(p)' = x
    BY <1>3, <1>10
  <2>2. BytesAt(p)' = FirstBytes(x, n)
    BY <1>9, <2>1, BytesAre
  <2>3. FirstBytes(x, n) = x
    <3>1. PICK f \in Texts : f = FileAt(p)
      BY PlaceParts, PoolParts DEF FileAt
    <3>2. FirstBytes(FirstBytes(f, n), n) = FirstBytes(f, n)
      BY <3>1, FirstFacts
    <3> QED BY <1>3, <3>1, <3>2
  <2> QED BY <2>2, <2>3
<1>12. K[p] # None
  <2>1. due = [own EXCEPT ![p] = x]
    BY <1>3 DEF NtJob
  <2> QED BY <1>3, <2>1, Meanwhile
<1>13. L[p] # None
  BY Distinct
<1>14. Store(L, {}, {}, {}, {}, {})'
  BY <1>3, <1>4, <1>6, <1>8, <1>9, <1>10, <1>11, <1>12, <1>13, StoreRenewed
<1>15. Shape'
  BY <1>4, <1>6, <1>9, <1>10, ShapeKept DEF Shape
<1> QED BY <1>6, <1>7, <1>9, <1>14, <1>15 DEF AtRest

(* The chunk of a datum that is deleted: its client gives the address up. *)
LEMMA NtFreeKeeps ==
  ASSUME NEW K, K = Kept, Roomy, Shape, Marks, NtShape, ~hurt, NEW p \in Places,
         NtToFree(K, p), Step,
         NEW L, L[p] = None, \A r \in Places : r # p => L[r] = K[r]
  PROVE  Shape' /\ Marks' /\ own' = due /\ due' = due /\ AtRest(L)'
<1> DEFINE t == <<FreeChunk(p)>>
<1>1. t # << >> /\ Head(t) = FreeChunk(p) /\ Tail(t) = << >>
  BY Tuple1
<1>2. /\ NtJob("nt_del", t, p, None) /\ Held(p)
      /\ Store(K, {}, {}, {}, {}, {})
  BY DEF NtToFree
<1> HIDE DEF t
<1>3. K[p] # None
  <2>1. K[p] = IF own[p] \in {due[p], None} THEN own[p] ELSE Unsure
    BY DEF Kept
  <2> QED BY <1>2, <2>1, Distinct DEF Held
<1>4. Others(K, {}) /\ Matches({}, {})
  BY <1>2 DEF Store
<1>5. Acquired(p)
  BY <1>3, <1>4 DEF Others, Matches
<1>6. /\ gids' = gids
      /\ pools' = Freed(p)
      /\ file' = Covered(file, p, 0)
      /\ Advance
  BY <1>1, <1>2, <1>5, NtJobIs, FreeIs DEF Step
<1>7. Head(t).do # "none"
  BY <1>1 DEF FreeChunk
<1>8. UNCHANGED <<want, hurt, crashes>> /\ out' = "ok" /\ job' = NoJob
  BY <1>1, <1>2, <1>6, <1>7, NtAdvance
<1>9. own' = due /\ due' = due
  BY <1>8, NtEnds
<1>10. /\ pools' \in [Dirs -> PoolStates]
       /\ Marks'
       /\ \A r \in Places : Acquired(r)' <=> Acquired(r) /\ r # p
       /\ \A r \in Places : SizeAt(r)' = IF r = p THEN None ELSE SizeAt(r)
  BY <1>6, FreeEffect
<1>11. /\ file' \in [Dirs -> [Chunks -> Texts]]
       /\ \A r \in Places : r # p => FileAt(r)' = FileAt(r)
  BY <1>6, CoverEffect, Constants
<1>12. Store(L, {}, {}, {}, {}, {})'
  BY <1>2, <1>3, <1>6, <1>8, <1>10, <1>11, StoreRenewed, Distinct
<1>13. Shape'
  BY <1>6, <1>8, <1>10, <1>11, ShapeKept DEF Shape
<1> QED BY <1>8, <1>9, <1>10, <1>12, <1>13 DEF AtRest

-----------------------------------------------------------------------------
(* The stages of the nt_ calls together. *)

(* The place an nt_ call is at, and the datum it promises there. *)
LEMMA NtPlaces ==
  ASSUME NEW K, NtStage(K)
  PROVE  \E p \in Places :
           \/ NtToFree(K, p)
           \/ \E x \in Texts :
                \/ NtToWrite(K, p, x)
                \/ NtToSize(K, p, x)
                \/ \E c \in NtEditCalls : \/ NtToResize(K, c, p, x)
                                          \/ \E at, y : NtToEdit(K, c, p, x, at, y)
BY DEF NtStage, NtPutting, NtChanging

(* A call that writes a datum of its own, or one that has only its size     *)
(* left, is at a place.                                                     *)
LEMMA NtPlaced ==
  ASSUME NEW K, NtShape', NEW p \in Places, NEW x \in Texts,
         NtPutting(K, p, x)' \/ \E c \in NtEditCalls : NtToResize(K, c, p, x)'
  PROVE  NtStage(K)'
<1>1. due' = [own' EXCEPT ![p] = x]
  BY DEF NtPutting, NtToWrite, NtToSize, NtToResize, NtJob
<1>2. due'[p] = x
  BY <1>1 DEF NtShape
<1>3. NtPutting(K, p, x)' \/ NtChanging(K, p, x)'
  BY DEF NtChanging
<1> QED BY <1>2, <1>3 DEF NtStage

(* So is one about to write into the datum. *)
LEMMA NtPlacedToEdit ==
  ASSUME NEW K, NtShape', NEW p \in Places, NEW x \in Texts, NEW c \in NtEditCalls,
         NEW at, NEW y, NtToEdit(K, c, p, x, at, y)'
  PROVE  NtStage(K)'
<1> DEFINE t == <<Bytes(p, at, y), SetSize(p, Len(x))>>
<1>1. due' = [own' EXCEPT ![p] = x]
  BY DEF NtToEdit, NtJob
<1>2. due'[p] = x
  BY <1>1 DEF NtShape
<1>3. t # << >> /\ Head(t) = Bytes(p, at, y)
  BY Tuple2
<1>4. job'.todo = t
  BY DEF NtToEdit, NtJob, JobIs
<1> HIDE DEF t
<1>5. Due("bytes")' /\ Head(job'.todo).at = at /\ Head(job'.todo).data = y
  BY <1>3, <1>4 DEF Due, Idle, Bytes
<1>6. NtChanging(K, p, x)'
  BY <1>5 DEF NtChanging
<1> QED BY <1>2, <1>6 DEF NtStage

(* An nt_ call can be interrupted between any two of its steps, and puts no *)
(* id at risk.                                                              *)
LEMMA NtRestartable ==
  ASSUME NEW K, NtStage(K)
  PROVE  Restartable(K) /\ ~Idle /\ job.hot = FALSE /\ job.id = None
<1>1. PICK p \in Places :
           \/ NtToFree(K, p)
           \/ \E x \in Texts :
                \/ NtToWrite(K, p, x)
                \/ NtToSize(K, p, x)
                \/ \E c \in NtEditCalls : \/ NtToResize(K, c, p, x)
                                          \/ \E at, y : NtToEdit(K, c, p, x, at, y)
  BY NtPlaces
<1> DEFINE Goal == Restartable(K) /\ ~Idle /\ job.hot = FALSE /\ job.id = None
<1>2. CASE NtToFree(K, p)
  <2> DEFINE t == <<FreeChunk(p)>>
  <2>1. t # << >> /\ Head(t).do # "bytes"
    BY Tuple1 DEF FreeChunk
  <2>2. JobIs("nt_del", None, None, "none", FALSE, t) /\ Store(K, {}, {}, {}, {}, {})
    BY <1>2 DEF NtToFree, NtJob
  <2> HIDE DEF t
  <2>3. ~Idle /\ job.hot = FALSE /\ job.id = None /\ Gathered
    BY <2>1, <2>2, Waiting
  <2>4. Recoverable(K)
    BY <2>2, <2>3, QuietRecovers
  <2> QED BY <2>3, <2>4 DEF Restartable
<1>3. ASSUME NEW x \in Texts, NtToWrite(K, p, x) PROVE Goal
  <2> DEFINE t == <<Bytes(p, 0, x), SetSize(p, Len(x))>>
  <2>1. t # << >> /\ Head(t) = Bytes(p, 0, x)
    BY Tuple2
  <2>2. JobIs("nt_put", None, None, "none", FALSE, t) /\ Store(K, {}, {p}, {}, {p}, {})
    BY <1>3 DEF NtToWrite, NtJob
  <2> HIDE DEF t
  <2>3. ~Idle /\ job.hot = FALSE /\ job.id = None
    BY <2>1, <2>2, Waiting
  <2>4. Gathered
    BY <2>1, <2>2, WaitingToWrite, Constants
  <2>5. Recoverable(K)
    BY <2>2, <2>3, QuietRecovers
  <2> QED BY <2>3, <2>4, <2>5 DEF Restartable
<1>4. ASSUME NEW x \in Texts, NtToSize(K, p, x) PROVE Goal
  <2> DEFINE t == <<SetSize(p, Len(x))>>
  <2>1. t # << >> /\ Head(t).do # "bytes"
    BY Tuple1 DEF SetSize
  <2>2. JobIs("nt_put", None, None, "none", FALSE, t) /\ Store(K, {}, {p}, {}, {p}, {})
    BY <1>4 DEF NtToSize, NtJob
  <2> HIDE DEF t
  <2>3. ~Idle /\ job.hot = FALSE /\ job.id = None /\ Gathered
    BY <2>1, <2>2, Waiting
  <2>4. Recoverable(K)
    BY <2>2, <2>3, QuietRecovers
  <2> QED BY <2>3, <2>4 DEF Restartable
<1>5. ASSUME NEW x \in Texts, NEW c \in NtEditCalls, NtToResize(K, c, p, x) PROVE Goal
  <2> DEFINE t == <<SetSize(p, Len(x))>>
  <2>1. t # << >> /\ Head(t).do # "bytes"
    BY Tuple1 DEF SetSize
  <2>2. JobIs(c, None, None, "none", FALSE, t) /\ Store(K, {}, {}, {}, {}, {})
    BY <1>5 DEF NtToResize, NtJob
  <2> HIDE DEF t
  <2>3. ~Idle /\ job.hot = FALSE /\ job.id = None /\ Gathered
    BY <2>1, <2>2, Waiting
  <2>4. Recoverable(K)
    BY <2>2, <2>3, QuietRecovers
  <2> QED BY <2>3, <2>4 DEF Restartable
<1>6. ASSUME NEW x \in Texts, NEW c \in NtEditCalls, NEW at, NEW y,
             NtToEdit(K, c, p, x, at, y)
      PROVE  Goal
  <2> DEFINE t == <<Bytes(p, at, y), SetSize(p, Len(x))>>
  <2>1. t # << >> /\ Head(t) = Bytes(p, at, y)
    BY Tuple2
  <2>2. /\ JobIs(c, None, None, "none", FALSE, t) /\ Store(K, {}, {}, {}, {}, {})
        /\ at \in Nat /\ y \in Texts
    BY <1>6 DEF NtToEdit, NtJob
  <2> HIDE DEF t
  <2>3. ~Idle /\ job.hot = FALSE /\ job.id = None
    BY <2>1, <2>2, Waiting
  <2>4. Gathered
    BY <2>1, <2>2, WaitingToWrite
  <2>5. Recoverable(K)
    BY <2>2, <2>3, QuietRecovers
  <2> QED BY <2>3, <2>4, <2>5 DEF Restartable
<1> QED BY <1>1, <1>2, <1>3, <1>4, <1>5, <1>6

(* The call has ended and its client knows what the call promised. *)
LEMMA NtSettled ==
  ASSUME NtShape, NEW L, L = due, own' = due, due' = due, Shape', Marks', AtRest(L)'
  PROVE  NtFine'
<1>1. NtShape'
  BY DEF NtShape
<1>2. Kept' = L
  BY <1>1, KeptSameNext
<1>3. Stage(L)'
  BY AtRestStage
<1>4. AnyStage(L)'
  BY <1>3 DEF AnyStage
<1> QED BY <1>1, <1>2, <1>4 DEF NtFine

(* The call goes on. *)
LEMMA NtUnderWay ==
  ASSUME NtShape, NEW K, K = Kept, UNCHANGED <<own, due>>, Shape', Marks', NtStage(K)'
  PROVE  NtFine'
<1>1. NtShape'
  BY DEF NtShape
<1>2. Kept' = K
  BY DEF Kept
<1>3. AnyStage(K)'
  BY DEF AnyStage
<1> QED BY <1>1, <1>2, <1>3 DEF NtFine

(* Each durable step of an nt_ call. *)
LEMMA NtStepKeeps ==
  ASSUME NEW K, K = Kept, Roomy, Shape, Marks, NtShape, ~hurt, NtStage(K), Step
  PROVE  NtFine'
<1>1. PICK p \in Places :
           \/ NtToFree(K, p)
           \/ \E x \in Texts :
                \/ NtToWrite(K, p, x)
                \/ NtToSize(K, p, x)
                \/ \E c \in NtEditCalls : \/ NtToResize(K, c, p, x)
                                          \/ \E at, y : NtToEdit(K, c, p, x, at, y)
  BY NtPlaces
<1>2. PICK L : L = due
  OBVIOUS
<1>3. ASSUME NEW x, due = [own EXCEPT ![p] = x]
      PROVE  L[p] = x /\ \A r \in Places : r # p => L[r] = K[r]
  <2>1. \A r \in Places : K[r] = IF own[r] \in {due[r], None} THEN own[r] ELSE Unsure
    BY DEF Kept
  <2>2. due[p] = x /\ \A r \in Places : r # p => due[r] = own[r]
    BY <1>3 DEF NtShape
  <2> QED BY <1>2, <2>1, <2>2
<1>4. CASE NtToFree(K, p)
  <2>1. due = [own EXCEPT ![p] = None]
    BY <1>4 DEF NtToFree, NtJob
  <2>2. L[p] = None /\ \A r \in Places : r # p => L[r] = K[r]
    BY <1>3, <2>1
  <2>3. Shape' /\ Marks' /\ own' = due /\ due' = due /\ AtRest(L)'
    BY <1>4, <2>2, NtFreeKeeps
  <2> QED BY <1>2, <2>3, NtSettled
<1>5. ASSUME NEW x \in Texts, NtToWrite(K, p, x) PROVE NtFine'
  <2>1. Shape' /\ Marks' /\ UNCHANGED <<own, due>> /\ NtToSize(K, p, x)'
    BY <1>5, NtWriteKeeps
  <2>2. NtShape'
    BY <2>1 DEF NtShape
  <2>3. NtStage(K)'
    BY <2>1, <2>2, NtPlaced DEF NtPutting
  <2> QED BY <2>1, <2>3, NtUnderWay
<1>6. ASSUME NEW x \in Texts, NtToSize(K, p, x) PROVE NtFine'
  <2>1. due = [own EXCEPT ![p] = x]
    BY <1>6 DEF NtToSize, NtJob
  <2>2. L[p] = x /\ \A r \in Places : r # p => L[r] = K[r]
    BY <1>3, <2>1
  <2>3. Shape' /\ Marks' /\ own' = due /\ due' = due /\ AtRest(L)'
    BY <1>6, <2>2, NtSizeKeeps
  <2> QED BY <1>2, <2>3, NtSettled
<1>7. ASSUME NEW x \in Texts, NEW c \in NtEditCalls, NtToResize(K, c, p, x) PROVE NtFine'
  <2>1. due = [own EXCEPT ![p] = x]
    BY <1>7 DEF NtToResize, NtJob
  <2>2. L[p] = x /\ \A r \in Places : r # p => L[r] = K[r]
    BY <1>3, <2>1
  <2>3. Shape' /\ Marks' /\ own' = due /\ due' = due /\ AtRest(L)'
    BY <1>7, <2>2, NtResizeKeeps
  <2> QED BY <1>2, <2>3, NtSettled
<1>8. ASSUME NEW x \in Texts, NEW c \in NtEditCalls, NEW at, NEW y,
             NtToEdit(K, c, p, x, at, y)
      PROVE  NtFine'
  <2>1. Shape' /\ Marks' /\ UNCHANGED <<own, due>> /\ NtToResize(K, c, p, x)'
    BY <1>8, NtEditKeeps
  <2>2. NtShape'
    BY <2>1 DEF NtShape
  <2>3. NtStage(K)'
    BY <2>1, <2>2, NtPlaced
  <2> QED BY <2>1, <2>3, NtUnderWay
<1> QED BY <1>1, <1>4, <1>5, <1>6, <1>7, <1>8

-----------------------------------------------------------------------------
(* Failing writes and crashes. *)

(* The handle of a failed nt_put gives back the chunk it acquired. *)
LEMMA NtWriteFails ==
  ASSUME NEW K, Roomy, Shape, Marks, NEW p \in Places, NEW x, NtToWrite(K, p, x),
         WriteFails, Restartable(K)
  PROVE  BInv(K)'
<1> DEFINE t == <<Bytes(p, 0, x), SetSize(p, Len(x))>>
<1>1. Head(t) = Bytes(p, 0, x) /\ t[2] = SetSize(p, Len(x))
  BY Tuple2
<1>2. /\ JobIs("nt_put", None, None, "none", FALSE, t) /\ SizeAt(p) = None
      /\ Store(K, {}, {p}, {}, {p}, {})
  BY DEF NtToWrite, NtJob
<1> HIDE DEF t
<1>3. job.todo = t /\ job.hot = FALSE /\ job.id = None
  BY <1>2, JobFields
<1>4. ~Destroys(Head(job.todo)) /\ job.todo[2].place = p
  BY <1>1, <1>2, <1>3 DEF Destroys, Bytes, SetSize
<1>5. /\ file' \in [Dirs -> [Chunks -> Texts]]
      /\ hurt' \in BOOLEAN
      /\ hurt' <=> hurt
      /\ \A r \in Places : ~hurt' /\ SizeAt(r) # None => FileAt(r)' = FileAt(r)
  BY <1>3, <1>4, InterruptFacts DEF Restartable, WriteFails
<1>6. UNCHANGED <<gids, want, crashes>> /\ job' = NoJob
  BY <1>3 DEF WriteFails, KeepsId
<1>7. /\ \A k \in Ids : Known(k) <=> HasRow(k)
      /\ \A r \in Places : Acquired(r) <=> SizeAt(r) # None \/ r = p
  BY <1>2 DEF Store, Matches
<1>8. \A k \in Ids : /\ Known(k)' <=> HasRow(k)
                     /\ HasRow(k)' <=> HasRow(k)
                     /\ \A r \in Places : LeadsTo(k, r)' <=> LeadsTo(k, r)
  BY <1>6, <1>7, SameIds
<1>9. /\ pools' \in [Dirs -> PoolStates]
      /\ Marks'
      /\ \A r \in Places : /\ SizeAt(r)' = SizeAt(r)
                           /\ Acquired(r)' <=> SizeAt(r) # None
  <2>1. pools' = [pools EXCEPT ![p.dir].bm = Chk!LetGo(@, p.loc)]
    BY <1>2, <1>4 DEF WriteFails
  <2>2. gids'.bm.top <= gids'.bm.size
    BY <1>6 DEF Marks
  <2> QED BY <1>2, <1>7, <2>1, <2>2, GivenBack
<1>10. (Clean' <=> Clean) /\ (~hurt' => ~hurt /\ Clean)
  BY <1>5, <1>6 DEF Clean
<1>11. PICK T, F : T = {p} /\ F = {p}
  OBVIOUS
<1>12. Store(K, {}, T, {}, F, {}) /\ \A r \in F \ {} : SizeAt(r) = None
  BY <1>2, <1>11
<1>13. Store(K, {}, {}, {}, {}, {})'
  BY <1>5, <1>6, <1>8, <1>9, <1>10, <1>12, StoreKept
<1>14. Shape'
  BY <1>5, <1>6, <1>9, ShapeKept DEF Shape
<1>15. AtRest(K)'
  BY <1>6, <1>13 DEF AtRest
<1> QED BY <1>9, <1>14, <1>15, AtRestStage DEF BInv

(* A failed write into the datum of a client leaves the tables alone. *)
LEMMA NtEditFails ==
  ASSUME NEW K, Roomy, Shape, Marks, NEW c, NEW p \in Places, NEW x, NEW at, NEW y,
         NtToEdit(K, c, p, x, at, y), SizeAt(p) # None, WriteFails, Restartable(K)
  PROVE  BInv(K)'
<1> DEFINE t == <<Bytes(p, at, y), SetSize(p, Len(x))>>
<1>1. t[2] = SetSize(p, Len(x))
  BY Tuple2
<1>2. JobIs(c, None, None, "none", FALSE, t) /\ Store(K, {}, {}, {}, {}, {})
  BY DEF NtToEdit, NtJob
<1> HIDE DEF t
<1>3. job.todo = t /\ job.hot = FALSE /\ job.id = None
  BY <1>2, JobFields
<1>4. job.todo[2].place = p
  BY <1>1, <1>3 DEF SetSize
<1>5. /\ file' \in [Dirs -> [Chunks -> Texts]]
      /\ hurt' \in BOOLEAN
      /\ ~hurt' => ~hurt
      /\ \A r \in Places : ~hurt' /\ SizeAt(r) # None => FileAt(r)' = FileAt(r)
  BY InterruptFacts DEF Restartable, WriteFails
<1>6. UNCHANGED <<gids, pools, want, crashes>> /\ job' = NoJob
  BY <1>3, <1>4 DEF WriteFails, KeepsId
<1>7. /\ \A k \in Ids : Known(k) <=> HasRow(k)
      /\ \A r \in Places : Acquired(r) <=> SizeAt(r) # None
  BY <1>2 DEF Store, Matches
<1>8. \A k \in Ids : /\ Known(k)' <=> HasRow(k)
                     /\ HasRow(k)' <=> HasRow(k)
                     /\ \A r \in Places : LeadsTo(k, r)' <=> LeadsTo(k, r)
  BY <1>6, <1>7, SameIds
<1>9. \A r \in Places : /\ SizeAt(r)' = SizeAt(r)
                        /\ Acquired(r)' <=> SizeAt(r) # None
  BY <1>6, <1>7, SamePools
<1>10. (Clean' => Clean) /\ (~hurt' => ~hurt /\ Clean)
  BY <1>5, <1>6 DEF Clean
<1>11. Store(K, {}, {}, {}, {}, {})'
  BY <1>2, <1>5, <1>6, <1>8, <1>9, <1>10, StoreKept
<1>12. Shape' /\ Marks'
  BY <1>5, <1>6, ShapeKept DEF Shape, Marks
<1>13. AtRest(K)'
  BY <1>6, <1>11 DEF AtRest
<1> QED BY <1>12, <1>13, AtRestStage DEF BInv

(* A write of an nt_ call that fails. *)
LEMMA NtFailKeeps ==
  ASSUME NEW K, K = Kept, Roomy, Shape, Marks, NtShape, ~hurt, NtStage(K), WriteFails
  PROVE  BInv(K)'
<1>1. PICK p \in Places :
           \/ NtToFree(K, p)
           \/ \E x \in Texts :
                \/ NtToWrite(K, p, x)
                \/ NtToSize(K, p, x)
                \/ \E c \in NtEditCalls : \/ NtToResize(K, c, p, x)
                                          \/ \E at, y : NtToEdit(K, c, p, x, at, y)
  BY NtPlaces
<1>2. Restartable(K)
  BY NtRestartable
<1>3. Due("bytes")
  BY DEF WriteFails
<1>4. CASE NtToFree(K, p)
  <2> DEFINE t == <<FreeChunk(p)>>
  <2>1. Head(t).do # "bytes"
    BY Tuple1 DEF FreeChunk
  <2>2. JobIs("nt_del", None, None, "none", FALSE, t)
    BY <1>4 DEF NtToFree, NtJob
  <2> HIDE DEF t
  <2> QED BY <1>3, <2>1, <2>2, NotWriting
<1>5. ASSUME NEW x \in Texts, NtToWrite(K, p, x) PROVE BInv(K)'
  BY <1>2, <1>5, NtWriteFails
<1>6. ASSUME NEW x \in Texts, NEW c,
             JobIs(c, None, None, "none", FALSE, <<SetSize(p, Len(x))>>)
      PROVE  FALSE
  <2> DEFINE t == <<SetSize(p, Len(x))>>
  <2>1. Head(t).do # "bytes"
    BY Tuple1 DEF SetSize
  <2>2. JobIs(c, None, None, "none", FALSE, t)
    BY <1>6
  <2> HIDE DEF t
  <2> QED BY <1>3, <2>1, <2>2, NotWriting
<1>7. ASSUME NEW x \in Texts, NtToSize(K, p, x) PROVE FALSE
  BY <1>6, <1>7 DEF NtToSize, NtJob
<1>8. ASSUME NEW x \in Texts, NEW c \in NtEditCalls, NtToResize(K, c, p, x) PROVE FALSE
  BY <1>6, <1>8 DEF NtToResize, NtJob
<1>9. ASSUME NEW x \in Texts, NEW c \in NtEditCalls, NEW at, NEW y,
             NtToEdit(K, c, p, x, at, y)
      PROVE  BInv(K)'
  <2>1. due = [own EXCEPT ![p] = x] /\ Held(p) /\ Store(K, {}, {}, {}, {}, {})
    BY <1>9 DEF NtToEdit, NtJob
  <2>2. SizeAt(p) # None
    BY <2>1, Meanwhile
  <2> QED BY <1>2, <1>9, <2>2, NtEditFails
<1> QED BY <1>1, <1>4, <1>5, <1>7, <1>8, <1>9

(* A call that breaks off leaves its client what it can still tell. *)
LEMMA BreakKeeps ==
  ASSUME NEW K, K = Kept, Roomy, Shape, Marks, NtShape, ~hurt, AnyStage(K), BreakOff
  PROVE  NtFine'
<1>1. own' = K /\ due' = K /\ (WriteFails \/ Crash)
  BY DEF BreakOff
<1>2. NtShape'
  <2>1. K \in [Places -> Texts \cup {None, Unsure}]
    BY DEF NtShape, Kept
  <2> QED BY <1>1, <2>1 DEF NtShape
<1>3. Kept' = K
  BY <1>1, <1>2, KeptSameNext
<1>4. BInv(K)'
  <2>1. CASE Stage(K)
    <3>1. Restartable(K) /\ BInv(K)
      BY <2>1, StageRestartable DEF BInv
    <3> QED BY <1>1, <3>1, FailKeeps, CrashKeeps
  <2>2. CASE NtStage(K)
    BY <1>1, <2>2, NtRestartable, NtFailKeeps, CrashKeeps
  <2> QED BY <2>1, <2>2 DEF AnyStage
<1>5. AnyStage(K)'
  BY <1>1, <1>4 DEF AnyStage, BInv
<1> QED BY <1>2, <1>3, <1>4, <1>5 DEF NtFine, BInv

-----------------------------------------------------------------------------
(* The nt_ calls. *)

(* A refused call. *)
LEMMA NtRefused ==
  ASSUME NEW K, K = Kept, Roomy, Shape, Marks, NtShape, AtRest(K), own = due,
         NEW e, ThrowNt(e)
  PROVE  NtFine'
<1>1. Throw(e) /\ gids' = gids /\ UNCHANGED <<own, due>>
  BY DEF ThrowNt, ntVars
<1>2. BInv(K)'
  BY <1>1, RefusedKeeps
<1>3. NtShape'
  BY <1>1 DEF NtShape
<1>4. Kept' = K
  BY <1>1 DEF Kept
<1>5. AnyStage(K)'
  BY <1>1, <1>2 DEF AnyStage, BInv
<1> QED BY <1>2, <1>3, <1>4, <1>5 DEF NtFine, BInv

(* What the beginning of a call promises at p. *)
LEMMA NtPromises ==
  ASSUME NEW c, NEW t, BeginNt(c, t), NEW p, NEW x, Promise(p, x), own' = own
  PROVE  /\ NtJob(c, t, p, x)'
         /\ UNCHANGED <<gids, file, want, hurt, crashes>>
<1>1. Begin(c, None, None, "none", t) /\ gids' = gids
  BY DEF BeginNt
<1>2. JobIs(c, None, None, "none", FALSE, t)' /\ UNCHANGED <<file, want, hurt, crashes>>
  BY <1>1, BeginIs
<1>3. out' = "ok"
  BY <1>1 DEF Begin
<1>4. due' = [own' EXCEPT ![p] = x]
  BY DEF Promise
<1> QED BY <1>1, <1>2, <1>3, <1>4 DEF NtJob

(* The beginning of a call on a datum in its place. *)
LEMMA NtBeginsInPlace ==
  ASSUME NEW K, K = Kept, Roomy, Shape, Marks, NtShape, AtRest(K), own = due,
         NEW p \in Places, Held(p), NEW x \in Texts \cup {None}, NEW c, NEW t,
         BeginNt(c, t), Promise(p, x), UNCHANGED <<pools, own>>, NEW L, L = Kept'
  PROVE  /\ Shape' /\ Marks' /\ NtShape' /\ Store(L, {}, {}, {}, {}, {})'
         /\ NtJob(c, t, p, x)' /\ Held(p)' /\ FileAt(p)' = FileAt(p)
<1>1. NtJob(c, t, p, x)' /\ UNCHANGED <<gids, file, want, hurt, crashes>>
  BY NtPromises
<1>2. Shape' /\ Marks' /\ Store(K, {}, {}, {}, {}, {})' /\ FileAt(p)' = FileAt(p)
  BY <1>1, RestKept
<1>3. K = own /\ due' = [own EXCEPT ![p] = x]
  BY KeptSame DEF Promise
<1>4. NtShape' /\ \A r \in Places : L[r] = K[r] \/ (L[r] = Unsure /\ K[r] # None)
  BY <1>3, KeptBegins
<1>5. Store(L, {}, {}, {}, {}, {})'
  BY <1>2, <1>4, StoreDoubted
<1> QED BY <1>1, <1>2, <1>4, <1>5 DEF Held

(* The store is in order, and the call is at the place it promises. *)
LEMMA NtBegun ==
  ASSUME NEW L, L = Kept', Shape', Marks', NtShape', NtStage(L)'
  PROVE  NtFine'
BY DEF NtFine, AnyStage

(* nt_put() keeps the invariant.                                            *)
LEMMA NtPutKeeps ==
  ASSUME NEW K, K = Kept, Roomy, Shape, Marks, NtShape, AtRest(K), own = due, ~hurt,
         NEW x \in Data, NEW mem \in BOOLEAN, nt_put(x, mem)
  PROVE  NtFine'
<1>1. CASE \E e : ThrowNt(e)
  BY <1>1, NtRefused
<1>2. ASSUME NEW p \in LandingFrom(directory(Len(x)), mem), Claim(p, mem),
             BeginNt("nt_put", <<Bytes(p, 0, x), SetSize(p, Len(x))>>), Promise(p, x),
             own' = own
      PROVE  NtFine'
  <2>1. p \in Places /\ p.loc \in Granted(p.dir, mem)
    BY <1>2 DEF LandingFrom
  <2>2. x \in Texts
    BY TextsOfData
  <2> DEFINE t == <<Bytes(p, 0, x), SetSize(p, Len(x))>>
  <2>3. NtJob("nt_put", t, p, x)' /\ UNCHANGED <<gids, file, want, hurt, crashes>>
    BY <1>2, NtPromises
  <2> HIDE DEF t
  <2>4. gids'.bm.top <= gids'.bm.size
    BY <2>3 DEF Marks
  <2>5. /\ pools' \in [Dirs -> PoolStates]
        /\ Marks'
        /\ ~Acquired(p)
        /\ \A r \in Places : SizeAt(r)' = SizeAt(r)
        /\ \A r \in Places : Acquired(r)' <=> Acquired(r) \/ r = p
    BY <1>2, <2>1, <2>4, ClaimFacts
  <2>6. PICK S : S = {}
    OBVIOUS
  <2>7. \A k \in Ids : /\ Known(k)' <=> Known(k) \/ k \in S
                       /\ HasRow(k)' <=> HasRow(k)
                       /\ \A r \in Places : LeadsTo(k, r)' <=> LeadsTo(k, r)
    BY <2>3, <2>6, SameIds
  <2>8. Store(K, {}, {}, {}, {}, {})
    BY DEF AtRest
  <2>9. Store(K, {}, {p}, {}, {p}, {})' /\ SizeAt(p)' = None
    <3>1. Store(K, S, {p}, {}, {p}, {})' /\ SizeAt(p)' = None
      BY <2>1, <2>3, <2>5, <2>8, <2>7, StoreClaimed
    <3> QED BY <2>6, <3>1
  <2>10. K = own /\ due' = [own EXCEPT ![p] = x]
    BY <1>2, KeptSame DEF Promise
  <2>11. PICK L : L = Kept'
    OBVIOUS
  <2>12. NtShape' /\ \A r \in Places : L[r] = K[r] \/ (L[r] = Unsure /\ K[r] # None)
    BY <1>2, <2>1, <2>2, <2>10, <2>11, KeptBegins
  <2>13. PICK T : T = {p}
    OBVIOUS
  <2>14. Store(K, {}, T, {}, T, {})'
    BY <2>9, <2>13
  <2>15. Store(L, {}, T, {}, T, {})'
    BY <2>12, <2>14, StoreDoubted
  <2>16. Shape'
    BY <2>3, <2>5, ShapeKept DEF Shape
  <2>17. CASE K[p] = None
    <3>1. CASE own[p] = None
      <4>1. own'[p] = None
        BY <1>2, <3>1
      <4>2. NtToWrite(L, p, x)'
        BY <2>3, <2>9, <2>13, <2>15, <4>1 DEF NtToWrite, t
      <4>3. NtStage(L)'
        BY <2>1, <2>2, <2>12, <4>2, NtPlaced DEF NtPutting
      <4> QED BY <2>5, <2>11, <2>12, <2>16, <4>3, NtBegun
    <3> QED BY <2>10, <2>17, <3>1
  <2>18. CASE K[p] # None
    BY <2>1, <2>5, <2>8, <2>18 DEF Store, Others, Matches
  <2> QED BY <2>17, <2>18
<1> QED BY <1>1, <1>2 DEF nt_put

(* nt_del() keeps the invariant.                                            *)
LEMMA NtDelKeeps ==
  ASSUME NEW K, K = Kept, Roomy, Shape, Marks, NtShape, AtRest(K), own = due,
         NEW p \in Places, nt_del(p)
  PROVE  NtFine'
<1>1. PICK x, L : x = None /\ L = Kept'
  OBVIOUS
<1>2. /\ Held(p) /\ BeginNt("nt_del", <<FreeChunk(p)>>) /\ Promise(p, x)
      /\ UNCHANGED <<pools, own>>
  BY <1>1 DEF nt_del
<1> DEFINE t == <<FreeChunk(p)>>
<1>3. /\ Shape' /\ Marks' /\ NtShape' /\ Store(L, {}, {}, {}, {}, {})'
      /\ NtJob("nt_del", t, p, x)' /\ Held(p)'
  <2>1. BeginNt("nt_del", t) /\ x \in Texts \cup {None}
    BY <1>1, <1>2
  <2> HIDE DEF t
  <2> QED BY <1>1, <1>2, <2>1, NtBeginsInPlace
<1>4. NtToFree(L, p)'
  BY <1>1, <1>3 DEF NtToFree
<1>5. NtStage(L)'
  BY <1>4 DEF NtStage
<1> QED BY <1>1, <1>3, <1>5, NtBegun

(* What a place reads with a write due, in the next state. *)
LEMMA OverSame ==
  ASSUME NEW p, NEW at, NEW y, NEW n, NEW f, f = FileAt(p), FileAt(p)' = FileAt(p)
  PROVE  /\ FirstBytes(Over(FileAt(p), at, y), n)' = FirstBytes(Over(f, at, y), n)
         /\ FirstBytes(FileAt(p), n)' = FirstBytes(f, n)
<1>1. /\ FirstBytes(Over(FileAt(p), at, y), n)' = FirstBytes(Over(FileAt(p)', at, y), n)
      /\ FirstBytes(FileAt(p), n)' = FirstBytes(FileAt(p)', n)
  BY DEF FirstBytes, Over
<1> QED BY <1>1

(* nt_update() in place keeps the invariant, for a client that goes on with *)
(* the address it has.                                                      *)
LEMMA NtInPlaceKeeps ==
  ASSUME NEW K, K = Kept, Roomy, Shape, Marks, NtShape, AtRest(K), own = due, ~strayed',
         NEW p \in Places, NEW x \in Data, nt_update_in_place(x, p)
  PROVE  NtFine'
<1>1. PICK L : L = Kept'
  OBVIOUS
<1> DEFINE t == <<Bytes(p, 0, x), SetSize(p, Len(x))>>
<1>2. /\ Held(p) /\ BeginNt("nt_replace", t) /\ Promise(p, x)
      /\ UNCHANGED <<pools, own>>
  BY DEF nt_update_in_place
<1> HIDE DEF t
<1>3. x \in Texts
  BY TextsOfData
<1>4. /\ Shape' /\ Marks' /\ NtShape' /\ Store(L, {}, {}, {}, {}, {})'
      /\ NtJob("nt_replace", t, p, x)' /\ Held(p)' /\ FileAt(p)' = FileAt(p)
  BY <1>1, <1>2, <1>3, NtBeginsInPlace
<1>5. FirstBytes(Over(FileAt(p), 0, x), Len(x))' = x
  <2>1. PICK f \in Texts : f = FileAt(p)
    BY PlaceParts, PoolParts DEF FileAt
  <2>2. FirstBytes(Over(f, 0, x), Len(x)) = x
    BY <1>3, <2>1, WholeFacts
  <2>3. PICK n : n = Len(x)
    OBVIOUS
  <2>4. FirstBytes(Over(FileAt(p), 0, x), n)' = FirstBytes(Over(f, 0, x), n)
    BY <1>4, <2>1, OverSame
  <2> QED BY <2>2, <2>3, <2>4
<1>6. NtToEdit(L, "nt_replace", p, x, 0, x)'
  BY <1>3, <1>4, <1>5, Constants DEF NtToEdit, t
<1>7. "nt_replace" \in NtEditCalls
  BY DEF NtEditCalls
<1>8. NtStage(L)'
  BY <1>3, <1>4, <1>6, <1>7, NtPlacedToEdit
<1> QED BY <1>1, <1>4, <1>8, NtBegun

(* nt_del() of a part keeps the invariant.                                  *)
LEMMA NtEraseKeeps ==
  ASSUME NEW K, K = Kept, Roomy, Shape, Marks, NtShape, AtRest(K), own = due, ~hurt,
         NEW p \in Places, NEW off \in Offsets, NEW size \in Counts, nt_erase(p, off, size)
  PROVE  NtFine'
<1>1. PICK L : L = Kept'
  OBVIOUS
<1>2. K[p] # None
  BY KeptSame DEF nt_erase, Held
<1>3. SizeAt(p) # None
  BY <1>2 DEF AtRest, Store, Others
<1>4. PICK f \in Texts : f = FileAt(p)
  BY PlaceParts, PoolParts DEF FileAt
<1>5. PICK n \in Nat : n = SizeAt(p)
  BY <1>3, PlaceParts, PoolParts DEF SizeAt, PoolStates
<1>6. off \in 0..n /\ size \in Nat \ {0}
  BY <1>5, StoreAssumption DEF nt_erase
<1>7. PICK k : k = Erased(n, off, size)
  OBVIOUS
<1>8. PICK tail : tail = SubSeq(FirstBytes(f, n), off + k + 1, n)
  OBVIOUS
<1>9. PICK x : x = SubSeq(FirstBytes(f, n), 1, off)
                   \o SubSeq(FirstBytes(f, n), off + size + 1, n)
  OBVIOUS
<1>10. /\ n - k \in Nat /\ x \in Texts /\ tail \in Texts
       /\ tail = << >> => FirstBytes(f, n - k) = x
       /\ tail # << >> => FirstBytes(Over(f, off, tail), n - k) = x
  BY <1>6, <1>7, <1>8, <1>9, ErasedFacts
<1>11. BytesAt(p) = FirstBytes(f, n)
  BY <1>4, <1>5, BytesAre
<1>12. Remaining(p, off, size) = x
  BY <1>5, <1>9, <1>11 DEF Remaining
<1>13. PICK m \in Nat : m = n - k
  BY <1>10
<1>14. EraseSteps(p, off, size) =
         (IF tail = << >> THEN << >> ELSE <<Bytes(p, off, tail)>>) \o <<SetSize(p, m)>>
  BY <1>5, <1>7, <1>8, <1>11, <1>13 DEF EraseSteps
<1>15. PICK t : t = EraseSteps(p, off, size)
  OBVIOUS
<1>16. /\ Held(p) /\ BeginNt("nt_erase", t) /\ Promise(p, x)
       /\ UNCHANGED <<pools, own>>
  BY <1>12, <1>15 DEF nt_erase
<1>17. /\ Shape' /\ Marks' /\ NtShape' /\ Store(L, {}, {}, {}, {}, {})'
       /\ NtJob("nt_erase", t, p, x)' /\ Held(p)' /\ FileAt(p)' = FileAt(p)
  BY <1>1, <1>10, <1>16, NtBeginsInPlace
<1>18. off \in Nat
  BY <1>6
<1>19. "nt_erase" \in NtEditCalls
  BY DEF NtEditCalls
<1>20. /\ FirstBytes(Over(FileAt(p), off, tail), m)' = FirstBytes(Over(f, off, tail), m)
       /\ FirstBytes(FileAt(p), m)' = FirstBytes(f, m)
  BY <1>4, <1>17, OverSame
<1>21. CASE tail = << >>
  <2>1. FirstBytes(f, m) = x
    BY <1>10, <1>13, <1>21
  <2>2. Len(x) = m
    BY <2>1, FirstFacts
  <2>3. t = <<SetSize(p, Len(x))>>
    BY <1>14, <1>15, <1>21, <2>2, Joined
  <2>4. FirstBytes(FileAt(p), Len(x))' = x
    BY <1>20, <2>1, <2>2
  <2>5. NtToResize(L, "nt_erase", p, x)'
    BY <1>17, <2>3, <2>4 DEF NtToResize
  <2>6. NtStage(L)'
    BY <1>10, <1>17, <1>19, <2>5, NtPlaced
  <2> QED BY <1>1, <1>17, <2>6, NtBegun
<1>22. CASE tail # << >>
  <2>1. FirstBytes(Over(f, off, tail), m) = x
    BY <1>10, <1>13, <1>22
  <2>2. Len(x) = m
    <3>1. PICK g \in Texts : g = Over(f, off, tail)
      BY <1>10, <1>18, OverFacts
    <3> QED BY <2>1, <3>1, FirstFacts
  <2>3. t = <<Bytes(p, off, tail), SetSize(p, Len(x))>>
    BY <1>14, <1>15, <1>22, <2>2, Joined
  <2>4. FirstBytes(Over(FileAt(p), off, tail), Len(x))' = x
    BY <1>20, <2>1, <2>2
  <2>5. NtToEdit(L, "nt_erase", p, x, off, tail)'
    BY <1>10, <1>17, <1>18, <2>3, <2>4 DEF NtToEdit
  <2>6. NtStage(L)'
    BY <1>10, <1>17, <1>19, <2>5, NtPlacedToEdit
  <2> QED BY <1>1, <1>17, <2>6, NtBegun
<1> QED BY <1>21, <1>22

(* The calls that move a datum are refused, or leave a wrong address. *)
LEMMA NtMovesKeep ==
  ASSUME NEW K, K = Kept, Roomy, Shape, Marks, NtShape, AtRest(K), own = due, ~strayed',
         NEW p, NEW x, NEW off, NEW mem,
         nt_update_moving(x, p, mem) \/ nt_insert(x, p, off, mem) \/ nt_refuse(p)
  PROVE  NtFine'
<1>1. \E e : ThrowNt(e)
  <2>1. CASE nt_update_moving(x, p, mem)
    BY <2>1 DEF nt_update_moving
  <2>2. CASE nt_insert(x, p, off, mem)
    BY <2>2 DEF nt_insert
  <2>3. CASE nt_refuse(p)
    BY <2>3 DEF nt_refuse
  <2> QED BY <2>1, <2>2, <2>3
<1> QED BY <1>1, NtRefused

(* Between calls there is nothing under way. *)
LEMMA NtIdle ==
  ASSUME NEW K, Shape, AnyStage(K), Idle
  PROVE  AtRest(K) /\ own = due
<1>1. ~NtStage(K)
  BY NtRestartable
<1>2. Stage(K) /\ own = due
  BY <1>1 DEF AnyStage
<1> QED BY <1>2, IdleAtRest

(* Each nt_ call. *)
LEMMA NtCallKeeps ==
  ASSUME NEW K, K = Kept, Roomy, Shape, Marks, NtShape, AnyStage(K), ~hurt, ~strayed', NtCalls
  PROVE  NtFine'
<1>1. Idle
  <2>1. \A x, mem : nt_put(x, mem) => Idle
    BY DEF nt_put
  <2>2. \A p : nt_refuse(p) \/ nt_del(p) => Idle
    BY DEF nt_refuse, nt_del
  <2>3. \A p, x : nt_update_in_place(x, p) => Idle
    BY DEF nt_update_in_place
  <2>4. \A p, x, mem : nt_update_moving(x, p, mem) => Idle
    BY DEF nt_update_moving
  <2>5. \A p, x, off, mem : nt_insert(x, p, off, mem) => Idle
    BY DEF nt_insert
  <2>6. \A p, off, size : nt_erase(p, off, size) => Idle
    BY DEF nt_erase
  <2> QED BY <2>1, <2>2, <2>3, <2>4, <2>5, <2>6 DEF NtCalls
<1>2. AtRest(K) /\ own = due
  BY <1>1, NtIdle
<1>3. {TRUE, ~MemMayFail} \subseteq BOOLEAN
  BY StoreAssumption
<1>4. ASSUME NEW x \in Data, NEW mem \in BOOLEAN, nt_put(x, mem) PROVE NtFine'
  BY <1>2, <1>4, NtPutKeeps
<1>5. ASSUME NEW p \in Places, nt_del(p) PROVE NtFine'
  BY <1>2, <1>5, NtDelKeeps
<1>6. ASSUME NEW p \in Places, NEW x \in Data, nt_update_in_place(x, p) PROVE NtFine'
  BY <1>2, <1>6, NtInPlaceKeeps
<1>7. ASSUME NEW p, NEW x, NEW off, NEW mem,
             nt_update_moving(x, p, mem) \/ nt_insert(x, p, off, mem) \/ nt_refuse(p)
      PROVE  NtFine'
  BY <1>2, <1>7, NtMovesKeep
<1>8. ASSUME NEW p \in Places, NEW off \in Offsets, NEW size \in Counts, nt_erase(p, off, size)
      PROVE  NtFine'
  BY <1>2, <1>8, NtEraseKeeps
<1> QED BY <1>3, <1>4, <1>5, <1>6, <1>7, <1>8 DEF NtCalls

-----------------------------------------------------------------------------
(* The whole. *)

(* A call on ids, or one of its steps. *)
LEMMA IdsKeep ==
  ASSUME NEW K, K = Kept, NtShape, own = due, own' = own, due' = own, BInv(K)'
  PROVE  NtFine'
<1>1. NtShape'
  BY DEF NtShape
<1>2. Kept' = K
  BY DEF Kept
<1>3. AnyStage(K)'
  BY DEF AnyStage, BInv
<1> QED BY <1>1, <1>2, <1>3 DEF NtFine, BInv

(* The initial state. *)
LEMMA NtInitKeeps ==
  ASSUME Roomy, NtInit
  PROVE  NInv
<1>1. own = Nobody /\ due = own
  BY DEF NtInit, Nobody
<1>2. NtShape
  BY <1>1 DEF NtShape, Nobody
<1>3. Kept = Nobody
  BY <1>1, <1>2, KeptSame
<1>4. BInv(Nobody)
  BY InitKeeps DEF NtInit
<1>5. AnyStage(Nobody)
  BY <1>1, <1>4 DEF AnyStage, BInv
<1> QED BY <1>2, <1>3, <1>4, <1>5 DEF NInv, NtFine, BInv

(* A call or a step that completes damages nothing and mends nothing. *)
LEMMA HurtSame ==
  ASSUME Calls \/ Steps
  PROVE  hurt' = hurt
<1>1. \A e : Throw(e) => hurt' = hurt
  BY DEF Throw
<1>2. \A c, i, x, e, t : Begin(c, i, x, e, t) => hurt' = hurt
  BY DEF Begin
<1>3. \A i, b, x, mem : PutNew(i, b, x, mem) => hurt' = hurt
  BY <1>1, <1>2 DEF PutNew
<1>4. \A x, gmem, mem : put(x, gmem, mem) => hurt' = hurt
  BY <1>1, <1>3 DEF put
<1>5. \A x, i, gmem, mem : put_spec(x, i, gmem, mem) => hurt' = hurt
  BY <1>1, <1>3 DEF put_spec
<1>6. ASSUME NEW x, NEW i, NEW off, NEW mem, insert(x, i, off, mem) PROVE hurt' = hurt
  BY <1>1, <1>2, <1>6 DEF insert
<1>7. \A x, i : update_in_place(x, i) => hurt' = hurt
  BY <1>1, <1>2 DEF update_in_place
<1>8. \A x, i, mem : update_moving(x, i, mem) => hurt' = hurt
  BY <1>1, <1>2 DEF update_moving
<1>9. \A i : del(i) \/ refuse(i) => hurt' = hurt
  BY <1>1, <1>2 DEF del, refuse
<1>10. \A i, off, size : erase(i, off, size) => hurt' = hurt
  BY <1>1, <1>2 DEF erase
<1>11. Calls => hurt' = hurt
  BY <1>4, <1>5, <1>6, <1>7, <1>8, <1>9, <1>10 DEF Calls
<1>12. Steps => hurt' = hurt
  BY DEF Steps, WriteBytes, CommitSize, ReleaseChunk, CommitId, ReleaseId, Advance
<1> QED BY <1>11, <1>12

(* Neither history is ever taken back. *)
LEMMA QuietBefore ==
  ASSUME [NtNext]_allVars, Quiet'
  PROVE  Quiet
<1>1. ~strayed' /\ ~hurt'
  BY DEF Quiet
<1>2. \A e : Throw(e) => hurt' = hurt
  BY DEF Throw
<1>3. \A c, i, x, e, t : Begin(c, i, x, e, t) => hurt' = hurt
  BY DEF Begin
<1>4. \A e : ThrowNt(e) => hurt' = hurt /\ strayed' = strayed
  BY <1>2 DEF ThrowNt, ntVars
<1>5. \A c, t : BeginNt(c, t) => hurt' = hurt
  BY <1>3 DEF BeginNt
<1>6. CASE NtCalls
  <2>1. \A x, mem : nt_put(x, mem) => hurt' = hurt /\ strayed' = strayed
    BY <1>4, <1>5 DEF nt_put
  <2>2. \A p : nt_refuse(p) \/ nt_del(p) => hurt' = hurt /\ strayed' = strayed
    BY <1>4, <1>5 DEF nt_refuse, nt_del
  <2>3. \A p, x : nt_update_in_place(x, p) => hurt' = hurt /\ strayed' = strayed
    BY <1>1, <1>5 DEF nt_update_in_place
  <2>4. \A p, x, mem : nt_update_moving(x, p, mem) => hurt' = hurt /\ strayed' = strayed
    BY <1>1, <1>4 DEF nt_update_moving
  <2>5. \A p, x, off, mem : nt_insert(x, p, off, mem) => hurt' = hurt /\ strayed' = strayed
    BY <1>1, <1>4 DEF nt_insert
  <2>6. \A p, off, size : nt_erase(p, off, size) => hurt' = hurt /\ strayed' = strayed
    BY <1>5 DEF nt_erase
  <2>7. hurt' = hurt /\ strayed' = strayed
    BY <1>6, <2>1, <2>2, <2>3, <2>4, <2>5, <2>6 DEF NtCalls
  <2> QED BY <1>1, <2>7 DEF Quiet
<1>7. ASSUME Calls \/ Steps PROVE ~hurt
  BY <1>1, <1>7, HurtSame
<1>8. CASE Calls /\ UNCHANGED ntVars
  BY <1>1, <1>7, <1>8 DEF Quiet, ntVars
<1>9. CASE Step
  BY <1>1, <1>7, <1>9 DEF Quiet, Step
<1>10. CASE BreakOff
  <2>1. Interrupt => ~hurt
    BY <1>1 DEF Interrupt
  <2> QED BY <1>1, <1>10, <2>1 DEF Quiet, BreakOff, WriteFails, Crash
<1>11. CASE UNCHANGED allVars
  BY <1>1, <1>11 DEF Quiet, allVars, vars, ntVars
<1> QED BY <1>6, <1>8, <1>9, <1>10, <1>11 DEF NtNext

(* A step with nothing to it. *)
LEMMA NtStuttering ==
  ASSUME NEW K, K = Kept, Shape, Marks, NtShape, AnyStage(K), UNCHANGED allVars
  PROVE  NtFine'
<1>1. UNCHANGED vars /\ UNCHANGED <<own, due>>
  BY DEF allVars, ntVars
<1>2. UNCHANGED <<gids, pools, file, job, out, want, hurt, crashes>>
  BY <1>1 DEF vars
<1>3. Shape' /\ Marks' /\ NtShape' /\ Kept' = K
  BY <1>1, <1>2 DEF Shape, Marks, NtShape, Kept
<1>4. CASE Stage(K) /\ own = due
  <2>1. BInv(K)'
    BY <1>1, <1>4, NothingKeeps DEF BInv
  <2>2. AnyStage(K)'
    BY <1>1, <1>4, <2>1 DEF AnyStage, BInv
  <2> QED BY <1>3, <2>2 DEF NtFine
<1>5. CASE NtStage(K)
  <2>1. PICK p \in Places :
           \/ NtToFree(K, p)
           \/ \E x \in Texts :
                \/ NtToWrite(K, p, x)
                \/ NtToSize(K, p, x)
                \/ \E c \in NtEditCalls : \/ NtToResize(K, c, p, x)
                                          \/ \E at, y : NtToEdit(K, c, p, x, at, y)
    BY <1>5, NtPlaces
  <2>2. \A S, T, O, F, H : Store(K, S, T, O, F, H) => Store(K, S, T, O, F, H)'
    BY <1>1, SameStore
  <2>3. \A c, t, x : NtJob(c, t, p, x) => NtJob(c, t, p, x)'
    BY <1>1, <1>2 DEF NtJob, JobIs
  <2>4. SizeAt(p)' = SizeAt(p) /\ FileAt(p)' = FileAt(p) /\ (Held(p)' <=> Held(p))
    BY <1>1, <1>2 DEF SizeAt, FileAt, Held
  <2>5. ASSUME NtToFree(K, p) PROVE NtStage(K)'
    <3>1. NtToFree(K, p)'
      BY <2>2, <2>3, <2>4, <2>5 DEF NtToFree
    <3> QED BY <3>1 DEF NtStage
  <2>6. ASSUME NEW x \in Texts, NtToWrite(K, p, x) PROVE NtStage(K)'
    <3>1. NtToWrite(K, p, x)'
      BY <1>1, <2>2, <2>3, <2>4, <2>6 DEF NtToWrite
    <3> QED BY <1>3, <3>1, NtPlaced DEF NtPutting
  <2>7. ASSUME NEW x \in Texts, NtToSize(K, p, x) PROVE NtStage(K)'
    <3>1. NtToSize(K, p, x)'
      BY <1>1, <2>2, <2>3, <2>4, <2>7 DEF NtToSize
    <3> QED BY <1>3, <3>1, NtPlaced DEF NtPutting
  <2>8. ASSUME NEW x \in Texts, NEW c \in NtEditCalls, NtToResize(K, c, p, x)
        PROVE  NtStage(K)'
    <3>1. NtToResize(K, c, p, x)'
      BY <2>2, <2>3, <2>4, <2>8 DEF NtToResize
    <3> QED BY <1>3, <3>1, NtPlaced
  <2>9. ASSUME NEW x \in Texts, NEW c \in NtEditCalls, NEW at, NEW y,
               NtToEdit(K, c, p, x, at, y)
        PROVE  NtStage(K)'
    <3>1. PICK f, n : f = FileAt(p) /\ n = Len(x)
      OBVIOUS
    <3>2. FirstBytes(Over(FileAt(p), at, y), n)' = FirstBytes(Over(f, at, y), n)
      BY <2>4, <3>1, OverSame
    <3>3. NtToEdit(K, c, p, x, at, y)'
      BY <2>2, <2>3, <2>4, <2>9, <3>1, <3>2 DEF NtToEdit
    <3> QED BY <1>3, <3>3, NtPlacedToEdit
  <2>10. NtStage(K)'
    BY <2>1, <2>5, <2>6, <2>7, <2>8, <2>9
  <2> QED BY <1>3, <2>10 DEF NtFine, AnyStage
<1> QED BY <1>4, <1>5 DEF AnyStage

(* Every step keeps the invariant. *)
LEMMA NtNextKeeps ==
  ASSUME Roomy, NInv, [NtNext]_allVars
  PROVE  NInv'
<1> SUFFICES ASSUME Quiet' PROVE NtFine'
  BY DEF NInv
<1>1. ~hurt /\ ~strayed' /\ NtFine
  BY QuietBefore DEF NInv, Quiet
<1>2. PICK K : K = Kept
  OBVIOUS
<1>3. Shape /\ Marks /\ NtShape /\ AnyStage(K)
  BY <1>1, <1>2 DEF NtFine
<1>4. CASE NtCalls
  BY <1>1, <1>2, <1>3, <1>4, NtCallKeeps
<1>5. CASE Calls /\ UNCHANGED ntVars
  <2>1. AtRest(K) /\ own = due
    BY <1>3, <1>5, CallsWait, NtIdle
  <2>2. BInv(K)
    BY <1>3, <2>1 DEF BInv, Stage
  <2>3. BInv(K)' /\ own' = own /\ due' = own
    BY <1>5, <2>1, <2>2, CallKeeps DEF ntVars
  <2> QED BY <1>2, <1>3, <2>1, <2>3, IdsKeep
<1>6. CASE Step
  <2>1. CASE NtStage(K)
    BY <1>1, <1>2, <1>3, <1>6, <2>1, NtStepKeeps
  <2>2. CASE Stage(K) /\ own = due
    <3>1. BInv(K)'
      BY <1>3, <1>6, <2>2, StepKeeps DEF BInv, Step
    <3>2. Kept = own
      BY <1>3, <2>2, KeptSame
    <3>3. own' = own /\ due' = own
      BY <1>6, <2>2, <3>2 DEF Step
    <3> QED BY <1>2, <1>3, <2>2, <3>1, <3>3, IdsKeep
  <2> QED BY <1>3, <2>1, <2>2 DEF AnyStage
<1>7. CASE BreakOff
  BY <1>1, <1>2, <1>3, <1>7, BreakKeeps
<1>8. CASE UNCHANGED allVars
  BY <1>2, <1>3, <1>8, NtStuttering
<1> QED BY <1>4, <1>5, <1>6, <1>7, <1>8 DEF NtNext

(* As long as no client has gone on with a wrong address that an nt_ call   *)
(* returned, and no interruption has damaged an id, the state is one of     *)
(* those listed, whatever calls of both kinds, failing writes and restarts  *)
(* have come before.                                                        *)
THEOREM NtInvariance ==
  ASSUME Roomy
  PROVE  NtSpec => []NInv
<1>1. NtInit => NInv
  BY NtInitKeeps
<1>2. NInv /\ [NtNext]_allVars => NInv'
  BY NtNextKeeps
<1> QED BY <1>1, <1>2, PTL DEF NtSpec

-----------------------------------------------------------------------------
(* What follows. *)

(* Any stage is one a restart recovers from. *)
LEMMA NtRecovers ==
  ASSUME NtFine
  PROVE  \E K \in {Kept} : Shape /\ Recoverable(K) /\ (Idle => AtRest(K))
<1>1. PICK K : K = Kept
  OBVIOUS
<1>2. Shape /\ AnyStage(K)
  BY <1>1 DEF NtFine
<1>3. Recoverable(K)
  BY <1>2, StageRestartable, NtRestartable DEF AnyStage, Restartable
<1> QED BY <1>1, <1>2, <1>3, NtIdle

(* What the holders of addresses read follows from the invariant.           *)
LEMMA NtReadsFollow ==
  ASSUME NInv
  PROVE  NtReadsBack
<1> SUFFICES ASSUME Quiet, NEW p \in Places, Held(p), own[p] # Unsure, own[p] = due[p]
             PROVE  Acquired(p) /\ SizeAt(p) # None /\ BytesAt(p) = own[p]
  BY DEF NtReadsBack, Quiet
<1>1. NtFine /\ NtShape /\ ~hurt
  BY DEF NInv, NtFine, Quiet
<1>2. PICK K : K = Kept /\ Recoverable(K)
  BY <1>1, NtRecovers
<1>3. K[p] = own[p]
  BY <1>2 DEF Kept
<1>4. own[p] \in Texts
  BY <1>1 DEF NtShape, Held
<1>5. PICK S, T, O, F, H : Store(K, S, T, O, F, H)
  BY <1>2 DEF Recoverable
<1>6. Others(K, F) /\ Matches(S, T)
  BY <1>1, <1>5 DEF Store
<1>7. K[p] # None
  BY <1>3 DEF Held
<1>8. SizeAt(p) # None /\ BytesAt(p) = K[p]
  BY <1>3, <1>4, <1>6, <1>7 DEF Others
<1>9. Acquired(p)
  BY <1>6, <1>8 DEF Matches
<1> QED BY <1>3, <1>8, <1>9

(* That the ids are undisturbed follows from the invariant.                 *)
LEMMA NtIdsFollow ==
  ASSUME Roomy, NInv
  PROVE  IdsUndisturbed
<1> SUFFICES ASSUME Quiet
             PROVE  ReadsBack /\ \A id \in Ids : HasRow(id) => ~Held(PlaceOf(id))
  BY DEF IdsUndisturbed, Quiet
<1>1. NtFine /\ ~hurt
  BY DEF NInv, Quiet
<1>2. PICK K : K = Kept /\ Shape /\ Recoverable(K)
  BY <1>1, NtRecovers
<1>3. ReadsBack
  BY <1>2, ReadsFollow
<1>4. PICK S, T, O, F, H : Store(K, S, T, O, F, H)
  BY <1>2 DEF Recoverable
<1>5. Others(K, F)
  BY <1>1, <1>4 DEF Store
<1>6. ASSUME NEW i \in Ids, HasRow(i), Held(PlaceOf(i)) PROVE FALSE
  <2>1. PICK r \in Places : r = PlaceOf(i)
    BY <1>2, <1>6, RowFacts
  <2>2. K[r] # None
    <3>1. K[r] = IF own[r] \in {due[r], None} THEN own[r] ELSE Unsure
      BY <1>2 DEF Kept
    <3> QED BY <1>6, <2>1, <3>1, Distinct DEF Held
  <2>3. ~LeadsTo(i, r)
    BY <1>5, <2>2 DEF Others
  <2> QED BY <1>6, <2>1, <2>3 DEF LeadsTo
<1> QED BY <1>3, <1>6

(* That every chunk in use has an owner follows from the invariant.         *)
LEMMA NtOwnersFollow ==
  ASSUME NInv
  PROVE  ChunksOwned
<1> SUFFICES ASSUME Idle, Quiet, crashes = 0, NEW p \in Places, Acquired(p), ~Held(p)
             PROVE  \E id \in Ids : HasRow(id) /\ PlaceOf(id) = p
  BY DEF ChunksOwned, Quiet
<1>1. NtFine
  BY DEF NInv
<1>2. PICK K : K = Kept /\ AtRest(K)
  BY <1>1, NtRecovers
<1>3. K[p] = None
  <2>1. K[p] = IF own[p] \in {due[p], None} THEN own[p] ELSE Unsure
    BY <1>2 DEF Kept
  <2> QED BY <2>1 DEF Held
<1>4. Store(K, {}, {}, {}, {}, {})
  BY <1>2 DEF AtRest
<1>5. SizeAt(p) # None
  BY <1>4 DEF Store, Matches
<1>6. \E i \in Ids : LeadsTo(i, p)
  BY <1>3, <1>4, <1>5 DEF Store, Structure, Clean
<1> QED BY <1>6 DEF LeadsTo

(* As long as no client has gone on with a wrong address and no id is       *)
(* damaged, an address a client holds reads back, to the byte, what the     *)
(* completed calls of that client made of it: calls on ids, crashes, failed *)
(* writes and restarts in between do not touch it.                          *)
THEOREM AddressesReadBack ==
  ASSUME Roomy
  PROVE  NtSpec => []NtReadsBack
<1>1. NInv => NtReadsBack
  BY NtReadsFollow
<1> QED BY <1>1, NtInvariance, PTL

(* Under the same condition the nt_ calls do not touch the data of ids, and *)
(* no id leads to a chunk whose address a client holds.                     *)
THEOREM IdsKeptApart ==
  ASSUME Roomy
  PROVE  NtSpec => []IdsUndisturbed
<1>1. NInv => IdsUndisturbed
  BY NtIdsFollow
<1> QED BY <1>1, NtInvariance, PTL

(* Until a client takes a wrong address or a crash interrupts a call, every *)
(* chunk in use between calls belongs to an id or to the holder of its      *)
(* address: mixing the two kinds of call leaks nothing.                     *)
THEOREM ChunksHaveOwners ==
  ASSUME Roomy
  PROVE  NtSpec => []ChunksOwned
<1>1. NInv => ChunksOwned
  BY NtOwnersFollow
<1> QED BY <1>1, NtInvariance, PTL
=============================================================================

--------------------------- MODULE IdTableProofs ---------------------------
(***************************************************************************)
(* Facts about the bitmap allocator of IdTable, for every bitmap and every *)
(* range: what Acquire(), Acquire(id), Release() and next_used() return    *)
(* and preserve.  IdPoolProofs and IdWalkProofs rest on them.              *)
(***************************************************************************)
EXTENDS IdTable, TLAPS

(* Clearing a bit inside the bitmap, and moving max_used_ past it. *)
LEMMA HoldFacts ==
  ASSUME NEW b \in Bitmaps, b.top <= b.size, NEW o \in Offs, o < b.size
  PROVE  LET c == Hold(b, o)
         IN  /\ c \in Bitmaps
             /\ c.used = b.used \cup {o}
             /\ c.size = b.size
             /\ c.top <= c.size
             /\ b.top <= c.top
             /\ o < c.top
<1> DEFINE c == Hold(b, o)
           n == IF o >= b.top THEN o + 1 ELSE b.top
<1>1. /\ b.size \in 1..Cap /\ b.top \in 0..Cap /\ b.used \subseteq Offs
      /\ o \in Nat /\ o + 1 <= Cap
  BY TableAssumption DEF Bitmaps, Offs
<1>2. n \in 0..Cap /\ n <= b.size /\ b.top <= n /\ o < n
  BY <1>1, TableAssumption
<1>3. c = [[b EXCEPT !.used = b.used \cup {o}] EXCEPT !.top = n]
  BY DEF Hold
<1> HIDE DEF n
<1>4. c \in Bitmaps /\ c.used = b.used \cup {o} /\ c.size = b.size /\ c.top = n
  BY <1>1, <1>2, <1>3 DEF Bitmaps
<1> QED BY <1>2, <1>4

(* Acquire() returns an offset that was free and keeps the bitmap sound. *)
LEMMA AcquireFacts ==
  ASSUME NEW b \in Bitmaps, b.top <= b.size,
         NEW mem \in BOOLEAN, NEW o \in Grants(b, mem)
  PROVE  LET c == AfterAcquire(b, mem, o)
         IN  /\ c \in Bitmaps
             /\ o \in Offs \ b.used
             /\ c.used = b.used \cup {o}
             /\ c.top <= c.size
             /\ b.top <= c.top
             /\ o < c.top
             /\ b.size <= c.size
             /\ o < c.size
<1> DEFINE r == Room(b, mem)
<1>1. /\ b.size \in 1..Cap /\ b.top \in 0..Cap /\ b.used \subseteq Offs
  BY DEF Bitmaps
<1>2. CanExtend(b, mem) => GrownSize(b) \in 1..Cap /\ b.size <= GrownSize(b)
  BY <1>1, TableAssumption DEF CanExtend, GrownSize
<1>3. /\ r \in Bitmaps
      /\ r.used = b.used
      /\ r.top = b.top
      /\ b.size <= r.size
  BY <1>1, <1>2 DEF Room, Extend, Bitmaps
<1>4. o \in Free(r)
  BY DEF Grants, Choice, First, Above
<1> HIDE DEF r
<1>5. r.size \in 1..Cap
  BY <1>3 DEF Bitmaps
<1>6. o \in Offs /\ o < r.size /\ o \notin b.used
  BY <1>3, <1>4, <1>5, TableAssumption DEF Free, Offs
<1>7. r.top <= r.size
  BY <1>1, <1>3, <1>5
<1>8. AfterAcquire(b, mem, o) = Hold(r, o)
  BY DEF AfterAcquire, r
<1> QED BY <1>3, <1>6, <1>7, <1>8, HoldFacts

(* So does Acquire(id), whatever extension it needs. *)
LEMMA AcquireAtFacts ==
  ASSUME NEW b \in Bitmaps, b.top <= b.size, NEW o \in Offs
  PROVE  LET c == AfterAcquireAt(b, o)
         IN  /\ c \in Bitmaps
             /\ c.used = b.used \cup {o}
             /\ c.top <= c.size
             /\ b.top <= c.top
             /\ o < c.top
             /\ b.size <= c.size
             /\ o < c.size
<1> DEFINE r == ExtendTo(b, o + 1)
<1>1. /\ b.size \in 1..Cap /\ b.top \in 0..Cap /\ o \in Nat /\ o + 1 <= Cap
  BY TableAssumption DEF Bitmaps, Offs
<1>2. /\ r \in Bitmaps
      /\ r.used = b.used
      /\ r.top = b.top
      /\ r.size = IF o + 1 > b.size THEN o + 1 ELSE b.size
  BY <1>1, TableAssumption DEF ExtendTo, Bitmaps
<1>3. AfterAcquireAt(b, o) = Hold(r, o)
  BY DEF AfterAcquireAt
<1> HIDE DEF r
<1>4. o < r.size /\ r.top <= r.size /\ b.size <= r.size
  BY <1>1, <1>2
<1> QED BY <1>2, <1>3, <1>4, HoldFacts

(* Release() sets one bit and moves neither the size nor max_used_. *)
LEMMA LetGoFacts ==
  ASSUME NEW b \in Bitmaps, NEW o
  PROVE  /\ LetGo(b, o) \in Bitmaps
         /\ LetGo(b, o).used = b.used \ {o}
         /\ LetGo(b, o).top = b.top
         /\ LetGo(b, o).size = b.size
BY DEF Bitmaps, LetGo
=============================================================================

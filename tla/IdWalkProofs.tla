---------------------------- MODULE IdWalkProofs ----------------------------
(***************************************************************************)
(* IdWalk for every range of ids: a walk skips nothing, strands nowhere    *)
(* and goes forward, and full() says what put() will find.                 *)
(***************************************************************************)
EXTENDS IdWalk, IdTableProofs, Numbers

(* The mark and the bitmap reach beyond every id in use, the bitmap also    *)
(* past where the walk stands, and what the walk has passed it has seen.   *)
WInv ==
  /\ TypeOK
  /\ bm.top <= bm.size
  /\ \A o \in bm.used : o < bm.top
  /\ stayed \subseteq UsedIds(bm)
  /\ NothingSkipped
  /\ NeverStrands

-----------------------------------------------------------------------------
(* Ids and offsets. *)
LEMMA IdFacts ==
  ASSUME NEW b \in Bitmaps
  PROVE  /\ Beg \in Nat /\ Cap \in Nat /\ Cap > 0 /\ End = Beg + Cap
         /\ None \notin Int
         /\ UsedIds(b) \subseteq Ids
         /\ \A i \in Ids : i \in Nat /\ Beg <= i /\ i < End
         /\ \A i \in UsedIds(b) : i - Beg \in b.used
<1>1. Beg \in Nat /\ Cap \in Nat /\ Cap > 0 /\ b.used \subseteq 0..(Cap - 1)
  BY WalkAssumption, TableAssumption DEF Bitmaps, Offs
<1>2. End = Beg + Cap /\ None \notin Int
  BY WalkAssumption DEF End
<1>3. \A i \in Ids : i \in Nat /\ Beg <= i /\ i < End
  BY <1>1, <1>2 DEF Ids
<1>4. ASSUME NEW o \in b.used
      PROVE  Beg + o \in Ids /\ (Beg + o) - Beg = o
  BY <1>1, <1>2 DEF Ids
<1> QED BY <1>1, <1>2, <1>3, <1>4 DEF UsedIds

(* next_used() returns the end of the range or the nearest id in use. *)
LEMMA NextUsedFacts ==
  ASSUME NEW b \in Bitmaps, NEW id, NEW n \in NextUsed(b, id)
  PROVE  /\ n = End \/ (n \in UsedIds(b) /\ id <= n)
         /\ \A i \in UsedIds(b) : id <= i => n <= i
<1>1. CASE From(b, id) = {}
  <2>1. n = End
    BY <1>1 DEF NextUsed
  <2>2. ASSUME NEW i \in UsedIds(b), id <= i PROVE FALSE
    BY <1>1, <2>2 DEF From
  <2> QED BY <2>1, <2>2
<1>2. CASE From(b, id) # {}
  BY <1>2 DEF NextUsed, From, First
<1> QED BY <1>1, <1>2

(* An empty table and no walk. *)
LEMMA InitWInv == Init => WInv
<1> SUFFICES ASSUME Init PROVE WInv
  OBVIOUS
<1>1. bm = Fresh /\ cur = None /\ seen = {} /\ stayed = {}
  BY DEF Init
<1>2. Fresh \in Bitmaps /\ Fresh.used = {} /\ Fresh.top <= Fresh.size
  BY TableAssumption DEF Fresh, Bitmaps
<1>3. TypeOK
  BY <1>1, <1>2 DEF TypeOK
<1>4. cur \notin Ids
  BY <1>1, <1>2, IdFacts
<1> QED BY <1>1, <1>2, <1>3, <1>4 DEF WInv, NothingSkipped, NeverStrands

(* Where a step of the walk lands. *)
LEMMA LandsWell ==
  ASSUME WInv, NEW id \in Nat, NEW n \in NextUsed(bm, id)
  PROVE  /\ n \in Ids \cup {End}
         /\ n \in Int
         /\ n # End => n \in Ids /\ id <= n /\ n + 1 - Beg <= bm.size
         /\ \A i \in stayed : id <= i => n <= i
<1>1. bm \in Bitmaps /\ stayed \subseteq UsedIds(bm)
  BY DEF WInv, TypeOK
<1>2. /\ n = End \/ (n \in UsedIds(bm) /\ id <= n)
      /\ \A i \in UsedIds(bm) : id <= i => n <= i
  BY <1>1, NextUsedFacts
<1>3. CASE n = End
  <2>1. End \in Int
    BY <1>1, IdFacts
  <2>2. \A i \in stayed : id <= i => n <= i
    BY <1>1, <1>2
  <2> QED BY <1>3, <2>1, <2>2
<1>4. CASE n # End
  <2>1. n \in UsedIds(bm) /\ id <= n /\ n \in Ids
    BY <1>1, <1>2, <1>4, IdFacts
  <2>2. n - Beg \in bm.used /\ n \in Nat /\ Beg \in Nat
    BY <1>1, <2>1, IdFacts
  <2>3. n - Beg < bm.size /\ bm.size \in Nat
    <3>1. n - Beg < bm.top /\ bm.top <= bm.size
      BY <2>2 DEF WInv
    <3>2. bm.top \in 0..Cap /\ bm.size \in 1..Cap /\ Cap \in Nat
      BY <1>1, TableAssumption DEF Bitmaps
    <3> QED BY <2>2, <3>1, <3>2
  <2>4. n + 1 - Beg <= bm.size
    BY <2>2, <2>3
  <2>5. \A i \in stayed : id <= i => n <= i
    BY <1>1, <1>2
  <2>6. n \in Int
    BY <2>2
  <2> QED BY <2>1, <2>4, <2>5, <2>6
<1> QED BY <1>3, <1>4

(* begin() starts from the ids in use now. *)
LEMMA BeginKeeps ==
  ASSUME WInv, Begin
  PROVE  WInv'
<1>1. PICK n \in NextUsed(bm, Beg) : cur' = n /\ seen' = {n} \ {End}
  BY DEF Begin
<1>2. bm \in Bitmaps /\ stayed' = UsedIds(bm) /\ bm' = bm
  BY DEF Begin, WInv, TypeOK
<1>3. Beg \in Nat /\ UsedIds(bm) \subseteq Ids
  BY <1>2, IdFacts
<1>4. /\ n \in Ids \cup {End}
      /\ n # End => n + 1 - Beg <= bm.size
  BY <1>1, <1>3, LandsWell
<1>5. TypeOK'
  <2>1. seen' \subseteq Ids /\ stayed' \subseteq Ids
    BY <1>1, <1>2, <1>3, <1>4
  <2> QED BY <1>1, <1>2, <1>4, <2>1 DEF TypeOK
<1>6. NeverStrands'
  <2>1. End \notin Ids
    BY <1>2, IdFacts
  <2> QED BY <1>1, <1>2, <1>4, <2>1 DEF NeverStrands
<1>7. NothingSkipped'
  <2> SUFFICES ASSUME NEW i \in UsedIds(bm), i <= n PROVE i \in seen'
    BY <1>1, <1>2 DEF NothingSkipped
  <2>1. i \in Ids /\ i \in Int /\ Beg <= i /\ i < End /\ i # End
    BY <1>2, IdFacts
  <2>2. n <= i
    BY <1>1, <1>2, <2>1, NextUsedFacts
  <2>3. n \in Int
    BY <1>1, <1>3, LandsWell
  <2>4. i = n
    BY <2>1, <2>2, <2>3
  <2> QED BY <1>1, <2>1, <2>4
<1>8. UsedIds(bm)' = UsedIds(bm)
  BY <1>2
<1> QED BY <1>2, <1>5, <1>6, <1>7, <1>8 DEF WInv

(* operator++ passes only ids that are free, or that came after begin(). *)
LEMMA AdvanceKeeps ==
  ASSUME WInv, Advance
  PROVE  WInv' /\ cur' > cur
<1>1. PICK n \in NextUsed(bm, cur + 1) : cur' = n /\ seen' = (seen \cup {n}) \ {End}
  BY DEF Advance
<1>2. bm \in Bitmaps /\ stayed' = stayed /\ bm' = bm /\ cur \in Ids /\ stayed \subseteq Ids
      /\ stayed \subseteq UsedIds(bm)
  BY DEF Advance, WInv, TypeOK
<1>3. /\ cur \in Nat /\ cur < End /\ cur + 1 \in Nat /\ End \notin Ids /\ End \in Nat
      /\ None \notin Int
  BY <1>2, IdFacts
<1>4. /\ n \in Ids \cup {End} /\ n \in Int
      /\ n # End => n \in Ids /\ cur + 1 <= n /\ n + 1 - Beg <= bm.size
      /\ \A i \in stayed : cur + 1 <= i => n <= i
  BY <1>1, <1>3, LandsWell
<1>5. TypeOK'
  BY <1>1, <1>2, <1>4 DEF WInv, TypeOK
<1>6. NeverStrands'
  BY <1>1, <1>2, <1>3, <1>4 DEF NeverStrands
<1>7. NothingSkipped'
  <2> SUFFICES ASSUME NEW i \in stayed, i <= n PROVE i \in seen'
    BY <1>1, <1>2 DEF NothingSkipped
  <2>1. i \in Ids
    BY <1>2
  <2>2. i \in Int /\ i # End
    <3>1. i # End
      BY <1>3, <2>1
    <3>2. bm \in Bitmaps
      BY <1>2
    <3>3. i \in Nat
      BY <2>1, <3>2, IdFacts
    <3> QED BY <3>1, <3>3
  <2>3. CASE i <= cur
    <3>1. i \in seen
      BY <1>3, <2>3 DEF WInv, NothingSkipped
    <3> QED BY <1>1, <2>2, <3>1
  <2>4. CASE ~(i <= cur)
    <3>1. cur + 1 <= i
      BY <1>3, <2>2, <2>4
    <3>2. i = n
      BY <1>4, <2>2, <3>1
    <3> QED BY <1>1, <2>2, <3>2
  <2> QED BY <2>3, <2>4
<1>8. cur' > cur
  BY <1>1, <1>3, <1>4
<1>9. UsedIds(bm)' = UsedIds(bm)
  BY <1>2
<1> QED BY <1>2, <1>5, <1>6, <1>7, <1>8, <1>9 DEF WInv

(* A put() adds an id, and the bitmap does not shrink. *)
LEMMA GrowKeeps ==
  ASSUME WInv, NEW o \in Offs,
         bm' \in Bitmaps, bm'.used = bm.used \cup {o}, bm'.top <= bm'.size,
         bm.size <= bm'.size, bm.top <= bm'.top, o < bm'.top,
         UNCHANGED <<cur, seen, stayed>>
  PROVE  WInv'
<1>1. /\ bm.size \in Nat /\ bm'.size \in Nat /\ bm.top \in Nat /\ bm'.top \in Nat
      /\ bm.used \subseteq Offs
  BY TableAssumption DEF WInv, TypeOK, Bitmaps
<1>2. \A p \in Offs : p \in Int
  BY TableAssumption DEF Offs
<1>3. \A p \in bm'.used : p < bm'.top
  BY <1>1, <1>2 DEF WInv
<1>4. UsedIds(bm) \subseteq UsedIds(bm)'
  BY DEF UsedIds
<1>5. TypeOK'
  BY DEF WInv, TypeOK
<1>6. NothingSkipped'
  BY DEF WInv, NothingSkipped
<1>7. NeverStrands'
  <2> SUFFICES ASSUME cur \in Ids PROVE cur + 1 - Beg <= bm'.size
    BY DEF NeverStrands
  <2>1. cur + 1 - Beg <= bm.size
    BY DEF WInv, NeverStrands
  <2>2. cur \in Nat /\ Beg \in Nat
    BY IdFacts
  <2> QED BY <1>1, <2>1, <2>2
<1> QED BY <1>3, <1>4, <1>5, <1>6, <1>7 DEF WInv

(* A del() takes the id out of those that stayed. *)
LEMMA DelKeeps ==
  ASSUME WInv, NEW o \in Offs, Del(o)
  PROVE  WInv'
<1>1. bm \in Bitmaps /\ bm' = LetGo(bm, o) /\ stayed' = stayed \ {Beg + o}
      /\ UNCHANGED <<cur, seen>>
  BY DEF Del, WInv, TypeOK
<1>2. /\ bm' \in Bitmaps /\ bm'.used = bm.used \ {o}
      /\ bm'.top = bm.top /\ bm'.size = bm.size
  BY <1>1, LetGoFacts
<1>3. TypeOK'
  BY <1>1, <1>2 DEF WInv, TypeOK
<1>4. stayed' \subseteq UsedIds(bm)'
  BY <1>1, <1>2 DEF WInv, UsedIds
<1>5. NothingSkipped' /\ NeverStrands'
  BY <1>1, <1>2 DEF WInv, NothingSkipped, NeverStrands
<1> QED BY <1>2, <1>3, <1>4, <1>5 DEF WInv

(* Every step keeps the invariant, and a step from an id goes forward. *)
LEMMA StepWInv ==
  ASSUME WInv, [Next]_vars
  PROVE  WInv' /\ (cur' # cur /\ cur \in Ids => cur' > cur)
<1>1. bm \in Bitmaps /\ bm.top <= bm.size
  BY DEF WInv, TypeOK
<1>2. CASE Begin
  <2>1. cur \notin Ids
    BY <1>1, <1>2, IdFacts DEF Begin
  <2> QED BY <1>2, <2>1, BeginKeeps
<1>3. CASE Advance
  BY <1>3, AdvanceKeeps
<1>4. ASSUME NEW mem \in BOOLEAN, Put(mem) PROVE WInv' /\ cur' = cur
  <2>1. PICK o \in Grants(bm, mem) : bm' = AfterAcquire(bm, mem, o)
    BY <1>4 DEF Put
  <2>2. /\ bm' \in Bitmaps /\ o \in Offs /\ bm'.used = bm.used \cup {o}
        /\ bm'.top <= bm'.size /\ bm.size <= bm'.size
        /\ bm.top <= bm'.top /\ o < bm'.top
    BY <1>1, <2>1, AcquireFacts
  <2>3. UNCHANGED <<cur, seen, stayed>>
    BY <1>4 DEF Put
  <2> QED BY <2>2, <2>3, GrowKeeps
<1>5. ASSUME NEW o \in Offs, PutAt(o) PROVE WInv' /\ cur' = cur
  <2>1. bm' = AfterAcquireAt(bm, o) /\ UNCHANGED <<cur, seen, stayed>>
    BY <1>5 DEF PutAt
  <2>2. /\ bm' \in Bitmaps /\ bm'.used = bm.used \cup {o}
        /\ bm'.top <= bm'.size /\ bm.size <= bm'.size
        /\ bm.top <= bm'.top /\ o < bm'.top
    BY <1>1, <2>1, AcquireAtFacts
  <2> QED BY <2>1, <2>2, GrowKeeps
<1>6. ASSUME NEW o \in Offs, Del(o) PROVE WInv' /\ cur' = cur
  BY <1>6, DelKeeps DEF Del
<1>7. CASE UNCHANGED vars
  <2>1. UNCHANGED <<bm, cur, seen, stayed>>
    BY <1>7 DEF vars
  <2> QED BY <2>1 DEF WInv, TypeOK, UsedIds, NothingSkipped, NeverStrands
<1> QED BY <1>2, <1>3, <1>4, <1>5, <1>6, <1>7 DEF Next

-----------------------------------------------------------------------------
(* The invariant holds in every reachable state. *)
THEOREM WalkInvariance == Spec => []WInv
<1>1. WInv /\ [Next]_vars => WInv'
  BY StepWInv
<1> QED BY InitWInv, <1>1, PTL DEF Spec

(* A walk stands on every id that is in use from its begin() to its end(). *)
THEOREM WalkSkipsNothing == Spec => []NothingSkipped
<1>1. WInv => NothingSkipped
  BY DEF WInv
<1> QED BY WalkInvariance, <1>1, PTL

(* next_used() always starts inside the bitmap, or right at its end. *)
THEOREM WalkNeverStrands == Spec => []NeverStrands
<1>1. WInv => NeverStrands
  BY DEF WInv
<1> QED BY WalkInvariance, <1>1, PTL

(* A walk goes forward only. *)
THEOREM WalkGoesForward == Spec => GoesForward
<1>1. WInv /\ [Next]_vars => [cur' # cur /\ cur \in Ids => cur' > cur]_vars
  BY StepWInv
<1> QED BY <1>1, WalkInvariance, PTL DEF Spec, GoesForward

(* A database that calls itself full has no id left, with any beg_. *)
LEMMA WalkFull == WInv => FullMeansFull
<1> SUFFICES ASSUME WInv, ~Avail(bm), NEW mem \in BOOLEAN, NEW o \in Grants(bm, mem)
             PROVE  FALSE
  BY DEF FullMeansFull
<1>1. bm \in Bitmaps /\ bm.top <= bm.size /\ Free(bm) = {} /\ ~(bm.top < End)
  BY DEF WInv, TypeOK, Avail
<1>2. bm.size = Cap
  BY <1>1, IdFacts DEF Bitmaps
<1>3. ~CanExtend(bm, mem)
  BY <1>1, <1>2, TableAssumption DEF CanExtend
<1>4. o \in Choice(bm)
  BY <1>3 DEF Grants, Room
<1>5. Choice(bm) \subseteq Free(bm)
  BY DEF Choice, First, Above
<1> QED BY <1>1, <1>4, <1>5

-----------------------------------------------------------------------------
(* Acquire() finds an offset as soon as one is free, or one can be had by   *)
(* growing.                                                                *)
LEMMA FirstOfSome ==
  ASSUME NEW S \in SUBSET Nat, S # {}
  PROVE  First(S) # {}
BY LeastElement DEF First

(* Acquire() returns an id when one is free or the bitmap can still grow.   *)
LEMMA GrantsSome ==
  ASSUME NEW b \in Bitmaps, Free(b) # {} \/ CanExtend(b, TRUE),
         \A o \in b.used : o < b.size
  PROVE  Grants(b, TRUE) # {}
<1> DEFINE r == Room(b, TRUE)
<1>1. b.size \in 1..Cap /\ b.used \subseteq Offs /\ Cap \in Nat
  BY TableAssumption DEF Bitmaps
<1>2. Free(r) # {}
  <2>1. CASE CanExtend(b, TRUE) /\ Above(b) = {}
    <3>1. r.used = b.used /\ r.size = GrownSize(b)
      BY <2>1 DEF Room, Extend, Bitmaps
    <3>2. GrownSize(b) \in Nat /\ b.size < GrownSize(b)
      BY <1>1, <2>1 DEF CanExtend, GrownSize
    <3>3. b.size \notin b.used
      BY <1>1
    <3>4. b.size \in 0..(GrownSize(b) - 1)
      BY <1>1, <3>2
    <3>5. Free(r) = (0..(GrownSize(b) - 1)) \ b.used
      BY <3>1 DEF Free
    <3>6. b.size \in Free(r)
      BY <3>3, <3>4, <3>5
    <3> QED BY <3>6
  <2>2. CASE ~(CanExtend(b, TRUE) /\ Above(b) = {})
    <3>1. r = b
      BY <2>2 DEF Room
    <3>2. Above(b) \subseteq Free(b)
      BY DEF Above
    <3> QED BY <2>2, <3>1, <3>2
  <2> QED BY <2>1, <2>2
<1>3. Free(r) \subseteq Nat /\ Above(r) \subseteq Free(r)
  <2>1. \A k : 0..k \subseteq Nat
    OBVIOUS
  <2>2. Free(r) \subseteq 0..(r.size - 1)
    BY DEF Free
  <2> QED BY <2>1, <2>2 DEF Above
<1> HIDE DEF r
<1>4. Choice(r) # {}
  <2>1. CASE Above(r) # {}
    <3>1. Above(r) \in SUBSET Nat
      BY <1>3
    <3> QED BY <2>1, <3>1, FirstOfSome DEF Choice
  <2>2. CASE Above(r) = {}
    <3>1. Free(r) \in SUBSET Nat
      BY <1>3
    <3> QED BY <1>2, <2>2, <3>1, FirstOfSome DEF Choice
  <2> QED BY <2>1, <2>2
<1> QED BY <1>4 DEF Grants, r

(* full() is claimed exactly when put() can get no id, for every range that *)
(* begins at 0; and never wrongly, for the others.                         *)
THEOREM FullIsRight == Spec => []FullIsTrue
<1>1. WInv => FullIsTrue
  <2> SUFFICES ASSUME WInv PROVE FullIsTrue
    OBVIOUS
  <2>1. FullMeansFull
    BY WalkFull
  <2>2. ASSUME Beg = 0, Avail(bm) PROVE Grants(bm, TRUE) # {}
    <3>1. /\ bm \in Bitmaps /\ bm.top <= bm.size
          /\ \A o \in bm.used : o < bm.top
      BY DEF WInv, TypeOK
    <3>2. bm.top \in Nat /\ bm.size \in 1..Cap /\ bm.used \subseteq Offs /\ Cap \in Nat
      BY <3>1, TableAssumption DEF Bitmaps
    <3>3. \A o \in bm.used : o < bm.size
      BY <3>1, <3>2 DEF Offs
    <3>4. CASE Free(bm) # {}
      BY <3>1, <3>3, <3>4, GrantsSome
    <3>5. CASE Free(bm) = {}
      <4>1. bm.top < Cap
        <5>1. bm.top < Beg + Cap
          BY <2>2, <3>5 DEF Avail, End
        <5> QED BY <2>2, <3>2, <5>1
      <4>2. bm.size # Cap
        <5>1. SUFFICES ASSUME bm.size = Cap PROVE FALSE
          OBVIOUS
        <5>2. bm.top \in 0..(bm.size - 1)
          BY <3>2, <4>1, <5>1
        <5>3. bm.top \in bm.used
          BY <3>5, <5>2 DEF Free
        <5> QED BY <3>1, <3>2, <5>3
      <4>3. CanExtend(bm, TRUE)
        BY <3>2, <4>2 DEF CanExtend
      <4> QED BY <3>1, <3>3, <4>3, GrantsSome
    <3> QED BY <3>4, <3>5
  <2> QED BY <2>1, <2>2 DEF FullIsTrue
<1> QED BY WalkInvariance, <1>1, PTL

(* The bitmap and the caller's place keep to the range of the pool.         *)
THEOREM WalkTypes == Spec => []TypeOK
<1>1. WInv => TypeOK
  BY DEF WInv
<1> QED BY WalkInvariance, <1>1, PTL
=============================================================================

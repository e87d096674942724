---------------------------- MODULE IdPoolProofs ----------------------------
(***************************************************************************)
(* Proofs about IdPool: its inductive invariant holds in every reachable   *)
(* state, for every range, every set of values and every depth of nesting, *)
(* and the safety properties follow from it.                               *)
(*                                                                         *)
(* First come facts about the log and the stack of handles, each stated    *)
(* for any log or stack; then one lemma per action.                        *)
(***************************************************************************)
EXTENDS MCIdPool, IdTableProofs, Numbers, SequenceTheorems

-----------------------------------------------------------------------------
(* The log. *)

(* Appending to a sequence keeps its elements and adds one at the end. *)
LEMMA AppendFacts ==
  ASSUME NEW S, NEW t \in Seq(S), NEW r \in S
  PROVE  /\ Append(t, r) \in Seq(S)
         /\ Len(Append(t, r)) = Len(t) + 1
         /\ \A i \in 1..Len(t) : Append(t, r)[i] = t[i]
         /\ Append(t, r)[Len(t) + 1] = r
OBVIOUS

(* One more record decides its own offset and leaves every other as it was. *)
LEMMA SaysAppend ==
  ASSUME NEW t \in Seq(Records), NEW r \in Records, NEW o, NEW v
  PROVE  Says(Append(t, r), o, v) <=>
           IF r.off = o THEN r.op = "+" /\ r.val = v ELSE Says(t, o, v)
<1> DEFINE u == Append(t, r)
<1>1. /\ Len(t) \in Nat
      /\ Len(u) = Len(t) + 1
      /\ \A i \in 1..Len(t) : u[i] = t[i]
      /\ u[Len(t) + 1] = r
  BY AppendFacts
<1> HIDE DEF u
<1>2. CASE r.off = o
  BY <1>1, <1>2 DEF Says
<1>3. CASE r.off # o
  <2>1. ASSUME Says(u, o, v) PROVE Says(t, o, v)
    BY <1>1, <1>3, <2>1 DEF Says
  <2>2. ASSUME Says(t, o, v) PROVE Says(u, o, v)
    <3>1. PICK i \in 1..Len(t) : /\ t[i].op = "+" /\ t[i].off = o /\ t[i].val = v
                                 /\ \A j \in (i + 1)..Len(t) : t[j].off # o
      BY <2>2 DEF Says
    <3>2. i \in 1..Len(u) /\ u[i] = t[i]
      BY <1>1
    <3>3. \A j \in (i + 1)..Len(u) : u[j].off # o
      BY <1>1, <1>3, <3>1
    <3> QED BY <3>1, <3>2, <3>3 DEF Says
  <2> QED BY <1>3, <2>1, <2>2 DEF u
<1> QED BY <1>2, <1>3 DEF u

(* A log says at most one value of an offset. *)
LEMMA SaysUnique ==
  ASSUME NEW t \in Seq(Records), NEW o, NEW v, NEW w, Says(t, o, v), Says(t, o, w)
  PROVE  v = w
<1>1. PICK i \in 1..Len(t) : /\ t[i].op = "+" /\ t[i].off = o /\ t[i].val = v
                             /\ \A j \in (i + 1)..Len(t) : t[j].off # o
  BY DEF Says
<1>2. PICK k \in 1..Len(t) : /\ t[k].op = "+" /\ t[k].off = o /\ t[k].val = w
                             /\ \A j \in (k + 1)..Len(t) : t[j].off # o
  BY DEF Says
<1>3. Len(t) \in Nat
  OBVIOUS
<1>4. i = k
  BY <1>1, <1>2, <1>3
<1> QED BY <1>1, <1>2, <1>4

(* What one more record does to the replayed table. *)
LEMMA LogAcquire ==
  ASSUME NEW t \in Seq(Records), NEW o \in Offs, NEW v \in Vals
  PROVE  LET u == Append(t, [op |-> "+", off |-> o, val |-> v])
         IN  /\ Live(u) = Live(t) \cup {o}
             /\ Rows(u) = [Rows(t) EXCEPT ![o] = v]
<1> DEFINE r == [op |-> "+", off |-> o, val |-> v]
           u == Append(t, r)
<1>1. r \in Records
  BY DEF Records
<1>2. \A p, w : Says(u, p, w) <=> IF o = p THEN v = w ELSE Says(t, p, w)
  <2> TAKE p, w
  <2>1. Says(u, p, w) <=> IF r.off = p THEN r.op = "+" /\ r.val = w ELSE Says(t, p, w)
    BY <1>1, SaysAppend
  <2> QED BY <2>1
<1> HIDE DEF u, r
<1>3. Live(u) = Live(t) \cup {o}
  BY <1>2 DEF Live
<1>4. Rows(u) = [Rows(t) EXCEPT ![o] = v]
  <2> SUFFICES ASSUME NEW p \in Offs
               PROVE  Rows(u)[p] = [Rows(t) EXCEPT ![o] = v][p]
    BY DEF Rows
  <2>1. CASE p = o
    <3>1. LastValue(u, p) = v
      BY <1>2, <2>1 DEF LastValue
    <3> QED BY <1>3, <2>1, <3>1 DEF Rows
  <2>2. CASE p # o
    <3>1. \A w : Says(u, p, w) <=> Says(t, p, w)
      BY <1>2, <2>2
    <3>2. LastValue(u, p) = LastValue(t, p)
      BY <3>1 DEF LastValue
    <3>3. [Rows(t) EXCEPT ![o] = v][p] = Rows(t)[p]
      BY <2>2 DEF Rows
    <3>4. p \in Live(u) <=> p \in Live(t)
      BY <1>3, <2>2
    <3>5. Rows(u)[p] = Rows(t)[p]
      BY <3>2, <3>4 DEF Rows
    <3> QED BY <3>3, <3>5
  <2> QED BY <2>1, <2>2
<1> QED BY <1>3, <1>4 DEF u, r

(* A release record takes its offset out of the replayed table. *)
LEMMA LogRelease ==
  ASSUME NEW t \in Seq(Records), NEW o \in Offs
  PROVE  LET u == Append(t, [op |-> "-", off |-> o, val |-> None])
         IN  /\ Live(u) = Live(t) \ {o}
             /\ Rows(u) = [Rows(t) EXCEPT ![o] = None]
<1> DEFINE r == [op |-> "-", off |-> o, val |-> None]
           u == Append(t, r)
<1>1. r \in Records
  BY DEF Records
<1>2. \A p, w : Says(u, p, w) <=> (o # p /\ Says(t, p, w))
  <2> TAKE p, w
  <2>1. Says(u, p, w) <=> IF r.off = p THEN r.op = "+" /\ r.val = w ELSE Says(t, p, w)
    BY <1>1, SaysAppend
  <2> QED BY <2>1
<1> HIDE DEF u, r
<1>3. Live(u) = Live(t) \ {o}
  BY <1>2 DEF Live
<1>4. Rows(u) = [Rows(t) EXCEPT ![o] = None]
  <2> SUFFICES ASSUME NEW p \in Offs
               PROVE  Rows(u)[p] = [Rows(t) EXCEPT ![o] = None][p]
    BY DEF Rows
  <2>1. CASE p = o
    BY <1>3, <2>1 DEF Rows
  <2>2. CASE p # o
    <3>1. \A w : Says(u, p, w) <=> Says(t, p, w)
      BY <1>2, <2>2
    <3>2. LastValue(u, p) = LastValue(t, p)
      BY <3>1 DEF LastValue
    <3>3. [Rows(t) EXCEPT ![o] = None][p] = Rows(t)[p]
      BY <2>2 DEF Rows
    <3>4. p \in Live(u) <=> p \in Live(t)
      BY <1>3, <2>2
    <3>5. Rows(u)[p] = Rows(t)[p]
      BY <3>2, <3>4 DEF Rows
    <3> QED BY <3>3, <3>5
  <2> QED BY <2>1, <2>2
<1> QED BY <1>3, <1>4 DEF u, r

(* The replayed table holds a value exactly for the offsets that are live. *)
LEMMA RowsType ==
  ASSUME NEW t \in Seq(Records)
  PROVE  /\ Rows(t) \in [Offs -> Vals \cup {None}]
         /\ Live(t) \subseteq Offs
         /\ \A o \in Offs : o \in Live(t) <=> Rows(t)[o] # None
<1>1. \A o \in Live(t) : LastValue(t, o) \in Vals
  BY DEF Live, LastValue
<1>2. Live(t) \subseteq Offs
  BY DEF Live
<1> QED BY <1>1, <1>2, PoolAssumption DEF Rows

(* The replay leaves in the array the value of every live row. *)
LEMMA RestoredRows ==
  ASSUME NEW t \in Seq(Records), NEW a \in [Offs -> Vals \cup {None}]
  PROVE  /\ Restored(t, a) \in [Offs -> Vals \cup {None}]
         /\ \A o \in Live(t) : Restored(t, a)[o] = Rows(t)[o]
<1>1. \A o \in Offs : (\E v \in Vals : LeavesValue(t, o, v)) =>
                       ValueLeft(t, o) \in Vals
  BY DEF ValueLeft
<1>2. Restored(t, a) \in [Offs -> Vals \cup {None}]
  BY <1>1 DEF Restored
<1>3. \A o, v, w : Says(t, o, v) /\ LeavesValue(t, o, w) => v = w
  <2> TAKE o, v, w
  <2> HAVE Says(t, o, v) /\ LeavesValue(t, o, w)
  <2>1. PICK i \in 1..Len(t) : /\ t[i].op = "+" /\ t[i].off = o /\ t[i].val = v
                               /\ \A j \in (i + 1)..Len(t) : t[j].off # o
    BY DEF Says
  <2>2. PICK k \in 1..Len(t) : /\ t[k].op = "+" /\ t[k].off = o /\ t[k].val = w
                               /\ \A j \in (k + 1)..Len(t) : t[j].op = "+" => t[j].off # o
    BY DEF LeavesValue
  <2>3. Len(t) \in Nat
    OBVIOUS
  <2>4. i = k
    BY <2>1, <2>2, <2>3
  <2> QED BY <2>1, <2>2, <2>4
<1>4. \A o, v : Says(t, o, v) => LeavesValue(t, o, v)
  BY DEF Says, LeavesValue
<1>5. ASSUME NEW o \in Live(t)
      PROVE  Restored(t, a)[o] = Rows(t)[o]
  <2>1. PICK v \in Vals : Says(t, o, v)
    BY DEF Live
  <2>2. \A w : (Says(t, o, w) <=> w = v) /\ (LeavesValue(t, o, w) <=> w = v)
    BY <2>1, <1>3, <1>4, SaysUnique
  <2>3. LastValue(t, o) = v
    BY <2>1, <2>2 DEF LastValue
  <2>4. ValueLeft(t, o) = v
    BY <2>1, <2>2 DEF ValueLeft
  <2>5. o \in Offs
    BY DEF Live
  <2> QED BY <2>1, <2>2, <2>3, <2>4, <2>5 DEF Restored, Rows
<1> QED BY <1>2, <1>5

-----------------------------------------------------------------------------
(* The handle stack. *)

(* A handle is constructed: an acquisition is pending from then on. *)
LEMMA PushFacts ==
  ASSUME NEW s \in Seq(Handles), NEW h \in Handles
  PROVE  /\ Append(s, h) \in Seq(Handles)
         /\ Len(Append(s, h)) = Len(s) + 1
         /\ \A i \in 1..Len(s) : Append(s, h)[i] = s[i]
         /\ Append(s, h)[Len(s) + 1] = h
         /\ PendingIn(Append(s, h)) =
              PendingIn(s) \cup (IF Pending(h) THEN {h.off} ELSE {})
<1> DEFINE u == Append(s, h)
<1>1. /\ u \in Seq(Handles)
      /\ Len(s) \in Nat
      /\ Len(u) = Len(s) + 1
      /\ \A i \in 1..Len(s) : u[i] = s[i]
      /\ u[Len(s) + 1] = h
  BY AppendFacts
<1> HIDE DEF u
<1>2. 1..Len(u) = (1..Len(s)) \cup {Len(s) + 1}
  BY <1>1
<1>3. PendingIn(u) = PendingIn(s) \cup (IF Pending(h) THEN {h.off} ELSE {})
  BY <1>1, <1>2 DEF PendingIn
<1> QED BY <1>1, <1>3 DEF u

(* The innermost handle changes its phase: only its id may stop pending. *)
LEMMA SetTopFacts ==
  ASSUME NEW s \in Seq(Handles), Len(s) > 0, NEW h \in Handles,
         \A i \in 1..(Len(s) - 1) : Pending(s[i]) => s[i].off # s[Len(s)].off,
         h.op = s[Len(s)].op, h.off = s[Len(s)].off
  PROVE  LET u == [s EXCEPT ![Len(s)] = h]
         IN  /\ u \in Seq(Handles)
             /\ Len(u) = Len(s)
             /\ \A i \in 1..(Len(s) - 1) : u[i] = s[i]
             /\ u[Len(s)] = h
             /\ PendingIn(u) = (PendingIn(s) \ {h.off})
                                \cup (IF Pending(h) THEN {h.off} ELSE {})
<1> DEFINE u == [s EXCEPT ![Len(s)] = h]
<1>1. /\ u \in Seq(Handles)
      /\ Len(s) \in Nat
      /\ Len(u) = Len(s)
      /\ \A i \in 1..(Len(s) - 1) : u[i] = s[i]
      /\ u[Len(s)] = h
  OBVIOUS
<1> HIDE DEF u
<1>2. 1..Len(s) = (1..(Len(s) - 1)) \cup {Len(s)}
  BY <1>1
<1>3. PendingIn(u) = (PendingIn(s) \ {h.off})
                     \cup (IF Pending(h) THEN {h.off} ELSE {})
  BY <1>1, <1>2 DEF PendingIn
<1> QED BY <1>1, <1>3 DEF u

(* A sequence without its last element. *)
LEMMA ButLast ==
  ASSUME NEW S, NEW s \in Seq(S), Len(s) > 0
  PROVE  LET u == SubSeq(s, 1, Len(s) - 1)
         IN  /\ u \in Seq(S)
             /\ Len(s) \in Nat
             /\ Len(u) = Len(s) - 1
             /\ \A i \in 1..(Len(s) - 1) : u[i] = s[i]
<1> DEFINE u == SubSeq(s, 1, Len(s) - 1)
<1>1. /\ Len(s) \in Nat
      /\ Len(s) - 1 \in Int
      /\ \A i \in 1..(Len(s) - 1) : s[i] \in S
  OBVIOUS
<1>2. /\ u \in Seq(S)
      /\ Len(u) = IF 1 <= Len(s) - 1 THEN (Len(s) - 1) - 1 + 1 ELSE 0
      /\ \A i \in 1..((Len(s) - 1) - 1 + 1) : u[i] = s[1 + i - 1]
  BY <1>1, SubSeqProperties
<1> HIDE DEF u
<1>3. ASSUME NEW i \in 1..(Len(s) - 1) PROVE u[i] = s[i]
  <2>1. i \in 1..((Len(s) - 1) - 1 + 1)
    BY <1>1
  <2>2. u[i] = s[1 + i - 1]
    BY <1>2, <2>1
  <2>3. 1 + i - 1 = i
    BY <1>1
  <2> QED BY <2>2, <2>3
<1>4. Len(u) = Len(s) - 1
  <2> DEFINE n == Len(s)
  <2>1. n \in Nat /\ n > 0
    BY <1>1
  <2>2. Len(u) = IF 1 <= n - 1 THEN (n - 1) - 1 + 1 ELSE 0
    BY <1>2
  <2> HIDE DEF n
  <2>3. Len(u) = n - 1
    BY <2>1, <2>2
  <2> QED BY <2>3 DEF n
<1> QED BY <1>1, <1>2, <1>3, <1>4 DEF u

(* A handle is destroyed: its id, and no other, stops being pending. *)
LEMMA PopFacts ==
  ASSUME NEW s \in Seq(Handles), Len(s) > 0,
         \A i \in 1..(Len(s) - 1) : Pending(s[i]) => s[i].off # s[Len(s)].off
  PROVE  LET u == SubSeq(s, 1, Len(s) - 1)
         IN  /\ u \in Seq(Handles)
             /\ Len(u) = Len(s) - 1
             /\ \A i \in 1..(Len(s) - 1) : u[i] = s[i]
             /\ PendingIn(u) = IF Pending(s[Len(s)])
                               THEN PendingIn(s) \ {s[Len(s)].off}
                               ELSE PendingIn(s)
<1> DEFINE u == SubSeq(s, 1, Len(s) - 1)
<1>1. /\ u \in Seq(Handles)
      /\ Len(s) \in Nat
      /\ Len(u) = Len(s) - 1
      /\ \A i \in 1..(Len(s) - 1) : u[i] = s[i]
  BY ButLast
<1> HIDE DEF u
<1>2. 1..Len(s) = (1..(Len(s) - 1)) \cup {Len(s)}
  BY <1>1
<1>3. PendingIn(u) = IF Pending(s[Len(s)]) THEN PendingIn(s) \ {s[Len(s)].off}
                                           ELSE PendingIn(s)
  BY <1>1, <1>2 DEF PendingIn
<1> QED BY <1>1, <1>3 DEF u

-----------------------------------------------------------------------------
(* Facts every step that acts on the innermost handle starts from. *)

(* What the invariant says of the innermost handle. *)
LEMMA InnermostFacts ==
  ASSUME IInv, Len(stack) > 0
  PROVE  /\ Len(stack) \in Nat
         /\ Top \in Handles
         /\ \A i \in 1..(Len(stack) - 1) :
              /\ stack[i].phase # "stored"
              /\ Pending(stack[i]) => stack[i].off # stack[Len(stack)].off
         /\ Pending(Top) => Top.off \in PendingOffs
         /\ ~Pending(Top) => Top.off \notin PendingOffs
<1>1. Len(stack) \in Nat /\ Top \in Handles
  BY DEF IInv, TypeOK, Top
<1>2. ASSUME NEW i \in 1..(Len(stack) - 1)
      PROVE  /\ stack[i].phase # "stored"
             /\ Pending(stack[i]) => stack[i].off # stack[Len(stack)].off
  <2>1. i \in 1..Len(stack) /\ i # Len(stack) /\ Len(stack) \in (i + 1)..Len(stack)
    BY <1>1
  <2> QED BY <2>1 DEF IInv, HandlesSound, SingleOwner
<1>3. Len(stack) \in 1..Len(stack)
  BY <1>1
<1>4. \A i \in 1..Len(stack) : i = Len(stack) \/ i \in 1..(Len(stack) - 1)
  BY <1>1
<1>5. Pending(Top) => Top.off \in PendingOffs
  BY <1>3 DEF PendingOffs, PendingIn, Top
<1>6. ~Pending(Top) => Top.off \notin PendingOffs
  BY <1>2, <1>4 DEF PendingOffs, PendingIn, Top
<1> QED BY <1>1, <1>2, <1>5, <1>6

(* An id in use that is not pending has been in the log. *)
LEMMA UsedIsLogged ==
  ASSUME IInv, NEW o \in bm.used \ PendingOffs
  PROVE  o \in OnceLogged(tran)
<1>1. PICK v \in Vals : Says(tran, o, v)
  BY DEF IInv, NothingLost, Live
<1> QED BY <1>1 DEF Says, OnceLogged

(* A constructor: the new handle owns an id nobody had, or refers to one   *)
(* nobody is acquiring.                                                    *)
LEMMA OpenKeepsIInv ==
  ASSUME IInv, ~Innermost("stored"),
         NEW h \in Handles, h.phase = "open",
         stack' = Append(stack, h), UNCHANGED <<arr, tran, failed>>,
         \/ /\ Pending(h)
            /\ bm' \in Bitmaps
            /\ h.off \notin bm.used
            /\ bm'.used = bm.used \cup {h.off}
            /\ bm'.top <= bm'.size
            /\ bm.top <= bm'.top
            /\ h.off < bm'.top
         \/ ~Pending(h) /\ h.off \in bm.used \ PendingOffs /\ UNCHANGED bm
  PROVE  IInv'
<1> DEFINE n == Len(stack)
<1>1. /\ stack \in Seq(Handles) /\ n \in Nat /\ bm \in Bitmaps /\ tran \in Seq(Records)
      /\ bm.top \in Int /\ bm'.top \in Int
      /\ \A o \in bm.used : o \in Int
      /\ \A i \in 1..Len(tran) : tran[i].off \in Int
  <2>1. /\ stack \in Seq(Handles) /\ bm \in Bitmaps /\ tran \in Seq(Records)
    BY DEF IInv, TypeOK
  <2>2. bm.top \in Int /\ \A o \in bm.used : o \in Int
    BY <2>1, TableAssumption DEF Bitmaps, Offs
  <2>3. bm'.top \in Int
    BY <2>2, TableAssumption DEF Bitmaps
  <2>4. \A i \in 1..Len(tran) : tran[i].off \in Int
    <3>1. \A r \in Records : r.off \in Int
      BY TableAssumption DEF Records, Offs
    <3>2. \A i \in 1..Len(tran) : tran[i] \in Records
      BY <2>1
    <3> QED BY <3>1, <3>2
  <2>5. n \in Nat
    BY <2>1
  <2> QED BY <2>1, <2>2, <2>3, <2>4, <2>5
<1>2. /\ stack' \in Seq(Handles)
      /\ Len(stack') = n + 1
      /\ \A i \in 1..n : stack'[i] = stack[i]
      /\ stack'[n + 1] = h
      /\ PendingOffs' = PendingOffs \cup (IF Pending(h) THEN {h.off} ELSE {})
  BY <1>1, PushFacts DEF PendingOffs
<1>3. \A i \in 1..n : stack[i].phase # "stored"
  BY <1>1 DEF IInv, HandlesSound, Innermost, Top
<1>4. \A i \in 1..n : Pending(stack[i]) => stack[i].off \in PendingOffs
  BY DEF PendingOffs, PendingIn
<1>5. \A i \in 1..n : Pending(stack[i]) => stack[i].off \in bm.used
  BY <1>1 DEF IInv, SingleOwner
<1>6. TypeOK'
  BY <1>1, <1>2 DEF IInv, TypeOK
<1>7. SingleOwner'
  <2> SUFFICES ASSUME NEW i \in 1..(n + 1), Pending(stack'[i])
               PROVE  /\ stack'[i].off \in bm'.used
                      /\ \A j \in (i + 1)..(n + 1) : stack'[j].off # stack'[i].off
    BY <1>2 DEF SingleOwner
  <2>1. CASE i = n + 1
    BY <1>1, <1>2, <2>1
  <2>2. CASE i \in 1..n
    <3>1. stack'[i] = stack[i] /\ stack[i].off # h.off
      BY <1>2, <1>4, <1>5, <2>2
    <3>2. stack[i].off \in bm'.used
      BY <1>5, <2>2, <3>1
    <3>3. ASSUME NEW j \in (i + 1)..(n + 1) PROVE stack'[j].off # stack[i].off
      <4>1. CASE j = n + 1
        BY <1>2, <3>1, <4>1
      <4>2. CASE j # n + 1
        <5>1. j \in (i + 1)..n /\ j \in 1..n
          BY <1>1, <2>2, <4>2
        <5> QED BY <1>2, <2>2, <3>1, <5>1 DEF IInv, SingleOwner
      <4> QED BY <4>1, <4>2
    <3> QED BY <3>1, <3>2, <3>3
  <2> QED BY <1>1, <2>1, <2>2
<1>8. HandlesSound'
  <2> SUFFICES ASSUME NEW i \in 1..(n + 1)
               PROVE  /\ stack'[i].phase # "stored"
                      /\ stack'[i].phase = "refused" => "log" \in failed
    BY <1>2 DEF HandlesSound
  <2>1. CASE i = n + 1
    BY <1>2, <2>1
  <2>2. CASE i \in 1..n
    BY <1>2, <1>3, <2>2 DEF IInv, HandlesSound
  <2> QED BY <1>1, <2>1, <2>2
<1>9. ReplayInBounds'
  BY DEF IInv, ReplayInBounds
<1>10. bm'.used \ PendingOffs' = bm.used \ PendingOffs
  BY <1>2
<1>11. NothingLost'
  BY <1>10 DEF IInv, NothingLost
<1>12. RestartIsExact'
  <2>1. Rows(tran)' = Rows(tran) /\ Live(tran)' = Live(tran)
    OBVIOUS
  <2> QED BY <1>10, <2>1 DEF IInv, RestartIsExact
<1>13. TopIsSound'
  <2>1. CASE UNCHANGED bm
    BY <2>1 DEF IInv, TopIsSound
  <2>2. CASE Pending(h)
    <3>1. /\ bm'.top <= bm'.size /\ bm.top <= bm'.top /\ h.off < bm'.top
          /\ bm'.used = bm.used \cup {h.off}
      BY <2>2
    <3> QED BY <1>1, <3>1 DEF IInv, TopIsSound
  <2> QED BY <2>1, <2>2
<1>14. LogSound'
  <2>1. h.op \notin Acquires => h.off \in OnceLogged(tran)
    BY <1>1, UsedIsLogged DEF Pending
  <2> QED BY <1>1, <1>2, <2>1 DEF IInv, LogSound
<1> QED BY <1>6, <1>7, <1>8, <1>9, <1>11, <1>12, <1>13, <1>14 DEF IInv

(* commit() changes the innermost handle and nothing else of the stack. *)
LEMMA SetTopKeepsStack ==
  ASSUME IInv, Len(stack) > 0,
         NEW h \in Handles, h.op = Top.op, h.off = Top.off,
         stack' = [stack EXCEPT ![Len(stack)] = h],
         \/ bm'.used = bm.used
         \/ ~Pending(Top) /\ bm'.used = bm.used \ {Top.off},
         Pending(h) => Pending(Top),
         failed \subseteq failed',
         h.phase = "refused" => "log" \in failed',
         h.phase = "stored" => /\ h.op \in Acquires \cup {"MODIFY"}
                               /\ h.off \in bm'.used
                               /\ h.val \in Vals
                               /\ arr'[h.off] = h.val
  PROVE  /\ stack' \in Seq(Handles)
         /\ Len(stack') = Len(stack)
         /\ Top' = h
         /\ SingleOwner'
         /\ HandlesSound'
         /\ PendingOffs' = IF Pending(Top) /\ ~Pending(h)
                           THEN PendingOffs \ {Top.off} ELSE PendingOffs
<1> DEFINE n == Len(stack)
<1>1. /\ stack \in Seq(Handles)
      /\ n \in Nat
      /\ \A i \in 1..(n - 1) :
           /\ stack[i].phase # "stored"
           /\ Pending(stack[i]) => stack[i].off # stack[n].off
      /\ Pending(Top) => Top.off \in PendingOffs
      /\ ~Pending(Top) => Top.off \notin PendingOffs
      /\ Top = stack[n]
  BY InnermostFacts DEF IInv, TypeOK, Top
<1>2. \A i \in 1..(n - 1) : Pending(stack[i]) => stack[i].off # stack[n].off
  BY <1>1
<1>3. /\ stack' \in Seq(Handles)
      /\ Len(stack') = n
      /\ \A i \in 1..(n - 1) : stack'[i] = stack[i]
      /\ stack'[n] = h
      /\ PendingIn(stack') = (PendingIn(stack) \ {h.off})
                              \cup (IF Pending(h) THEN {h.off} ELSE {})
  <2> DEFINE u == [stack EXCEPT ![Len(stack)] = h]
  <2>1. h.op = stack[Len(stack)].op /\ h.off = stack[Len(stack)].off
    BY <1>1
  <2>2. /\ u \in Seq(Handles)
        /\ Len(u) = n
        /\ \A i \in 1..(n - 1) : u[i] = stack[i]
        /\ u[n] = h
        /\ PendingIn(u) = (PendingIn(stack) \ {h.off})
                          \cup (IF Pending(h) THEN {h.off} ELSE {})
    BY <1>1, <1>2, <2>1, SetTopFacts
  <2> HIDE DEF u
  <2>3. stack' = u
    BY DEF u
  <2> QED BY <2>2, <2>3
<1>4. PendingOffs' = IF Pending(Top) /\ ~Pending(h)
                     THEN PendingOffs \ {Top.off} ELSE PendingOffs
  <2>1. PendingIn(stack') = (PendingOffs \ {Top.off})
                            \cup (IF Pending(h) THEN {Top.off} ELSE {})
    BY <1>3 DEF PendingOffs
  <2>2. PendingOffs' = PendingIn(stack')
    BY DEF PendingOffs
  <2>3. CASE Pending(h)
    BY <1>1, <2>1, <2>2, <2>3
  <2>4. CASE ~Pending(h)
    BY <1>1, <2>1, <2>2, <2>4
  <2> QED BY <2>3, <2>4
<1>5. Top' = h
  <2>1. stack'[Len(stack')] = h
    BY <1>3
  <2> QED BY <2>1 DEF Top
<1>6. \A i \in 1..n : i = n \/ i \in 1..(n - 1)
  BY <1>1
<1>7. n \in 1..n
  BY <1>1
<1>8. SingleOwner'
  <2> SUFFICES ASSUME NEW i \in 1..n, Pending(stack'[i])
               PROVE  /\ stack'[i].off \in bm'.used
                      /\ \A j \in (i + 1)..n : stack'[j].off # stack'[i].off
    BY <1>3 DEF SingleOwner
  <2>1. CASE i = n
    <3>1. Pending(stack[n]) /\ stack'[n].off = stack[n].off
      BY <1>1, <1>3, <2>1
    <3>2. stack'[n].off \in bm'.used
      BY <1>1, <1>7, <3>1 DEF IInv, SingleOwner
    <3>3. (n + 1)..n = {}
      BY <1>1
    <3> QED BY <2>1, <3>2, <3>3
  <2>2. CASE i \in 1..(n - 1)
    <3>1. stack'[i] = stack[i] /\ stack[i].off # stack[n].off
      BY <1>2, <1>3, <2>2
    <3>2. stack[i].off \in bm'.used
      BY <1>1, <3>1 DEF IInv, SingleOwner
    <3>3. ASSUME NEW j \in (i + 1)..n PROVE stack'[j].off = stack[j].off
      <4>1. j = n \/ j \in 1..(n - 1)
        BY <1>1, <2>2
      <4> QED BY <1>1, <1>3, <4>1
    <3> QED BY <3>1, <3>2, <3>3 DEF IInv, SingleOwner
  <2> QED BY <1>6, <2>1, <2>2
<1>9. HandlesSound'
  <2> SUFFICES ASSUME NEW i \in 1..n
               PROVE  /\ stack'[i].phase = "stored" =>
                           /\ i = n
                           /\ stack'[i].op \in Acquires \cup {"MODIFY"}
                           /\ stack'[i].off \in bm'.used
                           /\ stack'[i].val \in Vals
                           /\ arr'[stack'[i].off] = stack'[i].val
                      /\ stack'[i].phase = "refused" => "log" \in failed'
    BY <1>3 DEF HandlesSound
  <2>1. CASE i = n
    BY <1>3, <2>1
  <2>2. CASE i \in 1..(n - 1)
    BY <1>1, <1>3, <2>2 DEF IInv, HandlesSound
  <2> QED BY <1>6, <2>1, <2>2
<1> QED BY <1>3, <1>4, <1>5, <1>8, <1>9

(* The destructor removes it. *)
LEMMA PopKeepsStack ==
  ASSUME IInv, Len(stack) > 0, stack' = Pop, UNCHANGED failed,
         bm'.used = IF Pending(Top) THEN bm.used \ {Top.off} ELSE bm.used
  PROVE  /\ stack' \in Seq(Handles)
         /\ \A i \in 1..Len(stack') : stack'[i].phase # "stored"
         /\ SingleOwner'
         /\ HandlesSound'
         /\ PendingOffs' = IF Pending(Top) THEN PendingOffs \ {Top.off}
                                           ELSE PendingOffs
<1> DEFINE n == Len(stack)
<1>1. /\ stack \in Seq(Handles)
      /\ n \in Nat
      /\ \A i \in 1..(n - 1) : stack[i].phase # "stored"
      /\ \A i \in 1..(n - 1) : Pending(stack[i]) => stack[i].off # stack[n].off
      /\ Top = stack[n]
  BY InnermostFacts DEF IInv, TypeOK, Top
<1>2. /\ stack' \in Seq(Handles)
      /\ Len(stack') = n - 1
      /\ \A i \in 1..(n - 1) : stack'[i] = stack[i]
      /\ PendingIn(stack') = IF Pending(stack[n])
                             THEN PendingIn(stack) \ {stack[n].off}
                             ELSE PendingIn(stack)
  BY <1>1, PopFacts DEF Pop
<1>3. PendingOffs' = IF Pending(Top) THEN PendingOffs \ {Top.off} ELSE PendingOffs
  BY <1>1, <1>2 DEF PendingOffs
<1>4. \A i \in 1..(n - 1) : i \in 1..n
  BY <1>1
<1>5. SingleOwner'
  <2> SUFFICES ASSUME NEW i \in 1..(n - 1), Pending(stack'[i])
               PROVE  /\ stack'[i].off \in bm'.used
                      /\ \A j \in (i + 1)..(n - 1) : stack'[j].off # stack'[i].off
    BY <1>2 DEF SingleOwner
  <2>1. stack'[i] = stack[i] /\ stack[i].off # stack[n].off
    BY <1>1, <1>2
  <2>2. stack[i].off \in bm'.used
    BY <1>1, <1>4, <2>1 DEF IInv, SingleOwner
  <2>3. ASSUME NEW j \in (i + 1)..(n - 1) PROVE stack'[j].off # stack[i].off
    <3>1. j \in 1..(n - 1) /\ j \in (i + 1)..n
      BY <1>1
    <3>2. stack'[j] = stack[j]
      BY <1>2, <3>1
    <3> QED BY <1>4, <2>1, <3>1, <3>2 DEF IInv, SingleOwner
  <2> QED BY <2>1, <2>2, <2>3
<1>6. \A i \in 1..(n - 1) : stack'[i].phase # "stored"
  BY <1>1, <1>2
<1>7. HandlesSound'
  BY <1>2, <1>4, <1>6 DEF IInv, HandlesSound
<1> QED BY <1>2, <1>3, <1>5, <1>6, <1>7

-----------------------------------------------------------------------------
(* The log. *)

(* A record appended to the log adds to the offsets it ever acquired. *)
LEMMA AppendLogged ==
  ASSUME NEW t \in Seq(Records), NEW r \in Records
  PROVE  OnceLogged(Append(t, r)) =
           OnceLogged(t) \cup (IF r.op = "+" THEN {r.off} ELSE {})
<1> DEFINE u == Append(t, r)
<1>1. /\ Len(t) \in Nat
      /\ Len(u) = Len(t) + 1
      /\ \A i \in 1..Len(t) : u[i] = t[i]
      /\ u[Len(t) + 1] = r
  BY AppendFacts
<1> HIDE DEF u
<1>2. 1..Len(u) = (1..Len(t)) \cup {Len(t) + 1}
  BY <1>1
<1>3. OnceLogged(u) = OnceLogged(t) \cup (IF r.op = "+" THEN {r.off} ELSE {})
  BY <1>1, <1>2 DEF OnceLogged
<1> QED BY <1>3 DEF u

(* A record whose offset the log may name keeps the log sound. *)
LEMMA AppendKeepsLog ==
  ASSUME IInv, NEW r \in Records, tran' = Append(tran, r),
         r.op = "+" => r.val \in Vals /\ r.off < bm.top,
         r.op = "-" => r.off \in OnceLogged(tran)
  PROVE  /\ tran' \in Seq(Records)
         /\ \A i \in 1..Len(tran') : tran'[i].op = "+" =>
              tran'[i].val \in Vals /\ tran'[i].off < bm.top
         /\ OnceLogged(tran) \subseteq OnceLogged(tran')
         /\ ReplayInBounds'
<1> DEFINE n == Len(tran)
<1>1. /\ tran \in Seq(Records)
      /\ n \in Nat
      /\ tran' \in Seq(Records)
      /\ Len(tran') = n + 1
      /\ \A i \in 1..n : tran'[i] = tran[i]
      /\ tran'[n + 1] = r
  BY AppendFacts DEF IInv, TypeOK
<1>2. \A i \in 1..(n + 1) : i = n + 1 \/ i \in 1..n
  BY <1>1
<1>3. \A i \in 1..(n + 1) : tran'[i].op = "+" =>
        tran'[i].val \in Vals /\ tran'[i].off < bm.top
  BY <1>1, <1>2 DEF IInv, LogSound, TopIsSound
<1>4. OnceLogged(tran) \subseteq OnceLogged(tran')
  BY <1>1, AppendLogged
<1>5. ReplayInBounds'
  <2> SUFFICES ASSUME NEW i \in 1..(n + 1), tran'[i].op = "-"
               PROVE  \E j \in 1..(i - 1) : tran'[j].op = "+" /\ tran'[j].off = tran'[i].off
    BY <1>1 DEF ReplayInBounds
  <2>1. CASE i = n + 1
    <3>1. PICK j \in 1..n : tran[j].op = "+" /\ tran[j].off = r.off
      BY <1>1, <2>1 DEF OnceLogged
    <3>2. j \in 1..(i - 1) /\ tran'[j] = tran[j] /\ tran'[i] = r
      BY <1>1, <2>1
    <3> QED BY <3>1, <3>2
  <2>2. CASE i \in 1..n
    <3>1. PICK j \in 1..(i - 1) : tran[j].op = "+" /\ tran[j].off = tran[i].off
      BY <1>1, <2>2 DEF IInv, ReplayInBounds
    <3>2. j \in 1..n
      BY <1>1, <2>2
    <3> QED BY <1>1, <2>2, <3>1, <3>2
  <2> QED BY <1>2, <2>1, <2>2
<1> QED BY <1>1, <1>3, <1>4, <1>5

-----------------------------------------------------------------------------
(* Every action keeps the invariant. *)

(* The constructor with ACQUIRE_AUTO keeps the invariant. *)
LEMMA OpenAutoKeeps ==
  ASSUME IInv, NEW mem \in BOOLEAN, OpenAuto(mem)
  PROVE  IInv'
<1>1. PICK o \in Grants(bm, mem) : /\ bm' = AfterAcquire(bm, mem, o)
                                   /\ stack' = Push("ACQUIRE_AUTO", o, None)
  BY DEF OpenAuto
<1>2. bm \in Bitmaps /\ bm.top <= bm.size
  BY DEF IInv, TypeOK, TopIsSound
<1>3. /\ bm' \in Bitmaps
      /\ o \in Offs /\ o \notin bm.used
      /\ bm'.used = bm.used \cup {o}
      /\ bm'.top <= bm'.size
      /\ bm.top <= bm'.top
      /\ o < bm'.top
  BY <1>1, <1>2, AcquireFacts
<1> DEFINE h == [op |-> "ACQUIRE_AUTO", off |-> o, val |-> None, phase |-> "open"]
<1>4. h \in Handles /\ Pending(h) /\ h.phase = "open" /\ h.off = o
  BY <1>3 DEF Handles, Ops, Acquires, Pending
<1>5. stack' = Append(stack, h) /\ ~Innermost("stored") /\ UNCHANGED <<arr, tran, failed>>
  BY <1>1 DEF Push, OpenAuto, MayOpen
<1> HIDE DEF h
<1> QED BY <1>3, <1>4, <1>5, OpenKeepsIInv

(* The constructor with ACQUIRE_SPEC keeps the invariant. *)
LEMMA OpenSpecKeeps ==
  ASSUME IInv, NEW o \in Offs, OpenSpec(o)
  PROVE  IInv'
<1>1. bm \in Bitmaps /\ bm.top <= bm.size
  BY DEF IInv, TypeOK, TopIsSound
<1>2. bm' = AfterAcquireAt(bm, o) /\ o \notin bm.used
  BY DEF OpenSpec
<1>3. /\ bm' \in Bitmaps
      /\ bm'.used = bm.used \cup {o}
      /\ bm'.top <= bm'.size
      /\ bm.top <= bm'.top
      /\ o < bm'.top
  BY <1>1, <1>2, AcquireAtFacts
<1> DEFINE h == [op |-> "ACQUIRE_SPEC", off |-> o, val |-> None, phase |-> "open"]
<1>4. h \in Handles /\ Pending(h) /\ h.phase = "open" /\ h.off = o
  BY DEF Handles, Ops, Acquires, Pending
<1>5. stack' = Append(stack, h) /\ ~Innermost("stored") /\ UNCHANGED <<arr, tran, failed>>
  BY DEF Push, OpenSpec, MayOpen
<1> HIDE DEF h
<1> QED BY <1>2, <1>3, <1>4, <1>5, OpenKeepsIInv

(* The constructors for an existing id keep the invariant. *)
LEMMA OpenExistingKeeps ==
  ASSUME IInv, NEW op \in {"RELEASE", "MODIFY", "READONLY"}, NEW o \in Offs,
         OpenExisting(op, o)
  PROVE  IInv'
<1> DEFINE v == IF op = "RELEASE" THEN None ELSE arr[o]
           h == [op |-> op, off |-> o, val |-> v, phase |-> "open"]
<1>1. v \in Vals \cup {None}
  BY DEF IInv, TypeOK
<1>2. stack' = Append(stack, h) /\ ~Innermost("stored") /\ UNCHANGED <<bm, arr, tran, failed>>
  BY DEF Push, OpenExisting, MayOpen
<1> HIDE DEF v
<1>3. h \in Handles /\ ~Pending(h) /\ h.phase = "open" /\ h.off = o
  BY <1>1 DEF Handles, Ops, Acquires, Pending
<1>4. h.off \in bm.used \ PendingOffs
  BY <1>3 DEF OpenExisting
<1> HIDE DEF h
<1> QED BY <1>2, <1>3, <1>4, OpenKeepsIInv

(* The shape commit() gives the stack: the innermost handle in a new phase. *)
LEMMA SetTopIs ==
  ASSUME IInv, Len(stack) > 0, NEW ph \in {"done", "refused"}, SetTop(ph)
  PROVE  LET h == [Top EXCEPT !.phase = ph]
         IN  /\ h \in Handles
             /\ h.op = Top.op /\ h.off = Top.off /\ h.val = Top.val /\ h.phase = ph
             /\ stack' = [stack EXCEPT ![Len(stack)] = h]
<1>1. Top \in Handles
  BY InnermostFacts
<1> QED BY <1>1 DEF SetTop, Handles, Top

(* Storing the value, the first half of Commit(), keeps the invariant. *)
LEMMA StoreKeeps ==
  ASSUME IInv, NEW v \in Vals, Store(v)
  PROVE  IInv'
<1> DEFINE h == [[Top EXCEPT !.val = v] EXCEPT !.phase = "stored"]
           n == Len(stack)
<1>1. /\ n > 0 /\ Top.phase = "open" /\ Top.off \in bm.used
      /\ Top.op \in Acquires \cup {"MODIFY"}
      /\ UNCHANGED <<bm, tran, failed>>
      /\ arr' = [arr EXCEPT ![Top.off] = v]
  BY DEF Store, Innermost
<1>2. Top \in Handles /\ n \in Nat
  BY <1>1, InnermostFacts
<1>3. /\ h \in Handles /\ h.op = Top.op /\ h.off = Top.off /\ h.val = v
      /\ h.phase = "stored"
  BY <1>2 DEF Handles
<1>4. stack' = [stack EXCEPT ![n] = h]
  BY DEF Store, Top
<1> HIDE DEF h
<1>5. arr \in [Offs -> Vals \cup {None}] /\ Top.off \in Offs
  BY <1>2 DEF IInv, TypeOK, Handles
<1>6. arr' \in [Offs -> Vals \cup {None}] /\ arr'[Top.off] = v
      /\ \A o \in Offs : o # Top.off => arr'[o] = arr[o]
  BY <1>1, <1>5
<1>7. Pending(h) <=> Pending(Top)
  BY <1>1, <1>3 DEF Pending
<1>8. /\ stack' \in Seq(Handles)
      /\ Len(stack') = Len(stack)
      /\ Top' = h
      /\ SingleOwner'
      /\ HandlesSound'
      /\ PendingOffs' = PendingOffs
  BY <1>1, <1>3, <1>4, <1>6, <1>7, SetTopKeepsStack
<1>9. TypeOK'
  BY <1>1, <1>6, <1>8 DEF IInv, TypeOK
<1>10. LogSound'
  <2>1. \A i \in 1..n : stack'[i].op = stack[i].op /\ stack'[i].off = stack[i].off
    BY <1>2, <1>3, <1>4 DEF IInv, TypeOK, Top
  <2> QED BY <1>1, <1>8, <2>1 DEF IInv, LogSound
<1>11. NothingLost' /\ ReplayInBounds' /\ TopIsSound'
  BY <1>1, <1>8 DEF IInv, NothingLost, ReplayInBounds, TopIsSound
<1>12. RestartIsExact'
  <2>1. Innermost("stored")' /\ ~Innermost("stored")
    BY <1>1, <1>3, <1>8 DEF Innermost
  <2>2. Live(tran) \subseteq Offs
    BY DEF Live
  <2>3. Rows(tran)' = Rows(tran) /\ Live(tran)' = Live(tran)
    BY <1>1
  <2> QED BY <1>1, <1>3, <1>6, <1>8, <2>1, <2>2, <2>3 DEF IInv, RestartIsExact
<1> QED BY <1>8, <1>9, <1>10, <1>11, <1>12 DEF IInv

(* commit() leaves every handle the operation and the id it had. *)
LEMMA SetTopOps ==
  ASSUME IInv, Len(stack) > 0, NEW ph \in {"done", "refused"}, SetTop(ph)
  PROVE  /\ Len(stack') = Len(stack)
         /\ \A i \in 1..Len(stack) :
              stack'[i].op = stack[i].op /\ stack'[i].off = stack[i].off
<1>1. stack \in Seq(Handles) /\ Len(stack) \in Nat
  BY DEF IInv, TypeOK
<1> DEFINE h == [Top EXCEPT !.phase = ph]
<1>2. h.op = Top.op /\ h.off = Top.off /\ stack' = [stack EXCEPT ![Len(stack)] = h]
  BY SetTopIs
<1> HIDE DEF h
<1> QED BY <1>1, <1>2 DEF Top

(* Logging the record, the second half of Commit(), keeps it too. *)
LEMMA LogPlusKeeps ==
  ASSUME IInv, LogPlus
  PROVE  IInv'
<1> DEFINE h == [Top EXCEPT !.phase = "done"]
           n == Len(stack)
           o == Top.off
           v == Top.val
<1>1. /\ n > 0 /\ Top.phase = "stored" /\ SetTop("done")
      /\ UNCHANGED <<bm, arr, failed>>
      /\ tran' = Append(tran, [op |-> "+", off |-> o, val |-> v])
  BY DEF LogPlus, Innermost
<1>2. Top \in Handles /\ n \in 1..n /\ (~Pending(Top) => o \notin PendingOffs)
  BY <1>1, InnermostFacts
<1>3. /\ Top.op \in Acquires \cup {"MODIFY"} /\ o \in bm.used /\ v \in Vals
      /\ arr[o] = v
  BY <1>1, <1>2 DEF IInv, HandlesSound, Top
<1>4. /\ h \in Handles /\ h.op = Top.op /\ h.off = o /\ h.phase = "done"
      /\ stack' = [stack EXCEPT ![n] = h]
  BY <1>1, SetTopIs
<1> HIDE DEF h
<1>5. ~Pending(h)
  BY <1>4 DEF Pending
<1>6. /\ stack' \in Seq(Handles)
      /\ Len(stack') = n
      /\ Top' = h
      /\ SingleOwner'
      /\ HandlesSound'
      /\ PendingOffs' = IF Pending(Top) THEN PendingOffs \ {o} ELSE PendingOffs
  BY <1>1, <1>4, <1>5, SetTopKeepsStack
<1>7. o \notin PendingOffs' /\ PendingOffs \ {o} \subseteq PendingOffs'
      /\ PendingOffs' \subseteq PendingOffs
  BY <1>2, <1>6
<1>8. o \in Offs /\ o < bm.top /\ tran \in Seq(Records)
  BY <1>2, <1>3 DEF Handles, IInv, TypeOK, TopIsSound
<1> DEFINE r == [op |-> "+", off |-> o, val |-> v]
<1>9. r \in Records /\ r.op = "+" /\ r.val \in Vals /\ r.off < bm.top
  BY <1>3, <1>8 DEF Records
<1>10. /\ tran' \in Seq(Records)
       /\ \A i \in 1..Len(tran') : tran'[i].op = "+" =>
            tran'[i].val \in Vals /\ tran'[i].off < bm.top
       /\ OnceLogged(tran) \subseteq OnceLogged(tran')
       /\ ReplayInBounds'
  BY <1>1, <1>9, AppendKeepsLog
<1>11. Live(tran') = Live(tran) \cup {o} /\ Rows(tran') = [Rows(tran) EXCEPT ![o] = v]
  BY <1>1, <1>3, <1>8, LogAcquire
<1>12. TypeOK'
  BY <1>1, <1>6, <1>10 DEF IInv, TypeOK
<1>13. LogSound'
  BY <1>1, <1>10, SetTopOps DEF IInv, LogSound
<1>14. NothingLost'
  BY <1>1, <1>7, <1>11 DEF IInv, NothingLost
<1>15. RestartIsExact'
  <2> SUFFICES ASSUME failed = {}
               PROVE  /\ Live(tran') \subseteq bm.used \ PendingOffs'
                      /\ \A p \in Live(tran') : arr[p] = Rows(tran')[p]
    BY <1>1 DEF RestartIsExact
  <2>1. Live(tran) \subseteq bm.used \ PendingOffs
    BY DEF IInv, RestartIsExact
  <2>2. ASSUME NEW p \in Live(tran') PROVE arr[p] = Rows(tran')[p]
    <3>1. CASE p = o
      BY <1>3, <1>8, <1>11, <3>1 DEF Rows
    <3>2. CASE p # o
      <4>1. p \in Live(tran)
        BY <1>11, <3>2
      <4>2. Rows(tran')[p] = Rows(tran)[p]
        BY <1>8, <1>11, <3>2, <4>1, RowsType
      <4>3. arr[p] = Rows(tran)[p] \/ Top.off = p
        BY <4>1 DEF IInv, RestartIsExact
      <4> QED BY <3>2, <4>2, <4>3
    <3> QED BY <3>1, <3>2
  <2> QED BY <1>3, <1>7, <1>11, <2>1, <2>2
<1>16. TopIsSound'
  BY <1>1, <1>10 DEF IInv, TopIsSound
<1> QED BY <1>6, <1>10, <1>12, <1>13, <1>14, <1>15, <1>16 DEF IInv

(* Both "-" records: the id is free afterwards, and no acquisition holds it. *)
LEMMA MinusKeeps ==
  ASSUME IInv, Len(stack) > 0, Top.phase = "open", Top.op \in {"RELEASE", "MODIFY"},
         SetTop("done"), UNCHANGED <<arr, failed>>,
         tran' = Append(tran, [op |-> "-", off |-> Top.off, val |-> None]),
         \/ bm' = bm /\ Top.off \notin bm.used
         \/ bm' = LetGo(bm, Top.off)
  PROVE  IInv'
<1> DEFINE h == [Top EXCEPT !.phase = "done"]
           n == Len(stack)
           o == Top.off
<1>1. Top \in Handles /\ n \in 1..n /\ ~Pending(Top) /\ o \notin PendingOffs
  BY InnermostFacts DEF Pending, Acquires
<1>2. o \in Offs /\ tran \in Seq(Records) /\ bm \in Bitmaps
  BY <1>1 DEF Handles, IInv, TypeOK
<1>3. bm' \in Bitmaps /\ bm'.used = bm.used \ {o} /\ bm'.top = bm.top /\ bm'.size = bm.size
  BY <1>2, LetGoFacts
<1>4. /\ h \in Handles /\ h.op = Top.op /\ h.off = o /\ h.phase = "done"
      /\ stack' = [stack EXCEPT ![n] = h]
  BY SetTopIs
<1> HIDE DEF h
<1>5. ~Pending(h)
  BY <1>4 DEF Pending
<1>6. /\ stack' \in Seq(Handles)
      /\ Len(stack') = n
      /\ Top' = h
      /\ SingleOwner'
      /\ HandlesSound'
      /\ PendingOffs' = PendingOffs
  BY <1>1, <1>3, <1>4, <1>5, SetTopKeepsStack
<1> DEFINE r == [op |-> "-", off |-> o, val |-> None]
<1>7. r \in Records /\ r.op = "-" /\ r.off \in OnceLogged(tran)
  BY <1>1, <1>2 DEF Records, IInv, LogSound, Top, Acquires
<1>8. /\ tran' \in Seq(Records)
      /\ \A i \in 1..Len(tran') : tran'[i].op = "+" =>
           tran'[i].val \in Vals /\ tran'[i].off < bm.top
      /\ OnceLogged(tran) \subseteq OnceLogged(tran')
      /\ ReplayInBounds'
  BY <1>7, AppendKeepsLog
<1>9. Live(tran') = Live(tran) \ {o} /\ Rows(tran') = [Rows(tran) EXCEPT ![o] = None]
  BY <1>2, LogRelease
<1>10. TypeOK'
  BY <1>3, <1>6, <1>8 DEF IInv, TypeOK
<1>11. LogSound'
  BY <1>8, SetTopOps DEF IInv, LogSound
<1>12. NothingLost'
  BY <1>3, <1>6, <1>9 DEF IInv, NothingLost
<1>13. RestartIsExact'
  <2> SUFFICES ASSUME failed = {}
               PROVE  /\ Live(tran') \subseteq bm'.used \ PendingOffs'
                      /\ \A p \in Live(tran') : arr[p] = Rows(tran')[p]
    BY DEF RestartIsExact
  <2>1. Live(tran) \subseteq bm.used \ PendingOffs
    BY DEF IInv, RestartIsExact
  <2>2. ASSUME NEW p \in Live(tran') PROVE arr[p] = Rows(tran')[p]
    <3>1. p # o /\ p \in Live(tran)
      BY <1>9
    <3>2. Rows(tran')[p] = Rows(tran)[p]
      BY <1>2, <1>9, <3>1, RowsType
    <3>3. ~Innermost("stored")
      BY DEF Innermost
    <3>4. arr[p] = Rows(tran)[p]
      BY <3>1, <3>3 DEF IInv, RestartIsExact
    <3> QED BY <3>2, <3>4
  <2> QED BY <1>3, <1>6, <1>9, <2>1, <2>2
<1>14. TopIsSound'
  BY <1>3, <1>8 DEF IInv, TopIsSound
<1> QED BY <1>6, <1>8, <1>10, <1>11, <1>12, <1>13, <1>14 DEF IInv

(* A failed log write marks the pool failed, and the log loses nothing.     *)
LEMMA WriteFailsKeeps ==
  ASSUME IInv, WriteFails
  PROVE  IInv'
<1> DEFINE h == [Top EXCEPT !.phase = "refused"]
           n == Len(stack)
           o == Top.off
<1>1. n > 0 /\ SetTop("refused") /\ failed' = failed \cup {"log"} /\ UNCHANGED <<arr, tran>>
  BY DEF WriteFails, Innermost
<1>2. Top \in Handles /\ bm \in Bitmaps
  BY <1>1, InnermostFacts DEF IInv, TypeOK
<1>3. /\ bm' \in Bitmaps /\ bm'.top = bm.top /\ bm'.size = bm.size
      /\ \/ bm'.used = bm.used
         \/ Top.op = "RELEASE" /\ bm'.used = bm.used \ {o}
  BY <1>2, LetGoFacts DEF WriteFails
<1>4. /\ h \in Handles /\ h.op = Top.op /\ h.off = o /\ h.phase = "refused"
      /\ stack' = [stack EXCEPT ![n] = h]
  BY <1>1, SetTopIs
<1> HIDE DEF h
<1>5. Top.phase # "done"
  BY DEF WriteFails, Innermost
<1>6. (Pending(h) <=> Pending(Top)) /\ (Top.op = "RELEASE" => ~Pending(Top))
  BY <1>4, <1>5 DEF Pending, Acquires
<1>7. /\ stack' \in Seq(Handles)
      /\ SingleOwner'
      /\ HandlesSound'
      /\ PendingOffs' = PendingOffs
  BY <1>1, <1>3, <1>4, <1>6, SetTopKeepsStack
<1>8. TypeOK'
  BY <1>1, <1>3, <1>7 DEF IInv, TypeOK
<1>9. LogSound'
  BY <1>1, SetTopOps DEF IInv, LogSound
<1>10. NothingLost'
  BY <1>1, <1>3, <1>7 DEF IInv, NothingLost
<1>11. RestartIsExact'
  BY <1>1 DEF RestartIsExact
<1>12. ReplayInBounds' /\ TopIsSound'
  BY <1>1, <1>3 DEF IInv, ReplayInBounds, TopIsSound
<1> QED BY <1>7, <1>8, <1>9, <1>10, <1>11, <1>12 DEF IInv

(* A store() that throws gives back what every open handle had acquired,    *)
(* marks the pool failed and touches one value only.                        *)
LEMMA StoreFailsKeeps ==
  ASSUME IInv, StoreFails
  PROVE  IInv'
<1> DEFINE o == Top.off
<1>1. /\ failed' = failed \cup {"cell"} /\ stack' = <<>> /\ UNCHANGED tran
      /\ bm' = [bm EXCEPT !.used = @ \ PendingOffs]
      /\ \E v \in Vals : arr' = [arr EXCEPT ![o] = v]
  BY DEF StoreFails
<1>2. bm \in Bitmaps /\ arr \in [Offs -> Vals \cup {None}] /\ failed \subseteq {"cell", "log"}
  BY DEF IInv, TypeOK
<1>3. /\ bm' \in Bitmaps /\ bm'.top = bm.top /\ bm'.size = bm.size
      /\ bm'.used = bm.used \ PendingOffs
  BY <1>1, <1>2 DEF Bitmaps
<1>4. Len(stack') = 0 /\ stack' \in Seq(Handles) /\ PendingOffs' = {}
  BY <1>1 DEF PendingOffs, PendingIn
<1>5. arr' \in [Offs -> Vals \cup {None}]
  BY <1>1, <1>2
<1>6. TypeOK'
  BY <1>1, <1>2, <1>3, <1>4, <1>5 DEF IInv, TypeOK
<1>7. SingleOwner' /\ HandlesSound'
  BY <1>4 DEF SingleOwner, HandlesSound
<1>8. LogSound' /\ ReplayInBounds'
  BY <1>1, <1>4 DEF IInv, LogSound, ReplayInBounds
<1>9. NothingLost' /\ RestartIsExact'
  BY <1>1, <1>3, <1>4 DEF IInv, NothingLost, RestartIsExact
<1>10. TopIsSound'
  BY <1>1, <1>3 DEF IInv, TopIsSound
<1> QED BY <1>6, <1>7, <1>8, <1>9, <1>10 DEF IInv

(* The destructor keeps the invariant. *)
LEMMA CloseKeeps ==
  ASSUME IInv, Close
  PROVE  IInv'
<1> DEFINE n == Len(stack)
           o == Top.off
<1>1. /\ n > 0 /\ Top.phase # "stored" /\ stack' = Pop /\ UNCHANGED <<arr, tran, failed>>
      /\ bm' = IF Pending(Top) THEN LetGo(bm, o) ELSE bm
  BY DEF Close
<1>2. bm \in Bitmaps /\ (Pending(Top) => o \in PendingOffs) /\ stack \in Seq(Handles)
  BY <1>1, InnermostFacts DEF IInv, TypeOK
<1>3. /\ bm' \in Bitmaps /\ bm'.top = bm.top /\ bm'.size = bm.size
      /\ bm'.used = IF Pending(Top) THEN bm.used \ {o} ELSE bm.used
  BY <1>1, <1>2, LetGoFacts
<1>4. /\ stack' \in Seq(Handles)
      /\ SingleOwner'
      /\ HandlesSound'
      /\ PendingOffs' = IF Pending(Top) THEN PendingOffs \ {o} ELSE PendingOffs
  BY <1>1, <1>3, PopKeepsStack
<1>5. bm'.used \ PendingOffs' = bm.used \ PendingOffs
  BY <1>2, <1>3, <1>4
<1>6. TypeOK'
  BY <1>1, <1>3, <1>4 DEF IInv, TypeOK
<1>7. LogSound'
  <2>1. /\ Len(stack') = n - 1
        /\ n \in Nat
        /\ \A i \in 1..(n - 1) : stack'[i] = stack[i]
    BY <1>1, <1>2, ButLast DEF Pop
  <2>2. \A i \in 1..(n - 1) : i \in 1..n
    BY <2>1
  <2> QED BY <1>1, <2>1, <2>2 DEF IInv, LogSound
<1>8. NothingLost' /\ ReplayInBounds' /\ TopIsSound'
  BY <1>1, <1>3, <1>5 DEF IInv, NothingLost, ReplayInBounds, TopIsSound
<1>9. RestartIsExact'
  <2>1. Rows(tran)' = Rows(tran) /\ Live(tran)' = Live(tran) /\ ~Innermost("stored")
    BY <1>1 DEF Innermost
  <2> QED BY <1>1, <1>5, <2>1 DEF IInv, RestartIsExact
<1> QED BY <1>4, <1>6, <1>7, <1>8, <1>9 DEF IInv

(* A restart from the log keeps the invariant. *)
LEMMA RestartKeeps ==
  ASSUME IInv, Restart
  PROVE  IInv'
<1>1. PICK n \in 0..Cap : IsHi(tran, n) /\ bm' = Reopened(Live(tran), n)
  BY DEF Restart
<1>2. /\ tran \in Seq(Records) /\ arr \in [Offs -> Vals \cup {None}]
      /\ arr' = Restored(tran, arr) /\ stack' = <<>> /\ failed' = {} /\ tran' = tran
  BY DEF Restart, IInv, TypeOK
<1>3. PendingOffs' = {} /\ Len(stack') = 0
  BY <1>2 DEF PendingOffs, PendingIn
<1>4. /\ arr' \in [Offs -> Vals \cup {None}]
      /\ \A o \in Live(tran) : arr'[o] = Rows(tran)[o]
  BY <1>2, RestoredRows
<1>5. /\ bm'.used = Live(tran) /\ bm'.top = n /\ Live(tran) \subseteq Offs
      /\ bm'.size = IF n > InitSize THEN n ELSE InitSize
      /\ bm' = [size |-> bm'.size, used |-> bm'.used, top |-> bm'.top]
  BY <1>1 DEF Reopened, Live
<1>6. bm' \in Bitmaps /\ bm'.top <= bm'.size
  <2>1. bm'.size \in 1..Cap /\ bm'.top \in 0..Cap /\ bm'.top <= bm'.size
    BY <1>5, TableAssumption
  <2> QED BY <1>5, <2>1 DEF Bitmaps
<1>7. TypeOK'
  <2>1. stack' \in Seq(Handles)
    BY <1>2
  <2> QED BY <1>2, <1>4, <1>6, <2>1 DEF TypeOK
<1>8. SingleOwner' /\ HandlesSound'
  BY <1>3 DEF SingleOwner, HandlesSound
<1>9. LogSound' /\ ReplayInBounds'
  BY <1>2, <1>3 DEF IInv, LogSound, ReplayInBounds
<1>10. NothingLost' /\ RestartIsExact'
  <2>1. Rows(tran)' = Rows(tran) /\ Live(tran)' = Live(tran)
    BY <1>2
  <2> QED BY <1>3, <1>4, <1>5, <2>1 DEF NothingLost, RestartIsExact
<1>11. TopIsSound'
  <2>1. \A i \in 1..Len(tran) : tran[i].op = "+" => tran[i].off < n
    BY <1>1 DEF IsHi
  <2>2. \A o \in Live(tran) : o < n
    BY <2>1 DEF Live, Says
  <2> QED BY <1>2, <1>5, <1>6, <2>1, <2>2 DEF TopIsSound
<1> QED BY <1>7, <1>8, <1>9, <1>10, <1>11 DEF IInv

(* A pool opened on an empty log satisfies the invariant. *)
LEMMA InitIInv == Init => IInv
<1> SUFFICES ASSUME Init PROVE IInv
  OBVIOUS
<1>1. /\ bm = Fresh /\ arr = [o \in Offs |-> None] /\ tran = <<>> /\ stack = <<>>
      /\ failed = {} /\ Len(tran) = 0 /\ Len(stack) = 0
  BY DEF Init
<1>2. Fresh \in Bitmaps
  BY TableAssumption DEF Fresh, Bitmaps
<1>3. TypeOK
  <2>1. stack \in Seq(Handles) /\ tran \in Seq(Records)
    BY <1>1
  <2>2. arr \in [Offs -> Vals \cup {None}]
    BY <1>1
  <2> QED BY <1>1, <1>2, <2>1, <2>2 DEF TypeOK
<1>4. Live(tran) = {}
  BY <1>1 DEF Live, Says
<1>5. SingleOwner /\ HandlesSound /\ LogSound /\ ReplayInBounds
  BY <1>1 DEF SingleOwner, HandlesSound, LogSound, ReplayInBounds
<1>6. NothingLost /\ RestartIsExact
  BY <1>1, <1>4 DEF NothingLost, RestartIsExact, Fresh
<1>7. TopIsSound
  BY <1>1, TableAssumption DEF TopIsSound, Fresh
<1> QED BY <1>3, <1>5, <1>6, <1>7 DEF IInv

(* Every step keeps the invariant. *)
LEMMA StepIInv == IInv /\ [Next]_vars => IInv'
<1> SUFFICES ASSUME IInv, [Next]_vars PROVE IInv'
  OBVIOUS
<1>1. ASSUME NEW mem \in BOOLEAN, OpenAuto(mem) PROVE IInv'
  BY <1>1, OpenAutoKeeps
<1>2. ASSUME NEW o \in Offs, OpenSpec(o) PROVE IInv'
  BY <1>2, OpenSpecKeeps
<1>3. ASSUME NEW o \in Offs, NEW op \in {"RELEASE", "MODIFY", "READONLY"},
             OpenExisting(op, o)
      PROVE  IInv'
  BY <1>3, OpenExistingKeeps
<1>4. ASSUME NEW v \in Vals, Store(v) PROVE IInv'
  BY <1>4, StoreKeeps
<1>5. CASE LogPlus
  BY <1>5, LogPlusKeeps
<1>6. CASE LogFreed
  <2>1. /\ Len(stack) > 0 /\ Top.phase = "open" /\ Top.op \in {"RELEASE", "MODIFY"}
        /\ SetTop("done") /\ UNCHANGED <<arr, failed>>
        /\ tran' = Append(tran, [op |-> "-", off |-> Top.off, val |-> None])
        /\ bm' = bm /\ Top.off \notin bm.used
    BY <1>6 DEF LogFreed, Innermost
  <2> QED BY <2>1, MinusKeeps
<1>7. CASE LogMinus
  <2>1. /\ Len(stack) > 0 /\ Top.phase = "open" /\ Top.op \in {"RELEASE", "MODIFY"}
        /\ SetTop("done") /\ UNCHANGED <<arr, failed>>
        /\ tran' = Append(tran, [op |-> "-", off |-> Top.off, val |-> None])
        /\ bm' = LetGo(bm, Top.off)
    BY <1>7 DEF LogMinus, Innermost
  <2> QED BY <2>1, MinusKeeps
<1>8. CASE WriteFails
  BY <1>8, WriteFailsKeeps
<1>9. CASE Close
  BY <1>9, CloseKeeps
<1>10. CASE Restart
  BY <1>10, RestartKeeps
<1>11. CASE StoreFails
  BY <1>11, StoreFailsKeeps
<1>12. CASE UNCHANGED vars
  <2>1. UNCHANGED <<bm, arr, tran, stack, failed>>
    BY <1>12 DEF vars
  <2> QED BY <2>1 DEF IInv, TypeOK, SingleOwner, HandlesSound, LogSound, NothingLost,
            RestartIsExact, ReplayInBounds, TopIsSound, PendingOffs, Innermost, Top
<1> QED BY <1>1, <1>2, <1>3, <1>4, <1>5, <1>6, <1>7, <1>8, <1>9, <1>10, <1>11, <1>12 DEF Next

-----------------------------------------------------------------------------
(* In every state of every IDPool, whatever its capacity, its values and   *)
(* the depth of the handle stack, the inductive invariant holds.           *)
THEOREM Invariance == Spec => []IInv
BY InitIInv, StepIInv, PTL DEF Spec

(* Type correctness of the pool's bitmap, array, log and handle stack.     *)
THEOREM TypeCorrect == Spec => []TypeOK
<1>1. IInv => TypeOK
  BY DEF IInv
<1> QED BY Invariance, <1>1, PTL

(* The handles never share an id they could give back: Release() in a      *)
(* destructor never meets an id that is not acquired or not its own.       *)
THEOREM HandlesDoNotShare == Spec => []SingleOwner
<1>1. IInv => SingleOwner
  BY DEF IInv
<1> QED BY Invariance, <1>1, PTL

(* Whatever log writes fail, an id that is in use and belongs to no open   *)
(* acquisition is found in the log by the next restart.                    *)
THEOREM PublishedIdsSurvive == Spec => []NothingLost
<1>1. IInv => NothingLost
  BY DEF IInv
<1> QED BY Invariance, <1>1, PTL

(* While no write has failed, replay_transaction() at any point            *)
(* rebuilds exactly the committed ids with the values committed last.      *)
THEOREM ReplayIsExact == Spec => []RestartIsExact
<1>1. IInv => RestartIsExact
  BY DEF IInv
<1> QED BY Invariance, <1>1, PTL

(* The replay never meets a release record for a bit beyond the bitmap it  *)
(* has grown so far.                                                       *)
THEOREM ReplayStaysInBounds == Spec => []ReplayInBounds
<1>1. IInv => ReplayInBounds
  BY DEF IInv
<1> QED BY Invariance, <1>1, PTL

(* max_used_ lies above every id in use and every id the log has acquired, *)
(* and within the bitmap.                                                  *)
THEOREM MarkIsSound == Spec => []TopIsSound
<1>1. IInv => TopIsSound
  BY DEF IInv
<1> QED BY Invariance, <1>1, PTL
-----------------------------------------------------------------------------
(* Acquire() returns an id below max_used_ only from a bitmap with no room  *)
(* above it, and only when that bitmap cannot grow.                        *)
LEMMA LowGrant ==
  ASSUME NEW b \in Bitmaps, b.top <= b.size, \A p \in b.used : p < b.top,
         NEW mem \in BOOLEAN, NEW o \in Grants(b, mem), o < b.top
  PROVE  b.top = b.size /\ (b.size = Cap \/ ~mem)
<1>1. /\ b.size \in 1..Cap /\ b.top \in 0..Cap /\ b.used \subseteq Offs
      /\ Cap \in Nat \ {0} /\ o \in Nat /\ o < b.top
  BY TableAssumption, AcquireFacts DEF Bitmaps, Offs
<1>2. ASSUME NEW c \in Bitmaps, c.top = b.top, c.used = b.used, c.top < c.size
      PROVE  c.top \in Above(c)
  BY <1>1, <1>2 DEF Above, Free, Bitmaps
<1>3. ASSUME NEW c \in Bitmaps, c.top = b.top, c.used = b.used, c.top < c.size
      PROVE  o \notin Choice(c)
  <2>1. Above(c) # {}
    BY <1>2, <1>3
  <2>2. Choice(c) \subseteq Above(c)
    BY <2>1 DEF Choice, First
  <2>3. ASSUME o \in Above(c) PROVE FALSE
    <3>1. c.top <= o
      BY <2>3 DEF Above
    <3> QED BY <1>1, <1>3, <3>1
  <2> QED BY <2>2, <2>3
<1>4. CASE Above(b) = {} /\ CanExtend(b, mem)
  <2>1. GrownSize(b) \in 1..Cap /\ b.size < GrownSize(b)
    BY <1>1, <1>4 DEF CanExtend, GrownSize
  <2>2. /\ Extend(b) \in Bitmaps /\ Extend(b).top = b.top /\ Extend(b).used = b.used
        /\ Extend(b).size = GrownSize(b)
    BY <2>1 DEF Extend, Bitmaps
  <2>3. Extend(b).top < Extend(b).size
    BY <1>1, <2>1, <2>2
  <2> QED BY <1>3, <1>4, <2>2, <2>3 DEF Grants, Room
<1>5. CASE ~(Above(b) = {} /\ CanExtend(b, mem))
  <2>1. o \in Choice(b)
    BY <1>5 DEF Grants, Room
  <2>2. b.top = b.size
    BY <1>1, <1>3, <2>1
  <2>3. Above(b) = {}
    BY <1>1, <2>2 DEF Above, Free
  <2> QED BY <1>1, <1>5, <2>2, <2>3 DEF CanExtend
<1> QED BY <1>4, <1>5

(* Acquire() prefers ids nobody ever had: one that was published before    *)
(* comes back only from a bitmap used up to its end that cannot grow.      *)
THEOREM OldIdsLast == Spec => ReuseLast
<1> DEFINE Low(o) == /\ Len(stack') > Len(stack)
                     /\ stack'[Len(stack')].op = "ACQUIRE_AUTO"
                     /\ stack'[Len(stack')].off = o
           Full == bm.top = bm.size /\ (bm.size = Cap \/ MemMayFail)
<1>1. ASSUME IInv, [Next]_vars, NEW o \in OnceLogged(tran), Low(o)
      PROVE  Full
  <2>1. /\ bm \in Bitmaps /\ stack \in Seq(Handles) /\ Len(stack) \in Nat
        /\ bm.top <= bm.size
        /\ \A p \in bm.used : p < bm.top
    BY <1>1 DEF IInv, TypeOK, TopIsSound
  <2>2. o < bm.top
    BY <1>1 DEF IInv, TopIsSound, OnceLogged
  <2>3. ASSUME NEW mem \in BOOLEAN, OpenAuto(mem)
        PROVE  Full
    <3>1. PICK q \in Grants(bm, mem) : stack' = Push("ACQUIRE_AUTO", q, None)
      BY <2>3 DEF OpenAuto
    <3>2. stack'[Len(stack')].off = q
      BY <2>1, <3>1 DEF Push
    <3>3. q < bm.top
      BY <1>1, <2>2, <3>2
    <3>4. bm.top = bm.size /\ (bm.size = Cap \/ ~mem)
      BY <2>1, <3>3, LowGrant
    <3> QED BY <2>3, <3>4 DEF OpenAuto
  <2>4. ASSUME NEW op, NEW q, NEW v, op # "ACQUIRE_AUTO", stack' = Push(op, q, v)
        PROVE  Full
    <3>1. stack'[Len(stack')].op = op
      BY <2>1, <2>4 DEF Push
    <3> QED BY <1>1, <2>4, <3>1
  <2>5. CASE \E q \in Offs : OpenSpec(q)
    BY <2>4, <2>5 DEF OpenSpec
  <2>6. CASE \E q \in Offs, op \in {"RELEASE", "MODIFY", "READONLY"} : OpenExisting(op, q)
    BY <2>4, <2>6 DEF OpenExisting
  <2>7. ASSUME Len(stack') <= Len(stack) PROVE Full
    <3>1. Len(stack') > Len(stack)
      BY <1>1
    <3>2. Len(stack') \in Nat
      BY <2>1, StepIInv, <1>1 DEF IInv, TypeOK
    <3> QED BY <2>1, <2>7, <3>1, <3>2
  <2>8. CASE \/ \E v \in Vals : Store(v)
             \/ StoreFails \/ LogPlus \/ LogFreed \/ LogMinus \/ WriteFails
    <3>1. ASSUME NEW v \in Vals, Store(v) PROVE Len(stack') = Len(stack)
      <4>1. stack' = [stack EXCEPT ![Len(stack)] =
                        [[Top EXCEPT !.val = v] EXCEPT !.phase = "stored"]]
        BY <2>1, <3>1 DEF Store, Top, Innermost
      <4> QED BY <2>1, <4>1
    <3>2. ASSUME NEW ph \in {"done", "refused"}, SetTop(ph)
          PROVE  Len(stack') = Len(stack)
      <4>1. stack' = [stack EXCEPT ![Len(stack)] = [Top EXCEPT !.phase = ph]]
        BY <2>1, <3>2 DEF SetTop, Top
      <4> QED BY <2>1, <4>1
    <3>3. CASE StoreFails \/ LogPlus \/ LogFreed \/ LogMinus \/ WriteFails
      BY <2>1, <2>7, <3>2, <3>3 DEF StoreFails, LogPlus, LogFreed, LogMinus, WriteFails
    <3> QED BY <2>1, <2>7, <2>8, <3>1, <3>3
  <2>9. CASE Close
    BY <2>1, <2>7, <2>9, ButLast DEF Close, Pop
  <2>10. CASE Restart \/ UNCHANGED vars
    BY <2>1, <2>7, <2>10 DEF Restart, vars
  <2> QED BY <1>1, <2>3, <2>5, <2>6, <2>8, <2>9, <2>10 DEF Next
<1>2. IInv /\ [Next]_vars =>
        [\A o \in OnceLogged(tran) :
           /\ Len(stack') > Len(stack)
           /\ stack'[Len(stack')].op = "ACQUIRE_AUTO"
           /\ stack'[Len(stack')].off = o
           => bm.top = bm.size /\ (bm.size = Cap \/ MemMayFail)]_vars
  BY <1>1
<1> QED BY <1>2, Invariance, PTL DEF Spec, ReuseLast
-----------------------------------------------------------------------------
(* IdPool implements IdTableSpec: with a disk that accepts the log writes,  *)
(* the bitmap, the array, the log, the handles and the replay behave like   *)
(* a table whose rows change in single steps and outlive every restart.     *)

(* No write of a record or a cell has failed. *)
Unfailed == failed = {}

(* None does unless the disk may. *)
LEMMA NeverFailed ==
  ASSUME ~DiskMayFail
  PROVE  Spec => []Unfailed
<1>1. Init => Unfailed
  BY DEF Init, Unfailed
<1>2. Unfailed /\ [Next]_vars => Unfailed'
  BY DEF Next, vars, OpenAuto, OpenSpec, OpenExisting, Store, StoreFails, LogPlus,
         LogFreed, LogMinus, WriteFails, Close, Restart, Unfailed
<1> QED BY <1>1, <1>2, PTL DEF Spec

(* An empty pool is an empty table. *)
LEMMA InitRefines == Init => Abs!Init
<1> SUFFICES ASSUME Init PROVE Abs!Init
  OBVIOUS
<1>1. tran = <<>> /\ Len(tran) = 0 /\ Len(stack) = 0
  BY DEF Init
<1>2. Live(tran) = {}
  BY <1>1 DEF Live, Says
<1>3. Rows(tran) = [i \in Offs |-> None]
  BY <1>2 DEF Rows
<1>4. PendingOffs = {}
  BY <1>1 DEF PendingOffs, PendingIn
<1> QED BY <1>3, <1>4 DEF Abs!Init

(* Reservations are marked in the bitmap, rows are not reserved, and every  *)
(* row is in use. *)
LEMMA TableFacts ==
  ASSUME IInv, failed = {}
  PROVE  /\ stack \in Seq(Handles) /\ tran \in Seq(Records) /\ bm \in Bitmaps
         /\ PendingOffs \subseteq bm.used
         /\ Live(tran) = bm.used \ PendingOffs
         /\ \A o \in Offs : Rows(tran)[o] # None <=> o \in bm.used \ PendingOffs
<1>1. stack \in Seq(Handles) /\ tran \in Seq(Records) /\ bm \in Bitmaps
  BY DEF IInv, TypeOK
<1>2. PendingOffs \subseteq bm.used
  BY DEF IInv, SingleOwner, PendingOffs, PendingIn
<1>3. Live(tran) = bm.used \ PendingOffs
  BY DEF IInv, NothingLost, RestartIsExact
<1> QED BY <1>1, <1>2, <1>3, RowsType

(* An acquisition reserves an id; the other handles change nothing. *)
LEMMA OpenRefines ==
  ASSUME IInv, failed = {}, NEW o \in Offs, NEW op \in Acquires,
         o \notin bm.used, stack' = Push(op, o, None), UNCHANGED tran
  PROVE  Abs!Reserve(o)
<1> DEFINE h == [op |-> op, off |-> o, val |-> None, phase |-> "open"]
<1>1. h \in Handles /\ Pending(h) /\ h.off = o
  BY DEF Handles, Ops, Pending
<1>2. stack' = Append(stack, h)
  BY DEF Push
<1> HIDE DEF h
<1>3. PendingOffs' = PendingOffs \cup {o}
  BY <1>1, <1>2, TableFacts, PushFacts DEF PendingOffs
<1>4. Rows(tran)[o] = None /\ o \notin PendingOffs
  BY TableFacts
<1>5. Rows(tran)' = Rows(tran)
  OBVIOUS
<1> QED BY <1>3, <1>4, <1>5 DEF Abs!Reserve

(* The effect of a commit on the reservations. *)
LEMMA DoneReleases ==
  ASSUME IInv, Len(stack) > 0, SetTop("done")
  PROVE  PendingOffs' = PendingOffs \ (IF Pending(Top) THEN {Top.off} ELSE {})
<1> DEFINE h == [Top EXCEPT !.phase = "done"]
<1>1. /\ h \in Handles /\ h.op = Top.op /\ h.off = Top.off /\ h.phase = "done"
      /\ stack' = [stack EXCEPT ![Len(stack)] = h]
  BY SetTopIs
<1>2. ~Pending(h)
  BY <1>1 DEF Pending
<1>3. /\ stack \in Seq(Handles)
      /\ \A i \in 1..(Len(stack) - 1) : Pending(stack[i]) => stack[i].off # stack[Len(stack)].off
      /\ ~Pending(Top) => Top.off \notin PendingOffs
  BY InnermostFacts DEF IInv, TypeOK
<1>4. h.op = stack[Len(stack)].op /\ h.off = stack[Len(stack)].off
  BY <1>1 DEF Top
<1> HIDE DEF h
<1> DEFINE u == [stack EXCEPT ![Len(stack)] = h]
<1>5. PendingIn(u) = (PendingIn(stack) \ {h.off}) \cup (IF Pending(h) THEN {h.off} ELSE {})
  BY <1>1, <1>3, <1>4, SetTopFacts
<1>6. stack' = u
  BY <1>1
<1> HIDE DEF u
<1>7. PendingOffs' = PendingOffs \ {Top.off}
  BY <1>1, <1>2, <1>5, <1>6 DEF PendingOffs
<1> QED BY <1>3, <1>7

(* Storing the value changes no row: the log decides. *)
LEMMA StoreRefines ==
  ASSUME IInv, NEW v \in Vals, Store(v)
  PROVE  UNCHANGED <<Rows(tran), PendingOffs>>
<1> DEFINE h == [[Top EXCEPT !.val = v] EXCEPT !.phase = "stored"]
           u == [stack EXCEPT ![Len(stack)] = h]
<1>1. Len(stack) > 0 /\ Top.phase = "open" /\ UNCHANGED tran
  BY DEF Store, Innermost
<1>2. /\ Top \in Handles /\ stack \in Seq(Handles)
      /\ \A i \in 1..(Len(stack) - 1) : Pending(stack[i]) => stack[i].off # stack[Len(stack)].off
      /\ Pending(Top) => Top.off \in PendingOffs
      /\ ~Pending(Top) => Top.off \notin PendingOffs
  BY <1>1, InnermostFacts DEF IInv, TypeOK
<1>3. h \in Handles /\ h.op = Top.op /\ h.off = Top.off /\ h.phase = "stored"
  BY <1>2 DEF Handles
<1>4. stack' = u
  BY DEF Store, Top
<1>5. Pending(h) <=> Pending(Top)
  BY <1>1, <1>3 DEF Pending
<1>6. h.op = stack[Len(stack)].op /\ h.off = stack[Len(stack)].off
  BY <1>3 DEF Top
<1> HIDE DEF h
<1>7. PendingIn(u) = (PendingIn(stack) \ {h.off}) \cup (IF Pending(h) THEN {h.off} ELSE {})
  BY <1>1, <1>2, <1>3, <1>6, SetTopFacts
<1> HIDE DEF u
<1>8. PendingOffs' = PendingOffs
  BY <1>2, <1>3, <1>4, <1>5, <1>7 DEF PendingOffs
<1>9. Rows(tran)' = Rows(tran)
  BY <1>1
<1> QED BY <1>8, <1>9

(* The log record publishes or revises a row. *)
LEMMA LogPlusRefines ==
  ASSUME IInv, failed = {}, LogPlus
  PROVE  \E o \in Offs, v \in Vals : Abs!Publish(o, v) \/ Abs!Revise(o, v)
<1> DEFINE o == Top.off
           v == Top.val
<1>1. /\ Len(stack) > 0 /\ Top.phase = "stored" /\ SetTop("done")
      /\ tran' = Append(tran, [op |-> "+", off |-> o, val |-> v])
  BY DEF LogPlus, Innermost
<1>2. /\ Top \in Handles /\ Len(stack) \in 1..Len(stack)
      /\ Pending(Top) => o \in PendingOffs
      /\ ~Pending(Top) => o \notin PendingOffs
  BY <1>1, InnermostFacts
<1>3. o \in Offs /\ o \in bm.used /\ v \in Vals
  BY <1>1, <1>2 DEF IInv, HandlesSound, Top, Handles
<1>4. Rows(tran') = [Rows(tran) EXCEPT ![o] = v]
  BY <1>1, <1>3, TableFacts, LogAcquire
<1>5. PendingOffs' = PendingOffs \ (IF Pending(Top) THEN {o} ELSE {})
  BY <1>1, DoneReleases
<1>6. CASE Pending(Top)
  <2>1. Abs!Publish(o, v)
    BY <1>2, <1>4, <1>5, <1>6 DEF Abs!Publish
  <2> QED BY <1>3, <2>1
<1>7. CASE ~Pending(Top)
  <2>1. Rows(tran)[o] # None
    BY <1>2, <1>3, <1>7, TableFacts
  <2>2. Abs!Revise(o, v)
    BY <1>4, <1>5, <1>7, <2>1 DEF Abs!Revise
  <2> QED BY <1>3, <2>2
<1> QED BY <1>6, <1>7

(* The release record drops a row. *)
LEMMA LogMinusRefines ==
  ASSUME IInv, failed = {}, LogMinus
  PROVE  \E o \in Offs : Abs!Drop(o)
<1> DEFINE o == Top.off
<1>1. /\ Len(stack) > 0 /\ Top.op = "RELEASE" /\ o \in bm.used /\ SetTop("done")
      /\ tran' = Append(tran, [op |-> "-", off |-> o, val |-> None])
  BY DEF LogMinus, Innermost
<1>2. Top \in Handles /\ ~Pending(Top) /\ o \notin PendingOffs
  BY <1>1, InnermostFacts DEF Pending, Acquires
<1>3. o \in Offs
  BY <1>2 DEF Handles
<1>4. Rows(tran') = [Rows(tran) EXCEPT ![o] = None]
  BY <1>1, <1>3, TableFacts, LogRelease
<1>5. PendingOffs' = PendingOffs
  BY <1>1, <1>2, DoneReleases
<1>6. Rows(tran)[o] # None
  BY <1>1, <1>2, <1>3, TableFacts
<1>7. Abs!Drop(o)
  BY <1>4, <1>5, <1>6 DEF Abs!Drop
<1> QED BY <1>3, <1>7

(* A record that releases a free id changes nothing. *)
LEMMA LogFreedRefines ==
  ASSUME IInv, failed = {}, LogFreed
  PROVE  UNCHANGED <<Rows(tran), PendingOffs>>
<1> DEFINE o == Top.off
<1>1. /\ Len(stack) > 0 /\ Top.op = "MODIFY" /\ o \notin bm.used /\ SetTop("done")
      /\ tran' = Append(tran, [op |-> "-", off |-> o, val |-> None])
  BY DEF LogFreed, Innermost
<1>2. Top \in Handles /\ ~Pending(Top)
  BY <1>1, InnermostFacts DEF Pending, Acquires
<1>3. o \in Offs
  BY <1>2 DEF Handles
<1>4. Rows(tran') = [Rows(tran) EXCEPT ![o] = None]
  BY <1>1, <1>3, TableFacts, LogRelease
<1>5. Rows(tran)[o] = None /\ Rows(tran) \in [Offs -> Vals \cup {None}]
  BY <1>1, <1>3, TableFacts, RowsType
<1>6. Rows(tran') = Rows(tran)
  BY <1>3, <1>4, <1>5
<1>7. PendingOffs' = PendingOffs
  BY <1>1, <1>2, DoneReleases
<1> QED BY <1>6, <1>7

(* The destructor abandons a reservation or changes nothing. *)
LEMMA CloseRefines ==
  ASSUME IInv, Close
  PROVE  \/ \E o \in Offs : Abs!Abandon(o)
         \/ UNCHANGED <<Rows(tran), PendingOffs>>
<1> DEFINE o == Top.off
<1>1. /\ Len(stack) > 0 /\ stack' = Pop /\ UNCHANGED <<tran, failed>>
      /\ bm' = IF Pending(Top) THEN LetGo(bm, o) ELSE bm
  BY DEF Close
<1>2. Top \in Handles /\ bm \in Bitmaps /\ (Pending(Top) => o \in PendingOffs)
  BY <1>1, InnermostFacts DEF IInv, TypeOK
<1>3. bm'.used = IF Pending(Top) THEN bm.used \ {o} ELSE bm.used
  BY <1>1, <1>2, LetGoFacts
<1>4. PendingOffs' = IF Pending(Top) THEN PendingOffs \ {o} ELSE PendingOffs
  BY <1>1, <1>3, PopKeepsStack
<1>5. Rows(tran)' = Rows(tran)
  BY <1>1
<1>6. o \in Offs
  BY <1>2 DEF Handles
<1>7. CASE Pending(Top)
  <2>1. Abs!Abandon(o)
    BY <1>2, <1>4, <1>5, <1>7 DEF Abs!Abandon
  <2> QED BY <1>6, <2>1
<1>8. CASE ~Pending(Top)
  BY <1>4, <1>5, <1>8
<1> QED BY <1>7, <1>8

(* Every step of the pool is a step of the table or changes nothing. *)
LEMMA StepRefines ==
  ASSUME IInv, failed = {}, ~DiskMayFail, [Next]_vars
  PROVE  [Abs!Next]_(Abs!vars)
<1> USE DEF Abs!Next, Abs!vars
<1>1. ASSUME NEW mem \in BOOLEAN, OpenAuto(mem) PROVE Abs!Next
  <2>1. PICK o \in Grants(bm, mem) : stack' = Push("ACQUIRE_AUTO", o, None)
    BY <1>1 DEF OpenAuto
  <2>2. bm \in Bitmaps /\ bm.top <= bm.size
    BY DEF IInv, TypeOK, TopIsSound
  <2>3. o \in Offs /\ o \notin bm.used
    BY <2>2, AcquireFacts
  <2>4. UNCHANGED tran /\ "ACQUIRE_AUTO" \in Acquires
    BY <1>1 DEF OpenAuto, Acquires
  <2>5. Abs!Reserve(o)
    BY <2>1, <2>3, <2>4, OpenRefines
  <2> QED BY <2>3, <2>5
<1>2. ASSUME NEW o \in Offs, OpenSpec(o) PROVE Abs!Next
  <2>1. /\ o \notin bm.used /\ stack' = Push("ACQUIRE_SPEC", o, None) /\ UNCHANGED tran
        /\ "ACQUIRE_SPEC" \in Acquires
    BY <1>2 DEF OpenSpec, Acquires
  <2>2. Abs!Reserve(o)
    BY <2>1, OpenRefines
  <2> QED BY <2>2
<1>3. ASSUME NEW o \in Offs, NEW op \in {"RELEASE", "MODIFY", "READONLY"},
             OpenExisting(op, o)
      PROVE  UNCHANGED Abs!vars
  <2> DEFINE w == IF op = "RELEASE" THEN None ELSE arr[o]
             h == [op |-> op, off |-> o, val |-> w, phase |-> "open"]
  <2>1. w \in Vals \cup {None}
    BY DEF IInv, TypeOK
  <2>2. stack' = Append(stack, h) /\ UNCHANGED tran
    BY <1>3 DEF Push, OpenExisting
  <2> HIDE DEF w
  <2>3. h \in Handles /\ ~Pending(h)
    BY <2>1 DEF Handles, Ops, Acquires, Pending
  <2> HIDE DEF h
  <2>4. PendingIn(Append(stack, h)) =
          PendingIn(stack) \cup (IF Pending(h) THEN {h.off} ELSE {})
    BY <2>3, TableFacts, PushFacts
  <2>5. PendingOffs' = PendingOffs
    BY <2>2, <2>3, <2>4 DEF PendingOffs
  <2> QED BY <2>2, <2>5
<1>4. ASSUME NEW v \in Vals, Store(v) PROVE UNCHANGED Abs!vars
  BY <1>4, StoreRefines
<1>5. CASE LogPlus
  BY <1>5, LogPlusRefines
<1>6. CASE LogFreed
  BY <1>6, LogFreedRefines
<1>7. CASE LogMinus
  BY <1>7, LogMinusRefines
<1>8. CASE WriteFails
  BY <1>8 DEF WriteFails
<1>9. CASE Close
  BY <1>9, CloseRefines
<1>10. CASE Restart
  <2>1. Len(stack') = 0 /\ UNCHANGED tran
    BY <1>10 DEF Restart
  <2>2. PendingOffs' = {} /\ Rows(tran)' = Rows(tran)
    BY <2>1 DEF PendingOffs, PendingIn
  <2>3. Abs!Restart
    BY <2>2 DEF Abs!Restart
  <2> QED BY <2>3
<1>11. CASE StoreFails
  BY <1>11 DEF StoreFails
<1>12. CASE UNCHANGED vars
  BY <1>12 DEF vars, PendingOffs
<1> QED BY <1>1, <1>2, <1>3, <1>4, <1>5, <1>6, <1>7, <1>8, <1>9, <1>10, <1>11, <1>12 DEF Next

(* With a disk that takes every log write, an IDPool behaves as the table  *)
(* of IdTableSpec: commits and releases are single steps, and a crash at   *)
(* any point loses the open reservations and nothing else.                 *)
THEOREM PoolImplementsTable ==
  ASSUME ~DiskMayFail
  PROVE  Spec => AbsSpec
<1>1. IInv /\ Unfailed /\ [Next]_vars => [Abs!Next]_(Abs!vars)
  BY StepRefines DEF Unfailed
<1> QED BY <1>1, InitRefines, Invariance, NeverFailed, PTL DEF Spec, AbsSpec, Abs!Spec

-----------------------------------------------------------------------------
(* The replay loop.  FoldLeft is a recursive function over the sets of the  *)
(* records' places, so that it computes anything at all, and what, is shown *)
(* by hand: a solution of its equation is built a place at a time.          *)

(* What the loop computes at a set of places from what f holds for the rest. *)
LoopTurn(f, t, b) ==
  [s \in SUBSET (DOMAIN t) |->
     IF s = {} THEN b ELSE ReplayStep(f[s \ {Max(s)}], t[Max(s)])]

(* f solves the equation of the loop for the first k records. *)
Solves(f, t, b, k) ==
  f = [s \in SUBSET (1..k) |->
         IF s = {} THEN b ELSE ReplayStep(f[s \ {Max(s)}], t[Max(s)])]

(* One record more leaves the equation solvable.                            *)
LEMMA OneMoreSolved ==
  ASSUME NEW t, NEW b, NEW k \in Nat, NEW f, Solves(f, t, b, k)
  PROVE  \E g : Solves(g, t, b, k + 1)
<1> DEFINE g == [s \in SUBSET (1..(k + 1)) |->
                   IF k + 1 \in s THEN ReplayStep(f[s \ {k + 1}], t[k + 1]) ELSE f[s]]
           h == [s \in SUBSET (1..(k + 1)) |->
                   IF s = {} THEN b ELSE ReplayStep(g[s \ {Max(s)}], t[Max(s)])]
<1>1. ASSUME NEW s \in SUBSET (1..(k + 1)) PROVE g[s] = h[s]
  <2>1. CASE k + 1 \in s
    <3>1. Max(s) = k + 1
      <4>1. \A y \in s : k + 1 >= y
        OBVIOUS
      <4>2. \A x \in s : (\A y \in s : x >= y) => x = k + 1
        BY <2>1
      <4> QED BY <2>1, <4>1, <4>2 DEF Max
    <3>2. s \ {k + 1} \in SUBSET (1..(k + 1)) /\ k + 1 \notin s \ {k + 1}
      OBVIOUS
    <3>3. g[s \ {k + 1}] = f[s \ {k + 1}]
      BY <3>2
    <3>4. g[s] = ReplayStep(f[s \ {k + 1}], t[k + 1])
      BY <2>1
    <3>5. h[s] = ReplayStep(g[s \ {Max(s)}], t[Max(s)])
      <4> HIDE DEF g
      <4> QED BY <2>1
    <3> HIDE DEF g, h
    <3> QED BY <3>1, <3>3, <3>4, <3>5
  <2>2. CASE k + 1 \notin s
    <3> DEFINE m == Max(s)
    <3> HIDE DEF m
    <3>1. s \in SUBSET (1..k) /\ s \ {m} \in SUBSET (1..k)
      <4>1. \A x \in 1..(k + 1) : x # k + 1 => x \in 1..k
        OBVIOUS
      <4> QED BY <2>2, <4>1
    <3>2. g[s] = f[s]
      BY <2>2
    <3>3. g[s \ {m}] = f[s \ {m}]
      BY <2>2
    <3>4. f[s] = IF s = {} THEN b ELSE ReplayStep(f[s \ {m}], t[m])
      BY <3>1 DEF Solves, m
    <3>5. h[s] = IF s = {} THEN b ELSE ReplayStep(g[s \ {m}], t[m])
      <4> HIDE DEF g
      <4> QED BY DEF m
    <3> HIDE DEF g, h
    <3> QED BY <3>2, <3>3, <3>4, <3>5
  <2> QED BY <2>1, <2>2
<1>2. g = h
  <2>1. g = [s \in SUBSET (1..(k + 1)) |-> g[s]]
    OBVIOUS
  <2>2. h = [s \in SUBSET (1..(k + 1)) |-> h[s]]
    OBVIOUS
  <2> HIDE DEF g, h
  <2> QED BY <1>1, <2>1, <2>2
<1> HIDE DEF g
<1>3. Solves(g, t, b, k + 1)
  BY <1>2 DEF Solves
<1> QED BY <1>3

(* So it is solvable for every log.                                         *)
LEMMA LoopSolvable ==
  ASSUME NEW t \in Seq(Records), NEW b
  PROVE  \E f : f = LoopTurn(f, t, b)
<1> DEFINE Bad == {k \in Nat : ~ \E f : Solves(f, t, b, k)}
<1>1. SUFFICES ASSUME Bad # {} PROVE FALSE
  <2>1. DOMAIN t = 1..Len(t) /\ Len(t) \in Nat
    OBVIOUS
  <2>2. PICK f : Solves(f, t, b, Len(t))
    BY <1>1, <2>1
  <2> QED BY <2>1, <2>2 DEF Solves, LoopTurn
<1>2. PICK k \in Bad : \A y \in Bad : k <= y
  <2>1. Bad \in SUBSET Nat
    OBVIOUS
  <2> HIDE DEF Bad
  <2> QED BY <1>1, <2>1, LeastElement
<1>3. CASE k = 0
  <2> DEFINE f == [s \in SUBSET (1..0) |-> b]
  <2>1. SUBSET (1..0) = {{}}
    OBVIOUS
  <2>2. Solves(f, t, b, 0)
    BY <2>1 DEF Solves
  <2> QED BY <1>3, <2>2
<1>4. CASE k > 0
  <2>1. k - 1 \in Nat /\ k - 1 \notin Bad
    BY <1>2, <1>4
  <2>2. PICK f : Solves(f, t, b, k - 1)
    BY <2>1
  <2>3. \E g : Solves(g, t, b, (k - 1) + 1)
    BY <2>1, <2>2, OneMoreSolved
  <2>4. (k - 1) + 1 = k
    OBVIOUS
  <2> QED BY <2>3, <2>4
<1> QED BY <1>2, <1>3, <1>4

(* The states of the loop, after each number of records: what FoldLeft      *)
(* returns is the last of them.                                             *)
LEMMA LoopStates ==
  ASSUME NEW t \in Seq(Records), NEW b
  PROVE  \E q : /\ q[0] = b
                /\ \A k \in 0..(Len(t) - 1) : q[k + 1] = ReplayStep(q[k], t[k + 1])
                /\ FoldLeft(ReplayStep, b, t) = q[Len(t)]
<1> DEFINE f == CHOOSE g : g = LoopTurn(g, t, b)
           q == [k \in 0..Len(t) |-> f[1..k]]
<1>1. f = LoopTurn(f, t, b)
  BY LoopSolvable
<1>2. FoldLeft(ReplayStep, b, t) = f[DOMAIN t]
  BY DEF FoldLeft, MapThenFoldSet, LoopTurn
<1> HIDE DEF f
<1>3. DOMAIN t = 1..Len(t) /\ Len(t) \in Nat
  OBVIOUS
<1>4. f[1..0] = b
  <2>1. 1..0 = {} /\ {} \in SUBSET (DOMAIN t)
    OBVIOUS
  <2>2. LoopTurn(f, t, b)[{}] = b
    BY <2>1 DEF LoopTurn
  <2> QED BY <1>1, <2>1, <2>2
<1>5. ASSUME NEW k \in 0..(Len(t) - 1)
      PROVE  f[1..(k + 1)] = ReplayStep(f[1..k], t[k + 1])
  <2>1. /\ 1..(k + 1) \in SUBSET (DOMAIN t) /\ 1..(k + 1) # {}
        /\ (1..(k + 1)) \ {k + 1} = 1..k /\ k + 1 \in 1..(k + 1)
    <3>1. k \in Nat /\ k + 1 <= Len(t)
      BY <1>3
    <3>2. k + 1 \in 1..(k + 1) /\ \A x \in 1..(k + 1) : x \in 1..Len(t)
      BY <1>3, <3>1
    <3>3. (1..(k + 1)) \ {k + 1} = 1..k
      BY <3>1
    <3> QED BY <1>3, <3>2, <3>3
  <2>2. Max(1..(k + 1)) = k + 1
    <3>1. \A y \in 1..(k + 1) : k + 1 >= y
      OBVIOUS
    <3>2. \A x \in 1..(k + 1) : (\A y \in 1..(k + 1) : x >= y) => x = k + 1
      BY <2>1
    <3> QED BY <2>1, <3>1, <3>2 DEF Max
  <2>3. LoopTurn(f, t, b)[1..(k + 1)] =
          ReplayStep(f[(1..(k + 1)) \ {Max(1..(k + 1))}], t[Max(1..(k + 1))])
    BY <2>1 DEF LoopTurn
  <2> QED BY <1>1, <2>1, <2>2, <2>3
<1>6. /\ q[0] = b
      /\ \A k \in 0..(Len(t) - 1) : q[k + 1] = ReplayStep(q[k], t[k + 1])
      /\ FoldLeft(ReplayStep, b, t) = q[Len(t)]
  BY <1>2, <1>3, <1>4, <1>5
<1> HIDE DEF q
<1> QED BY <1>6

(* One more acquisition decides the value left for its offset, and a        *)
(* release decides none.                                                    *)
LEMMA LeavesAppend ==
  ASSUME NEW t \in Seq(Records), NEW r \in Records, NEW o, NEW v
  PROVE  LeavesValue(Append(t, r), o, v) <=>
           IF r.op = "+" /\ r.off = o THEN r.val = v ELSE LeavesValue(t, o, v)
<1> DEFINE u == Append(t, r)
<1>1. /\ Len(t) \in Nat
      /\ Len(u) = Len(t) + 1
      /\ \A i \in 1..Len(t) : u[i] = t[i]
      /\ u[Len(t) + 1] = r
  BY AppendFacts
<1> HIDE DEF u
<1>2. CASE r.op = "+" /\ r.off = o
  BY <1>1, <1>2 DEF LeavesValue
<1>3. CASE ~(r.op = "+" /\ r.off = o)
  <2>1. ASSUME LeavesValue(u, o, v) PROVE LeavesValue(t, o, v)
    BY <1>1, <1>3, <2>1 DEF LeavesValue
  <2>2. ASSUME LeavesValue(t, o, v) PROVE LeavesValue(u, o, v)
    <3>1. PICK i \in 1..Len(t) : /\ t[i].op = "+" /\ t[i].off = o /\ t[i].val = v
                                 /\ \A j \in (i + 1)..Len(t) : t[j].op = "+" => t[j].off # o
      BY <2>2 DEF LeavesValue
    <3>2. i \in 1..Len(u) /\ u[i] = t[i]
      BY <1>1
    <3>3. \A j \in (i + 1)..Len(u) : u[j].op = "+" => u[j].off # o
      BY <1>1, <1>3, <3>1
    <3> QED BY <3>1, <3>2, <3>3 DEF LeavesValue
  <2> QED BY <1>3, <2>1, <2>2 DEF u
<1> QED BY <1>2, <1>3 DEF u

(* The state r of the loop is what IdPool says of the log u it has read.    *)
Agrees(u, a, r) ==
  /\ r.hi \in Nat
  /\ IsHi(u, r.hi)
  /\ r = [size |-> IF r.hi > InitSize THEN r.hi ELSE InitSize, live |-> Live(u),
          val |-> Restored(u, a), hi |-> r.hi]

(* The mark after one more record.                                          *)
LEMMA HiAppend ==
  ASSUME NEW t \in Seq(Records), NEW r \in Records, NEW h \in Nat, IsHi(t, h)
  PROVE  IsHi(Append(t, r), IF r.op = "+" /\ h <= r.off THEN r.off + 1 ELSE h)
<1> DEFINE u == Append(t, r)
           n == IF r.op = "+" /\ h <= r.off THEN r.off + 1 ELSE h
<1>1. /\ Len(t) \in Nat
      /\ Len(u) = Len(t) + 1
      /\ \A i \in 1..Len(t) : u[i] = t[i]
      /\ u[Len(t) + 1] = r
  BY AppendFacts
<1>2. /\ r.off \in Nat /\ \A i \in 1..Len(t) : t[i].off \in Nat
      /\ \A i \in 1..Len(u) : i \in 1..Len(t) \/ i = Len(t) + 1
  <2>1. \A x \in Records : x.off \in Offs
    BY DEF Records
  <2>2. Offs \subseteq Nat
    BY TableAssumption DEF Offs
  <2>3. \A i \in 1..Len(t) : t[i] \in Records
    OBVIOUS
  <2>4. \A i \in 1..Len(u) : i \in 1..Len(t) \/ i = Len(t) + 1
    <3> HIDE DEF u
    <3> QED BY <1>1
  <2> QED BY <2>1, <2>2, <2>3, <2>4
<1> HIDE DEF u
<1>3. n \in Nat /\ h <= n /\ (r.op = "+" => r.off < n)
  BY <1>2
<1>4. ASSUME NEW i \in 1..Len(u), u[i].op = "+" PROVE u[i].off < n
  <2>1. CASE i \in 1..Len(t)
    BY <1>1, <1>2, <1>3, <1>4, <2>1 DEF IsHi
  <2>2. CASE i = Len(t) + 1
    BY <1>1, <1>3, <1>4, <2>2
  <2> QED BY <1>2, <2>1, <2>2
<1>5. n = 0 \/ \E i \in 1..Len(u) : u[i].op = "+" /\ u[i].off = n - 1
  <2>1. CASE r.op = "+" /\ h <= r.off
    <3>1. Len(t) + 1 \in 1..Len(u) /\ n = r.off + 1
      BY <1>1, <2>1
    <3>2. n - 1 = r.off
      BY <1>2, <3>1
    <3> QED BY <1>1, <2>1, <3>1, <3>2
  <2>2. CASE ~(r.op = "+" /\ h <= r.off)
    <3>1. n = h
      BY <2>2
    <3>2. CASE h # 0
      <4>1. PICK i \in 1..Len(t) : t[i].op = "+" /\ t[i].off = h - 1
        BY <3>2 DEF IsHi
      <4> QED BY <1>1, <3>1, <4>1
    <3> QED BY <3>1, <3>2
  <2> QED BY <2>1, <2>2
<1> HIDE DEF n
<1> QED BY <1>4, <1>5 DEF IsHi, u, n

(* One turn of the loop keeps it so.                                        *)
LEMMA TurnAgrees ==
  ASSUME NEW t \in Seq(Records), NEW a, NEW s, Agrees(t, a, s),
         NEW r \in Records, r.op = "+" => r.val \in Vals
  PROVE  Agrees(Append(t, r), a, ReplayStep(s, r))
<1> DEFINE u == Append(t, r)
<1>1. /\ r.off \in Offs /\ r.off \in Nat /\ r.op \in {"+", "-"}
      /\ InitSize \in Nat /\ InitSize > 0 /\ s.hi \in Nat
  BY TableAssumption DEF Records, Offs, Agrees
<1>2. \A o, v : Says(u, o, v) <=> IF r.off = o THEN r.op = "+" /\ r.val = v ELSE Says(t, o, v)
  BY SaysAppend
<1>3. \A o, v : LeavesValue(u, o, v) <=>
                  IF r.op = "+" /\ r.off = o THEN r.val = v ELSE LeavesValue(t, o, v)
  BY LeavesAppend
<1>4. IsHi(u, IF r.op = "+" /\ s.hi <= r.off THEN r.off + 1 ELSE s.hi)
  BY <1>1, HiAppend DEF Agrees
<1> HIDE DEF u
<1>5. CASE r.op = "+"
  <2> DEFINE hi == IF s.hi <= r.off THEN r.off + 1 ELSE s.hi
  <2>1. Live(u) = Live(t) \cup {r.off}
    BY <1>1, <1>2, <1>5 DEF Live
  <2>2. Restored(u, a) = [Restored(t, a) EXCEPT ![r.off] = r.val]
    <3>1. ASSUME NEW o \in Offs
          PROVE  Restored(u, a)[o] = [Restored(t, a) EXCEPT ![r.off] = r.val][o]
      <4>1. CASE o = r.off
        <5>1. \A v : LeavesValue(u, o, v) <=> r.val = v
          BY <1>3, <1>5, <4>1
        <5>2. ValueLeft(u, o) = r.val
          BY <1>5, <5>1 DEF ValueLeft
        <5>3. \E v \in Vals : LeavesValue(u, o, v)
          BY <1>5, <5>1
        <5> QED BY <4>1, <5>2, <5>3 DEF Restored
      <4>2. CASE o # r.off
        <5>1. \A v : LeavesValue(u, o, v) <=> LeavesValue(t, o, v)
          BY <1>3, <4>2
        <5>2. ValueLeft(u, o) = ValueLeft(t, o)
          BY <5>1 DEF ValueLeft
        <5>3. Restored(u, a)[o] = Restored(t, a)[o]
          BY <5>1, <5>2 DEF Restored
        <5> QED BY <4>2, <5>3 DEF Restored
      <4> QED BY <4>1, <4>2
    <3> QED BY <3>1 DEF Restored
  <2>3. ReplayStep(s, r) =
          [size |-> IF s.size <= r.off THEN r.off + 1 ELSE s.size,
           live |-> s.live \cup {r.off}, val |-> [s.val EXCEPT ![r.off] = r.val],
           hi |-> hi]
    BY <1>5 DEF ReplayStep
  <2>4. (IF s.size <= r.off THEN r.off + 1 ELSE s.size) =
          IF hi > InitSize THEN hi ELSE InitSize
    <3>1. s.size = IF s.hi > InitSize THEN s.hi ELSE InitSize
      BY DEF Agrees
    <3> QED BY <1>1, <3>1
  <2>5. hi \in Nat /\ IsHi(u, hi)
    BY <1>1, <1>4, <1>5
  <2>6. s.live = Live(t) /\ s.val = Restored(t, a)
    BY DEF Agrees
  <2> DEFINE w == ReplayStep(s, r)
  <2> HIDE DEF hi
  <2>7. w = [size |-> IF hi > InitSize THEN hi ELSE InitSize, live |-> Live(u),
             val |-> Restored(u, a), hi |-> hi]
    BY <2>1, <2>2, <2>3, <2>4, <2>6
  <2>8. w.hi = hi
    BY <2>7
  <2> HIDE DEF w
  <2>9. Agrees(u, a, w)
    BY <2>5, <2>7, <2>8 DEF Agrees
  <2> QED BY <2>9 DEF u, w
<1>6. CASE r.op = "-"
  <2>1. Live(u) = Live(t) \ {r.off}
    BY <1>1, <1>2, <1>6 DEF Live
  <2>2. Restored(u, a) = Restored(t, a)
    <3>1. \A o, v : LeavesValue(u, o, v) <=> LeavesValue(t, o, v)
      BY <1>3, <1>6
    <3>2. \A o : ValueLeft(u, o) = ValueLeft(t, o)
      BY <3>1 DEF ValueLeft
    <3> QED BY <3>1, <3>2 DEF Restored
  <2>3. ReplayStep(s, r) = [s EXCEPT !.live = @ \ {r.off}]
    BY <1>6 DEF ReplayStep
  <2>4. IsHi(u, s.hi)
    BY <1>4, <1>6
  <2> DEFINE w == ReplayStep(s, r)
             h == s.hi
  <2>5. /\ h \in Nat
        /\ s = [size |-> IF h > InitSize THEN h ELSE InitSize, live |-> Live(t),
                val |-> Restored(t, a), hi |-> h]
    BY DEF Agrees
  <2> HIDE DEF h
  <2>6. w = [size |-> IF h > InitSize THEN h ELSE InitSize, live |-> Live(u),
             val |-> Restored(u, a), hi |-> h]
    BY <2>1, <2>2, <2>3, <2>5
  <2>7. w.hi = h
    BY <2>6
  <2> HIDE DEF w
  <2>8. Agrees(u, a, w)
    BY <2>4, <2>5, <2>6, <2>7 DEF Agrees, h
  <2> QED BY <2>8 DEF u, w
<1> QED BY <1>1, <1>5, <1>6

(* The first records of a log, and one more.                                *)
LEMMA PrefixGrows ==
  ASSUME NEW t \in Seq(Records), NEW k \in 0..(Len(t) - 1)
  PROVE  /\ SubSeq(t, 1, k) \in Seq(Records)
         /\ t[k + 1] \in Records
         /\ SubSeq(t, 1, k + 1) = Append(SubSeq(t, 1, k), t[k + 1])
<1>1. Len(t) \in Nat /\ k \in Nat /\ k + 1 \in 1..Len(t) /\ 1 \in 1..Len(t)
  OBVIOUS
<1>2. \A i \in 1..k : t[i] \in Records
  BY <1>1
<1>3. SubSeq(t, 1, k) \in Seq(Records)
  BY <1>1, <1>2, SubSeqProperties
<1>4. SubSeq(t, 1, k + 1) = SubSeq(t, 1, (k + 1) - 1) \o <<t[k + 1]>>
  <2>1. k + 1 \in 1..Len(t)
    BY <1>1
  <2> QED BY <1>1, <2>1, SubSeqRecursiveSecond
<1>5. (k + 1) - 1 = k /\ t[k + 1] \in Records
  BY <1>1
<1>6. SubSeq(t, 1, k) \o <<t[k + 1]>> = Append(SubSeq(t, 1, k), t[k + 1])
  BY <1>3, <1>5
<1> QED BY <1>3, <1>4, <1>5, <1>6

(* The loop agrees with IdPool on every log whose acquisitions have values. *)
LEMMA LoopAgrees ==
  ASSUME NEW t \in Seq(Records), NEW a \in [Offs -> Vals \cup {None}],
         \A i \in 1..Len(t) : t[i].op = "+" => t[i].val \in Vals
  PROVE  Agrees(t, a, Replay(t, a))
<1> DEFINE b == [size |-> InitSize, live |-> {}, val |-> a, hi |-> 0]
<1>1. PICK q : /\ q[0] = b
               /\ \A k \in 0..(Len(t) - 1) : q[k + 1] = ReplayStep(q[k], t[k + 1])
               /\ FoldLeft(ReplayStep, b, t) = q[Len(t)]
  BY LoopStates
<1> DEFINE Bad == {k \in 0..Len(t) : ~Agrees(SubSeq(t, 1, k), a, q[k])}
<1>2. Len(t) \in Nat /\ SubSeq(t, 1, Len(t)) = t
  BY SubSeqFull
<1>3. SUFFICES ASSUME Bad # {} PROVE FALSE
  <2>1. Len(t) \in 0..Len(t)
    BY <1>2
  <2>2. Agrees(t, a, q[Len(t)])
    BY <1>2, <1>3, <2>1
  <2>3. Replay(t, a) = q[Len(t)]
    BY <1>1 DEF Replay
  <2> QED BY <2>2, <2>3
<1>4. PICK k \in Bad : \A y \in Bad : k <= y
  <2>1. Bad \in SUBSET Nat
    BY <1>2
  <2> HIDE DEF Bad
  <2> QED BY <1>3, <2>1, LeastElement
<1>5. CASE k = 0
  <2> DEFINE e == SubSeq(t, 1, 0)
  <2>1. e = << >>
    BY SubSeqEmpty
  <2>2. Len(e) = 0
    BY <2>1
  <2> HIDE DEF e
  <2>3. Live(e) = {} /\ IsHi(e, 0) /\ Restored(e, a) = a
    <3>1. \A o, v : ~Says(e, o, v) /\ ~LeavesValue(e, o, v)
      BY <2>2 DEF Says, LeavesValue
    <3> QED BY <2>2, <3>1 DEF Live, IsHi, Restored
  <2>4. Agrees(e, a, b)
    <3>1. InitSize \in Nat /\ ~(0 > InitSize)
      BY TableAssumption
    <3> QED BY <2>3, <3>1 DEF Agrees
  <2> HIDE DEF b
  <2> QED BY <1>1, <1>5, <2>4 DEF e
<1>6. CASE k > 0
  <2> DEFINE j == k - 1
  <2>1. j \in 0..(Len(t) - 1) /\ j + 1 = k /\ j \in 0..Len(t) /\ j \notin Bad
    BY <1>2, <1>4, <1>6
  <2> HIDE DEF j
  <2>2. Agrees(SubSeq(t, 1, j), a, q[j])
    BY <2>1
  <2>3. /\ SubSeq(t, 1, j) \in Seq(Records) /\ t[j + 1] \in Records
        /\ SubSeq(t, 1, j + 1) = Append(SubSeq(t, 1, j), t[j + 1])
    BY <2>1, PrefixGrows
  <2>4. t[j + 1].op = "+" => t[j + 1].val \in Vals
    BY <1>2, <2>1
  <2>5. Agrees(SubSeq(t, 1, j + 1), a, ReplayStep(q[j], t[j + 1]))
    BY <2>2, <2>3, <2>4, TurnAgrees
  <2> QED BY <1>1, <2>1, <2>5
<1> QED BY <1>2, <1>4, <1>5, <1>6

(* The loop of replay_transaction() computes, for every log a pool has      *)
(* written, the bitmap, the values and the mark that Restart installs.      *)
THEOREM ReplayLoopIsRight == Spec => []ReplayLoopAgrees
<1>1. IInv => ReplayLoopAgrees
  <2> SUFFICES ASSUME IInv PROVE ReplayLoopAgrees
    OBVIOUS
  <2>1. /\ tran \in Seq(Records) /\ arr \in [Offs -> Vals \cup {None}]
        /\ \A i \in 1..Len(tran) : tran[i].op = "+" => tran[i].val \in Vals
    BY DEF IInv, TypeOK, LogSound
  <2>2. Agrees(tran, arr, Replay(tran, arr))
    BY <2>1, LoopAgrees
  <2> QED BY <2>2 DEF ReplayLoopAgrees, Agrees, Reopened
<1> QED BY <1>1, Invariance, PTL
=============================================================================

------------------------------- MODULE IdWalk -------------------------------
(***************************************************************************)
(* AddrIterator (detail/addr_iter.cpp) over the table of global ids, while *)
(* put() and del() change the table between its steps, and full().         *)
(*                                                                         *)
(* An iterator is an id and a pointer to the database; it holds no lock    *)
(* and registers nowhere, so it may point to an id that has been released, *)
(* and to a bitmap that has grown since.                                   *)
(***************************************************************************)
EXTENDS IdTable

CONSTANTS
  Beg,         \* beg_ of the pool, Config::beg
  None,        \* no iterator has been made
  MemMayFail   \* whether growing the bitmap may run out of memory

ASSUME WalkAssumption ==
  /\ Beg \in Nat
  /\ None \notin Int
  /\ MemMayFail \in BOOLEAN

VARIABLES
  bm,      \* the bitmap of the pool
  cur,     \* cur_ of the iterator
  seen,    \* history: the ids the walk has stood on
  stayed   \* history: the ids in use ever since the walk began

vars == <<bm, cur, seen, stayed>>

(* end_, which is also where a finished walk stands. *)
End == Beg + Cap

Ids == Beg..(End - 1)

UsedIds(b) == {Beg + o : o \in b.used}

(* next_used(id): the first id in use from id on, else end_.  The loop runs *)
(* up to the end of the bitmap.                                            *)
From(b, id) == {i \in UsedIds(b) : id <= i}

NextUsed(b, id) == IF From(b, id) = {} THEN {End} ELSE First(From(b, id))

(* fault: nothing is looked at beyond max_used_ *)
Avail_marked(b) == b.top < End

(* avail(): max_used_ is an offset, end() an id. *)
Avail(b) == b.top < End \/ Free(b) # {}

Init ==
  /\ bm = Fresh
  /\ cur = None
  /\ seen = {}
  /\ stayed = {}

-----------------------------------------------------------------------------
(* begin(), on a new iterator or one whose walk is over. *)
Begin ==
  /\ cur \in {None, End}
  /\ \E n \in NextUsed(bm, Beg) :
       /\ cur' = n
       /\ seen' = {n} \ {End}
  /\ stayed' = UsedIds(bm)
  /\ UNCHANGED bm

(* fault: the search begins at the present id *)
Advance_again ==
  /\ cur \in Ids
  /\ \E n \in NextUsed(bm, cur) :
       /\ cur' = n
       /\ seen' = (seen \cup {n}) \ {End}
  /\ UNCHANGED <<bm, stayed>>

(* fault: the step is taken before and after the test *)
Advance_twice ==
  /\ cur \in Ids
  /\ \E n \in NextUsed(bm, cur + 2) :
       /\ cur' = n
       /\ seen' = (seen \cup {n}) \ {End}
  /\ UNCHANGED <<bm, stayed>>

(* fault: a walk at the last id in use begins again *)
Advance_round ==
  /\ cur \in Ids
  /\ \E n \in NextUsed(bm, IF From(bm, cur + 1) = {} THEN Beg ELSE cur + 1) :
       /\ cur' = n
       /\ seen' = (seen \cup {n}) \ {End}
  /\ UNCHANGED <<bm, stayed>>

(* operator++; at end() it is not called. *)
Advance ==
  /\ cur \in Ids
  /\ \E n \in NextUsed(bm, cur + 1) :
       /\ cur' = n
       /\ seen' = (seen \cup {n}) \ {End}
  /\ UNCHANGED <<bm, stayed>>

(* put(): put to a full table throws; Acquire() may throw for want of      *)
(* memory.                                                                 *)
Put(mem) ==
  /\ ~mem => MemMayFail
  /\ Avail(bm)
  /\ \E o \in Grants(bm, mem) : bm' = AfterAcquire(bm, mem, o)
  /\ UNCHANGED <<cur, seen, stayed>>

(* fault: the bitmap is not extended *)
PutAt_unextended(o) ==
  /\ o \notin bm.used
  /\ bm' = Hold(bm, o)
  /\ UNCHANGED <<cur, seen, stayed>>

(* put() at an address of its own choice. *)
PutAt(o) ==
  /\ o \notin bm.used
  /\ CanHoldAt(bm, o, TRUE)
  /\ bm' = AfterAcquireAt(bm, o)
  /\ UNCHANGED <<cur, seen, stayed>>

Del(o) ==
  /\ o \in bm.used
  /\ bm' = LetGo(bm, o)
  /\ stayed' = stayed \ {Beg + o}
  /\ UNCHANGED <<cur, seen>>

Next ==
  \/ Begin
  \/ Advance
  \/ \E mem \in BOOLEAN : Put(mem)
  \/ \E o \in Offs : PutAt(o) \/ Del(o)

(* The client's loop goes on: while(iter != bdb.end()) ++iter. *)
Spec == Init /\ [][Next]_vars /\ WF_vars(Advance)

-----------------------------------------------------------------------------
(* Properties. *)

TypeOK ==
  /\ bm \in Bitmaps
  /\ cur \in Ids \cup {None, End}
  /\ seen \subseteq Ids
  /\ stayed \subseteq Ids

(* However the table changes under it, a walk never passes an id that has  *)
(* been in use since it began: at end() it has stood on all of them.       *)
NothingSkipped ==
  cur # None => \A i \in stayed : i <= cur => i \in seen

(* operator++ never looks beyond the bitmap, where the loop of next_used() *)
(* would not find its end: an id that was released, or was the last one,   *)
(* is still a place from which the search can begin.                       *)
NeverStrands ==
  cur \in Ids => cur + 1 - Beg <= bm.size

(* A walk only goes forward, so it stands on no id twice, also when an id  *)
(* it has left is released and given out again.                            *)
GoesForward ==
  [][cur' # cur /\ cur \in Ids => cur' > cur]_vars

(* full() is never claimed while put() could get an id. *)
FullMeansFull == ~Avail(bm) => \A mem \in BOOLEAN : Grants(bm, mem) = {}

(* And, for a range that begins at 0, it is claimed as soon as none is     *)
(* left.  With beg_ = 1 it never is: the offsets stay below end_.          *)
FullIsTrue ==
  /\ FullMeansFull
  /\ Beg = 0 /\ Avail(bm) => Grants(bm, TRUE) # {}

(* A walk comes to its end, whatever put() and del() do meanwhile. *)
WalkEnds == (cur \in Ids) ~> (cur = End)
=============================================================================

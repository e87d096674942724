------------------------------ MODULE IdTable ------------------------------
(***************************************************************************)
(* The bitmap allocator inside IDPool (detail/id_pool_def.hpp): which      *)
(* offsets of [beg_, end_) are in use and which one Acquire() hands out.   *)
(*                                                                         *)
(* A bitmap is a record                                                    *)
(*   size : bm_.size(), the number of bits the bitmap has at present       *)
(*   used : the offsets whose bit is false (acquired)                      *)
(*   top  : max_used_, one past the highest offset ever acquired           *)
(*                                                                         *)
(* An id is beg_ + offset; this module speaks of offsets only.             *)
(* Both users of IDPool instantiate it: the chunk pools and the table of   *)
(* global ids.                                                             *)
(***************************************************************************)
EXTENDS Integers

CONSTANTS
  Cap,       \* end_ - beg_: the size the bitmap may never exceed
  InitSize   \* bits of a fresh bitmap: Cap halved until it is at most 1024;
             \* equal to Cap for the allocation policy "full"

ASSUME TableAssumption ==
  /\ Cap \in Nat \ {0}
  /\ InitSize \in 1..Cap

Offs == 0 .. (Cap - 1)

Bitmaps == [size : 1..Cap, used : SUBSET Offs, top : 0..Cap]

(* A pool whose transaction log is empty. *)
Fresh == [size |-> InitSize, used |-> {}, top |-> 0]

Free(b) == (0 .. (b.size - 1)) \ b.used

(* The set that holds the least element of S, empty when S is. *)
First(S) == {o \in S : \A p \in S : o <= p}

(* What bm_.find_next(max_used_ - 1) searches: free bits not below top. *)
Above(b) == {o \in Free(b) : b.top <= o}

-----------------------------------------------------------------------------
(* extend(): one growth step, by a half and never beyond Cap.  It throws    *)
(* addr_overflow when the bitmap is already Cap bits or memory runs out     *)
(* (mem = FALSE stands for the bad_alloc that extend() turns into it).      *)

CanExtend(b, mem) == b.size < Cap /\ mem

GrownSize(b) ==
  LET n == 2 * b.size - (b.size \div 2)
  IN  IF n > Cap THEN Cap ELSE n

Extend(b) == [b EXCEPT !.size = GrownSize(b)]

(* extend(n), the growth Acquire(id) and the replay ask for: exactly n.     *)
ExtendTo(b, n) == [b EXCEPT !.size = IF n > b.size THEN n ELSE b.size]

(* fault: the mark moves one place too far *)
Hold_overshooting(b, o) == [b EXCEPT !.used = @ \cup {o},
                                     !.top  = IF o >= @ THEN o + 2 ELSE @]

(* Clear the bit of o and advance max_used_ past it. *)
Hold(b, o) == [b EXCEPT !.used = @ \cup {o},
                        !.top  = IF o >= @ THEN o + 1 ELSE @]

LetGo(b, o) == [b EXCEPT !.used = @ \ {o}]

-----------------------------------------------------------------------------
(* Acquire(): above top if there is a free bit, else above top after        *)
(* growing, else the lowest free bit; no offset at all is addr_overflow.    *)

Room(b, mem) == IF Above(b) = {} /\ CanExtend(b, mem) THEN Extend(b) ELSE b

(* fault: the lowest free bit first, as a plain find_first() would do *)
Choice_lowest(b) == First(Free(b))

Choice(b) == First(IF Above(b) # {} THEN Above(b) ELSE Free(b))

(* The offsets Acquire() may return (one, or none when it throws). *)
Grants(b, mem) == Choice(Room(b, mem))

AfterAcquire(b, mem, o) == Hold(Room(b, mem), o)

(* Acquire(id): extends when the offset is beyond the bitmap. *)
CanHoldAt(b, o, mem) == o < b.size \/ CanExtend(b, mem)

AfterAcquireAt(b, o) == Hold(ExtendTo(b, o + 1), o)

(* fault: max_used_ is not rebuilt *)
Reopened_unmarked(live, hi) ==
  [size |-> IF hi > InitSize THEN hi ELSE InitSize, used |-> live, top |-> 0]

(* The bitmap a restarted pool has: the log ended with the offsets in live  *)
(* acquired, and hi is one past the highest offset the log ever acquired.   *)
Reopened(live, hi) ==
  [size |-> IF hi > InitSize THEN hi ELSE InitSize, used |-> live, top |-> hi]
=============================================================================

------------------------------- MODULE IdPool -------------------------------
(***************************************************************************)
(* IDPool (detail/id_pool_def.hpp) as its clients use it, through the      *)
(* scoped handles of detail/id_handle_def.hpp.                             *)
(*                                                                         *)
(* A pool keeps a bitmap of acquired ids (bm_), an array of values (arr_,  *)
(* the .fpo file) and an append-only transaction log (the .tran file).  A  *)
(* handle acquires, modifies or releases one id; its commit() writes the   *)
(* value and one log record, and its destructor gives an acquired id back  *)
(* when that commit never succeeded.  Handles live on the C++ stack, so    *)
(* they nest, and only the innermost one acts.                             *)
(*                                                                         *)
(* The process may stop between any two steps: Restart discards what was   *)
(* in memory and rebuilds the pool from the log, as the constructor does.  *)
(* An orderly shutdown is a Restart with no handle open.                   *)
(***************************************************************************)
EXTENDS IdTable, Sequences

CONSTANTS
  Vals,         \* values an id may carry (a chunk header, a chunk address)
  None,         \* nothing written yet
  MaxDepth,     \* bound: handles open at once (the deepest nest in the source
                \* is four: write, merge_move, merge_copy, write)
  MaxLog,       \* bound: records in the log
  DiskMayFail,  \* whether a write to the log may fail
  MemMayFail    \* whether growing the bitmap may run out of memory

ASSUME PoolAssumption ==
  /\ None \notin Vals
  /\ MaxDepth \in Nat
  /\ MaxLog \in Nat
  /\ DiskMayFail \in BOOLEAN
  /\ MemMayFail \in BOOLEAN

VARIABLES
  bm,      \* bm_ and max_used_, a record of IdTable
  arr,     \* arr_: offset -> the value last stored
  tran,    \* the .tran file, a sequence of records
  stack,   \* the open handles, the innermost last
  failed   \* history: which writes of commit() failed since the pool was
           \* opened, those of a cell of arr_ or those of a record

vars == <<bm, arr, tran, stack, failed>>

Acquires == {"ACQUIRE_AUTO", "ACQUIRE_SPEC"}
Ops == Acquires \cup {"RELEASE", "MODIFY", "READONLY"}

(* open: constructed; stored: inside Commit, the value is in arr_ and the  *)
(* record is not in the log; done: commited_ is set; refused: commit() ran *)
(* and the log write failed.                                               *)
Handles == [op : Ops, off : Offs, val : Vals \cup {None},
            phase : {"open", "stored", "done", "refused"}]

Records == [op : {"+", "-"}, off : Offs, val : Vals \cup {None}]

TypeOK ==
  /\ bm \in Bitmaps
  /\ arr \in [Offs -> Vals \cup {None}]
  /\ tran \in Seq(Records)
  /\ stack \in Seq(Handles)
  /\ failed \subseteq {"cell", "log"}

-----------------------------------------------------------------------------
(* What replay_transaction() makes of a log.  The loop reads the records in *)
(* order, so for each offset the last record that names it decides.         *)

(* fault: any record that acquires o decides, whatever follows it *)
Says_any(t, o, v) ==
  \E i \in 1..Len(t) : t[i].op = "+" /\ t[i].off = o /\ t[i].val = v

(* The last record of o in t acquires it with value v. *)
Says(t, o, v) ==
  \E i \in 1..Len(t) :
    /\ t[i].op = "+" /\ t[i].off = o /\ t[i].val = v
    /\ \A j \in (i + 1)..Len(t) : t[j].off # o

Live(t) == {o \in Offs : \E v \in Vals : Says(t, o, v)}

LastValue(t, o) == CHOOSE v \in Vals : Says(t, o, v)

Rows(t) == [o \in Offs |-> IF o \in Live(t) THEN LastValue(t, o) ELSE None]

(* arr_ after the replay: a "-" record leaves the value behind. *)
LeavesValue(t, o, v) ==
  \E i \in 1..Len(t) :
    /\ t[i].op = "+" /\ t[i].off = o /\ t[i].val = v
    /\ \A j \in (i + 1)..Len(t) : t[j].op = "+" => t[j].off # o

ValueLeft(t, o) == CHOOSE v \in Vals : LeavesValue(t, o, v)

Restored(t, a) ==
  [o \in Offs |-> IF \E v \in Vals : LeavesValue(t, o, v)
                  THEN ValueLeft(t, o) ELSE a[o]]

(* n is one past the highest offset the log acquires: max_used_ afterwards. *)
IsHi(t, n) ==
  /\ \A i \in 1..Len(t) : t[i].op = "+" => t[i].off < n
  /\ n = 0 \/ \E i \in 1..Len(t) : t[i].op = "+" /\ t[i].off = n - 1

-----------------------------------------------------------------------------
(* The handle stack. *)

Top == stack[Len(stack)]
Push(op, o, v) ==
  Append(stack, [op |-> op, off |-> o, val |-> v, phase |-> "open"])
Pop == SubSeq(stack, 1, Len(stack) - 1)

(* An acquired id that the destructor would still give back. *)
Pending(h) == h.op \in Acquires /\ h.phase # "done"
PendingIn(s) == {s[i].off : i \in {k \in 1..Len(s) : Pending(s[k])}}
PendingOffs == PendingIn(stack)

Innermost(phase) == Len(stack) > 0 /\ Top.phase = phase
MayOpen == Len(stack) < MaxDepth /\ ~Innermost("stored")

SetTop(phase) == stack' = [stack EXCEPT ![Len(stack)].phase = phase]

Init ==
  /\ bm = Fresh
  /\ arr = [o \in Offs |-> None]
  /\ tran = <<>>
  /\ stack = <<>>
  /\ failed = {}

-----------------------------------------------------------------------------
(* Constructors of id_handle. *)

OpenAuto(mem) ==
  /\ MayOpen
  /\ ~mem => MemMayFail
  /\ \E o \in Grants(bm, mem) :
       /\ bm' = AfterAcquire(bm, mem, o)
       /\ stack' = Push("ACQUIRE_AUTO", o, None)
  /\ UNCHANGED <<arr, tran, failed>>

(* fault: no isAcquired() test before the bit is cleared *)
OpenSpec_untested(o) ==
  /\ MayOpen
  /\ CanHoldAt(bm, o, TRUE)
  /\ bm' = AfterAcquireAt(bm, o)
  /\ stack' = Push("ACQUIRE_SPEC", o, None)
  /\ UNCHANGED <<arr, tran, failed>>

OpenSpec(o) ==
  /\ MayOpen
  /\ o \notin bm.used
  /\ CanHoldAt(bm, o, TRUE)
  /\ bm' = AfterAcquireAt(bm, o)
  /\ stack' = Push("ACQUIRE_SPEC", o, None)
  /\ UNCHANGED <<arr, tran, failed>>

(* A client names an id that some commit has published: nobody but its     *)
(* owner knows an id that is still pending.                                *)
OpenExisting(op, o) ==
  /\ MayOpen
  /\ o \in bm.used
  /\ o \notin PendingOffs
  /\ stack' = Push(op, o, IF op = "RELEASE" THEN None ELSE arr[o])
  /\ UNCHANGED <<bm, arr, tran, failed>>

-----------------------------------------------------------------------------
(* commit().  Commit() stores the value, then writes the record; a crash   *)
(* may separate the two.                                                   *)

(* fault: the record is prepared and the array is not written *)
Store_unsaved(v) ==
  /\ Innermost("open")
  /\ Top.op \in Acquires \cup {"MODIFY"}
  /\ Top.off \in bm.used
  /\ Len(tran) < MaxLog
  /\ stack' = [stack EXCEPT ![Len(stack)].val = v,
                            ![Len(stack)].phase = "stored"]
  /\ UNCHANGED <<bm, arr, tran, failed>>

Store(v) ==
  /\ Innermost("open")
  /\ Top.op \in Acquires \cup {"MODIFY"}
  /\ Top.off \in bm.used
  /\ Len(tran) < MaxLog
  /\ arr' = [arr EXCEPT ![Top.off] = v]
  /\ stack' = [stack EXCEPT ![Len(stack)].val = v,
                            ![Len(stack)].phase = "stored"]
  /\ UNCHANGED <<bm, tran, failed>>

(* The write of the value fails: store() throws out of Commit() before the  *)
(* record, and the cell holds the old value, the new one or a mixture.      *)
(* Nothing in the library catches the runtime_error, so the destructors of  *)
(* all open handles run.  (The stream of the array then stays in error,     *)
(* which TranLog models; here a later store may work again, which only adds *)
(* behaviours.)                                                             *)
StoreFails ==
  /\ DiskMayFail
  /\ Innermost("open")
  /\ Top.op \in Acquires \cup {"MODIFY"}
  /\ Top.off \in bm.used
  /\ \E v \in Vals : arr' = [arr EXCEPT ![Top.off] = v]
  /\ bm' = [bm EXCEPT !.used = @ \ PendingOffs]
  /\ stack' = <<>>
  /\ failed' = failed \cup {"cell"}
  /\ UNCHANGED tran

LogPlus ==
  /\ Innermost("stored")
  /\ tran' = Append(tran, [op |-> "+", off |-> Top.off, val |-> Top.val])
  /\ SetTop("done")
  /\ UNCHANGED <<bm, arr, failed>>

(* Commit() of an id that was released since the handle was made. *)
LogFreed ==
  /\ Innermost("open")
  /\ Top.op = "MODIFY"
  /\ Top.off \notin bm.used
  /\ Len(tran) < MaxLog
  /\ tran' = Append(tran, [op |-> "-", off |-> Top.off, val |-> None])
  /\ SetTop("done")
  /\ UNCHANGED <<bm, arr, failed>>

(* fault: Release() without the commit *)
LogMinus_silent ==
  /\ Innermost("open")
  /\ Top.op = "RELEASE"
  /\ Top.off \in bm.used
  /\ bm' = LetGo(bm, Top.off)
  /\ SetTop("done")
  /\ UNCHANGED <<arr, tran, failed>>

(* ReleaseAndCommit().  When the id is free already it throws instead, and *)
(* the handle is closed with nothing done.                                 *)
LogMinus ==
  /\ Innermost("open")
  /\ Top.op = "RELEASE"
  /\ Top.off \in bm.used
  /\ Len(tran) < MaxLog
  /\ bm' = LetGo(bm, Top.off)
  /\ tran' = Append(tran, [op |-> "-", off |-> Top.off, val |-> None])
  /\ SetTop("done")
  /\ UNCHANGED <<arr, failed>>

(* fault: commited_ is set whatever the log write returned *)
WriteFails_unnoticed ==
  /\ DiskMayFail
  /\ Innermost("stored")
  /\ SetTop("done")
  /\ failed' = failed \cup {"log"}
  /\ UNCHANGED <<bm, arr, tran>>

(* The log write fails.  commit() keeps the false result in commited_ and  *)
(* returns; the bitmap and the array stay as they are.                     *)
WriteFails ==
  /\ DiskMayFail
  /\ \/ /\ Innermost("stored")
        /\ UNCHANGED bm
     \/ /\ Innermost("open")
        /\ Top.op = "MODIFY"
        /\ Top.off \notin bm.used
        /\ UNCHANGED bm
     \/ /\ Innermost("open")
        /\ Top.op = "RELEASE"
        /\ Top.off \in bm.used
        /\ bm' = LetGo(bm, Top.off)
  /\ SetTop("refused")
  /\ failed' = failed \cup {"log"}
  /\ UNCHANGED <<arr, tran>>

(* fault: the destructor logs the release of an id nobody published *)
Close_logged ==
  /\ Len(stack) > 0
  /\ Top.phase # "stored"
  /\ Pending(Top)
  /\ bm' = LetGo(bm, Top.off)
  /\ tran' = Append(tran, [op |-> "-", off |-> Top.off, val |-> None])
  /\ stack' = Pop
  /\ UNCHANGED <<arr, failed>>

(* fault: the destructor does not look at commited_ *)
Close_always ==
  /\ Len(stack) > 0
  /\ Top.phase # "stored"
  /\ bm' = IF Top.op \in Acquires THEN LetGo(bm, Top.off) ELSE bm
  /\ stack' = Pop
  /\ UNCHANGED <<arr, tran, failed>>

(* The destructor. *)
Close ==
  /\ Len(stack) > 0
  /\ Top.phase # "stored"
  /\ bm' = IF Pending(Top) THEN LetGo(bm, Top.off) ELSE bm
  /\ stack' = Pop
  /\ UNCHANGED <<arr, tran, failed>>

(* The process ends, at any point, and the pool is constructed again. *)
Restart ==
  /\ \E n \in 0..Cap : IsHi(tran, n) /\ bm' = Reopened(Live(tran), n)
  /\ arr' = Restored(tran, arr)
  /\ stack' = <<>>
  /\ failed' = {}
  /\ UNCHANGED tran

Next ==
  \/ \E mem \in BOOLEAN : OpenAuto(mem)
  \/ \E o \in Offs : OpenSpec(o)
  \/ \E o \in Offs, op \in {"RELEASE", "MODIFY", "READONLY"} :
       OpenExisting(op, o)
  \/ \E v \in Vals : Store(v)
  \/ StoreFails
  \/ LogPlus
  \/ LogFreed
  \/ LogMinus
  \/ WriteFails
  \/ Close
  \/ Restart

Spec == Init /\ [][Next]_vars

-----------------------------------------------------------------------------
(* Properties. *)

(* The offsets a log has ever acquired. *)
OnceLogged(t) == {t[i].off : i \in {k \in 1..Len(t) : t[k].op = "+"}}

(* No two open handles own the same id, an id whose owner has not finished *)
(* is still marked in the bitmap (Release() asserts it), and no handle     *)
(* opened inside an acquisition works on the id being acquired.            *)
SingleOwner ==
  \A i \in 1..Len(stack) : Pending(stack[i]) =>
    /\ stack[i].off \in bm.used
    /\ \A j \in (i + 1)..Len(stack) : stack[j].off # stack[i].off

(* An id that is in use and that no open handle would give back is in the  *)
(* log: whatever writes have failed, no crash makes a published id vanish. *)
NothingLost == bm.used \ PendingOffs \subseteq Live(tran)

(* Unless a write failed, the log also holds nothing else, and the         *)
(* values in arr_ are those of the log except for the one being committed: *)
(* a restart at any point rebuilds exactly the committed table.            *)
RestartIsExact ==
  failed = {} =>
    /\ Live(tran) \subseteq bm.used \ PendingOffs
    /\ \A o \in Live(tran) :
         arr[o] = Rows(tran)[o] \/ (Innermost("stored") /\ Top.off = o)

(* Every "-" record follows a "+" record of its offset, so the replay never *)
(* clears a bit beyond the bitmap it has grown so far.                      *)
ReplayInBounds ==
  \A i \in 1..Len(tran) : tran[i].op = "-" =>
    \E j \in 1..(i - 1) : tran[j].op = "+" /\ tran[j].off = tran[i].off

(* max_used_ bounds every acquired offset and every offset the log has     *)
(* acquired, and the bitmap reaches that far: find_next(max_used_ - 1) and *)
(* the replay start from a sound mark.                                     *)
TopIsSound ==
  /\ bm.top <= bm.size
  /\ \A o \in bm.used : o < bm.top
  /\ \A i \in 1..Len(tran) : tran[i].op = "+" => tran[i].off < bm.top

(* The inductive invariant the proofs use: the properties above, and what  *)
(* a handle in the middle of its commit and the records of the log look    *)
(* like.                                                                   *)
HandlesSound ==
  \A i \in 1..Len(stack) :
    /\ stack[i].phase = "stored" =>
         /\ i = Len(stack)
         /\ stack[i].op \in Acquires \cup {"MODIFY"}
         /\ stack[i].off \in bm.used
         /\ stack[i].val \in Vals
         /\ arr[stack[i].off] = stack[i].val
    /\ stack[i].phase = "refused" => "log" \in failed

LogSound ==
  /\ \A i \in 1..Len(tran) : tran[i].op = "+" => tran[i].val \in Vals
  /\ \A i \in 1..Len(stack) : stack[i].op \notin Acquires =>
                                stack[i].off \in OnceLogged(tran)

IInv ==
  /\ TypeOK
  /\ SingleOwner
  /\ HandlesSound
  /\ LogSound
  /\ NothingLost
  /\ RestartIsExact
  /\ ReplayInBounds
  /\ TopIsSound

(* Acquire() hands out an id that was published once before, in this run   *)
(* of the program or an earlier one, only when every id the bitmap has room *)
(* for has been used and, unless memory runs out, the bitmap has grown to  *)
(* the end of the range: the priority its comment lists.                   *)
ReuseLast ==
  [][\A o \in OnceLogged(tran) :
       /\ Len(stack') > Len(stack)
       /\ stack'[Len(stack')].op = "ACQUIRE_AUTO"
       /\ stack'[Len(stack')].off = o
       => bm.top = bm.size /\ (bm.size = Cap \/ MemMayFail)]_vars

(* What bdb_doc promises of a failed log write: the system stops, and no    *)
(* further operation begins before it is started again.                     *)
StopsOnFailure == []["log" \in failed => Len(stack') <= Len(stack)]_vars

(* The durable table and the reserved ids of IdTableSpec. *)
Abs == INSTANCE IdTableSpec WITH
         Ids <- Offs, table <- Rows(tran), held <- PendingOffs

AbsSpec == Abs!Spec
=============================================================================

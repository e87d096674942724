------------------------------ MODULE BlockCopy ------------------------------
(***************************************************************************)
(* The two loops that move bytes inside pool files, block by block: the    *)
(* one of pool::erase() (poolImpl.cpp), which closes the gap a segment     *)
(* leaves, and the one of write_viov for a file_src (v_iovec.cpp), which   *)
(* copies a datum to another chunk.  Both go through s_read() and          *)
(* s_write() of file_utils.hpp, which repeat fread() and fwrite() until    *)
(* the count is complete and which a signal (EINTR) sends round again.     *)
(*                                                                         *)
(* A byte is the label of the place where it stood when the copy began,    *)
(* so file[p] = q says that place p now holds what place q held.  One file *)
(* holds source and destination, as in a pool that merges into itself.     *)
(***************************************************************************)
EXTENDS Integers

CONSTANTS
  Block,        \* MIGBUF_SIZ, and bsize of write_viov
  Span,         \* bound: the places of the file that are modelled
  Jobs,         \* the copies to make
  MaxSignals,   \* bound: signals that interrupt one copy
  DiskMayFail   \* whether fread(), fwrite() and fflush() may fail

Places == 0..(Span - 1)

Kinds == {"erase", "viov"}

(* end: where the file ends when the copy begins. *)
AllJobs == [kind : Kinds, src : Nat, dst : Nat, len : Nat, end : Nat]

(* The most bytes that signals can make a copy move twice. *)
Spill == MaxSignals * Block

(* The modelled places have room for every byte a copy may touch.  A gap is *)
(* closed downwards; a datum is copied to a chunk that does not overlap.   *)
ASSUME CopyAssumption ==
  /\ Block \in Nat \ {0}
  /\ Span \in Nat
  /\ MaxSignals \in Nat
  /\ DiskMayFail \in BOOLEAN
  /\ Jobs \subseteq AllJobs
  /\ \A j \in Jobs :
       /\ j.src + j.len + Spill <= Span
       /\ j.dst + j.len + Spill <= Span
       /\ j.end <= Span
       /\ j.dst <= j.src \/ j.src + j.len <= j.dst

VARIABLES
  job,      \* the copy being made
  pc,       \* where it stands, or how it ended
  file,     \* the bytes of the file
  end,      \* the length of the file
  buf,      \* the migration buffer
  loopOff,  \* bytes copied by whole blocks
  pos,      \* the position of the stream
  at,       \* how far s_read() or s_write() has advanced its pointer
  left,     \* its size
  total,    \* its total_read or total_written
  signals,  \* history: signals so far
  slipped,  \* history: a signal came after some bytes of a call had moved
  broke     \* history: a call reported an error

vars == <<job, pc, file, end, buf, loopOff, pos, at, left, total, signals,
          slipped, broke>>

(* copied: the loop is through; kept: erase() returns orig_size; currupted: *)
(* data_currupted is thrown; thrown: runtime_error is thrown.              *)
Ends == {"copied", "kept", "currupted", "thrown"}

Least(m, n) == IF m <= n THEN m ELSE n
Most(m, n) == IF m <= n THEN n ELSE m

(* readCnt of the block at hand. *)
Count == Least(Block, job.len - loopOff)

-----------------------------------------------------------------------------
Init ==
  /\ job \in Jobs
  /\ pc = "loop"
  /\ file = [p \in Places |-> p]
  /\ end = job.end
  /\ buf = [i \in 0..(Block - 1) |-> 0]
  /\ loopOff = 0 /\ pos = 0
  /\ at = 0 /\ left = 0 /\ total = 0
  /\ signals = 0
  /\ slipped = FALSE /\ broke = FALSE

(* The arguments of a call of s_read() or s_write() on the next block. *)
Start(step, place) ==
  /\ pc' = step
  /\ pos' = place
  /\ at' = 0 /\ left' = Count /\ total' = 0

(* fault: the source is always sought at its beginning *)
NextBlock_stuck ==
  /\ pc = "loop"
  /\ loopOff < job.len
  /\ Start("read", job.src)
  /\ UNCHANGED <<job, file, end, buf, loopOff, signals, slipped, broke>>

(* seek to the source, and read a block. *)
NextBlock ==
  /\ pc = "loop"
  /\ loopOff < job.len
  /\ Start("read", job.src + loopOff)
  /\ UNCHANGED <<job, file, end, buf, loopOff, signals, slipped, broke>>

(* The loop ends.  writevv() flushes once, after its last item. *)
Finish ==
  /\ pc = "loop"
  /\ loopOff = job.len
  /\ pc' = IF job.kind = "erase" THEN "copied" ELSE "flush"
  /\ UNCHANGED <<job, file, end, buf, loopOff, pos, at, left, total, signals,
                 slipped, broke>>

-----------------------------------------------------------------------------
(* s_read().  Get(k) and Put(k) move the k bytes of one fread() or fwrite(). *)

(* What the file can still give. *)
Available == Least(left, Most(end - pos, 0))

Get(k) ==
  /\ buf' = [i \in 0..(Block - 1) |->
               IF at <= i /\ i < at + k THEN file[pos + i - at] ELSE buf[i]]
  /\ pos' = pos + k
  /\ total' = total + k
  /\ UNCHANGED <<job, file, end, loopOff>>

(* fault: the size is not reduced, as after a signal *)
ReadSome_again ==
  /\ pc = "read"
  /\ Available > 0
  /\ Get(Available)
  /\ at' = at + Available /\ left' = left
  /\ pc' = IF left = Available THEN "got" ELSE "read"
  /\ UNCHANGED <<signals, slipped, broke>>

(* All that is asked for, or what there is before the end of the file.  At *)
(* the end errno is 0 and s_read() tries again, for ever: no step.         *)
ReadSome ==
  /\ pc = "read"
  /\ Available > 0
  /\ Get(Available)
  /\ at' = at + Available /\ left' = left - Available
  /\ pc' = IF left = Available THEN "got" ELSE "read"
  /\ UNCHANGED <<signals, slipped, broke>>

(* EINTR: dest and size are not advanced, the stream and the total are. *)
ReadSlips(k) ==
  /\ pc = "read"
  /\ signals < MaxSignals
  /\ k < left /\ k <= Available
  /\ Get(k)
  /\ signals' = signals + 1
  /\ slipped' = IF k > 0 THEN TRUE ELSE slipped
  /\ UNCHANGED <<pc, at, left, broke>>

(* Any other error returns what has been counted. *)
ReadBreaks(k) ==
  /\ DiskMayFail
  /\ pc = "read"
  /\ k < left /\ k <= Available
  /\ Get(k)
  /\ broke' = TRUE
  /\ pc' = "got"
  /\ UNCHANGED <<at, left, signals, slipped>>

(* fault: the count s_read() returns is not compared *)
Got_trusting ==
  /\ pc = "got"
  /\ Start("write", job.dst + loopOff)
  /\ UNCHANGED <<job, file, end, buf, loopOff, signals, slipped, broke>>

(* The block is written only when the count is exact. *)
Got ==
  /\ pc = "got"
  /\ total = Count
  /\ Start("write", job.dst + loopOff)
  /\ UNCHANGED <<job, file, end, buf, loopOff, signals, slipped, broke>>

(* fault: every failed read of erase() is answered as if it were the first *)
GotLess_lenient ==
  /\ pc = "got"
  /\ total # Count
  /\ pc' = IF job.kind = "viov" THEN "thrown" ELSE "kept"
  /\ UNCHANGED <<job, file, end, buf, loopOff, pos, at, left, total, signals,
                 slipped, broke>>

GotLess ==
  /\ pc = "got"
  /\ total # Count
  /\ pc' = CASE job.kind = "viov" -> "thrown"
             [] job.kind = "erase" /\ loopOff = 0 -> "kept"
             [] OTHER -> "currupted"
  /\ UNCHANGED <<job, file, end, buf, loopOff, pos, at, left, total, signals,
                 slipped, broke>>

-----------------------------------------------------------------------------
(* s_write(). *)

Put(k) ==
  /\ file' = [p \in Places |->
                IF pos <= p /\ p < pos + k THEN buf[at + p - pos] ELSE file[p]]
  /\ end' = IF k > 0 THEN Most(end, pos + k) ELSE end
  /\ pos' = pos + k
  /\ total' = total + k
  /\ UNCHANGED <<job, buf, loopOff>>

(* fault: the whole buffer is written, whatever the size of the last block *)
WriteAll_block ==
  /\ pc = "write"
  /\ Put(Block)
  /\ at' = at + left /\ left' = 0
  /\ pc' = "put"
  /\ UNCHANGED <<signals, slipped, broke>>

WriteAll ==
  /\ pc = "write"
  /\ Put(left)
  /\ at' = at + left /\ left' = 0
  /\ pc' = "put"
  /\ UNCHANGED <<signals, slipped, broke>>

WriteSlips(k) ==
  /\ pc = "write"
  /\ signals < MaxSignals
  /\ k < left
  /\ Put(k)
  /\ signals' = signals + 1
  /\ slipped' = IF k > 0 THEN TRUE ELSE slipped
  /\ UNCHANGED <<pc, at, left, broke>>

WriteBreaks(k) ==
  /\ DiskMayFail
  /\ pc = "write"
  /\ k < left
  /\ Put(k)
  /\ broke' = TRUE
  /\ pc' = "put"
  /\ UNCHANGED <<at, left, signals, slipped>>

(* fault: toRead and loopOff are not moved on *)
Written_same ==
  /\ pc = "put"
  /\ total = Count
  /\ pc' = "loop"
  /\ UNCHANGED <<job, file, end, buf, loopOff, pos, at, left, total, signals,
                 slipped, broke>>

(* erase() flushes every block before it moves on. *)
Written ==
  /\ pc = "put"
  /\ total = Count
  /\ loopOff' = loopOff + Count
  /\ pc' = "loop"
  /\ UNCHANGED <<job, file, end, buf, pos, at, left, total, signals, slipped,
                 broke>>

(* A short count, or a fflush() that fails after an exact one. *)
WrittenLess ==
  /\ pc = "put"
  /\ total # Count \/ (DiskMayFail /\ job.kind = "erase")
  /\ broke' = (broke \/ total = Count)
  /\ pc' = IF job.kind = "erase" THEN "currupted" ELSE "thrown"
  /\ UNCHANGED <<job, file, end, buf, loopOff, pos, at, left, total, signals,
                 slipped>>

Flush ==
  /\ pc = "flush"
  /\ \/ pc' = "copied" /\ UNCHANGED broke
     \/ DiskMayFail /\ pc' = "thrown" /\ broke' = TRUE
  /\ UNCHANGED <<job, file, end, buf, loopOff, pos, at, left, total, signals,
                 slipped>>

Next ==
  \/ NextBlock \/ Finish
  \/ ReadSome
  \/ \E k \in 0..(Block - 1) : ReadSlips(k) \/ ReadBreaks(k)
  \/ Got \/ GotLess
  \/ WriteAll
  \/ \E k \in 0..(Block - 1) : WriteSlips(k) \/ WriteBreaks(k)
  \/ Written \/ WrittenLess
  \/ Flush

(* The calling thread runs: it is never descheduled for ever. *)
Spec == Init /\ [][Next]_vars /\ WF_vars(Next)

-----------------------------------------------------------------------------
(* Properties. *)

TypeOK ==
  /\ job \in Jobs
  /\ pc \in {"loop", "read", "got", "write", "put", "flush"} \cup Ends
  /\ file \in [Places -> Nat]
  /\ end \in 0..Span
  /\ buf \in [0..(Block - 1) -> Nat]
  /\ loopOff \in 0..job.len
  /\ pos \in 0..Span
  /\ at \in 0..Block /\ left \in 0..Block /\ at + left <= Block
  /\ total \in Nat
  /\ signals \in 0..MaxSignals
  /\ slipped \in BOOLEAN /\ broke \in BOOLEAN

(* Where the copy puts its bytes. *)
Target == job.dst..(job.dst + job.len - 1)

(* The error a signal can hide: some bytes moved twice, and then a call    *)
(* stopped short so that the total came out right.                         *)
Masked == slipped /\ broke

(* A copy that reports success has put every byte of the source in its     *)
(* place, whatever signals came, and has touched nothing else: s_read()    *)
(* and s_write() never lose count without the caller noticing, and a       *)
(* source that the destination overlaps is read before it is overwritten.  *)
CopiesExactly ==
  pc = "copied" /\ ~Masked =>
    \A p \in Places : file[p] = IF p \in Target THEN job.src + (p - job.dst) ELSE p

(* erase() answers orig_size, for nothing done, only while nothing has been *)
(* done: otherwise it throws data_currupted.                               *)
KeptMeansUntouched == pc = "kept" => \A p \in Places : file[p] = p

(* However a copy ends, no byte outside its target changes, so no chunk of *)
(* another datum, unless a signal came between the bytes of a call.        *)
StaysInTarget ==
  ~slipped => \A p \in Places \ Target : file[p] = p

(* The source is there in full. *)
Whole == job.src + job.len <= job.end

(* The copy of a datum that is in the file returns or throws: the retries  *)
(* of s_read() come to an end, unless a signal moved the stream past bytes *)
(* it has not counted.                                                     *)
Returns == Whole => <>(pc \in Ends \/ slipped)
=============================================================================

------------------------------- MODULE NtApi -------------------------------
(***************************************************************************)
(* The transparent calls of BDBImpl (detail/nt_bdbImpl.cpp) beside the     *)
(* ordinary ones, on the same pools.                                       *)
(*                                                                         *)
(* An nt_ call takes and returns addresses of chunks; the table of global  *)
(* ids is not asked.  A client knows an address because nt_put() returned  *)
(* it.  A call that moves the datum to another chunk returns the address   *)
(* it was given, and one that replaces it in place returns the number of   *)
(* its chunk alone, an address in pool 0: a client that goes on with such  *)
(* an address holds one that leads nowhere, or to somebody else's datum.   *)
(* The history variable strayed says whether that has happened.            *)
(***************************************************************************)
EXTENDS BehaviorDB

CONSTANT
  Unsure      \* what a client knows of a datum whose change broke off

(* It is told from any datum and from no datum, and they from each other.   *)
ASSUME UnsureAssumption ==
  /\ Unsure # None
  /\ \A x \in {Unsure, None} : x \notin Seq(Symbols \cup {None})

VARIABLES
  own,    \* history: what clients should read at the addresses they hold
  due,    \* history: the same once the present call is over
  strayed \* history: a client was left with an address that is not its datum's

ntVars == <<own, due, strayed>>
allVars == <<vars, ntVars>>

Held(p) == own[p] # None

(* Begin an nt_ call with the given durable steps; no id is involved. *)
BeginNt(call, steps) ==
  /\ Begin(call, None, None, "none", steps)
  /\ UNCHANGED gids

ThrowNt(e) == Throw(e) /\ UNCHANGED <<gids, ntVars>>

Promise(p, x) == due' = [own EXCEPT ![p] = x]

NtInit ==
  /\ Init
  /\ own = [p \in Places |-> None]
  /\ due = own
  /\ strayed = FALSE

-----------------------------------------------------------------------------
(* The calls. *)

nt_put(x, mem) ==
  LET from == directory(Len(x))
  IN  /\ Idle
      /\ \/ from = NoDir /\ ThrowNt("length_error")
         \/ /\ from # NoDir
            /\ LandingFrom(from, mem) = {}
            /\ ThrowNt("addr_overflow")
         \/ /\ from # NoDir
            /\ \E p \in LandingFrom(from, mem) :
                 /\ Claim(p, mem)
                 /\ BeginNt("nt_put", <<Bytes(p, 0, x), SetSize(p, Len(x))>>)
                 /\ Promise(p, x)
            /\ UNCHANGED <<own, strayed>>

(* An address nothing is stored at: every other call refuses it. *)
nt_refuse(p) ==
  /\ Idle
  /\ Held(p)
  /\ ~Acquired(p)
  /\ ThrowNt("invalid_addr")

(* nt_put() at an address always rewrites the datum into another chunk. *)
nt_insert(x, p, off, mem) ==
  LET n == SizeAt(p) + Len(x)
      at == IF off = npos THEN SizeAt(p) ELSE off
      y == Splice(BytesAt(p), at, x)
      TooLarge == n > chunk_size_estimation(p.dir) /\ directory(n) = NoDir
  IN  /\ Idle
      /\ Held(p)
      /\ Acquired(p)
      /\ \/ TooLarge /\ ThrowNt("chunk_overflow")
         \/ /\ ~TooLarge
            /\ Targets(p, n, mem) = {}
            /\ ThrowNt("addr_overflow")
         \/ /\ ~TooLarge
            /\ \E q \in Targets(p, n, mem) :
                 /\ Claim(q, mem)
                 /\ BeginNt("nt_insert",
                      <<Bytes(Landed(q), 0, y), SetSize(q, n), FreeChunk(p)>>)
            /\ Promise(p, y)
            /\ strayed' = TRUE
            /\ UNCHANGED own

(* The address that the number of a chunk makes without global_addr().      *)
BareNumber(p) == [dir |-> 0, loc |-> p.loc]

(* The client goes on with the address it has, or with the one the call     *)
(* returns; in pool 0 they are the same.                                    *)
nt_update_in_place(x, p) ==
  /\ Idle
  /\ Held(p)
  /\ Acquired(p)
  /\ capacity_test(p.dir, Len(x))
  /\ BeginNt("nt_replace", <<Bytes(p, 0, x), SetSize(p, Len(x))>>)
  /\ \/ Promise(p, x) /\ UNCHANGED strayed
     \/ /\ p.dir # 0
        /\ due' = [own EXCEPT ![p] = None, ![BareNumber(p)] = x]
        /\ strayed' = TRUE
  /\ UNCHANGED <<pools, own>>

nt_update_moving(x, p, mem) ==
  LET from == directory(Len(x))
  IN  /\ Idle
      /\ Held(p)
      /\ ~capacity_test(p.dir, Len(x))
      /\ \/ from = NoDir /\ ThrowNt("length_error")
         \/ /\ from # NoDir
            /\ LandingFrom(from, mem) = {}
            /\ ThrowNt("addr_overflow")
         \/ /\ from # NoDir
            /\ \E q \in LandingFrom(from, mem) :
                 /\ Claim(q, mem)
                 /\ BeginNt("nt_move",
                      <<Bytes(q, 0, x), SetSize(q, Len(x)), FreeChunk(p)>>)
            /\ Promise(p, x)
            /\ strayed' = TRUE
            /\ UNCHANGED own

nt_del(p) ==
  /\ Idle
  /\ Held(p)
  /\ Acquired(p)
  /\ BeginNt("nt_del", <<FreeChunk(p)>>)
  /\ Promise(p, None)
  /\ UNCHANGED <<pools, own, strayed>>

(* fault: the tail is moved down and the header keeps the size *)
nt_erase_sizeless(p, off, size) ==
  /\ Idle
  /\ Held(p)
  /\ Acquired(p)
  /\ off \in 0..SizeAt(p)
  /\ BeginNt("nt_erase", <<SetSize(p, SizeAt(p))>>)
  /\ Promise(p, Remaining(p, off, size))
  /\ UNCHANGED <<pools, own, strayed>>

nt_erase(p, off, size) ==
  /\ Idle
  /\ Held(p)
  /\ Acquired(p)
  /\ off \in 0..SizeAt(p)
  /\ BeginNt("nt_erase", EraseSteps(p, off, size))
  /\ Promise(p, Remaining(p, off, size))
  /\ UNCHANGED <<pools, own, strayed>>

NtCalls ==
  \/ \E x \in Data, mem \in {TRUE, ~MemMayFail} : nt_put(x, mem)
  \/ \E p \in Places :
       \/ nt_refuse(p)
       \/ nt_del(p)
       \/ \E x \in Data : nt_update_in_place(x, p)
       \/ \E x \in Data, mem \in {TRUE, ~MemMayFail} :
            \/ nt_update_moving(x, p, mem)
            \/ \E off \in Offsets : nt_insert(x, p, off, mem)
       \/ \E off \in Offsets, size \in Counts : nt_erase(p, off, size)

(* A call that ends well has done what it promised.  After one that breaks  *)
(* off its client still holds the address and cannot tell the datum.        *)
Kept == [p \in Places |-> IF own[p] \in {due[p], None} THEN own[p] ELSE Unsure]

Step ==
  /\ Steps
  /\ own' = IF job' # NoJob THEN own ELSE IF out' = "ok" THEN due ELSE Kept
  /\ due' = IF job' # NoJob THEN due ELSE own'
  /\ UNCHANGED strayed

BreakOff ==
  /\ WriteFails \/ Crash
  /\ own' = Kept
  /\ due' = Kept
  /\ UNCHANGED strayed

NtNext ==
  \/ NtCalls
  \/ Calls /\ UNCHANGED ntVars
  \/ Step
  \/ BreakOff

NtSpec == NtInit /\ [][NtNext]_allVars

-----------------------------------------------------------------------------
(* Properties. *)

(* As long as no client has taken a wrong address from a call (and no crash  *)
(* has damaged an id), an address a client holds reads back what the         *)
(* completed calls made of it, whatever calls on ids and crashes happen in   *)
(* between.                                                                  *)
NtReadsBack ==
  ~strayed /\ ~hurt =>
    \A p \in Places : Held(p) /\ own[p] # Unsure /\ own[p] = due[p] =>
      /\ Acquired(p)
      /\ SizeAt(p) # None
      /\ BytesAt(p) = own[p]

(* Under the same condition the two kinds of client do not meet: the ids     *)
(* read back their data, and no id leads to a chunk an nt_ client holds.     *)
IdsUndisturbed ==
  ~strayed /\ ~hurt =>
    /\ ReadsBack
    /\ \A id \in Ids : HasRow(id) => ~Held(PlaceOf(id))

(* Until a client takes a wrong address from a call or a crash interrupts a  *)
(* call, every chunk in use belongs to an id or to the holder of its         *)
(* address.                                                                  *)
ChunksOwned ==
  Idle /\ ~strayed /\ ~hurt /\ crashes = 0 =>
    \A p \in Places : Acquired(p) =>
      Held(p) \/ \E id \in Ids : HasRow(id) /\ PlaceOf(id) = p
=============================================================================

----------------------------- MODULE BehaviorDB -----------------------------
(***************************************************************************)
(* BDBImpl (detail/bdbImpl.cpp) over its pools (detail/poolImpl.cpp).      *)
(*                                                                         *)
(* The database is two layers of tables.  The table of global ids maps an  *)
(* id to an address, a pool number and a chunk number packed by AddrEval.  *)
(* Each pool maps a chunk number to the size of the datum in that chunk,   *)
(* and keeps the bytes in a pool file.  Every table is an IDPool: a bitmap *)
(* in memory and a log on disk.  IdPool shows that such a table changes    *)
(* one row at a time, atomically, and survives a crash; here a committed   *)
(* row is therefore written in one step.                                   *)
(*                                                                         *)
(* A call of the API touches several tables and the pool file, and nothing *)
(* makes the group atomic.  The call first plans: it acquires the ids it   *)
(* needs (in memory) or throws.  Then it performs its durable steps one at *)
(* a time, in the order of the source, and the process may stop between    *)
(* any two of them or in the middle of a write.                            *)
(***************************************************************************)
EXTENDS AddrEval, Sequences, FiniteSets

CONSTANTS
  PoolCap, PoolInit,  \* chunks a pool may number, bits of its fresh bitmap
  GidCap, GidInit,    \* the same of the table of global ids
  PosSpan,            \* 2^32: what a position of writevv() or a size of stat() holds
  Data,               \* the data clients store
  Offsets,            \* the offsets clients pass; npos is one of them
  Counts,             \* the sizes clients pass to the partial del
  None,               \* no row
  npos,
  MemMayFail,         \* whether growing a bitmap may run out of memory
  DiskMayFail,        \* whether a write to a pool file may fail
  MaxCrashes          \* bound: crashes in the middle of a call

(* The bytes that clients store. *)
Symbols == UNION {{x[i] : i \in 1..Len(x)} : x \in Data}

ASSUME StoreAssumption ==
  /\ PoolCap \in Nat \ {0} /\ PoolInit \in 1..PoolCap
  /\ GidCap \in Nat \ {0} /\ GidInit \in 1..GidCap
  /\ PosSpan \in Nat
  /\ Data \subseteq Seq(Symbols)
  /\ Offsets \ {npos} \subseteq Nat
  /\ Counts \subseteq Nat \ {0}
  /\ None \notin Int
  /\ MemMayFail \in BOOLEAN /\ DiskMayFail \in BOOLEAN
  /\ MaxCrashes \in Nat

Gid == INSTANCE IdTable WITH Cap <- GidCap, InitSize <- GidInit
Chk == INSTANCE IdTable WITH Cap <- PoolCap, InitSize <- PoolInit

VARIABLES
  gids,    \* global_id_: bitmap, rows id -> address, mark of the log
  pools,   \* pools_: for each pool bitmap, rows chunk -> size, mark
  file,    \* the pool files: pool -> chunk number -> bytes
  job,     \* the durable steps the present call still has to make
  out,     \* how the last call ended
  want,    \* history: what each id should read back, None for no datum
  hurt,    \* history: a crash or a failed write left an id damaged
  crashes  \* history: how many crashes fell inside a call

vars == <<gids, pools, file, job, out, want, hurt, crashes>>

Ids == Gid!Offs
Chunks == Chk!Offs
Places == [dir : Dirs, loc : Chunks]

Outcomes ==
  {"ok", "invalid_addr", "addr_overflow", "chunk_overflow", "length_error",
   "runtime_error", "data_currupted"}

NoJob == [call |-> "none", id |-> None, datum |-> None, effect |-> "none", hot |-> FALSE,
          todo |-> <<>>]
Idle == job.todo = <<>>

-----------------------------------------------------------------------------
(* The durable steps. *)

Bytes(p, at, x) == [do |-> "bytes", at |-> at, data |-> x, place |-> p]
SetSize(p, n) == [do |-> "size", place |-> p, size |-> n]
FreeChunk(p) == [do |-> "free", place |-> p]
Bind(a) == [do |-> "bind", addr |-> a]
Unbind == [do |-> "unbind"]

(* Where writevv() puts the bytes of a chunk: its position is cut to the    *)
(* width of its argument.  (seek() computes in off_t and is exact.)         *)
Landed(p) == [p EXCEPT !.loc = @ % (PosSpan \div CSE[p.dir])]

(* The first n bytes of x; where nothing was ever written there is None. *)
FirstBytes(x, n) == [i \in 1..n |-> IF i <= Len(x) THEN x[i] ELSE None]

(* x written over old from position at: what lies beyond x stays. *)
Over(old, at, x) ==
  FirstBytes(old, at) \o x \o SubSeq(old, at + Len(x) + 1, Len(old))

PutBytes(p, at, x) ==
  [file EXCEPT ![p.dir][p.loc] = Over(@, at, x)]

(* Bytes that no row covers are forgotten: beyond the size of the datum, or *)
(* in a chunk without one.  The code reads a chunk only up to the size in   *)
(* its row.                                                                 *)
Covered(f, p, n) == [f EXCEPT ![p.dir][p.loc] = FirstBytes(@, n)]

-----------------------------------------------------------------------------
(* What an id leads to. *)

PlaceOf(id) == [dir |-> addr_to_dir(gids.tab[id]),
                loc |-> local_addr(gids.tab[id])]

Acquired(p) == p.loc \in Chunks /\ p.loc \in pools[p.dir].bm.used

(* id_handle of an existing id: refused when the bitmap has it free. *)
Known(id) == id \in gids.bm.used
Sound(id) == Known(id) /\ Acquired(PlaceOf(id))

HasRow(id) == gids.tab[id] # None
SizeAt(p) == pools[p.dir].size[p.loc]

(* pool::read of a whole datum. *)
BytesAt(p) == FirstBytes(file[p.dir][p.loc], SizeAt(p))

-----------------------------------------------------------------------------
(* write_pool() and the migration loop: from pool `from` upward, the first  *)
(* one whose IDPool grants a chunk.                                         *)

Granted(d, mem) == Chk!Grants(pools[d].bm, mem)

LandingFrom(from, mem) ==
  {p \in Places : /\ p.dir >= from
                  /\ p.loc \in Granted(p.dir, mem)
                  /\ \A d \in from..(p.dir - 1) : Granted(d, mem) = {}}

(* fault: the handle does not clear the bit of the chunk *)
Claim_unmarked(p, mem) == pools' = [pools EXCEPT ![p.dir].bm = Chk!Room(@, mem)]

Claim(p, mem) ==
  pools' = [pools EXCEPT ![p.dir].bm = Chk!AfterAcquire(@, mem, p.loc)]

(* Start the durable part of a call about id: `effect` is the step that     *)
(* makes `datum` what the id reads back.                                    *)
Begin(call, id, datum, effect, todo) ==
  /\ job' = [call |-> call, id |-> id, datum |-> datum, effect |-> effect,
             hot |-> FALSE, todo |-> todo]
  /\ out' = "ok"
  /\ UNCHANGED <<file, want, hurt, crashes>>

(* Leave the call with an exception before any durable step. *)
Throw(e) ==
  /\ out' = e
  /\ UNCHANGED <<pools, file, job, want, hurt, crashes>>

Address(p) == global_addr(p.dir, p.loc)

Init ==
  /\ gids = [bm |-> Gid!Fresh, tab |-> [i \in Ids |-> None], hi |-> 0]
  /\ pools = [d \in Dirs |->
                [bm |-> Chk!Fresh, size |-> [l \in Chunks |-> None], hi |-> 0]]
  /\ file = [d \in Dirs |-> [l \in Chunks |-> <<>>]]
  /\ job = NoJob
  /\ out = "ok"
  /\ want = [i \in Ids |-> None]
  /\ hurt = FALSE
  /\ crashes = 0

-----------------------------------------------------------------------------
(* The calls. *)

(* fault: the id is published before the bytes are written *)
PutNew_early(id, b, x, mem) ==
  \E p \in LandingFrom(directory(Len(x)), mem) :
    /\ gids' = [gids EXCEPT !.bm = b]
    /\ Claim(p, mem)
    /\ Begin("put", id, x, "bind",
         <<SetSize(p, Len(x)), Bind(Address(p)), Bytes(p, 0, x)>>)

(* A handle holds the new id, b is the bitmap with it acquired.  When the   *)
(* datum finds no chunk the handle's destructor gives the id back.          *)
PutNew(id, b, x, mem) ==
  LET from == directory(Len(x))
      GiveBack == gids' = [gids EXCEPT !.bm = Gid!LetGo(b, id)]
  IN  \/ /\ from = NoDir
         /\ GiveBack
         /\ Throw("length_error")
      \/ /\ from # NoDir
         /\ LandingFrom(from, mem) = {}
         /\ GiveBack
         /\ Throw("addr_overflow")
      \/ /\ from # NoDir
         /\ \E p \in LandingFrom(from, mem) :
              /\ gids' = [gids EXCEPT !.bm = b]
              /\ Claim(p, mem)
              /\ Begin("put", id, x, "bind",
                   <<Bytes(p, 0, x), SetSize(p, Len(x)), Bind(Address(p))>>)

put(x, gmem, mem) ==
  /\ Idle
  /\ \/ /\ Gid!Grants(gids.bm, gmem) = {}
        /\ Throw("addr_overflow")
        /\ UNCHANGED gids
     \/ \E id \in Gid!Grants(gids.bm, gmem) :
          PutNew(id, Gid!AfterAcquire(gids.bm, gmem, id), x, mem)

(* put(data, size, addr, off) of an id that is free. *)
put_spec(x, id, gmem, mem) ==
  /\ Idle
  /\ ~Known(id)
  /\ \/ /\ ~Gid!CanHoldAt(gids.bm, id, gmem)
        /\ Throw("addr_overflow")
        /\ UNCHANGED gids
     \/ /\ Gid!CanHoldAt(gids.bm, id, gmem)
        /\ PutNew(id, Gid!AfterAcquireAt(gids.bm, id), x, mem)

Splice(x, off, y) == SubSeq(x, 1, off) \o y \o SubSeq(x, off + 1, Len(x))

(* The same of an id in use: the datum is rewritten into another chunk, of  *)
(* the same pool if it still fits (and then only that pool is tried), else  *)
(* of a larger one.                                                         *)
Targets(p, n, mem) ==
  IF n <= chunk_size_estimation(p.dir)
  THEN {q \in Places : q.dir = p.dir /\ q.loc \in Granted(p.dir, mem)}
  ELSE LandingFrom(directory(n), mem)

insert(x, id, off, mem) ==
  LET p == PlaceOf(id)
      n == SizeAt(p) + Len(x)
      at == IF off = npos THEN SizeAt(p) ELSE off
      y == Splice(BytesAt(p), at, x)
      TooLarge == n > chunk_size_estimation(p.dir) /\ directory(n) = NoDir
  IN  /\ Idle
      /\ Known(id)
      /\ UNCHANGED gids
      /\ \/ ~Sound(id) /\ Throw("invalid_addr")
         \/ Sound(id) /\ TooLarge /\ Throw("chunk_overflow")
         \/ /\ Sound(id)
            /\ ~TooLarge
            /\ Targets(p, n, mem) = {}
            /\ Throw("addr_overflow")
         \/ /\ Sound(id)
            /\ ~TooLarge
            /\ at <= SizeAt(p)
            /\ \E q \in Targets(p, n, mem) :
                 /\ Claim(q, mem)
                 /\ Begin("insert", id, y, "bind",
                      <<Bytes(Landed(q), 0, y), SetSize(q, n), FreeChunk(p),
                        Bind(Address(q))>>)

(* fault: the header keeps the old size *)
update_in_place_sizeless(x, id) ==
  /\ Idle
  /\ Sound(id)
  /\ capacity_test(PlaceOf(id).dir, Len(x))
  /\ LET p == PlaceOf(id)
     IN  Begin("replace", id, x, "size", <<Bytes(p, 0, x), SetSize(p, SizeAt(p))>>)
  /\ UNCHANGED <<gids, pools>>

(* update(): in place when the capacity test of the present pool passes,    *)
(* else into a new chunk, and the old chunk goes last.                      *)
update_in_place(x, id) ==
  LET p == PlaceOf(id)
  IN  /\ Idle
      /\ Known(id)
      /\ capacity_test(p.dir, Len(x))
      /\ UNCHANGED gids
      /\ \/ ~Sound(id) /\ Throw("invalid_addr")
         \/ /\ Sound(id)
            /\ Begin("replace", id, x, "size", <<Bytes(p, 0, x), SetSize(p, Len(x))>>)
            /\ UNCHANGED pools

(* fault: the old chunk is never freed *)
update_moving_leaking(x, id, mem) ==
  /\ Idle
  /\ Sound(id)
  /\ ~capacity_test(PlaceOf(id).dir, Len(x))
  /\ UNCHANGED gids
  /\ directory(Len(x)) # NoDir
  /\ \E q \in LandingFrom(directory(Len(x)), mem) :
       /\ Claim(q, mem)
       /\ Begin("move", id, x, "bind",
            <<Bytes(q, 0, x), SetSize(q, Len(x)), Bind(Address(q))>>)

(* fault: the old chunk goes before the id leads to the new one *)
update_moving_eager(x, id, mem) ==
  /\ Idle
  /\ Sound(id)
  /\ ~capacity_test(PlaceOf(id).dir, Len(x))
  /\ UNCHANGED gids
  /\ directory(Len(x)) # NoDir
  /\ \E q \in LandingFrom(directory(Len(x)), mem) :
       /\ Claim(q, mem)
       /\ Begin("move", id, x, "bind",
            <<Bytes(q, 0, x), SetSize(q, Len(x)), FreeChunk(PlaceOf(id)),
              Bind(Address(q))>>)

update_moving(x, id, mem) ==
  LET p == PlaceOf(id)
      from == directory(Len(x))
  IN  /\ Idle
      /\ Known(id)
      /\ ~capacity_test(p.dir, Len(x))
      /\ UNCHANGED gids
      /\ \/ from = NoDir /\ Throw("length_error")
         \/ /\ from # NoDir
            /\ LandingFrom(from, mem) = {}
            /\ Throw("addr_overflow")
         \/ /\ from # NoDir
            /\ \E q \in LandingFrom(from, mem) :
                 /\ Claim(q, mem)
                 /\ Begin("move", id, x, "bind",
                      <<Bytes(q, 0, x), SetSize(q, Len(x)), Bind(Address(q)),
                        FreeChunk(p)>>)

del(id) ==
  /\ Idle
  /\ Known(id)
  /\ UNCHANGED <<gids, pools>>
  /\ \/ ~Sound(id) /\ Throw("invalid_addr")
     \/ /\ Sound(id)
        /\ Begin("del", id, None, "unbind", <<FreeChunk(PlaceOf(id)), Unbind>>)

(* del(addr, off, size), pool::erase(): the tail moves down in place.  The  *)
(* sum off + size overflowing, or not exceeding off, means "to the end".    *)
Erased(n, off, size) ==
  IF off + size > off /\ off + size <= n THEN size ELSE n - off

(* What is left of the datum, and the steps that leave it there. *)
Remaining(p, off, size) ==
  SubSeq(BytesAt(p), 1, off) \o SubSeq(BytesAt(p), off + size + 1, SizeAt(p))

EraseSteps(p, off, size) ==
  LET n == SizeAt(p)
      k == Erased(n, off, size)
      tail == SubSeq(BytesAt(p), off + k + 1, n)
  IN  (IF tail = <<>> THEN <<>> ELSE <<Bytes(p, off, tail)>>) \o <<SetSize(p, n - k)>>

erase(id, off, size) ==
  LET p == PlaceOf(id)
      Within == off \in 0..SizeAt(p)
  IN  /\ Idle
      /\ Known(id)
      /\ UNCHANGED gids
      /\ \/ ~Sound(id) /\ Throw("invalid_addr")
         \/ /\ Sound(id)
            /\ ~Within
            /\ Begin("erase", id, want[id], "bind", <<Bind(gids.tab[id])>>)
            /\ UNCHANGED pools
         \/ /\ Sound(id)
            /\ Within
            /\ Begin("erase", id, Remaining(p, off, size), "size",
                 EraseSteps(p, off, size) \o <<Bind(gids.tab[id])>>)
            /\ UNCHANGED pools

(* Every call but put: the id is not in use. *)
refuse(id) ==
  /\ Idle
  /\ ~Known(id)
  /\ Throw("invalid_addr")
  /\ UNCHANGED gids

-----------------------------------------------------------------------------
(* The durable steps, each the next of the present call. *)

Due(do) == ~Idle /\ Head(job.todo).do = do

(* An id is at risk from the first step that destroys its old datum until   *)
(* the one that makes the new datum its own.                                *)
Destroys(s) ==
  \/ s.do = "free"
  \/ s.do = "bytes" /\ SizeAt(s.place) # None

Advance ==
  LET s == Head(job.todo)
      now == s.do = job.effect
      rest == Tail(job.todo)
  IN  /\ want' = IF now THEN [want EXCEPT ![job.id] = job.datum] ELSE want
      /\ job' = IF rest = <<>> THEN NoJob
                ELSE [job EXCEPT
                        !.todo = rest,
                        !.effect = IF now THEN "none" ELSE @,
                        !.hot = job.effect # "none" /\ ~now
                                /\ (@ \/ Destroys(s))]
      /\ UNCHANGED <<out, hurt, crashes>>

WriteBytes ==
  /\ Due("bytes")
  /\ LET s == Head(job.todo) IN file' = PutBytes(s.place, s.at, s.data)
  /\ Advance
  /\ UNCHANGED <<gids, pools>>

CommitSize ==
  /\ Due("size")
  /\ LET s == Head(job.todo)
         l == s.place.loc
     IN  /\ pools' = [pools EXCEPT ![s.place.dir].size[l] = s.size,
                                   ![s.place.dir].hi = IF l >= @ THEN l + 1 ELSE @]
         /\ file' = Covered(file, s.place, s.size)
  /\ Advance
  /\ UNCHANGED gids

(* fault: the release is logged and the bit is not set *)
ReleaseChunk_unmarked ==
  /\ Due("free")
  /\ Acquired(Head(job.todo).place)
  /\ LET p == Head(job.todo).place
     IN  /\ pools' = [pools EXCEPT ![p.dir].size[p.loc] = None]
         /\ file' = Covered(file, p, 0)
  /\ Advance
  /\ UNCHANGED gids

(* ReleaseAndCommit() of a chunk.  The handle refuses a chunk that is free  *)
(* already, and the call ends there.                                        *)
ReleaseChunk ==
  /\ Due("free")
  /\ LET p == Head(job.todo).place
     IN  \/ /\ Acquired(p)
            /\ pools' = [pools EXCEPT ![p.dir].bm = Chk!LetGo(@, p.loc),
                                      ![p.dir].size[p.loc] = None]
            /\ file' = Covered(file, p, 0)
            /\ Advance
         \/ /\ ~Acquired(p)
            /\ job' = NoJob
            /\ out' = "invalid_addr"
            /\ UNCHANGED <<pools, file, want, hurt, crashes>>
  /\ UNCHANGED gids

CommitId ==
  /\ Due("bind")
  /\ gids' = [gids EXCEPT !.tab[job.id] = Head(job.todo).addr,
                          !.hi = IF job.id >= @ THEN job.id + 1 ELSE @]
  /\ Advance
  /\ UNCHANGED <<pools, file>>

ReleaseId ==
  /\ Due("unbind")
  /\ gids' = [gids EXCEPT !.bm = Gid!LetGo(@, job.id), !.tab[job.id] = None]
  /\ Advance
  /\ UNCHANGED <<pools, file>>

(* What a write that does not complete leaves in the pool file.             *)
Torn ==
  IF Due("bytes")
  THEN LET s == Head(job.todo)
       IN  {PutBytes(s.place, s.at, SubSeq(s.data, 1, k)) : k \in 0..Len(s.data)}
  ELSE {file}

Interrupt ==
  \E f \in Torn :
    /\ file' = [d \in Dirs |-> [l \in Chunks |->
                 IF pools[d].size[l] = None THEN <<>> ELSE f[d][l]]]
    /\ hurt' = (hurt \/ job.hot \/ (f # file /\ Destroys(Head(job.todo))))

(* The present call holds no id that it acquired itself. *)
KeepsId == job.id = None \/ HasRow(job.id)

(* fault: the chunk of a failed write stays acquired *)
WriteFails_kept ==
  /\ DiskMayFail
  /\ Due("bytes")
  /\ Interrupt
  /\ gids' = IF KeepsId THEN gids ELSE [gids EXCEPT !.bm = Gid!LetGo(@, job.id)]
  /\ job' = NoJob
  /\ out' = "runtime_error"
  /\ UNCHANGED <<pools, want, crashes>>

(* s_write() or fflush() reports an error.  The call throws, and the        *)
(* destructors of its handles give back the id and the chunk it acquired.   *)
WriteFails ==
  /\ DiskMayFail
  /\ Due("bytes")
  /\ Interrupt
  /\ gids' = IF KeepsId THEN gids ELSE [gids EXCEPT !.bm = Gid!LetGo(@, job.id)]
  /\ pools' = LET p == job.todo[2].place
              IN  IF SizeAt(p) # None THEN pools
                  ELSE [pools EXCEPT ![p.dir].bm = Chk!LetGo(@, p.loc)]
  /\ job' = NoJob
  /\ out' = IF Destroys(Head(job.todo)) THEN "data_currupted" ELSE "runtime_error"
  /\ UNCHANGED <<want, crashes>>

(* fault: the logs of the pools are not replayed *)
Crash_unreplayed ==
  /\ Idle
  /\ gids' = [gids EXCEPT
       !.bm = Gid!Reopened({i \in Ids : HasRow(i)}, gids.hi)]
  /\ pools' = [d \in Dirs |-> [pools[d] EXCEPT !.bm = Chk!Fresh]]
  /\ out' = "ok"
  /\ UNCHANGED <<file, job, want, hurt, crashes>>

(* The process stops, in the middle of a write if one is due, and the       *)
(* database is constructed again from its files.  When no call is under way *)
(* this is an orderly restart.                                              *)
Crash ==
  /\ Idle \/ crashes < MaxCrashes
  /\ Interrupt
  /\ gids' = [gids EXCEPT
       !.bm = Gid!Reopened({i \in Ids : HasRow(i)}, gids.hi)]
  /\ pools' = [d \in Dirs |-> [pools[d] EXCEPT
       !.bm = Chk!Reopened({l \in Chunks : pools[d].size[l] # None}, pools[d].hi)]]
  /\ crashes' = IF Idle THEN crashes ELSE crashes + 1
  /\ job' = NoJob
  /\ out' = "ok"
  /\ UNCHANGED want

(* The calls of the facade, class BehaviorDB; each forwards to BDBImpl.      *)
Calls ==
  \/ \E x \in Data, gmem, mem \in {TRUE, ~MemMayFail} :
       put(x, gmem, mem)
  \/ \E x \in Data, id \in Ids, gmem, mem \in {TRUE, ~MemMayFail} :
       put_spec(x, id, gmem, mem)
  \/ \E x \in Data, id \in Ids, off \in Offsets, mem \in {TRUE, ~MemMayFail} :
       insert(x, id, off, mem)
  \/ \E x \in Data, id \in Ids : update_in_place(x, id)
  \/ \E x \in Data, id \in Ids, mem \in {TRUE, ~MemMayFail} :
       update_moving(x, id, mem)
  \/ \E id \in Ids : del(id) \/ refuse(id)
  \/ \E id \in Ids, off \in Offsets, size \in Counts : erase(id, off, size)

Steps ==
  \/ WriteBytes
  \/ CommitSize
  \/ ReleaseChunk
  \/ CommitId
  \/ ReleaseId

Next == Calls \/ Steps \/ WriteFails \/ Crash

Spec == Init /\ [][Next]_vars

-----------------------------------------------------------------------------
(* What stat() adds to the disk size for a pool, a product of 32-bit words. *)

(* fault: the chunks in use are counted, not the place of the last one *)
DiskSize_counting(d) == (Cardinality(pools[d].bm.used) * CSE[d]) % PosSpan

DiskSize(d) == (pools[d].bm.top * CSE[d]) % PosSpan

-----------------------------------------------------------------------------
(* Properties. *)

TypeOK ==
  /\ gids.bm \in Gid!Bitmaps
  /\ gids.tab \in [Ids -> 0..(Word - 1) \cup {None}]
  /\ gids.hi \in 0..GidCap
  /\ \A d \in Dirs :
       /\ pools[d].bm \in Chk!Bitmaps
       /\ pools[d].size \in [Chunks -> Nat \cup {None}]
       /\ pools[d].hi \in 0..PoolCap
  /\ out \in Outcomes
  /\ hurt \in BOOLEAN
  /\ crashes \in 0..MaxCrashes

(* What is stored in a chunk, and what any call has written there, whether   *)
(* it came to its end or not, stays within the chunk: no datum runs into its *)
(* neighbour in the pool file.                                               *)
DataFit ==
  \A d \in Dirs, l \in Chunks :
    /\ pools[d].size[l] # None => pools[d].size[l] <= CSE[d]
    /\ Len(file[d][l]) <= CSE[d]

(* Outside the window in which a call has destroyed an id's old datum and   *)
(* not yet published the new one, every id reads back, to the byte, what    *)
(* the completed calls make of it, whatever the interrupted ones wrote.     *)
ReadsBack ==
  ~hurt => \A id \in Ids : (job.hot /\ job.id = id) \/
    IF HasRow(id)
    THEN /\ PlaceOf(id).loc \in Chunks
         /\ SizeAt(PlaceOf(id)) # None
         /\ BytesAt(PlaceOf(id)) = want[id]
    ELSE want[id] = None

(* A process that stops, or a write that fails, inside a put of a new id or *)
(* an update that moves the datum damages no id: these calls destroy        *)
(* nothing before the id leads to the new chunk.  (The other calls do have  *)
(* such a window.)                                                          *)
SafeCalls ==
  [][~hurt /\ hurt' => job.call \in {"insert", "replace", "erase", "del"}]_vars

(* No two ids lead to the same chunk. *)
NoSharing ==
  ~hurt => \A i, j \in {k \in Ids : HasRow(k)} :
             i # j => PlaceOf(i) # PlaceOf(j)

(* Between calls each bitmap agrees with its rows on disk, whatever has     *)
(* been thrown or interrupted before: nothing stays reserved.               *)
MemoryMatchesDisk ==
  Idle =>
    /\ gids.bm.used = {id \in Ids : HasRow(id)}
    /\ \A d \in Dirs :
         pools[d].bm.used = {l \in Chunks : pools[d].size[l] # None}

(* Unless a crash interrupted a call, between calls every chunk in use      *)
(* belongs to an id.                                                        *)
NoOrphans ==
  Idle /\ crashes = 0 =>
    \A d \in Dirs : \A l \in pools[d].bm.used :
      \E id \in Ids : HasRow(id) /\ PlaceOf(id) = [dir |-> d, loc |-> l]

(* The disk size stat() reports for a pool reaches the end of every chunk in *)
(* use, whatever was deleted, reopened or interrupted before, as long as the *)
(* pool file is no larger than the product can say.                          *)
StatCovers ==
  \A d \in Dirs : pools[d].bm.top * CSE[d] < PosSpan =>
    \A l \in pools[d].bm.used : (l + 1) * CSE[d] <= DiskSize(d)
=============================================================================

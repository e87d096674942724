--------------------------- MODULE BlockCopyProofs ---------------------------
(***************************************************************************)
(* BlockCopy for every size of the buffer, every datum and any number of   *)
(* signals: a copy that reports success is exact, one that fails stays in  *)
(* its target, and erase() never answers "nothing done" wrongly.           *)
(***************************************************************************)
EXTENDS BlockCopy, TLAPS

(* Whether a call of s_read() or s_write() is under way or just over. *)
InCall == pc \in {"read", "got", "write", "put"}

(* What signals may still add to the position of the stream. *)
Slack == (MaxSignals - signals) * Block

(* The counters of a call.  Unless a signal slipped in, total is what has  *)
(* moved; after one it is too large, until an error may hide it again.     *)
Counts ==
  /\ InCall =>
       /\ loopOff < job.len
       /\ at + left = Count
       /\ ~slipped /\ ~broke => total = at
       /\ ~slipped /\ broke => pc \in {"got", "put"} /\ total < Count
       /\ slipped /\ ~broke => total > at
       /\ pc \in {"got", "put"} /\ ~broke => left = 0
  /\ pc \in {"read", "write"} => left > 0 /\ pos + left + Slack <= Span
  /\ pc = "read" /\ ~slipped => pos = job.src + loopOff + at
  /\ pc = "write" /\ ~slipped => at = 0 /\ pos = job.dst + loopOff
  /\ pc \in {"loop", "flush", "copied"} => slipped = broke
  /\ pc \in {"flush", "copied"} => loopOff = job.len

(* The file when the first n bytes have been copied. *)
Copied(n) ==
  \A p \in Places :
    file[p] = IF job.dst <= p /\ p < job.dst + n THEN job.src + (p - job.dst) ELSE p

(* The first n bytes of the buffer are those of the block. *)
Buffered(n) ==
  \A i \in 0..(Block - 1) : i < n => buf[i] = job.src + loopOff + i

Contents ==
  /\ ~slipped =>
       /\ pc \in {"loop", "read", "got", "write", "flush", "copied"} => Copied(loopOff)
       /\ pc = "read" => Buffered(at)
       /\ pc = "got" /\ ~broke => Buffered(Count)
       /\ pc = "write" => Buffered(Count)
       /\ pc = "put" /\ ~broke => Copied(loopOff + Count)
  /\ pc = "kept" \/ (loopOff = 0 /\ pc \in {"loop", "read", "got"}) => Copied(0)
  /\ StaysInTarget

(* The inductive invariant. *)
CInv == TypeOK /\ Counts /\ Contents

-----------------------------------------------------------------------------
(* Facts about one job and the block at hand. *)
LEMMA JobFacts ==
  ASSUME TypeOK
  PROVE  /\ job.src \in Nat /\ job.dst \in Nat /\ job.len \in Nat /\ job.end \in 0..Span
         /\ job.src + job.len + Spill <= Span
         /\ job.dst + job.len + Spill <= Span
         /\ job.dst <= job.src \/ job.src + job.len <= job.dst
         /\ job.kind \in Kinds
         /\ Block \in Nat \ {0} /\ Span \in Nat /\ MaxSignals \in Nat
         /\ Spill \in Nat
<1>1. MaxSignals * Block \in Nat
  BY CopyAssumption
<1>2. Spill \in Nat
  BY <1>1 DEF Spill
<1> QED BY <1>2, CopyAssumption DEF TypeOK, AllJobs

(* Every counter is a natural number. *)
LEMMA Numbers ==
  ASSUME TypeOK
  PROVE  /\ loopOff \in Nat /\ pos \in Nat /\ at \in Nat /\ left \in Nat
         /\ total \in Nat /\ signals \in Nat /\ end \in Nat
         /\ loopOff <= job.len /\ pos <= Span /\ at + left <= Block
         /\ signals <= MaxSignals /\ end <= Span
BY JobFacts DEF TypeOK

(* A block is not empty, fits the buffer and lies within the datum. *)
LEMMA CountFacts ==
  ASSUME TypeOK, loopOff < job.len
  PROVE  /\ Count \in 1..Block
         /\ loopOff + Count <= job.len
<1>1. job.len \in Nat /\ loopOff \in Nat /\ Block \in Nat /\ Block > 0
  BY JobFacts, Numbers
<1> QED BY <1>1 DEF Count, Least

(* The slack is a number of bytes, and a signal uses up a block of it. *)
LEMMA SlackFacts ==
  ASSUME TypeOK
  PROVE  /\ Slack \in Nat
         /\ Slack <= Spill
         /\ signals' = signals => Slack' = Slack
         /\ signals < MaxSignals /\ signals' = signals + 1 =>
              Slack' \in Nat /\ Slack' + Block = Slack
<1>1. Block \in Nat /\ MaxSignals \in Nat /\ signals \in 0..MaxSignals
  BY CopyAssumption DEF TypeOK
<1>2. ASSUME NEW m \in Nat, NEW b \in Nat
      PROVE  /\ m * b \in Nat
             /\ (m + 1) * b = m * b + b
  BY <1>2
<1>3. ASSUME NEW m \in Nat, NEW n \in Nat, NEW b \in Nat
      PROVE  m * b <= (m + n) * b
  BY <1>3, SMT
<1> DEFINE m == MaxSignals - signals
<1>4. m \in Nat /\ MaxSignals = m + signals
  BY <1>1
<1>5. Slack \in Nat /\ Slack <= Spill
  BY <1>1, <1>2, <1>3, <1>4 DEF Slack, Spill
<1>6. ASSUME signals < MaxSignals, signals' = signals + 1
      PROVE  Slack' \in Nat /\ Slack' + Block = Slack
  <2> DEFINE k == MaxSignals - (signals + 1)
  <2>1. k \in Nat /\ m = k + 1
    BY <1>1, <1>6
  <2>2. (k + 1) * Block = k * Block + Block
    BY <1>1, <1>2, <2>1
  <2>3. Slack' = k * Block
    BY <1>6 DEF Slack
  <2>4. Slack = (k + 1) * Block
    BY <2>1 DEF Slack
  <2>5. k * Block \in Nat
    BY <1>1, <1>2, <2>1
  <2> QED BY <2>2, <2>3, <2>4, <2>5
<1>7. signals' = signals => Slack' = Slack
  BY DEF Slack
<1> QED BY <1>5, <1>6, <1>7

(* A block that starts in source or destination leaves room for the slack. *)
LEMMA BlockFits ==
  ASSUME TypeOK, loopOff < job.len, NEW place \in {job.src, job.dst}
  PROVE  /\ place + loopOff \in 0..Span
         /\ place + loopOff + Count + Slack <= Span
         /\ 0 \in 0..Block /\ Count \in 0..Block /\ 0 + Count <= Block /\ Count > 0
         /\ 0 + Count = Count
<1>1. /\ place \in Nat /\ loopOff \in Nat /\ Count \in Nat /\ Slack \in Nat
      /\ Spill \in Nat /\ Span \in Nat /\ job.len \in Nat /\ Block \in Nat
  <2>1. Count \in Nat
    BY CountFacts
  <2> QED BY <2>1, JobFacts, Numbers, SlackFacts
<1>2. place + job.len + Spill <= Span /\ loopOff + Count <= job.len /\ Slack <= Spill
  BY JobFacts, CountFacts, SlackFacts
<1>3. Count <= Block /\ Count > 0
  BY <1>1, CountFacts
<1> QED BY <1>1, <1>2, <1>3

(* The bytes of the source that are not copied yet are still in place: the *)
(* gap is closed downwards, and a datum is copied to another chunk.        *)
LEMMA SourceIntact ==
  ASSUME TypeOK, Copied(loopOff), NEW i \in Nat, loopOff + i < job.len
  PROVE  file[job.src + loopOff + i] = job.src + loopOff + i
<1> DEFINE p == job.src + loopOff + i
<1>1. loopOff \in Nat
  BY JobFacts DEF TypeOK
<1>2. p \in Places
  BY <1>1, JobFacts DEF Places
<1>3. ~(job.dst <= p /\ p < job.dst + loopOff)
  BY <1>1, JobFacts
<1> QED BY <1>2, <1>3 DEF Copied

-----------------------------------------------------------------------------
(* A copy that has not begun. *)
LEMMA InitCInv == Init => CInv
<1> SUFFICES ASSUME Init PROVE CInv
  OBVIOUS
<1>1. TypeOK
  <2>1. /\ Block \in Nat \ {0} /\ Span \in Nat /\ MaxSignals \in Nat
        /\ job \in Jobs /\ job.end \in 0..Span /\ job.len \in Nat
    BY CopyAssumption DEF Init, AllJobs
  <2>2. file \in [Places -> Nat] /\ buf \in [0..(Block - 1) -> Nat]
    BY <2>1 DEF Init, Places
  <2>3. 0 \in 0..Span /\ 0 \in 0..Block /\ 0 + 0 <= Block /\ 0 \in 0..MaxSignals
        /\ 0 \in 0..job.len
    BY <2>1
  <2> QED BY <2>1, <2>2, <2>3 DEF Init, TypeOK
<1>2. Counts
  BY DEF Init, Counts, InCall
<1>3. Copied(0)
  BY <1>1, JobFacts DEF Init, Copied, Places
<1>4. Contents
  BY <1>3 DEF Init, Contents, StaysInTarget
<1> QED BY <1>1, <1>2, <1>4 DEF CInv

(* Seeking, for a read or for a write. *)
LEMMA NextBlockKeeps ==
  ASSUME CInv, NextBlock
  PROVE  CInv'
<1>1. TypeOK /\ Counts /\ Contents
  BY DEF CInv
<1>2. /\ pc = "loop" /\ loopOff < job.len /\ pc' = "read" /\ pos' = job.src + loopOff
      /\ at' = 0 /\ left' = Count /\ total' = 0
      /\ UNCHANGED <<job, file, end, buf, loopOff, signals, slipped, broke>>
  BY DEF NextBlock, Start
<1>3. Count' = Count /\ Slack' = Slack
  BY <1>1, <1>2, SlackFacts DEF Count
<1>4. /\ pos' \in 0..Span /\ pos' + left' + Slack' <= Span
      /\ at' \in 0..Block /\ left' \in 0..Block /\ at' + left' <= Block
      /\ left' > 0 /\ at' + left' = Count'
  BY <1>1, <1>2, <1>3, BlockFits
<1>6. TypeOK'
  BY <1>1, <1>2, <1>4 DEF TypeOK
<1>7. Counts'
  <2>1. slipped = broke /\ pos' = job.src + loopOff + at'
    BY <1>1, <1>2, JobFacts DEF Counts, TypeOK
  <2> QED BY <1>2, <1>4, <2>1 DEF Counts, InCall
<1>8. Contents'
  <2>1. Copied(loopOff)' <=> Copied(loopOff)
    BY <1>2 DEF Copied
  <2>2. Copied(0)' <=> Copied(0)
    BY <1>2 DEF Copied
  <2>3. Buffered(at)'
    BY <1>2 DEF Buffered
  <2> QED BY <1>1, <1>2, <2>1, <2>2, <2>3 DEF Contents, StaysInTarget, Target
<1> QED BY <1>6, <1>7, <1>8 DEF CInv

(* What one fread() of k bytes does to the buffer and the stream. *)
LEMMA GetFacts ==
  ASSUME CInv, pc = "read", NEW k \in Nat, k <= Available, Get(k)
  PROVE  /\ k <= left
         /\ buf' \in [0..(Block - 1) -> Nat]
         /\ pos' = pos + k /\ pos' \in 0..Span
         /\ total' = total + k /\ total' \in Nat
         /\ UNCHANGED <<job, file, end, loopOff>>
         /\ Slack \in Nat
         /\ ~slipped => \A i \in 0..(Block - 1) :
                          i < at + k => buf'[i] = job.src + loopOff + i
<1>1. TypeOK /\ Counts /\ Contents
  BY DEF CInv
<1>2. /\ pos' = pos + k /\ total' = total + k
      /\ UNCHANGED <<job, file, end, loopOff>>
      /\ buf' = [i \in 0..(Block - 1) |->
                   IF at <= i /\ i < at + k THEN file[pos + i - at] ELSE buf[i]]
  BY DEF Get
<1>3. /\ pos \in Nat /\ at \in Nat /\ left \in Nat /\ total \in Nat /\ end \in Nat
      /\ end <= Span /\ at + left <= Block /\ Slack \in Nat /\ left > 0
      /\ pos + left + Slack <= Span /\ Span \in Nat /\ Block \in Nat
      /\ at + left = Count /\ loopOff < job.len /\ loopOff \in Nat
  BY <1>1, JobFacts, Numbers, SlackFacts DEF Counts, InCall
<1>4. k <= left /\ (k > 0 => pos + k <= end)
  BY <1>3 DEF Available, Least, Most
<1>5. pos' \in 0..Span /\ total' \in Nat
  <2>1. pos + k \in Nat /\ pos + k <= Span
    BY <1>3, <1>4
  <2>2. total + k \in Nat
    BY <1>3
  <2> QED BY <1>2, <1>3, <2>1, <2>2
<1>6. buf' \in [0..(Block - 1) -> Nat]
  <2> SUFFICES ASSUME NEW i \in 0..(Block - 1), at <= i, i < at + k
               PROVE  file[pos + i - at] \in Nat
    BY <1>1, <1>2 DEF TypeOK
  <2>1. i \in Nat
    BY <1>3
  <2>2. pos + i - at \in Places
    BY <1>3, <1>4, <2>1 DEF Places
  <2> QED BY <1>1, <2>2 DEF TypeOK
<1>7. ASSUME ~slipped, NEW i \in 0..(Block - 1), i < at + k
      PROVE  buf'[i] = job.src + loopOff + i
  <2>1. Copied(loopOff) /\ Buffered(at) /\ pos = job.src + loopOff + at
    BY <1>1, <1>7 DEF Counts, Contents
  <2>2. i \in Nat /\ job.src \in Nat /\ job.len \in Nat
    BY <1>1, <1>3, JobFacts
  <2>3. CASE i < at
    BY <1>2, <1>3, <2>1, <2>2, <2>3 DEF Buffered
  <2>4. CASE at <= i
    <3>1. pos + i - at = job.src + loopOff + i
      BY <1>3, <2>1, <2>2
    <3>2. loopOff + i < job.len
      <4>1. loopOff + Count <= job.len
        BY <1>1, <1>3, CountFacts
      <4> QED BY <1>3, <1>4, <1>7, <2>2, <4>1
    <3>3. file[job.src + loopOff + i] = job.src + loopOff + i
      BY <1>1, <2>1, <2>2, <3>2, SourceIntact
    <3> QED BY <1>2, <1>7, <2>4, <3>1, <3>3
  <2> QED BY <1>3, <2>2, <2>3, <2>4
<1> QED BY <1>2, <1>3, <1>4, <1>5, <1>6, <1>7

(* A complete fread(), or one cut short by the end of the file. *)
LEMMA ReadSomeKeeps ==
  ASSUME CInv, ReadSome
  PROVE  CInv'
<1> DEFINE k == Available
<1>1. TypeOK /\ Counts /\ Contents
  BY DEF CInv
<1>2. /\ pc = "read" /\ Get(k) /\ at' = at + k /\ left' = left - k
      /\ pc' = IF left = k THEN "got" ELSE "read"
      /\ UNCHANGED <<signals, slipped, broke>> /\ k > 0
  BY DEF ReadSome
<1>3. /\ pos \in Nat /\ at \in Nat /\ left \in Nat /\ total \in Nat /\ end \in Nat
      /\ end <= Span /\ at + left <= Block /\ left > 0 /\ pos + left + Slack <= Span
      /\ at + left = Count /\ loopOff < job.len /\ loopOff \in Nat /\ Span \in Nat
      /\ Block \in Nat /\ job.src \in Nat
      /\ ~slipped => pos = job.src + loopOff + at
      /\ slipped \/ ~broke
      /\ ~slipped => total = at
      /\ slipped /\ ~broke => total > at
  BY <1>1, <1>2, JobFacts, Numbers DEF Counts, InCall
<1>4. k \in Nat
  BY <1>3 DEF Available, Least, Most
<1> HIDE DEF k
<1>5. /\ k <= left /\ buf' \in [0..(Block - 1) -> Nat]
      /\ pos' = pos + k /\ pos' \in 0..Span
      /\ total' = total + k /\ total' \in Nat
      /\ UNCHANGED <<job, file, end, loopOff>> /\ Slack \in Nat
      /\ ~slipped => \A i \in 0..(Block - 1) :
                       i < at + k => buf'[i] = job.src + loopOff + i
  BY <1>2, <1>4, GetFacts DEF k
<1>6. /\ at' \in 0..Block /\ left' \in 0..Block /\ at' + left' <= Block
      /\ at' + left' = Count /\ Count' = Count /\ Slack' = Slack
      /\ pos' + left' + Slack' <= Span
      /\ left' = 0 <=> left = k
      /\ left' >= 0
  BY <1>1, <1>2, <1>3, <1>4, <1>5, SlackFacts DEF Count
<1>7. TypeOK'
  BY <1>1, <1>2, <1>5, <1>6 DEF TypeOK
<1>8. Counts'
  <2>1. /\ ~slipped => total' = at' /\ pos' = job.src + loopOff + at'
        /\ slipped /\ ~broke => total' > at'
    <3>1. /\ total' = total + k /\ at' = at + k /\ pos' = pos + k
          /\ total \in Nat /\ at \in Nat /\ pos \in Nat /\ k \in Nat
      BY <1>2, <1>3, <1>4, <1>5
    <3>2. CASE ~slipped
      <4>1. total = at /\ pos = job.src + loopOff + at
        BY <1>3, <3>2
      <4> QED BY <1>3, <3>1, <3>2, <4>1
    <3>3. CASE slipped /\ ~broke
      <4>1. total > at
        BY <1>3, <3>3
      <4> QED BY <3>1, <3>3, <4>1
    <3> QED BY <3>2, <3>3
  <2>2. pc' = "read" => left' > 0
    BY <1>2, <1>3, <1>4, <1>5
  <2> QED BY <1>2, <1>3, <1>5, <1>6, <2>1, <2>2 DEF Counts, InCall
<1>9. Contents'
  <2>1. \A n : Copied(n)' <=> Copied(n)
    BY <1>5 DEF Copied
  <2>2. ~slipped => Buffered(at)'
    BY <1>2, <1>5 DEF Buffered
  <2>3. ~slipped /\ pc' = "got" => at + k = Count
    BY <1>2, <1>3
  <2>4. ~slipped /\ pc' = "got" => Buffered(Count)'
    BY <1>2, <1>5, <1>6, <2>3 DEF Buffered
  <2>5. StaysInTarget'
    BY <1>1, <1>2, <1>5 DEF Contents, StaysInTarget, Target
  <2> QED BY <1>1, <1>2, <1>5, <2>1, <2>2, <2>4, <2>5 DEF Contents
<1> QED BY <1>7, <1>8, <1>9 DEF CInv

(* A signal between the bytes of a fread(): the total is ahead from now on. *)
LEMMA ReadSlipsKeeps ==
  ASSUME CInv, NEW k \in 0..(Block - 1), ReadSlips(k)
  PROVE  CInv'
<1>1. TypeOK /\ Counts /\ Contents
  BY DEF CInv
<1>2. /\ pc = "read" /\ Get(k) /\ k < left /\ k <= Available
      /\ signals < MaxSignals /\ signals' = signals + 1
      /\ slipped' = IF k > 0 THEN TRUE ELSE slipped
      /\ UNCHANGED <<pc, at, left, broke>>
  BY DEF ReadSlips
<1>3. /\ pos \in Nat /\ at \in Nat /\ left \in Nat /\ total \in Nat /\ k \in Nat
      /\ Span \in Nat /\ Block \in Nat /\ k < Block /\ signals \in Nat /\ MaxSignals \in Nat
  BY <1>1, JobFacts, Numbers
<1>4. /\ at + left = Count /\ loopOff < job.len /\ left > 0
      /\ pos + left + Slack <= Span
      /\ ~slipped => total = at /\ pos = job.src + loopOff + at
      /\ slipped /\ ~broke => total > at
      /\ slipped \/ ~broke
  BY <1>1, <1>2 DEF Counts, InCall
<1>5. /\ buf' \in [0..(Block - 1) -> Nat]
      /\ pos' = pos + k /\ pos' \in 0..Span
      /\ total' = total + k /\ total' \in Nat
      /\ UNCHANGED <<job, file, end, loopOff>>
      /\ ~slipped => \A i \in 0..(Block - 1) :
                       i < at + k => buf'[i] = job.src + loopOff + i
  BY <1>2, <1>3, GetFacts
<1>6. Slack' + Block = Slack /\ Slack' \in Nat /\ Count' = Count
  BY <1>1, <1>2, <1>5, SlackFacts DEF Count
<1>7. TypeOK'
  <2>1. signals' \in 0..MaxSignals
    BY <1>2, <1>3
  <2>2. slipped' \in BOOLEAN
    BY <1>1, <1>2 DEF TypeOK
  <2> QED BY <1>1, <1>2, <1>5, <2>1, <2>2 DEF TypeOK
<1>8. pos' + left' + Slack' <= Span
  <2>1. pos' = pos + k /\ left' = left
    BY <1>2, <1>5
  <2>2. pos + left + (Slack' + Block) <= Span
    BY <1>4, <1>6
  <2>3. ASSUME NEW s \in Nat, pos + left + (s + Block) <= Span
        PROVE  (pos + k) + left + s <= Span
    BY <1>3, <2>3
  <2> QED BY <1>6, <2>1, <2>2, <2>3
<1>9. ~slipped' => ~slipped /\ k = 0
  BY <1>2, <1>3
<1>10. Counts'
  <2>1. CASE k = 0
    <3>1. total' = total /\ pos' = pos /\ slipped' = slipped
      BY <1>2, <1>3, <1>5, <2>1
    <3> QED BY <1>2, <1>4, <1>5, <1>6, <1>8, <3>1 DEF Counts, InCall
  <2>2. CASE k > 0
    <3>1. slipped' = TRUE
      BY <1>2, <2>2
    <3>2. ~broke => total' > at'
      <4>1. ~broke => total >= at
        BY <1>3, <1>4
      <4>2. total' = total + k /\ at' = at
        BY <1>2, <1>5
      <4> QED BY <1>3, <2>2, <4>1, <4>2
    <3> QED BY <1>2, <1>4, <1>5, <1>6, <1>8, <3>1, <3>2 DEF Counts, InCall
  <2> QED BY <1>3, <2>1, <2>2
<1>11. Contents'
  <2>1. \A n : Copied(n)' <=> Copied(n)
    BY <1>5 DEF Copied
  <2>2. ~slipped' => Buffered(at)'
    <3> SUFFICES ASSUME ~slipped' PROVE Buffered(at)'
      OBVIOUS
    <3>1. ~slipped /\ at' = at + k
      BY <1>2, <1>3, <1>9
    <3> QED BY <1>5, <3>1 DEF Buffered
  <2>3. StaysInTarget'
    BY <1>1, <1>5, <1>9 DEF Contents, StaysInTarget, Target
  <2> QED BY <1>1, <1>2, <1>5, <1>9, <2>1, <2>2, <2>3 DEF Contents
<1> QED BY <1>7, <1>10, <1>11 DEF CInv

(* An error in a fread(): what has been counted is returned. *)
LEMMA ReadBreaksKeeps ==
  ASSUME CInv, NEW k \in 0..(Block - 1), ReadBreaks(k)
  PROVE  CInv'
<1>1. TypeOK /\ Counts /\ Contents
  BY DEF CInv
<1>2. /\ pc = "read" /\ Get(k) /\ k < left /\ k <= Available
      /\ broke' = TRUE /\ pc' = "got"
      /\ UNCHANGED <<at, left, signals, slipped>>
  BY DEF ReadBreaks
<1>3. /\ at \in Nat /\ left \in Nat /\ total \in Nat /\ k \in Nat
  BY <1>1, JobFacts, Numbers
<1>4. /\ at + left = Count /\ loopOff < job.len
      /\ ~slipped => total = at
  BY <1>1, <1>2 DEF Counts, InCall
<1>5. /\ buf' \in [0..(Block - 1) -> Nat] /\ pos' \in 0..Span
      /\ total' = total + k /\ total' \in Nat
      /\ UNCHANGED <<job, file, end, loopOff>>
  BY <1>2, <1>3, GetFacts
<1>6. TypeOK'
  BY <1>1, <1>2, <1>5 DEF TypeOK
<1>7. Counts'
  <2>1. Count' = Count /\ (~slipped => total' < Count)
    BY <1>2, <1>3, <1>4, <1>5 DEF Count
  <2> QED BY <1>2, <1>4, <1>5, <2>1 DEF Counts, InCall
<1>8. Contents'
  <2>1. \A n : Copied(n)' <=> Copied(n)
    BY <1>5 DEF Copied
  <2>2. StaysInTarget'
    BY <1>1, <1>2, <1>5 DEF Contents, StaysInTarget, Target
  <2> QED BY <1>1, <1>2, <1>5, <2>1, <2>2 DEF Contents
<1> QED BY <1>6, <1>7, <1>8 DEF CInv

(* Seeking to the destination. *)
LEMMA GotKeeps ==
  ASSUME CInv, Got
  PROVE  CInv'
<1>1. TypeOK /\ Counts /\ Contents
  BY DEF CInv
<1>2. /\ pc = "got" /\ total = Count /\ pc' = "write" /\ pos' = job.dst + loopOff
      /\ at' = 0 /\ left' = Count /\ total' = 0
      /\ UNCHANGED <<job, file, end, buf, loopOff, signals, slipped, broke>>
  BY DEF Got, Start
<1>3. /\ Count' = Count /\ Slack' = Slack /\ loopOff < job.len
      /\ job.dst \in Nat /\ loopOff \in Nat /\ at \in Nat /\ total \in Nat
  BY <1>1, <1>2, JobFacts, Numbers, SlackFacts DEF Counts, InCall, Count
<1>4. /\ pos' \in 0..Span /\ pos' + left' + Slack' <= Span
      /\ at' \in 0..Block /\ left' \in 0..Block /\ at' + left' <= Block
      /\ left' > 0 /\ at' + left' = Count'
  BY <1>1, <1>2, <1>3, BlockFits
(* An exact count means that nothing went wrong, or that one mishap hides   *)
(* another. *)
<1>5. /\ broke => slipped
      /\ slipped => broke
  <2>1. /\ ~slipped /\ broke => total < Count
        /\ slipped /\ ~broke => total > at /\ left = 0 /\ at + left = Count
    BY <1>1, <1>2 DEF Counts, InCall
  <2>2. ~(total < Count)
    BY <1>2, <1>3
  <2>3. ~(slipped /\ ~broke)
    <3> SUFFICES ASSUME slipped /\ ~broke PROVE FALSE
      OBVIOUS
    <3>1. total > at /\ left = 0 /\ at + left = Count
      BY <2>1
    <3> QED BY <1>2, <1>3, <3>1
  <2> QED BY <2>1, <2>2, <2>3
<1>6. TypeOK'
  BY <1>1, <1>2, <1>4 DEF TypeOK
<1>7. Counts'
  BY <1>2, <1>3, <1>4, <1>5 DEF Counts, InCall
<1>8. Contents'
  <2>1. \A n : Copied(n)' <=> Copied(n)
    BY <1>2 DEF Copied
  <2>2. ~slipped => Buffered(Count)
    BY <1>1, <1>2, <1>5 DEF Contents
  <2>3. ~slipped => Buffered(Count)'
    BY <1>2, <1>3, <2>2 DEF Buffered
  <2>4. StaysInTarget'
    BY <1>1, <1>2 DEF Contents, StaysInTarget, Target
  <2> QED BY <1>1, <1>2, <2>1, <2>3, <2>4 DEF Contents
<1> QED BY <1>6, <1>7, <1>8 DEF CInv

(* A copy that gives up changes nothing any more. *)
LEMMA GivesUpKeeps ==
  ASSUME CInv, pc' \in {"kept", "currupted", "thrown"}, broke' \in BOOLEAN,
         UNCHANGED <<job, file, end, buf, loopOff, pos, at, left, total, signals, slipped>>,
         pc' = "kept" => Copied(0)
  PROVE  CInv'
<1>1. TypeOK /\ Counts /\ Contents
  BY DEF CInv
<1>2. TypeOK'
  BY <1>1 DEF TypeOK, Ends
<1>3. Counts'
  BY DEF Counts, InCall
<1>4. Copied(0)' <=> Copied(0)
  BY DEF Copied
<1>5. StaysInTarget'
  BY <1>1 DEF Contents, StaysInTarget, Target
<1> QED BY <1>1, <1>2, <1>3, <1>4, <1>5 DEF CInv, Contents

(* A short read: erase() says that nothing is done only when that is so. *)
LEMMA GotLessKeeps ==
  ASSUME CInv, GotLess
  PROVE  CInv'
<1>1. pc = "got" /\ Contents /\ TypeOK
  BY DEF CInv, GotLess
<1>2. /\ pc' \in {"kept", "currupted", "thrown"}
      /\ pc' = "kept" => loopOff = 0
      /\ UNCHANGED <<job, file, end, buf, loopOff, pos, at, left, total, signals, slipped,
                     broke>>
  BY <1>1, JobFacts DEF GotLess, Kinds
<1>3. pc' = "kept" => Copied(0)
  BY <1>1, <1>2 DEF Contents
<1>4. broke' \in BOOLEAN
  BY <1>1, <1>2 DEF TypeOK
<1> QED BY <1>2, <1>3, <1>4, GivesUpKeeps

(* What one fwrite() of k bytes does to the file and the stream. *)
LEMMA PutFacts ==
  ASSUME CInv, pc = "write", NEW k \in Nat, k <= left, Put(k)
  PROVE  /\ file' \in [Places -> Nat]
         /\ end' \in 0..Span
         /\ pos' = pos + k /\ pos' \in 0..Span
         /\ total' = total + k /\ total' \in Nat
         /\ UNCHANGED <<job, buf, loopOff>>
         /\ ~slipped => /\ \A p \in Places :
                             file'[p] = IF job.dst <= p /\ p < job.dst + (loopOff + k)
                                        THEN job.src + (p - job.dst) ELSE p
                        /\ \A p \in Places \ Target : file'[p] = p
<1>1. TypeOK /\ Counts /\ Contents
  BY DEF CInv
<1>2. /\ pos' = pos + k /\ total' = total + k
      /\ UNCHANGED <<job, buf, loopOff>>
      /\ file' = [p \in Places |->
                   IF pos <= p /\ p < pos + k THEN buf[at + p - pos] ELSE file[p]]
      /\ end' = IF k > 0 THEN Most(end, pos + k) ELSE end
  BY DEF Put
<1>3. /\ pos \in Nat /\ at \in Nat /\ left \in Nat /\ total \in Nat /\ end \in Nat
      /\ end <= Span /\ at + left <= Block /\ Slack \in Nat
      /\ pos + left + Slack <= Span /\ Span \in Nat /\ Block \in Nat
      /\ at + left = Count /\ loopOff < job.len /\ loopOff \in Nat
      /\ job.src \in Nat /\ job.dst \in Nat /\ job.len \in Nat
  BY <1>1, JobFacts, Numbers, SlackFacts DEF Counts, InCall
<1>4. pos + k \in Nat /\ pos + k <= Span /\ total + k \in Nat
  BY <1>3
<1>5. pos' \in 0..Span /\ total' \in Nat /\ end' \in 0..Span
  BY <1>2, <1>3, <1>4 DEF Most
<1>6. file' \in [Places -> Nat]
  <2> SUFFICES ASSUME NEW p \in Places, pos <= p, p < pos + k
               PROVE  buf[at + p - pos] \in Nat
    BY <1>1, <1>2 DEF TypeOK
  <2>1. p \in Nat
    BY <1>3 DEF Places
  <2>2. at + p - pos \in 0..(Block - 1)
    BY <1>3, <2>1
  <2> QED BY <1>1, <2>2 DEF TypeOK
<1>7. ASSUME ~slipped
      PROVE  /\ \A p \in Places :
                  file'[p] = IF job.dst <= p /\ p < job.dst + (loopOff + k)
                             THEN job.src + (p - job.dst) ELSE p
             /\ \A p \in Places \ Target : file'[p] = p
  <2>1. Copied(loopOff) /\ Buffered(Count) /\ at = 0 /\ pos = job.dst + loopOff
    BY <1>1, <1>7 DEF Counts, Contents
  <2>2. loopOff + k <= job.len
    <3>1. loopOff + Count <= job.len
      BY <1>1, <1>3, CountFacts
    <3> QED BY <1>3, <2>1, <3>1
  <2>3. ASSUME NEW p \in Places
        PROVE  file'[p] = IF job.dst <= p /\ p < job.dst + (loopOff + k)
                          THEN job.src + (p - job.dst) ELSE p
    <3>1. p \in Nat
      BY <1>3 DEF Places
    <3>2. CASE pos <= p /\ p < pos + k
      <4> DEFINE i == p - pos
      <4>1. i \in 0..(Block - 1) /\ i < Count /\ at + p - pos = i
        BY <1>3, <2>1, <3>1, <3>2
      <4>2. file'[p] = buf[i]
        BY <1>2, <3>2, <4>1
      <4>3. buf[i] = job.src + loopOff + i
        BY <2>1, <4>1 DEF Buffered
      <4>4. /\ job.src + loopOff + i = job.src + (p - job.dst)
            /\ job.dst <= p /\ p < job.dst + (loopOff + k)
        BY <1>3, <2>1, <3>1, <3>2
      <4> QED BY <4>2, <4>3, <4>4
    <3>3. CASE ~(pos <= p /\ p < pos + k)
      <4>1. file'[p] = file[p]
        BY <1>2, <3>3
      <4>2. file[p] = IF job.dst <= p /\ p < job.dst + loopOff
                      THEN job.src + (p - job.dst) ELSE p
        BY <2>1 DEF Copied
      <4>3. (job.dst <= p /\ p < job.dst + (loopOff + k))
              <=> (job.dst <= p /\ p < job.dst + loopOff)
        BY <1>3, <2>1, <3>1, <3>3
      <4> QED BY <4>1, <4>2, <4>3
    <3> QED BY <3>2, <3>3
  <2>5. ASSUME NEW p \in Places, p \notin Target PROVE file'[p] = p
    <3>1. p \in Nat
      BY <1>3 DEF Places
    <3>2. ~(job.dst <= p /\ p < job.dst + (loopOff + k))
      BY <1>3, <2>2, <2>5, <3>1 DEF Target
    <3> QED BY <2>3, <3>2
  <2> QED BY <2>3, <2>5
<1> QED BY <1>2, <1>5, <1>6, <1>7

(* The whole block goes out. *)
LEMMA WriteAllKeeps ==
  ASSUME CInv, WriteAll
  PROVE  CInv'
<1>1. TypeOK /\ Counts /\ Contents
  BY DEF CInv
<1>2. /\ pc = "write" /\ Put(left) /\ at' = at + left /\ left' = 0 /\ pc' = "put"
      /\ UNCHANGED <<signals, slipped, broke>>
  BY DEF WriteAll
<1>3. /\ at \in Nat /\ left \in Nat /\ total \in Nat /\ Block \in Nat /\ left <= left
      /\ at + left <= Block
  BY <1>1, JobFacts, Numbers
<1>4. /\ at + left = Count /\ loopOff < job.len
      /\ ~slipped => total = at /\ at = 0 /\ ~broke
      /\ slipped /\ ~broke => total > at
  BY <1>1, <1>2 DEF Counts, InCall
<1>5. /\ file' \in [Places -> Nat] /\ end' \in 0..Span /\ pos' \in 0..Span
      /\ total' = total + left /\ total' \in Nat
      /\ UNCHANGED <<job, buf, loopOff>>
      /\ ~slipped => /\ \A p \in Places :
                          file'[p] = IF job.dst <= p /\ p < job.dst + (loopOff + left)
                                     THEN job.src + (p - job.dst) ELSE p
                     /\ \A p \in Places \ Target : file'[p] = p
  BY <1>2, <1>3, PutFacts
<1>6. TypeOK'
  <2>1. at' \in 0..Block /\ left' \in 0..Block /\ at' + left' <= Block
    BY <1>2, <1>3
  <2> QED BY <1>1, <1>2, <1>5, <2>1 DEF TypeOK
<1>7. Counts'
  <2>1. Count' = Count /\ at' + left' = Count /\ left' = 0
    BY <1>2, <1>3, <1>4, <1>5 DEF Count
  <2>2. CASE ~slipped
    <3>1. total' = at' /\ ~broke
      BY <1>2, <1>3, <1>4, <1>5, <2>2
    <3> QED BY <1>2, <1>4, <1>5, <2>1, <2>2, <3>1 DEF Counts, InCall
  <2>3. CASE slipped
    <3>1. ~broke => total' > at'
      <4>1. ~broke => total > at
        BY <1>4, <2>3
      <4>2. total' = total + left /\ at' = at + left
        BY <1>2, <1>5
      <4> QED BY <1>3, <4>1, <4>2
    <3> QED BY <1>2, <1>4, <1>5, <2>1, <2>3, <3>1 DEF Counts, InCall
  <2> QED BY <2>2, <2>3
<1>8. Contents'
  <2>1. ~slipped => left = Count /\ Count' = Count
    BY <1>3, <1>4, <1>5 DEF Count
  <2>2. ~slipped' => Copied(loopOff + Count)' /\ StaysInTarget'
    <3> SUFFICES ASSUME ~slipped PROVE Copied(loopOff + Count)' /\ StaysInTarget'
      BY <1>2
    <3>1. left = Count /\ Count' = Count /\ loopOff' = loopOff /\ job' = job
      BY <1>5, <2>1
    <3> QED BY <1>5, <3>1 DEF Copied, StaysInTarget, Target
  <2>3. StaysInTarget'
    BY <2>2 DEF StaysInTarget
  <2> QED BY <1>2, <2>2, <2>3 DEF Contents
<1> QED BY <1>6, <1>7, <1>8 DEF CInv

(* A signal between the bytes of a fwrite(). *)
LEMMA WriteSlipsKeeps ==
  ASSUME CInv, NEW k \in 0..(Block - 1), WriteSlips(k)
  PROVE  CInv'
<1>1. TypeOK /\ Counts /\ Contents
  BY DEF CInv
<1>2. /\ pc = "write" /\ Put(k) /\ k < left
      /\ signals < MaxSignals /\ signals' = signals + 1
      /\ slipped' = IF k > 0 THEN TRUE ELSE slipped
      /\ UNCHANGED <<pc, at, left, broke>>
  BY DEF WriteSlips
<1>3. /\ pos \in Nat /\ at \in Nat /\ left \in Nat /\ total \in Nat /\ k \in Nat
      /\ Span \in Nat /\ Block \in Nat /\ k < Block /\ signals \in Nat /\ MaxSignals \in Nat
      /\ k <= left /\ loopOff \in Nat
  BY <1>1, <1>2, JobFacts, Numbers
<1>4. /\ at + left = Count /\ loopOff < job.len /\ left > 0
      /\ pos + left + Slack <= Span
      /\ ~slipped => total = at /\ at = 0 /\ pos = job.dst + loopOff
      /\ slipped /\ ~broke => total > at
      /\ slipped \/ ~broke
  BY <1>1, <1>2 DEF Counts, InCall
<1>5. /\ file' \in [Places -> Nat] /\ end' \in 0..Span
      /\ pos' = pos + k /\ pos' \in 0..Span
      /\ total' = total + k /\ total' \in Nat
      /\ UNCHANGED <<job, buf, loopOff>>
      /\ ~slipped => /\ \A p \in Places :
                          file'[p] = IF job.dst <= p /\ p < job.dst + (loopOff + k)
                                     THEN job.src + (p - job.dst) ELSE p
                     /\ \A p \in Places \ Target : file'[p] = p
  BY <1>2, <1>3, PutFacts
<1>6. Slack' + Block = Slack /\ Slack' \in Nat /\ Count' = Count
  BY <1>1, <1>2, <1>5, SlackFacts DEF Count
<1>7. TypeOK'
  <2>1. signals' \in 0..MaxSignals
    BY <1>2, <1>3
  <2>2. slipped' \in BOOLEAN
    BY <1>1, <1>2 DEF TypeOK
  <2> QED BY <1>1, <1>2, <1>5, <2>1, <2>2 DEF TypeOK
<1>8. pos' + left' + Slack' <= Span
  <2>1. pos' = pos + k /\ left' = left
    BY <1>2, <1>5
  <2>2. pos + left + (Slack' + Block) <= Span
    BY <1>4, <1>6
  <2>3. ASSUME NEW s \in Nat, pos + left + (s + Block) <= Span
        PROVE  (pos + k) + left + s <= Span
    BY <1>3, <2>3
  <2> QED BY <1>6, <2>1, <2>2, <2>3
<1>9. ~slipped' => ~slipped /\ k = 0
  BY <1>2, <1>3
<1>10. Counts'
  <2>1. CASE k = 0
    <3>1. total' = total /\ pos' = pos /\ slipped' = slipped
      BY <1>2, <1>3, <1>5, <2>1
    <3> QED BY <1>2, <1>4, <1>5, <1>6, <1>8, <3>1 DEF Counts, InCall
  <2>2. CASE k > 0
    <3>1. slipped' = TRUE
      BY <1>2, <2>2
    <3>2. ~broke => total' > at'
      <4>1. ~broke => total >= at
        BY <1>3, <1>4
      <4>2. total' = total + k /\ at' = at
        BY <1>2, <1>5
      <4> QED BY <1>3, <2>2, <4>1, <4>2
    <3> QED BY <1>2, <1>4, <1>5, <1>6, <1>8, <3>1, <3>2 DEF Counts, InCall
  <2> QED BY <1>3, <2>1, <2>2
<1>11. Contents'
  <2>1. ~slipped' => Copied(loopOff)' /\ Buffered(Count)' /\ StaysInTarget'
    <3> SUFFICES ASSUME ~slipped' PROVE Copied(loopOff)' /\ Buffered(Count)' /\ StaysInTarget'
      OBVIOUS
    <3>1. ~slipped /\ k = 0
      BY <1>9
    <3>2. loopOff' = loopOff + k
      BY <1>3, <1>5, <3>1
    <3>3. Buffered(Count)
      BY <1>1, <1>2, <3>1 DEF Contents
    <3> QED BY <1>5, <1>6, <3>1, <3>2, <3>3 DEF Copied, Buffered, StaysInTarget, Target
  <2>2. StaysInTarget'
    BY <2>1 DEF StaysInTarget
  <2> QED BY <1>2, <2>1, <2>2 DEF Contents
<1> QED BY <1>7, <1>10, <1>11 DEF CInv

(* An error in a fwrite(). *)
LEMMA WriteBreaksKeeps ==
  ASSUME CInv, NEW k \in 0..(Block - 1), WriteBreaks(k)
  PROVE  CInv'
<1>1. TypeOK /\ Counts /\ Contents
  BY DEF CInv
<1>2. /\ pc = "write" /\ Put(k) /\ k < left /\ broke' = TRUE /\ pc' = "put"
      /\ UNCHANGED <<at, left, signals, slipped>>
  BY DEF WriteBreaks
<1>3. /\ at \in Nat /\ left \in Nat /\ total \in Nat /\ k \in Nat /\ k <= left
  BY <1>1, <1>2, JobFacts, Numbers
<1>4. /\ at + left = Count /\ loopOff < job.len
      /\ ~slipped => total = at
  BY <1>1, <1>2 DEF Counts, InCall
<1>5. /\ file' \in [Places -> Nat] /\ end' \in 0..Span /\ pos' \in 0..Span
      /\ total' = total + k /\ total' \in Nat
      /\ UNCHANGED <<job, buf, loopOff>>
      /\ ~slipped => \A p \in Places \ Target : file'[p] = p
  BY <1>2, <1>3, PutFacts
<1>6. TypeOK'
  BY <1>1, <1>2, <1>5 DEF TypeOK
<1>7. Counts'
  <2>1. Count' = Count /\ (~slipped => total' < Count)
    BY <1>2, <1>3, <1>4, <1>5 DEF Count
  <2> QED BY <1>2, <1>4, <1>5, <2>1 DEF Counts, InCall
<1>8. Contents'
  <2>1. StaysInTarget'
    BY <1>2, <1>5 DEF StaysInTarget, Target
  <2> QED BY <1>2, <2>1 DEF Contents
<1> QED BY <1>6, <1>7, <1>8 DEF CInv

(* The block is out: the loop moves on, or the copy gives up. *)
LEMMA WrittenKeeps ==
  ASSUME CInv, Written
  PROVE  CInv'
<1>1. TypeOK /\ Counts /\ Contents
  BY DEF CInv
<1>2. /\ pc = "put" /\ total = Count /\ loopOff' = loopOff + Count /\ pc' = "loop"
      /\ UNCHANGED <<job, file, end, buf, pos, at, left, total, signals, slipped, broke>>
  BY DEF Written
<1>3. /\ loopOff < job.len /\ loopOff \in Nat /\ at \in Nat /\ total \in Nat
      /\ Count \in Nat /\ Count > 0 /\ loopOff + Count <= job.len /\ job.len \in Nat
  <2>1. loopOff < job.len
    BY <1>1, <1>2 DEF Counts, InCall
  <2>2. Count \in Nat /\ Count > 0 /\ loopOff + Count <= job.len
    BY <1>1, <2>1, CountFacts, JobFacts
  <2> QED BY <1>1, <2>1, <2>2, JobFacts, Numbers
<1>4. slipped = broke
  <2>1. /\ ~slipped /\ broke => total < Count
        /\ slipped /\ ~broke => total > at /\ left = 0 /\ at + left = Count
    BY <1>1, <1>2 DEF Counts, InCall
  <2>2. ~(total < Count)
    BY <1>2, <1>3
  <2>3. ~(slipped /\ ~broke)
    <3> SUFFICES ASSUME slipped /\ ~broke PROVE FALSE
      OBVIOUS
    <3>1. total > at /\ left = 0 /\ at + left = Count
      BY <2>1
    <3> QED BY <1>2, <1>3, <3>1
  <2>4. slipped \in BOOLEAN /\ broke \in BOOLEAN
    BY <1>1 DEF TypeOK
  <2> QED BY <2>1, <2>2, <2>3, <2>4
<1>5. TypeOK'
  <2>1. loopOff' \in 0..job.len
    BY <1>2, <1>3
  <2> QED BY <1>1, <1>2, <2>1 DEF TypeOK
<1>6. Counts'
  BY <1>2, <1>4 DEF Counts, InCall
<1>7. Contents'
  <2>1. loopOff' # 0
    BY <1>2, <1>3
  <2>2. ~slipped => Copied(loopOff + Count)
    BY <1>1, <1>2, <1>4 DEF Contents
  <2>3. ~slipped => Copied(loopOff)'
    BY <1>2, <2>2 DEF Copied
  <2>4. StaysInTarget'
    BY <1>1, <1>2 DEF Contents, StaysInTarget, Target
  <2> QED BY <1>2, <2>1, <2>3, <2>4 DEF Contents
<1> QED BY <1>5, <1>6, <1>7 DEF CInv

(* A short write, or a flush that fails. *)
LEMMA WrittenLessKeeps ==
  ASSUME CInv, WrittenLess
  PROVE  CInv'
<1>1. /\ pc' \in {"kept", "currupted", "thrown"} /\ pc' # "kept"
      /\ broke' \in BOOLEAN
      /\ UNCHANGED <<job, file, end, buf, loopOff, pos, at, left, total, signals, slipped>>
  BY DEF WrittenLess
<1> QED BY <1>1, GivesUpKeeps

(* The loop is through: the flush of writevv() may still fail. *)
LEMMA FinishKeeps ==
  ASSUME CInv, pc \in {"loop", "flush"}, loopOff = job.len, pc' \in {"flush", "copied"},
         UNCHANGED <<job, file, end, buf, loopOff, pos, at, left, total, signals, slipped,
                     broke>>
  PROVE  CInv'
<1>1. TypeOK /\ Counts /\ Contents
  BY DEF CInv
<1>2. TypeOK'
  BY <1>1 DEF TypeOK, Ends
<1>3. Counts'
  BY <1>1 DEF Counts, InCall
<1>4. \A n : Copied(n)' <=> Copied(n)
  BY DEF Copied
<1>5. StaysInTarget'
  BY <1>1 DEF Contents, StaysInTarget, Target
<1>6. Contents'
  BY <1>1, <1>4, <1>5 DEF Contents
<1> QED BY <1>2, <1>3, <1>6 DEF CInv

(* The flush at the end of writevv(). *)
LEMMA FlushKeeps ==
  ASSUME CInv, Flush
  PROVE  CInv'
<1>1. pc = "flush" /\ loopOff = job.len
  BY DEF Flush, CInv, Counts
<1>2. CASE pc' = "copied" /\ UNCHANGED broke
  BY <1>1, <1>2, FinishKeeps DEF Flush
<1>3. CASE pc' = "thrown" /\ broke' = TRUE
  BY <1>3, GivesUpKeeps DEF Flush
<1> QED BY <1>2, <1>3 DEF Flush

(* Every step keeps the invariant. *)
LEMMA StepCInv == CInv /\ [Next]_vars => CInv'
<1> SUFFICES ASSUME CInv, [Next]_vars PROVE CInv'
  OBVIOUS
<1>1. CASE NextBlock
  BY <1>1, NextBlockKeeps
<1>2. CASE Finish
  <2>1. /\ pc = "loop" /\ loopOff = job.len /\ pc' \in {"flush", "copied"}
        /\ UNCHANGED <<job, file, end, buf, loopOff, pos, at, left, total, signals, slipped,
                       broke>>
    BY <1>2 DEF Finish
  <2> QED BY <2>1, FinishKeeps
<1>3. CASE ReadSome
  BY <1>3, ReadSomeKeeps
<1>4. ASSUME NEW k \in 0..(Block - 1), ReadSlips(k) PROVE CInv'
  BY <1>4, ReadSlipsKeeps
<1>5. ASSUME NEW k \in 0..(Block - 1), ReadBreaks(k) PROVE CInv'
  BY <1>5, ReadBreaksKeeps
<1>6. CASE Got
  BY <1>6, GotKeeps
<1>7. CASE GotLess
  BY <1>7, GotLessKeeps
<1>8. CASE WriteAll
  BY <1>8, WriteAllKeeps
<1>9. ASSUME NEW k \in 0..(Block - 1), WriteSlips(k) PROVE CInv'
  BY <1>9, WriteSlipsKeeps
<1>10. ASSUME NEW k \in 0..(Block - 1), WriteBreaks(k) PROVE CInv'
  BY <1>10, WriteBreaksKeeps
<1>11. CASE Written
  BY <1>11, WrittenKeeps
<1>12. CASE WrittenLess
  BY <1>12, WrittenLessKeeps
<1>13. CASE Flush
  BY <1>13, FlushKeeps
<1>14. CASE UNCHANGED vars
  <2>1. UNCHANGED <<job, pc, file, end, buf, loopOff, pos, at, left, total, signals,
                    slipped, broke>>
    BY <1>14 DEF vars
  <2>2. TypeOK' /\ Count' = Count /\ Slack' = Slack
    BY <2>1 DEF CInv, TypeOK, Count, Slack
  <2>3. Counts'
    BY <2>1, <2>2 DEF CInv, Counts, InCall
  <2>4. \A n : (Copied(n)' <=> Copied(n)) /\ (Buffered(n)' <=> Buffered(n))
    BY <2>1 DEF Copied, Buffered
  <2>5. StaysInTarget'
    BY <2>1 DEF CInv, Contents, StaysInTarget, Target
  <2>6. Contents'
    BY <2>1, <2>2, <2>4, <2>5 DEF CInv, Contents
  <2> QED BY <2>2, <2>3, <2>6 DEF CInv
<1> QED BY <1>1, <1>2, <1>3, <1>4, <1>5, <1>6, <1>7, <1>8, <1>9, <1>10, <1>11, <1>12,
           <1>13, <1>14 DEF Next

-----------------------------------------------------------------------------
(* In every state of every copy the inductive invariant holds. *)
THEOREM CopyInvariance == Spec => []CInv
BY InitCInv, StepCInv, PTL DEF Spec

(* Type correctness: s_read() and s_write() never run past the end of the  *)
(* migration buffer, whatever signals come, and the stream stays within    *)
(* the bytes that signals can add.                                         *)
THEOREM CopyTypeCorrect == Spec => []TypeOK
<1>1. CInv => TypeOK
  BY DEF CInv
<1> QED BY CopyInvariance, <1>1, PTL

(* A copy that reports success is exact, unless an error hid a signal. *)
THEOREM SuccessIsExact == Spec => []CopiesExactly
<1>1. CInv => CopiesExactly
  <2> SUFFICES ASSUME CInv, pc = "copied", ~Masked, NEW p \in Places
               PROVE  file[p] = IF p \in Target THEN job.src + (p - job.dst) ELSE p
    BY DEF CopiesExactly
  <2>1. ~slipped /\ loopOff = job.len /\ TypeOK
    BY DEF CInv, Counts, Masked
  <2>2. Copied(job.len)
    BY <2>1 DEF CInv, Contents
  <2>3. p \in Nat /\ job.dst \in Nat /\ job.len \in Nat
    BY <2>1, JobFacts DEF Places
  <2>4. p \in Target <=> job.dst <= p /\ p < job.dst + job.len
    BY <2>3 DEF Target
  <2> QED BY <2>2, <2>4 DEF Copied
<1> QED BY CopyInvariance, <1>1, PTL

(* When erase() answers that nothing is done, nothing is done. *)
THEOREM KeptIsUntouched == Spec => []KeptMeansUntouched
<1>1. CInv => KeptMeansUntouched
  <2> SUFFICES ASSUME CInv, pc = "kept", NEW p \in Places
               PROVE  file[p] = p
    BY DEF KeptMeansUntouched
  <2>1. Copied(0) /\ TypeOK
    BY DEF CInv, Contents
  <2>2. p \in Nat /\ job.dst \in Nat
    BY <2>1, JobFacts DEF Places
  <2>3. ~(job.dst <= p /\ p < job.dst + 0)
    BY <2>2
  <2> QED BY <2>1, <2>3 DEF Copied
<1> QED BY CopyInvariance, <1>1, PTL

(* Without a signal in the middle of a call no byte outside the target     *)
(* changes, however the copy ends.                                         *)
THEOREM OthersUntouched == Spec => []StaysInTarget
<1>1. CInv => StaysInTarget
  BY DEF CInv, Contents
<1> QED BY CopyInvariance, <1>1, PTL
=============================================================================

------------------------------ MODULE TranLog ------------------------------
(***************************************************************************)
(* The files of one IDPool, character by character: the transaction log    *)
(* (.tran) that Commit() and ReleaseAndCommit() append to, and the array   *)
(* of fixed cells (.fpo) behind fixed_pool.                                *)
(*                                                                         *)
(* IdPool takes the log for a sequence of whole records.  Here a record is *)
(* text, an append may stop anywhere in it (a crash, a full disk, a signal *)
(* that makes s_write() start over), the next append goes right behind     *)
(* whatever is there, and the replay reads the text with the stream        *)
(* extractors of the source.                                               *)
(***************************************************************************)
EXTENDS Integers, SequencesExt

CONSTANTS
  Char,       \* the characters a file can hold
  Digit,      \* the digits of an offset in order; ten of them in the source
  Width,      \* characters of a value: 8 hexadecimal digits of a chunk size,
              \* or the 4 raw bytes of an address, which may be any characters
  Texts,      \* the values clients store
  Offs,       \* the offsets clients acquire
  Span,       \* 2^32: offsets are words below Span, and end_ is Span - 1
  InitSize,   \* bits of a fresh bitmap
  MaxAppends, \* bound: appends to the log
  MaxTears    \* bound: appends that stop half way

(* Digits are told from each other, from the signs and from white space.    *)
ASSUME LogAssumption ==
  /\ {"\t", "\n", "+", "-", "nul"} \subseteq Char
  /\ Digit \in Seq(Char) /\ Len(Digit) > 1
  /\ \A i, j \in 1..Len(Digit) : Digit[i] = Digit[j] => i = j
  /\ \A i \in 1..Len(Digit) : Digit[i] \notin {"\t", "\n", "+", "-", "nul"}
  /\ Width \in Nat \ {0}
  /\ Texts \subseteq [1..Width -> Char]
  /\ Span \in Nat \ {0} /\ Offs \subseteq 0..(Span - 2)
  /\ InitSize \in Nat
  /\ MaxAppends \in Nat /\ MaxTears \in Nat

VARIABLES
  log,      \* the characters of the .tran file
  cells,    \* the characters of the .fpo file
  held,     \* the offsets whose bit in bm_ is false
  stuck,    \* ferror() of the .fpo stream: nothing clears it while it is open
  rows,     \* history: what the table says, by the commits that returned true
            \* since the pool was opened, on top of what the opening found
  torn,     \* history: the offsets whose commit broke off since then
  endsTorn, \* history: the last append is one that broke off
  appends, tears

vars == <<log, cells, held, stuck, rows, torn, endsTorn, appends, tears>>

Word == 0..(Span - 1)
Nul == "nul"
NoRow == <<>>
Zeros == [i \in 1..Width |-> Nul]

-----------------------------------------------------------------------------
(* Writing. *)

(* An offset inserted in a stream: its digits, without leading zeros. *)
Numeral[o \in Word] ==
  IF o < Len(Digit) THEN <<Digit[o + 1]>>
  ELSE Append(Numeral[o \div Len(Digit)], Digit[(o % Len(Digit)) + 1])

PlusRecord(o, v) == <<"+">> \o Numeral[o] \o <<"\t">> \o v \o <<"\n">>
MinusRecord(o) == <<"-">> \o Numeral[o] \o <<"\n">>

(* fault: the cell is taken for one character wider than it is *)
Stored_apart(c, o, v) ==
  LET at == o * (Width + 1)
  IN  [i \in 1..(IF Len(c) < at + Len(v) THEN at + Len(v) ELSE Len(c)) |->
         IF i \in (at + 1)..(at + Len(v)) THEN v[i - at]
         ELSE IF i <= Len(c) THEN c[i] ELSE Nul]

(* fixed_pool::store(): v written at the cell of o; the file system fills   *)
(* a gap with zeros.                                                        *)
Stored(c, o, v) ==
  LET at == o * Width
  IN  [i \in 1..(IF Len(c) < at + Len(v) THEN at + Len(v) ELSE Len(c)) |->
         IF i \in (at + 1)..(at + Len(v)) THEN v[i - at]
         ELSE IF i <= Len(c) THEN c[i] ELSE Nul]

(* fixed_pool::operator[] of a cell that was stored. *)
CellAt(c, o) == SubSeq(c, o * Width + 1, (o + 1) * Width)

-----------------------------------------------------------------------------
(* Reading: the extractors of the loop of replay_transaction() on a text t. *)

IsSpace(c) == c \in {"\t", "\n"}
ValueOfDigit(c) == (CHOOSE i \in 1..Len(Digit) : Digit[i] = c) - 1
IsDigit(c) == \E i \in 1..Len(Digit) : Digit[i] = c

(* The first place from p on that satisfies P, or one past the end. *)
FirstFrom(t, p, P(_)) ==
  CHOOSE q \in p..(Len(t) + 1) :
    /\ q = Len(t) + 1 \/ P(t[q])
    /\ \A r \in p..(q - 1) : ~P(t[r])

SkipSpace(t, p) == FirstFrom(t, p, LAMBDA c : ~IsSpace(c))
SkipDigits(t, p) == FirstFrom(t, p, LAMBDA c : ~IsDigit(c))

(* The number that digits stand for, a digit at a time.                     *)
NumberOf(ds) ==
  LET Upto[n \in 0..Len(ds)] ==
        IF n = 0 THEN 0 ELSE Upto[n - 1] * Len(Digit) + ValueOfDigit(ds[n])
  IN  Upto[Len(ds)]

(* `>> off`: white space, a sign, digits.  A minus negates the word; no     *)
(* digit, or a number that needs more than a word, is a failure.            *)
Unsigned(t, first, next, minus) ==
  LET n == NumberOf(SubSeq(t, first, next - 1))
  IN  [ok |-> next > first /\ n < Span, pos |-> next,
       val |-> IF minus THEN (Span - n) % Span ELSE n]

Signed(t, q, sign) ==
  LET first == IF sign \in {"+", "-"} THEN q + 1 ELSE q
  IN  Unsigned(t, first, SkipDigits(t, first), sign = "-")

ExtractedAt(t, q) == Signed(t, q, IF q <= Len(t) THEN t[q] ELSE Nul)

Extracted(t, p) == ExtractedAt(t, SkipSpace(t, p))

(* The next Width characters from p on, as far as there are so many. *)
Characters(t, p) ==
  SubSeq(t, p, IF p + Width - 1 <= Len(t) THEN p + Width - 1 ELSE Len(t))

(* fault: the value is read as a word, so white space in it is skipped *)
ReadText_formatted(t, p, old) ==
  LET q == SkipSpace(t, p)
      got == Characters(t, q)
  IN  [text |-> got \o SubSeq(old, Len(got) + 1, Width), pos |-> q + Len(got),
       whole |-> Len(got) = Width]

(* fault: a value the text cuts off is taken as short as it is *)
ReadText_short(t, p, old) ==
  LET got == Characters(t, p)
  IN  [text |-> IF got = <<>> THEN old ELSE got, pos |-> p + Len(got),
       whole |-> Len(got) = Width]

(* `>> val`: exactly Width characters, whatever they are.  When the text    *)
(* ends before that, the rest of the variable is what the record before     *)
(* left there, and the stream has failed.                                   *)
ReadText(t, p, old) ==
  LET got == Characters(t, p)
  IN  [text |-> got \o SubSeq(old, Len(got) + 1, Width), pos |-> p + Len(got),
       whole |-> Len(got) = Width]

(* fault: the record of an offset beyond the bitmap is dropped *)
Acquired_small(s, off, v) ==
  IF s.size <= off THEN s
  ELSE [s EXCEPT !.rows[off] = v, !.cells = Stored(@, off, v)]

(* What one '+' record does to the pool being built.  The largest word asks *)
(* for extend(0), the default growth, and then writes beyond the bitmap.    *)
Acquired(s, off, v) ==
  IF off = Span - 1 THEN [s EXCEPT !.sane = FALSE]
  ELSE [s EXCEPT !.size = IF @ <= off THEN off + 1 ELSE @,
                 !.rows[off] = v,
                 !.cells = Stored(@, off, v)]

(* A '-' record clears the bit without looking at the size. *)
Released(s, off) ==
  IF off < s.size THEN [s EXCEPT !.rows[off] = NoRow]
  ELSE [s EXCEPT !.sane = FALSE]

(* The loop.  pos is its place in the text, val the variable val, good says *)
(* that no extraction has failed, and the rest is the pool being built.     *)
(* sane = FALSE is where the program's behaviour is no longer defined.      *)

PastTab(t, p) == IF p <= Len(t) /\ t[p] = "\t" THEN p + 1 ELSE p

TurnPlus(s, off, txt) ==
  [Acquired(s, off, txt.text) EXCEPT
     !.pos = txt.pos, !.val = txt.text, !.good = txt.whole]

TurnRecord(t, op, num, s) ==
  CASE ~num.ok -> [s EXCEPT !.good = FALSE]
    [] num.ok /\ op = "+" ->
         TurnPlus(s, num.val, ReadText(t, PastTab(t, num.pos), s.val))
    [] num.ok /\ op = "-" -> [Released(s, num.val) EXCEPT !.pos = num.pos]
    [] num.ok /\ op \notin {"+", "-"} -> [s EXCEPT !.pos = num.pos]

TurnAt(t, q, s) ==
  IF q > Len(t) THEN [s EXCEPT !.good = FALSE]
  ELSE TurnRecord(t, t[q], Extracted(t, q + 1), s)

Turn(t, s) ==
  IF s.good /\ s.sane THEN TurnAt(t, SkipSpace(t, s.pos), s) ELSE s

(* val starts as zeros. *)
Start(c) == [pos |-> 1, val |-> Zeros, good |-> TRUE,
             rows |-> [o \in Word |-> NoRow], cells |-> c,
             size |-> InitSize, sane |-> TRUE]

(* replay_transaction() on log t over the cells c.  A turn that goes on     *)
(* takes at least one character, so there are no more turns than those.     *)
Replay(t, c) ==
  LET After[n \in 0..Len(t)] ==
        IF n = 0 THEN Start(c) ELSE Turn(t, After[n - 1])
  IN  After[Len(t)]

Reopened == Replay(log, cells)

LiveRows(r) == {o \in DOMAIN r : r[o] # NoRow}

TypeOK ==
  /\ log \in Seq(Char) /\ cells \in Seq(Char)
  /\ held \subseteq Word
  /\ \A o \in Word : rows[o] = NoRow \/ Len(rows[o]) = Width
  /\ torn \subseteq Offs
  /\ stuck \in BOOLEAN /\ endsTorn \in BOOLEAN
  /\ appends \in 0..MaxAppends /\ tears \in 0..MaxTears

Init ==
  /\ log = <<>> /\ cells = <<>>
  /\ held = {} /\ torn = {}
  /\ rows = [o \in Word |-> NoRow]
  /\ stuck = FALSE /\ endsTorn = FALSE
  /\ appends = 0 /\ tears = 0

-----------------------------------------------------------------------------
(* The commits.  MaxAppends bounds every append, MaxTears those that fail.  *)

AppendWhole(record) ==
  /\ appends < MaxAppends
  /\ log' = log \o record
  /\ appends' = appends + 1
  /\ endsTorn' = FALSE
  /\ UNCHANGED <<tears, torn>>

(* s_write() stops after a part of the record (a crash, a full disk), or it *)
(* is interrupted there and starts over with the whole record, behind the   *)
(* part: more characters than the record has, so the commit is false too.   *)
AppendBroken(record, o) ==
  /\ appends < MaxAppends
  /\ tears < MaxTears
  /\ \E k \in 1..(Len(record) - 1) :
       \/ log' = log \o SubSeq(record, 1, k) /\ endsTorn' = TRUE
       \/ log' = log \o SubSeq(record, 1, k) \o record /\ endsTorn' = FALSE
  /\ appends' = appends + 1
  /\ tears' = tears + 1
  /\ torn' = torn \cup {o}

(* Commit() of a handle that acquired o just now or modifies it. *)
Commit(o, v) ==
  /\ ~stuck
  /\ cells' = Stored(cells, o, v)
  /\ AppendWhole(PlusRecord(o, v))
  /\ held' = held \cup {o}
  /\ rows' = [rows EXCEPT ![o] = v]
  /\ UNCHANGED stuck

(* The same when the log write fails: an offset acquired just now goes back. *)
CommitFails(o, v) ==
  /\ ~stuck
  /\ cells' = Stored(cells, o, v)
  /\ AppendBroken(PlusRecord(o, v), o)
  /\ UNCHANGED <<held, rows, stuck>>

(* ... or when the cell cannot be written: store() throws, nothing is       *)
(* appended, and every later store() finds the stream in its failed state.  *)
StoreFails(o, v) ==
  /\ ~stuck
  /\ \E k \in 0..(Width - 1) : cells' = Stored(cells, o, SubSeq(v, 1, k))
  /\ stuck' = TRUE
  /\ torn' = torn \cup {o}
  /\ UNCHANGED <<log, held, rows, endsTorn, appends, tears>>

ReleaseAndCommit(o) ==
  /\ o \in held
  /\ held' = held \ {o}
  /\ AppendWhole(MinusRecord(o))
  /\ rows' = [rows EXCEPT ![o] = NoRow]
  /\ UNCHANGED <<cells, stuck>>

ReleaseFails(o) ==
  /\ o \in held
  /\ held' = held \ {o}
  /\ AppendBroken(MinusRecord(o), o)
  /\ UNCHANGED <<cells, rows, stuck>>

(* The pool is destroyed, or the process ends, and the pool is constructed. *)
Reopen ==
  /\ Reopened.sane
  /\ held' = LiveRows(Reopened.rows)
  /\ rows' = Reopened.rows
  /\ cells' = Reopened.cells
  /\ stuck' = FALSE
  /\ torn' = {}
  /\ UNCHANGED <<log, endsTorn, appends, tears>>

Next ==
  \/ \E o \in Offs, v \in Texts :
       Commit(o, v) \/ CommitFails(o, v) \/ StoreFails(o, v)
  \/ \E o \in held \cap Offs : ReleaseAndCommit(o) \/ ReleaseFails(o)
  \/ Reopen

Spec == Init /\ [][Next]_vars

-----------------------------------------------------------------------------
(* Properties. *)

(* A log without a broken record is read back as the table the commits      *)
(* made, whatever characters the values have (white space, signs and digits *)
(* inside a value are never taken for a record), and whatever cells could   *)
(* not be written.                                                          *)
WholeLogReads == tears = 0 => Reopened.sane /\ Reopened.rows = rows

(* A record that broke off at the end of the log, as a crash in the middle  *)
(* of an append leaves it: the pool can be opened, and one row at most is   *)
(* not what the commits made of it, that of an offset whose digits are      *)
(* among the first digits of the record's.                                  *)
OneRowAtRisk ==
  endsTorn /\ tears = 1 =>
    LET changed == {o \in Word : Reopened.rows[o] # rows[o]}
    IN  /\ Reopened.sane
        /\ \A o, p \in changed : o = p
        /\ \A o \in changed : \E p \in torn : IsPrefix(Numeral[o], Numeral[p])

(* The cell of every row holds its value, except where a commit failed: no  *)
(* cell overlaps another, whatever is written behind it.  Opening the pool  *)
(* repairs the others, half written ones among them.                        *)
CellsHoldRows ==
  /\ \A o \in LiveRows(rows) \ torn : CellAt(cells, o) = rows[o]
  /\ \A o \in LiveRows(Reopened.rows) :
       CellAt(Reopened.cells, o) = Reopened.rows[o]
=============================================================================

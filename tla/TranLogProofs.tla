--------------------------- MODULE TranLogProofs ---------------------------
(***************************************************************************)
(* The invariants of TranLog, for digits of every base, values of every    *)
(* width and content, and logs of any length.  What the loop of the replay *)
(* makes of a log is followed turn by turn; the invariant says how far the *)
(* turns over the records written so far lead, whatever is appended next.  *)
(***************************************************************************)
EXTENDS TranLog, Numbers, SequenceTheorems

Values == [1..Width -> Char]
Figures == {Digit[i] : i \in 1..Len(Digit)}
Signs == {"\t", "\n", "+", "-", Nul}

-----------------------------------------------------------------------------
(* Characters. *)

(* What the assumptions say of the constants.                               *)
LEMMA Constants ==
  /\ Digit \in Seq(Char) /\ Len(Digit) \in Nat /\ Len(Digit) > 1
  /\ Figures \subseteq Char /\ Signs \subseteq Char
  /\ Figures \cap Signs = {}
  /\ Width \in Nat /\ Width > 0 /\ Span \in Nat /\ Span > 0 /\ InitSize \in Nat
  /\ Texts \subseteq Values
  /\ \A o \in Offs : o \in Word /\ o # Span - 1
<1>1. /\ Digit \in Seq(Char) /\ Len(Digit) \in Nat
      /\ \A i \in 1..Len(Digit) : Digit[i] \in Char
  BY LogAssumption
<1>2. Figures \subseteq Char
  BY <1>1 DEF Figures
<1>3. Figures \cap Signs = {}
  BY LogAssumption DEF Figures, Signs, Nul
<1>4. Width \in Nat /\ Width > 0 /\ Span \in Nat /\ Span > 0 /\ InitSize \in Nat
  BY LogAssumption
<1>5. \A o \in Offs : o \in Word /\ o # Span - 1
  BY <1>4, LogAssumption DEF Word
<1>6. Signs \subseteq Char
  BY LogAssumption DEF Signs, Nul
<1> QED BY <1>1, <1>2, <1>3, <1>4, <1>5, <1>6, LogAssumption DEF Values

(* The digits are what IsDigit says, and count from zero in their order.    *)
LEMMA Digits ==
  /\ \A c : IsDigit(c) <=> c \in Figures
  /\ \A i \in 1..Len(Digit) : ValueOfDigit(Digit[i]) = i - 1
  /\ \A c \in Figures : ValueOfDigit(c) \in Nat
<1>1. \A c : IsDigit(c) <=> c \in Figures
  BY DEF IsDigit, Figures
<1>2. ASSUME NEW i \in 1..Len(Digit)
      PROVE  ValueOfDigit(Digit[i]) = i - 1
  <2>1. \A j \in 1..Len(Digit) : Digit[j] = Digit[i] => j = i
    BY LogAssumption
  <2> QED BY <2>1 DEF ValueOfDigit
<1>3. ASSUME NEW c \in Figures PROVE ValueOfDigit(c) \in Nat
  <2>1. PICK i \in 1..Len(Digit) : c = Digit[i]
    BY DEF Figures
  <2>2. i - 1 \in Nat
    BY Constants
  <2> QED BY <1>2, <2>1, <2>2
<1> QED BY <1>1, <1>2, <1>3

(* A value is a text of its width, and none is the mark of a missing row.   *)
LEMMA ValueFacts ==
  ASSUME NEW v \in Values
  PROVE  v \in Seq(Char) /\ Len(v) = Width /\ v # NoRow
<1>1. v \in Seq(Char)
  BY Constants, SeqDef DEF Values
<1>2. Len(v) = Width
  BY <1>1, Constants, LenProperties DEF Values
<1> QED BY <1>1, <1>2, Constants, EmptySeq DEF NoRow

(* The variable val starts as a value.                                      *)
LEMMA ZerosFacts == Zeros \in Values
BY Constants DEF Zeros, Values, Signs

-----------------------------------------------------------------------------
(* Skipping. *)

(* From p on there is a first place in B, or the place behind the last.     *)
LEMMA FirstPlace ==
  ASSUME NEW n \in Nat, NEW p \in 1..(n + 1), NEW B \in SUBSET Nat
  PROVE  \E q \in p..(n + 1) :
           (q = n + 1 \/ q \in B) /\ \A r \in p..(q - 1) : r \notin B
<1> DEFINE T == {q \in p..(n + 1) : q = n + 1 \/ q \in B}
<1>1. T \in SUBSET Nat /\ T # {}
  BY n + 1 \in T
<1>2. PICK q \in T : \A y \in T : q <= y
  <2> HIDE DEF T
  <2> QED BY <1>1, LeastElement
<1>3. \A r \in p..(q - 1) : r \notin B
  BY <1>2
<1> QED BY <1>2, <1>3

(* Where the extractors stop skipping white space.                          *)
LEMMA SpacesSkipped ==
  ASSUME NEW t \in Seq(Char), NEW p \in 1..(Len(t) + 1)
  PROVE  /\ SkipSpace(t, p) \in p..(Len(t) + 1)
         /\ SkipSpace(t, p) = Len(t) + 1 \/ ~IsSpace(t[SkipSpace(t, p)])
         /\ \A r \in p..(SkipSpace(t, p) - 1) : IsSpace(t[r])
<1> DEFINE B == {r \in Nat : ~IsSpace(t[r])}
<1> HIDE DEF B
<1>0. Len(t) \in Nat /\ B \in SUBSET Nat
  BY DEF B
<1>1. \E q \in p..(Len(t) + 1) :
        (q = Len(t) + 1 \/ q \in B) /\ \A r \in p..(q - 1) : r \notin B
  BY <1>0, FirstPlace
<1>2. \E q \in p..(Len(t) + 1) :
        (q = Len(t) + 1 \/ ~IsSpace(t[q])) /\ \A r \in p..(q - 1) : ~ ~IsSpace(t[r])
  <2>1. \A q \in p..(Len(t) + 1) : \A r \in p..q : r \in Nat
    BY <1>0
  <2> QED BY <1>1, <2>1 DEF B
<1> QED BY <1>2 DEF SkipSpace, FirstFrom

(* Where they stop reading digits.                                          *)
LEMMA DigitsSkipped ==
  ASSUME NEW t \in Seq(Char), NEW p \in 1..(Len(t) + 1)
  PROVE  /\ SkipDigits(t, p) \in p..(Len(t) + 1)
         /\ SkipDigits(t, p) = Len(t) + 1 \/ ~IsDigit(t[SkipDigits(t, p)])
         /\ \A r \in p..(SkipDigits(t, p) - 1) : IsDigit(t[r])
<1> DEFINE B == {r \in Nat : ~IsDigit(t[r])}
<1> HIDE DEF B
<1>0. Len(t) \in Nat /\ B \in SUBSET Nat
  BY DEF B
<1>1. \E q \in p..(Len(t) + 1) :
        (q = Len(t) + 1 \/ q \in B) /\ \A r \in p..(q - 1) : r \notin B
  BY <1>0, FirstPlace
<1>2. \E q \in p..(Len(t) + 1) :
        (q = Len(t) + 1 \/ ~IsDigit(t[q])) /\ \A r \in p..(q - 1) : ~ ~IsDigit(t[r])
  <2>1. \A q \in p..(Len(t) + 1) : \A r \in p..q : r \in Nat
    BY <1>0
  <2> QED BY <1>1, <2>1 DEF B
<1> QED BY <1>2 DEF SkipDigits, FirstFrom

(* The same, for a place one can name.                                      *)
LEMMA SpacesEnd ==
  ASSUME NEW t \in Seq(Char), NEW p \in 1..(Len(t) + 1), NEW q \in p..(Len(t) + 1),
         q = Len(t) + 1 \/ ~IsSpace(t[q]), \A r \in p..(q - 1) : IsSpace(t[r])
  PROVE  SkipSpace(t, p) = q
<1> DEFINE s == SkipSpace(t, p)
<1>1. /\ s \in p..(Len(t) + 1) /\ (s = Len(t) + 1 \/ ~IsSpace(t[s]))
      /\ \A r \in p..(s - 1) : IsSpace(t[r])
  BY SpacesSkipped
<1> HIDE DEF s
<1>2. ~(s < q)
  <2> SUFFICES ASSUME s < q PROVE FALSE
    OBVIOUS
  <2>1. s \in p..(q - 1) /\ s # Len(t) + 1
    BY <1>1
  <2> QED BY <1>1, <2>1
<1>3. ~(q < s)
  <2> SUFFICES ASSUME q < s PROVE FALSE
    OBVIOUS
  <2>1. q \in p..(s - 1) /\ q # Len(t) + 1
    BY <1>1
  <2> QED BY <1>1, <2>1
<1>4. s = q
  BY <1>1, <1>2, <1>3
<1> QED BY <1>4 DEF s

(* The same of digits.                                                      *)
LEMMA DigitsEnd ==
  ASSUME NEW t \in Seq(Char), NEW p \in 1..(Len(t) + 1), NEW q \in p..(Len(t) + 1),
         q = Len(t) + 1 \/ ~IsDigit(t[q]), \A r \in p..(q - 1) : IsDigit(t[r])
  PROVE  SkipDigits(t, p) = q
<1> DEFINE s == SkipDigits(t, p)
<1>1. /\ s \in p..(Len(t) + 1) /\ (s = Len(t) + 1 \/ ~IsDigit(t[s]))
      /\ \A r \in p..(s - 1) : IsDigit(t[r])
  BY DigitsSkipped
<1> HIDE DEF s
<1>2. ~(s < q)
  <2> SUFFICES ASSUME s < q PROVE FALSE
    OBVIOUS
  <2>1. s \in p..(q - 1) /\ s # Len(t) + 1
    BY <1>1
  <2> QED BY <1>1, <2>1
<1>3. ~(q < s)
  <2> SUFFICES ASSUME q < s PROVE FALSE
    OBVIOUS
  <2>1. q \in p..(s - 1) /\ q # Len(t) + 1
    BY <1>1
  <2> QED BY <1>1, <2>1
<1>4. s = q
  BY <1>1, <1>2, <1>3
<1> QED BY <1>4 DEF s

-----------------------------------------------------------------------------
(* Numbers and their digits. *)

(* Digits are added up from the first to the last.                          *)
LEMMA DigitsAddUp ==
  ASSUME NEW ds \in Seq(Figures)
  PROVE  \E f \in [0..Len(ds) -> Nat] :
           /\ f[0] = 0 /\ NumberOf(ds) = f[Len(ds)]
           /\ \A n \in 1..Len(ds) : f[n] = f[n - 1] * Len(Digit) + ValueOfDigit(ds[n])
<1> DEFINE N == Len(ds)
           More(n, x) == x * Len(Digit) + ValueOfDigit(ds[n])
           Sums(g) == [n \in 0..N |-> IF n = 0 THEN 0 ELSE More(n, g[n - 1])]
<1>1. N \in Nat
  OBVIOUS
<1>2. \A n \in 1..N, x \in Nat : More(n, x) \in Nat
  <2> TAKE n \in 1..N, x \in Nat
  <2>1. ds[n] \in Figures
    OBVIOUS
  <2>2. ValueOfDigit(ds[n]) \in Nat /\ Len(Digit) \in Nat
    BY <2>1, Digits, Constants
  <2> QED BY <2>2
<1> DEFINE G == [n \in 1..N |-> [x \in Nat |-> More(n, x)]]
<1> HIDE DEF N, More
<1>3. G \in [1..N -> [Nat -> Nat]]
  BY <1>2
<1>4. \A n \in 1..N, x \in Nat : G[n][x] = More(n, x)
  OBVIOUS
<1> HIDE DEF G
<1>5. PICK f : /\ f \in [0..N -> Nat] /\ f[0] = 0
               /\ \A n \in 1..N : f[n] = G[n][f[n - 1]]
  <2>1. \E f : Iterates(f, N, Nat, 0, G)
    BY <1>1, <1>3, Iteration
  <2> QED BY <2>1 DEF Iterates
<1>6. \A n \in 1..N : n - 1 \in 0..N /\ f[n] = More(n, f[n - 1])
  <2> TAKE n \in 1..N
  <2>1. n - 1 \in 0..N
    BY <1>1
  <2>2. f[n - 1] \in Nat
    BY <1>5, <2>1
  <2> QED BY <1>4, <1>5, <2>1, <2>2
<1>7. f = Sums(f)
  BY <1>1, <1>5, <1>6
<1> DEFINE g == CHOOSE h : h = Sums(h)
<1>8. g = Sums(g)
  <2> HIDE DEF Sums
  <2> QED BY <1>7
<1>9. NumberOf(ds) = g[N]
  BY DEF NumberOf, N, More
<1> HIDE DEF g
<1>10. g[0] = 0 /\ \A n \in 1..N : g[n] = More(n, g[n - 1])
  <2>1. 0 \in 0..N /\ \A n \in 1..N : n \in 0..N /\ n # 0
    BY <1>1
  <2> QED BY <1>8, <2>1
<1>11. \A n \in 0..N : g[n] = f[n]
  <2> DEFINE B == {n \in Nat : g[n] = f[n]}
  <2>1. 0 \in B /\ \A n \in 1..N : n - 1 \in B => n \in B
    BY <1>1, <1>5, <1>6, <1>10
  <2>2. \A n \in 0..N : n \in B
    <3> HIDE DEF B
    <3>1. B \in SUBSET Nat
      BY DEF B
    <3> QED BY <1>1, <2>1, <3>1, Throughout
  <2> QED BY <2>2
<1>12. NumberOf(ds) = f[N]
  BY <1>1, <1>9, <1>11
<1>13. /\ f \in [0..N -> Nat] /\ f[0] = 0 /\ NumberOf(ds) = f[N]
       /\ \A n \in 1..N : f[n] = f[n - 1] * Len(Digit) + ValueOfDigit(ds[n])
  BY <1>5, <1>6, <1>12 DEF More
<1> QED BY <1>13 DEF N

(* One more digit.                                                          *)
LEMMA OneMoreDigit ==
  ASSUME NEW ds \in Seq(Figures), NEW c \in Figures
  PROVE  /\ NumberOf(ds) \in Nat
         /\ NumberOf(Append(ds, c)) = NumberOf(ds) * Len(Digit) + ValueOfDigit(c)
<1> DEFINE N == Len(ds)
           es == Append(ds, c)
<1>1. /\ N \in Nat /\ es \in Seq(Figures) /\ Len(es) = N + 1 /\ es[N + 1] = c
      /\ \A n \in 1..N : es[n] = ds[n]
  OBVIOUS
<1>2. PICK f \in [0..N -> Nat] :
        /\ f[0] = 0 /\ NumberOf(ds) = f[N]
        /\ \A n \in 1..N : f[n] = f[n - 1] * Len(Digit) + ValueOfDigit(ds[n])
  BY DigitsAddUp
<1> HIDE DEF es, N
<1>3. PICK g \in [0..Len(es) -> Nat] :
        /\ g[0] = 0 /\ NumberOf(es) = g[Len(es)]
        /\ \A n \in 1..Len(es) : g[n] = g[n - 1] * Len(Digit) + ValueOfDigit(es[n])
  BY <1>1, DigitsAddUp
<1> DEFINE B == {n \in Nat : f[n] = g[n]}
<1>4. 0 \in B /\ \A n \in 1..N : n - 1 \in B => n \in B
  <2>1. ASSUME NEW n \in 1..N, n - 1 \in B PROVE n \in B
    <3>1. n \in 1..Len(es) /\ n \in Nat
      BY <1>1
    <3>2. f[n - 1] = g[n - 1] /\ es[n] = ds[n]
      BY <1>1, <2>1
    <3> QED BY <1>2, <1>3, <3>1, <3>2
  <2> QED BY <1>2, <1>3, <2>1
<1>5. \A n \in 0..N : n \in B
  <2> HIDE DEF B
  <2>1. B \in SUBSET Nat
    BY DEF B
  <2> QED BY <1>1, <1>4, <2>1, Throughout
<1>6. g[N] = f[N] /\ f[N] \in Nat
  BY <1>1, <1>2, <1>5
<1>7. g[N + 1] = g[N] * Len(Digit) + ValueOfDigit(c)
  <2>1. N + 1 \in 1..Len(es) /\ (N + 1) - 1 = N
    BY <1>1
  <2> QED BY <1>1, <1>3, <2>1
<1> QED BY <1>1, <1>2, <1>3, <1>6, <1>7 DEF es

(* What digits stand for is a number,                                       *)
LEMMA NumberIsNat ==
  ASSUME NEW ds \in Seq(Figures)
  PROVE  NumberOf(ds) \in Nat
<1>1. PICK f \in [0..Len(ds) -> Nat] : NumberOf(ds) = f[Len(ds)]
  BY DigitsAddUp
<1>2. Len(ds) \in 0..Len(ds)
  OBVIOUS
<1> QED BY <1>1, <1>2

(* ... and none stand for zero.                                             *)
LEMMA NoDigits == NumberOf(<<>>) = 0
<1>1. <<>> \in Seq(Figures) /\ Len(<<>>) = 0
  OBVIOUS
<1> QED BY <1>1, DigitsAddUp

(* What remains to be spelt after the last digit.                           *)
LEMMA LastDigit ==
  ASSUME NEW o \in Nat
  PROVE  /\ o \div Len(Digit) \in Nat /\ o % Len(Digit) \in 0..(Len(Digit) - 1)
         /\ (o \div Len(Digit)) * Len(Digit) + (o % Len(Digit)) = o
         /\ ~(o < Len(Digit)) => o \div Len(Digit) < o
<1> DEFINE m == Len(Digit)
<1>1. m \in Nat \ {0} /\ m > 1
  BY Constants
<1> HIDE DEF m
<1>2. /\ o \div m \in Nat /\ o % m \in 0..(m - 1)
      /\ (o \div m) * m + (o % m) = o
      /\ m > 1 /\ o > 0 => o \div m < o
  BY <1>1, Quotients
<1>3. ~(o < m) => o > 0
  BY <1>1
<1> QED BY <1>1, <1>2, <1>3 DEF m

(* The digits of o, those of its quotient being f's.                        *)
Spelling(f, o) ==
  IF o < Len(Digit) THEN <<Digit[o + 1]>>
  ELSE Append(f[o \div Len(Digit)], Digit[(o % Len(Digit)) + 1])

(* The recursive function that spells an offset satisfies its equation.     *)
LEMMA NumeralSpells ==
  /\ Numeral = [o \in Word |-> Spelling(Numeral, o)]
  /\ \A o \in Word : Numeral[o] = Spelling(Numeral, o)
<1> DEFINE Solves(f, k) == f = [o \in 0..k |-> Spelling(f, o)]
           B == {k \in Nat : \E f : Solves(f, k)}
<1>1. 0 \in B
  <2> DEFINE f == [o \in 0..0 |-> <<Digit[o + 1]>>]
  <2>1. \A o \in 0..0 : o < Len(Digit)
    BY Constants
  <2>2. [o \in 0..0 |-> Spelling(f, o)] = f
    BY <2>1 DEF Spelling
  <2> HIDE DEF f
  <2> QED BY <2>2
<1>2. ASSUME NEW k \in Nat \ {0}, k - 1 \in B PROVE k \in B
  <2>1. PICK f : Solves(f, k - 1)
    BY <1>2
  <2> DEFINE g == [o \in 0..k |-> IF o = k THEN Spelling(f, k) ELSE f[o]]
             h == [o \in 0..k |-> Spelling(g, o)]
  <2>2. \A o \in 0..k : o # k => o \in 0..(k - 1)
    OBVIOUS
  <2>3. \A o \in 0..(k - 1) : g[o] = f[o] /\ o \in 0..k
    OBVIOUS
  <2>4. g[k] = Spelling(f, k) /\ k \in 0..k
    OBVIOUS
  <2>5. \A o \in 0..(k - 1) : f[o] = Spelling(f, o)
    <3>1. [o \in 0..(k - 1) |-> Spelling(f, o)] = f
      BY <2>1
    <3> QED BY <3>1
  <2> HIDE DEF g
  <2>6. ASSUME NEW o \in 0..k PROVE Spelling(g, o) = Spelling(f, o)
    <3>1. CASE o < Len(Digit)
      BY <3>1 DEF Spelling
    <3>2. CASE ~(o < Len(Digit))
      <4>1. o \div Len(Digit) \in Nat /\ o \div Len(Digit) < o
        BY <3>2, LastDigit
      <4>2. o \div Len(Digit) \in 0..(k - 1)
        BY <4>1
      <4>3. g[o \div Len(Digit)] = f[o \div Len(Digit)]
        BY <2>3, <4>2
      <4> QED BY <3>2, <4>3 DEF Spelling
    <3> QED BY <3>1, <3>2
  <2>7. \A o \in 0..k : g[o] = Spelling(g, o)
    <3> TAKE o \in 0..k
    <3>1. CASE o = k
      BY <2>4, <2>6, <3>1
    <3>2. CASE o # k
      <4>1. o \in 0..(k - 1)
        BY <2>2, <3>2
      <4> QED BY <2>3, <2>5, <2>6, <4>1
    <3> QED BY <3>1, <3>2
  <2>8. g = h
    <3>1. g = [o \in 0..k |-> g[o]]
      BY DEF g
    <3> QED BY <2>7, <3>1
  <2>9. Solves(g, k)
    BY <2>8
  <2> QED BY <2>9
<1>3. \E f : f = [o \in Word |-> Spelling(f, o)]
  <2>1. Span - 1 \in Nat /\ B \in SUBSET Nat
    BY Constants
  <2> HIDE DEF B
  <2>2. \A n \in 1..(Span - 1) : n \in Nat \ {0}
    OBVIOUS
  <2>3. \A n \in 0..(Span - 1) : n \in B
    BY <1>1, <1>2, <2>1, <2>2, Throughout
  <2>4. Span - 1 \in B
    BY <2>1, <2>3
  <2> QED BY <2>4 DEF Word, B
<1>4. Numeral = [o \in Word |-> Spelling(Numeral, o)]
  BY <1>3 DEF Numeral, Spelling
<1> QED BY <1>4

(* A numeral consists of digits, at least one; it stands for its offset;    *)
(* and its first digits are the numeral of another.                         *)
Spelt(o) ==
  /\ Numeral[o] \in Seq(Figures) /\ Len(Numeral[o]) > 0
  /\ NumberOf(Numeral[o]) = o
  /\ \A k \in 1..Len(Numeral[o]) :
       \E p \in 0..o : Numeral[p] = SubSeq(Numeral[o], 1, k)

(* An offset of one digit.                                                  *)
LEMMA ShortSpelt ==
  ASSUME NEW o \in Word, o < Len(Digit)
  PROVE  Spelt(o)
<1>1. o \in Nat /\ o + 1 \in 1..Len(Digit)
  BY Constants DEF Word
<1> DEFINE c == Digit[o + 1]
<1>2. Numeral[o] = <<c>>
  BY NumeralSpells DEF Spelling
<1>3. c \in Figures /\ ValueOfDigit(c) = o
  BY <1>1, Digits DEF Figures
<1> HIDE DEF c
<1>4. <<c>> = Append(<<>>, c) /\ <<>> \in Seq(Figures)
  BY <1>3
<1>5. NumberOf(<<c>>) = 0 * Len(Digit) + o
  BY <1>3, <1>4, OneMoreDigit, NoDigits
<1>6. <<c>> \in Seq(Figures) /\ Len(<<c>>) = 1 /\ SubSeq(<<c>>, 1, 1) = <<c>>
  <2>1. <<c>> \in Seq(Figures) /\ Len(<<c>>) = 1
    BY <1>3
  <2> QED BY <2>1, SubSeqFull
<1>7. 0 * Len(Digit) + o = o
  BY <1>1, Constants
<1>8. \A k \in 1..1 : k = 1 /\ o \in 0..o
  BY <1>1
<1>9. \A k \in 1..Len(<<c>>) : \E p \in 0..o : Numeral[p] = SubSeq(<<c>>, 1, k)
  BY <1>2, <1>6, <1>8
<1> QED BY <1>2, <1>5, <1>6, <1>7, <1>9 DEF Spelt

(* An offset of more digits, by those without the last.                     *)
LEMMA LongSpelt ==
  ASSUME NEW o \in Word, ~(o < Len(Digit)), Spelt(o \div Len(Digit))
  PROVE  Spelt(o)
<1> DEFINE m == Len(Digit)
           d == o \div m
           r == o % m
           c == Digit[r + 1]
           ds == Numeral[d]
           es == Append(ds, c)
<1>1. /\ o \in Nat /\ m \in Nat /\ m > 1 /\ d \in Nat /\ d < o
      /\ r \in 0..(m - 1) /\ d * m + r = o
  BY Constants, LastDigit DEF Word
<1>2. Numeral[o] = es
  BY NumeralSpells DEF Spelling
<1>3. c \in Figures /\ ValueOfDigit(c) = r
  <2>1. r + 1 \in 1..m /\ (r + 1) - 1 = r
    BY <1>1
  <2> QED BY <2>1, Digits DEF Figures
<1>4. /\ ds \in Seq(Figures) /\ Len(ds) > 0 /\ NumberOf(ds) = d
      /\ \A k \in 1..Len(ds) : \E p \in 0..d : Numeral[p] = SubSeq(ds, 1, k)
  BY DEF Spelt
<1> HIDE DEF c, d, r, m, ds
<1>5. NumberOf(es) = d * m + r
  BY <1>3, <1>4, OneMoreDigit DEF m
<1>6. es \in Seq(Figures) /\ Len(es) = Len(ds) + 1 /\ Len(ds) \in Nat
  BY <1>3, <1>4
<1>7. ASSUME NEW k \in 1..Len(es)
      PROVE  \E p \in 0..o : Numeral[p] = SubSeq(es, 1, k)
  <2>1. CASE k = Len(es)
    <3>1. SubSeq(es, 1, k) = es
      BY <1>6, <2>1, SubSeqFull
    <3>2. o \in 0..o
      BY <1>1
    <3> QED BY <1>2, <3>1, <3>2
  <2>2. CASE k # Len(es)
    <3>1. k \in 1..Len(ds)
      BY <1>6, <2>2
    <3>2. SubSeq(es, 1, k) = SubSeq(ds, 1, k)
      BY <1>3, <1>4, <1>6, <3>1
    <3>3. PICK p \in 0..d : Numeral[p] = SubSeq(ds, 1, k)
      BY <1>4, <3>1
    <3>4. p \in 0..o
      BY <1>1
    <3> QED BY <3>2, <3>3, <3>4
  <2> QED BY <2>1, <2>2
<1> HIDE DEF es
<1> QED BY <1>1, <1>2, <1>5, <1>6, <1>7 DEF Spelt

(* Every offset, by the least one for which it would not be so.             *)
LEMMA NumeralFacts ==
  ASSUME NEW o \in Word
  PROVE  Spelt(o)
<1> DEFINE Bad == {x \in Word : ~Spelt(x)}
<1>1. SUFFICES ASSUME Bad # {} PROVE FALSE
  OBVIOUS
<1>2. Word \in SUBSET Nat
  BY Constants DEF Word
<1>3. PICK x \in Bad : \A y \in Bad : x <= y
  <2>1. Bad \in SUBSET Nat
    BY <1>2
  <2> HIDE DEF Bad
  <2> QED BY <1>1, <2>1, LeastElement
<1>4. ~(x < Len(Digit))
  BY <1>3, ShortSpelt
<1>5. x \div Len(Digit) \in Word /\ x \div Len(Digit) < x
  <2>1. x \in Nat /\ x <= Span - 1
    BY <1>3, Constants DEF Word
  <2>2. x \div Len(Digit) \in Nat /\ x \div Len(Digit) < x
    BY <1>4, <2>1, LastDigit
  <2> QED BY <2>1, <2>2, Constants DEF Word
<1>6. Spelt(x \div Len(Digit))
  <2>1. x \div Len(Digit) \notin Bad
    <3> DEFINE y == x \div Len(Digit)
    <3>1. y \in Nat /\ x \in Nat /\ y < x
      BY <1>2, <1>3, <1>5
    <3> HIDE DEF Bad, y
    <3>2. ~(x <= y)
      BY <3>1
    <3> QED BY <1>3, <3>2 DEF y
  <2> QED BY <1>5, <2>1
<1> QED BY <1>3, <1>4, <1>6, LongSpelt

-----------------------------------------------------------------------------
(* The extractors. *)

(* The text w stands in t from place p on.                                  *)
Stands(t, p, w) ==
  /\ p \in Nat /\ p > 0 /\ p + Len(w) <= Len(t) + 1
  /\ \A i \in 1..Len(w) : t[p + (i - 1)] = w[i]

(* Then it is what is cut out there.                                        *)
LEMMA CutOut ==
  ASSUME NEW t \in Seq(Char), NEW w \in Seq(Char), NEW p, Stands(t, p, w)
  PROVE  SubSeq(t, p, p + (Len(w) - 1)) = w
<1> DEFINE u == SubSeq(t, p, p + (Len(w) - 1))
<1>1. p \in Nat /\ Len(w) \in Nat /\ Len(t) \in Nat /\ p > 0 /\ p + Len(w) <= Len(t) + 1
  BY DEF Stands
<1>2. \A i \in p..(p + (Len(w) - 1)) : t[i] \in Char
  BY <1>1
<1>3. u \in Seq(Char) /\ Len(u) = Len(w)
  <2>1. p \in Int /\ p + (Len(w) - 1) \in Int
    BY <1>1
  <2>2. /\ u \in Seq(Char)
        /\ Len(u) = IF p <= p + (Len(w) - 1) THEN (p + (Len(w) - 1)) - p + 1 ELSE 0
    BY <1>2, <2>1, SubSeqProperties
  <2> QED BY <1>1, <2>2
<1>4. \A i \in 1..Len(w) : u[i] = t[p + (i - 1)]
  BY <1>1
<1> HIDE DEF u
<1>5. \A i \in 1..Len(u) : u[i] = w[i]
  BY <1>3, <1>4 DEF Stands
<1>6. u = w
  BY <1>3, <1>5, SeqEqual
<1> QED BY <1>6 DEF u

(* The digits of an offset, followed by none, are read as that offset.      *)
LEMMA NumberRead ==
  ASSUME NEW t \in Seq(Char), NEW o \in Word, NEW p, Stands(t, p, Numeral[o]),
         LET q == p + Len(Numeral[o])
         IN  q = Len(t) + 1 \/ t[q] \in Signs
  PROVE  Extracted(t, p) = [ok |-> TRUE, pos |-> p + Len(Numeral[o]), val |-> o]
<1> DEFINE w == Numeral[o]
           q == p + Len(w)
<1>1. /\ w \in Seq(Figures) /\ w \in Seq(Char) /\ Len(w) \in Nat /\ Len(w) > 0
      /\ NumberOf(w) = o
  <2>1. w \in Seq(Figures) /\ Len(w) > 0 /\ NumberOf(w) = o
    BY NumeralFacts DEF Spelt
  <2>2. w \in Seq(Char)
    BY <2>1, Constants, SeqMonotonic
  <2> HIDE DEF w
  <2> QED BY <2>1, <2>2
<1>2. /\ Stands(t, p, w) /\ p \in 1..Len(t) /\ q \in (p + 1)..(Len(t) + 1)
      /\ Len(t) \in Nat
  <2>1. Stands(t, p, w) /\ Len(t) \in Nat
    OBVIOUS
  <2> HIDE DEF w
  <2> QED BY <1>1, <2>1 DEF Stands
<1>3. \A r \in p..(q - 1) : t[r] \in Figures
  <2> TAKE r \in p..(q - 1)
  <2> HIDE DEF w
  <2>1. (r - p) + 1 \in 1..Len(w) /\ p + (((r - p) + 1) - 1) = r
    BY <1>1, <1>2
  <2>2. w[(r - p) + 1] \in Figures
    BY <1>1, <2>1
  <2> QED BY <1>2, <2>1, <2>2 DEF Stands
<1>4. q = Len(t) + 1 \/ t[q] \in Signs
  OBVIOUS
<1> HIDE DEF w
<1>5. t[p] \in Figures
  BY <1>2, <1>3
<1>6. SkipSpace(t, p) = p
  <2>1. ~IsSpace(t[p])
    BY <1>5, Constants DEF IsSpace, Signs
  <2>2. p \in 1..(Len(t) + 1) /\ p \in p..(Len(t) + 1) /\ p..(p - 1) = {}
    BY <1>2
  <2> QED BY <2>1, <2>2, SpacesEnd
<1>7. SkipDigits(t, p) = q
  <2>1. q = Len(t) + 1 \/ ~IsDigit(t[q])
    BY <1>4, Constants, Digits
  <2>2. \A r \in p..(q - 1) : IsDigit(t[r])
    BY <1>3, Digits
  <2>3. p \in 1..(Len(t) + 1) /\ q \in p..(Len(t) + 1)
    BY <1>2
  <2> QED BY <2>1, <2>2, <2>3, DigitsEnd
<1>8. SubSeq(t, p, q - 1) = w
  <2>1. q - 1 = p + (Len(w) - 1)
    BY <1>1, <1>2
  <2> QED BY <1>1, <1>2, <2>1, CutOut
<1>9. t[p] \notin {"+", "-"}
  BY <1>5, Constants DEF Signs
<1>10. Extracted(t, p) = Unsigned(t, p, q, FALSE)
  <2>1. p <= Len(t)
    BY <1>2
  <2>2. ExtractedAt(t, p) = Signed(t, p, t[p])
    BY <2>1 DEF ExtractedAt
  <2>3. Signed(t, p, t[p]) = Unsigned(t, p, SkipDigits(t, p), t[p] = "-")
    BY <1>9 DEF Signed
  <2>4. (t[p] = "-") = FALSE
    BY <1>9
  <2> QED BY <1>6, <1>7, <2>2, <2>3, <2>4 DEF Extracted
<1>11. q > p /\ o < Span
  BY <1>2, Constants DEF Word
<1>12. Unsigned(t, p, q, FALSE) = [ok |-> TRUE, pos |-> q, val |-> o]
  BY <1>1, <1>8, <1>11 DEF Unsigned
<1> QED BY <1>10, <1>12 DEF w

(* Nothing is read at the end of the text.                                  *)
LEMMA NoNumber ==
  ASSUME NEW t \in Seq(Char)
  PROVE  ~Extracted(t, Len(t) + 1).ok
<1> DEFINE p == Len(t) + 1
<1>1. /\ p \in 1..(Len(t) + 1) /\ p \in p..(Len(t) + 1) /\ p..(p - 1) = {}
      /\ ~(p <= Len(t)) /\ ~(p > p)
  OBVIOUS
<1>2. SkipSpace(t, p) = p /\ SkipDigits(t, p) = p
  BY <1>1, SpacesEnd, DigitsEnd
<1> HIDE DEF p
<1>3. Extracted(t, p) = Signed(t, p, Nul)
  BY <1>1, <1>2 DEF Extracted, ExtractedAt
<1>4. Signed(t, p, Nul) = Unsigned(t, p, p, FALSE)
  BY <1>2 DEF Signed, Nul
<1>5. ~Unsigned(t, p, p, FALSE).ok
  BY <1>1 DEF Unsigned
<1> QED BY <1>3, <1>4, <1>5 DEF p

(* Whatever the text, a number that is read is a word.                      *)
LEMMA ExtractedFacts ==
  ASSUME NEW t \in Seq(Char), NEW p \in 1..(Len(t) + 1)
  PROVE  /\ Extracted(t, p).ok \in BOOLEAN
         /\ Extracted(t, p).pos \in 1..(Len(t) + 1)
         /\ Extracted(t, p).ok => Extracted(t, p).val \in Word
<1> DEFINE q == SkipSpace(t, p)
           sign == IF q <= Len(t) THEN t[q] ELSE Nul
           first == IF sign \in {"+", "-"} THEN q + 1 ELSE q
           next == SkipDigits(t, first)
           n == NumberOf(SubSeq(t, first, next - 1))
<1>1. q \in 1..(Len(t) + 1) /\ Len(t) \in Nat
  BY SpacesSkipped
<1>2. Extracted(t, p) =
        [ok |-> next > first /\ n < Span, pos |-> next,
         val |-> IF sign = "-" THEN (Span - n) % Span ELSE n]
  BY DEF Extracted, ExtractedAt, Signed, Unsigned
<1> HIDE DEF q
<1>3. first \in 1..(Len(t) + 1)
  BY <1>1 DEF Nul
<1> HIDE DEF first, sign
<1>4. /\ next \in first..(Len(t) + 1) /\ next \in 1..(Len(t) + 1)
      /\ \A r \in first..(next - 1) : t[r] \in Figures
  <2>1. /\ next \in first..(Len(t) + 1)
        /\ \A r \in first..(next - 1) : IsDigit(t[r])
    BY <1>3, DigitsSkipped
  <2> QED BY <1>1, <1>3, <2>1, Digits
<1> HIDE DEF next
<1>5. n \in Nat
  <2>1. first \in Int /\ next - 1 \in Int
    BY <1>3, <1>4
  <2>2. SubSeq(t, first, next - 1) \in Seq(Figures)
    BY <1>4, <2>1, SubSeqProperties
  <2> QED BY <2>2, NumberIsNat
<1> HIDE DEF n
<1>6. n < Span => n \in Word /\ (Span - n) % Span \in Word
  <2>1. Span \in Nat /\ Span > 0
    BY Constants
  <2> QED BY <1>5, <2>1 DEF Word
<1>7. (next > first /\ n < Span) => (IF sign = "-" THEN (Span - n) % Span ELSE n) \in Word
  BY <1>6
<1> DEFINE val == IF sign = "-" THEN (Span - n) % Span ELSE n
           ok == next > first /\ n < Span
<1>8. ok \in BOOLEAN /\ (ok => val \in Word)
  BY <1>7
<1>9. Extracted(t, p) = [ok |-> ok, pos |-> next, val |-> val]
  BY <1>2
<1> HIDE DEF ok, val
<1> QED BY <1>4, <1>8, <1>9

(* A value, by its length.                                                  *)
LEMMA IsValue ==
  ASSUME NEW v \in Seq(Char), Len(v) = Width
  PROVE  v \in Values
BY LenProperties DEF Values

(* What `>> val` leaves in the variable has the width of a value, whatever  *)
(* is left of the text.                                                     *)
LEMMA TextRead ==
  ASSUME NEW t \in Seq(Char), NEW p \in 1..(Len(t) + 1), NEW old \in Values
  PROVE  LET r == ReadText(t, p, old)
         IN  r.text \in Values /\ r.pos \in 1..(Len(t) + 1) /\ r.whole \in BOOLEAN
<1> DEFINE last == IF p + Width - 1 <= Len(t) THEN p + Width - 1 ELSE Len(t)
           got == SubSeq(t, p, last)
           rest == SubSeq(old, Len(got) + 1, Width)
<1>1. /\ p \in Int /\ last \in Int /\ Len(t) \in Nat /\ Width \in Nat /\ Width > 0
      /\ last <= Len(t) /\ last >= p - 1 /\ last <= p + Width - 1 /\ p >= 1
  BY Constants
<1> HIDE DEF last
<1>2. \A i \in p..last : t[i] \in Char
  BY <1>1
<1>3. got \in Seq(Char) /\ Len(got) = IF p <= last THEN last - p + 1 ELSE 0
  BY <1>1, <1>2, SubSeqProperties
<1> HIDE DEF got
<1>4. Len(got) \in 0..Width /\ p + Len(got) \in 1..(Len(t) + 1)
  BY <1>1, <1>3
<1>5. rest \in Seq(Char) /\ Len(rest) = Width - Len(got)
  <2>1. old \in Seq(Char) /\ Len(old) = Width
    BY ValueFacts
  <2>2. Len(got) + 1 \in Int /\ Width \in Int /\ \A i \in (Len(got) + 1)..Width : old[i] \in Char
    BY <1>1, <1>4, <2>1
  <2>3. /\ rest \in Seq(Char)
        /\ Len(rest) = IF Len(got) + 1 <= Width THEN Width - (Len(got) + 1) + 1 ELSE 0
    BY <2>2, SubSeqProperties
  <2> QED BY <1>1, <1>4, <2>3
<1> HIDE DEF rest
<1>6. got \o rest \in Seq(Char) /\ Len(got \o rest) = Width
  <2>1. got \o rest \in Seq(Char) /\ Len(got \o rest) = Len(got) + Len(rest)
    BY <1>3, <1>5, ConcatProperties
  <2> QED BY <1>1, <1>4, <1>5, <2>1
<1>7. got \o rest \in Values
  BY <1>6, IsValue
<1>8. ReadText(t, p, old) =
        [text |-> got \o rest, pos |-> p + Len(got), whole |-> Len(got) = Width]
  BY DEF ReadText, Characters, got, rest, last
<1> QED BY <1>4, <1>7, <1>8

(* A value that stands there is read whatever its characters are.           *)
LEMMA WholeTextRead ==
  ASSUME NEW t \in Seq(Char), NEW p, NEW v \in Values, NEW old \in Values,
         Stands(t, p, v)
  PROVE  ReadText(t, p, old) = [text |-> v, pos |-> p + Width, whole |-> TRUE]
<1>1. v \in Seq(Char) /\ Len(v) = Width /\ old \in Seq(Char) /\ Len(old) = Width
  BY ValueFacts
<1>2. /\ p \in Nat /\ Width \in Nat /\ Len(t) \in Nat /\ p + Width - 1 <= Len(t)
      /\ p + Width - 1 = p + (Len(v) - 1)
  BY <1>1, Constants DEF Stands
<1>3. Characters(t, p) = v
  <2>1. Characters(t, p) = SubSeq(t, p, p + (Len(v) - 1))
    BY <1>2 DEF Characters
  <2> QED BY <1>1, <2>1, CutOut
<1>4. SubSeq(old, Width + 1, Width) = <<>>
  <2>1. Width + 1 \in Int /\ Width \in Int /\ Width < Width + 1
    BY <1>2
  <2> QED BY <2>1, SubSeqEmpty
<1>5. v \o <<>> = v
  BY <1>1, ConcatEmptySeq
<1> QED BY <1>1, <1>3, <1>4, <1>5 DEF ReadText

(* At the end of the text the variable keeps what it had.                   *)
LEMMA NoTextRead ==
  ASSUME NEW t \in Seq(Char), NEW old \in Values
  PROVE  LET r == ReadText(t, Len(t) + 1, old)
         IN  r.text = old /\ r.pos = Len(t) + 1 /\ ~r.whole
<1> DEFINE p == Len(t) + 1
<1>1. Width \in Nat /\ Width > 0 /\ Len(t) \in Nat /\ old \in Seq(Char) /\ Len(old) = Width
  BY Constants, ValueFacts
<1>2. Characters(t, p) = <<>>
  <2>1. Characters(t, p) = SubSeq(t, p, Len(t))
    BY <1>1 DEF Characters
  <2>2. p \in Int /\ Len(t) \in Int /\ Len(t) < p
    BY <1>1
  <2> HIDE DEF p
  <2> QED BY <2>1, <2>2, SubSeqEmpty
<1>3. Len(<<>>) = 0
  BY EmptySeq
<1>4. SubSeq(old, 0 + 1, Width) = old /\ <<>> \o old = old
  BY <1>1, SubSeqFull, ConcatEmptySeq
<1>5. p + 0 = p /\ (0 = Width) = FALSE
  BY <1>1
<1> HIDE DEF p
<1>6. ReadText(t, p, old) = [text |-> old, pos |-> p, whole |-> FALSE]
  BY <1>2, <1>3, <1>4, <1>5 DEF ReadText
<1> QED BY <1>6 DEF p

-----------------------------------------------------------------------------
(* Cells. *)

(* The file reaches the end of the cell of o.                               *)
Covers(c, o) == (o + 1) * Width <= Len(c)

(* Cells of different offsets are apart.                                    *)
LEMMA CellsApart ==
  ASSUME NEW w \in Nat, NEW o \in Nat, NEW p \in Nat
  PROVE  /\ o * w \in Nat /\ (o + 1) * w = o * w + w
         /\ o < p => o * w + w <= p * w
<1>1. o * w \in Nat /\ (o + 1) * w = o * w + w /\ p * w \in Nat
  OBVIOUS
<1>2. ASSUME o < p PROVE o * w + w <= p * w
  <2> DEFINE d == p - (o + 1)
  <2>1. d \in Nat /\ p = (o + 1) + d
    BY <1>2
  <2> HIDE DEF d
  <2>2. p * w = (o + 1) * w + d * w /\ d * w \in Nat
    BY <2>1
  <2> QED BY <1>1, <2>2
<1> QED BY <1>1, <1>2

(* store() changes the cell of its offset only, and a whole value arrives.  *)
LEMMA StoredFacts ==
  ASSUME NEW c \in Seq(Char), NEW o \in Word, NEW v \in Seq(Char), Len(v) <= Width
  PROVE  /\ Stored(c, o, v) \in Seq(Char)
         /\ \A p \in Word : p # o /\ Covers(c, p) =>
              Covers(Stored(c, o, v), p) /\ CellAt(Stored(c, o, v), p) = CellAt(c, p)
         /\ Len(v) = Width =>
              Covers(Stored(c, o, v), o) /\ CellAt(Stored(c, o, v), o) = v
<1> DEFINE at == o * Width
           size == IF Len(c) < at + Len(v) THEN at + Len(v) ELSE Len(c)
           s == Stored(c, o, v)
<1>1. /\ o \in Nat /\ Width \in Nat /\ Width > 0 /\ Len(c) \in Nat /\ Len(v) \in Nat
      /\ at \in Nat /\ (o + 1) * Width = at + Width
  BY Constants, CellsApart DEF Word
<1>2. size \in Nat /\ size >= Len(c) /\ size >= at + Len(v)
      /\ (size = Len(c) \/ size = at + Len(v))
  BY <1>1
<1>3. s = [i \in 1..size |-> IF i \in (at + 1)..(at + Len(v)) THEN v[i - at]
                             ELSE IF i <= Len(c) THEN c[i] ELSE Nul]
  BY DEF Stored
<1> HIDE DEF at, size, s
<1>4. \A i \in 1..size : s[i] \in Char
  <2> TAKE i \in 1..size
  <2>1. CASE i \in (at + 1)..(at + Len(v))
    <3>1. i - at \in 1..Len(v)
      BY <1>1, <2>1
    <3>2. s[i] = v[i - at]
      BY <1>3, <2>1
    <3> QED BY <3>1, <3>2
  <2>2. CASE i \notin (at + 1)..(at + Len(v)) /\ i <= Len(c)
    <3>1. s[i] = c[i] /\ i \in 1..Len(c)
      BY <1>1, <1>2, <1>3, <2>2
    <3> QED BY <3>1
  <2>3. CASE i \notin (at + 1)..(at + Len(v)) /\ ~(i <= Len(c))
    <3>1. s[i] = Nul
      BY <1>3, <2>3
    <3> QED BY <3>1, Constants DEF Signs
  <2> QED BY <2>1, <2>2, <2>3
<1>5. s \in Seq(Char) /\ Len(s) = size
  <2>1. s = [i \in 1..size |-> s[i]]
    BY <1>3
  <2>2. s \in [1..size -> Char]
    BY <1>4, <2>1
  <2>3. s \in Seq(Char)
    BY <1>2, <2>2, SeqDef
  <2>4. Len(s) = size
    BY <1>2, <2>2, <2>3, LenProperties
  <2> QED BY <2>3, <2>4
<1>6. \A i \in 1..size : i \notin (at + 1)..(at + Len(v)) /\ i <= Len(c) => s[i] = c[i]
  BY <1>3
<1>7. \A i \in (at + 1)..(at + Len(v)) : s[i] = v[i - at]
  BY <1>1, <1>2, <1>3
<1>8. ASSUME NEW p \in Word, p # o, Covers(c, p)
      PROVE  Covers(s, p) /\ CellAt(s, p) = CellAt(c, p)
  <2> DEFINE from == p * Width
  <2>1. p \in Nat /\ from \in Nat /\ (p + 1) * Width = from + Width
    BY <1>1, Constants, CellsApart DEF Word
  <2>2. from + Width <= at \/ at + Width <= from
    <3>1. p < o \/ o < p
      BY <1>1, <1>8, <2>1
    <3> QED BY <1>1, <2>1, <3>1, CellsApart DEF at
  <2> HIDE DEF from
  <2>3. from + Width <= Len(c)
    BY <1>8, <2>1 DEF Covers
  <2>4. ASSUME NEW i \in (from + 1)..(from + Width) PROVE s[i] = c[i]
    <3>1. i \in 1..size /\ i <= Len(c) /\ i \notin (at + 1)..(at + Len(v))
      BY <1>1, <1>2, <2>1, <2>2, <2>3
    <3> QED BY <1>6, <3>1
  <2>5. SubSeq(s, from + 1, from + Width) = SubSeq(c, from + 1, from + Width)
    <3> DEFINE x == SubSeq(s, from + 1, from + Width)
               y == SubSeq(c, from + 1, from + Width)
    <3>0. from + 1 \in Int /\ from + Width \in Int
      BY <1>1, <2>1
    <3>1. \A i \in (from + 1)..(from + Width) : s[i] \in Char /\ c[i] \in Char
      BY <1>1, <1>2, <1>5, <2>1, <2>3
    <3>2. /\ x \in Seq(Char) /\ y \in Seq(Char)
          /\ Len(x) = Width /\ Len(y) = Width
      <4>1. /\ x \in Seq(Char) /\ y \in Seq(Char) /\ Len(x) = Len(y)
            /\ Len(x) = IF from + 1 <= from + Width
                        THEN (from + Width) - (from + 1) + 1 ELSE 0
        BY <3>0, <3>1, SubSeqProperties
      <4> HIDE DEF x, y
      <4> QED BY <1>1, <2>1, <4>1
    <3>3. \A i \in 1..Width : x[i] = s[from + i] /\ y[i] = c[from + i]
      BY <1>1, <2>1
    <3> HIDE DEF x, y
    <3>4. \A i \in 1..Width : x[i] = y[i]
      <4> TAKE i \in 1..Width
      <4>1. from + i \in (from + 1)..(from + Width)
        BY <1>1, <2>1
      <4> QED BY <2>4, <3>3, <4>1
    <3>5. x = y
      BY <3>2, <3>4, SeqEqual
    <3> QED BY <3>5 DEF x, y
  <2> QED BY <1>2, <1>5, <1>1, <2>1, <2>3, <2>5 DEF Covers, CellAt, from
<1>9. ASSUME Len(v) = Width
      PROVE  Covers(s, o) /\ CellAt(s, o) = v
  <2>1. Covers(s, o)
    BY <1>1, <1>2, <1>5, <1>9 DEF Covers
  <2>2. Stands(s, at + 1, v)
    <3>1. \A i \in 1..Len(v) : s[(at + 1) + (i - 1)] = v[i]
      <4> TAKE i \in 1..Len(v)
      <4>1. at + i \in (at + 1)..(at + Len(v)) /\ (at + 1) + (i - 1) = at + i /\ (at + i) - at = i
        BY <1>1
      <4> QED BY <1>7, <4>1
    <3>2. at + 1 \in Int /\ Len(v) \in Int /\ 1 <= at + 1 /\ at + Len(v) <= Len(s)
      BY <1>1, <1>2, <1>5
    <3>3. at + 1 \in Nat /\ at + 1 > 0 /\ (at + 1) + Len(v) <= Len(s) + 1
      BY <1>1, <1>2, <1>5, <3>2
    <3> QED BY <3>1, <3>3 DEF Stands
  <2>3. SubSeq(s, at + 1, (at + 1) + (Len(v) - 1)) = v
    BY <1>5, <2>2, CutOut
  <2>4. (at + 1) + (Len(v) - 1) = (o + 1) * Width
    BY <1>1, <1>9
  <2> QED BY <2>1, <2>3, <2>4 DEF CellAt, at
<1> QED BY <1>5, <1>8, <1>9 DEF s

-----------------------------------------------------------------------------
(* The loop. *)

Tables == [Word -> Values \cup {NoRow}]

(* The cells hold every row.                                                *)
Backed(r, c) ==
  \A o \in Word : r[o] # NoRow => Covers(c, o) /\ CellAt(c, o) = r[o]

(* The states of the loop over a text t.                                    *)
LoopStates(t) ==
  {s \in [pos : 1..(Len(t) + 1), val : Values, good : BOOLEAN, rows : Tables,
          cells : Seq(Char), size : Nat, sane : BOOLEAN] : Backed(s.rows, s.cells)}

(* The state the loop starts in is one of its states.                       *)
LEMMA StartFacts ==
  ASSUME NEW t \in Seq(Char), NEW c \in Seq(Char)
  PROVE  Start(c) \in LoopStates(t)
<1>1. Zeros \in Values /\ InitSize \in Nat /\ 1 \in 1..(Len(t) + 1)
  BY ZerosFacts, Constants
<1> DEFINE r == [o \in Word |-> NoRow]
<1>2. r \in Tables /\ \A o \in Word : r[o] = NoRow
  BY DEF Tables
<1>3. Start(c) = [pos |-> 1, val |-> Zeros, good |-> TRUE, rows |-> r, cells |-> c,
                  size |-> InitSize, sane |-> TRUE]
  BY DEF Start
<1> HIDE DEF r
<1> QED BY <1>1, <1>2, <1>3 DEF LoopStates, Backed

(* A row is put into the table and its cell.                                *)
LEMMA AcquiredFacts ==
  ASSUME NEW t \in Seq(Char), NEW s \in LoopStates(t), NEW off \in Word, NEW v \in Values
  PROVE  /\ Acquired(s, off, v) \in LoopStates(t)
         /\ off # Span - 1 =>
              /\ Acquired(s, off, v).sane = s.sane
              /\ Acquired(s, off, v).rows = [s.rows EXCEPT ![off] = v]
              /\ Acquired(s, off, v).size = IF s.size <= off THEN off + 1 ELSE s.size
<1>1. /\ s \in [pos : 1..(Len(t) + 1), val : Values, good : BOOLEAN, rows : Tables,
                cells : Seq(Char), size : Nat, sane : BOOLEAN]
      /\ Backed(s.rows, s.cells)
  BY DEF LoopStates
<1>2. CASE off = Span - 1
  <2>1. Acquired(s, off, v) = [s EXCEPT !.sane = FALSE]
    BY <1>2 DEF Acquired
  <2>2. /\ Acquired(s, off, v) \in
             [pos : 1..(Len(t) + 1), val : Values, good : BOOLEAN, rows : Tables,
              cells : Seq(Char), size : Nat, sane : BOOLEAN]
        /\ Acquired(s, off, v).rows = s.rows /\ Acquired(s, off, v).cells = s.cells
    BY <1>1, <2>1
  <2> QED BY <1>1, <1>2, <2>2 DEF LoopStates
<1>3. CASE off # Span - 1
  <2> DEFINE a == Acquired(s, off, v)
             r == [s.rows EXCEPT ![off] = v]
             c == Stored(s.cells, off, v)
             n == IF s.size <= off THEN off + 1 ELSE s.size
  <2>1. a = [s EXCEPT !.size = n, !.rows = r, !.cells = c]
    BY <1>3 DEF Acquired
  <2>2. n \in Nat
    BY <1>1, Constants DEF Word
  <2>3. r \in Tables
    BY <1>1 DEF Tables
  <2>4. /\ v \in Seq(Char) /\ Len(v) <= Width /\ Len(v) = Width /\ s.cells \in Seq(Char)
    BY <1>1, ValueFacts, Constants
  <2>5. c \in Seq(Char)
    BY <2>4, StoredFacts
  <2>6. Backed(r, c)
    <3>1. ASSUME NEW o \in Word, r[o] # NoRow
          PROVE  Covers(c, o) /\ CellAt(c, o) = r[o]
      <4>1. CASE o = off
        <5>1. r[o] = v
          BY <1>1, <4>1 DEF Tables
        <5> QED BY <2>4, <4>1, <5>1, StoredFacts
      <4>2. CASE o # off
        <5>1. r[o] = s.rows[o]
          BY <1>1, <4>2 DEF Tables
        <5>2. Covers(s.cells, o) /\ CellAt(s.cells, o) = s.rows[o]
          BY <1>1, <3>1, <5>1 DEF Backed
        <5> QED BY <2>4, <4>2, <5>1, <5>2, StoredFacts, SMTT(30)
      <4> QED BY <4>1, <4>2
    <3> QED BY <3>1 DEF Backed
  <2> HIDE DEF a, r, c, n
  <2>7. /\ a \in [pos : 1..(Len(t) + 1), val : Values, good : BOOLEAN, rows : Tables,
                  cells : Seq(Char), size : Nat, sane : BOOLEAN]
        /\ a.rows = r /\ a.cells = c /\ a.size = n /\ a.sane = s.sane
    BY <1>1, <2>1, <2>2, <2>3, <2>5
  <2>8. a \in LoopStates(t)
    BY <2>6, <2>7 DEF LoopStates
  <2> QED BY <2>7, <2>8 DEF a, r, n
<1> QED BY <1>2, <1>3

(* A row is taken out of the table.                                         *)
LEMMA ReleasedFacts ==
  ASSUME NEW t \in Seq(Char), NEW s \in LoopStates(t), NEW off \in Word
  PROVE  /\ Released(s, off) \in LoopStates(t)
         /\ Released(s, off).good = s.good
         /\ off < s.size =>
              /\ Released(s, off).sane = s.sane
              /\ Released(s, off).rows = [s.rows EXCEPT ![off] = NoRow]
              /\ Released(s, off).size = s.size
              /\ Released(s, off).val = s.val
<1>1. /\ s \in [pos : 1..(Len(t) + 1), val : Values, good : BOOLEAN, rows : Tables,
                cells : Seq(Char), size : Nat, sane : BOOLEAN]
      /\ Backed(s.rows, s.cells)
  BY DEF LoopStates
<1>2. CASE ~(off < s.size)
  <2>1. Released(s, off) = [s EXCEPT !.sane = FALSE]
    BY <1>2 DEF Released
  <2>2. /\ Released(s, off) \in
             [pos : 1..(Len(t) + 1), val : Values, good : BOOLEAN, rows : Tables,
              cells : Seq(Char), size : Nat, sane : BOOLEAN]
        /\ Released(s, off).rows = s.rows /\ Released(s, off).cells = s.cells
        /\ Released(s, off).good = s.good
    BY <1>1, <2>1
  <2> QED BY <1>1, <1>2, <2>2 DEF LoopStates
<1>3. CASE off < s.size
  <2> DEFINE a == Released(s, off)
             r == [s.rows EXCEPT ![off] = NoRow]
  <2>1. a = [s EXCEPT !.rows = r]
    BY <1>3 DEF Released
  <2>2. r \in Tables
    BY <1>1 DEF Tables
  <2>3. Backed(r, s.cells)
    <3>1. ASSUME NEW o \in Word, r[o] # NoRow
          PROVE  r[o] = s.rows[o]
      BY <1>1, <3>1 DEF Tables
    <3> QED BY <1>1, <3>1 DEF Backed
  <2> HIDE DEF a, r
  <2>4. /\ a \in [pos : 1..(Len(t) + 1), val : Values, good : BOOLEAN, rows : Tables,
                  cells : Seq(Char), size : Nat, sane : BOOLEAN]
        /\ a.rows = r /\ a.cells = s.cells /\ a.size = s.size /\ a.sane = s.sane
        /\ a.good = s.good /\ a.val = s.val
    BY <1>1, <2>1, <2>2
  <2>5. a \in LoopStates(t)
    BY <2>3, <2>4 DEF LoopStates
  <2> QED BY <2>4, <2>5 DEF a, r
<1> QED BY <1>2, <1>3

(* The place, the variable and the stream's state say nothing of the table. *)
LEMMA MovedFacts ==
  ASSUME NEW t \in Seq(Char), NEW s \in LoopStates(t), NEW p \in 1..(Len(t) + 1),
         NEW v \in Values, NEW g \in BOOLEAN
  PROVE  /\ [s EXCEPT !.good = FALSE] \in LoopStates(t)
         /\ [s EXCEPT !.pos = p] \in LoopStates(t)
         /\ [s EXCEPT !.pos = p, !.val = v, !.good = g] \in LoopStates(t)
<1>1. /\ s \in [pos : 1..(Len(t) + 1), val : Values, good : BOOLEAN, rows : Tables,
                cells : Seq(Char), size : Nat, sane : BOOLEAN]
      /\ Backed(s.rows, s.cells)
  BY DEF LoopStates
<1> DEFINE a == [s EXCEPT !.good = FALSE]
           b == [s EXCEPT !.pos = p]
           c == [s EXCEPT !.pos = p, !.val = v, !.good = g]
<1>2. /\ a \in [pos : 1..(Len(t) + 1), val : Values, good : BOOLEAN, rows : Tables,
                cells : Seq(Char), size : Nat, sane : BOOLEAN]
      /\ a.rows = s.rows /\ a.cells = s.cells
  BY <1>1
<1>3. /\ b \in [pos : 1..(Len(t) + 1), val : Values, good : BOOLEAN, rows : Tables,
                cells : Seq(Char), size : Nat, sane : BOOLEAN]
      /\ b.rows = s.rows /\ b.cells = s.cells
  BY <1>1
<1>4. /\ c \in [pos : 1..(Len(t) + 1), val : Values, good : BOOLEAN, rows : Tables,
                cells : Seq(Char), size : Nat, sane : BOOLEAN]
      /\ c.rows = s.rows /\ c.cells = s.cells
  BY <1>1
<1> HIDE DEF a, b, c
<1>5. a \in LoopStates(t) /\ b \in LoopStates(t) /\ c \in LoopStates(t)
  BY <1>1, <1>2, <1>3, <1>4 DEF LoopStates
<1> QED BY <1>5 DEF a, b, c

(* The place alone.                                                         *)
LEMMA PosMoved ==
  ASSUME NEW t \in Seq(Char), NEW s \in LoopStates(t), NEW p \in 1..(Len(t) + 1)
  PROVE  [s EXCEPT !.pos = p] \in LoopStates(t)
<1>1. s.val \in Values /\ TRUE \in BOOLEAN
  BY DEF LoopStates
<1> QED BY <1>1, MovedFacts

(* Past a tabulator is still a place of the text, or the one behind it.     *)
LEMMA PastTabFacts ==
  ASSUME NEW t \in Seq(Char), NEW p \in 1..(Len(t) + 1)
  PROVE  PastTab(t, p) \in 1..(Len(t) + 1)
BY DEF PastTab

(* Whatever the text, a turn of the loop keeps the table backed.            *)
LEMMA TurnFacts ==
  ASSUME NEW t \in Seq(Char), NEW s \in LoopStates(t)
  PROVE  Turn(t, s) \in LoopStates(t)
<1>1. /\ s.pos \in 1..(Len(t) + 1) /\ s.val \in Values /\ Len(t) \in Nat
  BY DEF LoopStates
<1> DEFINE q == SkipSpace(t, s.pos)
<1>2. q \in 1..(Len(t) + 1)
  BY <1>1, SpacesSkipped
<1> HIDE DEF q
<1>3. [s EXCEPT !.good = FALSE] \in LoopStates(t)
  BY <1>1, MovedFacts
<1>4. ASSUME q \in 1..Len(t)
      PROVE  TurnRecord(t, t[q], Extracted(t, q + 1), s) \in LoopStates(t)
  <2> DEFINE num == Extracted(t, q + 1)
             op == t[q]
  <2>1. q + 1 \in 1..(Len(t) + 1)
    BY <1>1, <1>4
  <2>2. num.ok \in BOOLEAN /\ num.pos \in 1..(Len(t) + 1) /\ (num.ok => num.val \in Word)
    BY <2>1, ExtractedFacts
  <2> HIDE DEF num, op
  <2>3. CASE ~num.ok
    <3>1. TurnRecord(t, op, num, s) = [s EXCEPT !.good = FALSE]
      BY <2>3 DEF TurnRecord
    <3> QED BY <1>3, <3>1 DEF op, num
  <2>4. CASE num.ok /\ op = "+"
    <3> DEFINE p == PastTab(t, num.pos)
               txt == ReadText(t, p, s.val)
               a == Acquired(s, num.val, txt.text)
    <3>1. p \in 1..(Len(t) + 1)
      BY <2>2, PastTabFacts
    <3> HIDE DEF p
    <3>2. txt.text \in Values /\ txt.pos \in 1..(Len(t) + 1) /\ txt.whole \in BOOLEAN
      BY <1>1, <3>1, TextRead
    <3> HIDE DEF txt
    <3>3. a \in LoopStates(t)
      BY <2>2, <2>4, <3>2, AcquiredFacts
    <3>4. TurnRecord(t, op, num, s) =
            [a EXCEPT !.pos = txt.pos, !.val = txt.text, !.good = txt.whole]
      <4>1. TurnRecord(t, op, num, s) = TurnPlus(s, num.val, txt)
        BY <2>4 DEF TurnRecord, txt, p
      <4> QED BY <4>1 DEF TurnPlus
    <3> HIDE DEF a
    <3>5. [a EXCEPT !.pos = txt.pos, !.val = txt.text, !.good = txt.whole] \in LoopStates(t)
      BY <3>2, <3>3, MovedFacts
    <3> QED BY <3>4, <3>5 DEF op, num
  <2>5. CASE num.ok /\ op = "-"
    <3> DEFINE a == Released(s, num.val)
    <3>1. a \in LoopStates(t)
      BY <2>2, <2>5, ReleasedFacts
    <3>2. TurnRecord(t, op, num, s) = [a EXCEPT !.pos = num.pos]
      BY <2>5 DEF TurnRecord
    <3> HIDE DEF a
    <3>3. [a EXCEPT !.pos = num.pos] \in LoopStates(t)
      BY <2>2, <3>1, PosMoved
    <3> QED BY <3>2, <3>3 DEF op, num
  <2>6. CASE num.ok /\ op \notin {"+", "-"}
    <3>1. TurnRecord(t, op, num, s) = [s EXCEPT !.pos = num.pos]
      BY <2>6 DEF TurnRecord
    <3>2. [s EXCEPT !.pos = num.pos] \in LoopStates(t)
      BY <2>2, PosMoved
    <3> QED BY <3>1, <3>2 DEF op, num
  <2> QED BY <2>3, <2>4, <2>5, <2>6, <2>2
<1>5. TurnAt(t, q, s) \in LoopStates(t)
  BY <1>1, <1>2, <1>3, <1>4 DEF TurnAt
<1> QED BY <1>5 DEF Turn, q

(* The states of the loop after each number of turns over t and c.          *)
Follows(f, t, c) ==
  /\ f \in [0..Len(t) -> LoopStates(t)]
  /\ f[0] = Start(c)
  /\ \A n \in 1..Len(t) : f[n] = Turn(t, f[n - 1])
  /\ Replay(t, c) = f[Len(t)]

(* The loop has a list of its turns.                                        *)
LEMMA LoopFollows ==
  ASSUME NEW t \in Seq(Char), NEW c \in Seq(Char)
  PROVE  \E f : Follows(f, t, c)
<1> DEFINE N == Len(t)
           S == LoopStates(t)
           After(g) == [n \in 0..N |-> IF n = 0 THEN Start(c) ELSE Turn(t, g[n - 1])]
           G == [n \in 1..N |-> [s \in S |-> Turn(t, s)]]
<1>1. N \in Nat /\ Start(c) \in S
  BY StartFacts
<1>2. \A s \in S : Turn(t, s) \in S
  BY TurnFacts
<1> HIDE DEF S, N
<1>3. G \in [1..N -> [S -> S]]
  BY <1>2
<1>4. \A n \in 1..N, s \in S : G[n][s] = Turn(t, s)
  OBVIOUS
<1> HIDE DEF G
<1>5. PICK f : /\ f \in [0..N -> S] /\ f[0] = Start(c)
               /\ \A n \in 1..N : f[n] = G[n][f[n - 1]]
  <2>1. \E f : Iterates(f, N, S, Start(c), G)
    BY <1>1, <1>3, Iteration
  <2> QED BY <2>1 DEF Iterates
<1>6. \A n \in 1..N : n - 1 \in 0..N /\ f[n] = Turn(t, f[n - 1])
  <2> TAKE n \in 1..N
  <2>1. n - 1 \in 0..N
    BY <1>1
  <2>2. f[n - 1] \in S
    BY <1>5, <2>1
  <2> QED BY <1>4, <1>5, <2>1, <2>2
<1>7. f = After(f)
  BY <1>1, <1>5, <1>6
<1> DEFINE g == CHOOSE h : h = After(h)
<1>8. g = After(g)
  <2> HIDE DEF After
  <2> QED BY <1>7
<1>9. Replay(t, c) = g[N]
  BY DEF Replay, N
<1> HIDE DEF g
<1>10. g[0] = Start(c) /\ \A n \in 1..N : g[n] = Turn(t, g[n - 1])
  <2>1. 0 \in 0..N /\ \A n \in 1..N : n \in 0..N /\ n # 0
    BY <1>1
  <2> QED BY <1>8, <2>1
<1>11. \A n \in 0..N : g[n] = f[n]
  <2> DEFINE B == {n \in Nat : g[n] = f[n]}
  <2>1. 0 \in B /\ \A n \in 1..N : n - 1 \in B => n \in B
    BY <1>1, <1>5, <1>6, <1>10
  <2>2. \A n \in 0..N : n \in B
    <3> HIDE DEF B
    <3>1. B \in SUBSET Nat
      BY DEF B
    <3> QED BY <1>1, <2>1, <3>1, Throughout
  <2> QED BY <2>2
<1>12. Replay(t, c) = f[N]
  BY <1>1, <1>9, <1>11
<1> QED BY <1>5, <1>6, <1>12 DEF Follows, N, S

(* ... of which there is one list.                                          *)
Turns(t, c) == CHOOSE f : Follows(f, t, c)

(* The list chosen is one.                                                  *)
LEMMA TurnsFollow ==
  ASSUME NEW t \in Seq(Char), NEW c \in Seq(Char)
  PROVE  Follows(Turns(t, c), t, c)
<1>1. \E f : Follows(f, t, c)
  BY LoopFollows
<1> QED BY <1>1 DEF Turns

(* Every turn is a state of the loop, so the replay ends in one.            *)
LEMMA ReplayFacts ==
  ASSUME NEW t \in Seq(Char), NEW c \in Seq(Char)
  PROVE  Replay(t, c) \in LoopStates(t)
<1> DEFINE f == Turns(t, c)
<1>1. Len(t) \in 0..Len(t)
  OBVIOUS
<1>2. Follows(f, t, c)
  BY TurnsFollow
<1> HIDE DEF f
<1>3. f[Len(t)] \in LoopStates(t) /\ Replay(t, c) = f[Len(t)]
  BY <1>1, <1>2 DEF Follows
<1> QED BY <1>3

-----------------------------------------------------------------------------
(* Turns over the records of a commit. *)

(* Nothing is left for the loop to read.                                    *)
AtEnd(t, s) == ~s.good \/ \A i \in s.pos..Len(t) : IsSpace(t[i])

(* At the end of the text a turn changes nothing but the state of the       *)
(* stream.                                                                  *)
LEMMA TurnAtEnd ==
  ASSUME NEW t \in Seq(Char), NEW s \in LoopStates(t), AtEnd(t, s)
  PROVE  /\ AtEnd(t, Turn(t, s))
         /\ Turn(t, s).rows = s.rows /\ Turn(t, s).sane = s.sane
<1>1. /\ s \in [pos : 1..(Len(t) + 1), val : Values, good : BOOLEAN, rows : Tables,
                cells : Seq(Char), size : Nat, sane : BOOLEAN]
      /\ Len(t) \in Nat
  BY DEF LoopStates
<1>2. CASE s.good /\ s.sane
  <2>1. \A i \in s.pos..Len(t) : IsSpace(t[i])
    BY <1>2 DEF AtEnd
  <2>2. SkipSpace(t, s.pos) = Len(t) + 1
    <3> DEFINE q == Len(t) + 1
    <3>1. /\ s.pos \in 1..(Len(t) + 1) /\ q \in (s.pos)..(Len(t) + 1)
          /\ q = Len(t) + 1 /\ \A r \in (s.pos)..(q - 1) : IsSpace(t[r])
      BY <1>1, <2>1
    <3> HIDE DEF q
    <3>2. SkipSpace(t, s.pos) = q
      BY <3>1, SpacesEnd
    <3> QED BY <3>2 DEF q
  <2>3. TurnAt(t, Len(t) + 1, s) = [s EXCEPT !.good = FALSE]
    BY <1>1 DEF TurnAt
  <2>4. Turn(t, s) = [s EXCEPT !.good = FALSE]
    BY <1>2, <2>2, <2>3 DEF Turn
  <2> QED BY <1>1, <2>4 DEF AtEnd
<1>3. CASE ~(s.good /\ s.sane)
  <2>1. Turn(t, s) = s
    BY <1>3 DEF Turn
  <2> QED BY <2>1
<1> QED BY <1>2, <1>3

(* What the loop has built when nothing is left to read is the result.      *)
LEMMA ReplayEnds ==
  ASSUME NEW t \in Seq(Char), NEW c \in Seq(Char), NEW m \in 0..Len(t),
         AtEnd(t, Turns(t, c)[m])
  PROVE  /\ Replay(t, c).rows = Turns(t, c)[m].rows
         /\ Replay(t, c).sane = Turns(t, c)[m].sane
<1> DEFINE f == Turns(t, c)
           N == Len(t)
           B == {n \in Nat : n < m \/ (/\ AtEnd(t, f[n]) /\ f[n].rows = f[m].rows
                                       /\ f[n].sane = f[m].sane)}
<1>1. /\ \A n \in 0..N : f[n] \in LoopStates(t)
      /\ \A n \in 1..N : f[n] = Turn(t, f[n - 1])
      /\ Replay(t, c) = f[N] /\ N \in Nat
  <2>1. Follows(f, t, c)
    BY TurnsFollow
  <2> HIDE DEF f
  <2> QED BY <2>1 DEF Follows
<1>2. AtEnd(t, f[m])
  OBVIOUS
<1> HIDE DEF f, N
<1>3. 0 \in B
  BY <1>2
<1>4. ASSUME NEW n \in 1..N, n - 1 \in B PROVE n \in B
  <2>1. n - 1 \in 0..N /\ n \in Nat /\ m \in Nat
    BY <1>1
  <2>2. CASE n < m
    BY <2>1, <2>2
  <2>3. CASE n = m
    BY <1>2, <2>1, <2>3
  <2>4. CASE n > m
    <3>1. AtEnd(t, f[n - 1]) /\ f[n - 1].rows = f[m].rows /\ f[n - 1].sane = f[m].sane
      BY <1>4, <2>1, <2>4
    <3>2. f[n] = Turn(t, f[n - 1]) /\ f[n - 1] \in LoopStates(t)
      BY <1>1, <2>1
    <3>3. AtEnd(t, f[n]) /\ f[n].rows = f[m].rows /\ f[n].sane = f[m].sane
      BY <3>1, <3>2, TurnAtEnd
    <3> QED BY <2>1, <3>3
  <2> QED BY <2>1, <2>2, <2>3, <2>4
<1>5. \A n \in 0..N : n \in B
  <2>1. B \in SUBSET Nat
    OBVIOUS
  <2> HIDE DEF B
  <2> QED BY <1>1, <1>3, <1>4, <2>1, Throughout
<1>6. f[N].rows = f[m].rows /\ f[N].sane = f[m].sane
  <2>1. N \in 0..N /\ m \in 0..N
    BY <1>1 DEF N
  <2> QED BY <1>1, <1>5, <2>1
<1> QED BY <1>1, <1>6 DEF f

(* The loop goes on at place q, behind white space.                         *)
GoesOnAt(t, s, q) ==
  /\ s.good /\ s.sane
  /\ q \in (s.pos)..Len(t) /\ ~IsSpace(t[q])
  /\ \A r \in (s.pos)..(q - 1) : IsSpace(t[r])

(* A turn reads a record where the white space ends.                        *)
LEMMA TurnHere ==
  ASSUME NEW t \in Seq(Char), NEW s \in LoopStates(t), NEW q, GoesOnAt(t, s, q)
  PROVE  /\ q \in 1..Len(t)
         /\ Turn(t, s) = TurnRecord(t, t[q], Extracted(t, q + 1), s)
<1>1. s.pos \in 1..(Len(t) + 1) /\ Len(t) \in Nat
  BY DEF LoopStates
<1>2. q \in 1..Len(t) /\ q \in (s.pos)..(Len(t) + 1)
  BY <1>1 DEF GoesOnAt
<1>3. SkipSpace(t, s.pos) = q
  BY <1>1, <1>2, SpacesEnd DEF GoesOnAt
<1>4. ~(q > Len(t))
  BY <1>1, <1>2
<1> QED BY <1>2, <1>3, <1>4 DEF Turn, TurnAt, GoesOnAt

(* The characters of the records.                                           *)
LEMMA NumeralChars ==
  ASSUME NEW o \in Word
  PROVE  Numeral[o] \in Seq(Char) /\ Len(Numeral[o]) \in Nat /\ Len(Numeral[o]) > 0
<1> DEFINE w == Numeral[o]
<1>1. w \in Seq(Figures) /\ Len(w) > 0
  BY NumeralFacts DEF Spelt
<1> HIDE DEF w
<1>2. w \in Seq(Char)
  BY <1>1, Constants, SeqMonotonic
<1>3. Len(w) \in Nat
  BY <1>2
<1> QED BY <1>1, <1>2, <1>3 DEF w

(* The characters of a '+' record, place by place.                          *)
LEMMA PlusRecordFacts ==
  ASSUME NEW o \in Word, NEW v \in Values
  PROVE  LET w == PlusRecord(o, v)
             n == Len(Numeral[o])
         IN  /\ w \in Seq(Char) /\ Len(w) = n + Width + 3
             /\ w[1] = "+" /\ w[n + 2] = "\t" /\ w[n + Width + 3] = "\n"
             /\ \A i \in 1..n : w[i + 1] = Numeral[o][i]
             /\ \A i \in 1..Width : w[n + 2 + i] = v[i]
<1> DEFINE d == Numeral[o]
           n == Len(d)
<1>1. d \in Seq(Char) /\ n \in Nat /\ v \in Seq(Char) /\ Len(v) = Width /\ Width \in Nat
  BY NumeralChars, ValueFacts, Constants
<1>2. "+" \in Char /\ "\t" \in Char /\ "\n" \in Char
  BY Constants DEF Signs
<1>3. PlusRecord(o, v) = <<"+">> \o d \o <<"\t">> \o v \o <<"\n">>
  BY DEF PlusRecord
<1> HIDE DEF d
<1> DEFINE w == <<"+">> \o d \o <<"\t">> \o v \o <<"\n">>
<1>4. w \in Seq(Char) /\ Len(w) = n + Width + 3
  BY <1>1, <1>2
<1>5. w[1] = "+" /\ w[n + 2] = "\t" /\ w[n + Width + 3] = "\n"
  BY <1>1, <1>2
<1>6. \A i \in 1..n : w[i + 1] = d[i]
  BY <1>1, <1>2
<1>7. \A i \in 1..Width : w[n + 2 + i] = v[i]
  BY <1>1, <1>2
<1> HIDE DEF w
<1> QED BY <1>3, <1>4, <1>5, <1>6, <1>7 DEF w, d

(* The characters of a '-' record.                                          *)
LEMMA MinusRecordFacts ==
  ASSUME NEW o \in Word
  PROVE  LET w == MinusRecord(o)
             n == Len(Numeral[o])
         IN  /\ w \in Seq(Char) /\ Len(w) = n + 2
             /\ w[1] = "-" /\ w[n + 2] = "\n"
             /\ \A i \in 1..n : w[i + 1] = Numeral[o][i]
<1> DEFINE d == Numeral[o]
           n == Len(d)
<1>1. d \in Seq(Char) /\ n \in Nat
  BY NumeralChars
<1>2. "-" \in Char /\ "\n" \in Char
  BY Constants DEF Signs
<1>3. MinusRecord(o) = <<"-">> \o d \o <<"\n">>
  BY DEF MinusRecord
<1> HIDE DEF d
<1> DEFINE w == <<"-">> \o d \o <<"\n">>
<1>4. w \in Seq(Char) /\ Len(w) = n + 2
  BY <1>1, <1>2
<1>5. w[1] = "-" /\ w[n + 2] = "\n"
  BY <1>1, <1>2
<1>6. \A i \in 1..n : w[i + 1] = d[i]
  BY <1>1, <1>2
<1> HIDE DEF w
<1> QED BY <1>3, <1>4, <1>5, <1>6 DEF w, d

(* A whole '+' record: the row is in the table, whatever the value is made  *)
(* of, and the loop goes on at the newline.                                 *)
LEMMA PlusTurn ==
  ASSUME NEW t \in Seq(Char), NEW s \in LoopStates(t), NEW q, GoesOnAt(t, s, q),
         NEW o \in Word, o # Span - 1, NEW v \in Values, Stands(t, q, PlusRecord(o, v))
  PROVE  LET a == Turn(t, s)
         IN  /\ a.pos = (q + Len(PlusRecord(o, v))) - 1 /\ a.val = v /\ a.good /\ a.sane
             /\ a.rows = [s.rows EXCEPT ![o] = v]
             /\ a.size = IF s.size <= o THEN o + 1 ELSE s.size
<1> DEFINE d == Numeral[o]
           n == Len(d)
           w == PlusRecord(o, v)
           p == q + n + 2
<1>1. /\ w \in Seq(Char) /\ Len(w) = n + Width + 3
      /\ w[1] = "+" /\ w[n + 2] = "\t"
      /\ \A i \in 1..n : w[i + 1] = d[i]
      /\ \A i \in 1..Width : w[n + 2 + i] = v[i]
  BY PlusRecordFacts
<1>2. /\ q \in Nat /\ q > 0 /\ q + Len(w) <= Len(t) + 1 /\ Len(t) \in Nat
      /\ \A i \in 1..Len(w) : t[q + (i - 1)] = w[i]
  BY DEF Stands
<1>3. n \in Nat /\ n > 0 /\ Width \in Nat /\ Len(v) = Width
  BY NumeralChars, Constants, ValueFacts
<1>4. Turn(t, s) = TurnRecord(t, t[q], Extracted(t, q + 1), s)
  BY TurnHere
<1>5. s.sane /\ s.val \in Values
  BY DEF LoopStates, GoesOnAt
<1> HIDE DEF w, d
<1>6. t[q] = "+"
  <2>1. 1 \in 1..Len(w) /\ q + (1 - 1) = q
    BY <1>1, <1>2, <1>3
  <2> QED BY <1>1, <1>2, <2>1
<1>7. Stands(t, q + 1, d)
  <2>1. ASSUME NEW i \in 1..n PROVE t[(q + 1) + (i - 1)] = d[i]
    <3>1. i + 1 \in 1..Len(w) /\ q + ((i + 1) - 1) = (q + 1) + (i - 1)
      BY <1>1, <1>2, <1>3
    <3> QED BY <1>1, <1>2, <3>1
  <2> QED BY <1>1, <1>2, <1>3, <2>1 DEF Stands
<1>8. t[q + n + 1] = "\t" /\ q + n + 1 <= Len(t)
  <2>1. n + 2 \in 1..Len(w) /\ q + ((n + 2) - 1) = q + n + 1
    BY <1>1, <1>2, <1>3
  <2> QED BY <1>1, <1>2, <1>3, <2>1
<1>9. Extracted(t, q + 1) = [ok |-> TRUE, pos |-> q + n + 1, val |-> o]
  <2>1. (q + 1) + n = q + n + 1
    BY <1>2, <1>3
  <2>2. t[(q + 1) + n] \in Signs
    BY <1>8, <2>1 DEF Signs
  <2> QED BY <1>7, <2>1, <2>2, NumberRead DEF d
<1>10. PastTab(t, q + n + 1) = p
  BY <1>2, <1>3, <1>8 DEF PastTab
<1>11. Stands(t, p, v)
  <2>1. ASSUME NEW i \in 1..Width PROVE t[p + (i - 1)] = v[i]
    <3>1. n + 2 + i \in 1..Len(w) /\ q + ((n + 2 + i) - 1) = p + (i - 1)
      BY <1>1, <1>2, <1>3
    <3> QED BY <1>1, <1>2, <3>1
  <2> QED BY <1>1, <1>2, <1>3, <2>1 DEF Stands
<1> HIDE DEF p
<1>12. ReadText(t, p, s.val) = [text |-> v, pos |-> p + Width, whole |-> TRUE]
  BY <1>5, <1>11, WholeTextRead
<1> DEFINE a == Acquired(s, o, v)
<1>13. Turn(t, s) = [a EXCEPT !.pos = p + Width, !.val = v, !.good = TRUE]
  <2> DEFINE num == Extracted(t, q + 1)
             txt == ReadText(t, p, s.val)
  <2>1. num.ok /\ num.pos = q + n + 1 /\ num.val = o
    BY <1>9
  <2>2. TurnRecord(t, "+", num, s) = TurnPlus(s, o, txt)
    BY <1>10, <2>1 DEF TurnRecord
  <2>3. txt.text = v /\ txt.pos = p + Width /\ txt.whole = TRUE
    BY <1>12
  <2> HIDE DEF num, txt
  <2>4. TurnPlus(s, o, txt) = [a EXCEPT !.pos = p + Width, !.val = v, !.good = TRUE]
    BY <2>3 DEF TurnPlus
  <2> QED BY <1>4, <1>6, <2>2, <2>4 DEF num
<1>14. /\ a \in LoopStates(t) /\ a.sane
       /\ a.rows = [s.rows EXCEPT ![o] = v]
       /\ a.size = IF s.size <= o THEN o + 1 ELSE s.size
  BY <1>5, AcquiredFacts
<1>15. a \in [pos : 1..(Len(t) + 1), val : Values, good : BOOLEAN, rows : Tables,
              cells : Seq(Char), size : Nat, sane : BOOLEAN]
  BY <1>14 DEF LoopStates
<1>16. p + Width = (q + Len(w)) - 1
  BY <1>1, <1>2, <1>3 DEF p
<1> HIDE DEF a
<1>17. /\ Turn(t, s).pos = p + Width /\ Turn(t, s).val = v /\ Turn(t, s).good
       /\ Turn(t, s).sane = a.sane /\ Turn(t, s).rows = a.rows /\ Turn(t, s).size = a.size
  BY <1>13, <1>15
<1> QED BY <1>14, <1>16, <1>17 DEF w

(* A whole '-' record.                                                      *)
LEMMA MinusTurn ==
  ASSUME NEW t \in Seq(Char), NEW s \in LoopStates(t), NEW q, GoesOnAt(t, s, q),
         NEW o \in Word, o < s.size, Stands(t, q, MinusRecord(o))
  PROVE  LET a == Turn(t, s)
         IN  /\ a.pos = (q + Len(MinusRecord(o))) - 1 /\ a.val = s.val /\ a.good /\ a.sane
             /\ a.rows = [s.rows EXCEPT ![o] = NoRow]
             /\ a.size = s.size
<1> DEFINE d == Numeral[o]
           n == Len(d)
           w == MinusRecord(o)
<1>1. /\ w \in Seq(Char) /\ Len(w) = n + 2
      /\ w[1] = "-" /\ w[n + 2] = "\n"
      /\ \A i \in 1..n : w[i + 1] = d[i]
  BY MinusRecordFacts
<1>2. /\ q \in Nat /\ q > 0 /\ q + Len(w) <= Len(t) + 1 /\ Len(t) \in Nat
      /\ \A i \in 1..Len(w) : t[q + (i - 1)] = w[i]
  BY DEF Stands
<1>3. n \in Nat /\ n > 0
  BY NumeralChars
<1>4. Turn(t, s) = TurnRecord(t, t[q], Extracted(t, q + 1), s)
  BY TurnHere
<1>5. s.sane /\ s.good
  BY DEF GoesOnAt
<1> HIDE DEF w, d
<1>6. t[q] = "-"
  <2>1. 1 \in 1..Len(w) /\ q + (1 - 1) = q
    BY <1>1, <1>2, <1>3
  <2> QED BY <1>1, <1>2, <2>1
<1>7. Stands(t, q + 1, d)
  <2>1. ASSUME NEW i \in 1..n PROVE t[(q + 1) + (i - 1)] = d[i]
    <3>1. i + 1 \in 1..Len(w) /\ q + ((i + 1) - 1) = (q + 1) + (i - 1)
      BY <1>1, <1>2, <1>3
    <3> QED BY <1>1, <1>2, <3>1
  <2> QED BY <1>1, <1>2, <1>3, <2>1 DEF Stands
<1>8. t[q + n + 1] = "\n"
  <2>1. n + 2 \in 1..Len(w) /\ q + ((n + 2) - 1) = q + n + 1
    BY <1>1, <1>2, <1>3
  <2> QED BY <1>1, <1>2, <1>3, <2>1
<1>9. Extracted(t, q + 1) = [ok |-> TRUE, pos |-> q + n + 1, val |-> o]
  <2>1. (q + 1) + n = q + n + 1
    BY <1>2, <1>3
  <2>2. t[(q + 1) + n] \in Signs
    BY <1>8, <2>1 DEF Signs
  <2> QED BY <1>7, <2>1, <2>2, NumberRead DEF d
<1> DEFINE a == Released(s, o)
<1>10. Turn(t, s) = [a EXCEPT !.pos = q + n + 1]
  <2> DEFINE num == Extracted(t, q + 1)
  <2>1. num.ok /\ num.pos = q + n + 1 /\ num.val = o
    BY <1>9
  <2> HIDE DEF num
  <2>2. TurnRecord(t, "-", num, s) = [a EXCEPT !.pos = q + n + 1]
    BY <2>1 DEF TurnRecord
  <2> QED BY <1>4, <1>6, <2>2 DEF num
<1>11. /\ a \in LoopStates(t) /\ a.sane /\ a.good
       /\ a.rows = [s.rows EXCEPT ![o] = NoRow]
       /\ a.size = s.size /\ a.val = s.val
  BY <1>5, ReleasedFacts
<1>12. a \in [pos : 1..(Len(t) + 1), val : Values, good : BOOLEAN, rows : Tables,
              cells : Seq(Char), size : Nat, sane : BOOLEAN]
  BY <1>11 DEF LoopStates
<1>13. q + n + 1 = (q + Len(w)) - 1
  BY <1>1, <1>2, <1>3
<1> HIDE DEF a
<1>14. /\ Turn(t, s).pos = q + n + 1 /\ Turn(t, s).val = a.val /\ Turn(t, s).good = a.good
       /\ Turn(t, s).sane = a.sane /\ Turn(t, s).rows = a.rows /\ Turn(t, s).size = a.size
  BY <1>10, <1>12
<1> QED BY <1>11, <1>13, <1>14 DEF w

(* The first digits of an offset, at the end of the text, are another one.  *)
LEMMA NumberCut ==
  ASSUME NEW t \in Seq(Char), NEW q \in Nat, q > 0, NEW o \in Word,
         NEW j \in 1..Len(Numeral[o]), Len(t) = q + j,
         \A i \in 1..j : t[q + i] = Numeral[o][i]
  PROVE  \E p \in 0..o :
           /\ p \in Word /\ IsPrefix(Numeral[p], Numeral[o])
           /\ Extracted(t, q + 1) = [ok |-> TRUE, pos |-> Len(t) + 1, val |-> p]
<1> DEFINE d == Numeral[o]
<1>1. /\ d \in Seq(Char) /\ Len(d) \in Nat
      /\ j \in 1..Len(d) /\ \A i \in 1..j : t[q + i] = d[i]
  BY NumeralChars
<1>2. PICK p \in 0..o : Numeral[p] = SubSeq(d, 1, j)
  BY NumeralFacts DEF Spelt
<1> HIDE DEF d
<1> DEFINE e == Numeral[p]
<1>3. e \in Seq(Char) /\ Len(e) = j /\ \A i \in 1..j : e[i] = d[i]
  <2>1. SubSeq(d, 1, j) \in Seq(Char)
    BY <1>1
  <2>2. Len(SubSeq(d, 1, j)) = j /\ \A i \in 1..j : SubSeq(d, 1, j)[i] = d[i]
    BY <1>1
  <2> QED BY <1>2, <2>1, <2>2
<1>4. p \in Word
  BY Constants DEF Word
<1>5. e = SubSeq(d, 1, j)
  BY <1>2
<1> HIDE DEF e
<1>6. Stands(t, q + 1, e)
  <2>1. ASSUME NEW i \in 1..j PROVE t[(q + 1) + (i - 1)] = e[i]
    <3>1. (q + 1) + (i - 1) = q + i
      OBVIOUS
    <3> QED BY <1>1, <1>3, <3>1
  <2>2. \A i \in 1..Len(e) : t[(q + 1) + (i - 1)] = e[i]
    BY <1>3, <2>1
  <2>3. q + 1 \in Nat /\ q + 1 > 0 /\ (q + 1) + Len(e) <= Len(t) + 1
    BY <1>1, <1>3
  <2> QED BY <2>2, <2>3 DEF Stands
<1>7. (q + 1) + Len(e) = Len(t) + 1
  BY <1>1, <1>3
<1>8. Extracted(t, q + 1) = [ok |-> TRUE, pos |-> Len(t) + 1, val |-> p]
  <2> DEFINE x == q + 1
  <2> HIDE DEF x
  <2>1. Stands(t, x, Numeral[p]) /\ x + Len(Numeral[p]) = Len(t) + 1
    BY <1>6, <1>7 DEF e, x
  <2>2. Extracted(t, x) = [ok |-> TRUE, pos |-> x + Len(Numeral[p]), val |-> p]
    BY <1>4, <2>1, NumberRead
  <2> QED BY <2>1, <2>2 DEF x
<1>9. IsPrefix(e, d)
  <2>1. SubSeq(e, 1, j) = e
    BY <1>3, SubSeqFull
  <2> QED BY <1>1, <1>3, <1>5, <2>1 DEF IsPrefix
<1> QED BY <1>4, <1>8, <1>9 DEF e, d

(* Of two tables one row differs at most, one whose digits begin those of o.*)
OneRow(r, a, o) ==
  \E p \in Word : /\ IsPrefix(Numeral[p], Numeral[o])
                  /\ \A x \in Word : x # p => a[x] = r[x]

(* A change of the row of the offset itself: its digits begin themselves.   *)
LEMMA OwnRow ==
  ASSUME NEW o \in Word, NEW r, NEW a, \A x \in Word : x # o => a[x] = r[x]
  PROVE  OneRow(r, a, o)
<1>1. IsPrefix(Numeral[o], Numeral[o])
  BY NumeralChars DEF IsPrefix
<1> QED BY <1>1 DEF OneRow

(* The text ends with the first k characters of w, from q on.               *)
EndsWithPart(t, q, w, k) ==
  /\ k \in 1..(Len(w) - 1) /\ q \in Nat /\ q > 0 /\ Len(t) = q + (k - 1)
  /\ \A i \in 1..k : t[q + (i - 1)] = w[i]

(* A '+' record that breaks off: the digits there are an offset, the        *)
(* characters of the value there are and those of the value before it are   *)
(* put into its row, and the loop ends.                                     *)
LEMMA PlusBroken ==
  ASSUME NEW t \in Seq(Char), NEW s \in LoopStates(t), NEW q, GoesOnAt(t, s, q),
         NEW o \in Word, o # Span - 1, NEW v \in Values, NEW k,
         EndsWithPart(t, q, PlusRecord(o, v), k)
  PROVE  LET a == Turn(t, s)
         IN  a.sane /\ AtEnd(t, a) /\ OneRow(s.rows, a.rows, o)
<1> DEFINE d == Numeral[o]
           n == Len(d)
           w == PlusRecord(o, v)
<1>1. /\ w \in Seq(Char) /\ Len(w) = n + Width + 3
      /\ w[1] = "+" /\ w[n + 2] = "\t"
      /\ \A i \in 1..n : w[i + 1] = d[i]
  BY PlusRecordFacts
<1>2. /\ q \in Nat /\ q > 0 /\ Len(t) = q + (k - 1) /\ k \in 1..(Len(w) - 1)
      /\ \A i \in 1..k : t[q + (i - 1)] = w[i]
  BY DEF EndsWithPart
<1>3. n \in Nat /\ n > 0 /\ Width \in Nat /\ d \in Seq(Char)
  BY NumeralChars, Constants
<1>4. Turn(t, s) = TurnRecord(t, t[q], Extracted(t, q + 1), s)
  BY TurnHere
<1>5. s.sane /\ s.val \in Values /\ s.rows \in Tables
  BY DEF LoopStates, GoesOnAt
<1>6. s \in [pos : 1..(Len(t) + 1), val : Values, good : BOOLEAN, rows : Tables,
             cells : Seq(Char), size : Nat, sane : BOOLEAN]
  BY DEF LoopStates
<1>7. o <= Span - 1 /\ o \in Nat /\ Span \in Nat
  BY Constants DEF Word
<1> HIDE DEF w, d
<1>8. t[q] = "+"
  <2>1. 1 \in 1..k /\ q + (1 - 1) = q
    BY <1>1, <1>2, <1>3
  <2> QED BY <1>1, <1>2, <2>1
<1>9. CASE k = 1
  <2>1. ~Extracted(t, q + 1).ok
    <3>1. q + 1 = Len(t) + 1
      BY <1>2, <1>9
    <3> QED BY <3>1, NoNumber
  <2>2. Turn(t, s) = [s EXCEPT !.good = FALSE]
    BY <1>4, <2>1 DEF TurnRecord
  <2>3. Turn(t, s).sane /\ ~Turn(t, s).good /\ Turn(t, s).rows = s.rows
    BY <1>5, <1>6, <2>2
  <2> QED BY <2>3, OwnRow DEF AtEnd
<1>10. ASSUME NEW p \in Word, p # Span - 1, IsPrefix(Numeral[p], d),
              NEW x \in 1..(Len(t) + 1),
              Extracted(t, q + 1) = [ok |-> TRUE, pos |-> x, val |-> p],
              LET txt == ReadText(t, PastTab(t, x), s.val)
              IN  ~txt.whole \/ txt.pos = Len(t) + 1
       PROVE  LET a == Turn(t, s)
              IN  a.sane /\ AtEnd(t, a) /\ OneRow(s.rows, a.rows, o)
  <2> DEFINE num == Extracted(t, q + 1)
             txt == ReadText(t, PastTab(t, x), s.val)
             a == Acquired(s, p, txt.text)
  <2>1. num.ok /\ num.pos = x /\ num.val = p
    BY <1>10
  <2>2. TurnRecord(t, "+", num, s) = TurnPlus(s, p, txt)
    BY <2>1 DEF TurnRecord
  <2>3. txt.text \in Values /\ txt.whole \in BOOLEAN /\ (~txt.whole \/ txt.pos = Len(t) + 1)
    BY <1>5, <1>10, PastTabFacts, TextRead
  <2> HIDE DEF num, txt
  <2>4. Turn(t, s) = [a EXCEPT !.pos = txt.pos, !.val = txt.text, !.good = txt.whole]
    BY <1>4, <1>8, <2>2 DEF TurnPlus, num
  <2>5. /\ a \in LoopStates(t) /\ a.sane
        /\ a.rows = [s.rows EXCEPT ![p] = txt.text]
    BY <1>5, <1>10, <2>3, AcquiredFacts
  <2>6. a \in [pos : 1..(Len(t) + 1), val : Values, good : BOOLEAN, rows : Tables,
               cells : Seq(Char), size : Nat, sane : BOOLEAN]
    BY <2>5 DEF LoopStates
  <2>7. \A y \in Word : y # p => a.rows[y] = s.rows[y]
    BY <1>5, <2>5 DEF Tables
  <2> HIDE DEF a
  <2>8. /\ Turn(t, s).pos = txt.pos /\ Turn(t, s).good = txt.whole
        /\ Turn(t, s).sane = a.sane /\ Turn(t, s).rows = a.rows
    BY <2>4, <2>6
  <2>9. AtEnd(t, Turn(t, s))
    <3>1. Len(t) \in Nat
      OBVIOUS
    <3>2. (Len(t) + 1)..Len(t) = {}
      BY <3>1
    <3> QED BY <2>3, <2>8, <3>2 DEF AtEnd
  <2> QED BY <1>10, <2>5, <2>7, <2>8, <2>9 DEF OneRow, d
<1>11. CASE k \in 2..(n + 1)
  <2>1. k - 1 \in 1..n /\ Len(t) = q + (k - 1)
    BY <1>2, <1>3, <1>11
  <2>2. \A i \in 1..(k - 1) : t[q + i] = d[i]
    <3> TAKE i \in 1..(k - 1)
    <3>1. i + 1 \in 1..k /\ i \in 1..n /\ q + ((i + 1) - 1) = q + i
      BY <1>2, <1>3, <1>11
    <3> QED BY <1>1, <1>2, <3>1
  <2>3. PICK p \in 0..o :
          /\ p \in Word /\ IsPrefix(Numeral[p], d)
          /\ Extracted(t, q + 1) = [ok |-> TRUE, pos |-> Len(t) + 1, val |-> p]
    BY <1>2, <2>1, <2>2, NumberCut DEF d
  <2>4. p # Span - 1
    BY <1>7
  <2>5. PastTab(t, Len(t) + 1) = Len(t) + 1 /\ Len(t) + 1 \in 1..(Len(t) + 1)
    BY DEF PastTab
  <2>6. ~ReadText(t, Len(t) + 1, s.val).whole
    BY <1>5, NoTextRead
  <2> QED BY <1>10, <2>3, <2>4, <2>5, <2>6
<1>12. CASE k > n + 1
  <2> DEFINE x == q + n + 1
  <2>1. x \in 1..Len(t) /\ x \in 1..(Len(t) + 1)
    BY <1>2, <1>3, <1>12
  <2>2. t[x] = "\t"
    <3>1. n + 2 \in 1..k /\ q + ((n + 2) - 1) = x
      BY <1>2, <1>3, <1>12
    <3> QED BY <1>1, <1>2, <3>1
  <2>3. Stands(t, q + 1, d)
    <3>1. ASSUME NEW i \in 1..n PROVE t[(q + 1) + (i - 1)] = d[i]
      <4>1. i + 1 \in 1..k /\ q + ((i + 1) - 1) = (q + 1) + (i - 1)
        BY <1>2, <1>3, <1>12
      <4> QED BY <1>1, <1>2, <4>1
    <3> QED BY <1>2, <1>3, <1>12, <3>1 DEF Stands
  <2>4. Extracted(t, q + 1) = [ok |-> TRUE, pos |-> x, val |-> o]
    <3>1. (q + 1) + n = x
      BY <1>2, <1>3
    <3>2. t[(q + 1) + n] \in Signs
      BY <2>2, <3>1 DEF Signs
    <3> HIDE DEF x
    <3> QED BY <2>3, <3>1, <3>2, NumberRead DEF d
  <2>5. IsPrefix(Numeral[o], d)
    BY <1>3 DEF IsPrefix, d
  <2>6. PastTab(t, x) = x + 1
    BY <2>1, <2>2 DEF PastTab
  <2>7. LET txt == ReadText(t, PastTab(t, x), s.val)
        IN  ~txt.whole \/ txt.pos = Len(t) + 1
    <3> DEFINE got == Characters(t, x + 1)
    <3>1. Len(t) <= x + Width
      BY <1>1, <1>2, <1>3
    <3>2. got = SubSeq(t, x + 1, Len(t))
      <4> HIDE DEF x
      <4>1. (x + 1) + Width - 1 <= Len(t) => (x + 1) + Width - 1 = Len(t)
        BY <1>3, <2>1, <3>1
      <4> QED BY <4>1 DEF Characters
    <3>3. Len(got) = (Len(t) - (x + 1)) + 1
      <4>1. x + 1 \in Int /\ Len(t) \in Int /\ x + 1 <= Len(t) + 1 /\ x + 1 >= 1
        BY <2>1
      <4>2. \A i \in (x + 1)..Len(t) : t[i] \in Char
        BY <4>1
      <4> HIDE DEF x
      <4>3. Len(SubSeq(t, x + 1, Len(t)))
              = IF x + 1 <= Len(t) THEN Len(t) - (x + 1) + 1 ELSE 0
        BY <4>1, <4>2, SubSeqProperties
      <4> HIDE DEF got
      <4> QED BY <3>2, <4>1, <4>3
    <3> HIDE DEF got
    <3>4. (x + 1) + Len(got) = Len(t) + 1
      BY <2>1, <3>3
    <3>5. ReadText(t, x + 1, s.val).pos = (x + 1) + Len(got)
      BY DEF ReadText, got
    <3> QED BY <2>6, <3>4, <3>5
  <2> HIDE DEF x
  <2> QED BY <1>10, <2>1, <2>4, <2>5, <2>7
<1> QED BY <1>2, <1>3, <1>9, <1>11, <1>12

(* A '-' record that breaks off takes one row out.                          *)
LEMMA MinusBroken ==
  ASSUME NEW t \in Seq(Char), NEW s \in LoopStates(t), NEW q, GoesOnAt(t, s, q),
         NEW o \in Word, o < s.size, NEW k, EndsWithPart(t, q, MinusRecord(o), k)
  PROVE  LET a == Turn(t, s)
         IN  a.sane /\ AtEnd(t, a) /\ OneRow(s.rows, a.rows, o)
<1> DEFINE d == Numeral[o]
           n == Len(d)
           w == MinusRecord(o)
<1>1. /\ w \in Seq(Char) /\ Len(w) = n + 2
      /\ w[1] = "-" /\ \A i \in 1..n : w[i + 1] = d[i]
  BY MinusRecordFacts
<1>2. /\ q \in Nat /\ q > 0 /\ Len(t) = q + (k - 1) /\ k \in 1..(Len(w) - 1)
      /\ \A i \in 1..k : t[q + (i - 1)] = w[i]
  BY DEF EndsWithPart
<1>3. n \in Nat /\ n > 0 /\ d \in Seq(Char)
  BY NumeralChars
<1>4. Turn(t, s) = TurnRecord(t, t[q], Extracted(t, q + 1), s)
  BY TurnHere
<1>5. s.sane /\ s.good /\ s.rows \in Tables /\ s.size \in Nat
  BY DEF LoopStates, GoesOnAt
<1>6. s \in [pos : 1..(Len(t) + 1), val : Values, good : BOOLEAN, rows : Tables,
             cells : Seq(Char), size : Nat, sane : BOOLEAN]
  BY DEF LoopStates
<1>7. o \in Nat
  BY Constants DEF Word
<1> HIDE DEF w, d
<1>8. t[q] = "-"
  <2>1. 1 \in 1..k /\ q + (1 - 1) = q
    BY <1>1, <1>2, <1>3
  <2> QED BY <1>1, <1>2, <2>1
<1>9. CASE k = 1
  <2>1. ~Extracted(t, q + 1).ok
    <3>1. q + 1 = Len(t) + 1
      BY <1>2, <1>9
    <3> QED BY <3>1, NoNumber
  <2>2. Turn(t, s) = [s EXCEPT !.good = FALSE]
    BY <1>4, <2>1 DEF TurnRecord
  <2>3. Turn(t, s).sane /\ ~Turn(t, s).good /\ Turn(t, s).rows = s.rows
    BY <1>5, <1>6, <2>2
  <2> QED BY <2>3, OwnRow DEF AtEnd
<1>10. CASE k \in 2..(n + 1)
  <2>1. k - 1 \in 1..n /\ Len(t) = q + (k - 1)
    BY <1>2, <1>3, <1>10
  <2>2. \A i \in 1..(k - 1) : t[q + i] = d[i]
    <3> TAKE i \in 1..(k - 1)
    <3>1. i + 1 \in 1..k /\ i \in 1..n /\ q + ((i + 1) - 1) = q + i
      BY <1>2, <1>3, <1>10
    <3> QED BY <1>1, <1>2, <3>1
  <2>3. PICK p \in 0..o :
          /\ p \in Word /\ IsPrefix(Numeral[p], d)
          /\ Extracted(t, q + 1) = [ok |-> TRUE, pos |-> Len(t) + 1, val |-> p]
    BY <1>2, <2>1, <2>2, NumberCut DEF d
  <2> DEFINE num == Extracted(t, q + 1)
             a == Released(s, p)
  <2>4. num.ok /\ num.pos = Len(t) + 1 /\ num.val = p
    BY <2>3
  <2> HIDE DEF num
  <2>5. Turn(t, s) = [a EXCEPT !.pos = Len(t) + 1]
    BY <1>4, <1>8, <2>4 DEF TurnRecord, num
  <2>6. p < s.size
    BY <1>5, <1>7
  <2>7. /\ a \in LoopStates(t) /\ a.sane
        /\ a.rows = [s.rows EXCEPT ![p] = NoRow]
    BY <1>5, <2>3, <2>6, ReleasedFacts
  <2>8. a \in [pos : 1..(Len(t) + 1), val : Values, good : BOOLEAN, rows : Tables,
               cells : Seq(Char), size : Nat, sane : BOOLEAN]
    BY <2>7 DEF LoopStates
  <2>9. \A y \in Word : y # p => a.rows[y] = s.rows[y]
    BY <1>5, <2>3, <2>7 DEF Tables
  <2> HIDE DEF a
  <2>10. /\ Turn(t, s).pos = Len(t) + 1
         /\ Turn(t, s).sane = a.sane /\ Turn(t, s).rows = a.rows
    BY <2>5, <2>8
  <2>11. AtEnd(t, Turn(t, s))
    <3>1. Len(t) \in Nat
      OBVIOUS
    <3>2. (Len(t) + 1)..Len(t) = {}
      BY <3>1
    <3> QED BY <2>10, <3>2 DEF AtEnd
  <2> QED BY <2>3, <2>7, <2>9, <2>10, <2>11 DEF OneRow, d
<1> QED BY <1>1, <1>2, <1>3, <1>9, <1>10

-----------------------------------------------------------------------------
(* The cells do not matter to the table. *)

(* Two states that differ in their cells only.                              *)
Alike(x, y) ==
  /\ x.pos = y.pos /\ x.val = y.val /\ x.good = y.good /\ x.rows = y.rows
  /\ x.size = y.size /\ x.sane = y.sane

(* A turn does not look at the cells.                                       *)
LEMMA AlikeTurn ==
  ASSUME NEW t \in Seq(Char), NEW x \in LoopStates(t), NEW y \in LoopStates(t), Alike(x, y)
  PROVE  Alike(Turn(t, x), Turn(t, y))
<1> DEFINE q == SkipSpace(t, x.pos)
           num == Extracted(t, q + 1)
           op == t[q]
           R == [pos : 1..(Len(t) + 1), val : Values, good : BOOLEAN, rows : Tables,
                 cells : Seq(Char), size : Nat, sane : BOOLEAN]
<1>1. x \in R /\ y \in R
  BY DEF LoopStates
<1>2. q = SkipSpace(t, y.pos)
  BY DEF Alike
<1>3. CASE ~(x.good /\ x.sane)
  <2>1. Turn(t, x) = x /\ Turn(t, y) = y
    BY <1>3 DEF Turn, Alike
  <2> QED BY <2>1
<1> HIDE DEF q
<1>4. ASSUME x.good, x.sane
      PROVE  Turn(t, x) = TurnAt(t, q, x) /\ Turn(t, y) = TurnAt(t, q, y)
  BY <1>2, <1>4 DEF Turn, Alike, q
<1>5. Alike([x EXCEPT !.good = FALSE], [y EXCEPT !.good = FALSE])
  BY <1>1 DEF Alike
<1>6. CASE x.good /\ x.sane /\ q > Len(t)
  BY <1>4, <1>5, <1>6 DEF TurnAt
<1>7. CASE x.good /\ x.sane /\ ~(q > Len(t))
  <2>1. /\ Turn(t, x) = TurnRecord(t, op, num, x)
        /\ Turn(t, y) = TurnRecord(t, op, num, y)
    BY <1>4, <1>7 DEF TurnAt
  <2> HIDE DEF num, op
  <2>2. CASE ~num.ok
    BY <1>5, <2>1, <2>2 DEF TurnRecord
  <2>3. CASE num.ok /\ op = "+"
    <3> DEFINE txt == ReadText(t, PastTab(t, num.pos), x.val)
               a == Acquired(x, num.val, txt.text)
               b == Acquired(y, num.val, txt.text)
    <3>1. /\ TurnRecord(t, op, num, x) = TurnPlus(x, num.val, txt)
          /\ TurnRecord(t, op, num, y) = TurnPlus(y, num.val, txt)
      BY <2>3 DEF TurnRecord, Alike
    <3> HIDE DEF txt
    <3>2. Alike(a, b) /\ DOMAIN a = DOMAIN x /\ DOMAIN b = DOMAIN y
      <4>1. CASE num.val = Span - 1
        <5>1. a = [x EXCEPT !.sane = FALSE] /\ b = [y EXCEPT !.sane = FALSE]
          BY <4>1 DEF Acquired
        <5> QED BY <1>1, <5>1 DEF Alike
      <4>2. CASE num.val # Span - 1
        <5> DEFINE n == IF x.size <= num.val THEN num.val + 1 ELSE x.size
                   r == [x.rows EXCEPT ![num.val] = txt.text]
                   c == Stored(x.cells, num.val, txt.text)
                   d == Stored(y.cells, num.val, txt.text)
        <5>1. /\ a = [x EXCEPT !.size = n, !.rows = r, !.cells = c]
              /\ b = [y EXCEPT !.size = n, !.rows = r, !.cells = d]
          BY <4>2 DEF Acquired, Alike
        <5> HIDE DEF a, b, n, r, c, d
        <5> QED BY <1>1, <5>1 DEF Alike
      <4> QED BY <4>1, <4>2
    <3> HIDE DEF a, b
    <3>3. Alike([a EXCEPT !.pos = txt.pos, !.val = txt.text, !.good = txt.whole],
                [b EXCEPT !.pos = txt.pos, !.val = txt.text, !.good = txt.whole])
      BY <1>1, <3>2 DEF Alike
    <3> QED BY <2>1, <3>1, <3>3 DEF TurnPlus, a, b
  <2>4. CASE num.ok /\ op = "-"
    <3> DEFINE a == Released(x, num.val)
               b == Released(y, num.val)
    <3>1. /\ TurnRecord(t, op, num, x) = [a EXCEPT !.pos = num.pos]
          /\ TurnRecord(t, op, num, y) = [b EXCEPT !.pos = num.pos]
      BY <2>4 DEF TurnRecord
    <3>2. Alike(a, b) /\ DOMAIN a = DOMAIN x /\ DOMAIN b = DOMAIN y
      <4>1. CASE num.val < x.size
        <5> DEFINE r == [x.rows EXCEPT ![num.val] = NoRow]
        <5>1. a = [x EXCEPT !.rows = r] /\ b = [y EXCEPT !.rows = r]
          BY <4>1 DEF Released, Alike
        <5> HIDE DEF a, b, r
        <5> QED BY <1>1, <5>1 DEF Alike
      <4>2. CASE ~(num.val < x.size)
        <5>1. a = [x EXCEPT !.sane = FALSE] /\ b = [y EXCEPT !.sane = FALSE]
          BY <4>2 DEF Released, Alike
        <5> QED BY <1>1, <5>1 DEF Alike
      <4> QED BY <4>1, <4>2
    <3> HIDE DEF a, b
    <3>3. Alike([a EXCEPT !.pos = num.pos], [b EXCEPT !.pos = num.pos])
      BY <1>1, <3>2 DEF Alike
    <3> QED BY <2>1, <3>1, <3>3
  <2>5. CASE num.ok /\ op \notin {"+", "-"}
    <3>1. /\ TurnRecord(t, op, num, x) = [x EXCEPT !.pos = num.pos]
          /\ TurnRecord(t, op, num, y) = [y EXCEPT !.pos = num.pos]
      BY <2>5 DEF TurnRecord
    <3>2. Alike([x EXCEPT !.pos = num.pos], [y EXCEPT !.pos = num.pos])
      BY <1>1 DEF Alike
    <3> QED BY <2>1, <3>1, <3>2
  <2> QED BY <2>2, <2>3, <2>4, <2>5
<1> QED BY <1>3, <1>6, <1>7

(* What the replay makes of a log is the same whatever is in the array      *)
(* file, lost, half written or of another run.                              *)
THEOREM TableFromLogAlone ==
  ASSUME NEW t \in Seq(Char), NEW c \in Seq(Char), NEW d \in Seq(Char)
  PROVE  /\ Replay(t, c).rows = Replay(t, d).rows
         /\ Replay(t, c).sane = Replay(t, d).sane
<1> DEFINE N == Len(t)
           f == Turns(t, c)
           g == Turns(t, d)
           B == {n \in Nat : Alike(f[n], g[n])}
<1>1. Follows(f, t, c) /\ Follows(g, t, d) /\ N \in Nat
  BY TurnsFollow
<1> HIDE DEF f, g
<1>2. 0 \in B
  <2>1. f[0] = Start(c) /\ g[0] = Start(d)
    BY <1>1 DEF Follows
  <2>2. Alike(Start(c), Start(d))
    BY DEF Start, Alike
  <2> QED BY <2>1, <2>2
<1>3. ASSUME NEW n \in 1..N, n - 1 \in B PROVE n \in B
  <2>1. n - 1 \in 0..N /\ n \in Nat /\ N = Len(t)
    BY <1>1
  <2> HIDE DEF N
  <2>2. /\ f[n - 1] \in LoopStates(t) /\ g[n - 1] \in LoopStates(t)
        /\ f[n] = Turn(t, f[n - 1]) /\ g[n] = Turn(t, g[n - 1])
    BY <1>1, <2>1 DEF Follows
  <2>3. Alike(f[n - 1], g[n - 1])
    BY <1>3
  <2>4. Alike(f[n], g[n])
    BY <2>2, <2>3, AlikeTurn
  <2> QED BY <2>1, <2>4
<1>4. \A n \in 0..N : n \in B
  <2>1. B \in SUBSET Nat
    OBVIOUS
  <2> HIDE DEF B, N
  <2> QED BY <1>1, <1>2, <1>3, <2>1, Throughout
<1>5. Alike(f[N], g[N])
  <2>1. N \in 0..N
    BY <1>1
  <2> QED BY <1>4, <2>1
<1> QED BY <1>1, <1>5 DEF Follows, Alike

-----------------------------------------------------------------------------
(* How far the records written so far lead, whatever comes behind them. *)

(* x is where the loop is at s, with some cells.                            *)
InLine(x, s) ==
  /\ x.good /\ x.sane
  /\ x.pos = s.pos /\ x.val = s.val /\ x.rows = s.rows /\ x.size = s.size

(* Over every text that begins with l the loop comes to s, with no more     *)
(* than white space of l to read.                                           *)
Reads(l, s) ==
  /\ s \in [pos : 1..(Len(l) + 1), val : Values, rows : Tables, size : Nat]
  /\ \A i \in (s.pos)..Len(l) : IsSpace(l[i])
  /\ \A o \in Word : s.rows[o] # NoRow => o < s.size
  /\ \A u, c \in Seq(Char) : \E m \in 0..Len(l) : InLine(Turns(l \o u, c)[m], s)

(* An empty log reads as an empty table.                                    *)
LEMMA EmptyReads ==
  Reads(<<>>, [pos |-> 1, val |-> Zeros, rows |-> [o \in Word |-> NoRow], size |-> InitSize])
<1> DEFINE r == [o \in Word |-> NoRow]
           s == [pos |-> 1, val |-> Zeros, rows |-> r, size |-> InitSize]
<1>1. r \in Tables /\ \A o \in Word : r[o] = NoRow
  BY DEF Tables
<1>2. ASSUME NEW u \in Seq(Char), NEW c \in Seq(Char)
      PROVE  \E m \in 0..0 : InLine(Turns(<<>> \o u, c)[m], s)
  <2> DEFINE t == <<>> \o u
  <2>1. t \in Seq(Char)
    BY ConcatEmptySeq
  <2>2. Follows(Turns(t, c), t, c)
    BY <2>1, TurnsFollow
  <2>3. Turns(t, c)[0] = Start(c)
    BY <2>2 DEF Follows
  <2>4. InLine(Start(c), s)
    BY DEF InLine, Start
  <2> QED BY <2>3, <2>4
<1> HIDE DEF r
<1>3. s \in [pos : 1..(0 + 1), val : Values, rows : Tables, size : Nat]
  BY <1>1, ZerosFacts, Constants
<1>4. s.rows = r /\ s.pos = 1 /\ (s.pos)..0 = {}
  OBVIOUS
<1>5. Len(<<>>) = 0
  BY EmptySeq
<1> HIDE DEF s
<1> QED BY <1>1, <1>2, <1>3, <1>4, <1>5 DEF Reads, s, r

(* After m turns the loop is at s, and the next turn is at the characters w *)
(* behind l.                                                                *)
Onward(l, w, c, s, m) ==
  LET x == Turns(l \o w, c)[m]
  IN  /\ x \in LoopStates(l \o w) /\ InLine(x, s)
      /\ GoesOnAt(l \o w, x, Len(l) + 1)
      /\ m + 1 \in 1..Len(l \o w)
      /\ Turns(l \o w, c)[m + 1] = Turn(l \o w, x)

(* One more turn of the loop, over one more record.                         *)
LEMMA ReadsOn ==
  ASSUME NEW l \in Seq(Char), NEW s, Reads(l, s), NEW c \in Seq(Char),
         NEW w \in Seq(Char), Len(w) > 0, ~IsSpace(w[1])
  PROVE  \E m \in 0..Len(l) : Onward(l, w, c, s, m)
<1> DEFINE t == l \o w
           f == Turns(t, c)
           q == Len(l) + 1
<1>1. /\ t \in Seq(Char) /\ Len(t) = Len(l) + Len(w) /\ Len(l) \in Nat /\ Len(w) \in Nat
      /\ t[q] = w[1] /\ \A i \in 1..Len(l) : t[i] = l[i]
  OBVIOUS
<1>2. Follows(f, t, c)
  BY <1>1, TurnsFollow
<1>3. PICK m \in 0..Len(l) : InLine(f[m], s)
  BY DEF Reads
<1>4. /\ s.pos \in 1..(Len(l) + 1) /\ \A i \in (s.pos)..Len(l) : IsSpace(l[i])
  BY DEF Reads
<1> HIDE DEF t, f
<1>5. m \in 0..Len(t) /\ m + 1 \in 1..Len(t) /\ (m + 1) - 1 = m
  BY <1>1
<1>6. f[m] \in LoopStates(t) /\ f[m + 1] = Turn(t, f[m])
  BY <1>2, <1>5 DEF Follows
<1>7. GoesOnAt(t, f[m], q)
  <2>1. f[m].pos = s.pos /\ f[m].good /\ f[m].sane
    BY <1>3 DEF InLine
  <2>2. q \in (s.pos)..Len(t) /\ \A r \in (s.pos)..(q - 1) : IsSpace(t[r])
    BY <1>1, <1>4
  <2> QED BY <1>1, <2>1, <2>2 DEF GoesOnAt
<1> QED BY <1>3, <1>5, <1>6, <1>7 DEF Onward, t, f, q

(* A record that is appended stands behind what was there.                  *)
LEMMA ConcatStands ==
  ASSUME NEW l \in Seq(Char), NEW w \in Seq(Char), NEW u \in Seq(Char)
  PROVE  /\ (l \o w) \o u = l \o (w \o u)
         /\ Stands(l \o (w \o u), Len(l) + 1, w)
<1> DEFINE t == l \o (w \o u)
<1>1. (l \o w) \o u = t
  BY ConcatAssociative
<1>2. /\ Len(l) \in Nat /\ Len(w) \in Nat /\ Len(u) \in Nat
      /\ Len(t) = Len(l) + Len(w) + Len(u)
      /\ \A i \in 1..Len(w) : t[(Len(l) + 1) + (i - 1)] = w[i]
  OBVIOUS
<1> HIDE DEF t
<1>3. Stands(t, Len(l) + 1, w)
  BY <1>2 DEF Stands
<1> QED BY <1>1, <1>3 DEF t

(* One more '+' record.                                                     *)
LEMMA ReadsPlus ==
  ASSUME NEW l \in Seq(Char), NEW s, Reads(l, s),
         NEW o \in Word, o # Span - 1, NEW v \in Values
  PROVE  \E z : /\ Reads(l \o PlusRecord(o, v), z)
                /\ z.rows = [s.rows EXCEPT ![o] = v]
<1> DEFINE w == PlusRecord(o, v)
           r == [s.rows EXCEPT ![o] = v]
           n == IF s.size <= o THEN o + 1 ELSE s.size
           z == [pos |-> Len(l) + Len(w), val |-> v, rows |-> r, size |-> n]
           k == l \o w
<1>1. w \in Seq(Char) /\ Len(w) > 0 /\ w[1] = "+" /\ w[Len(w)] = "\n"
  <2>1. Len(Numeral[o]) \in Nat /\ Width \in Nat
    BY NumeralChars, Constants
  <2> QED BY <2>1, PlusRecordFacts
<1>2. s \in [pos : 1..(Len(l) + 1), val : Values, rows : Tables, size : Nat]
  BY DEF Reads
<1>3. r \in Tables /\ n \in Nat /\ \A x \in Word : r[x] # NoRow => x < n
  <2>1. o \in Nat
    BY Constants DEF Word
  <2>2. r \in Tables
    BY <1>2 DEF Tables
  <2>3. ASSUME NEW x \in Word, r[x] # NoRow PROVE x < n
    <3>1. CASE x = o
      BY <1>2, <2>1, <3>1
    <3>2. CASE x # o
      <4>1. s.rows[x] # NoRow
        BY <1>2, <2>3, <3>2 DEF Tables
      <4>2. x < s.size /\ x \in Nat /\ s.size \in Nat
        BY <1>2, <4>1, Constants DEF Reads, Word
      <4> QED BY <2>1, <4>2
    <3> QED BY <3>1, <3>2
  <2> HIDE DEF r
  <2> QED BY <1>2, <2>1, <2>2, <2>3
<1> HIDE DEF w, r, n
<1>4. k \in Seq(Char) /\ Len(k) = Len(l) + Len(w) /\ k[Len(k)] = "\n"
  BY <1>1
<1>5. z \in [pos : 1..(Len(k) + 1), val : Values, rows : Tables, size : Nat]
  <2>1. Len(l) + Len(w) \in 1..(Len(k) + 1)
    BY <1>1, <1>4
  <2> QED BY <1>3, <2>1
<1>6. \A i \in (z.pos)..Len(k) : IsSpace(k[i])
  <2>1. \A i \in (z.pos)..Len(k) : i = Len(k)
    BY <1>4
  <2> QED BY <1>4, <2>1 DEF IsSpace
<1>7. ASSUME NEW u \in Seq(Char), NEW c \in Seq(Char)
      PROVE  \E m \in 0..Len(k) : InLine(Turns(k \o u, c)[m], z)
  <2> DEFINE e == w \o u
             t == l \o e
  <2>1. e \in Seq(Char) /\ Len(e) > 0 /\ ~IsSpace(e[1])
    BY <1>1 DEF IsSpace
  <2>2. k \o u = t /\ Stands(t, Len(l) + 1, w)
    BY <1>1, ConcatStands
  <2> HIDE DEF e
  <2>3. PICK m \in 0..Len(l) : Onward(l, e, c, s, m)
    BY <2>1, ReadsOn
  <2>4. t \in Seq(Char)
    BY <2>1
  <2> DEFINE x == Turns(t, c)[m]
             a == Turns(t, c)[m + 1]
             q == Len(l) + 1
  <2> HIDE DEF t, x, a, q
  <2>5. /\ x \in LoopStates(t) /\ InLine(x, s) /\ GoesOnAt(t, x, q)
        /\ a = Turn(t, x) /\ Stands(t, q, w)
    BY <2>2, <2>3 DEF Onward, t, x, a, q
  <2>6. /\ a.pos = (q + Len(w)) - 1 /\ a.val = v /\ a.good /\ a.sane
        /\ a.rows = [x.rows EXCEPT ![o] = v]
        /\ a.size = IF x.size <= o THEN o + 1 ELSE x.size
    BY <2>4, <2>5, PlusTurn DEF w
  <2>7. (q + Len(w)) - 1 = Len(l) + Len(w) /\ x.rows = s.rows /\ x.size = s.size
    BY <1>1, <2>5 DEF q, InLine
  <2>8. InLine(a, z)
    BY <2>6, <2>7 DEF InLine, r, n
  <2>9. m + 1 \in 0..Len(k)
    BY <1>1, <1>4
  <2> QED BY <2>2, <2>8, <2>9 DEF a
<1>8. z.rows = r /\ z.size = n
  OBVIOUS
<1> HIDE DEF z, k
<1>9. Reads(k, z)
  BY <1>3, <1>5, <1>6, <1>7, <1>8 DEF Reads
<1> QED BY <1>8, <1>9 DEF k, w, r

(* One more '-' record, of an offset that has a row.                        *)
LEMMA ReadsMinus ==
  ASSUME NEW l \in Seq(Char), NEW s, Reads(l, s), NEW o \in Word, s.rows[o] # NoRow
  PROVE  \E z : /\ Reads(l \o MinusRecord(o), z)
                /\ z.rows = [s.rows EXCEPT ![o] = NoRow]
<1> DEFINE w == MinusRecord(o)
           r == [s.rows EXCEPT ![o] = NoRow]
           z == [pos |-> Len(l) + Len(w), val |-> s.val, rows |-> r, size |-> s.size]
           k == l \o w
<1>1. w \in Seq(Char) /\ Len(w) > 0 /\ w[1] = "-" /\ w[Len(w)] = "\n"
  <2>1. Len(Numeral[o]) \in Nat
    BY NumeralChars
  <2> QED BY <2>1, MinusRecordFacts
<1>2. /\ s \in [pos : 1..(Len(l) + 1), val : Values, rows : Tables, size : Nat]
      /\ \A x \in Word : s.rows[x] # NoRow => x < s.size
  BY DEF Reads
<1>3. r \in Tables /\ \A x \in Word : r[x] # NoRow => x < s.size
  BY <1>2 DEF Tables
<1> HIDE DEF w, r
<1>4. k \in Seq(Char) /\ Len(k) = Len(l) + Len(w) /\ k[Len(k)] = "\n"
  BY <1>1
<1>5. z \in [pos : 1..(Len(k) + 1), val : Values, rows : Tables, size : Nat]
  <2>1. Len(l) + Len(w) \in 1..(Len(k) + 1)
    BY <1>1, <1>4
  <2> QED BY <1>2, <1>3, <2>1
<1>6. \A i \in (z.pos)..Len(k) : IsSpace(k[i])
  <2>1. \A i \in (z.pos)..Len(k) : i = Len(k)
    BY <1>4
  <2> QED BY <1>4, <2>1 DEF IsSpace
<1>7. ASSUME NEW u \in Seq(Char), NEW c \in Seq(Char)
      PROVE  \E m \in 0..Len(k) : InLine(Turns(k \o u, c)[m], z)
  <2> DEFINE e == w \o u
             t == l \o e
  <2>1. e \in Seq(Char) /\ Len(e) > 0 /\ ~IsSpace(e[1])
    BY <1>1 DEF IsSpace
  <2>2. k \o u = t /\ Stands(t, Len(l) + 1, w)
    BY <1>1, ConcatStands
  <2> HIDE DEF e
  <2>3. PICK m \in 0..Len(l) : Onward(l, e, c, s, m)
    BY <2>1, ReadsOn
  <2>4. t \in Seq(Char)
    BY <2>1
  <2> DEFINE x == Turns(t, c)[m]
             a == Turns(t, c)[m + 1]
             q == Len(l) + 1
  <2> HIDE DEF t, x, a, q
  <2>5. /\ x \in LoopStates(t) /\ InLine(x, s) /\ GoesOnAt(t, x, q)
        /\ a = Turn(t, x) /\ Stands(t, q, w)
    BY <2>2, <2>3 DEF Onward, t, x, a, q
  <2>6. x.rows = s.rows /\ x.size = s.size /\ x.val = s.val /\ o < x.size
    BY <1>2, <2>5 DEF InLine
  <2>7. /\ a.pos = (q + Len(w)) - 1 /\ a.val = x.val /\ a.good /\ a.sane
        /\ a.rows = [x.rows EXCEPT ![o] = NoRow]
        /\ a.size = x.size
    <3>1. Stands(t, q, MinusRecord(o)) /\ o < x.size
      BY <2>5, <2>6 DEF w
    <3>2. LET y == Turn(t, x)
          IN  /\ y.pos = (q + Len(MinusRecord(o))) - 1 /\ y.val = x.val /\ y.good /\ y.sane
              /\ y.rows = [x.rows EXCEPT ![o] = NoRow]
              /\ y.size = x.size
      <4> HIDE DEF k, z
      <4> QED BY <2>4, <2>5, <3>1, MinusTurn
    <3> QED BY <2>5, <3>2 DEF w
  <2>8. (q + Len(w)) - 1 = Len(l) + Len(w)
    BY <1>1 DEF q
  <2>9. InLine(a, z)
    BY <2>6, <2>7, <2>8 DEF InLine, r
  <2>10. m + 1 \in 0..Len(k)
    BY <1>1, <1>4
  <2> QED BY <2>2, <2>9, <2>10 DEF a
<1>8. z.rows = r /\ z.size = s.size
  OBVIOUS
<1> HIDE DEF z, k
<1>9. Reads(k, z)
  BY <1>3, <1>5, <1>6, <1>7, <1>8 DEF Reads
<1> QED BY <1>8, <1>9 DEF k, w, r

(* A log of whole records is read to its end.                               *)
LEMMA ReadsWhole ==
  ASSUME NEW l \in Seq(Char), NEW s, Reads(l, s), NEW c \in Seq(Char)
  PROVE  Replay(l, c).sane /\ Replay(l, c).rows = s.rows
<1>1. <<>> \in Seq(Char) /\ l \o <<>> = l
  BY ConcatEmptySeq
<1>2. PICK m \in 0..Len(l) : InLine(Turns(l, c)[m], s)
  BY <1>1 DEF Reads
<1>3. AtEnd(l, Turns(l, c)[m])
  BY <1>2 DEF AtEnd, InLine, Reads
<1>4. /\ Replay(l, c).rows = Turns(l, c)[m].rows
      /\ Replay(l, c).sane = Turns(l, c)[m].sane
  BY <1>3, ReplayEnds
<1> QED BY <1>2, <1>4 DEF InLine

(* The beginning of a record behind l.                                      *)
LEMMA PartStands ==
  ASSUME NEW l \in Seq(Char), NEW w \in Seq(Char), NEW k \in 1..(Len(w) - 1)
  PROVE  LET e == SubSeq(w, 1, k)
         IN  /\ e \in Seq(Char) /\ Len(e) > 0 /\ e[1] = w[1]
             /\ l \o e \in Seq(Char)
             /\ EndsWithPart(l \o e, Len(l) + 1, w, k)
<1> DEFINE e == SubSeq(w, 1, k)
           t == l \o e
<1>1. /\ e \in Seq(Char) /\ Len(e) = k /\ \A i \in 1..k : e[i] = w[i]
      /\ k \in Nat /\ k > 0 /\ Len(l) \in Nat
  OBVIOUS
<1> HIDE DEF e
<1>2. /\ t \in Seq(Char) /\ Len(t) = Len(l) + k
      /\ \A i \in 1..k : t[(Len(l) + 1) + (i - 1)] = e[i]
  <2>1. l \in Seq(Char) /\ e \in Seq(Char) /\ Len(e) = k /\ k \in Nat
    BY <1>1
  <2>2. t \in Seq(Char) /\ Len(t) = Len(l) + Len(e)
    BY <2>1, ConcatProperties
  <2>3. \A i \in 1..k : t[(Len(l) + 1) + (i - 1)] = e[i]
    <3> TAKE i \in 1..k
    <3>1. (Len(l) + 1) + (i - 1) = Len(l) + i /\ i \in 1..Len(e)
      BY <1>1
    <3>2. t[Len(l) + i] = e[i]
      BY <2>1, <3>1
    <3> QED BY <3>1, <3>2
  <2> QED BY <2>1, <2>2, <2>3
<1> HIDE DEF t
<1>3. EndsWithPart(t, Len(l) + 1, w, k)
  BY <1>1, <1>2 DEF EndsWithPart
<1>4. e[1] = w[1]
  BY <1>1
<1> QED BY <1>1, <1>2, <1>3, <1>4 DEF t, e

(* A record that breaks off behind whole ones costs one row at most.        *)
LEMMA ReadsPlusPart ==
  ASSUME NEW l \in Seq(Char), NEW s, Reads(l, s), NEW c \in Seq(Char),
         NEW o \in Word, o # Span - 1, NEW v \in Values,
         NEW k \in 1..(Len(PlusRecord(o, v)) - 1)
  PROVE  LET a == Replay(l \o SubSeq(PlusRecord(o, v), 1, k), c)
         IN  a.sane /\ OneRow(s.rows, a.rows, o)
<1> DEFINE w == PlusRecord(o, v)
           e == SubSeq(w, 1, k)
           t == l \o e
           q == Len(l) + 1
<1>1. w \in Seq(Char) /\ w[1] = "+" /\ k \in 1..(Len(w) - 1)
  BY PlusRecordFacts
<1> HIDE DEF w
<1>2. /\ e \in Seq(Char) /\ Len(e) > 0 /\ e[1] = w[1] /\ t \in Seq(Char)
      /\ EndsWithPart(t, q, w, k)
  BY <1>1, PartStands
<1> HIDE DEF e
<1>3. PICK m \in 0..Len(l) : Onward(l, e, c, s, m)
  <2>1. ~IsSpace(e[1])
    BY <1>1, <1>2 DEF IsSpace
  <2> QED BY <1>2, <2>1, ReadsOn
<1> DEFINE x == Turns(t, c)[m]
           a == Turns(t, c)[m + 1]
<1> HIDE DEF t, q, x, a
<1>4. /\ x \in LoopStates(t) /\ InLine(x, s) /\ GoesOnAt(t, x, q)
      /\ a = Turn(t, x) /\ m + 1 \in 1..Len(t)
  BY <1>3 DEF Onward, t, q, x, a
<1>5. a.sane /\ AtEnd(t, a) /\ OneRow(x.rows, a.rows, o)
  BY <1>2, <1>4, PlusBroken DEF w
<1>6. x.rows = s.rows
  BY <1>4 DEF InLine
<1>7. Replay(t, c).rows = a.rows /\ Replay(t, c).sane = a.sane
  <2>1. m + 1 \in 0..Len(t) /\ AtEnd(t, Turns(t, c)[m + 1])
    BY <1>4, <1>5 DEF a
  <2> QED BY <1>2, <2>1, ReplayEnds DEF a
<1> QED BY <1>5, <1>6, <1>7 DEF t, e, w

(* The same of a '-' record.                                                *)
LEMMA ReadsMinusPart ==
  ASSUME NEW l \in Seq(Char), NEW s, Reads(l, s), NEW c \in Seq(Char),
         NEW o \in Word, s.rows[o] # NoRow, NEW k \in 1..(Len(MinusRecord(o)) - 1)
  PROVE  LET a == Replay(l \o SubSeq(MinusRecord(o), 1, k), c)
         IN  a.sane /\ OneRow(s.rows, a.rows, o)
<1> DEFINE w == MinusRecord(o)
           e == SubSeq(w, 1, k)
           t == l \o e
           q == Len(l) + 1
<1>1. w \in Seq(Char) /\ w[1] = "-" /\ k \in 1..(Len(w) - 1)
  BY MinusRecordFacts
<1> HIDE DEF w
<1>2. /\ e \in Seq(Char) /\ Len(e) > 0 /\ e[1] = w[1] /\ t \in Seq(Char)
      /\ EndsWithPart(t, q, w, k)
  BY <1>1, PartStands
<1> HIDE DEF e
<1>3. PICK m \in 0..Len(l) : Onward(l, e, c, s, m)
  <2>1. ~IsSpace(e[1])
    BY <1>1, <1>2 DEF IsSpace
  <2> QED BY <1>2, <2>1, ReadsOn
<1> DEFINE x == Turns(t, c)[m]
           a == Turns(t, c)[m + 1]
<1> HIDE DEF t, q, x, a
<1>4. /\ x \in LoopStates(t) /\ InLine(x, s) /\ GoesOnAt(t, x, q)
      /\ a = Turn(t, x) /\ m + 1 \in 1..Len(t)
  BY <1>3 DEF Onward, t, q, x, a
<1>5. x.rows = s.rows /\ o < x.size
  BY <1>4 DEF InLine, Reads
<1>6. a.sane /\ AtEnd(t, a) /\ OneRow(x.rows, a.rows, o)
  BY <1>2, <1>4, <1>5, MinusBroken DEF w
<1>7. Replay(t, c).rows = a.rows /\ Replay(t, c).sane = a.sane
  <2>1. m + 1 \in 0..Len(t) /\ AtEnd(t, Turns(t, c)[m + 1])
    BY <1>4, <1>6 DEF a
  <2> QED BY <1>2, <2>1, ReplayEnds DEF a
<1> QED BY <1>5, <1>6, <1>7 DEF t, e, w

-----------------------------------------------------------------------------
(* The invariant. *)

(* The cell of a row holds its value, unless a commit of it has failed.     *)
Kept ==
  \A o \in Word : rows[o] # NoRow /\ o \notin torn =>
    Covers(cells, o) /\ CellAt(cells, o) = rows[o]

(* As long as no append broke off, the log leads to the table, whatever     *)
(* comes behind it.                                                         *)
WholeSoFar ==
  tears = 0 => /\ \E s : Reads(log, s) /\ s.rows = rows
               /\ held = LiveRows(rows)

(* When only the last append broke off, one row at most is at risk.         *)
PartAtEnd ==
  endsTorn /\ tears = 1 =>
    /\ Reopened.sane
    /\ Reopened.rows = rows \/ \E o \in torn : OneRow(rows, Reopened.rows, o)

LogInv ==
  /\ TypeOK /\ rows \in Tables
  /\ Kept
  /\ WholeSoFar
  /\ PartAtEnd

(* A row of the table is missing or as wide as a value.                     *)
LEMMA TablesTyped ==
  ASSUME NEW r \in Tables
  PROVE  /\ \A o \in Word : r[o] = NoRow \/ Len(r[o]) = Width
         /\ LiveRows(r) \subseteq Word
         /\ \A o \in Word : o \in LiveRows(r) <=> r[o] # NoRow
<1>1. \A o \in Word : r[o] \in Values \cup {NoRow}
  BY DEF Tables
<1>2. DOMAIN r = Word
  BY DEF Tables
<1> QED BY <1>1, <1>2, ValueFacts DEF LiveRows

(* A new pool.                                                              *)
LEMMA InitInv == Init => LogInv
<1> SUFFICES ASSUME Init PROVE LogInv
  OBVIOUS
<1> DEFINE r == [o \in Word |-> NoRow]
           s == [pos |-> 1, val |-> Zeros, rows |-> r, size |-> InitSize]
<1>1. /\ log = <<>> /\ cells = <<>> /\ held = {} /\ torn = {} /\ rows = r
      /\ stuck = FALSE /\ endsTorn = FALSE /\ appends = 0 /\ tears = 0
  BY DEF Init
<1>2. r \in Tables /\ \A o \in Word : r[o] = NoRow
  BY DEF Tables
<1>3. Reads(<<>>, s) /\ s.rows = r
  BY EmptyReads
<1> HIDE DEF r, s
<1>4. TypeOK
  <2>1. <<>> \in Seq(Char) /\ 0 \in 0..MaxAppends /\ 0 \in 0..MaxTears
    BY LogAssumption
  <2> QED BY <1>1, <1>2, <2>1 DEF TypeOK
<1>5. Kept
  BY <1>1, <1>2 DEF Kept
<1>6. WholeSoFar
  BY <1>1, <1>2, <1>3, TablesTyped DEF WholeSoFar
<1>7. PartAtEnd
  BY <1>1 DEF PartAtEnd
<1> QED BY <1>1, <1>2, <1>4, <1>5, <1>6, <1>7 DEF LogInv

(* A cell is written, in whole or in part: no other changes.                *)
LEMMA StoreKeeps ==
  ASSUME LogInv, NEW o \in Word, NEW v \in Seq(Char), Len(v) <= Width,
         NEW p \in Word, p # o, rows[p] # NoRow, p \notin torn
  PROVE  /\ Covers(Stored(cells, o, v), p)
         /\ CellAt(Stored(cells, o, v), p) = rows[p]
<1>1. cells \in Seq(Char) /\ Covers(cells, p) /\ CellAt(cells, p) = rows[p]
  BY DEF LogInv, TypeOK, Kept
<1> QED BY <1>1, StoredFacts

(* What a client commits.                                                   *)
LEMMA Committed ==
  ASSUME NEW o \in Offs, NEW v \in Texts
  PROVE  /\ o \in Word /\ o # Span - 1
         /\ v \in Values /\ v \in Seq(Char) /\ Len(v) = Width /\ Len(v) <= Width
         /\ PlusRecord(o, v) \in Seq(Char)
<1>1. o \in Word /\ o # Span - 1 /\ v \in Values /\ Width \in Nat
  BY Constants
<1>2. v \in Seq(Char) /\ Len(v) = Width
  BY <1>1, ValueFacts
<1>3. PlusRecord(o, v) \in Seq(Char)
  BY <1>1, PlusRecordFacts
<1> QED BY <1>1, <1>2, <1>3

(* A commit: one more '+' record.                                           *)
LEMMA CommitKeeps ==
  ASSUME LogInv, NEW o \in Offs, NEW v \in Texts, Commit(o, v)
  PROVE  LogInv'
<1> DEFINE w == PlusRecord(o, v)
           c == Stored(cells, o, v)
           r == [rows EXCEPT ![o] = v]
<1>1. /\ o \in Word /\ o # Span - 1 /\ v \in Values /\ v \in Seq(Char)
      /\ Len(v) = Width /\ Len(v) <= Width /\ w \in Seq(Char)
  BY Committed
<1>2. /\ TypeOK /\ rows \in Tables /\ Kept /\ WholeSoFar
  BY DEF LogInv
<1>3. /\ log' = log \o w /\ cells' = c /\ held' = held \cup {o} /\ rows' = r
      /\ endsTorn' = FALSE /\ appends < MaxAppends /\ appends' = appends + 1
      /\ tears' = tears /\ torn' = torn /\ stuck' = stuck
  BY DEF Commit, AppendWhole
<1>4. c \in Seq(Char) /\ Covers(c, o) /\ CellAt(c, o) = v
  BY <1>1, <1>2, StoredFacts DEF TypeOK
<1>5. ASSUME NEW p \in Word, p # o, rows[p] # NoRow, p \notin torn
      PROVE  Covers(c, p) /\ CellAt(c, p) = rows[p]
  BY <1>1, <1>5, StoreKeeps
<1>6. /\ r \in Tables /\ r[o] = v /\ v # NoRow
      /\ \A p \in Word : p # o => r[p] = rows[p]
  BY <1>1, <1>2, ValueFacts DEF Tables
<1>7. (\E s : Reads(log, s) /\ s.rows = rows) => \E z : Reads(log \o w, z) /\ z.rows = r
  BY <1>1, <1>2, ReadsPlus DEF TypeOK
<1> HIDE DEF w, c, r
<1>8. TypeOK'
  <2>1. log' \in Seq(Char)
    BY <1>1, <1>2, <1>3 DEF TypeOK
  <2>2. appends' \in 0..MaxAppends
    BY <1>2, <1>3, LogAssumption DEF TypeOK
  <2>3. \A p \in Word : rows'[p] = NoRow \/ Len(rows'[p]) = Width
    BY <1>3, <1>6, TablesTyped
  <2> QED BY <1>1, <1>2, <1>3, <1>4, <2>1, <2>2, <2>3 DEF TypeOK
<1>9. Kept'
  BY <1>3, <1>4, <1>5, <1>6 DEF Kept
<1>10. WholeSoFar'
  <2>1. held = LiveRows(rows) => held \cup {o} = LiveRows(r)
    BY <1>1, <1>2, <1>6, TablesTyped
  <2> QED BY <1>2, <1>3, <1>7, <2>1 DEF WholeSoFar
<1>11. PartAtEnd'
  BY <1>3 DEF PartAtEnd
<1> QED BY <1>3, <1>6, <1>8, <1>9, <1>10, <1>11 DEF LogInv

(* A release: one more '-' record.                                          *)
LEMMA ReleaseKeeps ==
  ASSUME LogInv, NEW o \in held \cap Offs, ReleaseAndCommit(o)
  PROVE  LogInv'
<1> DEFINE w == MinusRecord(o)
           r == [rows EXCEPT ![o] = NoRow]
<1>1. o \in Word /\ w \in Seq(Char)
  BY Constants, MinusRecordFacts
<1>2. /\ TypeOK /\ rows \in Tables /\ Kept /\ WholeSoFar
  BY DEF LogInv
<1>3. /\ log' = log \o w /\ cells' = cells /\ held' = held \ {o} /\ rows' = r
      /\ endsTorn' = FALSE /\ appends < MaxAppends /\ appends' = appends + 1
      /\ tears' = tears /\ torn' = torn /\ stuck' = stuck
  BY DEF ReleaseAndCommit, AppendWhole
<1>4. /\ r \in Tables /\ r[o] = NoRow
      /\ \A p \in Word : p # o => r[p] = rows[p]
  BY <1>1, <1>2 DEF Tables
<1>5. held = LiveRows(rows) => rows[o] # NoRow
  BY <1>1, <1>2, TablesTyped
<1>6. (\E s : Reads(log, s) /\ s.rows = rows) /\ held = LiveRows(rows)
        => \E z : Reads(log \o w, z) /\ z.rows = r
  <2>1. ASSUME NEW s, Reads(log, s), s.rows = rows, rows[o] # NoRow
        PROVE  \E z : Reads(log \o w, z) /\ z.rows = r
    <3>1. log \in Seq(Char) /\ s.rows[o] # NoRow
      BY <1>2, <2>1 DEF TypeOK
    <3>2. \E z : Reads(log \o w, z) /\ z.rows = [s.rows EXCEPT ![o] = NoRow]
      BY <1>1, <2>1, <3>1, ReadsMinus
    <3> QED BY <2>1, <3>2
  <2> QED BY <1>5, <2>1
<1> HIDE DEF w, r
<1>7. TypeOK'
  <2>1. log' \in Seq(Char)
    BY <1>1, <1>2, <1>3 DEF TypeOK
  <2>2. appends' \in 0..MaxAppends
    BY <1>2, <1>3, LogAssumption DEF TypeOK
  <2>3. \A p \in Word : rows'[p] = NoRow \/ Len(rows'[p]) = Width
    BY <1>3, <1>4, TablesTyped
  <2> QED BY <1>2, <1>3, <2>1, <2>2, <2>3 DEF TypeOK
<1>8. Kept'
  BY <1>2, <1>3, <1>4 DEF Kept
<1>9. WholeSoFar'
  <2>1. held = LiveRows(rows) => held \ {o} = LiveRows(r)
    BY <1>1, <1>2, <1>4, TablesTyped
  <2> QED BY <1>2, <1>3, <1>6, <2>1 DEF WholeSoFar
<1>10. PartAtEnd'
  BY <1>3 DEF PartAtEnd
<1> QED BY <1>3, <1>4, <1>7, <1>8, <1>9, <1>10 DEF LogInv

(* An append that stops in the middle, or starts over there.                *)
LEMMA BrokenTypes ==
  ASSUME LogInv, NEW w \in Seq(Char), NEW o \in Offs, AppendBroken(w, o)
  PROVE  /\ log' \in Seq(Char) /\ endsTorn' \in BOOLEAN
         /\ appends' \in 0..MaxAppends /\ tears' \in 0..MaxTears
         /\ tears' # 0 /\ (tears' = 1 => tears = 0)
         /\ torn' = torn \cup {o}
         /\ endsTorn' => \E k \in 1..(Len(w) - 1) : log' = log \o SubSeq(w, 1, k)
<1>1. /\ log \in Seq(Char) /\ appends \in 0..MaxAppends /\ tears \in 0..MaxTears
      /\ MaxAppends \in Nat /\ MaxTears \in Nat
  BY LogAssumption DEF LogInv, TypeOK
<1>2. /\ appends < MaxAppends /\ tears < MaxTears /\ appends' = appends + 1
      /\ tears' = tears + 1 /\ torn' = torn \cup {o}
  BY DEF AppendBroken
<1>3. PICK k \in 1..(Len(w) - 1) :
        \/ log' = log \o SubSeq(w, 1, k) /\ endsTorn' = TRUE
        \/ log' = log \o SubSeq(w, 1, k) \o w /\ endsTorn' = FALSE
  BY DEF AppendBroken
<1>4. SubSeq(w, 1, k) \in Seq(Char)
  BY PartStands
<1>5. log \o SubSeq(w, 1, k) \in Seq(Char)
  BY <1>1, <1>4
<1>6. log' \in Seq(Char) /\ endsTorn' \in BOOLEAN
  <2> DEFINE l == log \o SubSeq(w, 1, k)
  <2>1. l \in Seq(Char) /\ (log' = l \/ log' = l \o w) /\ endsTorn' \in BOOLEAN
    BY <1>3, <1>5
  <2> HIDE DEF l
  <2>2. l \o w \in Seq(Char)
    BY <2>1
  <2> QED BY <2>1, <2>2
<1>7. /\ appends' \in 0..MaxAppends /\ tears' \in 0..MaxTears
      /\ tears' # 0 /\ (tears' = 1 => tears = 0)
  BY <1>1, <1>2
<1>8. endsTorn' => \E j \in 1..(Len(w) - 1) : log' = log \o SubSeq(w, 1, j)
  BY <1>3
<1> QED BY <1>2, <1>6, <1>7, <1>8

(* A '+' record that breaks off.                                            *)
LEMMA CommitFailsKeeps ==
  ASSUME LogInv, NEW o \in Offs, NEW v \in Texts, CommitFails(o, v)
  PROVE  LogInv'
<1> DEFINE w == PlusRecord(o, v)
           c == Stored(cells, o, v)
<1>1. /\ o \in Word /\ o # Span - 1 /\ v \in Values /\ v \in Seq(Char)
      /\ Len(v) = Width /\ Len(v) <= Width /\ w \in Seq(Char)
  BY Committed
<1>2. /\ TypeOK /\ rows \in Tables /\ Kept /\ WholeSoFar
  BY DEF LogInv
<1>3. /\ cells' = c /\ held' = held /\ rows' = rows /\ stuck' = stuck
      /\ AppendBroken(w, o)
  BY DEF CommitFails
<1>4. /\ log' \in Seq(Char) /\ endsTorn' \in BOOLEAN
      /\ appends' \in 0..MaxAppends /\ tears' \in 0..MaxTears
      /\ tears' # 0 /\ (tears' = 1 => tears = 0)
      /\ torn' = torn \cup {o}
      /\ endsTorn' => \E k \in 1..(Len(w) - 1) : log' = log \o SubSeq(w, 1, k)
  BY <1>1, <1>3, BrokenTypes
<1>5. c \in Seq(Char)
  BY <1>1, <1>2, StoredFacts DEF TypeOK
<1>6. ASSUME NEW p \in Word, p # o, rows[p] # NoRow, p \notin torn
      PROVE  Covers(c, p) /\ CellAt(c, p) = rows[p]
  BY <1>1, <1>6, StoreKeeps
<1>7. ASSUME endsTorn', tears' = 1
      PROVE  Reopened'.sane /\ OneRow(rows, Reopened'.rows, o)
  <2>1. PICK s : Reads(log, s) /\ s.rows = rows
    BY <1>2, <1>4, <1>7 DEF WholeSoFar
  <2>2. PICK k \in 1..(Len(w) - 1) : log' = log \o SubSeq(w, 1, k)
    BY <1>4, <1>7
  <2>3. log \in Seq(Char)
    BY <1>2 DEF TypeOK
  <2> HIDE DEF c
  <2>4. LET a == Replay(log \o SubSeq(w, 1, k), c)
        IN  a.sane /\ OneRow(s.rows, a.rows, o)
    BY <1>1, <1>5, <2>1, <2>2, <2>3, ReadsPlusPart
  <2>5. Reopened' = Replay(log \o SubSeq(w, 1, k), c)
    BY <1>3, <2>2 DEF Reopened
  <2> QED BY <2>1, <2>4, <2>5
<1> HIDE DEF w, c
<1>8. TypeOK'
  BY <1>2, <1>3, <1>4, <1>5 DEF TypeOK
<1>9. Kept'
  BY <1>3, <1>4, <1>6 DEF Kept
<1>10. WholeSoFar'
  BY <1>4 DEF WholeSoFar
<1>11. PartAtEnd'
  BY <1>3, <1>4, <1>7 DEF PartAtEnd
<1> QED BY <1>2, <1>3, <1>8, <1>9, <1>10, <1>11 DEF LogInv

(* A '-' record that breaks off.                                            *)
LEMMA ReleaseFailsKeeps ==
  ASSUME LogInv, NEW o \in held \cap Offs, ReleaseFails(o)
  PROVE  LogInv'
<1> DEFINE w == MinusRecord(o)
<1>1. o \in Offs /\ o \in Word /\ w \in Seq(Char)
  BY Constants, MinusRecordFacts
<1>2. /\ TypeOK /\ rows \in Tables /\ Kept /\ WholeSoFar
  BY DEF LogInv
<1>3. /\ cells' = cells /\ held' = held \ {o} /\ rows' = rows /\ stuck' = stuck
      /\ AppendBroken(w, o)
  BY DEF ReleaseFails
<1>4. /\ log' \in Seq(Char) /\ endsTorn' \in BOOLEAN
      /\ appends' \in 0..MaxAppends /\ tears' \in 0..MaxTears
      /\ tears' # 0 /\ (tears' = 1 => tears = 0)
      /\ torn' = torn \cup {o}
      /\ endsTorn' => \E k \in 1..(Len(w) - 1) : log' = log \o SubSeq(w, 1, k)
  BY <1>1, <1>3, BrokenTypes
<1>5. ASSUME endsTorn', tears' = 1
      PROVE  Reopened'.sane /\ OneRow(rows, Reopened'.rows, o)
  <2>1. PICK s : Reads(log, s) /\ s.rows = rows
    BY <1>2, <1>4, <1>5 DEF WholeSoFar
  <2>2. PICK k \in 1..(Len(w) - 1) : log' = log \o SubSeq(w, 1, k)
    BY <1>4, <1>5
  <2>3. log \in Seq(Char) /\ cells \in Seq(Char)
    BY <1>2 DEF TypeOK
  <2>4. s.rows[o] # NoRow
    BY <1>1, <1>2, <1>4, <1>5, <2>1, TablesTyped DEF WholeSoFar
  <2>5. LET a == Replay(log \o SubSeq(w, 1, k), cells)
        IN  a.sane /\ OneRow(s.rows, a.rows, o)
    BY <1>1, <2>1, <2>2, <2>3, <2>4, ReadsMinusPart
  <2>6. Reopened' = Replay(log \o SubSeq(w, 1, k), cells)
    BY <1>3, <2>2 DEF Reopened
  <2> QED BY <2>1, <2>5, <2>6
<1> HIDE DEF w
<1>6. TypeOK'
  BY <1>1, <1>2, <1>3, <1>4 DEF TypeOK
<1>7. Kept'
  BY <1>2, <1>3, <1>4 DEF Kept
<1>8. WholeSoFar'
  BY <1>4 DEF WholeSoFar
<1>9. PartAtEnd'
  BY <1>3, <1>4, <1>5 DEF PartAtEnd
<1> QED BY <1>2, <1>3, <1>6, <1>7, <1>8, <1>9 DEF LogInv

(* The replay of the log is the same over other cells.                      *)
LEMMA SamePart ==
  ASSUME LogInv, NEW c \in Seq(Char), log' = log, cells' = c
  PROVE  Reopened'.rows = Reopened.rows /\ Reopened'.sane = Reopened.sane
<1>1. log \in Seq(Char) /\ cells \in Seq(Char)
  BY DEF LogInv, TypeOK
<1>2. Reopened' = Replay(log, c) /\ Reopened = Replay(log, cells)
  BY DEF Reopened
<1> QED BY <1>1, <1>2, TableFromLogAlone

(* A cell that is written in part, and no record.                           *)
LEMMA StoreFailsKeeps ==
  ASSUME LogInv, NEW o \in Offs, NEW v \in Texts, StoreFails(o, v)
  PROVE  LogInv'
<1>1. /\ o \in Word /\ v \in Seq(Char) /\ Len(v) = Width /\ Width \in Nat
  BY Committed, Constants
<1>2. /\ TypeOK /\ rows \in Tables /\ Kept /\ WholeSoFar /\ PartAtEnd
  BY DEF LogInv
<1>3. PICK k \in 0..(Width - 1) : cells' = Stored(cells, o, SubSeq(v, 1, k))
  BY DEF StoreFails
<1>4. /\ stuck' = TRUE /\ torn' = torn \cup {o} /\ log' = log /\ held' = held
      /\ rows' = rows /\ endsTorn' = endsTorn /\ appends' = appends /\ tears' = tears
  BY DEF StoreFails
<1> DEFINE e == SubSeq(v, 1, k)
           c == Stored(cells, o, e)
<1>5. e \in Seq(Char) /\ Len(e) <= Width
  <2>1. 1 \in Int /\ k \in Int /\ \A i \in 1..k : v[i] \in Char
    BY <1>1
  <2>2. e \in Seq(Char) /\ Len(e) = IF 1 <= k THEN k - 1 + 1 ELSE 0
    BY <2>1, SubSeqProperties
  <2> HIDE DEF e
  <2> QED BY <1>1, <2>2
<1> HIDE DEF e
<1>6. c \in Seq(Char)
  BY <1>1, <1>2, <1>5, StoredFacts DEF TypeOK
<1>7. ASSUME NEW p \in Word, p # o, rows[p] # NoRow, p \notin torn
      PROVE  Covers(c, p) /\ CellAt(c, p) = rows[p]
  BY <1>1, <1>5, <1>7, StoreKeeps
<1>8. cells' = c
  BY <1>3 DEF e
<1> HIDE DEF c
<1>9. Reopened'.rows = Reopened.rows /\ Reopened'.sane = Reopened.sane
  BY <1>4, <1>6, <1>8, SamePart
<1>10. TypeOK'
  BY <1>2, <1>4, <1>6, <1>8 DEF TypeOK
<1>11. Kept'
  BY <1>4, <1>7, <1>8 DEF Kept
<1>12. WholeSoFar'
  BY <1>2, <1>4 DEF WholeSoFar
<1>13. PartAtEnd'
  BY <1>2, <1>4, <1>9 DEF PartAtEnd
<1> QED BY <1>2, <1>4, <1>10, <1>11, <1>12, <1>13 DEF LogInv

(* The pool is opened again: the table is what the log says.                *)
LEMMA ReopenKeeps ==
  ASSUME LogInv, Reopen
  PROVE  LogInv'
<1> DEFINE a == Reopened
<1>1. /\ TypeOK /\ rows \in Tables /\ Kept /\ WholeSoFar /\ PartAtEnd
      /\ log \in Seq(Char) /\ cells \in Seq(Char)
  BY DEF LogInv, TypeOK
<1>2. /\ a.sane /\ held' = LiveRows(a.rows) /\ rows' = a.rows /\ cells' = a.cells
      /\ stuck' = FALSE /\ torn' = {} /\ log' = log /\ endsTorn' = endsTorn
      /\ appends' = appends /\ tears' = tears
  BY DEF Reopen
<1>3. a \in LoopStates(log)
  BY <1>1, ReplayFacts DEF Reopened
<1>4. a.rows \in Tables /\ a.cells \in Seq(Char) /\ Backed(a.rows, a.cells)
  BY <1>3 DEF LoopStates
<1>5. tears = 0 => a.rows = rows
  BY <1>1, ReadsWhole DEF WholeSoFar, Reopened
<1> HIDE DEF a
<1>6. Reopened'.rows = a.rows /\ Reopened'.sane = a.sane
  BY <1>2, <1>4, SamePart DEF a
<1>7. TypeOK'
  BY <1>1, <1>2, <1>4, TablesTyped DEF TypeOK
<1>8. Kept'
  BY <1>2, <1>4 DEF Kept, Backed
<1>9. WholeSoFar'
  BY <1>1, <1>2, <1>5 DEF WholeSoFar
<1>10. PartAtEnd'
  BY <1>2, <1>6 DEF PartAtEnd
<1> QED BY <1>2, <1>4, <1>7, <1>8, <1>9, <1>10 DEF LogInv

(* Every step keeps the invariant.                                          *)
LEMMA NextInv == LogInv /\ [Next]_vars => LogInv'
<1> SUFFICES ASSUME LogInv, [Next]_vars PROVE LogInv'
  OBVIOUS
<1>1. ASSUME NEW o \in Offs, NEW v \in Texts, Commit(o, v) PROVE LogInv'
  BY <1>1, CommitKeeps
<1>2. ASSUME NEW o \in Offs, NEW v \in Texts, CommitFails(o, v) PROVE LogInv'
  BY <1>2, CommitFailsKeeps
<1>3. ASSUME NEW o \in Offs, NEW v \in Texts, StoreFails(o, v) PROVE LogInv'
  BY <1>3, StoreFailsKeeps
<1>4. ASSUME NEW o \in held \cap Offs, ReleaseAndCommit(o) PROVE LogInv'
  BY <1>4, ReleaseKeeps
<1>5. ASSUME NEW o \in held \cap Offs, ReleaseFails(o) PROVE LogInv'
  BY <1>5, ReleaseFailsKeeps
<1>6. CASE Reopen
  BY <1>6, ReopenKeeps
<1>7. CASE UNCHANGED vars
  BY <1>7 DEF LogInv, TypeOK, Kept, WholeSoFar, PartAtEnd, Reopened, vars
<1> QED BY <1>1, <1>2, <1>3, <1>4, <1>5, <1>6, <1>7 DEF Next

(* The invariant holds of every execution of commits that succeed or fail   *)
(* half way, and of openings of the pool between them.                      *)
THEOREM LogInvariance == Spec => []LogInv
<1>1. Init => LogInv
  BY InitInv
<1>2. LogInv /\ [Next]_vars => LogInv'
  BY NextInv
<1> QED BY <1>1, <1>2, PTL DEF Spec

(* The variables keep their types: in particular every row of the table     *)
(* that a replay builds has a value of the full width.                      *)
THEOREM LogTypes == Spec => []TypeOK
<1>1. LogInv => TypeOK
  BY DEF LogInv
<1> QED BY <1>1, LogInvariance, PTL

(* A log without a broken record is read back by replay_transaction() as    *)
(* the table that the commits made.                                         *)
THEOREM WholeLogsRead == Spec => []WholeLogReads
<1>1. LogInv => WholeLogReads
  <2> SUFFICES ASSUME LogInv, tears = 0 PROVE Reopened.sane /\ Reopened.rows = rows
    BY DEF WholeLogReads
  <2>1. PICK s : Reads(log, s) /\ s.rows = rows
    BY DEF LogInv, WholeSoFar
  <2>2. log \in Seq(Char) /\ cells \in Seq(Char)
    BY DEF LogInv, TypeOK
  <2> QED BY <2>1, <2>2, ReadsWhole DEF Reopened
<1> QED BY <1>1, LogInvariance, PTL

(* A record that broke off at the end of the log costs one row at most,     *)
(* that of an offset whose digits begin those of the record's.              *)
THEOREM OneRowLost == Spec => []OneRowAtRisk
<1>1. LogInv => OneRowAtRisk
  <2> SUFFICES ASSUME LogInv, endsTorn, tears = 1 PROVE OneRowAtRisk
    BY DEF OneRowAtRisk
  <2> DEFINE r == Reopened.rows
             changed == {o \in Word : r[o] # rows[o]}
  <2>1. Reopened.sane /\ (r = rows \/ \E o \in torn : OneRow(rows, r, o))
    BY DEF LogInv, PartAtEnd
  <2> HIDE DEF r
  <2>2. CASE r = rows
    <3>1. changed = {}
      BY <2>2
    <3> QED BY <2>1, <3>1 DEF OneRowAtRisk, r
  <2>3. CASE \E o \in torn : OneRow(rows, r, o)
    <3>1. PICK o \in torn : OneRow(rows, r, o)
      BY <2>3
    <3>2. PICK p \in Word : /\ IsPrefix(Numeral[p], Numeral[o])
                            /\ \A x \in Word : x # p => r[x] = rows[x]
      BY <3>1 DEF OneRow
    <3>3. \A x \in changed : x = p
      BY <3>2
    <3>4. /\ \A x, y \in changed : x = y
          /\ \A x \in changed : \E y \in torn : IsPrefix(Numeral[x], Numeral[y])
      <4> HIDE DEF changed
      <4> QED BY <3>1, <3>2, <3>3
    <3> QED BY <2>1, <3>4 DEF OneRowAtRisk, r
  <2> QED BY <2>1, <2>2, <2>3
<1> QED BY <1>1, LogInvariance, PTL

(* The cell of every row holds its value, except where a commit failed, and *)
(* every opening of the pool repairs those.                                 *)
THEOREM CellsKept == Spec => []CellsHoldRows
<1>1. LogInv => CellsHoldRows
  <2> SUFFICES ASSUME LogInv PROVE CellsHoldRows
    OBVIOUS
  <2>1. /\ rows \in Tables /\ Kept /\ log \in Seq(Char) /\ cells \in Seq(Char)
    BY DEF LogInv, TypeOK
  <2>2. \A o \in LiveRows(rows) \ torn : CellAt(cells, o) = rows[o]
    BY <2>1, TablesTyped DEF Kept
  <2>3. Reopened \in LoopStates(log)
    BY <2>1, ReplayFacts DEF Reopened
  <2>4. Reopened.rows \in Tables /\ Backed(Reopened.rows, Reopened.cells)
    BY <2>3 DEF LoopStates
  <2>5. \A o \in LiveRows(Reopened.rows) : CellAt(Reopened.cells, o) = Reopened.rows[o]
    BY <2>4, TablesTyped DEF Backed
  <2> QED BY <2>2, <2>5 DEF CellsHoldRows
<1> QED BY <1>1, LogInvariance, PTL
=============================================================================

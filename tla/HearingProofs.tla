----------------------------- MODULE HearingProofs -----------------------------
(***************************************************************************)
(* What holds of the sound between the microphone and the start of a       *)
(* speech, for microphones of any rate, pieces, frames and windows of any  *)
(* size and any probabilities, however often the microphone is opened and  *)
(* closed and the worker suspended and resumed.                            *)
(***************************************************************************)
EXTENDS Hearing, SequenceTheorems, WellFoundedInduction, TLAPS

(***************************************************************************)
(* Numbers, induction and recursion over them.                             *)
(***************************************************************************)

\* A set of numbers has a least element.
LEMMA Least ==
  ASSUME NEW T \in SUBSET Nat, T # {}
  PROVE  \E x \in T : \A y \in T : x <= y
<1>1. IsWellFoundedOn(OpToRel(<, Nat), Nat)
  BY NatLessThanWellFounded, Zenon
<1>2. ASSUME NEW x \in Nat, NEW y \in Nat, y < x
      PROVE  <<y, x>> \in OpToRel(<, Nat)
  BY <1>2, Zenon DEF OpToRel
<1>3. \E x \in T : \A y \in T : ~(<<y, x>> \in OpToRel(<, Nat))
  BY <1>1, WFMin, Zenon
<1>4. \E x \in T : \A y \in T : ~(y < x)
  BY <1>2, <1>3, Zenon
<1>. QED
  BY <1>4

\* Induction up to n, over a set.
LEMMA Induction ==
  ASSUME NEW n \in Nat, NEW T, 0 \in T, \A i \in 1..n : i - 1 \in T => i \in T
  PROVE  \A i \in 0..n : i \in T
<1>. DEFINE Not == {i \in 0..n : i \notin T}
<1>1. SUFFICES ASSUME Not # {} PROVE FALSE
  OBVIOUS
<1>2. PICK x \in Not : \A y \in Not : x <= y
  <2>1. Not \in SUBSET Nat
    OBVIOUS
  <2>. HIDE DEF Not
  <2>. QED
    BY <1>1, <2>1, Least
<1>3. x \in 1..n /\ x - 1 \in 0..n
  OBVIOUS
<1>4. x - 1 \notin Not
  BY <1>2, <1>3
<1>. QED
  BY <1>3, <1>4

\* The beginning of a recursive function, whose steps stay in S.
Begins(g, k, a, step) == \A i \in 0..k : g[i] = IF i = 0 THEN a ELSE step[i][g[i - 1]]

LEMMA Recursion ==
  ASSUME NEW S, NEW a \in S, NEW n \in Nat, NEW step \in [1..n -> [S -> S]]
  PROVE  \E g \in [0..n -> S] : Begins(g, n, a, step)
<1>. DEFINE T == {k \in 0..n : \E g \in [0..k -> S] : Begins(g, k, a, step)}
<1>1. 0 \in T
  <2>1. [i \in 0..0 |-> a] \in [0..0 -> S] /\ Begins([i \in 0..0 |-> a], 0, a, step)
    BY DEF Begins
  <2>. QED
    BY <2>1
<1>2. ASSUME NEW k \in 1..n, k - 1 \in T PROVE k \in T
  <2>1. PICK g \in [0..(k - 1) -> S] : Begins(g, k - 1, a, step)
    BY <1>2
  <2>. DEFINE h == [i \in 0..k |-> IF i = k THEN step[k][g[k - 1]] ELSE g[i]]
  <2>2. step[k][g[k - 1]] \in S
    OBVIOUS
  <2>3. h \in [0..k -> S]
    BY <2>2
  <2>4. (\A i \in 0..(k - 1) : h[i] = g[i]) /\ h[k] = step[k][g[k - 1]]
    OBVIOUS
  <2>. HIDE DEF h
  <2>5. ASSUME NEW i \in 0..k PROVE h[i] = IF i = 0 THEN a ELSE step[i][h[i - 1]]
    <3>1. CASE i < k
      <4>1. i \in 0..(k - 1) /\ g[i] = IF i = 0 THEN a ELSE step[i][g[i - 1]]
        BY <2>1, <3>1 DEF Begins
      <4>2. i # 0 => i - 1 \in 0..(k - 1)
        BY <3>1
      <4>. QED
        BY <2>4, <4>1, <4>2
    <3>2. CASE i = k
      BY <2>4, <3>2
    <3>. QED
      BY <3>1, <3>2
  <2>. QED
    BY <2>3, <2>5 DEF Begins
<1>3. n \in T
  <2>. HIDE DEF T
  <2>1. \A i \in 0..n : i \in T
    BY <1>1, <1>2, Induction
  <2>. QED
    BY <2>1
<1>. QED
  BY <1>3

LEMMA Divide ==
  ASSUME NEW a \in Nat, NEW b \in Nat \ {0}
  PROVE  \E d \in Nat, r \in 0..(b - 1) : a \div b = d /\ a % b = r /\ a = d * b + r
<1>1. a \div b \in Nat
  OBVIOUS
<1>2. a = b * (a \div b) + (a % b) /\ a % b \in 0..(b - 1)
  OBVIOUS
<1>3. PICK d \in Nat, r \in 0..(b - 1) : a \div b = d /\ a % b = r
  BY <1>1, <1>2
<1>4. a = b * d + r
  BY <1>2, <1>3
<1>5. a = d * b + r
  BY <1>4
<1>. QED
  BY <1>3, <1>5

\* The windows that a time begins, one at least.
LEMMA WindowsLong ==
  ASSUME NEW time \in Nat
  PROVE  /\ WindowsOf(time) \in Nat \ {0} /\ WindowsOf(time) * Hop \in Nat
         /\ WindowsOf(time) >= 2 => WindowsOf(time) * Hop < time + Hop
<1>1. Hop \in Nat \ {0} /\ time + Hop - 1 \in Nat
  BY HearingAssumption
<1>2. PICK d \in Nat, r \in 0..(Hop - 1) :
        (time + Hop - 1) \div Hop = d /\ time + Hop - 1 = d * Hop + r
  BY <1>1, Divide
<1>3. WindowsOf(time) = IF d > 1 THEN d ELSE 1
  BY <1>2 DEF WindowsOf
<1>4. d * Hop \in Nat /\ 1 * Hop \in Nat
  BY <1>1
<1>5. d * Hop < time + Hop
  BY <1>1, <1>2, <1>4
<1>6. CASE d > 1
  BY <1>3, <1>4, <1>5, <1>6
<1>7. CASE ~(d > 1)
  BY <1>3, <1>4, <1>7
<1>. QED
  BY <1>6, <1>7

\* What is needed of the constants, but for the last part of the assumption.
LEMMA Sizes ==
  /\ Rates \subseteq Nat \ {0} /\ Callbacks \subseteq Nat
  /\ Den \in Nat \ {0} /\ Hop \in Nat \ {0} /\ QueueSize \in Nat \ {0}
  /\ MinSpeech \in Nat \ {0} /\ MinSilence \in Nat \ {0} /\ PrerollSet \in Nat
  /\ FrameSize \in Nat /\ FrameSize >= 2
<1>1. SpeechTime \in Nat /\ SilenceTime \in Nat
  BY HearingAssumption
<1>2. MinSpeech \in Nat \ {0} /\ MinSilence \in Nat \ {0}
  BY <1>1, WindowsLong DEF MinSpeech, MinSilence
<1>. QED
  BY <1>2, HearingAssumption

LEMMA Spread ==
  ASSUME NEW a \in Int, NEW b \in Int, NEW c \in Int
  PROVE  (a + b) * c = a * c + b * c /\ a * c \in Int /\ 0 * c = 0 /\ 1 * c = c
  OBVIOUS

LEMMA NotNegative ==
  ASSUME NEW a \in Nat, NEW b \in Nat
  PROVE  a * b \in Nat
  OBVIOUS

\* A multiple leaves nothing over.
LEMMA NothingOver ==
  ASSUME NEW q \in Nat, NEW b \in Nat \ {0}
  PROVE  (q * b) % b = 0
<1>1. PICK d \in Nat, r \in 0..(b - 1) : (q * b) % b = r /\ q * b = d * b + r
  BY NotNegative, Divide
<1>2. (q - d) * b = r
  BY <1>1
<1>3. ASSUME q - d >= 1 PROVE FALSE
  <2>1. (q - d - 1) * b >= 0
    BY <1>1, <1>3, NotNegative
  <2>2. (q - d) * b = (q - d - 1) * b + b
    BY <1>1
  <2>. QED
    BY <1>1, <1>2, <2>1, <2>2
<1>4. ASSUME q - d <= -1 PROVE FALSE
  <2>1. (d - q) * b >= b
    <3>1. (d - q - 1) * b \in Nat
      BY <1>1, <1>4, NotNegative
    <3>2. (d - q) * b = (d - q - 1) * b + b
      BY <1>1
    <3>. QED
      BY <3>1, <3>2
  <2>2. (q - d) * b = -((d - q) * b)
    BY <1>1
  <2>. QED
    BY <1>1, <1>2, <2>1, <2>2
<1>5. q - d = 0
  BY <1>1, <1>3, <1>4
<1>6. r = 0
  BY <1>1, <1>2, <1>5
<1>. QED
  BY <1>1, <1>6

(***************************************************************************)
(* The microphone: its samples are taken at even times.                    *)
(***************************************************************************)
\* n samples from a time on.
Line(start, rate, n) == [k \in 1..n |-> start + (k - 1) * rate]

LEMMA LineKind ==
  ASSUME NEW start \in Int, NEW rate \in Nat, NEW n \in Nat
  PROVE  /\ Line(start, rate, n) \in Seq(Int) /\ Len(Line(start, rate, n)) = n
         /\ \A k \in 1..n : Line(start, rate, n)[k] = start + (k - 1) * rate
<1>1. \A k \in 1..n : start + (k - 1) * rate \in Int
  BY Spread
<1>. QED
  BY <1>1 DEF Line

LEMMA LineLong ==
  ASSUME NEW start \in Int, NEW rate \in Nat, NEW n \in Nat
  PROVE  Line(start, rate, n) \in Seq(Int) /\ Len(Line(start, rate, n)) = n
  BY LineKind

\* It goes on with what follows.
After(start, rate, n) == start + n * rate
GoesOn(start, rate, n, more) ==
  Line(start, rate, n) \o Line(After(start, rate, n), rate, more) = Line(start, rate, n + more)

LEMMA LineGoesOn ==
  ASSUME NEW start \in Int, NEW rate \in Nat, NEW n \in Nat, NEW more \in Nat
  PROVE  GoesOn(start, rate, n, more)
<1>0. PICK at \in Int : at = After(start, rate, n) /\ at = start + n * rate
  BY Spread DEF After
<1>. DEFINE l == Line(start, rate, n)
            r == Line(at, rate, more)
            all == Line(start, rate, n + more)
<1>1. n * rate \in Int /\ n + more \in Nat
  BY Spread
<1>2. /\ l \in Seq(Int) /\ Len(l) = n
      /\ \A k \in 1..n : l[k] = start + (k - 1) * rate
  BY LineKind
<1>3. /\ r \in Seq(Int) /\ Len(r) = more
      /\ \A k \in 1..more : r[k] = at + (k - 1) * rate
  BY <1>1, LineKind
<1>4. /\ all \in Seq(Int) /\ Len(all) = n + more
      /\ \A k \in 1..(n + more) : all[k] = start + (k - 1) * rate
  BY <1>1, LineKind
<1>. HIDE DEF l, r, all
<1>5. /\ l \o r \in Seq(Int) /\ Len(l \o r) = n + more
      /\ \A k \in 1..(n + more) : (l \o r)[k] = IF k <= n THEN l[k] ELSE r[k - n]
  <2>1. l \in Seq(Int) /\ r \in Seq(Int)
    BY <1>2, <1>3
  <2>2. /\ l \o r \in Seq(Int) /\ Len(l \o r) = Len(l) + Len(r)
        /\ \A k \in 1..(Len(l) + Len(r)) :
             (l \o r)[k] = IF k <= Len(l) THEN l[k] ELSE r[k - Len(l)]
    BY <2>1, ConcatProperties
  <2>3. Len(l) = n /\ Len(r) = more
    BY <1>2, <1>3
  <2>. QED
    BY <2>2, <2>3
<1>6. ASSUME NEW k \in 1..(n + more) PROVE (l \o r)[k] = all[k]
  <2>1. CASE k <= n
    BY <1>2, <1>4, <1>5, <2>1
  <2>2. CASE k > n
    <3>1. (l \o r)[k] = at + ((k - n) - 1) * rate
      BY <1>3, <1>5, <2>2
    <3>2. n * rate + ((k - n) - 1) * rate = (k - 1) * rate
      BY Spread
    <3>3. ((k - n) - 1) * rate \in Int
      BY Spread
    <3>. QED
      BY <1>0, <1>1, <1>4, <3>1, <3>2, <3>3
  <2>3. k <= n \/ k > n
    OBVIOUS
  <2>. QED
    BY <2>1, <2>2, <2>3
<1>7. l \o r = all
  BY <1>4, <1>5, <1>6, SeqEqual
<1>. QED
  BY <1>0, <1>7, Zenon DEF l, r, all, GoesOn

\* A piece of it is one, too.
LEMMA LinePiece ==
  ASSUME NEW start \in Int, NEW rate \in Nat, NEW n \in Nat, NEW i \in 0..n, NEW k \in 0..(n - i)
  PROVE  SubSeq(Line(start, rate, n), i + 1, i + k) = Line(start + i * rate, rate, k)
<1>. DEFINE all == Line(start, rate, n)
            piece == SubSeq(all, i + 1, i + k)
            l == Line(start + i * rate, rate, k)
<1>1. i * rate \in Int /\ start + i * rate \in Int
  BY Spread
<1>2. /\ all \in Seq(Int) /\ Len(all) = n
      /\ \A j \in 1..n : all[j] = start + (j - 1) * rate
  BY LineKind
<1>3. /\ l \in Seq(Int) /\ Len(l) = k
      /\ \A j \in 1..k : l[j] = (start + i * rate) + (j - 1) * rate
  BY <1>1, LineKind
<1>. HIDE DEF all, l
<1>4. \A j \in (i + 1)..(i + k) : all[j] \in Int
  BY <1>2, ElementOfSeq
<1>5. /\ piece \in Seq(Int) /\ Len(piece) = k
      /\ \A j \in 1..k : piece[j] = all[i + j]
  <2>1. /\ piece \in Seq(Int)
        /\ Len(piece) = IF i + 1 <= i + k THEN (i + k) - (i + 1) + 1 ELSE 0
        /\ \A j \in 1..((i + k) - (i + 1) + 1) : piece[j] = all[(i + 1) + j - 1]
    BY <1>4, SubSeqProperties
  <2>. HIDE DEF piece
  <2>2. \A j \in 1..k : (i + 1) + j - 1 = i + j
    OBVIOUS
  <2>3. (i + k) - (i + 1) + 1 = k
    OBVIOUS
  <2>. QED
    BY <2>1, <2>2, <2>3
<1>. HIDE DEF piece
<1>6. ASSUME NEW j \in 1..k PROVE piece[j] = l[j]
  <2>1. piece[j] = start + (i + j - 1) * rate
    BY <1>2, <1>5
  <2>2. i * rate + (j - 1) * rate = (i + j - 1) * rate /\ (j - 1) * rate \in Int
    BY Spread
  <2>. QED
    BY <1>1, <1>3, <2>1, <2>2
<1>7. piece = l
  BY <1>3, <1>5, <1>6, SeqEqual
<1>. QED
  BY <1>7 DEF piece, l, all

Mics == [rate : Nat, since : Nat, had : Nat, position : Nat, frame : Seq(Int)]

\* When the next sample of the program is due, if the resampler goes on as it does.
Due(m) == IF m.rate = Den THEN (m.had + 1) * Den ELSE m.had * Den + m.position

\* The frame that is filled has even samples from a time on, and so will have the next.
EvenFrom(m, start) ==
  /\ m.frame = Line(start, m.rate, Len(m.frame))
  /\ Due(m) = start + Len(m.frame) * m.rate

\* What the resampler makes of one sample more.
LEMMA PointsReach ==
  ASSUME NEW rate \in Nat \ {0}, NEW position \in Nat
  PROVE  /\ Points(rate, position) \in Nat
         /\ position + Points(rate, position) * rate - Den \in Nat
<1>1. CASE position < Den
  <2>1. Den - 1 - position \in Nat
    BY <1>1, Sizes
  <2>2. PICK d \in Nat, r \in 0..(rate - 1) :
          (Den - 1 - position) \div rate = d /\ Den - 1 - position = d * rate + r
    BY <2>1, Divide
  <2>3. Points(rate, position) = d + 1
    BY <1>1, <2>2 DEF Points
  <2>4. (d + 1) * rate = d * rate + rate /\ d * rate \in Int
    BY Spread
  <2>5. position + (d + 1) * rate - Den >= 0 /\ position + (d + 1) * rate - Den \in Int
    BY <2>2, <2>4, Sizes
  <2>. QED
    BY <2>3, <2>5
<1>2. CASE ~(position < Den)
  BY <1>2, Sizes DEF Points
<1>. QED
  BY <1>1, <1>2

LEMMA LineOfOne ==
  ASSUME NEW start \in Int, NEW rate \in Nat
  PROVE  Line(start, rate, 1) = <<start>>
<1>1. \A k \in 1..1 : start + (k - 1) * rate = start
  OBVIOUS
<1>2. Line(start, rate, 1) = [k \in 1..1 |-> start]
  BY <1>1 DEF Line
<1>. QED
  BY <1>2

LEMMA ResampledEven ==
  ASSUME NEW m \in Mics, m.rate # 0, NEW start \in Int, EvenFrom(m, start)
  PROVE  /\ Resampled(m) \in Mics /\ EvenFrom(Resampled(m), start)
         /\ Resampled(m).rate = m.rate /\ Resampled(m).since = m.since
<1>1. PICK r \in Nat \ {0}, s \in Nat, h \in Nat, p \in Nat, f \in Seq(Int) :
        m = [rate |-> r, since |-> s, had |-> h, position |-> p, frame |-> f]
  BY DEF Mics
<1>2. PICK n \in Nat : n = Len(f)
  BY LenProperties
<1>3. f = Line(start, r, n) /\ Due(m) = start + n * r
  BY <1>1, <1>2 DEF EvenFrom
<1>4. PICK at \in Int : at = start + n * r
  BY Spread
<1>5. ASSUME NEW k \in Nat PROVE f \o Line(at, r, k) = Line(start, r, n + k)
  <2>1. at = After(start, r, n)
    BY <1>4 DEF After
  <2>2. GoesOn(start, r, n, k)
    BY LineGoesOn
  <2>. QED
    BY <1>3, <2>1, <2>2, Zenon DEF GoesOn
<1>6. \A k \in Nat : start + (n + k) * r = at + k * r /\ k * r \in Int
  <2>. TAKE k \in Nat
  <2>1. (n + k) * r = n * r + k * r /\ n * r \in Int /\ k * r \in Int
    BY Spread
  <2>. QED
    BY <1>4, <2>1
<1>7. SUFFICES \E k \in Nat, had \in Nat, position \in Nat :
                 /\ Resampled(m) = [rate |-> r, since |-> s, had |-> had, position |-> position,
                                    frame |-> f \o Line(at, r, k)]
                 /\ (IF r = Den THEN (had + 1) * Den ELSE had * Den + position) = at + k * r
  <2>0. PICK k \in Nat, had \in Nat, position \in Nat :
                 /\ Resampled(m) = [rate |-> r, since |-> s, had |-> had, position |-> position,
                                    frame |-> f \o Line(at, r, k)]
                 /\ (IF r = Den THEN (had + 1) * Den ELSE had * Den + position) = at + k * r
    BY <1>7
  <2>. DEFINE w == Resampled(m)
              g == Line(start, r, n + k)
  <2>1. g \in Seq(Int) /\ Len(g) = n + k
    <3>1. PICK long \in Nat, rate \in Nat : long = n + k /\ rate = r
      OBVIOUS
    <3>2. Line(start, rate, long) \in Seq(Int) /\ Len(Line(start, rate, long)) = long
      BY LineLong
    <3>. QED
      BY <3>1, <3>2
  <2>. HIDE DEF g
  <2>2. w = [rate |-> r, since |-> s, had |-> had, position |-> position, frame |-> g]
    BY <1>5, <2>0 DEF g
  <2>. HIDE DEF w
  <2>3. w \in Mics /\ w.rate = r /\ w.since = s /\ w.frame = g
    BY <2>1, <2>2 DEF Mics
  <2>4. Due(w) = at + k * r
    BY <2>0, <2>2 DEF Due
  <2>5. Due(w) = start + (n + k) * r
    BY <1>6, <2>4
  <2>6. EvenFrom(w, start)
    BY <2>1, <2>3, <2>5 DEF EvenFrom, g
  <2>. QED
    BY <1>1, <2>3, <2>6 DEF w
<1>8. CASE r = Den
  <2>1. Resampled(m) = [rate |-> r, since |-> s, had |-> h + 1, position |-> 0,
                        frame |-> Append(f, (h + 1) * Den)]
    BY <1>1, <1>8 DEF Resampled
  <2>2. (h + 1) * Den = at
    BY <1>1, <1>3, <1>4, <1>8 DEF Due
  <2>3. Append(f, at) = f \o Line(at, r, 1)
    BY LineOfOne, AppendIsConcat
  <2>4. ((h + 1) + 1) * Den = (h + 1) * Den + 1 * Den
    BY Sizes, Spread
  <2>5. ((h + 1) + 1) * Den = at + 1 * r
    BY <1>8, <2>2, <2>4
  <2>6. h + 1 \in Nat /\ 1 \in Nat /\ 0 \in Nat
    OBVIOUS
  <2>7. Resampled(m) = [rate |-> r, since |-> s, had |-> h + 1, position |-> 0,
                        frame |-> f \o Line(at, r, 1)]
    BY <2>1, <2>2, <2>3
  <2>8. (IF r = Den THEN ((h + 1) + 1) * Den ELSE (h + 1) * Den + 0) = at + 1 * r
    BY <1>8, <2>5
  <2>. QED
    BY <2>6, <2>7, <2>8
<1>9. CASE r # Den
  <2>0. PICK points \in Nat : points = Points(r, p) /\ p + points * r - Den \in Nat
    BY PointsReach
  <2>. DEFINE taken == [i \in 1..points |-> h * Den + p + (i - 1) * r]
              position == p + points * r - Den
  <2>1. Resampled(m) = [rate |-> r, since |-> s, had |-> h + 1, position |-> position,
                        frame |-> f \o taken]
    BY <1>1, <1>9, <2>0 DEF Resampled
  <2>2. h * Den + p = at
    BY <1>1, <1>3, <1>4, <1>9 DEF Due
  <2>3. taken = Line(at, r, points)
    BY <2>2 DEF Line
  <2>4. (h + 1) * Den + position = at + points * r
    <3>1. (h + 1) * Den = h * Den + 1 * Den /\ h * Den \in Int /\ 1 * Den = Den /\ Den \in Int
      BY Sizes, Spread
    <3>2. points * r \in Int
      BY Spread
    <3>3. position \in Int
      BY <2>0
    <3>. HIDE DEF position, taken
    <3>4. p + points * r - Den = position
      BY DEF position
    <3>. QED
      BY <2>2, <3>1, <3>2, <3>3, <3>4
  <2>5. h + 1 \in Nat /\ position \in Nat
    BY <2>0
  <2>. HIDE DEF taken, position
  <2>. QED
    BY <1>9, <2>1, <2>3, <2>4, <2>5
<1>. QED
  BY <1>8, <1>9

\* A callback brings any number of them.
LEMMA BroughtEven ==
  ASSUME NEW m \in Mics, m.rate # 0, NEW start \in Int, EvenFrom(m, start), NEW n \in Nat
  PROVE  /\ Brought(m, n) \in Mics /\ EvenFrom(Brought(m, n), start)
         /\ Brought(m, n).rate = m.rate /\ Brought(m, n).since = m.since
<1>. DEFINE S == {w \in Mics : w.rate = m.rate /\ w.since = m.since /\ EvenFrom(w, start)}
            step == [i \in 1..n |-> [w \in S |-> Resampled(w)]]
<1>1. \A w \in S : Resampled(w) \in S
  BY ResampledEven
<1>2. m \in S
  OBVIOUS
<1>. HIDE DEF S
<1>3. step \in [1..n -> [S -> S]] /\ \A i \in 1..n : \A w \in S : step[i][w] = Resampled(w)
  BY <1>1
<1>. HIDE DEF step
<1>4. PICK g \in [0..n -> S] : Begins(g, n, m, step)
  <2>1. step \in [1..n -> [S -> S]]
    BY <1>3
  <2>. QED
    BY <1>2, <2>1, Recursion, Zenon
<1>. DEFINE Is(f) == f = [i \in 0..n |-> IF i = 0 THEN m ELSE Resampled(f[i - 1])]
<1>5. Is(g)
  <2>1. \A i \in 1..n : g[i - 1] \in S
    OBVIOUS
  <2>2. \A i \in 0..n : i # 0 => i \in 1..n
    OBVIOUS
  <2>. QED
    BY <1>3, <1>4, <2>1, <2>2 DEF Begins
<1>6. Is(CHOOSE f : Is(f))
  BY <1>5
<1>7. Brought(m, n) = (CHOOSE f : Is(f))[n]
  BY DEF Brought
<1>8. ASSUME NEW f, Is(f) PROVE f = g
  <2>. DEFINE T == {i \in 0..n : f[i] = g[i]}
  <2>1. 0 \in T
    BY <1>5, <1>8
  <2>2. ASSUME NEW i \in 1..n, i - 1 \in T PROVE i \in T
    BY <1>5, <1>8, <2>2
  <2>3. \A i \in 0..n : i \in T
    <3>. HIDE DEF T
    <3>. QED
      BY <2>1, <2>2, Induction
  <2>. QED
    BY <1>5, <1>8, <2>3
<1>9. Brought(m, n) = g[n]
  BY <1>6, <1>7, <1>8
<1>10. Brought(m, n) \in S
  BY <1>9
<1>. QED
  BY <1>10 DEF S

\* When the frame begins that the microphone m fills after q others.
Time(m, q) == (m.since + 1) * Den + q * (FrameSize * m.rate)

LEMMA TimeKind ==
  ASSUME NEW m \in Mics, NEW q \in Nat
  PROVE  Time(m, q) \in Int
<1>1. PICK r \in Nat, s \in Nat : r = m.rate /\ s = m.since
  BY DEF Mics
<1>2. FrameSize * r \in Nat /\ s + 1 \in Nat
  BY Sizes, NotNegative
<1>3. q * (FrameSize * r) \in Nat /\ (s + 1) * Den \in Nat
  BY <1>2, Sizes, NotNegative
<1>. QED
  BY <1>1, <1>3 DEF Time

LEMMA TimeLater ==
  ASSUME NEW m \in Mics, NEW q \in Nat, NEW i \in Nat
  PROVE  Time(m, q + i) = Time(m, q) + (i * FrameSize) * m.rate
<1>1. PICK r \in Nat, s \in Nat : r = m.rate /\ s = m.since
  BY DEF Mics
<1>2. PICK size \in Nat : size = FrameSize * r
  BY Sizes, NotNegative
<1>3. PICK first \in Nat : first = (s + 1) * Den
  <2>1. s + 1 \in Nat
    OBVIOUS
  <2>. QED
    BY <2>1, Sizes, NotNegative
<1>4. (q + i) * size = q * size + i * size /\ q * size \in Int /\ i * size \in Int
  BY Spread
<1>5. (i * FrameSize) * r = i * size
  BY <1>2, Sizes
<1>. QED
  BY <1>1, <1>2, <1>3, <1>4, <1>5 DEF Time

\* What the frames on their way must be, with the microphone m and after c times
\* that it was opened.
Frame == [of : Nat, samples : Seq(Int)]
EvenFrame(f, m, c) ==
  /\ f.of <= c
  /\ \E start \in Int, rate \in Rates : f.samples = Line(start, rate, FrameSize)
  /\ f.of = c /\ m.rate # 0 =>
       \E q \in Nat : f.samples = Line(Time(m, q), m.rate, FrameSize)

\* The frames a microphone has filled follow each other, and what is over follows them.
LEMMA FramesEven ==
  ASSUME NEW m \in Mics, m.rate \in Rates, NEW q \in Nat, EvenFrom(m, Time(m, q)),
         captures \in Nat
  PROVE  /\ Frames(m) \in Seq(Frame)
         /\ \A i \in 1..Len(Frames(m)) : EvenFrame(Frames(m)[i], m, captures)
         /\ [m EXCEPT !.frame = Rest(m)] \in Mics
         /\ \E p \in Nat : EvenFrom([m EXCEPT !.frame = Rest(m)], Time(m, p))
<1>1. PICK start \in Int, rate \in Rates, n \in Nat :
        /\ start = Time(m, q) /\ rate = m.rate /\ n = Len(m.frame)
        /\ m.frame = Line(start, rate, n) /\ Due(m) = start + n * rate
  <2>1. Len(m.frame) \in Nat
    BY DEF Mics
  <2>. QED
    BY <2>1, TimeKind DEF EvenFrom
<1>2. PICK d \in Nat, over \in 0..(FrameSize - 1) :
        n \div FrameSize = d /\ n % FrameSize = over /\ n = d * FrameSize + over
  <2>1. FrameSize \in Nat \ {0}
    BY Sizes
  <2>. QED
    BY <2>1, Divide
<1>3. rate \in Nat \ {0}
  BY Sizes
<1>4. ASSUME NEW i \in 1..d
      PROVE  SubSeq(m.frame, (i - 1) * FrameSize + 1, i * FrameSize)
               = Line(Time(m, q + (i - 1)), rate, FrameSize)
  <2>1. PICK b \in Nat : b = (i - 1) * FrameSize /\ b + FrameSize <= n
    <3>1. i - 1 \in Nat /\ d - i \in Nat
      OBVIOUS
    <3>2. (i - 1) * FrameSize \in Nat /\ (d - i) * FrameSize \in Nat
      BY <3>1, Sizes, NotNegative
    <3>3. d * FrameSize = (i - 1) * FrameSize + 1 * FrameSize + (d - i) * FrameSize
      BY Sizes
    <3>. QED
      BY <1>2, <3>2, <3>3, Sizes
  <2>2. i * FrameSize = b + FrameSize
    <3>1. (i - 1) * FrameSize = i * FrameSize - FrameSize
      BY Sizes
    <3>2. i * FrameSize \in Int
      BY Sizes
    <3>. QED
      BY <2>1, <3>1, <3>2, Sizes
  <2>3. SubSeq(Line(start, rate, n), b + 1, b + FrameSize)
          = Line(start + b * rate, rate, FrameSize)
    <3>1. b \in 0..n /\ FrameSize \in 0..(n - b) /\ rate \in Nat
      BY <1>3, <2>1, Sizes
    <3>. QED
      BY <3>1, LinePiece
  <2>4. start + b * rate = Time(m, q + (i - 1))
    <3>1. i - 1 \in Nat
      OBVIOUS
    <3>2. Time(m, q + (i - 1)) = Time(m, q) + ((i - 1) * FrameSize) * m.rate
      BY <3>1, TimeLater
    <3>. QED
      BY <1>1, <2>1, <3>2
  <2>. QED
    BY <1>1, <2>1, <2>2, <2>3, <2>4
<1>5. Len(m.frame) \div FrameSize = d
  BY <1>1, <1>2
<1>6. \A i \in 1..d : Line(Time(m, q + (i - 1)), rate, FrameSize) \in Seq(Int)
  <2>. TAKE i \in 1..d
  <2>1. q + (i - 1) \in Nat
    OBVIOUS
  <2>2. Time(m, q + (i - 1)) \in Int /\ rate \in Nat
    BY <1>3, <2>1, TimeKind
  <2>. QED
    BY <2>2, Sizes, LineKind
<1>7. /\ Frames(m) \in Seq(Frame) /\ Len(Frames(m)) = d
      /\ \A i \in 1..d :
           Frames(m)[i] = [of |-> captures, samples |-> Line(Time(m, q + (i - 1)), rate, FrameSize)]
  <2>. DEFINE line(i) == Line(Time(m, q + (i - 1)), rate, FrameSize)
  <2>1. Frames(m) = [i \in 1..d |-> [of |-> captures, samples |-> line(i)]]
    BY <1>4, <1>5 DEF Frames
  <2>2. \A i \in 1..d : line(i) \in Seq(Int)
    BY <1>6
  <2>. HIDE DEF line
  <2>3. \A i \in 1..d : [of |-> captures, samples |-> line(i)] \in Frame
    BY <2>2 DEF Frame
  <2>4. Frames(m) \in Seq(Frame) /\ Len(Frames(m)) = d
    BY <2>1, <2>3
  <2>5. \A i \in 1..d : Frames(m)[i] = [of |-> captures, samples |-> line(i)]
    BY <2>1
  <2>. QED
    BY <2>4, <2>5 DEF line
<1>8. ASSUME NEW i \in 1..Len(Frames(m)) PROVE EvenFrame(Frames(m)[i], m, captures)
  <2>1. i \in 1..d
    BY <1>7
  <2>2. q + (i - 1) \in Nat
    BY <2>1
  <2>3. Time(m, q + (i - 1)) \in Int
    BY <2>2, TimeKind
  <2>4. PICK p \in Nat : p = q + (i - 1)
    BY <2>2
  <2>5. /\ Frames(m)[i].of = captures
        /\ Frames(m)[i].samples = Line(Time(m, p), rate, FrameSize)
    BY <1>7, <2>1, <2>4
  <2>. QED
    BY <1>1, <2>3, <2>4, <2>5 DEF EvenFrame
<1>9. Rest(m) = Line(Time(m, q + d), rate, over) /\ Len(Rest(m)) = over /\ Rest(m) \in Seq(Int)
  <2>1. PICK b \in Nat : b = d * FrameSize /\ b + over = n
    BY <1>2, Sizes, NotNegative
  <2>2. Rest(m) = SubSeq(m.frame, b + 1, b + over)
    <3>1. n - over + 1 = b + 1 /\ n = b + over /\ ~(n < over)
      BY <2>1, Sizes
    <3>2. Len(m.frame) % FrameSize = over
      BY <1>1, <1>2
    <3>. QED
      BY <1>1, <3>1, <3>2 DEF Rest, LastOf
  <2>3. SubSeq(Line(start, rate, n), b + 1, b + over) = Line(start + b * rate, rate, over)
    <3>1. b \in 0..n /\ over \in 0..(n - b) /\ rate \in Nat
      BY <1>3, <2>1, Sizes
    <3>. QED
      BY <3>1, LinePiece
  <2>4. start + b * rate = Time(m, q + d)
    BY <1>1, <2>1, TimeLater
  <2>5. Time(m, q + d) \in Int /\ rate \in Nat /\ over \in Nat
    BY <1>3, TimeKind, Sizes
  <2>6. Line(Time(m, q + d), rate, over) \in Seq(Int) /\ Len(Line(Time(m, q + d), rate, over)) = over
    BY <2>5, LineKind
  <2>. QED
    BY <1>1, <2>2, <2>3, <2>4, <2>6
<1>10. [m EXCEPT !.frame = Rest(m)] \in Mics
  BY <1>9 DEF Mics
<1>11. EvenFrom([m EXCEPT !.frame = Rest(m)], Time(m, q + d))
  <2>. DEFINE w == [m EXCEPT !.frame = Rest(m)]
  <2>1. w.rate = rate /\ w.frame = Rest(m) /\ Due(w) = Due(m)
    BY <1>1 DEF Mics, Due
  <2>2. Time(m, q + d) = start + (d * FrameSize) * rate
    BY <1>1, TimeLater
  <2>3. PICK b \in Nat : b = d * FrameSize /\ b + over = n
    BY <1>2, Sizes, NotNegative
  <2>4. (b + over) * rate = b * rate + over * rate /\ b * rate \in Int /\ over * rate \in Int
    BY <1>3, Sizes, Spread
  <2>5. Due(m) = start + b * rate + over * rate
    <3>1. Due(m) = start + (b + over) * rate
      BY <1>1, <2>3
    <3>2. start \in Int
      BY <1>1, TimeKind
    <3>. QED
      BY <2>4, <3>1, <3>2
  <2>6. Due(w) = Time(m, q + d) + over * rate
    BY <2>1, <2>2, <2>3, <2>5
  <2>. HIDE DEF w
  <2>7. EvenFrom(w, Time(m, q + d))
    BY <1>9, <2>1, <2>6 DEF EvenFrom
  <2>. QED
    BY <2>7 DEF w
<1>12. q + d \in Nat
  OBVIOUS
<1>. QED
  BY <1>7, <1>8, <1>10, <1>11, <1>12

(***************************************************************************)
(* The microphone goes on filling even frames, and the queue holds even    *)
(* frames of it and of those before it.                                    *)
(***************************************************************************)
SoundInv ==
  /\ mic \in Mics /\ mic.rate \in Rates \cup {0} /\ captures \in Nat
  /\ Open => \E q \in Nat : EvenFrom(mic, Time(mic, q))
  /\ audio \in Seq(Frame) /\ \A i \in 1..Len(audio) : EvenFrame(audio[i], mic, captures)

\* What an action does with the microphone and the queue.
TakesSound ==
  /\ mic' = mic /\ captures' = captures
  /\ audio' = audio \/ audio' = <<>> \/ (audio # <<>> /\ audio' = Tail(audio))
ClosesMic == mic' = None(mic.had) /\ UNCHANGED <<captures, audio>>

LEMMA SoundSteps ==
  ASSUME [Next]_vars
  PROVE  \/ \E n \in Callbacks : Delivers(n)
         \/ \E rate \in Rates : Opens(rate) /\ UNCHANGED audio
         \/ ClosesMic \/ TakesSound
<1>1. CASE UNCHANGED vars
  BY <1>1 DEF vars, TakesSound
<1>2. CASE \E n \in Callbacks : Delivers(n)
  BY <1>2
<1>3. CASE Loads \/ Obeys \/ Breaks \/ Disables \/ Proceeds \/ SwitchesOnAgain \/ Hears \/ Quits
           \/ FindsNoMicrophone
  <2>1. CASE Loads
    BY <2>1 DEF Loads, TakesSound
  <2>2. CASE Obeys
    <3>1. audio' = audio \/ audio' = <<>>
      BY <2>2 DEF Obeys, Emptied
    <3>. QED
      BY <2>2, <3>1 DEF Obeys, TakesSound
  <2>3. CASE Breaks
    BY <2>3 DEF Breaks, TakesSound
  <2>4. CASE Disables \/ Proceeds \/ SwitchesOnAgain
    BY <2>4 DEF Disables, Proceeds, SwitchesOnAgain, TakesSound
  <2>5. CASE Hears
    BY <2>5 DEF Hears, TakesSound
  <2>6. CASE Quits \/ FindsNoMicrophone
    BY <2>6 DEF Quits, FindsNoMicrophone, TakesSound
  <2>. QED
    BY <1>3, <2>1, <2>2, <2>3, <2>4, <2>5, <2>6
<1>4. ASSUME NEW levels, Judges(levels) PROVE TakesSound
  BY <1>4 DEF Judges, TakesSound
<1>5. ASSUME NEW rate \in Rates, SwitchesOn(rate)
      PROVE  Opens(rate) /\ UNCHANGED audio
  BY <1>5 DEF SwitchesOn
<1>6. ASSUME NEW rate \in Rates, Ends(rate)
      PROVE  TakesSound \/ (Opens(rate) /\ UNCHANGED audio)
  BY <1>6 DEF Ends, Resumes, TakesSound
<1>7. CASE Closes \/ LearnsOfFailure
  BY <1>7 DEF Closes, LearnsOfFailure, ClosesMic
<1>. QED
  BY <1>1, <1>2, <1>3, <1>4, <1>5, <1>6, <1>7 DEF Next

\* Frames are added to the queue at its end.
LEMMA OfferedKeeps ==
  ASSUME NEW F, NEW T, T \subseteq F, audio \in Seq(F), NEW frames \in Seq(F),
         \A i \in 1..Len(audio) : audio[i] \in T,
         \A i \in 1..Len(frames) : frames[i] \in T
  PROVE  /\ Offered(frames) \in Seq(F)
         /\ \A i \in 1..Len(Offered(frames)) : Offered(frames)[i] \in T
<1>1. \A k \in Int : k <= Len(frames) =>
        /\ audio \o SubSeq(frames, 1, k) \in Seq(F)
        /\ \A i \in 1..Len(audio \o SubSeq(frames, 1, k)) : (audio \o SubSeq(frames, 1, k))[i] \in T
  <2>. TAKE k \in Int
  <2>. HAVE k <= Len(frames)
  <2>1. Len(frames) \in Nat /\ Len(audio) \in Nat
    BY LenProperties
  <2>2. \A j \in 1..k : frames[j] \in F
    BY <2>1
  <2>. DEFINE part == SubSeq(frames, 1, k)
  <2>3. /\ part \in Seq(F) /\ Len(part) = IF 1 <= k THEN k - 1 + 1 ELSE 0
        /\ \A j \in 1..(k - 1 + 1) : part[j] = frames[1 + j - 1]
    BY <2>2, SubSeqProperties
  <2>. HIDE DEF part
  <2>4. \A j \in 1..Len(part) : part[j] \in T
    <3>. TAKE j \in 1..Len(part)
    <3>1. j \in 1..k /\ j \in 1..(k - 1 + 1) /\ 1 + j - 1 = j /\ j \in 1..Len(frames)
      BY <2>1, <2>3
    <3>2. part[j] = frames[j]
      BY <2>3, <3>1
    <3>. QED
      BY <3>1, <3>2
  <2>5. /\ audio \o part \in Seq(F) /\ Len(audio \o part) = Len(audio) + Len(part)
        /\ \A i \in 1..(Len(audio) + Len(part)) :
             (audio \o part)[i] = IF i <= Len(audio) THEN audio[i] ELSE part[i - Len(audio)]
    BY <2>3, ConcatProperties
  <2>6. \A i \in 1..Len(audio \o part) : (audio \o part)[i] \in T
    <3>. TAKE i \in 1..Len(audio \o part)
    <3>1. i \in 1..(Len(audio) + Len(part))
      BY <2>5
    <3>2. CASE i <= Len(audio)
      BY <2>5, <3>1, <3>2
    <3>3. CASE ~(i <= Len(audio))
      <4>1. i - Len(audio) \in 1..Len(part)
        BY <2>1, <2>3, <3>1, <3>3
      <4>. QED
        BY <2>4, <2>5, <3>1, <3>3, <4>1
    <3>. QED
      BY <3>2, <3>3
  <2>. QED
    BY <2>5, <2>6 DEF part
<1>2. QueueSize - Len(audio) \in Int /\ Len(frames) \in Int
  BY Sizes, LenProperties
<1>3. PICK k \in Int : /\ k = IF Len(frames) < QueueSize - Len(audio) THEN Len(frames)
                              ELSE QueueSize - Len(audio)
                       /\ k <= Len(frames)
  BY <1>2
<1>4. Offered(frames) = IF worker = "gone" THEN audio ELSE audio \o SubSeq(frames, 1, k)
  BY <1>3 DEF Offered
<1>. QED
  BY <1>1, <1>3, <1>4

LEMMA SoundDelivered ==
  ASSUME SoundInv, NEW n \in Callbacks, Delivers(n)
  PROVE  SoundInv'
<1>1. PICK q \in Nat : EvenFrom(mic, Time(mic, q))
  BY DEF SoundInv, Delivers
<1>2. n \in Nat /\ mic \in Mics /\ mic.rate # 0 /\ mic.rate \in Rates /\ captures \in Nat
  BY Sizes DEF SoundInv, Delivers, Open
<1>. DEFINE w == Brought(mic, n)
<1>3. w \in Mics /\ EvenFrom(w, Time(mic, q)) /\ w.rate = mic.rate /\ w.since = mic.since
  BY <1>1, <1>2, TimeKind, BroughtEven
<1>4. mic' = [w EXCEPT !.frame = Rest(w)] /\ audio' = Offered(Frames(w)) /\ captures' = captures
  BY DEF Delivers
<1>. HIDE DEF w
<1>5. \A p \in Nat : Time(w, p) = Time(mic, p)
  BY <1>3 DEF Time
<1>6. /\ Frames(w) \in Seq(Frame)
      /\ \A i \in 1..Len(Frames(w)) : EvenFrame(Frames(w)[i], w, captures)
      /\ [w EXCEPT !.frame = Rest(w)] \in Mics
      /\ \E p \in Nat : EvenFrom([w EXCEPT !.frame = Rest(w)], Time(w, p))
  <2>1. EvenFrom(w, Time(w, q)) /\ w.rate \in Rates
    BY <1>2, <1>3, <1>5
  <2>. QED
    BY <1>2, <1>3, <2>1, FramesEven
<1>7. mic'.rate = mic.rate /\ mic'.since = mic.since
  BY <1>3, <1>4 DEF Mics
<1>8. \A p \in Nat : Time(mic', p) = Time(mic, p)
  BY <1>7 DEF Time
<1>9. \A f : EvenFrame(f, w, captures) <=> EvenFrame(f, mic', captures)
  <2>1. \A p \in Nat : Time(mic', p) = Time(w, p)
    BY <1>5, <1>8
  <2>2. mic'.rate = w.rate
    BY <1>3, <1>7
  <2>. QED
    BY <2>1, <2>2 DEF EvenFrame
<1>10. \A f : EvenFrame(f, mic, captures) <=> EvenFrame(f, mic', captures)
  BY <1>7, <1>8 DEF EvenFrame
<1>. DEFINE T == {f \in Frame : EvenFrame(f, mic', captures)}
<1>11. T \subseteq Frame /\ audio \in Seq(Frame)
  BY DEF SoundInv
<1>12. \A i \in 1..Len(audio) : audio[i] \in T
  <2>. TAKE i \in 1..Len(audio)
  <2>1. audio[i] \in Frame /\ EvenFrame(audio[i], mic, captures)
    BY <1>11, ElementOfSeq DEF SoundInv
  <2>. QED
    BY <1>10, <2>1
<1>13. \A i \in 1..Len(Frames(w)) : Frames(w)[i] \in T
  <2>. TAKE i \in 1..Len(Frames(w))
  <2>1. Frames(w)[i] \in Frame /\ EvenFrame(Frames(w)[i], w, captures)
    BY <1>6, ElementOfSeq
  <2>. QED
    BY <1>9, <2>1
<1>14. audio' \in Seq(Frame) /\ \A i \in 1..Len(audio') : audio'[i] \in T
  <2>. HIDE DEF T
  <2>. QED
    BY <1>4, <1>6, <1>11, <1>12, <1>13, OfferedKeeps
<1>15. \A i \in 1..Len(audio') : EvenFrame(audio'[i], mic', captures')
  BY <1>4, <1>14
<1>16. \E p \in Nat : EvenFrom(mic', Time(mic', p))
  BY <1>4, <1>5, <1>6, <1>8
<1>17. mic' \in Mics /\ mic'.rate \in Rates \cup {0} /\ captures' \in Nat
  BY <1>2, <1>4, <1>6, <1>7
<1>. QED
  BY <1>14, <1>15, <1>16, <1>17 DEF SoundInv, Open

LEMMA SoundOpened ==
  ASSUME SoundInv, NEW rate \in Rates, Opens(rate), UNCHANGED audio
  PROVE  SoundInv'
<1>1. mic \in Mics /\ captures \in Nat /\ rate \in Nat
  BY Sizes DEF SoundInv
<1>2. PICK h \in Nat : h = mic.had
  BY <1>1 DEF Mics
<1>3. /\ mic' = [rate |-> rate, since |-> h, had |-> h, position |-> Den, frame |-> <<>>]
      /\ captures' = captures + 1
  BY <1>2 DEF Opens
<1>4. mic' \in Mics /\ mic'.rate \in Rates
  BY <1>1, <1>3, Sizes DEF Mics
<1>5. mic'.frame = Line(Time(mic', 0), mic'.rate, Len(mic'.frame))
  <2>1. <<>> \in Seq(Int) /\ Len(<<>>) = 0
    OBVIOUS
  <2>2. Time(mic', 0) \in Int /\ mic'.rate \in Nat
    BY <1>1, <1>3, <1>4, TimeKind
  <2>3. /\ Line(Time(mic', 0), mic'.rate, 0) \in Seq(Int)
        /\ Len(Line(Time(mic', 0), mic'.rate, 0)) = 0
    BY <2>2, LineKind
  <2>4. Line(Time(mic', 0), mic'.rate, 0) = <<>>
    BY <2>3, EmptySeq
  <2>. QED
    BY <1>3, <2>1, <2>4
<1>6. Due(mic') = Time(mic', 0) + Len(mic'.frame) * mic'.rate
  <2>1. Len(mic'.frame) = 0 /\ mic'.rate = rate /\ mic'.since = h /\ mic'.had = h /\ mic'.position = Den
    BY <1>3
  <2>2. (h + 1) * Den = h * Den + 1 * Den /\ h * Den \in Int /\ 1 * Den = Den /\ Den \in Int
    BY Sizes, Spread
  <2>3. FrameSize * rate \in Nat /\ 0 * (FrameSize * rate) = 0 /\ 0 * rate = 0
    BY <1>1, Sizes, NotNegative, Spread
  <2>4. Due(mic') = (h + 1) * Den
    BY <2>1, <2>2 DEF Due
  <2>5. Time(mic', 0) = (h + 1) * Den
    BY <2>1, <2>2, <2>3 DEF Time
  <2>. QED
    BY <2>1, <2>2, <2>3, <2>4, <2>5
<1>7. EvenFrom(mic', Time(mic', 0)) /\ 0 \in Nat
  BY <1>5, <1>6 DEF EvenFrom
<1>8. audio' \in Seq(Frame) /\ \A i \in 1..Len(audio') : EvenFrame(audio'[i], mic', captures')
  <2>1. \A i \in 1..Len(audio) : EvenFrame(audio[i], mic, captures) /\ audio[i].of \in Nat
    <3>. TAKE i \in 1..Len(audio)
    <3>1. audio \in Seq(Frame) /\ EvenFrame(audio[i], mic, captures)
      BY DEF SoundInv
    <3>2. audio[i] \in Frame
      BY <3>1, ElementOfSeq
    <3>. QED
      BY <3>1, <3>2 DEF Frame
  <2>2. ASSUME NEW i \in 1..Len(audio) PROVE EvenFrame(audio[i], mic', captures')
    <3>1. audio[i].of <= captures' /\ audio[i].of # captures'
      BY <1>1, <1>3, <2>1 DEF EvenFrame
    <3>. QED
      BY <2>1, <3>1 DEF EvenFrame
  <2>. QED
    BY <2>2 DEF SoundInv
<1>. QED
  BY <1>1, <1>3, <1>4, <1>7, <1>8 DEF SoundInv

LEMMA SoundKept ==
  ASSUME SoundInv, ClosesMic \/ TakesSound
  PROVE  SoundInv'
<1>1. audio \in Seq(Frame) /\ captures' = captures
  BY DEF SoundInv, ClosesMic, TakesSound
<1>2. CASE ClosesMic
  <2>1. mic' \in Mics /\ mic'.rate = 0 /\ 0 \in Nat
    BY <1>2 DEF SoundInv, ClosesMic, None, Mics
  <2>2. \A i \in 1..Len(audio) : EvenFrame(audio[i], mic', captures)
    BY <2>1 DEF SoundInv, EvenFrame
  <2>. QED
    BY <1>1, <1>2, <2>1, <2>2 DEF SoundInv, Open, ClosesMic
<1>3. CASE TakesSound
  <2>1. ASSUME audio # <<>>
        PROVE  /\ Tail(audio) \in Seq(Frame)
               /\ \A i \in 1..Len(Tail(audio)) : EvenFrame(Tail(audio)[i], mic, captures)
    <3>1. /\ Tail(audio) \in Seq(Frame) /\ Len(Tail(audio)) = Len(audio) - 1
          /\ \A i \in 1..Len(Tail(audio)) : Tail(audio)[i] = audio[i + 1]
      BY <1>1, <2>1, HeadTailProperties
    <3>2. \A i \in 1..Len(Tail(audio)) : i + 1 \in 1..Len(audio)
      BY <1>1, <3>1, LenProperties
    <3>. QED
      BY <3>1, <3>2 DEF SoundInv
  <2>2. audio' \in Seq(Frame) /\ \A i \in 1..Len(audio') : EvenFrame(audio'[i], mic, captures)
    <3>1. CASE audio' = audio
      BY <3>1 DEF SoundInv
    <3>2. CASE audio' = <<>>
      BY <3>2
    <3>3. CASE audio # <<>> /\ audio' = Tail(audio)
      BY <2>1, <3>3
    <3>. QED
      BY <1>3, <3>1, <3>2, <3>3 DEF TakesSound
  <2>3. mic' = mic
    BY <1>3 DEF TakesSound
  <2>. QED
    BY <1>1, <2>2, <2>3 DEF SoundInv, Open
<1>. QED
  BY <1>2, <1>3

LEMMA SoundAlways == Spec => []SoundInv
<1>1. Init => SoundInv
  <2>. SUFFICES ASSUME Init PROVE SoundInv
    OBVIOUS
  <2>1. mic \in Mics /\ mic.rate = 0 /\ captures = 0 /\ audio = <<>>
    BY DEF Init, None, Mics
  <2>. QED
    BY <2>1 DEF SoundInv, Open
<1>2. SoundInv /\ [Next]_vars => SoundInv'
  BY SoundSteps, SoundDelivered, SoundOpened, SoundKept
<1>. QED
  BY <1>1, <1>2, PTL DEF Spec

\* The samples of a frame are even, and between two frames none is left out but
\* whole frames, whatever pieces the microphone brings them in: resampler and
\* cutting (audio.rs, resample.rs) carry over from one callback to the next.
THEOREM EvenlySampledHolds == Spec => []EvenlySampled
<1>1. ASSUME SoundInv PROVE EvenlySampled
  <2>. SUFFICES ASSUME NEW i \in DOMAIN audio
                PROVE  LET f == audio[i]
                           apart == f.samples[2] - f.samples[1] IN
                       /\ apart \in Rates
                       /\ \A k \in 2..FrameSize : f.samples[k] - f.samples[k - 1] = apart
                       /\ f.of = captures /\ Open =>
                            (f.samples[1] - (mic.since + 1) * Den) % (FrameSize * mic.rate) = 0
    BY DEF EvenlySampled
  <2>1. audio[i] \in Frame /\ EvenFrame(audio[i], mic, captures) /\ mic \in Mics
    <3>1. audio \in Seq(Frame) /\ i \in 1..Len(audio) /\ mic \in Mics
      BY <1>1 DEF SoundInv
    <3>. QED
      BY <1>1, <3>1, ElementOfSeq DEF SoundInv
  <2>. DEFINE samples == audio[i].samples
  <2>2. ASSUME NEW start \in Int, NEW rate \in Nat, samples = Line(start, rate, FrameSize)
        PROVE  /\ samples[1] = start
               /\ \A k \in 2..FrameSize : samples[k] - samples[k - 1] = rate
    <3>1. \A k \in 1..FrameSize : samples[k] = start + (k - 1) * rate
      BY <2>2, LineKind, Sizes
    <3>. HIDE DEF samples
    <3>2. samples[1] = start
      <4>1. samples[1] = start + (1 - 1) * rate
        BY <3>1, Sizes
      <4>. QED
        BY <4>1
    <3>3. ASSUME NEW k \in 2..FrameSize PROVE samples[k] - samples[k - 1] = rate
      <4>1. samples[k] = start + (k - 1) * rate /\ samples[k - 1] = start + ((k - 1) - 1) * rate
        BY <3>1, Sizes
      <4>2. ((k - 1) - 1) * rate + 1 * rate = (k - 1) * rate
        BY Spread
      <4>3. ((k - 1) - 1) * rate \in Int
        BY Spread
      <4>. QED
        BY <4>1, <4>2, <4>3
    <3>. QED
      BY <3>2, <3>3
  <2>3. PICK start \in Int, rate \in Rates : samples = Line(start, rate, FrameSize)
    BY <2>1 DEF EvenFrame
  <2>4. \A k \in 2..FrameSize : samples[k] - samples[k - 1] = rate
    <3>1. rate \in Nat
      BY Sizes
    <3>. QED
      BY <2>2, <2>3, <3>1
  <2>5. samples[2] - samples[1] = rate
    <3>1. 2 \in 2..FrameSize /\ 2 - 1 = 1
      BY Sizes
    <3>. QED
      BY <2>4, <3>1
  <2>6. ASSUME audio[i].of = captures, Open
        PROVE  (samples[1] - (mic.since + 1) * Den) % (FrameSize * mic.rate) = 0
    <3>1. PICK q \in Nat : samples = Line(Time(mic, q), mic.rate, FrameSize)
      BY <2>1, <2>6 DEF EvenFrame, Open
    <3>2. PICK r \in Nat \ {0}, s \in Nat : r = mic.rate /\ s = mic.since
      BY <2>1, <2>6 DEF Mics, Open
    <3>3. samples[1] = Time(mic, q)
      BY <2>1, <2>2, <3>1, <3>2, TimeKind
    <3>4. PICK size \in Nat \ {0} : size = FrameSize * r
      <4>1. PICK f \in Nat : FrameSize = f + 1
        BY Sizes
      <4>2. (f + 1) * r = f * r + 1 * r /\ f * r \in Nat /\ 1 * r = r
        BY Spread, NotNegative
      <4>3. FrameSize * r = f * r + r
        BY <4>1, <4>2
      <4>4. FrameSize * r \in Nat \ {0}
        BY <4>2, <4>3
      <4>. QED
        BY <4>4
    <3>5. PICK first \in Int : first = (s + 1) * Den
      BY Sizes, Spread
    <3>6. q * size \in Int /\ Time(mic, q) = first + q * size
      BY <3>2, <3>4, <3>5, NotNegative DEF Time
    <3>7. Time(mic, q) - first = q * size
      BY <3>6
    <3>. QED
      BY <3>2, <3>3, <3>4, <3>5, <3>7, NothingOver
  <2>. QED
    BY <2>3, <2>4, <2>5, <2>6
<1>. QED
  BY <1>1, SoundAlways, PTL

(***************************************************************************)
(* The gate.                                                               *)
(***************************************************************************)
Every(h, level, first, last) == \A i \in first..last : h[i].level = level
Spoke(h, on) == Every(h, "high", on - MinSpeech + 1, on)
Fell(h, off) == Every(h, "low", off - MinSilence + 1, off)

\* What the gate has made of the first n windows of h, if it speaks and if not:
\* the counter is exactly the run the last windows are, and the speech that has
\* begun has not ended, or every one has.
Speaks(h, n, r) ==
  /\ r < MinSilence /\ r < n
  /\ Every(h, "low", n - r + 1, n) /\ h[n - r].level # "low"
  /\ \E on \in MinSpeech..(n - r) : Spoke(h, on) /\ \A off \in (on + MinSilence)..n : ~Fell(h, off)
Waits(h, n, r) ==
  /\ r < MinSpeech /\ r <= n
  /\ Every(h, "high", n - r + 1, n) /\ (r < n => h[n - r].level # "high")
  /\ \A on \in MinSpeech..n : Spoke(h, on) => \E off \in (on + MinSilence)..n : Fell(h, off)

\* The window that opens the gate is the last of enough.
LEMMA WaitsSpoke ==
  ASSUME NEW h, NEW n \in Nat, NEW r \in Nat, Waits(h, n, r),
         h[n + 1].level = "high", r + 1 >= MinSpeech
  PROVE  Spoke(h, n + 1) /\ MinSpeech <= n + 1
<1>1. MinSpeech \in Nat \ {0}
  BY Sizes
<1>2. \A i \in (n + 1 - MinSpeech + 1)..(n + 1) : i \in (n - r + 1)..n \/ i = n + 1
  BY <1>1
<1>3. \A i \in (n - r + 1)..n : h[i].level = "high"
  BY DEF Waits, Every
<1>4. r <= n
  BY DEF Waits
<1>. QED
  BY <1>1, <1>2, <1>3, <1>4 DEF Every, Spoke

\* One window more, of a gate that does not speak ...
LEMMA WaitsOn ==
  ASSUME NEW h, NEW n \in Nat, NEW r \in Nat, Waits(h, n, r)
  PROVE  /\ h[n + 1].level # "high" => Waits(h, n + 1, 0)
         /\ h[n + 1].level = "high" /\ r + 1 < MinSpeech => Waits(h, n + 1, r + 1)
         /\ h[n + 1].level = "high" /\ r + 1 >= MinSpeech => Speaks(h, n + 1, 0)
<1>1. MinSpeech \in Nat \ {0} /\ MinSilence \in Nat \ {0}
  BY Sizes
<1>2. \A on \in MinSpeech..n : Spoke(h, on) => \E off \in (on + MinSilence)..(n + 1) : Fell(h, off)
  <2>1. \A on : \A off \in (on + MinSilence)..n : off \in (on + MinSilence)..(n + 1)
    OBVIOUS
  <2>. QED
    BY <2>1 DEF Waits
<1>3. \A on \in MinSpeech..(n + 1) : on \in MinSpeech..n \/ on = n + 1
  BY <1>1
<1>4. CASE h[n + 1].level # "high"
  <2>1. ~Spoke(h, n + 1)
    BY <1>1, <1>4 DEF Spoke, Every
  <2>2. Every(h, "high", n + 1 - 0 + 1, n + 1)
    BY DEF Every
  <2>3. n + 1 - 0 = n + 1
    OBVIOUS
  <2>. QED
    BY <1>1, <1>2, <1>3, <1>4, <2>1, <2>2, <2>3 DEF Waits
<1>5. CASE h[n + 1].level = "high" /\ r + 1 < MinSpeech
  <2>1. ~(n + 1 \in MinSpeech..(n + 1) /\ Spoke(h, n + 1))
    <3>1. CASE r < n
      <4>1. n - r \in ((n + 1) - MinSpeech + 1)..(n + 1) /\ h[n - r].level # "high"
        BY <1>1, <1>5, <3>1 DEF Waits
      <4>. QED
        BY <4>1 DEF Spoke, Every
    <3>2. CASE ~(r < n)
      BY <1>1, <1>5, <3>2 DEF Waits
    <3>. QED
      BY <3>1, <3>2
  <2>2. Every(h, "high", n + 1 - (r + 1) + 1, n + 1)
    <3>1. \A i \in (n + 1 - (r + 1) + 1)..(n + 1) : i \in (n - r + 1)..n \/ i = n + 1
      OBVIOUS
    <3>. QED
      BY <1>5, <3>1 DEF Waits, Every
  <2>3. n + 1 - (r + 1) = n - r /\ (r + 1 < n + 1 => r < n) /\ r + 1 <= n + 1
    BY DEF Waits
  <2>4. r + 1 < n + 1 => h[n + 1 - (r + 1)].level # "high"
    BY <2>3 DEF Waits
  <2>5. \A on \in MinSpeech..(n + 1) :
          Spoke(h, on) => \E off \in (on + MinSilence)..(n + 1) : Fell(h, off)
    BY <1>2, <1>3, <2>1
  <2>6. Waits(h, n + 1, r + 1)
    BY <1>5, <2>2, <2>3, <2>4, <2>5 DEF Waits
  <2>. QED
    BY <1>1, <1>5, <2>6
<1>6. CASE h[n + 1].level = "high" /\ r + 1 >= MinSpeech
  <2>1. Spoke(h, n + 1)
    BY <1>6, WaitsSpoke
  <2>2. n + 1 \in MinSpeech..(n + 1 - 0) /\ \A off \in (n + 1 + MinSilence)..(n + 1) : ~Fell(h, off)
    BY <1>1, <1>6 DEF Waits
  <2>3. Every(h, "low", n + 1 - 0 + 1, n + 1)
    BY DEF Every
  <2>4. n + 1 - 0 = n + 1 /\ 0 < MinSilence /\ 0 < n + 1
    BY <1>1
  <2>. QED
    <3>1. h[n + 1 - 0].level # "low"
      BY <1>6, <2>4
    <3>2. Speaks(h, n + 1, 0)
      BY <2>1, <2>2, <2>3, <2>4, <3>1 DEF Speaks
    <3>. QED
      BY <1>1, <1>6, <3>2
<1>. QED
  BY <1>4, <1>5, <1>6

\* ... and of one that does.
LEMMA SpeaksOn ==
  ASSUME NEW h, NEW n \in Nat, NEW r \in Nat, Speaks(h, n, r)
  PROVE  /\ h[n + 1].level # "low" => Speaks(h, n + 1, 0)
         /\ h[n + 1].level = "low" /\ r + 1 < MinSilence => Speaks(h, n + 1, r + 1)
         /\ h[n + 1].level = "low" /\ r + 1 >= MinSilence => Waits(h, n + 1, 0)
<1>1. MinSpeech \in Nat \ {0} /\ MinSilence \in Nat \ {0}
  BY Sizes
<1>2. PICK on \in MinSpeech..(n - r) :
        Spoke(h, on) /\ \A off \in (on + MinSilence)..n : ~Fell(h, off)
  BY DEF Speaks
<1>3. \A off \in (on + MinSilence)..(n + 1) : off \in (on + MinSilence)..n \/ off = n + 1
  BY <1>1
<1>4. CASE h[n + 1].level # "low"
  <2>1. ~Fell(h, n + 1)
    BY <1>1, <1>4 DEF Fell, Every
  <2>2. on \in MinSpeech..(n + 1 - 0) /\ \A off \in (on + MinSilence)..(n + 1) : ~Fell(h, off)
    BY <1>2, <1>3, <2>1
  <2>3. Every(h, "low", n + 1 - 0 + 1, n + 1)
    BY DEF Every
  <2>4. n + 1 - 0 = n + 1 /\ 0 < MinSilence /\ 0 < n + 1
    BY <1>1
  <2>. QED
    BY <1>2, <1>4, <2>2, <2>3, <2>4 DEF Speaks
<1>5. CASE h[n + 1].level = "low" /\ r + 1 < MinSilence
  <2>1. ~Fell(h, n + 1)
    <3>1. n - r \in ((n + 1) - MinSilence + 1)..(n + 1) /\ h[n - r].level # "low"
      BY <1>1, <1>5 DEF Speaks
    <3>. QED
      BY <3>1 DEF Fell, Every
  <2>2. \A off \in (on + MinSilence)..(n + 1) : ~Fell(h, off)
    BY <1>2, <1>3, <2>1
  <2>3. Every(h, "low", n + 1 - (r + 1) + 1, n + 1)
    <3>1. \A i \in (n + 1 - (r + 1) + 1)..(n + 1) : i \in (n - r + 1)..n \/ i = n + 1
      OBVIOUS
    <3>. QED
      BY <1>5, <3>1 DEF Speaks, Every
  <2>4. n + 1 - (r + 1) = n - r /\ r + 1 < n + 1
    BY DEF Speaks
  <2>5. h[n + 1 - (r + 1)].level # "low" /\ on \in MinSpeech..(n + 1 - (r + 1))
    BY <2>4 DEF Speaks
  <2>. QED
    <3>1. Speaks(h, n + 1, r + 1)
      BY <1>2, <1>5, <2>2, <2>3, <2>4, <2>5 DEF Speaks
    <3>. QED
      BY <1>1, <1>5, <3>1
<1>6. CASE h[n + 1].level = "low" /\ r + 1 >= MinSilence
  <2>1. Fell(h, n + 1)
    <3>1. \A i \in (n + 1 - MinSilence + 1)..(n + 1) : i \in (n - r + 1)..n \/ i = n + 1
      BY <1>1, <1>6
    <3>2. \A i \in (n - r + 1)..n : h[i].level = "low"
      BY DEF Speaks, Every
    <3>. QED
      BY <1>1, <1>6, <3>1, <3>2 DEF Every, Fell
  <2>2. ASSUME NEW o \in MinSpeech..(n + 1), Spoke(h, o)
        PROVE  \E off \in (o + MinSilence)..(n + 1) : Fell(h, off)
    <3>1. h[o].level = "high"
      BY <1>1, <2>2 DEF Spoke, Every
    <3>2. ~(o \in (n - r + 1)..(n + 1))
      <4>1. \A i \in (n - r + 1)..(n + 1) : h[i].level = "low"
        <5>1. \A i \in (n - r + 1)..(n + 1) : i \in (n - r + 1)..n \/ i = n + 1
          OBVIOUS
        <5>. QED
          BY <1>6, <5>1 DEF Speaks, Every
      <4>. QED
        BY <3>1, <4>1
    <3>3. n + 1 \in (o + MinSilence)..(n + 1)
      BY <1>1, <1>6, <3>2 DEF Speaks
    <3>. QED
      BY <2>1, <3>3
  <2>3. Every(h, "high", n + 1 - 0 + 1, n + 1)
    BY DEF Every
  <2>4. n + 1 - 0 = n + 1 /\ 0 < MinSpeech /\ 0 <= n + 1
    BY <1>1
  <2>. QED
    <3>1. 0 < n + 1 => h[n + 1 - 0].level # "high"
      BY <1>6, <2>4
    <3>2. Waits(h, n + 1, 0)
      BY <2>2, <2>3, <2>4, <3>1 DEF Waits
    <3>. QED
      BY <1>1, <1>6, <3>2
<1>. QED
  BY <1>4, <1>5, <1>6

\* What a probability makes of the gate, and of what the controller was told: no
\* frame holds both an end and the start of the next speech.
Gates == [speaking : BOOLEAN, run : Nat, event : {"none", "started", "ended"}]

LEMMA PushedGate ==
  ASSUME NEW g \in Gates, NEW level
  PROVE  /\ Pushed(g, level) \in Gates
         /\ Pushed(g, level).event = "started" =>
              ~g.speaking /\ g.run + 1 >= MinSpeech /\ Pushed(g, level).speaking
         /\ Pushed(g, level).event = "ended" =>
              ~Pushed(g, level).speaking /\ Pushed(g, level).run = 0
         /\ Pushed(g, level).event = "none" =>
              Pushed(g, level).speaking = g.speaking /\ Pushed(g, level).run <= g.run + 1
<1>1. PICK s \in BOOLEAN, r \in Nat : g.speaking = s /\ g.run = r
  BY DEF Gates
<1>2. CASE ~s
  <2>1. CASE level # "high"
    <3>1. Pushed(g, level) = [speaking |-> FALSE, run |-> 0, event |-> "none"]
      BY <1>1, <1>2, <2>1 DEF Pushed
    <3>2. g.speaking = FALSE /\ 0 <= g.run + 1
      BY <1>1, <1>2
    <3>. DEFINE after == Pushed(g, level)
    <3>3. after \in Gates
      BY <3>1, <3>2 DEF Gates
    <3>4. after.event = "none" /\ after.speaking = g.speaking
      <4>1. after.event = "none"
        BY <3>1
      <4>2. after.speaking = FALSE
        BY <3>1
      <4>. QED
        BY <3>2, <4>1, <4>2, Zenon
    <3>5. after.run <= g.run + 1
      BY <3>1, <3>2
    <3>. HIDE DEF after
    <3>6. after.event # "started" /\ after.event # "ended"
      BY <3>4
    <3>7. after \in Gates /\ after.speaking = g.speaking /\ after.run <= g.run + 1
      BY <3>3, <3>4, <3>5
    <3>. QED
      BY <3>6, <3>7 DEF after
  <2>2. CASE level = "high" /\ r + 1 >= MinSpeech
    BY <1>1, <1>2, <2>2, Sizes DEF Pushed, Gates
  <2>3. CASE level = "high" /\ ~(r + 1 >= MinSpeech)
    <3>1. Pushed(g, level) = [speaking |-> FALSE, run |-> r + 1, event |-> "none"]
      BY <1>1, <1>2, <2>3, Sizes DEF Pushed
    <3>2. g.speaking = FALSE /\ r + 1 <= g.run + 1 /\ r + 1 \in Nat
      BY <1>1, <1>2
    <3>. DEFINE after == Pushed(g, level)
    <3>3. after \in Gates
      BY <3>1, <3>2 DEF Gates
    <3>4. after.event = "none" /\ after.speaking = g.speaking
      <4>1. after.event = "none"
        BY <3>1
      <4>2. after.speaking = FALSE
        BY <3>1
      <4>. QED
        BY <3>2, <4>1, <4>2, Zenon
    <3>5. after.run <= g.run + 1
      BY <3>1, <3>2
    <3>. HIDE DEF after
    <3>6. after.event # "started" /\ after.event # "ended"
      BY <3>4
    <3>7. after \in Gates /\ after.speaking = g.speaking /\ after.run <= g.run + 1
      BY <3>3, <3>4, <3>5
    <3>. QED
      BY <3>6, <3>7 DEF after
  <2>. QED
    BY <2>1, <2>2, <2>3
<1>3. CASE s
  BY <1>1, <1>3, Sizes DEF Pushed, Gates
<1>. QED
  BY <1>2, <1>3

AtGate(h, n, s, r) == IF s THEN Speaks(h, n, r) ELSE Waits(h, n, r)

LEMMA PushedAtGate ==
  ASSUME NEW g \in Gates, NEW h, NEW n \in Nat, AtGate(h, n, g.speaking, g.run)
  PROVE  AtGate(h, n + 1, Pushed(g, h[n + 1].level).speaking, Pushed(g, h[n + 1].level).run)
<1>1. PICK s \in BOOLEAN, r \in Nat : g.speaking = s /\ g.run = r
  BY DEF Gates
<1>2. CASE ~s
  <2>1. Waits(h, n, r)
    BY <1>1, <1>2 DEF AtGate
  <2>2. CASE h[n + 1].level # "high"
    BY <1>1, <1>2, <2>1, <2>2, WaitsOn DEF Pushed, AtGate
  <2>3. CASE h[n + 1].level = "high" /\ r + 1 < MinSpeech
    BY <1>1, <1>2, <2>1, <2>3, WaitsOn, Sizes DEF Pushed, AtGate
  <2>4. CASE h[n + 1].level = "high" /\ r + 1 >= MinSpeech
    BY <1>1, <1>2, <2>1, <2>4, WaitsOn, Sizes DEF Pushed, AtGate
  <2>. QED
    BY <2>2, <2>3, <2>4, Sizes
<1>3. CASE s
  <2>1. Speaks(h, n, r)
    BY <1>1, <1>3 DEF AtGate
  <2>2. CASE h[n + 1].level # "low"
    BY <1>1, <1>3, <2>1, <2>2, SpeaksOn DEF Pushed, AtGate
  <2>3. CASE h[n + 1].level = "low" /\ r + 1 < MinSilence
    BY <1>1, <1>3, <2>1, <2>3, SpeaksOn, Sizes DEF Pushed, AtGate
  <2>4. CASE h[n + 1].level = "low" /\ r + 1 >= MinSilence
    BY <1>1, <1>3, <2>1, <2>4, SpeaksOn, Sizes DEF Pushed, AtGate
  <2>. QED
    BY <2>2, <2>3, <2>4, Sizes
<1>. QED
  BY <1>2, <1>3

\* The course of the gate over the windows of a frame, step by step.
Now == [speaking |-> speaking, run |-> run, event |-> "none"]

LEMMA CourseSteps ==
  ASSUME NEW W, NEW windows \in Seq(W), NEW n \in Nat, n = Len(windows), Now \in Gates
  PROVE  /\ DOMAIN Course(windows) = 0..n /\ Course(windows)[0] = Now
         /\ \A i \in 1..n : /\ Course(windows)[i] = Pushed(Course(windows)[i - 1], windows[i].level)
                            /\ Course(windows)[i - 1] \in Gates /\ Course(windows)[i] \in Gates
<1>. DEFINE step == [i \in 1..n |-> [g \in Gates |-> Pushed(g, windows[i].level)]]
            Is(f) == f = [i \in 0..n |-> IF i = 0 THEN Now ELSE Pushed(f[i - 1], windows[i].level)]
            course == CHOOSE f : Is(f)
<1>1. \A g \in Gates : \A level : Pushed(g, level) \in Gates
  BY PushedGate
<1>2. step \in [1..n -> [Gates -> Gates]]
  BY <1>1
<1>3. PICK f \in [0..n -> Gates] : Begins(f, n, Now, step)
  <2>. HIDE DEF step
  <2>. QED
    BY <1>2, Recursion, Zenon
<1>4. Is(f)
  <2>1. \A i \in 1..n : i - 1 \in 0..n /\ f[i - 1] \in Gates
    OBVIOUS
  <2>2. \A i \in 1..n : step[i][f[i - 1]] = Pushed(f[i - 1], windows[i].level)
    BY <2>1
  <2>3. \A i \in 0..n : f[i] = IF i = 0 THEN Now ELSE step[i][f[i - 1]]
    BY <1>3 DEF Begins
  <2>. HIDE DEF step
  <2>4. \A i \in 0..n : f[i] = IF i = 0 THEN Now ELSE Pushed(f[i - 1], windows[i].level)
    <3>1. \A i \in 0..n : i # 0 => i \in 1..n
      OBVIOUS
    <3>. QED
      BY <2>2, <2>3, <3>1
  <2>. QED
    BY <2>4
<1>5. Is(course)
  BY <1>4
<1>6. Course(windows) = course
  BY DEF Course, Now
<1>. HIDE DEF course
<1>7. /\ DOMAIN course = 0..n /\ course[0] = Now
      /\ \A i \in 1..n : course[i] = Pushed(course[i - 1], windows[i].level)
  BY <1>5
<1>8. \A i \in 0..n : course[i] \in Gates
  <2>. DEFINE T == {i \in 0..n : course[i] \in Gates}
  <2>1. 0 \in T
    BY <1>7
  <2>2. \A i \in 1..n : i - 1 \in T => i \in T
    BY <1>1, <1>7
  <2>. HIDE DEF T
  <2>3. \A i \in 0..n : i \in T
    BY <2>1, <2>2, Induction
  <2>. QED
    BY <2>3 DEF T
<1>. QED
  BY <1>6, <1>7, <1>8

\* What the controller is told of a course is what has become of the gate, ...
LEMMA CourseTold ==
  ASSUME NEW W, NEW windows \in Seq(W), NEW n \in Nat, n = Len(windows), n <= MinSpeech,
         Now \in Gates, told = speaking
  PROVE  Tell(Course(windows)) = Course(windows)[n].speaking
<1>. DEFINE course == Course(windows)
            had(what, i) == \E j \in 0..i : course[j].event = what
            so(i) == /\ had("ended", i) => ~course[i].speaking /\ course[i].run < i
                     /\ ~had("ended", i) /\ had("started", i) => course[i].speaking
                     /\ ~had("ended", i) /\ ~had("started", i) => course[i].speaking = speaking
            T == {i \in 0..n : so(i)}
<1>1. /\ DOMAIN course = 0..n /\ course[0] = Now
      /\ \A i \in 1..n : /\ course[i] = Pushed(course[i - 1], windows[i].level)
                         /\ course[i - 1] \in Gates /\ course[i] \in Gates
  BY CourseSteps
<1>. HIDE DEF course
<1>2. 0 \in T
  BY <1>1 DEF Now
<1>3. ASSUME NEW i \in 1..n, i - 1 \in T PROVE i \in T
  <2>. DEFINE before == course[i - 1]
              after == course[i]
  <2>1. /\ before \in Gates /\ after \in Gates
        /\ after.event = "started" => ~before.speaking /\ before.run + 1 >= MinSpeech /\ after.speaking
        /\ after.event = "ended" => ~after.speaking /\ after.run = 0
        /\ after.event = "none" => after.speaking = before.speaking /\ after.run <= before.run + 1
    BY <1>1, PushedGate
  <2>2. \A what : had(what, i) <=> had(what, i - 1) \/ after.event = what
    <3>1. \A j \in 0..i : j \in 0..(i - 1) \/ j = i
      OBVIOUS
    <3>2. i \in 0..i /\ \A j \in 0..(i - 1) : j \in 0..i
      OBVIOUS
    <3>. QED
      BY <3>1, <3>2
  <2>3. so(i - 1)
    BY <1>3
  <2>4. PICK r \in Nat, p \in Nat : after.run = r /\ before.run = p
    BY <2>1 DEF Gates
  <2>5. after.event \in {"none", "started", "ended"}
    BY <2>1 DEF Gates
  <2>. HIDE DEF had, before, after
  <2>6. /\ had("ended", i - 1) => ~before.speaking /\ p < i - 1
        /\ ~had("ended", i - 1) /\ had("started", i - 1) => before.speaking
        /\ ~had("ended", i - 1) /\ ~had("started", i - 1) => before.speaking = speaking
    BY <2>3, <2>4 DEF before
  <2>7. /\ had("ended", i) => ~after.speaking /\ r < i
        /\ ~had("ended", i) /\ had("started", i) => after.speaking
        /\ ~had("ended", i) /\ ~had("started", i) => after.speaking = speaking
    <3>1. CASE after.event = "none"
      BY <2>1, <2>2, <2>4, <2>6, <3>1
    <3>2. CASE after.event = "ended"
      BY <2>1, <2>2, <2>4, <3>2
    <3>3. CASE after.event = "started"
      <4>1. ~had("ended", i)
        BY <2>1, <2>2, <2>4, <2>6, <3>3, Sizes
      <4>. QED
        BY <2>1, <3>3, <4>1, <2>2
    <3>. QED
      BY <2>5, <3>1, <3>2, <3>3
  <2>. QED
    BY <2>4, <2>7 DEF after
<1>4. so(n)
  <2>1. \A i \in 0..n : i \in T
    <3>. HIDE DEF T
    <3>. QED
      BY <1>2, <1>3, Induction
  <2>. QED
    BY <2>1
<1>5. \A what : Had(course, what) <=> had(what, n)
  BY <1>1 DEF Had
<1>6. course[n] \in Gates
  <2>1. n = 0 \/ n \in 1..n
    OBVIOUS
  <2>. QED
    BY <1>1, <2>1
<1>7. course[n].speaking \in BOOLEAN
  BY <1>6 DEF Gates
<1>. HIDE DEF had
<1>. QED
  BY <1>4, <1>5, <1>7 DEF Tell, course

\* ... which is what its windows make of it.
LEMMA CourseAtGate ==
  ASSUME NEW W, history \in Seq(W), NEW windows \in Seq(W), NEW n \in Nat, n = Len(windows),
         NEW l \in Nat, l = Len(history), Now \in Gates, AtGate(history, l, speaking, run)
  PROVE  \A i \in 0..n :
           /\ Course(windows)[i] \in Gates
           /\ AtGate(history \o windows, l + i, Course(windows)[i].speaking, Course(windows)[i].run)
<1>. DEFINE course == Course(windows)
            h == history \o windows
            T == {i \in 0..n : course[i] \in Gates /\ AtGate(h, l + i, course[i].speaking, course[i].run)}
<1>1. /\ course[0] = Now
      /\ \A i \in 1..n : /\ course[i] = Pushed(course[i - 1], windows[i].level)
                         /\ course[i - 1] \in Gates /\ course[i] \in Gates
  BY CourseSteps
<1>2. /\ \A i \in 1..l : h[i] = history[i]
      /\ \A i \in 1..n : h[l + i] = windows[i]
  BY ConcatProperties
<1>. HIDE DEF course, h
<1>3. 0 \in T
  <2>1. l + 0 = l /\ course[0].speaking = speaking /\ course[0].run = run /\ run \in Nat
    BY <1>1 DEF Now, Gates
  <2>2. ASSUME NEW level, NEW a \in Nat \ {0}, NEW b \in Int, b <= l
        PROVE  Every(h, level, a, b) <=> Every(history, level, a, b)
    <3>1. \A i \in a..b : h[i] = history[i]
      BY <1>2, <2>2
    <3>. QED
      BY <3>1 DEF Every
  <2>3. \A on \in MinSpeech..l : Spoke(h, on) <=> Spoke(history, on)
    <3>. TAKE on \in MinSpeech..l
    <3>1. on - MinSpeech + 1 \in Nat \ {0} /\ on \in Int /\ on <= l
      BY Sizes
    <3>. QED
      BY <2>2, <3>1 DEF Spoke
  <2>4. \A off \in MinSilence..l : Fell(h, off) <=> Fell(history, off)
    <3>. TAKE off \in MinSilence..l
    <3>1. off - MinSilence + 1 \in Nat \ {0} /\ off \in Int /\ off <= l
      BY Sizes
    <3>. QED
      BY <2>2, <3>1 DEF Fell
  <2>5. \A on \in MinSpeech..l : \A off \in (on + MinSilence)..l : Fell(h, off) <=> Fell(history, off)
    BY <2>4, Sizes
  <2>6. ASSUME speaking PROVE AtGate(h, l, speaking, run)
    <3>1. Speaks(history, l, run)
      BY <2>6 DEF AtGate
    <3>2. run \in Nat /\ run < l /\ l - run \in 1..l /\ l - run + 1 \in Nat \ {0}
      BY <2>1, <3>1 DEF Speaks
    <3>3. Every(h, "low", l - run + 1, l) /\ h[l - run] = history[l - run]
      BY <1>2, <2>2, <3>1, <3>2 DEF Speaks
    <3>4. \E on \in MinSpeech..(l - run) : Spoke(h, on) /\ \A off \in (on + MinSilence)..l : ~Fell(h, off)
      <4>1. PICK on \in MinSpeech..(l - run) :
              Spoke(history, on) /\ \A off \in (on + MinSilence)..l : ~Fell(history, off)
        BY <3>1 DEF Speaks
      <4>2. on \in MinSpeech..l
        BY <3>2, Sizes
      <4>. QED
        BY <2>3, <2>5, <4>1, <4>2
    <3>5. Speaks(h, l, run)
      BY <3>1, <3>3, <3>4 DEF Speaks
    <3>. QED
      BY <2>6, <3>5 DEF AtGate
  <2>7. ASSUME ~speaking PROVE AtGate(h, l, speaking, run)
    <3>1. Waits(history, l, run)
      BY <2>7 DEF AtGate
    <3>2. run \in Nat /\ run <= l /\ l - run + 1 \in Nat \ {0} /\ (run < l => l - run \in 1..l)
      BY <2>1, <3>1 DEF Waits
    <3>3. Every(h, "high", l - run + 1, l) /\ (run < l => h[l - run] = history[l - run])
      <4>1. Every(h, "high", l - run + 1, l)
        BY <2>2, <3>1, <3>2 DEF Waits
      <4>. QED
        BY <1>2, <3>2, <4>1
    <3>4. \A on \in MinSpeech..l : Spoke(h, on) => \E off \in (on + MinSilence)..l : Fell(h, off)
      BY <2>3, <2>5, <3>1 DEF Waits
    <3>5. Waits(h, l, run)
      BY <3>1, <3>3, <3>4 DEF Waits
    <3>. QED
      BY <2>7, <3>5 DEF AtGate
  <2>8. AtGate(h, l + 0, course[0].speaking, course[0].run)
    BY <2>1, <2>6, <2>7
  <2>. QED
    BY <1>1, <2>8
<1>4. \A i \in 1..n : i - 1 \in T => i \in T
  <2>. SUFFICES ASSUME NEW i \in 1..n, i - 1 \in T PROVE i \in T
    OBVIOUS
  <2>1. PICK k \in Nat : k = l + (i - 1) /\ k + 1 = l + i
    <3>1. l + (i - 1) \in Nat /\ l + (i - 1) + 1 = l + i
      OBVIOUS
    <3>. QED
      BY <3>1
  <2>2. course[i - 1] \in Gates /\ AtGate(h, k, course[i - 1].speaking, course[i - 1].run)
    BY <2>1
  <2>3. course[i] = Pushed(course[i - 1], h[k + 1].level)
    BY <1>1, <1>2, <2>1
  <2>4. AtGate(h, k + 1, course[i].speaking, course[i].run)
    BY <2>2, <2>3, PushedAtGate
  <2>. QED
    BY <1>1, <2>1, <2>4
<1>5. \A i \in 0..n : i \in T
  <2>. HIDE DEF T
  <2>. QED
    BY <1>3, <1>4, Induction
<1>. QED
  BY <1>5 DEF course, h

\* A start of speech is told of the window that makes the windows enough.
LEMMA StartSpoke ==
  ASSUME NEW W, history \in Seq(W), NEW windows \in Seq(W), NEW n \in Nat, n = Len(windows),
         NEW l \in Nat, l = Len(history), Now \in Gates, AtGate(history, l, speaking, run),
         Had(Course(windows), "started")
  PROVE  \E on \in (l + 1)..(l + n) : Spoke(history \o windows, on) /\ MinSpeech <= on
<1>. DEFINE course == Course(windows)
            h == history \o windows
<1>1. /\ DOMAIN course = 0..n /\ course[0] = Now
      /\ \A i \in 1..n : /\ course[i] = Pushed(course[i - 1], windows[i].level)
                         /\ course[i - 1] \in Gates /\ course[i] \in Gates
  BY CourseSteps
<1>2. \A i \in 0..n : AtGate(h, l + i, course[i].speaking, course[i].run)
  BY CourseAtGate
<1>3. \A i \in 1..n : h[l + i] = windows[i]
  BY ConcatProperties
<1>. HIDE DEF h
<1>4. PICK i \in 1..n : course[i].event = "started"
  <2>1. PICK i \in 0..n : course[i].event = "started"
    BY <1>1 DEF Had
  <2>2. i # 0
    BY <1>1, <2>1 DEF Now
  <2>. QED
    BY <2>1, <2>2
<1>. HIDE DEF course
<1>5. PICK k \in Nat, r \in Nat, g \in Gates :
        k = l + (i - 1) /\ k + 1 = l + i /\ g = course[i - 1] /\ r = g.run
  <2>1. l + (i - 1) \in Nat /\ l + (i - 1) + 1 = l + i
    OBVIOUS
  <2>2. course[i - 1] \in Gates
    BY <1>1
  <2>3. course[i - 1].run \in Nat
    BY <2>2 DEF Gates
  <2>. QED
    BY <2>1, <2>2, <2>3
<1>6. Pushed(g, windows[i].level).event = "started"
  BY <1>1, <1>4, <1>5
<1>7. ~g.speaking /\ r + 1 >= MinSpeech
  BY <1>5, <1>6, PushedGate
<1>8. windows[i].level = "high"
  BY <1>6, <1>7 DEF Pushed
<1>9. Waits(h, k, r)
  <2>1. i - 1 \in 0..n /\ AtGate(h, k, g.speaking, r)
    BY <1>2, <1>5
  <2>. QED
    BY <1>7, <2>1 DEF AtGate
<1>10. h[k + 1].level = "high"
  BY <1>3, <1>5, <1>8
<1>11. Spoke(h, k + 1) /\ MinSpeech <= k + 1
  BY <1>7, <1>9, <1>10, WaitsSpoke
<1>12. k + 1 \in (l + 1)..(l + n)
  BY <1>5
<1>. QED
  BY <1>11, <1>12 DEF h

(***************************************************************************)
(* The worker: every whole window of the frames it takes is judged, and    *)
(* ends in the frame it is judged with.                                    *)
(***************************************************************************)
Window == [level : Levels, end : Int]
Event == [of : Nat, samples : Seq(Int), windows : Seq(Window)]
\* How the windows of a frame lie in it.
Judged(e) ==
  /\ e \in Event /\ Len(e.samples) = FrameSize /\ Len(e.windows) <= MinSpeech
  /\ FrameSize < (Len(e.windows) + 1) * Hop
  /\ \A j \in 1..Len(e.windows) : \E p \in 1..FrameSize :
       /\ e.windows[j].end = e.samples[p]
       /\ FrameSize - p < (Len(e.windows) - j + 1) * Hop

WorkInv ==
  /\ carry \in Seq(Int) /\ Len(carry) < Hop
  /\ events \in Seq(Event \cup {Failure})
  /\ \A i \in 1..Len(events) : events[i] # Failure => Judged(events[i])

\* No frame has windows for an end of speech and a start.
LEMMA FewWindows ==
  ASSUME NEW W, NEW levels \in BoundedSeq(W, (FrameSize + Hop - 1) \div Hop)
  PROVE  levels \in Seq(W) /\ Len(levels) <= MinSpeech
<1>1. PICK d \in Nat, over \in 0..(Hop - 1) :
        (FrameSize + Hop - 1) \div Hop = d /\ FrameSize + Hop - 1 = d * Hop + over
  <2>1. FrameSize + Hop - 1 \in Nat /\ Hop \in Nat \ {0}
    BY Sizes
  <2>. QED
    BY <2>1, Divide
<1>2. PICK m \in 0..d : levels \in [1..m -> W]
  BY <1>1 DEF BoundedSeq, SeqOf
<1>3. levels \in Seq(W) /\ Len(levels) = m
  BY <1>2
<1>4. d <= MinSpeech
  <2>. SUFFICES ASSUME d - MinSpeech - 1 \in Nat PROVE FALSE
    BY <1>1, Sizes
  <2>1. (d - MinSpeech - 1) * Hop \in Nat
    BY Sizes, NotNegative
  <2>2. (d - MinSpeech - 1) * Hop + (MinSpeech + 1) * Hop = d * Hop
    BY <1>1, Sizes
  <2>3. (MinSpeech + 1) * Hop >= FrameSize + Hop
    BY HearingAssumption
  <2>4. (MinSpeech + 1) * Hop \in Int /\ d * Hop \in Int
    BY Sizes, Spread
  <2>. QED
    BY <1>1, <2>1, <2>2, <2>3, <2>4, Sizes
<1>. QED
  BY <1>1, <1>2, <1>3, <1>4, Sizes

\* The frame that is next on the queue.
LEMMA QueuedFrame ==
  ASSUME SoundInv, audio # <<>>
  PROVE  Head(audio) \in Frame /\ Len(Head(audio).samples) = FrameSize
<1>1. audio \in Seq(Frame) /\ 1 \in 1..Len(audio) /\ Head(audio) = audio[1]
  <2>1. audio \in Seq(Frame)
    BY DEF SoundInv
  <2>. QED
    BY <2>1, HeadTailProperties, LenProperties
<1>2. Head(audio) \in Frame /\ EvenFrame(Head(audio), mic, captures)
  <2>1. audio[1] \in Frame
    BY <1>1, ElementOfSeq
  <2>. QED
    BY <1>1, <2>1 DEF SoundInv
<1>3. PICK start \in Int, rate \in Rates : Head(audio).samples = Line(start, rate, FrameSize)
  BY <1>2 DEF EvenFrame
<1>4. rate \in Nat /\ FrameSize \in Nat
  BY Sizes
<1>5. Len(Line(start, rate, FrameSize)) = FrameSize
  BY <1>4, LineKind
<1>. QED
  BY <1>2, <1>3, <1>5

LEMMA JudgedFrame ==
  ASSUME WorkInv, SoundInv, NEW levels \in BoundedSeq(Levels, (FrameSize + Hop - 1) \div Hop),
         Judges(levels)
  PROVE  /\ carry' \in Seq(Int) /\ Len(carry') < Hop
         /\ \E e : Judged(e) /\ events' = Append(events, e)
<1>1. levels \in Seq(Levels) /\ Len(levels) <= MinSpeech
  BY FewWindows
<1>2. PICK samples \in Seq(Int), of \in Nat :
        samples = Head(audio).samples /\ of = Head(audio).of /\ Len(samples) = FrameSize
  BY QueuedFrame DEF Frame, Judges
<1>3. PICK c \in Nat : c = Len(carry) /\ c < Hop
  BY LenProperties DEF WorkInv
<1>. DEFINE all == carry \o samples
<1>4. /\ all \in Seq(Int) /\ Len(all) = c + FrameSize
      /\ \A i \in 1..(c + FrameSize) : all[i] = IF i <= c THEN carry[i] ELSE samples[i - c]
  <2>1. carry \in Seq(Int) /\ samples \in Seq(Int)
    BY DEF WorkInv
  <2>2. /\ all \in Seq(Int) /\ Len(all) = Len(carry) + Len(samples)
        /\ \A i \in 1..(Len(carry) + Len(samples)) :
             all[i] = IF i <= Len(carry) THEN carry[i] ELSE samples[i - Len(carry)]
    BY <2>1, ConcatProperties
  <2>. HIDE DEF all
  <2>. QED
    BY <1>2, <1>3, <2>2
<1>5. PICK n \in Nat, over \in 0..(Hop - 1) :
        /\ (c + FrameSize) \div Hop = n /\ (c + FrameSize) % Hop = over
        /\ c + FrameSize = n * Hop + over
  <2>1. c + FrameSize \in Nat /\ Hop \in Nat \ {0}
    BY Sizes
  <2>. QED
    BY <2>1, Divide
<1>. HIDE DEF all
<1>. DEFINE ends == Windows(all)
            windows == [i \in 1..n |-> [level |-> levels[i], end |-> ends[i]]]
            e == [of |-> of, samples |-> samples, windows |-> windows]
<1>6. ends = [i \in 1..n |-> all[i * Hop]]
  BY <1>4, <1>5 DEF Windows
<1>7. ASSUME NEW i \in 1..n
      PROVE  \E p \in 1..FrameSize :
               ends[i] = samples[p] /\ FrameSize - p < (n - i + 1) * Hop
  <2>1. PICK at \in Int : at = i * Hop /\ c < at /\ at <= c + FrameSize
    <3>1. i - 1 \in Nat /\ n - i \in Nat /\ i \in Int
      OBVIOUS
    <3>2. (i - 1) * Hop \in Nat /\ (n - i) * Hop \in Nat
      BY <3>1, Sizes, NotNegative
    <3>3. (i - 1) * Hop + 1 * Hop = i * Hop /\ (n - i) * Hop + i * Hop = n * Hop /\ 1 * Hop = Hop
      BY Sizes, Spread
    <3>4. i * Hop \in Int
      BY Sizes, Spread
    <3>5. c < i * Hop
      <4>1. PICK rest \in Nat, here \in Int : rest = (i - 1) * Hop /\ here = i * Hop
        BY <3>2, <3>4
      <4>2. rest + Hop = here
        BY <3>3, <4>1
      <4>. QED
        BY <1>3, <4>1, <4>2, Sizes
    <3>6. i * Hop <= n * Hop /\ n * Hop \in Int
      BY <3>2, <3>3, <3>4
    <3>7. i * Hop <= c + FrameSize
      BY <1>5, <3>4, <3>6, Sizes
    <3>. QED
      BY <3>4, <3>5, <3>7
  <2>2. at - c \in 1..FrameSize /\ all[at] = samples[at - c]
    BY <1>4, <2>1, Sizes
  <2>3. ends[i] = all[at]
    BY <1>6, <2>1
  <2>4. FrameSize - (at - c) < (n - i + 1) * Hop
    <3>1. (n - i + 1) * Hop = (n + 1) * Hop + (-i) * Hop /\ (n + 1) * Hop = n * Hop + 1 * Hop
      BY Sizes, Spread
    <3>2. (-i) * Hop + i * Hop = 0 /\ (-i) * Hop \in Int
      BY Sizes, Spread
    <3>3. 1 * Hop = Hop /\ n * Hop \in Int
      BY Sizes, Spread
    <3>. QED
      BY <1>5, <2>1, <3>1, <3>2, <3>3, Sizes
  <2>. QED
    BY <2>2, <2>3, <2>4
<1>8. Len(levels) = Len(ends) /\ carry' = Left(all)
  BY <1>2 DEF Judges, all
<1>9. Len(ends) = n
  BY <1>6
<1>. HIDE DEF ends
<1>10. events' = Append(events, e)
  <2>1. events' = Append(events, [of |-> Head(audio).of, samples |-> Head(audio).samples,
          windows |-> [i \in 1..Len(ends) |-> [level |-> levels[i], end |-> ends[i]]]])
    BY <1>2 DEF Judges, all, ends
  <2>. QED
    BY <1>2, <1>9, <2>1
<1>11. windows \in Seq(Window) /\ Len(windows) = n
  <2>1. \A i \in 1..n : levels[i] \in Levels /\ ends[i] \in Int
    <3>. TAKE i \in 1..n
    <3>1. levels[i] \in Levels
      BY <1>1, <1>8, <1>9, ElementOfSeq
    <3>2. PICK p \in 1..FrameSize : ends[i] = samples[p]
      BY <1>7
    <3>3. samples[p] \in Int
      BY <1>2, <3>2, ElementOfSeq
    <3>. QED
      BY <3>1, <3>2, <3>3
  <2>2. \A i \in 1..n : [level |-> levels[i], end |-> ends[i]] \in Window
    BY <2>1 DEF Window
  <2>. QED
    BY <2>2
<1>12. \A i \in 1..n : windows[i].end = ends[i]
  OBVIOUS
<1>13. n <= MinSpeech
  BY <1>1, <1>8, <1>9
<1>14. FrameSize < (n + 1) * Hop
  <2>1. (n + 1) * Hop = n * Hop + 1 * Hop /\ 1 * Hop = Hop /\ n * Hop \in Int
    BY Sizes, Spread
  <2>. QED
    BY <1>3, <1>5, <2>1, Sizes
<1>. HIDE DEF windows
<1>15. Judged(e)
  <2>1. e \in Event /\ e.samples = samples /\ e.windows = windows
    BY <1>11 DEF Event
  <2>. HIDE DEF e
  <2>2. \A j \in 1..n : \E p \in 1..FrameSize :
          windows[j].end = samples[p] /\ FrameSize - p < (n - j + 1) * Hop
    BY <1>7, <1>12
  <2>. QED
    BY <1>2, <1>11, <1>13, <1>14, <2>1, <2>2 DEF Judged
<1>16. carry' \in Seq(Int) /\ Len(carry') < Hop
  <2>1. Left(all) = SubSeq(all, (c + FrameSize) - over + 1, c + FrameSize)
    <3>1. Len(all) % Hop = over /\ ~(c + FrameSize < over)
      <4>1. n * Hop \in Nat
        BY Sizes, NotNegative
      <4>2. ~(c + FrameSize < over)
        BY <1>5, <4>1
      <4>. QED
        BY <1>4, <1>5, <4>2
    <3>. QED
      BY <1>4, <3>1 DEF Left, LastOf
  <2>2. \A i \in ((c + FrameSize) - over + 1)..(c + FrameSize) : all[i] \in Int
    <3>1. n * Hop \in Nat
      BY Sizes, NotNegative
    <3>2. (c + FrameSize) - over + 1 >= 1 /\ (c + FrameSize) - over + 1 \in Int
      BY <1>5, <3>1, Sizes
    <3>3. \A i \in ((c + FrameSize) - over + 1)..(c + FrameSize) : i \in 1..Len(all)
      BY <1>4, <3>2, Sizes
    <3>. QED
      BY <1>4, <3>3, ElementOfSeq
  <2>3. (c + FrameSize) - over + 1 \in Int /\ c + FrameSize \in Int
    BY Sizes
  <2>. DEFINE from == (c + FrameSize) - over + 1
              to == c + FrameSize
  <2>4. /\ SubSeq(all, from, to) \in Seq(Int)
        /\ Len(SubSeq(all, from, to)) = IF from <= to THEN to - from + 1 ELSE 0
    BY <2>2, <2>3, SubSeqProperties
  <2>. HIDE DEF from, to
  <2>5. (IF from <= to THEN to - from + 1 ELSE 0) = over /\ over < Hop
    BY Sizes DEF from, to
  <2>. QED
    BY <1>8, <2>1, <2>4, <2>5 DEF from, to
<1>. QED
  BY <1>10, <1>15, <1>16

\* What an action does with the frames on the way to the controller.
LEMMA WorkSteps ==
  ASSUME [Next]_vars
  PROVE  \/ \E levels \in BoundedSeq(Levels, (FrameSize + Hop - 1) \div Hop) : Judges(levels)
         \/ /\ carry' = carry \/ carry' = <<>>
            /\ \/ events' = events
               \/ events' = Append(events, Failure)
               \/ events # <<>> /\ events' = Tail(events)
<1>1. CASE UNCHANGED vars
  BY <1>1 DEF vars, workVars
<1>2. ASSUME NEW n, Delivers(n) PROVE UNCHANGED <<carry, events>>
  BY <1>2 DEF Delivers, workVars
<1>3. CASE Loads \/ Breaks
  BY <1>3 DEF Loads, ModelLoaded, ModelFails, Breaks
<1>4. CASE Obeys
  BY <1>4 DEF Obeys
<1>5. ASSUME NEW rate, SwitchesOn(rate) \/ Ends(rate) PROVE UNCHANGED <<carry, events>>
  BY <1>5 DEF SwitchesOn, Ends, Resumes
<1>6. CASE FindsNoMicrophone \/ SwitchesOnAgain \/ Disables \/ Closes \/ Proceeds \/ Quits
  BY <1>6 DEF FindsNoMicrophone, SwitchesOnAgain, Disables, Closes, Proceeds, Quits, workVars
<1>7. CASE Hears \/ LearnsOfFailure
  BY <1>7 DEF Hears, LearnsOfFailure
<1>. QED
  BY <1>1, <1>2, <1>3, <1>4, <1>5, <1>6, <1>7 DEF Next

LEMMA NextEvent ==
  ASSUME WorkInv, events # <<>>
  PROVE  Head(events) # Failure => Judged(Head(events))
<1>1. events \in Seq(Event \cup {Failure})
  BY DEF WorkInv
<1>2. Head(events) = events[1] /\ 1 \in 1..Len(events)
  BY <1>1, HeadTailProperties, LenProperties
<1>. QED
  BY <1>2 DEF WorkInv

LEMMA WorkStep ==
  ASSUME WorkInv, SoundInv, [Next]_vars
  PROVE  WorkInv'
<1>. DEFINE E == Event \cup {Failure}
            Fine(s) == s \in Seq(E) /\ \A i \in 1..Len(s) : s[i] # Failure => Judged(s[i])
<1>1. Fine(events)
  BY DEF WorkInv
<1>2. ASSUME NEW e \in E, e # Failure => Judged(e) PROVE Fine(Append(events, e))
  <2>1. /\ Append(events, e) \in Seq(E) /\ Len(Append(events, e)) = Len(events) + 1
        /\ \A i \in 1..Len(events) : Append(events, e)[i] = events[i]
        /\ Append(events, e)[Len(events) + 1] = e
    BY <1>1, AppendProperties
  <2>2. \A i \in 1..(Len(events) + 1) : i \in 1..Len(events) \/ i = Len(events) + 1
    BY <1>1, LenProperties
  <2>. QED
    BY <1>1, <1>2, <2>1, <2>2
<1>3. ASSUME events # <<>> PROVE Fine(Tail(events))
  <2>1. /\ Tail(events) \in Seq(E) /\ Len(Tail(events)) = Len(events) - 1
        /\ \A i \in 1..Len(Tail(events)) : Tail(events)[i] = events[i + 1]
    BY <1>1, <1>3, HeadTailProperties
  <2>2. \A i \in 1..Len(Tail(events)) : i + 1 \in 1..Len(events)
    BY <1>1, <2>1, LenProperties
  <2>. QED
    BY <1>1, <2>1, <2>2
<1>4. /\ Fine(events') /\ carry' \in Seq(Int) /\ Len(carry') < Hop
  <2>1. CASE \E levels \in BoundedSeq(Levels, (FrameSize + Hop - 1) \div Hop) : Judges(levels)
    <3>1. PICK e : Judged(e) /\ events' = Append(events, e)
      BY <2>1, JudgedFrame
    <3>2. carry' \in Seq(Int) /\ Len(carry') < Hop
      BY <2>1, JudgedFrame
    <3>3. e \in E
      BY <3>1 DEF Judged
    <3>4. Fine(Append(events, e))
      <4>. HIDE DEF E, Fine
      <4>. QED
        BY <1>2, <3>1, <3>3
    <3>. QED
      BY <3>1, <3>2, <3>4
  <2>2. CASE /\ carry' = carry \/ carry' = <<>>
             /\ \/ events' = events
                \/ events' = Append(events, Failure)
                \/ events # <<>> /\ events' = Tail(events)
    <3>1. carry' \in Seq(Int) /\ Len(carry') < Hop
      <4>1. <<>> \in Seq(Int) /\ Len(<<>>) = 0 /\ 0 < Hop
        BY Sizes
      <4>2. CASE carry' = carry
        BY <4>2 DEF WorkInv
      <4>3. CASE carry' = <<>>
        BY <4>1, <4>3
      <4>. QED
        BY <2>2, <4>2, <4>3
    <3>2. Fine(Append(events, Failure))
      <4>1. Failure \in E
        OBVIOUS
      <4>. HIDE DEF E, Fine
      <4>. QED
        BY <1>2, <4>1
    <3>. HIDE DEF Fine
    <3>. QED
      BY <1>1, <1>3, <2>2, <3>1, <3>2
  <2>. HIDE DEF Fine
  <2>. QED
    BY <2>1, <2>2, WorkSteps
<1>. QED
  BY <1>4 DEF WorkInv

(***************************************************************************)
(* The controller.                                                         *)
(***************************************************************************)
GateInv ==
  /\ Now \in Gates /\ told = speaking /\ history \in Seq(Window)
  /\ AtGate(history, Len(history), speaking, run)

LEMMA GateSteps ==
  ASSUME [Next]_vars
  PROVE  Hears \/ UNCHANGED gateVars \/ ResetsGate
<1>1. CASE UNCHANGED vars
  BY <1>1 DEF vars
<1>2. ASSUME NEW n, Delivers(n) PROVE UNCHANGED gateVars
  BY <1>2 DEF Delivers, sessionVars
<1>3. CASE Loads \/ Breaks \/ Obeys
  BY <1>3 DEF Loads, Breaks, Obeys, sessionVars
<1>4. ASSUME NEW levels, Judges(levels) PROVE UNCHANGED gateVars
  BY <1>4 DEF Judges, sessionVars
<1>5. ASSUME NEW rate, SwitchesOn(rate) PROVE ResetsGate
  BY <1>5 DEF SwitchesOn
<1>6. ASSUME NEW rate, Ends(rate) PROVE UNCHANGED gateVars \/ ResetsGate
  BY <1>6 DEF Ends, Resumes
<1>7. CASE FindsNoMicrophone \/ Closes
  BY <1>7 DEF FindsNoMicrophone, Closes
<1>8. CASE SwitchesOnAgain \/ Disables \/ Proceeds \/ Quits \/ LearnsOfFailure
  BY <1>8 DEF SwitchesOnAgain, Disables, Proceeds, Quits, LearnsOfFailure
<1>. QED
  BY <1>1, <1>2, <1>3, <1>4, <1>5, <1>6, <1>7, <1>8 DEF Next

\* A frame that is heard.
LEMMA Heard ==
  ASSUME Hears, ListeningEnabled(session)
  PROVE  LET frame == Head(events)
             course == Course(frame.windows)
             begins == session = "Listening" /\ Had(course, "started")
         IN  /\ events # <<>> /\ frame # Failure
             /\ speaking' = course[Len(frame.windows)].speaking
             /\ run' = course[Len(frame.windows)].run
             /\ history' = history \o frame.windows /\ told' = Tell(course)
             /\ session' = IF begins THEN Apply(session, "SpeechStarted") ELSE session
             /\ IF begins THEN preroll' = <<>>
                ELSE session = "Listening" => preroll' = Kept(frame.samples)
  BY DEF Hears

LEMMA GateHeard ==
  ASSUME WorkInv, GateInv, Hears, ListeningEnabled(session)
  PROVE  GateInv'
<1>. DEFINE windows == Head(events).windows
            n == Len(windows)
            g == Course(windows)[n]
<1>1. Judged(Head(events))
  BY Heard, NextEvent
<1>2. windows \in Seq(Window) /\ n \in Nat /\ n <= MinSpeech
  <2>1. windows \in Seq(Window)
    BY <1>1 DEF Judged, Event
  <2>. QED
    BY <1>1, <2>1, LenProperties DEF Judged
<1>3. speaking' = g.speaking /\ run' = g.run /\ history' = history \o windows
  BY Heard
<1>4. told' = Tell(Course(windows))
  BY Heard
<1>. HIDE DEF n, windows
<1>5. PICK k \in Nat : k = Len(windows) /\ k = n
  BY <1>2 DEF n
<1>6. Now \in Gates /\ told = speaking /\ history \in Seq(Window)
  BY DEF GateInv
<1>7. PICK l \in Nat : l = Len(history)
  BY <1>6, LenProperties
<1>8. Tell(Course(windows)) = Course(windows)[k].speaking
  BY <1>2, <1>5, <1>6, CourseTold
<1>9. /\ Course(windows)[k] \in Gates
      /\ AtGate(history \o windows, l + k, Course(windows)[k].speaking, Course(windows)[k].run)
  <2>1. AtGate(history, l, speaking, run)
    BY <1>7 DEF GateInv
  <2>2. k \in 0..k
    OBVIOUS
  <2>. QED
    BY <1>2, <1>5, <1>6, <1>7, <2>1, <2>2, CourseAtGate
<1>10. history' \in Seq(Window) /\ Len(history') = l + k
  <2>1. /\ history \o windows \in Seq(Window)
        /\ Len(history \o windows) = Len(history) + Len(windows)
    BY <1>2, <1>6, ConcatProperties
  <2>. QED
    BY <1>3, <1>5, <1>7, <2>1
<1>11. g \in Gates /\ AtGate(history', l + k, speaking', run') /\ told' = speaking'
  BY <1>3, <1>4, <1>5, <1>8, <1>9
<1>. HIDE DEF g
<1>12. Now' \in Gates
  BY <1>3, <1>11 DEF Now, Gates
<1>. QED
  BY <1>10, <1>11, <1>12 DEF GateInv

LEMMA GateReset ==
  ASSUME ResetsGate
  PROVE  GateInv'
<1>1. speaking' = FALSE /\ run' = 0 /\ history' = <<>> /\ told' = FALSE
  BY DEF ResetsGate
<1>2. Now' \in Gates
  BY <1>1 DEF Now, Gates
<1>3. Len(history') = 0 /\ history' \in Seq(Window)
  BY <1>1
<1>4. Waits(history', 0, 0)
  BY Sizes DEF Waits, Every
<1>. QED
  BY <1>1, <1>2, <1>3, <1>4 DEF GateInv, AtGate

LEMMA GateAlways == Spec => [](SoundInv /\ WorkInv /\ GateInv)
<1>1. Init => SoundInv /\ WorkInv /\ GateInv
  <2>. SUFFICES ASSUME Init PROVE SoundInv /\ WorkInv /\ GateInv
    OBVIOUS
  <2>1. /\ mic \in Mics /\ mic.rate = 0 /\ captures = 0 /\ audio = <<>>
    BY DEF Init, None, Mics
  <2>2. SoundInv
    BY <2>1 DEF SoundInv, Open
  <2>3. WorkInv
    BY Sizes DEF Init, WorkInv
  <2>4. speaking = FALSE /\ run = 0 /\ history = <<>> /\ told = FALSE
    BY DEF Init
  <2>5. Now \in Gates /\ Len(history) = 0 /\ history \in Seq(Window) /\ Waits(history, 0, 0)
    <3>1. Waits(history, 0, 0)
      BY Sizes DEF Waits, Every
    <3>2. Now \in Gates
      BY <2>4 DEF Now, Gates
    <3>. QED
      BY <2>4, <3>1, <3>2
  <2>6. GateInv
    BY <2>4, <2>5 DEF GateInv, AtGate
  <2>. QED
    BY <2>2, <2>3, <2>6
<1>2. SoundInv /\ WorkInv /\ GateInv /\ [Next]_vars => (SoundInv /\ WorkInv /\ GateInv)'
  <2>. SUFFICES ASSUME SoundInv, WorkInv, GateInv, [Next]_vars
                PROVE  SoundInv' /\ WorkInv' /\ GateInv'
    OBVIOUS
  <2>1. SoundInv'
    BY SoundSteps, SoundDelivered, SoundOpened, SoundKept
  <2>2. WorkInv'
    BY WorkStep
  <2>3. UNCHANGED gateVars => GateInv'
    BY DEF GateInv, gateVars, Now
  <2>4. Hears /\ ~ListeningEnabled(session) => UNCHANGED gateVars
    BY DEF Hears
  <2>5. GateInv'
    BY <2>3, <2>4, GateSteps, GateHeard, GateReset
  <2>. QED
    BY <2>1, <2>2, <2>5
<1>. QED
  BY <1>1, <1>2, PTL DEF Spec

\* The gate is open exactly if MinSpeech windows in a row were above the threshold
\* and no MinSilence in a row after them were below the release threshold, with one
\* counter for both (SpeechGate::push), and the controller was told so last, though
\* it acts on the starts of a frame before its ends.
THEOREM GateExactHolds == Spec => []GateExact
<1>1. ASSUME GateInv PROVE GateExact
  <2>1. PICK l \in Nat, r \in Nat, s \in BOOLEAN :
          l = Len(history) /\ r = run /\ s = speaking /\ AtGate(history, l, s, r)
    <3>1. Len(history) \in Nat
      BY <1>1, LenProperties DEF GateInv
    <3>2. run \in Nat /\ speaking \in BOOLEAN
      BY <1>1 DEF GateInv, Now, Gates
    <3>. QED
      BY <1>1, <3>1, <3>2 DEF GateInv
  <2>2. /\ \A on : AllOf({"high"}, on - MinSpeech + 1, on) <=> Spoke(history, on)
        /\ \A off : AllOf({"low"}, off - MinSilence + 1, off) <=> Fell(history, off)
    BY DEF AllOf, Spoke, Fell, Every
  <2>3. s <=> \E on \in MinSpeech..l :
                Spoke(history, on) /\ ~\E off \in (on + MinSilence)..l : Fell(history, off)
    <3>1. CASE s
      <4>1. PICK on \in MinSpeech..(l - r) :
              Spoke(history, on) /\ \A off \in (on + MinSilence)..l : ~Fell(history, off)
        BY <2>1, <3>1 DEF AtGate, Speaks
      <4>2. on \in MinSpeech..l
        BY Sizes
      <4>. QED
        BY <3>1, <4>1, <4>2
    <3>2. CASE ~s
      <4>1. \A on \in MinSpeech..l :
              Spoke(history, on) => \E off \in (on + MinSilence)..l : Fell(history, off)
        BY <2>1, <3>2 DEF AtGate, Waits
      <4>. QED
        BY <3>2, <4>1
    <3>. QED
      BY <3>1, <3>2
  <2>4. told = speaking
    BY <1>1 DEF GateInv
  <2>. QED
    BY <2>1, <2>2, <2>3, <2>4 DEF GateExact
<1>. QED
  BY <1>1, GateAlways, PTL

(***************************************************************************)
(* The pre-roll.                                                           *)
(***************************************************************************)
\* x is among the last d elements of s.
Within(s, x, d) == \E p \in 1..Len(s) : s[p] = x /\ Len(s) - p < d

LEMMA WithinMore ==
  ASSUME NEW s \in Seq(Int), NEW t \in Seq(Int), NEW x, NEW d \in Int
  PROVE  /\ Within(t, x, d) => Within(s \o t, x, d)
         /\ Within(s, x, d) => Within(s \o t, x, d + Len(t))
<1>1. PICK m \in Nat, n \in Nat : m = Len(s) /\ n = Len(t)
  BY LenProperties
<1>2. /\ Len(s \o t) = m + n
      /\ \A i \in 1..(m + n) : (s \o t)[i] = IF i <= m THEN s[i] ELSE t[i - m]
  BY <1>1, ConcatProperties
<1>3. ASSUME NEW p \in 1..n, t[p] = x, n - p < d PROVE Within(s \o t, x, d)
  <2>1. m + p \in 1..(m + n) /\ ~(m + p <= m) /\ (m + p) - m = p /\ (m + n) - (m + p) < d
    BY <1>3
  <2>2. (s \o t)[m + p] = x
    BY <1>2, <1>3, <2>1
  <2>. QED
    BY <1>2, <2>1, <2>2 DEF Within
<1>4. ASSUME NEW p \in 1..m, s[p] = x, m - p < d PROVE Within(s \o t, x, d + n)
  <2>1. p \in 1..(m + n) /\ p <= m /\ (m + n) - p < d + n
    BY <1>4
  <2>2. (s \o t)[p] = x
    BY <1>2, <1>4, <2>1
  <2>. QED
    BY <1>2, <2>1, <2>2 DEF Within
<1>. QED
  BY <1>1, <1>3, <1>4 DEF Within

LEMMA WithinWider ==
  ASSUME NEW s \in Seq(Int), NEW x, NEW d \in Int, NEW e \in Int, d <= e, Within(s, x, d)
  PROVE  Within(s, x, e)
<1>1. PICK p \in 1..Len(s) : s[p] = x /\ Len(s) - p < d
  BY DEF Within
<1>2. Len(s) \in Nat
  BY LenProperties
<1>3. Len(s) - p < e
  BY <1>1, <1>2
<1>. QED
  BY <1>1, <1>3 DEF Within

\* The last n elements of a sequence.
LEMMA LastOfKind ==
  ASSUME NEW s \in Seq(Int), NEW n \in Nat
  PROVE  /\ LastOf(s, n) \in Seq(Int)
         /\ \A x : \A d \in Int : Within(s, x, d) => Within(LastOf(s, n), x, d) \/ n < d
<1>1. PICK l \in Nat : l = Len(s)
  BY LenProperties
<1>2. PICK k \in Nat : k = (IF l < n THEN l ELSE n) /\ k <= l
  OBVIOUS
<1>. DEFINE part == SubSeq(s, l - k + 1, l)
<1>3. LastOf(s, n) = part
  BY <1>1, <1>2 DEF LastOf
<1>4. /\ part \in Seq(Int) /\ Len(part) = k
      /\ \A i \in 1..k : part[i] = s[l - k + i]
  <2>1. l - k + 1 \in Int /\ l \in Int /\ \A i \in (l - k + 1)..l : s[i] \in Int
    <3>1. \A i \in (l - k + 1)..l : i \in 1..l
      BY <1>2
    <3>. QED
      BY <1>1, <3>1, ElementOfSeq
  <2>2. /\ part \in Seq(Int)
        /\ Len(part) = IF l - k + 1 <= l THEN l - (l - k + 1) + 1 ELSE 0
        /\ \A i \in 1..(l - (l - k + 1) + 1) : part[i] = s[(l - k + 1) + i - 1]
    BY <2>1, SubSeqProperties
  <2>. HIDE DEF part
  <2>3. l - (l - k + 1) + 1 = k /\ \A i \in 1..k : (l - k + 1) + i - 1 = l - k + i
    BY <1>2
  <2>. QED
    BY <1>2, <2>2, <2>3
<1>. HIDE DEF part
<1>5. ASSUME NEW x, NEW d \in Int, Within(s, x, d), ~(n < d) PROVE Within(part, x, d)
  <2>1. PICK p \in 1..l : s[p] = x /\ l - p < d
    BY <1>1, <1>5 DEF Within
  <2>2. PICK i \in 1..k : l - k + i = p /\ k - i < d
    <3>1. p - (l - k) \in 1..k /\ l - k + (p - (l - k)) = p /\ k - (p - (l - k)) < d
      BY <1>2, <1>5, <2>1
    <3>. QED
      BY <3>1
  <2>3. part[i] = x
    BY <1>4, <2>1, <2>2
  <2>. QED
    BY <1>4, <2>2, <2>3 DEF Within
<1>. QED
  BY <1>3, <1>4, <1>5

LEMMA WithinOf ==
  ASSUME NEW s \in Seq(Int), NEW x, NEW d \in Int, Within(s, x, d)
  PROVE  Contains(s, x)
  BY DEF Within, Contains

\* How long it is.
LEMMA PrerollLong ==
  /\ PrerollSize \in Nat /\ SpeechTime \in Nat /\ SilenceTime \in Nat
  /\ PrerollSize >= SpeechTime + SilenceTime + Hop
<1>1. {SpeechTime, SilenceTime, PrerollSet, Hop} \subseteq Nat
  BY HearingAssumption
<1>. QED
  BY <1>1 DEF PrerollSize

\* How far the windows of a frame may be apart, with what the worker dropped.
Far(k) == (2 * k + 1) * Hop

LEMMA FarGrows ==
  /\ \A k \in Int : Far(k) \in Int
  /\ \A k \in Int, m \in Int : k <= m => Far(k) <= Far(m)
<1>1. \A k \in Int : Far(k) \in Int
  BY Sizes, Spread DEF Far
<1>2. ASSUME NEW k \in Int, NEW m \in Int, k <= m PROVE Far(k) <= Far(m)
  <2>1. 2 * (m - k) \in Nat /\ Hop \in Nat
    BY <1>2, Sizes
  <2>2. (2 * (m - k)) * Hop \in Nat
    BY <2>1, NotNegative
  <2>3. (2 * (m - k) + (2 * k + 1)) * Hop = (2 * (m - k)) * Hop + (2 * k + 1) * Hop
    BY Sizes, Spread
  <2>4. 2 * (m - k) + (2 * k + 1) = 2 * m + 1
    OBVIOUS
  <2>5. (2 * k + 1) * Hop \in Int
    BY Sizes, Spread
  <2>. QED
    BY <2>2, <2>3, <2>4, <2>5 DEF Far
<1>. QED
  BY <1>1, <1>2

LEMMA FarOn ==
  ASSUME NEW k \in Int, NEW n \in Int
  PROVE  Far(k + n) = Far(k) + (2 * n) * Hop
<1>1. PICK a \in Int, b \in Int, c \in Int : a = 2 * k + 1 /\ b = 2 * n /\ c = 2 * (k + n) + 1
  OBVIOUS
<1>2. c = a + b
  BY <1>1
<1>3. Hop \in Int
  BY Sizes
<1>4. (a + b) * Hop = a * Hop + b * Hop
  BY <1>3, Spread
<1>. QED
  BY <1>1, <1>2, <1>4 DEF Far

\* While listening goes on, the pre-roll holds the ends of the windows the gate has
\* had, each as far from its end as the windows since then may take with what
\* the worker dropped between two frames, if it is long enough for that.
PrerollInv ==
  /\ preroll \in Seq(Int)
  /\ session = "Listening" =>
       \A i \in 1..Len(history) : \/ Within(preroll, history[i].end, Far(Len(history) - i))
                                  \/ PrerollSize < Far(Len(history) - i)

\* A frame puts its own windows in reach and the others further away.
LEMMA FrameReach ==
  ASSUME NEW e, Judged(e), Hop <= FrameSize, NEW n \in Nat, n = Len(e.windows)
  PROVE  /\ \A j \in 1..n : Within(e.samples, e.windows[j].end, Far(n - j))
         /\ \A k \in Int : Far(k) + FrameSize <= Far(k + n)
<1>1. n \in Nat /\ FrameSize < (n + 1) * Hop /\ (n + 1) * Hop \in Int
  BY Sizes, Spread DEF Judged
<1>2. n >= 1
  <2>1. n = 0 => (n + 1) * Hop = Hop
    BY Sizes
  <2>. QED
    BY <1>1, <2>1, Sizes
<1>3. ASSUME NEW j \in 1..n PROVE Within(e.samples, e.windows[j].end, Far(n - j))
  <2>1. PICK p \in 1..FrameSize :
          e.windows[j].end = e.samples[p] /\ FrameSize - p < (n - j + 1) * Hop
    BY <1>3 DEF Judged
  <2>2. (n - j + 1) * Hop <= Far(n - j)
    <3>1. n - j \in Nat /\ n - j + 1 \in Int
      BY <1>1
    <3>2. (n - j) * Hop \in Nat
      BY <3>1, Sizes, NotNegative
    <3>3. (n - j) * Hop + (n - j + 1) * Hop = (2 * (n - j) + 1) * Hop
      <4>1. ((n - j) + (n - j + 1)) * Hop = (n - j) * Hop + (n - j + 1) * Hop
        BY <3>1, Sizes, Spread
      <4>2. (n - j) + (n - j + 1) = 2 * (n - j) + 1
        BY <3>1
      <4>. QED
        BY <4>1, <4>2
    <3>4. (n - j + 1) * Hop \in Int
      BY <3>1, Sizes, Spread
    <3>. QED
      BY <3>2, <3>3, <3>4 DEF Far
  <2>3. FrameSize - p < Far(n - j)
    <3>1. n - j \in Int /\ n - j + 1 \in Int
      BY <1>1
    <3>2. Far(n - j) \in Int /\ (n - j + 1) * Hop \in Int
      BY <3>1, FarGrows, Sizes, Spread
    <3>. QED
      BY <2>1, <2>2, <3>2, Sizes
  <2>4. Len(e.samples) = FrameSize
    BY DEF Judged
  <2>. QED
    BY <2>1, <2>3, <2>4 DEF Within
<1>4. ASSUME NEW k \in Int PROVE Far(k) + FrameSize <= Far(k + n)
  <2>1. Far(k + n) = Far(k) + (2 * n) * Hop
    <3>1. n \in Int
      OBVIOUS
    <3>. QED
      BY <3>1, FarOn, Zenon
  <2>2. (n + 1) * Hop <= (2 * n) * Hop
    <3>1. n - 1 \in Nat
      BY <1>1, <1>2
    <3>2. (n - 1) * Hop \in Nat
      BY <3>1, Sizes, NotNegative
    <3>3. (n - 1) * Hop + (n + 1) * Hop = (2 * n) * Hop
      <4>1. ((n - 1) + (n + 1)) * Hop = (n - 1) * Hop + (n + 1) * Hop
        BY <1>1, Sizes, Spread
      <4>2. (n - 1) + (n + 1) = 2 * n
        BY <1>1
      <4>. QED
        BY <4>1, <4>2
    <3>. QED
      BY <1>1, <3>2, <3>3
  <2>3. Far(k) \in Int /\ (2 * n) * Hop \in Int
    <3>1. 2 * n \in Int
      BY <1>1
    <3>. QED
      BY <3>1, FarGrows, Sizes, Spread
  <2>. QED
    BY <1>1, <2>1, <2>2, <2>3, Sizes
<1>. QED
  BY <1>3, <1>4

\* Where the table of Session leads from and to listening.
LEMMA Table ==
  /\ Apply("Listening", "SpeechStarted") = "Connecting"
  /\ Apply("Disabled", "Enable") = "Listening" /\ Apply("Stopping", "Enable") = "Closing"
  /\ Apply("Listening", "Failed") = "Failed" /\ Apply("Listening", "Disable") = "Disabled"
  /\ \A s, input : Accepts(s, input) /\ input \in {"Finished", "Timeout", "Aborted", "Retry"} =>
       s # "Listening"
  /\ \A s, input : Accepts(s, input) /\ input \in {"Connected", "IdleTimeout", "Failed"} =>
       Apply(s, input) # "Listening" /\ (s = "Listening" => Apply(s, input) # "Connecting")
  /\ \A s : Apply(s, "Failed") = "Listening" => s = "Listening"
<1>1. /\ Apply("Listening", "SpeechStarted") = "Connecting"
      /\ Apply("Disabled", "Enable") = "Listening" /\ Apply("Stopping", "Enable") = "Closing"
      /\ Apply("Listening", "Failed") = "Failed" /\ Apply("Listening", "Disable") = "Disabled"
  BY DEF Apply, Accepts, Moves
<1>2. ASSUME NEW s, NEW input \in {"Finished", "Timeout", "Aborted", "Retry"}, Accepts(s, input)
      PROVE  s # "Listening"
  BY <1>2 DEF Accepts, Moves
<1>3. ASSUME NEW s, NEW input \in {"Connected", "IdleTimeout", "Failed"}, Accepts(s, input)
      PROVE  Apply(s, input) # "Listening" /\ (s = "Listening" => Apply(s, input) # "Connecting")
  BY <1>3 DEF Apply, Accepts, Moves
<1>4. ASSUME NEW s, Apply(s, "Failed") = "Listening" PROVE s = "Listening"
  BY <1>4 DEF Apply, Accepts, Moves
<1>. QED
  BY <1>1, <1>2, <1>3, <1>4

\* What an action that hears nothing does with what listening goes by.
Rests ==
  /\ preroll' = preroll \/ preroll' = <<>>
  /\ session' = "Listening" =>
       history' = <<>> \/ (session = "Listening" /\ history' = history /\ preroll' = preroll)
  /\ session = "Listening" => session' # "Connecting"

LEMMA PrerollSteps ==
  ASSUME [Next]_vars
  PROVE  Rests \/ (Hears /\ ListeningEnabled(session))
<1>. DEFINE Same == session' = session /\ history' = history /\ preroll' = preroll
<1>1. Same => Rests
  BY DEF Rests
<1>2. CASE UNCHANGED vars
  <2>1. Same
    BY <1>2 DEF vars, gateVars
  <2>. QED
    BY <1>1, <2>1
<1>3. ASSUME NEW n, Delivers(n) PROVE Same
  BY <1>3 DEF Delivers, sessionVars, gateVars
<1>4. CASE Loads \/ Breaks \/ Obeys \/ Quits
  <2>1. Same
    BY <1>4 DEF Loads, Breaks, Obeys, Quits, sessionVars, gateVars
  <2>. QED
    BY <1>1, <2>1
<1>5. ASSUME NEW levels, Judges(levels) PROVE Same
  BY <1>5 DEF Judges, sessionVars, gateVars
<1>6. ASSUME NEW rate, SwitchesOn(rate) PROVE Rests
  <2>1. session = "Disabled" /\ preroll' = <<>> /\ history' = <<>>
    BY <1>6 DEF SwitchesOn, ResetsGate
  <2>. QED
    BY <2>1 DEF Rests
<1>7. ASSUME NEW rate, Ends(rate) PROVE Rests
  <2>1. session # "Listening"
    BY <1>7, Table DEF Ends
  <2>2. preroll' = preroll
    BY <1>7 DEF Ends, Resumes
  <2>3. session' = "Listening" => history' = <<>>
    BY <1>7 DEF Ends, Resumes, ResetsGate
  <2>. QED
    BY <2>1, <2>2, <2>3 DEF Rests
<1>8. CASE FindsNoMicrophone
  <2>1. session = "Disabled" /\ preroll' = <<>> /\ history' = <<>>
    BY <1>8 DEF FindsNoMicrophone, ResetsGate
  <2>. QED
    BY <2>1 DEF Rests
<1>9. CASE Closes
  <2>1. preroll' = <<>> /\ history' = <<>> /\ session' = Apply(session, "Disable")
    BY <1>9 DEF Closes, ResetsGate
  <2>2. session = "Listening" => session' = "Disabled"
    BY <2>1, Table
  <2>. QED
    BY <2>1, <2>2 DEF Rests
<1>10. CASE SwitchesOnAgain
  <2>1. session = "Stopping" /\ session' = "Closing" /\ preroll' = preroll
    BY <1>10, Table DEF SwitchesOnAgain
  <2>. QED
    BY <2>1 DEF Rests
<1>11. CASE Disables
  <2>1. Same
    BY <1>11 DEF Disables, gateVars
  <2>. QED
    BY <1>1, <2>1
<1>12. CASE Proceeds
  <2>1. PICK input \in {"Connected", "IdleTimeout", "Failed"} :
          Accepts(session, input) /\ session' = Apply(session, input)
    BY <1>12 DEF Proceeds
  <2>2. preroll' = preroll
    BY <1>12 DEF Proceeds
  <2>3. session' # "Listening" /\ (session = "Listening" => session' # "Connecting")
    BY <2>1, Table
  <2>. QED
    BY <2>2, <2>3 DEF Rests
<1>13. CASE LearnsOfFailure
  <2>1. session' = Apply(session, "Failed") /\ preroll' = preroll /\ history' = history
    BY <1>13 DEF LearnsOfFailure, gateVars
  <2>2. session' # "Listening" /\ (session = "Listening" => session' = "Failed")
    <3>1. session = "Listening" => session' = "Failed"
      BY <2>1, Table
    <3>. QED
      BY <2>1, <3>1, Table
  <2>. QED
    BY <2>1, <2>2 DEF Rests
<1>14. CASE Hears /\ ~ListeningEnabled(session)
  <2>1. Same
    BY <1>14 DEF Hears, gateVars
  <2>. QED
    BY <1>1, <2>1
<1>. HIDE DEF Same
<1>. QED
  BY <1>1, <1>2, <1>3, <1>4, <1>5, <1>6, <1>7, <1>8, <1>9, <1>10, <1>11, <1>12, <1>13, <1>14
     DEF Next

LEMMA PrerollRests ==
  ASSUME PrerollInv, GateInv, Rests
  PROVE  PrerollInv'
<1>1. preroll' \in Seq(Int)
  <2>1. preroll \in Seq(Int) /\ <<>> \in Seq(Int)
    BY DEF PrerollInv
  <2>2. preroll' = preroll \/ preroll' = <<>>
    BY DEF Rests
  <2>. QED
    BY <2>1, <2>2
<1>2. ASSUME session' = "Listening", NEW i \in 1..Len(history')
      PROVE  \/ Within(preroll', history'[i].end, Far(Len(history') - i))
             \/ PrerollSize < Far(Len(history') - i)
  <2>1. CASE history' = <<>>
    BY <1>2, <2>1
  <2>2. CASE session = "Listening" /\ history' = history /\ preroll' = preroll
    BY <1>2, <2>2 DEF PrerollInv
  <2>. QED
    BY <1>2, <2>1, <2>2 DEF Rests
<1>. QED
  BY <1>1, <1>2 DEF PrerollInv

\* A frame that is heard without a start of speech goes into the pre-roll.
LEMMA PrerollHeard ==
  ASSUME PrerollInv, WorkInv, GateInv, Hop <= FrameSize, Hears, ListeningEnabled(session)
  PROVE  PrerollInv'
<1>. DEFINE e == Head(events)
            n == Len(e.windows)
            all == preroll \o e.samples
<1>1. Judged(e)
  BY Heard, NextEvent
<1>2. e.windows \in Seq(Window) /\ e.samples \in Seq(Int) /\ Len(e.samples) = FrameSize
  BY <1>1 DEF Judged, Event
<1>3. preroll \in Seq(Int) /\ history \in Seq(Window)
  BY DEF PrerollInv, GateInv
<1>4. all \in Seq(Int) /\ PrerollSize \in Nat
  BY <1>2, <1>3, ConcatProperties, PrerollLong
<1>5. Kept(e.samples) = LastOf(all, PrerollSize)
  BY DEF Kept
<1>6. preroll' = <<>> \/ preroll' = preroll \/ preroll' = Kept(e.samples)
  BY DEF Hears
<1>7. preroll' \in Seq(Int)
  <2>1. LastOf(all, PrerollSize) \in Seq(Int)
    BY <1>4, LastOfKind
  <2>2. <<>> \in Seq(Int)
    OBVIOUS
  <2>. HIDE DEF all, e
  <2>. QED
    BY <1>3, <1>5, <1>6, <2>1, <2>2
<1>8. PICK l \in Nat, m \in Nat : l = Len(history) /\ m = n
  BY <1>2, <1>3, LenProperties
<1>9. ASSUME session' = "Listening"
      PROVE  session = "Listening" /\ history' = history \o e.windows /\ preroll' = LastOf(all, PrerollSize)
  <2>1. ~(session = "Listening" /\ Had(Course(e.windows), "started"))
    BY <1>9, Heard, Table
  <2>2. session = "Listening"
    BY <1>9, <2>1, Heard
  <2>3. history' = history \o e.windows
    BY Heard
  <2>4. preroll' = Kept(e.samples)
    BY <2>1, <2>2, Heard
  <2>. QED
    BY <1>5, <2>2, <2>3, <2>4
<1>10. /\ Len(history \o e.windows) = l + m
       /\ \A i \in 1..(l + m) :
            (history \o e.windows)[i] = IF i <= l THEN history[i] ELSE e.windows[i - l]
  <2>1. /\ Len(history \o e.windows) = Len(history) + Len(e.windows)
        /\ \A i \in 1..(Len(history) + Len(e.windows)) :
             (history \o e.windows)[i] =
               IF i <= Len(history) THEN history[i] ELSE e.windows[i - Len(history)]
    BY <1>2, <1>3, ConcatProperties
  <2>. QED
    BY <1>8, <2>1
<1>11. /\ \A j \in 1..m : Within(e.samples, e.windows[j].end, Far(m - j))
       /\ \A k \in Int : Far(k) + FrameSize <= Far(k + m)
  BY <1>1, <1>8, FrameReach
<1>. HIDE DEF e, n
<1>12. ASSUME session = "Listening", NEW i \in 1..(l + m)
       PROVE  \/ Within(all, (history \o e.windows)[i].end, Far(l + m - i))
              \/ PrerollSize < Far(l + m - i)
  <2>1. CASE i <= l
    <3>1. i \in 1..l /\ l - i \in Int /\ (l - i) + m = l + m - i /\ l + m - i \in Int
      BY <2>1
    <3>2. PICK far \in Int, further \in Int :
            far = Far(l - i) /\ further = Far(l + m - i) /\ far + FrameSize <= further
      BY <1>11, <3>1, FarGrows
    <3>3. Within(preroll, history[i].end, far) \/ PrerollSize < far
      BY <1>8, <1>12, <3>1, <3>2 DEF PrerollInv
    <3>4. FrameSize \in Nat
      BY Sizes
    <3>5. Within(preroll, history[i].end, far) => Within(all, history[i].end, far + FrameSize)
      BY <1>2, <1>3, WithinMore
    <3>6. Within(all, history[i].end, far + FrameSize) => Within(all, history[i].end, further)
      <4>1. far + FrameSize \in Int
        BY <3>2, <3>4
      <4>. HIDE DEF all
      <4>. QED
        BY <1>4, <3>2, <4>1, WithinWider
    <3>7. PrerollSize < far => PrerollSize < further
      BY <1>4, <3>2, <3>4
    <3>8. (history \o e.windows)[i] = history[i]
      BY <1>10, <2>1
    <3>. HIDE DEF all
    <3>. QED
      BY <3>2, <3>3, <3>5, <3>6, <3>7, <3>8
  <2>2. CASE i > l
    <3>1. i - l \in 1..m /\ m - (i - l) = l + m - i /\ ~(i <= l)
      BY <2>2
    <3>2. Within(e.samples, e.windows[i - l].end, Far(l + m - i))
      BY <1>11, <3>1
    <3>3. Far(l + m - i) \in Int
      BY FarGrows
    <3>4. Within(all, e.windows[i - l].end, Far(l + m - i))
      BY <1>2, <1>3, <3>2, <3>3, WithinMore
    <3>5. (history \o e.windows)[i] = e.windows[i - l]
      BY <1>10, <3>1
    <3>. HIDE DEF all
    <3>. QED
      BY <3>4, <3>5
  <2>3. i <= l \/ i > l
    OBVIOUS
  <2>. QED
    BY <2>1, <2>2, <2>3
<1>. HIDE DEF all
<1>13. ASSUME session' = "Listening", NEW i \in 1..Len(history')
       PROVE  \/ Within(preroll', history'[i].end, Far(Len(history') - i))
              \/ PrerollSize < Far(Len(history') - i)
  <2>1. Len(history') = l + m /\ i \in 1..(l + m) /\ l + m - i \in Int
    BY <1>9, <1>10, <1>13
  <2>2. Far(l + m - i) \in Int
    BY <2>1, FarGrows
  <2>3. Within(all, history'[i].end, Far(l + m - i)) \/ PrerollSize < Far(l + m - i)
    BY <1>9, <1>12, <1>13, <2>1
  <2>4. Within(all, history'[i].end, Far(l + m - i)) =>
          Within(LastOf(all, PrerollSize), history'[i].end, Far(l + m - i))
            \/ PrerollSize < Far(l + m - i)
    BY <1>4, <2>2, LastOfKind
  <2>. QED
    BY <1>9, <1>13, <2>1, <2>3, <2>4
<1>. QED
  BY <1>7, <1>13 DEF PrerollInv

LEMMA PrerollAlways ==
  Hop <= FrameSize => (Spec => [](SoundInv /\ WorkInv /\ GateInv /\ PrerollInv))
<1>. SUFFICES ASSUME Hop <= FrameSize
              PROVE  Spec => [](SoundInv /\ WorkInv /\ GateInv /\ PrerollInv)
  OBVIOUS
<1>1. Init => PrerollInv
  BY DEF Init, PrerollInv
<1>2. SoundInv /\ WorkInv /\ GateInv /\ PrerollInv /\ [Next]_vars => PrerollInv'
  BY PrerollSteps, PrerollRests, PrerollHeard
<1>3. Spec => [](SoundInv /\ WorkInv /\ GateInv)
  BY GateAlways
<1>4. Init /\ [][Next]_vars /\ [](SoundInv /\ WorkInv /\ GateInv) => []PrerollInv
  BY <1>1, <1>2, PTL
<1>. QED
  BY <1>3, <1>4, PTL DEF Spec

LEMMA Greatest ==
  ASSUME NEW n \in Nat, NEW T \in SUBSET (0..n), T # {}
  PROVE  \E x \in T : \A y \in T : y <= x
<1>. DEFINE below == {n - y : y \in T}
<1>1. below \in SUBSET Nat /\ below # {}
  <2>1. \A y \in T : n - y \in Nat
    <3>1. \A y \in T : y \in 0..n
      OBVIOUS
    <3>2. \A y \in 0..n : n - y \in Nat
      OBVIOUS
    <3>. QED
      BY <3>1, <3>2
  <2>2. PICK y \in T : TRUE
    OBVIOUS
  <2>3. n - y \in below
    OBVIOUS
  <2>. QED
    BY <2>1, <2>3
<1>2. PICK d \in below : \A e \in below : d <= e
  <2>. HIDE DEF below
  <2>. QED
    BY <1>1, Least
<1>3. PICK x \in T : d = n - x
  BY <1>2
<1>4. \A y \in T : n - x <= n - y
  BY <1>2, <1>3
<1>5. \A y \in T : y <= x
  BY <1>4
<1>. QED
  BY <1>5

\* The windows that open the gate are near enough the end of the pre-roll.
LEMMA OpeningNear ==
  ASSUME SpeechTime <= SilenceTime + 2 * Hop, NEW k \in Nat, k <= MinSpeech - 2
  PROVE  Far(k) <= PrerollSize /\ Far(k) \in Int
<1>. PICK m \in Nat, hop \in Nat : m = MinSpeech /\ hop = Hop
  BY Sizes
<1>1. Far(k) = (2 * k + 1) * hop
  BY DEF Far
<1>2. m >= 2 /\ m * hop \in Nat /\ m * hop < SpeechTime + hop
  BY PrerollLong, WindowsLong DEF MinSpeech
<1>3. PICK d \in Nat : d = m - 2 - k
  BY <1>2
<1>4. d * hop \in Nat /\ k * hop \in Nat /\ 2 * hop \in Nat
  BY NotNegative
<1>5. m * hop = d * hop + k * hop + 2 * hop
  <2>1. (d + k) * hop = d * hop + k * hop /\ ((d + k) + 2) * hop = (d + k) * hop + 2 * hop
    BY Spread
  <2>2. m = (d + k) + 2
    BY <1>3
  <2>. QED
    BY <2>1, <2>2
<1>6. (2 * k + 1) * hop = k * hop + k * hop + hop
  <2>1. (k + k) * hop = k * hop + k * hop /\ ((k + k) + 1) * hop = (k + k) * hop + 1 * hop
    BY Spread
  <2>2. 2 * k + 1 = (k + k) + 1
    OBVIOUS
  <2>. QED
    BY <2>1, <2>2
<1>7. k * hop + hop < SpeechTime
  BY <1>2, <1>4, <1>5, PrerollLong
<1>8. k * hop + k * hop + hop <= SpeechTime + SilenceTime + hop
  BY <1>4, <1>7, PrerollLong
<1>. QED
  BY <1>1, <1>4, <1>6, <1>8, PrerollLong

LEMMA OnsetStep ==
  ASSUME Hop <= FrameSize, SpeechTime <= SilenceTime + 2 * Hop,
         WorkInv, GateInv, PrerollInv, [Next]_vars, session = "Listening", session' = "Connecting"
  PROVE  \A i \in (LastOpened(history') - MinSpeech + 1)..LastOpened(history') :
           Contains(SentAtStart(Head(events)), history'[i].end)
<1>. DEFINE e == Head(events)
            n == Len(e.windows)
            h == history \o e.windows
            all == SentAtStart(e)
<1>1. Hears /\ ListeningEnabled(session)
  <2>1. ~Rests
    BY DEF Rests
  <2>. QED
    BY <2>1, PrerollSteps
<1>2. Judged(e)
  BY <1>1, Heard, NextEvent
<1>3. e.windows \in Seq(Window) /\ e.samples \in Seq(Int) /\ n \in Nat
  BY <1>2, LenProperties DEF Judged, Event
<1>4. history' = h
  BY <1>1, Heard
<1>5. Had(Course(e.windows), "started")
  BY <1>1, Heard
<1>6. history \in Seq(Window) /\ Now \in Gates /\ preroll \in Seq(Int)
  BY DEF GateInv, PrerollInv
<1>7. PICK l \in Nat, m \in Nat : l = Len(history) /\ m = n
  BY <1>3, <1>6, LenProperties
<1>8. PICK start \in (l + 1)..(l + m) : Spoke(h, start) /\ MinSpeech <= start
  <2>1. AtGate(history, l, speaking, run)
    BY <1>7 DEF GateInv
  <2>. HIDE DEF h
  <2>2. \E on \in (l + 1)..(l + n) : Spoke(history \o e.windows, on) /\ MinSpeech <= on
    <3>. HIDE DEF n, e
    <3>. QED
      BY <1>3, <1>5, <1>6, <1>7, <2>1, StartSpoke DEF n
  <2>. QED
    BY <1>7, <2>2 DEF h
<1>9. /\ Len(h) = l + m
      /\ \A i \in 1..(l + m) : h[i] = IF i <= l THEN history[i] ELSE e.windows[i - l]
  <2>1. /\ Len(h) = Len(history) + n
        /\ \A i \in 1..(Len(history) + n) :
             h[i] = IF i <= Len(history) THEN history[i] ELSE e.windows[i - Len(history)]
    BY <1>3, <1>6, ConcatProperties
  <2>. QED
    BY <1>7, <2>1
<1>10. /\ \A j \in 1..m : Within(e.samples, e.windows[j].end, Far(m - j))
  BY <1>2, <1>3, <1>7, FrameReach
<1>. HIDE DEF h
<1>. DEFINE opened == Opened(h)
            last == LastOpened(h)
<1>11. last \in opened /\ \A other \in opened : other <= last
  <2>1. opened \in SUBSET (0..(l + m)) /\ l + m \in Nat
    BY <1>9, Sizes DEF Opened
  <2>2. start \in opened
    BY <1>8, <1>9, Sizes DEF Spoke, Every, Opened
  <2>. HIDE DEF opened
  <2>3. \E x \in opened : \A y \in opened : y <= x
    <3>1. opened # {}
      BY <2>2
    <3>. QED
      BY <2>1, <3>1, Greatest
  <2>. QED
    BY <2>3 DEF LastOpened, opened
<1>12. start \in opened
  BY <1>8, <1>9, Sizes DEF Spoke, Every, Opened
<1>13. last \in MinSpeech..(l + m) /\ last >= l + 1
  <2>1. last \in MinSpeech..(l + m)
    BY <1>9, <1>11 DEF Opened
  <2>. HIDE DEF opened, last
  <2>. QED
    BY <1>8, <1>11, <1>12, <2>1, Sizes
<1>. HIDE DEF opened, last
<1>14. ASSUME NEW i \in (last - MinSpeech + 1)..last PROVE Contains(all, h[i].end)
  <2>1. i \in 1..(l + m)
    BY <1>13, Sizes
  <2>2. all \in Seq(Int) /\ all = preroll \o e.samples
    BY <1>3, <1>6, ConcatProperties DEF SentAtStart
  <2>. HIDE DEF all
  <2>3. CASE i <= l
    <3>1. i \in 1..l /\ l - i \in Nat /\ l - i <= MinSpeech - 2
      BY <1>13, <2>1, <2>3, Sizes
    <3>2. Far(l - i) <= PrerollSize /\ Far(l - i) \in Int /\ PrerollSize \in Nat
      BY <3>1, OpeningNear, PrerollLong
    <3>3. Within(preroll, history[i].end, Far(l - i)) \/ PrerollSize < Far(l - i)
      BY <1>7, <3>1 DEF PrerollInv
    <3>4. Within(preroll, history[i].end, Far(l - i))
      BY <3>2, <3>3
    <3>5. Within(preroll \o e.samples, history[i].end, Far(l - i) + Len(e.samples))
      BY <1>3, <1>6, <3>2, <3>4, WithinMore
    <3>6. Far(l - i) + Len(e.samples) \in Int
      BY <1>3, <3>2, LenProperties
    <3>7. h[i] = history[i]
      BY <1>9, <2>1, <2>3
    <3>. QED
      BY <2>2, <3>5, <3>6, <3>7, WithinOf
  <2>4. CASE i > l
    <3>1. i - l \in 1..m /\ m - (i - l) \in Int /\ ~(i <= l)
      BY <2>1, <2>4
    <3>2. Within(e.samples, e.windows[i - l].end, Far(m - (i - l))) /\ Far(m - (i - l)) \in Int
      BY <1>10, <3>1, FarGrows
    <3>3. Within(preroll \o e.samples, e.windows[i - l].end, Far(m - (i - l)))
      BY <1>3, <1>6, <3>2, WithinMore
    <3>4. h[i] = e.windows[i - l]
      BY <1>9, <2>1, <3>1
    <3>. QED
      BY <2>2, <3>2, <3>3, <3>4, WithinOf
  <2>5. i <= l \/ i > l
    BY <2>1
  <2>. QED
    BY <2>3, <2>4, <2>5
<1>. QED
  BY <1>4, <1>14 DEF last, all, e

\* With frames that hold a window and a start of speech that takes at most two windows
\* longer than its end to be sure of (200 and 400 ms, unless the settings say otherwise),
\* what start_asr sends first has the ends of all windows that opened the gate,
\* whatever the worker dropped between their frames: the pre-roll
\* (effective_preroll_ms) is long enough.
THEOREM OnsetSentHolds ==
  Hop <= FrameSize /\ SpeechTime <= SilenceTime + 2 * Hop => (Spec => OnsetSent)
<1>. SUFFICES ASSUME Hop <= FrameSize, SpeechTime <= SilenceTime + 2 * Hop PROVE Spec => OnsetSent
  OBVIOUS
<1>. DEFINE Sent ==
       session = "Listening" /\ session' = "Connecting" =>
         \A i \in (LastOpened(history') - MinSpeech + 1)..LastOpened(history') :
           Contains(SentAtStart(Head(events)), history'[i].end)
<1>1. WorkInv /\ GateInv /\ PrerollInv /\ [Next]_vars => [Sent]_vars
  BY OnsetStep
<1>2. Spec => [](SoundInv /\ WorkInv /\ GateInv /\ PrerollInv)
  BY PrerollAlways
<1>. HIDE DEF Sent
<1>3. Spec => [][Sent]_vars
  BY <1>1, <1>2, PTL DEF Spec
<1>. QED
  BY <1>3 DEF Sent, OnsetSent
===============================================================================

------------------------------ MODULE TurnProofs ------------------------------
(***************************************************************************)
(* What holds of the words of a session for any number of turns and frames,*)
(* any size of the buffers and any endpoint mode: the order of the audio   *)
(* and of the text, what the server is told of the turns, that an answer   *)
(* waited for is owed, where the head of a turn goes, and that a turn held *)
(* back stays apart from the next.                                         *)
(***************************************************************************)
EXTENDS Turn, SequenceTheorems, TLAPS

(***************************************************************************)
(* What a buffer of frames holds, and what a sequence of messages says: the*)
(* frames sent, those of turns that are ended, and whether a turn was ended*)
(* after which no other was announced yet.                                 *)
(***************************************************************************)
Message == [what : {"Start", "Finalize", "Stop", "Audio"}, frame : Nat]
Kept(s) == {s[i] : i \in 1..Len(s)}
Rising(s) == \A i, j \in 1..Len(s) : i < j => s[i] < s[j]
Below(A, B) == \A a \in A, b \in B : a < b

At(w, c) == {i \in 1..Len(w) : w[i].what = c}
Sent(w) == {w[i].frame : i \in At(w, "Audio")}
Ordered(w) == \A i, j \in At(w, "Audio") : i < j => w[i].frame < w[j].frame
Ended(w) == {f \in Sent(w) : \E i \in At(w, "Audio"), k \in At(w, "Finalize") :
                                i < k /\ f = w[i].frame}
Sealed(w) == \A k \in At(w, "Finalize") : \A i, j \in At(w, "Audio") :
               i < k /\ k < j => TurnOf(w[i].frame) # TurnOf(w[j].frame)
Apart(A, B) == \A a \in A, b \in B : TurnOf(a) # TurnOf(b)
Unannounced(w) == \E k \in At(w, "Finalize") : \A i \in At(w, "Start") : i < k
AllAnnounced(w) == \A k \in At(w, "Finalize"), j \in At(w, "Audio") :
  k < j /\ w[j].frame % 3 # 1 => \E i \in At(w, "Start") : k < i /\ i < j
AllEnded(w) == \A i \in At(w, "Audio") : \E k \in At(w, "Finalize") : i < k

\* An empty buffer.
LEMMA KeptEmpty == Kept(<<>>) = {} /\ Rising(<<>>) /\ <<>> \in Seq(Nat)
BY EmptySeq DEF Kept, Rising

\* A frame added to a buffer.
LEMMA KeptAppend ==
  ASSUME NEW s \in Seq(Nat), NEW f \in Nat
  PROVE  /\ Append(s, f) \in Seq(Nat) /\ Kept(Append(s, f)) = Kept(s) \cup {f}
         /\ Append(s, f) # <<>>
         /\ Rising(s) /\ Below(Kept(s), {f}) => Rising(Append(s, f))
<1>1. /\ Append(s, f) \in Seq(Nat) /\ Len(Append(s, f)) = Len(s) + 1 /\ Len(s) \in Nat
      /\ \A i \in 1..Len(s) : Append(s, f)[i] = s[i]
      /\ Append(s, f)[Len(s) + 1] = f
  BY AppendProperties, LenProperties
<1>2. \A i : i \in 1..Len(Append(s, f)) <=> i \in 1..Len(s) \/ i = Len(s) + 1
  BY <1>1
<1>3. Kept(Append(s, f)) = Kept(s) \cup {f}
  BY <1>1, <1>2 DEF Kept
<1>4. Append(s, f) # <<>>
  BY <1>1, EmptySeq
<1>5. ASSUME Rising(s), Below(Kept(s), {f}) PROVE Rising(Append(s, f))
  <2>1. \A i \in 1..Len(s) : s[i] < f
    BY <1>5 DEF Below, Kept
  <2>. QED
    BY <1>1, <1>2, <1>5, <2>1 DEF Rising
<1>. QED
  BY <1>1, <1>3, <1>4, <1>5

\* Two buffers, one after the other.
LEMMA KeptConcat ==
  ASSUME NEW s \in Seq(Nat), NEW t \in Seq(Nat)
  PROVE  /\ s \o t \in Seq(Nat) /\ Kept(s \o t) = Kept(s) \cup Kept(t)
         /\ Rising(s) /\ Rising(t) /\ Below(Kept(s), Kept(t)) => Rising(s \o t)
<1>1. /\ s \o t \in Seq(Nat) /\ Len(s \o t) = Len(s) + Len(t)
      /\ Len(s) \in Nat /\ Len(t) \in Nat
      /\ \A i \in 1..(Len(s) + Len(t)) :
           (s \o t)[i] = IF i <= Len(s) THEN s[i] ELSE t[i - Len(s)]
  BY ConcatProperties, LenProperties
<1>. DEFINE u == s \o t
<1>2. /\ \A i \in 1..Len(s) : i \in 1..Len(u) /\ u[i] = s[i]
      /\ \A i \in 1..Len(t) : Len(s) + i \in 1..Len(u) /\ u[Len(s) + i] = t[i]
      /\ \A i \in 1..Len(u) : i \in 1..Len(s) \/ (i - Len(s) \in 1..Len(t) /\ u[i] = t[i - Len(s)])
  BY <1>1
<1>. HIDE DEF u
<1>3. Kept(u) = Kept(s) \cup Kept(t)
  <2>1. ASSUME NEW i \in 1..Len(u) PROVE u[i] \in Kept(s) \cup Kept(t)
    BY <1>2 DEF Kept
  <2>2. ASSUME NEW i \in 1..Len(s) PROVE s[i] \in Kept(u)
    BY <1>2 DEF Kept
  <2>3. ASSUME NEW i \in 1..Len(t) PROVE t[i] \in Kept(u)
    <3>1. Len(s) + i \in 1..Len(u) /\ u[Len(s) + i] = t[i]
      BY <1>2
    <3>. QED
      BY <3>1 DEF Kept
  <2>4. Kept(u) \subseteq Kept(s) \cup Kept(t)
    BY <2>1 DEF Kept
  <2>5. Kept(s) \subseteq Kept(u) /\ Kept(t) \subseteq Kept(u)
    BY <2>2, <2>3 DEF Kept
  <2>. QED
    BY <2>4, <2>5
<1>4. ASSUME Rising(s), Rising(t), Below(Kept(s), Kept(t)) PROVE Rising(u)
  <2>. SUFFICES ASSUME NEW i \in 1..Len(u), NEW j \in 1..Len(u), i < j PROVE u[i] < u[j]
    BY DEF Rising
  <2>1. CASE i \in 1..Len(s) /\ j \in 1..Len(s)
    BY <1>2, <1>4, <2>1 DEF Rising
  <2>2. CASE i \in 1..Len(s) /\ j \notin 1..Len(s)
    BY <1>2, <1>4, <2>2 DEF Below, Kept
  <2>3. CASE i \notin 1..Len(s)
    <3>1. j \notin 1..Len(s)
      BY <1>1, <2>3
    <3>2. i - Len(s) \in 1..Len(t) /\ j - Len(s) \in 1..Len(t) /\ i - Len(s) < j - Len(s)
      BY <1>1, <1>2, <2>3, <3>1
    <3>. QED
      BY <1>2, <1>4, <2>3, <3>1, <3>2 DEF Rising
  <2>. QED
    BY <2>1, <2>2, <2>3
<1>. QED
  BY <1>1, <1>3, <1>4 DEF u

\* A buffer that is full drops its oldest frames.
LEMMA LatestKept ==
  ASSUME NEW n \in Nat \ {0}, NEW s \in Seq(Nat)
  PROVE  /\ Latest(n, s) \in Seq(Nat) /\ Kept(Latest(n, s)) \subseteq Kept(s)
         /\ Rising(s) => Rising(Latest(n, s))
         /\ s # <<>> => Latest(n, s) # <<>>
         /\ \A i \in 1..Len(s) : i > Len(s) - n => s[i] \in Kept(Latest(n, s))
<1>1. Len(s) \in Nat /\ \A i \in 1..Len(s) : s[i] \in Nat
  BY LenProperties, ElementOfSeq
<1>2. CASE Len(s) <= n
  BY <1>1, <1>2 DEF Latest, Kept
<1>3. CASE Len(s) > n
  <2>. DEFINE d == Len(s) - n
              l == SubSeq(s, d + 1, Len(s))
  <2>1. Latest(n, s) = l /\ d \in Nat /\ d + 1 \in 1..(Len(s) + 1)
    BY <1>1, <1>3 DEF Latest
  <2>2. /\ l \in Seq(Nat) /\ Len(l) = n
        /\ \A i \in 1..n : l[i] = s[d + i]
    <3>1. /\ SubSeq(s, d + 1, Len(s)) \in Seq(Nat)
          /\ Len(SubSeq(s, d + 1, Len(s))) =
               IF d + 1 <= Len(s) THEN Len(s) - (d + 1) + 1 ELSE 0
          /\ \A i \in 1..(Len(s) - (d + 1) + 1) : SubSeq(s, d + 1, Len(s))[i] = s[d + 1 + i - 1]
      <4>. HIDE DEF d
      <4>1. d + 1 \in 1..(Len(s) + 1) /\ Len(s) \in (d + 1 - 1)..Len(s)
        BY <1>1, <2>1 DEF d
      <4>2. \A i \in (d + 1)..Len(s) : s[i] \in Nat
        BY <1>1, <2>1
      <4>. QED
        BY <1>1, <2>1, <4>1, <4>2, SubSeqProperties
    <3>2. Len(s) - (d + 1) + 1 = n /\ d + 1 <= Len(s) /\ \A i \in Nat : d + 1 + i - 1 = d + i
      BY <1>1, <1>3, <2>1
    <3>. QED
      BY <3>1, <3>2
  <2>3. \A i \in 1..n : d + i \in 1..Len(s)
    BY <1>1, <1>3, <2>1
  <2>. HIDE DEF l
  <2>4. Kept(l) \subseteq Kept(s)
    <3>1. ASSUME NEW i \in 1..n PROVE l[i] \in Kept(s)
      <4>1. d + i \in 1..Len(s) /\ l[i] = s[d + i]
        BY <2>2, <2>3
      <4>. QED
        BY <4>1 DEF Kept
    <3>. QED
      BY <2>2, <3>1 DEF Kept
  <2>5. Rising(s) => Rising(l)
    <3>1. \A i, j \in 1..n : i < j => d + i < d + j
      BY <2>1
    <3>. QED
      BY <2>2, <2>3, <3>1 DEF Rising
  <2>6. \A i \in 1..Len(s) : i > d => i - d \in 1..n /\ d + (i - d) = i
    BY <1>1, <1>3, <2>1
  <2>7. ASSUME NEW i \in 1..Len(s), i > d PROVE s[i] \in Kept(l)
    <3>1. i - d \in 1..Len(l) /\ l[i - d] = s[i]
      BY <2>2, <2>6, <2>7
    <3>. QED
      BY <3>1 DEF Kept
  <2>8. l # <<>>
    BY <2>2, EmptySeq
  <2>. QED
    BY <2>1, <2>2, <2>4, <2>5, <2>7, <2>8 DEF d
<1>. QED
  BY <1>1, <1>2, <1>3

\* Nothing was said yet.
LEMMA NothingSaid ==
  /\ <<>> \in Seq(Message) /\ Sent(<<>>) = {} /\ Ended(<<>>) = {}
  /\ Ordered(<<>>) /\ Sealed(<<>>) /\ ~Unannounced(<<>>) /\ AllAnnounced(<<>>) /\ AllEnded(<<>>)
<1>1. \A c : At(<<>>, c) = {}
  BY DEF At
<1>2. Sent(<<>>) = {}
  BY <1>1 DEF Sent
<1>. QED
  BY <1>1, <1>2, EmptySeq DEF Ended, Ordered, Sealed, Unannounced, AllAnnounced, AllEnded

\* A command added to what was said.
LEMMA CommandSaid ==
  ASSUME NEW w \in Seq(Message), NEW c \in {"Start", "Finalize", "Stop"}
  PROVE  /\ Append(w, Command(c)) \in Seq(Message)
         /\ Sent(Append(w, Command(c))) = Sent(w)
         /\ Ordered(w) => Ordered(Append(w, Command(c)))
         /\ Sealed(w) => Sealed(Append(w, Command(c)))
         /\ AllAnnounced(w) => AllAnnounced(Append(w, Command(c)))
         /\ Ended(Append(w, Command(c))) = IF c = "Finalize" THEN Sent(w) ELSE Ended(w)
         /\ c = "Start" => ~Unannounced(Append(w, Command(c)))
         /\ c = "Stop" => (Unannounced(w) <=> Unannounced(Append(w, Command(c))))
         /\ c = "Finalize" \/ AllEnded(w) => AllEnded(Append(w, Command(c)))
         /\ \A b : b # c => At(Append(w, Command(c)), b) = At(w, b)
<1>. DEFINE m == Command(c)
            v == Append(w, m)
            n == Len(w) + 1
<1>1. m \in Message /\ m.what = c
  BY DEF Command, Message
<1>. HIDE DEF m
<1>2. /\ v \in Seq(Message) /\ Len(v) = n /\ Len(w) \in Nat
      /\ \A i \in 1..Len(w) : v[i] = w[i]
      /\ v[n] = m
  BY <1>1, AppendProperties, LenProperties
<1>. HIDE DEF v
<1>3. \A i : i \in 1..n <=> i \in 1..Len(w) \/ i = n
  BY <1>2
<1>4. \A i \in 1..Len(w) : i < n
  BY <1>2
<1>5. \A b : At(v, b) = IF b = c THEN At(w, b) \cup {n} ELSE At(w, b)
  BY <1>1, <1>2, <1>3 DEF At
<1>6. \A b : \A i \in At(w, b) : i \in 1..Len(w) /\ i < n /\ v[i] = w[i] /\ ~(n < i)
  BY <1>2, <1>4 DEF At
<1>7. At(v, "Audio") = At(w, "Audio")
  BY <1>5
<1>8. Sent(v) = Sent(w)
  BY <1>6, <1>7 DEF Sent
<1>9. Ordered(w) => Ordered(v)
  BY <1>6, <1>7 DEF Ordered
<1>10. Sealed(w) => Sealed(v)
  BY <1>5, <1>6, <1>7 DEF Sealed
<1>11. AllAnnounced(w) => AllAnnounced(v)
  BY <1>5, <1>6, <1>7 DEF AllAnnounced
<1>12. Ended(v) = IF c = "Finalize" THEN Sent(w) ELSE Ended(w)
  <2>1. CASE c # "Finalize"
    <3>1. At(v, "Finalize") = At(w, "Finalize")
      BY <1>5, <2>1
    <3>. QED
      BY <1>6, <1>7, <1>8, <2>1, <3>1 DEF Ended
  <2>2. CASE c = "Finalize"
    <3>1. n \in At(v, "Finalize")
      BY <1>5, <2>2
    <3>2. \A f \in Sent(w) : \E i \in At(v, "Audio") : i < n /\ f = v[i].frame
      BY <1>6, <1>7 DEF Sent
    <3>. QED
      BY <1>8, <2>2, <3>1, <3>2 DEF Ended
  <2>. QED
    BY <2>1, <2>2
<1>13. c = "Start" => ~Unannounced(v)
  BY <1>5, <1>6 DEF Unannounced
<1>14. c = "Stop" => (Unannounced(w) <=> Unannounced(v))
  BY <1>5 DEF Unannounced
<1>15. c = "Finalize" \/ AllEnded(w) => AllEnded(v)
  <2>1. CASE c = "Finalize"
    BY <1>5, <1>6, <1>7, <2>1 DEF AllEnded
  <2>2. CASE c # "Finalize"
    BY <1>5, <1>7, <2>2 DEF AllEnded
  <2>. QED
    BY <2>1, <2>2
<1>. QED
  BY <1>2, <1>5, <1>8, <1>9, <1>10, <1>11, <1>12, <1>13, <1>14, <1>15 DEF v, m

\* Two messages at once.
LEMMA SaidTwice ==
  ASSUME NEW w \in Seq(Message), NEW a \in Message, NEW b \in Message
  PROVE  w \o <<a, b>> = Append(Append(w, a), b)
<1>. DEFINE t == <<a, b>>
            u == w \o t
            v == Append(w, a)
            x == Append(v, b)
<1>1. t \in Seq(Message) /\ Len(t) = 2 /\ t[1] = a /\ t[2] = b
  OBVIOUS
<1>. HIDE DEF t
<1>2. /\ u \in Seq(Message) /\ Len(u) = Len(w) + 2 /\ Len(w) \in Nat
      /\ \A i \in 1..(Len(w) + 2) : u[i] = IF i <= Len(w) THEN w[i] ELSE t[i - Len(w)]
  <2>1. /\ w \o t \in Seq(Message) /\ Len(w \o t) = Len(w) + Len(t)
        /\ \A i \in 1..(Len(w) + Len(t)) : (w \o t)[i] = IF i <= Len(w) THEN w[i] ELSE t[i - Len(w)]
    <3>1. t \in Seq(Message)
      BY <1>1
    <3>. QED
      BY <3>1, ConcatProperties
  <2>. QED
    BY <1>1, <2>1, LenProperties
<1>. HIDE DEF u
<1>3. /\ v \in Seq(Message) /\ Len(v) = Len(w) + 1 /\ v[Len(w) + 1] = a
      /\ \A i \in 1..Len(w) : v[i] = w[i]
  BY AppendProperties
<1>. HIDE DEF v
<1>4. /\ x \in Seq(Message) /\ Len(x) = Len(v) + 1 /\ x[Len(v) + 1] = b
      /\ \A i \in 1..Len(v) : x[i] = v[i]
  BY <1>3, AppendProperties
<1>. HIDE DEF x
<1>5. ASSUME NEW i \in 1..Len(u) PROVE u[i] = x[i]
  <2>1. i \in 1..Len(w) \/ i = Len(w) + 1 \/ i = Len(w) + 2
    BY <1>2
  <2>2. i = Len(w) + 1 => ~(i <= Len(w)) /\ i - Len(w) = 1 /\ i \in 1..Len(v)
    BY <1>2, <1>3
  <2>3. i = Len(w) + 2 => ~(i <= Len(w)) /\ i - Len(w) = 2 /\ i = Len(v) + 1
    BY <1>2, <1>3
  <2>4. i \in 1..Len(w) => i <= Len(w) /\ i \in 1..Len(v)
    BY <1>2, <1>3
  <2>. QED
    BY <1>1, <1>2, <1>3, <1>4, <2>1, <2>2, <2>3, <2>4
<1>6. Len(u) = Len(x)
  BY <1>2, <1>3, <1>4
<1>7. u = x
  BY <1>2, <1>4, <1>5, <1>6, SeqEqual
<1>. QED
  BY <1>7 DEF t, u, v, x

\* A run of audio added to what was said.
LEMMA AudioSaid ==
  ASSUME NEW w \in Seq(Message), NEW s \in Seq(Nat)
  PROVE  /\ w \o AudioOf(s) \in Seq(Message)
         /\ Sent(w \o AudioOf(s)) = Sent(w) \cup Kept(s)
         /\ Ordered(w) /\ Rising(s) /\ Below(Sent(w), Kept(s)) => Ordered(w \o AudioOf(s))
         /\ Ended(w \o AudioOf(s)) = Ended(w)
         /\ Sealed(w) /\ Apart(Ended(w), Kept(s)) => Sealed(w \o AudioOf(s))
         /\ Unannounced(w \o AudioOf(s)) <=> Unannounced(w)
         /\ /\ AllAnnounced(w)
            /\ ~Unannounced(w) \/ \A f \in Kept(s) : f % 3 = 1
            => AllAnnounced(w \o AudioOf(s))
         /\ \A c : c # "Audio" => At(w \o AudioOf(s), c) = At(w, c)
<1>. DEFINE a == AudioOf(s)
            v == w \o a
            n == Len(w)
<1>1. Len(s) \in Nat /\ \A i \in 1..Len(s) : s[i] \in Nat
  BY LenProperties, ElementOfSeq
<1>2. /\ a \in Seq(Message) /\ Len(a) = Len(s)
      /\ \A i \in 1..Len(s) : a[i].what = "Audio" /\ a[i].frame = s[i]
  BY <1>1 DEF AudioOf, Audio, Message
<1>. HIDE DEF a
<1>3. /\ v \in Seq(Message) /\ Len(v) = n + Len(s) /\ n \in Nat
      /\ \A i \in 1..(n + Len(s)) : v[i] = IF i <= n THEN w[i] ELSE a[i - n]
  <2>1. /\ w \o a \in Seq(Message) /\ Len(w \o a) = Len(w) + Len(a)
        /\ \A i \in 1..(Len(w) + Len(a)) :
             (w \o a)[i] = IF i <= Len(w) THEN w[i] ELSE a[i - Len(w)]
    <3>1. a \in Seq(Message)
      BY <1>2
    <3>. QED
      BY <3>1, ConcatProperties
  <2>. QED
    BY <1>2, <2>1, LenProperties
<1>. HIDE DEF v
<1>4. /\ \A i \in 1..n : i \in 1..Len(v) /\ v[i] = w[i]
      /\ \A i \in 1..Len(s) : n + i \in 1..Len(v) /\ v[n + i].what = "Audio" /\ v[n + i].frame = s[i]
      /\ \A i \in 1..Len(v) : i \in 1..n \/
           (n < i /\ i - n \in 1..Len(s) /\ v[i].what = "Audio" /\ v[i].frame = s[i - n])
  <2>. HIDE DEF n
  <2>1. \A i \in 1..n : i \in 1..Len(v) /\ v[i] = w[i]
    BY <1>1, <1>3
  <2>2. ASSUME NEW i \in 1..Len(s)
        PROVE  n + i \in 1..Len(v) /\ v[n + i].what = "Audio" /\ v[n + i].frame = s[i]
    <3>1. n + i \in 1..(n + Len(s)) /\ ~(n + i <= n) /\ n + i - n = i
      BY <1>1, <1>3
    <3>2. v[n + i] = a[i]
      BY <1>3, <3>1
    <3>. QED
      BY <1>2, <1>3, <3>1, <3>2
  <2>3. ASSUME NEW i \in 1..Len(v), i \notin 1..n
        PROVE  n < i /\ i - n \in 1..Len(s) /\ v[i].what = "Audio" /\ v[i].frame = s[i - n]
    <3>1. n < i /\ ~(i <= n) /\ i - n \in 1..Len(s) /\ i \in 1..(n + Len(s))
      BY <1>1, <1>3, <2>3
    <3>. QED
      BY <1>2, <1>3, <3>1
  <2>. QED
    BY <2>1, <2>2, <2>3
<1>5. \A c : c # "Audio" => At(v, c) = At(w, c)
  BY <1>4 DEF At
<1>6. /\ \A i \in At(w, "Audio") : i \in At(v, "Audio") /\ v[i].frame = w[i].frame
      /\ \A i \in 1..Len(s) : n + i \in At(v, "Audio") /\ v[n + i].frame = s[i]
      /\ \A i \in At(v, "Audio") : i \in At(w, "Audio") \/
           (n < i /\ i - n \in 1..Len(s) /\ v[i].frame = s[i - n])
  BY <1>4 DEF At
<1>7. \A c : \A k \in At(w, c) : k \in 1..n
  BY DEF At
<1>8. \A i \in At(w, "Audio") : v[i].frame = w[i].frame /\ w[i].frame \in Sent(w)
  BY <1>6 DEF Sent
<1>9. \A i \in 1..Len(s) : s[i] \in Kept(s)
  BY DEF Kept
<1>10. \A i \in At(v, "Audio") : i \in Int /\ v[i].frame \in Nat
  <2>1. \A i \in 1..Len(v) : v[i] \in Message /\ i \in Int
    BY <1>3, ElementOfSeq
  <2>. QED
    BY <2>1 DEF At, Message
<1>11. Sent(v) = Sent(w) \cup Kept(s)
  <2>1. Sent(v) \subseteq Sent(w) \cup Kept(s)
    BY <1>6, <1>8, <1>9 DEF Sent
  <2>2. Sent(w) \subseteq Sent(v)
    BY <1>6 DEF Sent
  <2>3. Kept(s) \subseteq Sent(v)
    <3>1. ASSUME NEW i \in 1..Len(s) PROVE s[i] \in Sent(v)
      <4>1. n + i \in At(v, "Audio") /\ v[n + i].frame = s[i]
        BY <1>6
      <4>. QED
        BY <4>1 DEF Sent
    <3>. QED
      BY <3>1 DEF Kept
  <2>. QED
    BY <2>1, <2>2, <2>3
<1>12. ASSUME Ordered(w), Rising(s), Below(Sent(w), Kept(s)) PROVE Ordered(v)
  <2>. SUFFICES ASSUME NEW i \in At(v, "Audio"), NEW j \in At(v, "Audio"), i < j
                PROVE  v[i].frame < v[j].frame
    BY DEF Ordered
  <2>1. CASE j \in At(w, "Audio")
    <3>1. i \in At(w, "Audio")
      <4>1. j \in 1..n /\ i \in Int
        BY <1>7, <1>10, <2>1
      <4>2. ~(n < i)
        BY <1>3, <4>1
      <4>. QED
        BY <1>6, <4>2
    <3>. QED
      BY <1>8, <1>12, <2>1, <3>1 DEF Ordered
  <2>2. CASE j \notin At(w, "Audio") /\ i \in At(w, "Audio")
    BY <1>6, <1>8, <1>9, <1>12, <2>2 DEF Below
  <2>3. CASE j \notin At(w, "Audio") /\ i \notin At(w, "Audio")
    <3>1. i - n \in 1..Len(s) /\ j - n \in 1..Len(s) /\ v[i].frame = s[i - n] /\ v[j].frame = s[j - n]
      BY <1>6, <2>3
    <3>2. i - n < j - n
      BY <1>3, <1>10
    <3>. QED
      BY <1>12, <3>1, <3>2 DEF Rising
  <2>. QED
    BY <2>1, <2>2, <2>3
<1>13. \A k \in At(w, "Finalize") : \A i \in At(v, "Audio") : i < k => i \in At(w, "Audio")
  BY <1>1, <1>3, <1>6, <1>7, <1>10
<1>14. Ended(v) = Ended(w)
  <2>1. Ended(v) \subseteq Ended(w)
    BY <1>5, <1>8, <1>13 DEF Ended
  <2>2. Ended(w) \subseteq Ended(v)
    BY <1>5, <1>6, <1>11 DEF Ended
  <2>. QED
    BY <2>1, <2>2
<1>15. ASSUME Sealed(w), Apart(Ended(w), Kept(s)) PROVE Sealed(v)
  <2>. SUFFICES ASSUME NEW k \in At(w, "Finalize"), NEW i \in At(v, "Audio"),
                       NEW j \in At(v, "Audio"), i < k, k < j
                PROVE  TurnOf(v[i].frame) # TurnOf(v[j].frame)
    BY <1>5 DEF Sealed
  <2>1. i \in At(w, "Audio") /\ v[i].frame = w[i].frame /\ w[i].frame \in Ended(w)
    BY <1>8, <1>13 DEF Ended
  <2>2. CASE j \in At(w, "Audio")
    BY <1>8, <1>15, <2>1, <2>2 DEF Sealed
  <2>3. CASE j \notin At(w, "Audio")
    BY <1>6, <1>9, <1>15, <2>1, <2>3 DEF Apart
  <2>. QED
    BY <2>2, <2>3
<1>16. Unannounced(v) <=> Unannounced(w)
  BY <1>5 DEF Unannounced
<1>17. ASSUME AllAnnounced(w), ~Unannounced(w) \/ \A f \in Kept(s) : f % 3 = 1
       PROVE  AllAnnounced(v)
  <2>. SUFFICES ASSUME NEW k \in At(w, "Finalize"), NEW j \in At(v, "Audio"),
                       k < j, v[j].frame % 3 # 1
                PROVE  \E i \in At(w, "Start") : k < i /\ i < j
    BY <1>5 DEF AllAnnounced
  <2>1. CASE j \in At(w, "Audio")
    BY <1>8, <1>17, <2>1 DEF AllAnnounced
  <2>2. CASE j \notin At(w, "Audio")
    <3>1. n < j /\ v[j].frame \in Kept(s)
      BY <1>6, <1>9, <2>2
    <3>2. ~Unannounced(w)
      BY <1>17, <3>1
    <3>3. PICK i \in At(w, "Start") : ~(i < k)
      BY <3>2 DEF Unannounced
    <3>4. i # k /\ i \in 1..n /\ k \in 1..n
      BY <1>7 DEF At
    <3>5. k < i /\ i < j
      BY <1>3, <1>10, <3>1, <3>3, <3>4
    <3>. QED
      BY <3>5
  <2>. QED
    BY <2>1, <2>2
<1>. QED
  BY <1>3, <1>5, <1>11, <1>12, <1>14, <1>15, <1>16, <1>17 DEF v, a

\* One frame.
LEMMA FrameSaid ==
  ASSUME NEW w \in Seq(Message), NEW f \in Nat
  PROVE  /\ Append(w, Audio(f)) = w \o AudioOf(<<f>>) /\ w \o <<Audio(f)>> = w \o AudioOf(<<f>>)
         /\ <<f>> \in Seq(Nat) /\ Kept(<<f>>) = {f} /\ Rising(<<f>>)
<1>1. AudioOf(<<f>>) = <<Audio(f)>>
  BY DEF AudioOf
<1>2. Append(w, Audio(f)) = w \o <<Audio(f)>>
  <2>1. Audio(f) \in Message
    BY DEF Audio, Message
  <2>. QED
    BY <2>1, AppendIsConcat
<1>3. Len(<<f>>) = 1 /\ <<f>>[1] = f /\ \A i \in 1..1 : i = 1
  OBVIOUS
<1>4. Kept(<<f>>) = {f}
  BY <1>3 DEF Kept
<1>5. Rising(<<f>>)
  BY <1>3 DEF Rising
<1>6. <<f>> \in Seq(Nat)
  OBVIOUS
<1>7. Append(w, Audio(f)) = w \o AudioOf(<<f>>) /\ w \o <<Audio(f)>> = w \o AudioOf(<<f>>)
  BY <1>1, <1>2
<1>. QED
  BY <1>4, <1>5, <1>6, <1>7

--------------------------------------------------------------------------------
(***************************************************************************)
(* The invariant, first part: where the frames are.                        *)
(***************************************************************************)
Flags ==
  /\ warmup \in BOOLEAN /\ finalized \in BOOLEAN /\ paused \in BOOLEAN
  /\ deferred.ended \in BOOLEAN
Buffers ==
  /\ mode \in {"client", "server", "both"} /\ frames \in Nat
  /\ session \in {"Listening", "Connecting", "Streaming", "Closing", "Failed"}
  /\ delayed \in {"none", "speaking", "ended"}
  /\ deferred = [audio |-> deferred.audio, ended |-> deferred.ended]
  /\ deferred.audio \in Seq(Nat)
  /\ preroll \in Seq(Nat) /\ pending \in Seq(Nat) /\ wire \in Seq(Message)

\* Whether the pre-roll is still to be sent to this connection.
InUse == session = "Connecting" \/ (session = "Streaming" /\ mode # "client")

\* What the state says of the buffers: nothing is kept for no connection, nothing is
\* pending for one that is up, and the pre-roll of speech that flows is empty.
Flow ==
  /\ session \in {"Listening", "Failed"} => wire = <<>> /\ pending = <<>> /\ finalized = FALSE
  /\ session \in {"Streaming", "Closing"} => pending = <<>>
  /\ finalized = TRUE => mode # "server"
  /\ mode = "client" => paused = FALSE
  /\ deferred # NotDeferred => warmup = TRUE /\ preroll = <<>>
  /\ session = "Connecting" /\ finalized = FALSE => preroll = <<>>
  /\ session = "Connecting" /\ finalized = TRUE => mode = "client" \/ paused = TRUE
  /\ session = "Streaming" /\ paused = FALSE => mode = "client" \/ preroll = <<>>

\* What is sent is older than what is pending, which is older than what is to follow it.
InLine(w, p, r, use) ==
  /\ Ordered(w) /\ Rising(p) /\ Rising(r) /\ Below(Sent(w), Kept(p))
  /\ use => Below(Sent(w) \cup Kept(p), Kept(r))
Past(w, p, r, n) == \A f \in Sent(w) \cup Kept(p) \cup Kept(r) : f # 0 /\ f <= n

Order ==
  /\ InLine(wire, pending, preroll, InUse) /\ Past(wire, pending, preroll, frames)
  /\ Rising(deferred.audio) /\ \A f \in Kept(deferred.audio) : f # 0 /\ f <= frames

Placed == Flags /\ Buffers /\ Flow /\ Order

(***************************************************************************)
(* Second part, without warm-ups: what the server knows of the turns.      *)
(***************************************************************************)
Turned ==
  /\ deferred = NotDeferred /\ warmup = FALSE /\ delayed = "none"
  /\ Speaking => finalized = FALSE
  /\ session = "Connecting" /\ finalized = TRUE => pending = <<>>
\* A turn that was ended is none that goes on.
TurnsApart ==
  /\ Sealed(wire) /\ Apart(Ended(wire), Kept(pending))
  /\ InUse => Apart(Ended(wire), Kept(preroll))
  /\ session # "Closing" => \A f \in Ended(wire) : TurnOf(f) < TurnOf(frames + 1)
\* A turn that goes on was announced.
TurnsAnnounced ==
  /\ AllAnnounced(wire)
  /\ session = "Connecting" /\ finalized = FALSE => ~Unannounced(wire)
  /\ session = "Streaming" /\ Speaking => ~Unannounced(wire)
\* A turn that is over was ended.
TurnsEnded ==
  mode # "server" /\ session \in {"Connecting", "Streaming"} /\ frames % 3 = 0 =>
    AllEnded(wire) /\ pending = <<>>
TurnsKnown == Turned /\ TurnsApart /\ TurnsAnnounced /\ TurnsEnded

\* What a command, the sending of what is pending, and a frame leave of the order.
LEMMA LineSaid ==
  ASSUME NEW w \in Seq(Message), NEW p \in Seq(Nat), NEW r \in Seq(Nat), NEW use \in BOOLEAN,
         NEW n \in Nat, NEW c \in {"Start", "Finalize", "Stop"},
         InLine(w, p, r, use), Past(w, p, r, n)
  PROVE  /\ InLine(Append(w, Command(c)), p, r, use)
         /\ Past(Append(w, Command(c)), p, r, n)
BY CommandSaid DEF InLine, Past

\* What is pending goes out.
LEMMA LineFlushed ==
  ASSUME NEW w \in Seq(Message), NEW p \in Seq(Nat), NEW r \in Seq(Nat), NEW use \in BOOLEAN,
         NEW n \in Nat, InLine(w, p, r, use), Past(w, p, r, n)
  PROVE  /\ InLine(w \o AudioOf(p), <<>>, r, use)
         /\ Past(w \o AudioOf(p), <<>>, r, n)
<1>. DEFINE v == w \o AudioOf(p)
<1>1. v \in Seq(Message) /\ Sent(v) = Sent(w) \cup Kept(p) /\ Ordered(v)
  BY AudioSaid DEF InLine
<1>. HIDE DEF v
<1>2. InLine(v, <<>>, r, use) /\ Past(v, <<>>, r, n)
  BY <1>1, KeptEmpty DEF InLine, Past, Below
<1>. QED
  BY <1>2 DEF v

\* A frame goes out, to what is pending, or to the pre-roll.
LEMMA LineFrame ==
  ASSUME NEW w \in Seq(Message), NEW p \in Seq(Nat), NEW r \in Seq(Nat), NEW use \in BOOLEAN,
         NEW n \in Nat, NEW m \in Nat \ {0}, InLine(w, p, r, use), Past(w, p, r, n)
  PROVE  /\ p = <<>> /\ (use => r = <<>>) => InLine(w \o AudioOf(<<n + 1>>), p, r, use)
         /\ Past(w \o AudioOf(<<n + 1>>), p, r, n + 1)
         /\ (use => r = <<>>) => InLine(w, Latest(m, Append(p, n + 1)), r, use)
         /\ Past(w, Latest(m, Append(p, n + 1)), r, n + 1)
         /\ InLine(w, p, Latest(m, Append(r, n + 1)), use)
         /\ Past(w, p, Latest(m, Append(r, n + 1)), n + 1)
         /\ Past(w, p, r, n + 1)
<1>. DEFINE f == n + 1
            v == w \o AudioOf(<<f>>)
            q == Latest(m, Append(p, f))
            t == Latest(m, Append(r, f))
<1>1. \A g \in Sent(w) \cup Kept(p) \cup Kept(r) : g \in Nat /\ g # 0 /\ g <= n /\ g < f
  <2>1. \A g \in Sent(w) : g \in Nat
    <3>1. \A i \in 1..Len(w) : w[i] \in Message
      BY ElementOfSeq
    <3>. QED
      BY <3>1 DEF Sent, At, Message
  <2>2. \A g \in Kept(p) \cup Kept(r) : g \in Nat
    BY ElementOfSeq DEF Kept
  <2>. QED
    BY <2>1, <2>2 DEF Past
<1>2. v \in Seq(Message) /\ Sent(v) = Sent(w) \cup {f} /\ Ordered(v)
  <2>1. <<f>> \in Seq(Nat) /\ Kept(<<f>>) = {f} /\ Rising(<<f>>)
    <3>1. f \in Nat
      OBVIOUS
    <3>. HIDE DEF f
    <3>. QED
      BY <3>1, FrameSaid
  <2>2. Below(Sent(w), Kept(<<f>>))
    BY <1>1, <2>1 DEF Below
  <2>. QED
    BY <2>1, <2>2, AudioSaid DEF InLine
<1>3. Append(p, f) \in Seq(Nat) /\ Kept(Append(p, f)) = Kept(p) \cup {f} /\ Rising(Append(p, f))
  <2>1. Below(Kept(p), {f})
    BY <1>1 DEF Below
  <2>. QED
    BY <2>1, KeptAppend DEF InLine
<1>4. Append(r, f) \in Seq(Nat) /\ Kept(Append(r, f)) = Kept(r) \cup {f} /\ Rising(Append(r, f))
  <2>1. Below(Kept(r), {f})
    BY <1>1 DEF Below
  <2>. QED
    BY <2>1, KeptAppend DEF InLine
<1>5. Kept(q) \subseteq Kept(p) \cup {f} /\ Rising(q)
  BY <1>3, LatestKept
<1>6. Kept(t) \subseteq Kept(r) \cup {f} /\ Rising(t)
  BY <1>4, LatestKept
<1>7. f \in Nat /\ f # 0 /\ n <= f /\ f <= f
  OBVIOUS
<1>. HIDE DEF f, v, q, t
<1>8. Past(w, p, r, f) /\ Past(w, q, r, f) /\ Past(w, p, t, f) /\ Past(v, p, r, f)
  <2>1. \A g \in Sent(w) \cup Kept(p) \cup Kept(r) \cup {f} : g # 0 /\ g <= f
    BY <1>1, <1>7
  <2>2. Past(w, p, r, f) /\ Past(v, p, r, f)
    BY <1>2, <2>1 DEF Past
  <2>3. Past(w, q, r, f) /\ Past(w, p, t, f)
    BY <1>5, <1>6, <2>1 DEF Past
  <2>. QED
    BY <2>2, <2>3
<1>9. ASSUME p = <<>>, use => r = <<>> PROVE InLine(v, p, r, use)
  <2>1. Below(Sent(v), Kept(p)) /\ (use => Below(Sent(v) \cup Kept(p), Kept(r)))
    BY <1>9, KeptEmpty DEF Below
  <2>. QED
    BY <1>2, <2>1 DEF InLine
<1>10. ASSUME use => r = <<>> PROVE InLine(w, q, r, use)
  <2>1. Below(Sent(w), Kept(q)) /\ (use => Below(Sent(w) \cup Kept(q), Kept(r)))
    BY <1>1, <1>5, <1>10, KeptEmpty DEF Below, InLine
  <2>. QED
    BY <1>5, <2>1 DEF InLine
<1>11. InLine(w, p, t, use)
  <2>1. use => Below(Sent(w) \cup Kept(p), Kept(t))
    BY <1>1, <1>6 DEF Below, InLine
  <2>. QED
    BY <1>6, <2>1 DEF InLine
<1>. QED
  BY <1>8, <1>9, <1>10, <1>11 DEF f, v, q, t

\* The pre-roll matters less, or is gone.
LEMMA LineWithout ==
  ASSUME NEW w \in Seq(Message), NEW p \in Seq(Nat), NEW r \in Seq(Nat), NEW use \in BOOLEAN,
         NEW n \in Nat, InLine(w, p, r, use), Past(w, p, r, n)
  PROVE  /\ \A more \in BOOLEAN : InLine(w, p, <<>>, more)
         /\ Past(w, p, <<>>, n)
         /\ \A more \in BOOLEAN : (more => use \/ r = <<>>) => InLine(w, p, r, more)
BY KeptEmpty DEF InLine, Past, Below

\* Where a frame goes, and what it leaves of the order.
LEMMA FrameHandled ==
  ASSUME Placed
  PROVE  LET f == frames + 1
             h == HeldWith(f)
             w == WireWith(f)
             p == PendingWith(f)
             r == PrerollWith(f)
         IN  /\ h = [audio |-> h.audio, ended |-> deferred.ended] /\ h.audio \in Seq(Nat)
             /\ w \in Seq(Message) /\ p \in Seq(Nat) /\ r \in Seq(Nat)
             /\ InLine(w, p, r, InUse) /\ Past(w, p, r, f)
             /\ Rising(h.audio) /\ \A g \in Kept(h.audio) : g # 0 /\ g <= f
             /\ session \in {"Listening", "Failed"} => w = <<>> /\ p = <<>>
             /\ session \in {"Streaming", "Closing"} => p = <<>>
             /\ h # NotDeferred => warmup = TRUE /\ r = <<>>
             /\ session = "Connecting" /\ finalized = FALSE => r = <<>>
             /\ session = "Streaming" /\ paused = FALSE => mode = "client" \/ r = <<>>
<1>. DEFINE f == frames + 1
            h == HeldWith(f)
            w == WireWith(f)
            p == PendingWith(f)
            r == PrerollWith(f)
<1>. USE DEF Placed
<1>1. /\ frames \in Nat /\ f \in Nat /\ deferred.audio \in Seq(Nat) /\ InUse \in BOOLEAN
      /\ wire \in Seq(Message) /\ pending \in Seq(Nat) /\ preroll \in Seq(Nat)
      /\ deferred = [audio |-> deferred.audio, ended |-> deferred.ended]
  BY DEF Buffers, InUse
<1>2. MaxPending \in Nat \ {0} /\ PrerollSize \in Nat \ {0}
  BY TurnAssumption
<1>3. /\ InLine(wire, pending, preroll, InUse) /\ Past(wire, pending, preroll, frames)
      /\ Rising(deferred.audio) /\ \A g \in Kept(deferred.audio) : g \in Nat /\ g # 0 /\ g <= frames
  BY <1>1, ElementOfSeq DEF Order, Kept
<1>4. /\ InLine(wire, pending, preroll, InUse) /\ Past(wire, pending, preroll, f)
      /\ \A g \in Kept(deferred.audio) : g # 0 /\ g <= f
  <2>1. Past(wire, pending, preroll, frames + 1)
    BY <1>1, <1>2, <1>3, LineFrame
  <2>2. \A g \in Kept(deferred.audio) : g # 0 /\ g <= f
    BY <1>1, <1>3
  <2>. QED
    BY <1>3, <2>1, <2>2
<1>5. CASE Deferring
  <2>1. w = wire /\ p = pending /\ r = preroll /\ preroll = <<>> /\ warmup = TRUE
    BY <1>5 DEF WireWith, PendingWith, PrerollWith, Deferring, Flow
  <2>2. h = [audio |-> Append(deferred.audio, f), ended |-> deferred.ended]
    BY <1>1, <1>5 DEF HeldWith
  <2>3. Below(Kept(deferred.audio), {f})
    BY <1>1, <1>3 DEF Below
  <2>4. /\ Append(deferred.audio, f) \in Seq(Nat) /\ Rising(Append(deferred.audio, f))
        /\ Kept(Append(deferred.audio, f)) = Kept(deferred.audio) \cup {f}
    BY <1>1, <1>3, <2>3, KeptAppend
  <2>5. /\ h = [audio |-> h.audio, ended |-> deferred.ended] /\ h.audio \in Seq(Nat)
        /\ Rising(h.audio) /\ \A g \in Kept(h.audio) : g # 0 /\ g <= f
    <3>. DEFINE more == Append(deferred.audio, f)
    <3>. HIDE DEF more, f
    <3>1. h = [audio |-> more, ended |-> deferred.ended] /\ h.audio = more
      BY <2>2 DEF more
    <3>2. f # 0 /\ f <= f
      BY <1>1 DEF f
    <3>. HIDE DEF h
    <3>. QED
      BY <1>4, <2>4, <3>1, <3>2 DEF more
  <2>. HIDE DEF h, w, p, r, f
  <2>. QED
    BY <1>1, <1>4, <2>1, <2>5 DEF Flow, f, h, w, p, r
<1>6. CASE ~Deferring
  <2>1. h = deferred /\ deferred = NotDeferred
    BY <1>6 DEF HeldWith, Deferring
  <2>2. CASE warmup = TRUE
    <3>1. w = wire /\ p = pending /\ r = preroll
      BY <2>2 DEF WireWith, PendingWith, PrerollWith
    <3>. HIDE DEF h, w, p, r, f
    <3>. QED
      BY <1>1, <1>3, <1>4, <2>1, <2>2, <3>1 DEF Flow, f, h, w, p, r
  <2>3. CASE warmup = FALSE /\ ToWire
    <3>1. w = Append(wire, Audio(f)) /\ p = pending /\ r = preroll
      BY <1>6, <2>3 DEF WireWith, PendingWith, PrerollWith, ToWire, ToPending
    <3>2. w = wire \o AudioOf(<<f>>) /\ <<f>> \in Seq(Nat)
      BY <1>1, <3>1, FrameSaid
    <3>3. session = "Streaming" /\ paused = FALSE /\ pending = <<>> /\ (InUse => preroll = <<>>)
      BY <2>3 DEF ToWire, Flow, Flags, InUse
    <3>4. InLine(w, p, r, InUse) /\ Past(w, p, r, f)
      <4>1. /\ InLine(wire \o AudioOf(<<frames + 1>>), pending, preroll, InUse)
            /\ Past(wire \o AudioOf(<<frames + 1>>), pending, preroll, frames + 1)
        BY <1>1, <1>2, <1>3, <3>3, LineFrame
      <4>. QED
        BY <3>1, <3>2, <4>1
    <3>5. w \in Seq(Message)
      BY <1>1, <3>2, AudioSaid
    <3>. HIDE DEF h, w, p, r, f
    <3>. QED
      BY <1>1, <1>3, <1>4, <2>1, <2>3, <3>1, <3>3, <3>4, <3>5 DEF Flow, f, h, w, p, r
  <2>4. CASE warmup = FALSE /\ ToPending
    <3>1. w = wire /\ p = Latest(MaxPending, Append(pending, f)) /\ r = preroll
      BY <1>6, <2>4 DEF WireWith, PendingWith, PrerollWith, ToWire, ToPending
    <3>2. session = "Connecting" /\ finalized = FALSE /\ preroll = <<>>
      BY <2>4 DEF ToPending, Flow, Flags
    <3>3. InLine(w, p, r, InUse) /\ Past(w, p, r, f)
      <4>1. /\ InLine(wire, Latest(MaxPending, Append(pending, frames + 1)), preroll, InUse)
            /\ Past(wire, Latest(MaxPending, Append(pending, frames + 1)), preroll, frames + 1)
        BY <1>1, <1>2, <1>3, <3>2, LineFrame
      <4>. QED
        BY <3>1, <4>1
    <3>4. p \in Seq(Nat)
      BY <1>1, <1>2, <3>1, KeptAppend, LatestKept
    <3>. HIDE DEF h, w, p, r, f
    <3>. QED
      BY <1>1, <1>3, <1>4, <2>1, <2>4, <3>1, <3>2, <3>3, <3>4 DEF Flow, f, h, w, p, r
  <2>5. CASE warmup = FALSE /\ ~ToWire /\ ~ToPending
    <3>1. w = wire /\ p = pending /\ r = Latest(PrerollSize, Append(preroll, f))
      BY <1>6, <2>5 DEF WireWith, PendingWith, PrerollWith
    <3>2. /\ ~(session = "Streaming" /\ paused = FALSE)
          /\ ~(session = "Connecting" /\ finalized = FALSE)
      BY <2>5 DEF ToPending, ToWire
    <3>3. InLine(w, p, r, InUse) /\ Past(w, p, r, f)
      <4>1. /\ InLine(wire, pending, Latest(PrerollSize, Append(preroll, frames + 1)), InUse)
            /\ Past(wire, pending, Latest(PrerollSize, Append(preroll, frames + 1)), frames + 1)
        BY <1>1, <1>2, <1>3, LineFrame
      <4>. QED
        BY <3>1, <4>1
    <3>4. r \in Seq(Nat)
      BY <1>1, <1>2, <3>1, KeptAppend, LatestKept
    <3>. HIDE DEF h, w, p, r, f
    <3>. QED
      BY <1>1, <1>3, <1>4, <2>1, <2>5, <3>1, <3>2, <3>3, <3>4 DEF Flow, f, h, w, p, r
  <2>. QED
    BY <2>2, <2>3, <2>4, <2>5 DEF Flags
<1>. QED
  BY <1>5, <1>6

\* What the end of speech does to the buffers, whatever state they were left in.
LEMMA SpeechFinished ==
  ASSUME Placed, NEW state, NEW before, NEW queued \in Seq(Nat), NEW sent \in Seq(Message),
         FinishSpeech(state, before, queued, sent)
  PROVE  \/ /\ mode # "server" /\ state \in {"Connecting", "Streaming"} /\ finalized = FALSE
            /\ wire' = Append(sent \o AudioOf(queued), Command("Finalize")) /\ pending' = <<>>
            /\ finalized' = TRUE
            /\ mode = "both" => preroll' = <<>> /\ paused' = TRUE
            /\ mode = "client" => preroll' = before /\ paused' = paused
         \/ /\ mode = "server" \/ state \notin {"Connecting", "Streaming"} \/ finalized = TRUE
            /\ wire' = sent /\ pending' = queued /\ preroll' = before
            /\ finalized' = finalized /\ paused' = paused
<1>1. TurnEnded(queued, sent) = Append(sent \o AudioOf(queued), Command("Finalize"))
  <2>1. sent \o AudioOf(queued) \in Seq(Message)
    BY AudioSaid
  <2>2. Command("Finalize") \in Message
    BY DEF Command, Message
  <2>. QED
    BY <2>1, <2>2, AppendIsConcat DEF TurnEnded
<1>2. mode \in {"client", "server", "both"} /\ finalized \in BOOLEAN /\ paused \in BOOLEAN
  BY DEF Placed, Buffers, Flags
<1>3. CASE mode # "server" /\ state \in {"Connecting", "Streaming"} /\ ~finalized
  BY <1>1, <1>2, <1>3 DEF FinishSpeech
<1>4. CASE ~(mode # "server" /\ state \in {"Connecting", "Streaming"} /\ ~finalized)
  BY <1>2, <1>4 DEF FinishSpeech
<1>. QED
  BY <1>3, <1>4

\* The facts about the state that the steps go by.
LEMMA Now ==
  ASSUME Placed
  PROVE  /\ frames \in Nat /\ frames + 1 \in Nat /\ InUse \in BOOLEAN
         /\ wire \in Seq(Message) /\ pending \in Seq(Nat) /\ preroll \in Seq(Nat)
         /\ deferred.audio \in Seq(Nat) /\ Rising(deferred.audio) /\ Rising(preroll)
         /\ \A f \in Kept(deferred.audio) : f \in Nat /\ f # 0 /\ f <= frames
         /\ \A f \in Sent(wire) \cup Kept(pending) \cup Kept(preroll) : f \in Nat /\ f # 0 /\ f <= frames
         /\ InLine(wire, pending, preroll, InUse) /\ Past(wire, pending, preroll, frames)
         /\ Past(wire, pending, preroll, frames + 1)
         /\ MaxPending \in Nat \ {0} /\ PrerollSize \in Nat \ {0}
<1>1. /\ frames \in Nat /\ InUse \in BOOLEAN
      /\ wire \in Seq(Message) /\ pending \in Seq(Nat) /\ preroll \in Seq(Nat)
      /\ deferred.audio \in Seq(Nat) /\ Rising(deferred.audio) /\ Rising(preroll)
      /\ InLine(wire, pending, preroll, InUse) /\ Past(wire, pending, preroll, frames)
  BY DEF Placed, Buffers, InUse, Order, InLine
<1>2. MaxPending \in Nat \ {0} /\ PrerollSize \in Nat \ {0}
  BY TurnAssumption
<1>3. \A f \in Kept(deferred.audio) : f \in Nat /\ f # 0 /\ f <= frames
  <2>1. \A i \in 1..Len(deferred.audio) : deferred.audio[i] \in Nat
    BY <1>1, ElementOfSeq
  <2>. QED
    BY <2>1 DEF Placed, Order, Kept
<1>4. \A f \in Sent(wire) \cup Kept(pending) \cup Kept(preroll) : f \in Nat /\ f # 0 /\ f <= frames
  <2>1. \A i \in 1..Len(wire) : wire[i] \in Message
    BY <1>1, ElementOfSeq
  <2>2. \A f \in Sent(wire) : f \in Nat
    BY <2>1 DEF Sent, At, Message
  <2>3. \A f \in Kept(pending) \cup Kept(preroll) : f \in Nat
    BY <1>1, ElementOfSeq DEF Kept
  <2>. QED
    BY <1>1, <2>2, <2>3 DEF Past
<1>5. Past(wire, pending, preroll, frames + 1)
  BY <1>1, <1>4 DEF Past
<1>. QED
  BY <1>1, <1>2, <1>3, <1>4, <1>5

\* A frame before the gate opens.
LEMMA OnsetPlaced ==
  ASSUME Placed, Onset, mode' = mode
  PROVE  Placed'
<1>1. /\ frames' = frames + 1 /\ UNCHANGED <<mode, session, warmup, finalized, paused, delayed>>
      /\ deferred' = HeldWith(frames + 1) /\ wire' = WireWith(frames + 1)
      /\ pending' = PendingWith(frames + 1) /\ preroll' = PrerollWith(frames + 1)
  BY DEF Onset, turnVars
<1>2. InUse' = InUse
  BY <1>1 DEF InUse
<1>3. /\ deferred' = [audio |-> deferred'.audio, ended |-> deferred.ended]
      /\ deferred'.audio \in Seq(Nat)
      /\ wire' \in Seq(Message) /\ pending' \in Seq(Nat) /\ preroll' \in Seq(Nat)
      /\ InLine(wire', pending', preroll', InUse) /\ Past(wire', pending', preroll', frames + 1)
      /\ Rising(deferred'.audio) /\ \A g \in Kept(deferred'.audio) : g # 0 /\ g <= frames + 1
      /\ session \in {"Listening", "Failed"} => wire' = <<>> /\ pending' = <<>>
      /\ session \in {"Streaming", "Closing"} => pending' = <<>>
      /\ deferred' # NotDeferred => warmup = TRUE /\ preroll' = <<>>
      /\ session = "Connecting" /\ finalized = FALSE => preroll' = <<>>
      /\ session = "Streaming" /\ paused = FALSE => mode = "client" \/ preroll' = <<>>
  BY <1>1, FrameHandled
<1>4. deferred'.ended = deferred.ended
  BY <1>3
<1>5. Flags'
  BY <1>1, <1>4 DEF Placed, Flags
<1>6. Buffers'
  BY <1>1, <1>3, <1>4, Now DEF Placed, Buffers
<1>7. Flow'
  BY <1>1, <1>3 DEF Placed, Flow
<1>8. Order'
  BY <1>1, <1>2, <1>3 DEF Order
<1>. QED
  BY <1>5, <1>6, <1>7, <1>8 DEF Placed

\* The frame on which the gate opens, with what was kept for it.
LEMMA OpensPlaced ==
  ASSUME Placed, mode' = mode,
         SpeechDeferred \/ SpeechConnects \/ SpeechContinues \/ SpeechQueued \/ SpeechMissed
  PROVE  Placed'
<1>. DEFINE f == frames + 1
<1>1. frames' = f /\ finalized' = FALSE /\ UNCHANGED <<delayed, mode>> /\ f \in Nat /\ f # 0 /\ f <= f
  BY Now DEF SpeechDeferred, SpeechConnects, SpeechContinues, SpeechQueued, SpeechMissed, GateOpens
<1>. USE Now
<1>. HIDE DEF f
<1>2. f = frames + 1 /\ frames <= f
  BY DEF f
<1>3. /\ Append(preroll, f) \in Seq(Nat) /\ Rising(Append(preroll, f))
      /\ Kept(Append(preroll, f)) = Kept(preroll) \cup {f}
  <2>1. Below(Kept(preroll), {f})
    BY <1>2 DEF Below
  <2>. QED
    BY <1>1, <2>1, KeptAppend
<1>4. /\ Append(pending, f) \in Seq(Nat) /\ Rising(Append(pending, f))
      /\ Kept(Append(pending, f)) = Kept(pending) \cup {f}
  <2>1. Below(Kept(pending), {f})
    BY <1>2 DEF Below
  <2>. QED
    BY <1>1, <2>1, KeptAppend DEF InLine
<1>5. /\ \A g \in Kept(deferred.audio) : g # 0 /\ g <= f
      /\ \A g \in Sent(wire) \cup Kept(pending) \cup Kept(preroll) : g # 0 /\ g <= f
  BY <1>1, <1>2
<1>6. CASE SpeechDeferred
  <2>1. /\ warmup' = TRUE /\ UNCHANGED <<session, pending, wire, paused>> /\ preroll' = <<>>
        /\ deferred' = [audio |-> Append((IF deferred.audio = <<>> THEN preroll ELSE deferred.audio), f),
                        ended |-> FALSE]
    BY <1>1, <1>6 DEF SpeechDeferred
  <2>2. PICK x \in {preroll, deferred.audio} : deferred' = [audio |-> Append(x, f), ended |-> FALSE]
    BY <2>1
  <2>3. x \in Seq(Nat) /\ Rising(x) /\ \A g \in Kept(x) : g # 0 /\ g <= f /\ g < f
    BY <1>2
  <2>4. /\ Append(x, f) \in Seq(Nat) /\ Rising(Append(x, f))
        /\ \A g \in Kept(Append(x, f)) : g # 0 /\ g <= f
    <3>1. Below(Kept(x), {f})
      BY <2>3 DEF Below
    <3>2. Append(x, f) \in Seq(Nat) /\ Rising(Append(x, f)) /\ Kept(Append(x, f)) = Kept(x) \cup {f}
      BY <1>1, <2>3, <3>1, KeptAppend
    <3>. QED
      BY <1>1, <2>3, <3>2
  <2>5. deferred'.audio = Append(x, f) /\ deferred'.ended = FALSE
    BY <2>2
  <2>6. Flags'
    BY <1>1, <2>1, <2>5 DEF Placed, Flags
  <2>7. Buffers'
    BY <1>1, <2>1, <2>2, <2>4, <2>5, KeptEmpty DEF Placed, Buffers
  <2>8. Flow'
    BY <1>1, <2>1 DEF Placed, Flow
  <2>9. InUse' = InUse
    BY <1>1, <2>1 DEF InUse
  <2>10. InLine(wire, pending, <<>>, InUse) /\ Past(wire, pending, <<>>, f)
    BY <1>2, LineWithout
  <2>11. Order'
    BY <1>1, <2>1, <2>4, <2>5, <2>9, <2>10 DEF Order
  <2>. QED
    BY <2>6, <2>7, <2>8, <2>11 DEF Placed
<1>7. ASSUME UNCHANGED <<warmup, deferred>>, warmup = FALSE,
             wire' \in Seq(Message), pending' \in Seq(Nat), preroll' \in Seq(Nat), Flow',
             session' \in {"Listening", "Connecting", "Streaming", "Closing", "Failed"},
             paused' \in BOOLEAN, InLine(wire', pending', preroll', InUse'),
             Past(wire', pending', preroll', f)
      PROVE  Placed'
  <2>1. Flags'
    BY <1>1, <1>7 DEF Placed, Flags
  <2>2. Buffers'
    BY <1>1, <1>7 DEF Placed, Buffers
  <2>3. Order'
    BY <1>1, <1>5, <1>7 DEF Order
  <2>. QED
    BY <1>7, <2>1, <2>2, <2>3 DEF Placed
<1>8. deferred # NotDeferred => warmup = TRUE /\ preroll = <<>>
  BY DEF Placed, Flow
<1>9. CASE SpeechConnects
  <2>1. /\ warmup = FALSE /\ session' = "Connecting" /\ wire' = <<Command("Start")>>
        /\ pending' = Latest(MaxPending, Append(preroll, f)) /\ paused' = FALSE
        /\ preroll' = <<>> /\ UNCHANGED <<warmup, deferred>>
    BY <1>1, <1>9 DEF SpeechConnects, StartAsr, Placed, Flags
  <2>2. wire' \in Seq(Message) /\ Sent(wire') = {} /\ Ordered(wire')
    <3>1. wire' = Append(<<>>, Command("Start"))
      BY <2>1
    <3>. QED
      BY <3>1, NothingSaid, CommandSaid
  <2>3. /\ pending' \in Seq(Nat) /\ Rising(pending') /\ Kept(pending') \subseteq Kept(preroll) \cup {f}
    BY <1>3, <2>1, LatestKept
  <2>4. InLine(wire', pending', preroll', InUse') /\ Past(wire', pending', preroll', f)
    BY <1>1, <1>5, <2>1, <2>2, <2>3, KeptEmpty DEF InLine, Past, Below
  <2>5. Flow'
    BY <1>1, <1>8, <2>1 DEF Flow
  <2>. QED
    BY <1>7, <2>1, <2>2, <2>3, <2>4, <2>5, KeptEmpty
<1>10. CASE SpeechContinues
  <2>1. /\ warmup = FALSE /\ session = "Streaming" /\ UNCHANGED <<warmup, deferred, pending, session>>
        /\ wire' = Announced \o AudioOf(ResumedWith) \o <<Audio(f)>>
        /\ preroll' = (IF paused THEN <<>> ELSE preroll) /\ paused' = FALSE
    BY <1>1, <1>10 DEF SpeechContinues, Placed, Flags
  <2>2. pending = <<>> /\ (paused = TRUE => InUse = TRUE) /\ (InUse = TRUE /\ paused = FALSE => preroll = <<>>)
    BY <2>1 DEF Placed, Flow, InUse, Flags
  <2>. DEFINE v == Announced
              x == v \o AudioOf(ResumedWith)
  <2>3. v \in Seq(Message) /\ Sent(v) = Sent(wire) /\ Ordered(v)
    BY CommandSaid DEF InLine, Announced
  <2>4. /\ ResumedWith \in Seq(Nat) /\ Rising(ResumedWith) /\ Kept(ResumedWith) \subseteq Kept(preroll)
        /\ Below(Sent(wire), Kept(ResumedWith))
    BY <2>2, KeptEmpty DEF ResumedWith, InLine, Below
  <2>. HIDE DEF v
  <2>5. x \in Seq(Message) /\ Sent(x) = Sent(wire) \cup Kept(ResumedWith) /\ Ordered(x)
    BY <2>3, <2>4, AudioSaid
  <2>6. \A g \in Sent(x) : g # 0 /\ g < f /\ g <= f
    BY <1>2, <2>4, <2>5
  <2>. HIDE DEF x
  <2>7. wire' = x \o AudioOf(<<f>>) /\ <<f>> \in Seq(Nat) /\ Kept(<<f>>) = {f} /\ Rising(<<f>>)
    BY <1>1, <2>1, <2>5, FrameSaid DEF x, v
  <2>8. wire' \in Seq(Message) /\ Sent(wire') = Sent(x) \cup {f} /\ Ordered(wire')
    <3>1. Below(Sent(x), Kept(<<f>>))
      BY <2>6, <2>7 DEF Below
    <3>. QED
      BY <2>5, <2>7, <3>1, AudioSaid
  <2>9. preroll' = <<>> \/ (preroll' = preroll /\ InUse = FALSE)
    BY <2>1, <2>2 DEF Placed, Flags
  <2>10. InUse' = InUse
    BY <1>1, <2>1 DEF InUse
  <2>11. InLine(wire', pending', preroll', InUse') /\ Past(wire', pending', preroll', f)
    <3>1. Kept(pending') = {} /\ Rising(pending') /\ pending' \in Seq(Nat)
      BY <2>1, <2>2, KeptEmpty
    <3>2. CASE preroll' = <<>>
      BY <1>1, <2>6, <2>8, <3>1, <3>2, KeptEmpty DEF InLine, Past, Below
    <3>3. CASE preroll' = preroll /\ InUse = FALSE
      BY <1>1, <1>5, <2>6, <2>8, <2>10, <3>1, <3>3 DEF InLine, Past, Below
    <3>. QED
      BY <2>9, <3>2, <3>3
  <2>12. Flow'
    BY <1>1, <1>8, <2>1, <2>2 DEF Placed, Flow, InUse, Buffers
  <2>. QED
    BY <1>7, <2>1, <2>2, <2>8, <2>9, <2>11, <2>12, KeptEmpty
<1>11. CASE SpeechQueued
  <2>1. warmup = FALSE /\ session = "Connecting" /\ UNCHANGED <<warmup, deferred, session>> /\ InUse
    BY <1>11 DEF SpeechQueued, Placed, Flags, InUse
  <2>2. InUse' = TRUE
    BY <2>1 DEF InUse
  <2>3. CASE finalized = TRUE
    <3>1. /\ wire' = Append(wire, Command("Start")) /\ preroll' = <<>> /\ paused' = FALSE
          /\ pending' = Latest(MaxPending, pending \o Append(preroll, f))
      BY <1>1, <1>11, <2>3 DEF SpeechQueued, Announced
    <3>2. wire' \in Seq(Message) /\ Sent(wire') = Sent(wire) /\ Ordered(wire')
      BY <3>1, CommandSaid DEF InLine
    <3>3. Below(Kept(pending), Kept(Append(preroll, f))) /\ Below(Sent(wire), Kept(pending) \cup Kept(preroll) \cup {f})
      BY <1>2, <1>3, <2>1 DEF InLine, Below
    <3>4. /\ pending \o Append(preroll, f) \in Seq(Nat) /\ Rising(pending \o Append(preroll, f))
          /\ Kept(pending \o Append(preroll, f)) = Kept(pending) \cup Kept(preroll) \cup {f}
      <4>1. Rising(pending)
        BY DEF InLine
      <4>2. /\ pending \o Append(preroll, f) \in Seq(Nat)
            /\ Kept(pending \o Append(preroll, f)) = Kept(pending) \cup Kept(Append(preroll, f))
            /\ Rising(pending \o Append(preroll, f))
        BY <1>3, <3>3, <4>1, KeptConcat
      <4>. QED
        BY <1>3, <4>2
    <3>5. /\ pending' \in Seq(Nat) /\ Rising(pending')
          /\ Kept(pending') \subseteq Kept(pending) \cup Kept(preroll) \cup {f}
      BY <3>1, <3>4, LatestKept
    <3>6. InLine(wire', pending', preroll', InUse') /\ Past(wire', pending', preroll', f)
      BY <1>1, <1>5, <3>1, <3>2, <3>3, <3>5, KeptEmpty DEF InLine, Past, Below
    <3>7. Flow'
      BY <1>1, <1>8, <2>1, <3>1 DEF Flow
    <3>. QED
      BY <1>7, <2>1, <3>1, <3>2, <3>5, <3>6, <3>7, KeptEmpty
  <2>4. CASE finalized = FALSE
    <3>1. /\ UNCHANGED <<wire, preroll, paused>> /\ pending' = Latest(MaxPending, Append(pending, f))
      BY <1>1, <1>11, <2>4 DEF SpeechQueued
    <3>2. preroll = <<>> /\ (mode = "client" => paused = FALSE) /\ paused \in BOOLEAN
      BY <2>1, <2>4 DEF Placed, Flow, Flags
    <3>3. /\ pending' \in Seq(Nat) /\ Rising(pending') /\ Kept(pending') \subseteq Kept(pending) \cup {f}
      BY <1>4, <3>1, LatestKept
    <3>4. InLine(wire', pending', preroll', InUse') /\ Past(wire', pending', preroll', f)
      BY <1>1, <1>2, <1>5, <3>1, <3>2, <3>3, KeptEmpty DEF InLine, Past, Below
    <3>5. Flow'
      BY <1>1, <1>8, <2>1, <3>1, <3>2 DEF Flow
    <3>. QED
      BY <1>7, <2>1, <3>1, <3>2, <3>3, <3>4, <3>5, KeptEmpty
  <2>. QED
    BY <2>3, <2>4 DEF Placed, Flags
<1>12. CASE SpeechMissed
  <2>1. /\ warmup = FALSE /\ session \in {"Closing", "Failed"}
        /\ UNCHANGED <<session, warmup, deferred, pending, wire, paused>>
        /\ preroll' = Latest(PrerollSize, Append(preroll, f))
    BY <1>1, <1>12 DEF SpeechMissed, Placed, Flags
  <2>2. preroll' \in Seq(Nat) /\ Rising(preroll') /\ Kept(preroll') \subseteq Kept(preroll) \cup {f}
    BY <1>3, <2>1, LatestKept
  <2>3. InUse' = FALSE
    BY <2>1 DEF InUse
  <2>4. InLine(wire', pending', preroll', InUse') /\ Past(wire', pending', preroll', f)
    BY <1>1, <1>5, <2>1, <2>2, <2>3 DEF InLine, Past
  <2>5. Flow'
    BY <1>1, <1>8, <2>1 DEF Flow, Placed
  <2>. QED
    BY <1>7, <2>1, <2>2, <2>4, <2>5 DEF Placed, Buffers, Flags
<1>. QED
  BY <1>6, <1>9, <1>10, <1>11, <1>12
\* The end of speech keeps the order of what it is given.
LEMMA FinishedInLine ==
  ASSUME Placed, NEW state, NEW before \in Seq(Nat), NEW queued \in Seq(Nat),
         NEW sent \in Seq(Message), NEW use \in BOOLEAN, NEW n \in Nat,
         InLine(sent, queued, before, use), Past(sent, queued, before, n),
         FinishSpeech(state, before, queued, sent)
  PROVE  /\ wire' \in Seq(Message) /\ pending' \in Seq(Nat) /\ preroll' \in Seq(Nat)
         /\ InLine(wire', pending', preroll', use) /\ Past(wire', pending', preroll', n)
<1>. DEFINE v == sent \o AudioOf(queued)
<1>1. v \in Seq(Message)
  BY AudioSaid
<1>2. InLine(v, <<>>, before, use) /\ Past(v, <<>>, before, n)
  BY LineFlushed
<1>3. <<>> \in Seq(Nat)
  BY KeptEmpty
<1>. HIDE DEF v
<1>4. CASE wire' = Append(v, Command("Finalize")) /\ pending' = <<>> /\ preroll' \in {<<>>, before}
  <2>1. wire' \in Seq(Message)
    BY <1>1, <1>4, CommandSaid
  <2>2. InLine(wire', <<>>, before, use) /\ Past(wire', <<>>, before, n)
    <3>1. /\ InLine(Append(v, Command("Finalize")), <<>>, before, use)
          /\ Past(Append(v, Command("Finalize")), <<>>, before, n)
      BY <1>1, <1>2, <1>3, LineSaid
    <3>. QED
      BY <1>4, <3>1
  <2>3. InLine(wire', <<>>, <<>>, use) /\ Past(wire', <<>>, <<>>, n)
    BY <1>3, <2>1, <2>2, LineWithout
  <2>. QED
    BY <1>3, <1>4, <2>1, <2>2, <2>3
<1>5. CASE wire' = sent /\ pending' = queued /\ preroll' = before
  BY <1>5
<1>6. mode \in {"client", "server", "both"}
  BY DEF Placed, Buffers
<1>. QED
  BY <1>4, <1>5, <1>6, SpeechFinished DEF v

\* The frame on which the gate closes, and the end of the turn.
LEMMA SpeechEndedPlaced ==
  ASSUME Placed, SpeechEnded, mode' = mode
  PROVE  Placed'
<1>. DEFINE f == frames + 1
            w == WireWith(f)
            p == PendingWith(f)
            r == PrerollWith(f)
<1>1. /\ frames' = f /\ f \in Nat /\ f # 0 /\ f <= f /\ frames <= f
      /\ UNCHANGED <<mode, session, warmup>> /\ delayed' = EndSeen(delayed)
      /\ InUse \in BOOLEAN
  BY Now DEF SpeechEnded
<1>2. delayed' \in {"none", "speaking", "ended"} /\ InUse' = InUse
  BY <1>1 DEF EndSeen, InUse
<1>3. CASE Deferring
  <2>1. /\ deferred' = [audio |-> Append(deferred.audio, f), ended |-> TRUE]
        /\ UNCHANGED <<preroll, pending, wire, finalized, paused>>
    BY <1>3 DEF SpeechEnded
  <2>2. deferred.audio \in Seq(Nat) /\ Rising(deferred.audio) /\ \A g \in Kept(deferred.audio) : g # 0 /\ g < f /\ g <= f
    BY Now, <1>1
  <2>. HIDE DEF f, w, p, r
  <2>3. /\ Append(deferred.audio, f) \in Seq(Nat) /\ Rising(Append(deferred.audio, f))
        /\ Kept(Append(deferred.audio, f)) = Kept(deferred.audio) \cup {f}
    <3>1. Below(Kept(deferred.audio), {f})
      BY <2>2 DEF Below
    <3>. QED
      BY <1>1, <2>2, <3>1, KeptAppend
  <2>4. deferred'.audio = Append(deferred.audio, f) /\ deferred'.ended = TRUE
    BY <2>1
  <2>5. Past(wire, pending, preroll, f)
    BY Now DEF f
  <2>6. Flags'
    BY <1>1, <2>1, <2>4 DEF Placed, Flags
  <2>7. Buffers'
    BY <1>1, <1>2, <2>1, <2>3, <2>4 DEF Placed, Buffers
  <2>8. Flow'
    BY <1>1, <1>3, <2>1 DEF Placed, Flow, Deferring
  <2>9. Order'
    BY <1>1, <1>2, <2>1, <2>2, <2>3, <2>4, <2>5 DEF Placed, Order
  <2>. QED
    BY <2>6, <2>7, <2>8, <2>9 DEF Placed
<1>4. CASE ~Deferring
  <2>1. FinishSpeech(session, r, p, w) /\ deferred' = deferred /\ deferred = NotDeferred
    BY <1>4 DEF SpeechEnded, Deferring
  <2>2. /\ w \in Seq(Message) /\ p \in Seq(Nat) /\ r \in Seq(Nat)
        /\ InLine(w, p, r, InUse) /\ Past(w, p, r, f)
        /\ session \in {"Listening", "Failed"} => w = <<>> /\ p = <<>>
        /\ session \in {"Streaming", "Closing"} => p = <<>>
        /\ session = "Connecting" /\ finalized = FALSE => r = <<>>
        /\ session = "Streaming" /\ paused = FALSE => mode = "client" \/ r = <<>>
    BY FrameHandled
  <2>3. \A g \in Kept(deferred.audio) : g # 0 /\ g <= f
    BY Now, <1>1
  <2>. HIDE DEF f, w, p, r
  <2>4. /\ wire' \in Seq(Message) /\ pending' \in Seq(Nat) /\ preroll' \in Seq(Nat)
        /\ InLine(wire', pending', preroll', InUse) /\ Past(wire', pending', preroll', f)
    BY <1>1, <2>1, <2>2, FinishedInLine
  <2>5. \/ /\ mode # "server" /\ session \in {"Connecting", "Streaming"} /\ finalized = FALSE
           /\ pending' = <<>> /\ finalized' = TRUE
           /\ mode = "both" => preroll' = <<>> /\ paused' = TRUE
           /\ mode = "client" => preroll' = r /\ paused' = paused
        \/ /\ mode = "server" \/ session \notin {"Connecting", "Streaming"} \/ finalized = TRUE
           /\ wire' = w /\ pending' = p /\ preroll' = r
           /\ finalized' = finalized /\ paused' = paused
    BY <2>1, <2>2, SpeechFinished
  <2>6. mode \in {"client", "server", "both"} /\ paused \in BOOLEAN /\ finalized \in BOOLEAN
    BY DEF Placed, Buffers, Flags
  <2>7. Flags'
    BY <1>1, <2>1, <2>5, <2>6 DEF Placed, Flags
  <2>8. Buffers'
    BY <1>1, <1>2, <2>1, <2>4 DEF Placed, Buffers
  <2>9. Flow'
    BY <1>1, <2>1, <2>2, <2>5, <2>6 DEF Placed, Flow
  <2>10. Order'
    BY <1>1, <1>2, <2>1, <2>3, <2>4 DEF Placed, Order
  <2>. QED
    BY <2>7, <2>8, <2>9, <2>10 DEF Placed
<1>. QED
  BY <1>3, <1>4

\* The gate sees the end of what is being said, whole.
LEMMA GatePasses ==
  ASSUME frames \in Nat, GateReset
  PROVE  frames' \in Nat /\ frames <= frames' /\ frames' % 3 = 0
<1>1. frames % 3 = 0 => frames' = frames
  BY DEF GateReset
<1>2. frames % 3 # 0 => frames >= 1 /\ frames' = 3 * ((frames - 1) \div 3) + 3
  BY DEF GateReset, TurnOf
<1>. QED
  BY <1>1, <1>2

\* A session that is over leaves no connection.
LEMMA CleanedPlaced ==
  ASSUME Placed, mode' = mode, session' \in {"Listening", "Failed"}, Cleanup,
         frames' \in Nat, frames <= frames'
  PROVE  Placed'
<1>1. /\ UNCHANGED <<mode, warmup, deferred, preroll>> /\ wire' = <<>> /\ pending' = <<>>
      /\ finalized' = FALSE /\ paused' = FALSE /\ delayed' = "none"
  BY DEF Cleanup
<1>2. InUse' = FALSE
  BY DEF InUse
<1>3. /\ frames \in Nat /\ preroll \in Seq(Nat) /\ Rising(preroll) /\ Rising(deferred.audio)
      /\ \A f \in Kept(deferred.audio) \cup Kept(preroll) : f \in Nat /\ f # 0 /\ f <= frames /\ f <= frames'
  BY Now
<1>4. Flags'
  BY <1>1 DEF Placed, Flags
<1>5. Buffers'
  BY <1>1, <1>3, NothingSaid, KeptEmpty DEF Placed, Buffers
<1>6. Flow'
  BY <1>1 DEF Placed, Flow
<1>7. Order'
  BY <1>1, <1>2, <1>3, NothingSaid, KeptEmpty DEF Order, InLine, Past, Below
<1>. QED
  BY <1>4, <1>5, <1>6, <1>7 DEF Placed

\* Speech that was held back waits for its connection next.
LEMMA WarmupPlaced ==
  ASSUME Placed, WarmupStep, mode' = mode
  PROVE  Placed'
<1>. USE Now
<1>1. CASE WarmupStarts
  <2>1. /\ UNCHANGED <<frames, session, deferred, preroll, pending, wire, finalized, paused,
                       delayed>>
        /\ warmup' = TRUE
    BY <1>1 DEF WarmupStarts, audioVars, turnVars
  <2>2. Flags' /\ Buffers'
    BY <2>1 DEF Placed, Flags, Buffers
  <2>3. Flow'
    BY <2>1 DEF Placed, Flow
  <2>4. Order'
    BY <2>1 DEF Placed, Order, InUse
  <2>. QED
    BY <2>2, <2>3, <2>4 DEF Placed
<1>2. CASE WarmupEnds
  <2>1. /\ UNCHANGED <<frames, preroll, finalized, mode>> /\ warmup' = FALSE
        /\ deferred' = NotDeferred
    BY <1>2 DEF WarmupEnds
  <2>2. /\ deferred' = [audio |-> deferred'.audio, ended |-> deferred'.ended]
        /\ deferred'.audio = <<>> /\ deferred'.ended = FALSE /\ Kept(deferred'.audio) = {}
        /\ Rising(deferred'.audio) /\ deferred'.audio \in Seq(Nat)
    BY <2>1, KeptEmpty DEF NotDeferred
  <2>3. CASE Deferring /\ session = "Listening"
    <3>1. /\ session' = "Connecting" /\ wire' = <<Command("Start")>> /\ pending' = deferred.audio
          /\ paused' = FALSE /\ delayed' \in {"speaking", "ended"}
      BY <1>2, <2>3 DEF WarmupEnds, StartAsr
    <3>2. preroll = <<>> /\ finalized = FALSE
      BY <2>3 DEF Placed, Flow, Deferring
    <3>3. wire' \in Seq(Message) /\ Sent(wire') = {} /\ Ordered(wire')
      <4>1. wire' = Append(<<>>, Command("Start"))
        BY <3>1
      <4>. QED
        BY <4>1, NothingSaid, CommandSaid
    <3>4. Flags' /\ Buffers'
      BY <2>1, <2>2, <3>1, <3>2, <3>3 DEF Placed, Flags, Buffers
    <3>5. Flow'
      BY <2>1, <3>1, <3>2 DEF Flow
    <3>6. InLine(wire', pending', preroll', InUse') /\ Past(wire', pending', preroll', frames)
      BY <2>1, <3>1, <3>2, <3>3, KeptEmpty DEF InLine, Past, Below
    <3>7. Order'
      BY <2>1, <2>2, <3>6 DEF Order
    <3>. QED
      BY <3>4, <3>5, <3>7 DEF Placed
  <2>4. CASE ~(Deferring /\ session = "Listening")
    <3>1. UNCHANGED <<session, wire, pending, paused, delayed>>
      BY <1>2, <2>4 DEF WarmupEnds
    <3>2. Flags' /\ Buffers'
      BY <2>1, <2>2, <3>1 DEF Placed, Flags, Buffers
    <3>3. Flow'
      BY <2>1, <3>1 DEF Placed, Flow
    <3>4. Order'
      BY <2>1, <2>2, <3>1 DEF Placed, Order, InUse
    <3>. QED
      BY <3>2, <3>3, <3>4 DEF Placed
  <2>. QED
    BY <2>3, <2>4
<1>. QED
  BY <1>1, <1>2 DEF WarmupStep

\* What waited for the connection goes out, with the end of the turn that waited for it.
LEMMA ConnectedPlaced ==
  ASSUME Placed, ConnectedArrives, mode' = mode
  PROVE  Placed'
<1>. USE Now
<1>1. UNCHANGED <<mode, frames, warmup, deferred>>
  BY DEF ConnectedArrives
<1>2. CASE session = "Connecting"
  <2>. DEFINE v == wire \o AudioOf(pending)
  <2>1. v \in Seq(Message) /\ InLine(v, <<>>, preroll, InUse) /\ Past(v, <<>>, preroll, frames)
    BY AudioSaid, LineFlushed
  <2>2. /\ session' = "Streaming" /\ delayed' \in {"none", "ended"}
        /\ \/ FinishSpeech("Streaming", preroll, <<>>, v)
           \/ /\ wire' = v /\ pending' = <<>>
              /\ UNCHANGED <<preroll, paused, finalized>>
    BY <1>2 DEF ConnectedArrives
  <2>3. <<>> \in Seq(Nat) /\ finalized \in BOOLEAN /\ paused \in BOOLEAN
        /\ mode \in {"client", "server", "both"}
    BY KeptEmpty DEF Placed, Flags, Buffers
  <2>. HIDE DEF v
  <2>4. /\ wire' \in Seq(Message) /\ pending' \in Seq(Nat) /\ preroll' \in Seq(Nat)
        /\ InLine(wire', pending', preroll', InUse) /\ Past(wire', pending', preroll', frames)
    BY <2>1, <2>2, <2>3, FinishedInLine
  <2>5. /\ pending' = <<>>
        /\ \/ /\ mode # "server" /\ finalized' = TRUE
              /\ mode = "both" => preroll' = <<>> /\ paused' = TRUE
              /\ mode = "client" => preroll' = preroll /\ paused' = paused
           \/ preroll' = preroll /\ finalized' = finalized /\ paused' = paused
    BY <2>1, <2>2, <2>3, SpeechFinished
  <2>6. /\ finalized = FALSE => preroll = <<>>
        /\ finalized = TRUE => mode = "client" \/ paused = TRUE
    BY <1>2 DEF Placed, Flow
  <2>7. Flags' /\ Buffers'
    BY <1>1, <2>2, <2>3, <2>4, <2>5 DEF Placed, Flags, Buffers
  <2>8. Flow'
    BY <1>1, <2>2, <2>3, <2>5, <2>6 DEF Placed, Flow
  <2>9. InUse' \in BOOLEAN /\ (InUse' => InUse)
    BY <1>1, <1>2, <2>2 DEF InUse
  <2>10. InLine(wire', pending', preroll', InUse')
    BY <2>4, <2>9, LineWithout
  <2>11. Order'
    BY <1>1, <2>4, <2>10 DEF Placed, Order
  <2>. QED
    BY <2>7, <2>8, <2>11 DEF Placed
<1>3. CASE session # "Connecting"
  <2>1. UNCHANGED <<session, preroll, pending, wire, finalized, paused, delayed>>
    BY <1>3 DEF ConnectedArrives, turnVars
  <2>2. Flags' /\ Buffers'
    BY <1>1, <2>1 DEF Placed, Flags, Buffers
  <2>3. Flow'
    BY <1>1, <2>1 DEF Placed, Flow
  <2>4. Order'
    BY <1>1, <2>1 DEF Placed, Order, InUse
  <2>. QED
    BY <2>2, <2>3, <2>4 DEF Placed
<1>. QED
  BY <1>2, <1>3

\* The server closes the segment, or says something to the user, and the session ends with
\* it if its turn was held back.
LEMMA EndpointPlaced ==
  ASSUME Placed, EndpointArrives \/ NoticeArrives, mode' = mode
  PROVE  Placed'
<1>. USE Now
<1>1. /\ UNCHANGED <<mode, frames, warmup, deferred, preroll, pending, finalized, delayed>>
      /\ paused' = (paused \/ mode # "client") \/ paused' = paused
  BY DEF EndpointArrives, NoticeArrives, turnVars
<1>2. paused' \in BOOLEAN /\ (paused = TRUE => paused' = TRUE) /\ (mode = "client" => paused' = paused)
  BY <1>1 DEF Placed, Flags
<1>3. \/ session = "Streaming" /\ session' = "Closing" /\ wire' = Append(wire, Command("Stop"))
      \/ session' = session /\ wire' = wire
  BY DEF EndpointArrives, NoticeArrives, CloseDelayed
<1>4. /\ wire' \in Seq(Message) /\ InLine(wire', pending, preroll, InUse)
      /\ Past(wire', pending, preroll, frames)
  <2>1. CASE session' = "Closing" /\ wire' = Append(wire, Command("Stop"))
    <3>1. /\ Append(wire, Command("Stop")) \in Seq(Message)
          /\ InLine(Append(wire, Command("Stop")), pending, preroll, InUse)
          /\ Past(Append(wire, Command("Stop")), pending, preroll, frames)
      BY CommandSaid, LineSaid
    <3>. QED
      BY <2>1, <3>1
  <2>2. CASE wire' = wire
    BY <2>2
  <2>. QED
    BY <1>3, <2>1, <2>2
<1>5. InUse' \in BOOLEAN /\ (InUse' => InUse)
  BY <1>1, <1>3 DEF InUse
<1>6. InLine(wire', pending', preroll', InUse') /\ Past(wire', pending', preroll', frames)
  BY <1>1, <1>4, <1>5, LineWithout
<1>7. Flags' /\ Buffers'
  BY <1>1, <1>2, <1>3, <1>4 DEF Placed, Flags, Buffers
<1>8. Flow'
  BY <1>1, <1>2, <1>3 DEF Placed, Flow
<1>9. Order'
  BY <1>1, <1>6 DEF Placed, Order
<1>. QED
  BY <1>7, <1>8, <1>9 DEF Placed

\* The controller's timers.
LEMMA TimerPlaced ==
  ASSUME Placed, TimerStep, mode' = mode
  PROVE  Placed'
<1>. USE Now
<1>1. CASE IdleCloses
  <2>1. /\ session = "Streaming" /\ session' = "Closing"
        /\ UNCHANGED <<frames, warmup, deferred, preroll, pending, finalized, paused, delayed>>
        /\ wire' = wire \o <<Command("Finalize"), Command("Stop")>>
    BY <1>1 DEF IdleCloses, turnVars
  <2>. DEFINE v == Append(wire, Command("Finalize"))
  <2>2. wire' = Append(v, Command("Stop"))
    <3>1. Command("Finalize") \in Message /\ Command("Stop") \in Message
      BY DEF Command, Message
    <3>. QED
      BY <2>1, <3>1, SaidTwice
  <2>3. v \in Seq(Message) /\ InLine(v, pending, preroll, InUse) /\ Past(v, pending, preroll, frames)
    BY CommandSaid, LineSaid
  <2>. HIDE DEF v
  <2>4. /\ wire' \in Seq(Message) /\ InLine(wire', pending, preroll, InUse)
        /\ Past(wire', pending, preroll, frames)
    BY <2>2, <2>3, CommandSaid, LineSaid
  <2>5. InUse' = FALSE
    BY <2>1 DEF InUse
  <2>6. InLine(wire', pending', preroll', InUse') /\ Past(wire', pending', preroll', frames)
    BY <2>1, <2>4, <2>5, LineWithout
  <2>7. Flags' /\ Buffers'
    BY <2>1, <2>4 DEF Placed, Flags, Buffers
  <2>8. Flow'
    BY <2>1 DEF Placed, Flow
  <2>9. Order'
    BY <2>1, <2>6 DEF Placed, Order
  <2>. QED
    BY <2>7, <2>8, <2>9 DEF Placed
<1>2. CASE SessionTimeout
  BY <1>2, GatePasses, CleanedPlaced DEF SessionTimeout
<1>3. CASE Fails
  <2>1. frames' = frames /\ frames <= frames
    BY <1>3 DEF Fails
  <2>. QED
    BY <1>3, <2>1, CleanedPlaced DEF Fails
<1>4. CASE Recovers
  <2>1. /\ session = "Failed" /\ session' = "Listening"
        /\ UNCHANGED <<warmup, deferred, preroll, pending, wire, finalized, paused, delayed>>
    BY <1>4 DEF Recovers, audioVars, turnVars
  <2>2. frames' \in Nat /\ frames <= frames'
    BY <1>4, GatePasses DEF Recovers
  <2>3. InUse = FALSE /\ InUse' = FALSE
    BY <2>1 DEF InUse
  <2>4. /\ \A f \in Sent(wire) \cup Kept(pending) \cup Kept(preroll) : f # 0 /\ f <= frames'
        /\ \A f \in Kept(deferred.audio) : f # 0 /\ f <= frames'
    BY <2>2
  <2>5. Flags' /\ Buffers'
    BY <2>1, <2>2 DEF Placed, Flags, Buffers
  <2>6. Flow'
    BY <2>1 DEF Placed, Flow
  <2>7. Order'
    BY <2>1, <2>3, <2>4 DEF Placed, Order, Past
  <2>. QED
    BY <2>5, <2>6, <2>7 DEF Placed
<1>. QED
  BY <1>1, <1>2, <1>3, <1>4 DEF TimerStep

\* Every step, and what it leaves alone.
LEMMA PlacedStep ==
  ASSUME Placed, [Next]_vars
  PROVE  Placed'
<1>1. ASSUME UNCHANGED <<mode, frames, session, warmup, deferred, delayed, preroll, pending, wire,
                         finalized, paused>>
      PROVE  Placed'
  <2>1. Flags' /\ Buffers'
    BY <1>1 DEF Placed, Flags, Buffers
  <2>2. Flow'
    BY <1>1 DEF Placed, Flow
  <2>3. Order'
    BY <1>1 DEF Placed, Order, InUse
  <2>. QED
    BY <2>1, <2>2, <2>3 DEF Placed
<1>2. CASE UNCHANGED vars
  BY <1>1, <1>2 DEF vars, audioVars, turnVars
<1>3. CASE Next
  <2>1. mode' = mode
    BY <1>3 DEF Next
  <2>2. CASE SpeechStep
    BY <2>1, <2>2, OnsetPlaced, OpensPlaced, SpeechEndedPlaced DEF SpeechStep
  <2>3. CASE WarmupStep
    BY <2>1, <2>3, WarmupPlaced
  <2>4. CASE LinkStep
    <3>1. OthersThanServer
      BY <2>4 DEF LinkStep, LinkConnects, ServerHears, ServerFinalizes, ServerFinishes,
                  ServerSplits, ServerPartial, ServerNotifies, LinkBreaks
    <3>. QED
      BY <1>1, <2>1, <3>1 DEF OthersThanServer, audioVars, turnVars
  <2>5. CASE TextArrives \/ PartialArrives
    BY <1>1, <2>1, <2>5 DEF TextArrives, PartialArrives, audioVars, turnVars
  <2>6. CASE FinArrives
    BY <1>1, <2>1, <2>6 DEF FinArrives, audioVars
  <2>7. CASE FinishedArrives \/ LostArrives
    <3>1. session' = "Listening" /\ GateReset /\ Cleanup
      BY <2>7 DEF FinishedArrives, LostArrives
    <3>2. frames' \in Nat /\ frames <= frames'
      BY <3>1, Now, GatePasses
    <3>. QED
      BY <2>1, <3>1, <3>2, CleanedPlaced
  <2>8. CASE DrainStep
    BY <2>1, <2>5, <2>6, <2>7, <2>8, ConnectedPlaced, EndpointPlaced DEF DrainStep
  <2>9. CASE TimerStep
    BY <2>1, <2>9, TimerPlaced
  <2>. QED
    BY <1>3, <2>2, <2>3, <2>4, <2>8, <2>9 DEF Next
<1>. QED
  BY <1>2, <1>3

\* At first there is nothing anywhere.
LEMMA PlacedInit ==
  ASSUME Init
  PROVE  Placed
<1>1. /\ mode \in Modes /\ frames = 0 /\ session = "Listening" /\ warmup = FALSE
      /\ deferred = NotDeferred /\ delayed = "none" /\ preroll = <<>> /\ pending = <<>>
      /\ finalized = FALSE /\ paused = FALSE /\ wire = <<>>
  BY DEF Init
<1>2. /\ mode \in {"client", "server", "both"} /\ deferred.audio = <<>> /\ deferred.ended = FALSE
      /\ deferred = [audio |-> deferred.audio, ended |-> deferred.ended]
  BY <1>1, TurnAssumption DEF NotDeferred
<1>3. Flags /\ Buffers
  BY <1>1, <1>2, KeptEmpty, NothingSaid DEF Flags, Buffers
<1>4. Flow
  BY <1>1 DEF Flow
<1>5. Order
  BY <1>1, <1>2, KeptEmpty, NothingSaid DEF Order, InUse, InLine, Past, Below
<1>. QED
  BY <1>3, <1>4, <1>5 DEF Placed

\* What the server is given is in the order it was spoken, no frame twice, whatever
\* buffers the frames went through.
THEOREM AudioInOrderHolds == Spec => []AudioInOrder
<1>1. Init => Placed
  BY PlacedInit
<1>2. Placed /\ [Next]_vars => Placed'
  BY PlacedStep
<1>3. Placed => AudioInOrder
  <2>. SUFFICES ASSUME Placed PROVE AudioInOrder
    OBVIOUS
  <2>1. Places("Audio") = At(wire, "Audio")
    BY DEF Places, At
  <2>2. Ordered(wire) /\ Rising(pending) /\ Below(Sent(wire), Kept(pending))
    BY DEF Placed, Order, InLine
  <2>3. \A i \in At(wire, "Audio"), j \in 1..Len(pending) : wire[i].frame < pending[j]
    BY <2>2 DEF Below, Sent, Kept
  <2>. QED
    BY <2>1, <2>2, <2>3 DEF AudioInOrder, Ordered, Rising
<1>. QED
  BY <1>1, <1>2, <1>3, PTL DEF Spec

--------------------------------------------------------------------------------
(***************************************************************************)
(* What the server knows of the turns, without warm-ups.                   *)
(***************************************************************************)

\* The turn of a frame.
LEMMA TurnOrder ==
  ASSUME NEW n \in Nat
  PROVE  /\ n % 3 # 2 => TurnOf(n + 2) = TurnOf(n + 1)
         /\ n % 3 = 2 => \A f \in Nat : f <= n + 1 => TurnOf(f) < TurnOf(n + 2)
         /\ \A f \in Nat : TurnOf(f) \in Int
BY DEF TurnOf

\* Frames of earlier turns are apart from a later frame.
LEMMA ApartLater ==
  ASSUME NEW A, NEW n \in Nat, \A f \in A : f \in Nat /\ TurnOf(f) < TurnOf(n)
  PROVE  Apart(A, {n})
<1>1. \A f \in A : TurnOf(f) \in Int /\ TurnOf(n) \in Int
  BY TurnOrder
<1>. QED
  BY <1>1 DEF Apart

\* Where a frame goes, and what it leaves of the knowledge of the turns.
LEMMA FrameKnown ==
  ASSUME Placed, TurnsKnown, frames % 3 = 0 \/ Speaking
  PROVE  LET f == frames + 1
             w == WireWith(f)
             p == PendingWith(f)
             r == PrerollWith(f)
         IN  /\ Sealed(w) /\ Ended(w) = Ended(wire) /\ (Unannounced(w) <=> Unannounced(wire))
             /\ AllAnnounced(w) /\ Apart(Ended(wire), Kept(p))
             /\ InUse => Apart(Ended(wire), Kept(r))
             /\ session = "Connecting" /\ finalized = TRUE => p = pending
             /\ session # "Streaming" => w = wire
<1>. DEFINE f == frames + 1
            w == WireWith(f)
            p == PendingWith(f)
            r == PrerollWith(f)
<1>1. /\ f \in Nat /\ wire \in Seq(Message) /\ pending \in Seq(Nat) /\ preroll \in Seq(Nat)
      /\ MaxPending \in Nat \ {0} /\ PrerollSize \in Nat \ {0}
  BY Now
<1>2. /\ Sealed(wire) /\ AllAnnounced(wire) /\ Apart(Ended(wire), Kept(pending))
      /\ InUse => Apart(Ended(wire), Kept(preroll))
      /\ warmup = FALSE /\ ~Deferring /\ finalized \in BOOLEAN
  BY DEF TurnsKnown, TurnsApart, TurnsAnnounced, Turned, Deferring, Placed, Flags
<1>3. session # "Closing" => Apart(Ended(wire), {f})
  <2>1. \A g \in Ended(wire) : g \in Nat
    BY Now DEF Ended
  <2>. QED
    BY <1>1, <2>1, ApartLater DEF TurnsKnown, TurnsApart
<1>. HIDE DEF f
<1>4. CASE ToWire
  <2>1. w = wire \o AudioOf(<<f>>) /\ p = pending /\ r = preroll /\ session = "Streaming"
    BY <1>1, <1>2, <1>4, FrameSaid DEF WireWith, PendingWith, PrerollWith, ToWire, ToPending
  <2>2. <<f>> \in Seq(Nat) /\ Kept(<<f>>) = {f} /\ Rising(<<f>>)
    BY <1>1, FrameSaid
  <2>3. ~Unannounced(wire) \/ f % 3 = 1
    <3>1. frames \in Nat
      BY Now
    <3>2. frames % 3 = 0 => f % 3 = 1
      BY <3>1 DEF f
    <3>. QED
      BY <2>1, <3>2 DEF TurnsKnown, TurnsAnnounced
  <2>. HIDE DEF w, p, r
  <2>4. /\ Ended(w) = Ended(wire) /\ Sealed(w) /\ (Unannounced(w) <=> Unannounced(wire))
        /\ AllAnnounced(w)
    BY <1>1, <1>2, <1>3, <2>1, <2>2, <2>3, AudioSaid
  <2>. QED
    BY <1>2, <2>1, <2>4 DEF w, p, r, f
<1>5. CASE ToPending
  <2>1. w = wire /\ p = Latest(MaxPending, Append(pending, f)) /\ r = preroll
    BY <1>2, <1>5 DEF WireWith, PendingWith, PrerollWith, ToWire, ToPending
  <2>2. Kept(p) \subseteq Kept(pending) \cup {f}
    <3>1. Append(pending, f) \in Seq(Nat) /\ Kept(Append(pending, f)) = Kept(pending) \cup {f}
      BY <1>1, KeptAppend
    <3>2. Kept(Latest(MaxPending, Append(pending, f))) \subseteq Kept(Append(pending, f))
      BY <1>1, <3>1, LatestKept
    <3>. QED
      BY <2>1, <3>1, <3>2
  <2>3. session = "Connecting" /\ finalized = FALSE
    BY <1>2, <1>5 DEF ToPending
  <2>. HIDE DEF w, p, r
  <2>4. Apart(Ended(wire), Kept(p))
    BY <1>2, <1>3, <2>2, <2>3 DEF Apart
  <2>. QED
    BY <1>2, <2>1, <2>3, <2>4 DEF w, p, r, f
<1>6. CASE ~ToWire /\ ~ToPending
  <2>1. w = wire /\ p = pending /\ r = Latest(PrerollSize, Append(preroll, f))
    BY <1>2, <1>6 DEF WireWith, PendingWith, PrerollWith
  <2>2. Kept(r) \subseteq Kept(preroll) \cup {f}
    <3>1. Append(preroll, f) \in Seq(Nat) /\ Kept(Append(preroll, f)) = Kept(preroll) \cup {f}
      BY <1>1, KeptAppend
    <3>2. Kept(Latest(PrerollSize, Append(preroll, f))) \subseteq Kept(Append(preroll, f))
      BY <1>1, <3>1, LatestKept
    <3>. QED
      BY <2>1, <3>1, <3>2
  <2>. HIDE DEF w, p, r
  <2>3. InUse => Apart(Ended(wire), Kept(r))
    BY <1>2, <1>3, <2>2 DEF Apart, InUse
  <2>. QED
    BY <1>2, <2>1, <2>3 DEF w, p, r, f
<1>. QED
  BY <1>4, <1>5, <1>6 DEF ToWire, ToPending

\* The order of turns of the frames that may still be added.
LEMMA TurnsBelow ==
  ASSUME Placed, NEW A, \A f \in A : f \in Nat /\ TurnOf(f) < TurnOf(frames + 1)
  PROVE  \A f \in A : TurnOf(f) < TurnOf(frames + 2)
<1>1. frames \in Nat
  BY Now
<1>2. frames % 3 # 2 => TurnOf(frames + 2) = TurnOf(frames + 1)
  BY <1>1, TurnOrder
<1>3. frames % 3 = 2 => TurnOf(frames + 1) < TurnOf(frames + 2)
  BY <1>1, TurnOrder
<1>4. TurnOf(frames + 1) \in Int /\ TurnOf(frames + 2) \in Int /\ \A f \in A : TurnOf(f) \in Int
  BY <1>1, TurnOrder
<1>. QED
  BY <1>2, <1>3, <1>4, <1>1

\* The frames of a turn.
LEMMA Counted ==
  ASSUME NEW n \in Nat
  PROVE  /\ n % 3 \in {0, 1, 2} /\ n + 1 + 1 = n + 2
         /\ n % 3 = 0 => (n + 1) % 3 = 1
         /\ n % 3 = 1 => (n + 1) % 3 = 2
         /\ n % 3 = 2 => (n + 1) % 3 = 0
OBVIOUS

\* A turn that begins to be heard is none that was ended.
LEMMA OnsetKnown ==
  ASSUME Placed, TurnsKnown, Onset, mode' = mode
  PROVE  TurnsKnown'
<1>. DEFINE f == frames + 1
            w == WireWith(f)
            p == PendingWith(f)
            r == PrerollWith(f)
<1>1. /\ frames \in Nat /\ frames % 3 = 0 /\ frames' = frames + 1 /\ frames' % 3 = 1
      /\ frames' + 1 = frames + 2 /\ wire \in Seq(Message)
      /\ UNCHANGED <<mode, session, warmup, finalized, paused, delayed>>
  <2>1. frames \in Nat /\ wire \in Seq(Message)
    BY Now
  <2>. QED
    BY <2>1, Counted DEF Onset, turnVars
<1>2. wire' = w /\ pending' = p /\ preroll' = r /\ deferred' = deferred
  BY <1>1 DEF Onset, HeldWith, Deferring, TurnsKnown, Turned
<1>3. /\ Sealed(w) /\ Ended(w) = Ended(wire) /\ (Unannounced(w) <=> Unannounced(wire))
      /\ AllAnnounced(w) /\ Apart(Ended(wire), Kept(p))
      /\ InUse => Apart(Ended(wire), Kept(r))
      /\ session = "Connecting" /\ finalized = TRUE => p = pending
  BY <1>1, FrameKnown
<1>. HIDE DEF f, w, p, r
<1>4. Turned'
  BY <1>1, <1>2, <1>3 DEF Turned, TurnsKnown, Speaking
<1>5. TurnsApart'
  <2>1. InUse' = InUse
    BY <1>1 DEF InUse
  <2>2. session # "Closing" => \A g \in Ended(wire) : TurnOf(g) < TurnOf(frames + 2)
    <3>1. \A g \in Ended(wire) : g \in Nat
      BY Now DEF Ended
    <3>. QED
      BY <3>1, TurnsBelow DEF TurnsKnown, TurnsApart
  <2>. QED
    BY <1>1, <1>2, <1>3, <2>1, <2>2 DEF TurnsApart
<1>6. TurnsAnnounced'
  BY <1>1, <1>2, <1>3 DEF TurnsKnown, TurnsAnnounced, Speaking
<1>7. TurnsEnded'
  BY <1>1 DEF TurnsEnded
<1>. QED
  BY <1>4, <1>5, <1>6, <1>7 DEF TurnsKnown

\* The turn that begins is announced.
LEMMA OpensKnown ==
  ASSUME Placed, TurnsKnown, ~Warmups, mode' = mode,
         SpeechDeferred \/ SpeechConnects \/ SpeechContinues \/ SpeechQueued \/ SpeechMissed
  PROVE  TurnsKnown'
<1>1. /\ frames \in Nat /\ frames % 3 = 1 /\ frames' = frames + 1 /\ frames' % 3 = 2
      /\ frames' + 1 = frames + 2 /\ finalized' = FALSE /\ UNCHANGED <<delayed, mode>>
  <2>1. GateOpens /\ frames \in Nat
    BY Now DEF SpeechDeferred, SpeechConnects, SpeechContinues, SpeechQueued, SpeechMissed
  <2>. QED
    BY <2>1, Counted DEF GateOpens
<1>2. warmup = FALSE /\ deferred = NotDeferred /\ delayed = "none" /\ finalized \in BOOLEAN
  BY DEF TurnsKnown, Turned, Placed, Flags
<1>3. UNCHANGED <<warmup, deferred>> /\ ~SpeechDeferred
  BY <1>2 DEF SpeechDeferred, SpeechConnects, SpeechContinues, SpeechQueued, SpeechMissed
<1>. DEFINE f == frames + 1
<1>4. /\ f \in Nat /\ wire \in Seq(Message) /\ pending \in Seq(Nat) /\ preroll \in Seq(Nat)
      /\ MaxPending \in Nat \ {0}
  BY Now
<1>5. /\ Sealed(wire) /\ AllAnnounced(wire) /\ Apart(Ended(wire), Kept(pending))
      /\ InUse => Apart(Ended(wire), Kept(preroll))
      /\ \A g \in Ended(wire) : g \in Nat
  BY Now DEF TurnsKnown, TurnsApart, TurnsAnnounced, Ended
<1>6. session # "Closing" => Apart(Ended(wire), {f})
  BY <1>4, <1>5, ApartLater DEF TurnsKnown, TurnsApart
<1>7. session # "Closing" => \A g \in Ended(wire) : TurnOf(g) < TurnOf(frames + 2)
  BY <1>5, TurnsBelow DEF TurnsKnown, TurnsApart
<1>. HIDE DEF f
<1>8. ASSUME Ended(wire') \subseteq Ended(wire), Sealed(wire'), AllAnnounced(wire'),
             Apart(Ended(wire'), Kept(pending')),
             InUse' => Apart(Ended(wire'), Kept(preroll')),
             session' # "Closing" => session # "Closing",
             session' \in {"Connecting", "Streaming"} => ~Unannounced(wire')
      PROVE  TurnsKnown'
  <2>1. Turned'
    BY <1>1, <1>2, <1>3 DEF Turned
  <2>2. TurnsApart'
    BY <1>1, <1>7, <1>8 DEF TurnsApart
  <2>3. TurnsAnnounced'
    BY <1>8 DEF TurnsAnnounced
  <2>4. TurnsEnded'
    BY <1>1 DEF TurnsEnded
  <2>. QED
    BY <2>1, <2>2, <2>3, <2>4 DEF TurnsKnown
<1>9. CASE SpeechConnects
  <2>1. wire' = Append(<<>>, Command("Start")) /\ session = "Listening" /\ session' = "Connecting"
    BY <1>9 DEF SpeechConnects, StartAsr
  <2>2. Ended(wire') = {} /\ Sealed(wire') /\ AllAnnounced(wire') /\ ~Unannounced(wire')
    BY <2>1, NothingSaid, CommandSaid
  <2>. QED
    BY <1>8, <2>1, <2>2 DEF Apart
<1>10. CASE SpeechContinues
  <2>1. /\ session = "Streaming" /\ UNCHANGED <<pending, session>>
        /\ wire' = Announced \o AudioOf(ResumedWith) \o <<Audio(f)>>
        /\ preroll' = (IF paused THEN <<>> ELSE preroll)
    BY <1>1, <1>10 DEF SpeechContinues, f
  <2>. DEFINE v == Announced
              x == v \o AudioOf(ResumedWith)
  <2>2. /\ v \in Seq(Message) /\ Ended(v) = Ended(wire) /\ Sealed(v) /\ AllAnnounced(v)
        /\ ~Unannounced(v)
    BY <1>4, <1>5, CommandSaid DEF Announced
  <2>3. ResumedWith \in Seq(Nat) /\ Apart(Ended(wire), Kept(ResumedWith))
    <3>1. CASE paused = TRUE
      <4>1. InUse
        BY <2>1, <3>1 DEF InUse, Placed, Flow, Buffers
      <4>. QED
        BY <1>4, <1>5, <3>1, <4>1 DEF ResumedWith
    <3>2. CASE paused = FALSE
      BY <3>2, KeptEmpty DEF ResumedWith, Apart
    <3>. QED
      BY <3>1, <3>2 DEF Placed, Flags
  <2>. HIDE DEF v
  <2>4. /\ x \in Seq(Message) /\ Ended(x) = Ended(wire) /\ Sealed(x) /\ AllAnnounced(x)
        /\ ~Unannounced(x)
    BY <2>2, <2>3, AudioSaid
  <2>. HIDE DEF x
  <2>5. wire' = x \o AudioOf(<<f>>) /\ <<f>> \in Seq(Nat) /\ Kept(<<f>>) = {f}
    BY <1>4, <2>1, <2>4, FrameSaid DEF x, v
  <2>6. /\ Ended(wire') = Ended(wire) /\ Sealed(wire') /\ AllAnnounced(wire')
        /\ ~Unannounced(wire')
    <3>1. Apart(Ended(x), Kept(<<f>>))
      BY <1>6, <2>1, <2>4, <2>5
    <3>. QED
      BY <2>4, <2>5, <3>1, AudioSaid
  <2>7. InUse' = InUse
    BY <1>1, <2>1 DEF InUse
  <2>8. InUse' => Apart(Ended(wire'), Kept(preroll'))
    <3>1. Apart(Ended(wire'), Kept(<<>>))
      BY KeptEmpty DEF Apart
    <3>. QED
      BY <1>5, <2>1, <2>6, <2>7, <3>1
  <2>. QED
    BY <1>5, <1>8, <2>1, <2>6, <2>8
<1>11. CASE SpeechQueued
  <2>1. session = "Connecting" /\ session' = session /\ InUse
    BY <1>11 DEF SpeechQueued, InUse
  <2>2. CASE finalized = TRUE
    <3>1. /\ wire' = Append(wire, Command("Start")) /\ preroll' = <<>>
          /\ pending' = Latest(MaxPending, pending \o Append(preroll, f))
      BY <1>1, <1>11, <2>2 DEF SpeechQueued, Announced, f
    <3>2. /\ Ended(wire') = Ended(wire) /\ Sealed(wire') /\ AllAnnounced(wire')
          /\ ~Unannounced(wire')
      BY <1>4, <1>5, <3>1, CommandSaid
    <3>3. Kept(pending') \subseteq Kept(pending) \cup Kept(preroll) \cup {f}
      <4>1. Append(preroll, f) \in Seq(Nat) /\ Kept(Append(preroll, f)) = Kept(preroll) \cup {f}
        BY <1>4, KeptAppend
      <4>2. /\ pending \o Append(preroll, f) \in Seq(Nat)
            /\ Kept(pending \o Append(preroll, f)) = Kept(pending) \cup Kept(Append(preroll, f))
        BY <1>4, <4>1, KeptConcat
      <4>3. Kept(Latest(MaxPending, pending \o Append(preroll, f))) \subseteq
              Kept(pending \o Append(preroll, f))
        BY <1>4, <4>2, LatestKept
      <4>. QED
        BY <3>1, <4>1, <4>2, <4>3
    <3>4. Apart(Ended(wire'), Kept(pending')) /\ Apart(Ended(wire'), Kept(preroll'))
      BY <1>5, <1>6, <2>1, <3>1, <3>2, <3>3, KeptEmpty DEF Apart
    <3>. QED
      BY <1>8, <2>1, <3>2, <3>4
  <2>3. CASE finalized = FALSE
    <3>1. UNCHANGED <<wire, preroll>> /\ pending' = Latest(MaxPending, Append(pending, f))
      BY <1>1, <1>11, <2>3 DEF SpeechQueued, f
    <3>2. Kept(pending') \subseteq Kept(pending) \cup {f}
      <4>1. Append(pending, f) \in Seq(Nat) /\ Kept(Append(pending, f)) = Kept(pending) \cup {f}
        BY <1>4, KeptAppend
      <4>2. Kept(Latest(MaxPending, Append(pending, f))) \subseteq Kept(Append(pending, f))
        BY <1>4, <4>1, LatestKept
      <4>. QED
        BY <3>1, <4>1, <4>2
    <3>3. Apart(Ended(wire'), Kept(pending'))
      BY <1>5, <1>6, <2>1, <3>1, <3>2 DEF Apart
    <3>4. ~Unannounced(wire)
      BY <2>1, <2>3 DEF TurnsKnown, TurnsAnnounced
    <3>5. Ended(wire') = Ended(wire) /\ Sealed(wire') /\ AllAnnounced(wire') /\ ~Unannounced(wire')
          /\ Apart(Ended(wire'), Kept(preroll'))
      BY <1>5, <2>1, <3>1, <3>4
    <3>. QED
      BY <1>8, <2>1, <3>3, <3>5
  <2>. QED
    BY <1>2, <2>2, <2>3
<1>12. CASE SpeechMissed
  <2>1. session \in {"Closing", "Failed"} /\ UNCHANGED <<session, pending, wire>>
    BY <1>12 DEF SpeechMissed
  <2>2. ~InUse'
    BY <2>1 DEF InUse
  <2>. QED
    BY <1>5, <1>8, <2>1, <2>2
<1>. QED
  BY <1>3, <1>9, <1>10, <1>11, <1>12

\* The turn that is over is ended, with all that was kept of it.
LEMMA EndKnown ==
  ASSUME Placed, TurnsKnown, SpeechEnded, mode' = mode
  PROVE  TurnsKnown'
<1>. DEFINE f == frames + 1
            w == WireWith(f)
            p == PendingWith(f)
            r == PrerollWith(f)
<1>1. /\ frames \in Nat /\ Speaking /\ frames' = f /\ frames' % 3 = 0 /\ frames' + 1 = frames + 2
      /\ frames % 3 = 2 /\ UNCHANGED <<mode, session, warmup>> /\ delayed' = EndSeen(delayed)
  <2>1. frames \in Nat
    BY Now
  <2>. QED
    BY <2>1, Counted DEF SpeechEnded, Speaking
<1>2. /\ warmup = FALSE /\ deferred = NotDeferred /\ delayed' = "none" /\ finalized = FALSE
      /\ ~Deferring
  BY <1>1 DEF TurnsKnown, Turned, EndSeen, Deferring
<1>3. FinishSpeech(session, r, p, w) /\ deferred' = deferred
  BY <1>2 DEF SpeechEnded
<1>4. /\ Sealed(w) /\ Ended(w) = Ended(wire) /\ (Unannounced(w) <=> Unannounced(wire))
      /\ AllAnnounced(w) /\ Apart(Ended(wire), Kept(p))
      /\ InUse => Apart(Ended(wire), Kept(r))
  BY <1>1, FrameKnown
<1>5. /\ w \in Seq(Message) /\ p \in Seq(Nat) /\ r \in Seq(Nat) /\ Past(w, p, r, f)
      /\ session = "Connecting" /\ finalized = FALSE => r = <<>>
  BY FrameHandled
<1>6. f \in Nat /\ f = frames + 1 /\ \A g \in Ended(wire) : g \in Nat
  BY Now DEF Ended
<1>7. /\ session \in {"Connecting", "Streaming"} => ~Unannounced(wire)
      /\ session # "Closing" => \A g \in Ended(wire) : TurnOf(g) < TurnOf(frames + 2)
  BY <1>1, <1>2, <1>6, TurnsBelow DEF TurnsKnown, TurnsAnnounced, TurnsApart
<1>. HIDE DEF f, w, p, r
<1>8. mode \in {"client", "server", "both"}
  BY DEF Placed, Buffers
<1>9. InUse' = InUse
  BY <1>1 DEF InUse
<1>10. CASE /\ mode # "server" /\ session \in {"Connecting", "Streaming"} /\ finalized = FALSE
            /\ wire' = Append(w \o AudioOf(p), Command("Finalize")) /\ pending' = <<>>
            /\ finalized' = TRUE
            /\ mode = "both" => preroll' = <<>> /\ paused' = TRUE
            /\ mode = "client" => preroll' = r /\ paused' = paused
  <2>. DEFINE v == w \o AudioOf(p)
  <2>1. /\ v \in Seq(Message) /\ Sealed(v) /\ AllAnnounced(v) /\ Sent(v) = Sent(w) \cup Kept(p)
    BY <1>4, <1>5, <1>7, <1>10, AudioSaid
  <2>. HIDE DEF v
  <2>2. wire' = Append(v, Command("Finalize"))
    BY <1>10 DEF v
  <2>3. Sealed(wire') /\ AllAnnounced(wire') /\ AllEnded(wire') /\ Ended(wire') = Sent(v)
    BY <2>1, <2>2, CommandSaid
  <2>4. Turned'
    BY <1>1, <1>2, <1>3, <1>10 DEF Turned, Speaking
  <2>5. \A g \in Sent(v) : TurnOf(g) < TurnOf(frames + 2)
    <3>1. \A i \in 1..Len(v) : v[i] \in Message
      BY <2>1, ElementOfSeq
    <3>2. \A g \in Sent(v) : g \in Nat /\ g <= frames + 1
      BY <1>5, <1>6, <2>1, <3>1 DEF Sent, At, Message, Past
    <3>. QED
      BY <1>1, <3>2, TurnOrder
  <2>6. InUse' => preroll' = <<>>
    BY <1>1, <1>5, <1>8, <1>9, <1>10 DEF InUse
  <2>7. TurnsApart'
    BY <1>1, <1>10, <2>3, <2>5, <2>6, KeptEmpty DEF TurnsApart, Apart
  <2>8. TurnsAnnounced'
    BY <1>1, <1>10, <2>3 DEF TurnsAnnounced, Speaking
  <2>9. TurnsEnded'
    BY <1>10, <2>3 DEF TurnsEnded
  <2>. QED
    BY <2>4, <2>7, <2>8, <2>9 DEF TurnsKnown
<1>11. CASE /\ mode = "server" \/ session \notin {"Connecting", "Streaming"} \/ finalized = TRUE
            /\ wire' = w /\ pending' = p /\ preroll' = r
            /\ finalized' = finalized /\ paused' = paused
  <2>1. Turned'
    BY <1>1, <1>2, <1>3, <1>11 DEF Turned
  <2>2. TurnsApart'
    BY <1>1, <1>4, <1>7, <1>9, <1>11 DEF TurnsApart
  <2>3. TurnsAnnounced'
    BY <1>1, <1>4, <1>7, <1>11 DEF TurnsAnnounced
  <2>4. TurnsEnded'
    BY <1>1, <1>2, <1>11 DEF TurnsEnded
  <2>. QED
    BY <2>1, <2>2, <2>3, <2>4 DEF TurnsKnown
<1>. QED
  BY <1>3, <1>5, <1>10, <1>11, SpeechFinished

\* A session that is over leaves nothing of its turns.
LEMMA CleanedKnown ==
  ASSUME TurnsKnown, mode' = mode, session' \in {"Listening", "Failed"}, Cleanup
  PROVE  TurnsKnown'
<1>1. /\ UNCHANGED <<warmup, deferred>> /\ wire' = <<>> /\ pending' = <<>>
      /\ finalized' = FALSE /\ delayed' = "none" /\ ~InUse'
  BY DEF Cleanup, InUse
<1>2. Turned'
  BY <1>1 DEF TurnsKnown, Turned
<1>3. TurnsApart'
  BY <1>1, NothingSaid DEF TurnsApart, Apart
<1>4. TurnsAnnounced'
  BY <1>1, NothingSaid DEF TurnsAnnounced
<1>5. TurnsEnded'
  BY DEF TurnsEnded
<1>. QED
  BY <1>2, <1>3, <1>4, <1>5 DEF TurnsKnown

\* A turn that waited for the connection goes out and is not yet ended.
LEMMA ConnectedKnown ==
  ASSUME Placed, TurnsKnown, ConnectedArrives, session = "Connecting", mode' = mode
  PROVE  TurnsKnown'
<1>1. /\ delayed = "none" /\ warmup = FALSE /\ deferred = NotDeferred
  BY DEF TurnsKnown, Turned
<1>2. /\ UNCHANGED <<frames, warmup, deferred, preroll, paused, finalized>> /\ delayed' = "none"
      /\ session' = "Streaming" /\ wire' = wire \o AudioOf(pending) /\ pending' = <<>>
  BY <1>1 DEF ConnectedArrives
<1>3. /\ wire \in Seq(Message) /\ pending \in Seq(Nat) /\ finalized \in BOOLEAN
  BY Now DEF Placed, Flags
<1>4. finalized = FALSE => ~Unannounced(wire)
  BY DEF TurnsKnown, TurnsAnnounced
<1>5. finalized = TRUE => Kept(pending) = {}
  BY KeptEmpty DEF TurnsKnown, Turned
<1>6. /\ Sealed(wire') /\ AllAnnounced(wire') /\ Ended(wire') = Ended(wire)
      /\ (Unannounced(wire') <=> Unannounced(wire))
  BY <1>2, <1>3, <1>4, <1>5, AudioSaid DEF TurnsKnown, TurnsApart, TurnsAnnounced
<1>7. Turned'
  BY <1>2 DEF TurnsKnown, Turned, Speaking
<1>8. TurnsApart'
  <2>1. InUse
    BY DEF InUse
  <2>. QED
    BY <1>2, <1>6, <2>1, KeptEmpty DEF TurnsKnown, TurnsApart, Apart
<1>9. TurnsAnnounced'
  <2>1. Speaking' => finalized = FALSE
    BY <1>2 DEF TurnsKnown, Turned, Speaking
  <2>. QED
    BY <1>2, <1>4, <1>6, <2>1 DEF TurnsAnnounced
<1>10. TurnsEnded'
  <2>. SUFFICES ASSUME mode # "server", frames % 3 = 0 PROVE AllEnded(wire')
    BY <1>2 DEF TurnsEnded
  <2>1. AllEnded(wire) /\ pending = <<>>
    BY DEF TurnsKnown, TurnsEnded
  <2>2. AudioOf(pending) = <<>>
    BY <2>1 DEF AudioOf
  <2>3. wire' = wire
    BY <1>2, <1>3, <2>2, ConcatEmptySeq
  <2>. QED
    BY <2>1, <2>3
<1>. QED
  BY <1>7, <1>8, <1>9, <1>10 DEF TurnsKnown

\* A timer closes the turn or lets the connection go.
LEMMA TimerKnown ==
  ASSUME Placed, TurnsKnown, TimerStep, mode' = mode
  PROVE  TurnsKnown'
<1>1. CASE IdleCloses
  <2>1. /\ session = "Streaming" /\ session' = "Closing"
        /\ UNCHANGED <<frames, warmup, deferred, preroll, pending, finalized, delayed>>
        /\ wire' = wire \o <<Command("Finalize"), Command("Stop")>>
    BY <1>1 DEF IdleCloses, turnVars
  <2>. DEFINE v == Append(wire, Command("Finalize"))
  <2>2. wire \in Seq(Message) /\ Command("Finalize") \in Message /\ Command("Stop") \in Message
    BY Now DEF Command, Message
  <2>3. wire' = Append(v, Command("Stop"))
    BY <2>1, <2>2, SaidTwice
  <2>4. v \in Seq(Message) /\ Sealed(v) /\ AllAnnounced(v)
    BY <2>2, CommandSaid DEF TurnsKnown, TurnsApart, TurnsAnnounced
  <2>. HIDE DEF v
  <2>5. Sealed(wire') /\ AllAnnounced(wire')
    BY <2>3, <2>4, CommandSaid
  <2>6. Kept(pending') = {} /\ ~InUse'
    BY <2>1, KeptEmpty DEF Placed, Flow, InUse
  <2>7. Turned'
    BY <2>1 DEF TurnsKnown, Turned, Speaking
  <2>8. TurnsApart'
    BY <2>1, <2>5, <2>6 DEF TurnsApart, Apart
  <2>9. TurnsAnnounced' /\ TurnsEnded'
    BY <2>1, <2>5 DEF TurnsAnnounced, TurnsEnded
  <2>. QED
    BY <2>7, <2>8, <2>9 DEF TurnsKnown
<1>2. CASE SessionTimeout \/ Fails
  BY <1>2, CleanedKnown DEF SessionTimeout, Fails
<1>3. CASE Recovers
  <2>1. /\ session = "Failed" /\ session' = "Listening" /\ GateReset
        /\ UNCHANGED <<warmup, deferred, preroll, pending, wire, finalized, delayed>>
    BY <1>3 DEF Recovers, audioVars, turnVars
  <2>2. wire' = <<>> /\ pending' = <<>> /\ finalized' = FALSE /\ ~InUse'
    BY <2>1 DEF Placed, Flow, InUse
  <2>3. Turned'
    BY <2>1, <2>2 DEF TurnsKnown, Turned
  <2>4. TurnsApart'
    BY <2>2, NothingSaid DEF TurnsApart, Apart
  <2>5. TurnsAnnounced' /\ TurnsEnded'
    BY <2>1, <2>2, NothingSaid DEF TurnsAnnounced, TurnsEnded
  <2>. QED
    BY <2>3, <2>4, <2>5 DEF TurnsKnown
<1>. QED
  BY <1>1, <1>2, <1>3 DEF TimerStep

\* Every step; without warm-ups some cannot be taken.
LEMMA TurnsKnownStep ==
  ASSUME Placed, TurnsKnown, ~Warmups, [Next]_vars
  PROVE  TurnsKnown'
<1>1. ASSUME UNCHANGED <<mode, frames, session, warmup, deferred, delayed, preroll, pending, wire,
                         finalized>>
      PROVE  TurnsKnown'
  <2>1. Turned' /\ TurnsApart'
    BY <1>1 DEF TurnsKnown, Turned, TurnsApart, Speaking, InUse
  <2>2. TurnsAnnounced' /\ TurnsEnded'
    BY <1>1 DEF TurnsKnown, TurnsAnnounced, TurnsEnded, Speaking
  <2>. QED
    BY <2>1, <2>2 DEF TurnsKnown
<1>2. CASE UNCHANGED vars
  BY <1>1, <1>2 DEF vars, audioVars, turnVars
<1>3. CASE Next
  <2>1. mode' = mode
    BY <1>3 DEF Next
  <2>2. CASE SpeechStep
    BY <2>1, <2>2, OnsetKnown, OpensKnown, EndKnown DEF SpeechStep
  <2>3. ~WarmupStep
    BY DEF WarmupStep, WarmupStarts, WarmupEnds, TurnsKnown, Turned
  <2>4. CASE LinkStep
    <3>1. OthersThanServer
      BY <2>4 DEF LinkStep, LinkConnects, ServerHears, ServerFinalizes, ServerFinishes,
                  ServerSplits, ServerPartial, ServerNotifies, LinkBreaks
    <3>. QED
      BY <1>1, <2>1, <3>1 DEF OthersThanServer, audioVars, turnVars
  <2>5. CASE TextArrives \/ PartialArrives
    BY <1>1, <2>1, <2>5 DEF TextArrives, PartialArrives, audioVars, turnVars
  <2>6. CASE FinArrives
    BY <1>1, <2>1, <2>6 DEF FinArrives, audioVars
  <2>7. CASE FinishedArrives \/ LostArrives
    <3>1. session' = "Listening" /\ Cleanup
      BY <2>7 DEF FinishedArrives, LostArrives
    <3>. QED
      BY <2>1, <3>1, CleanedKnown
  <2>8. CASE EndpointArrives \/ NoticeArrives
    <3>1. delayed = "none"
      BY DEF TurnsKnown, Turned
    <3>2. UNCHANGED <<frames, session, wire, warmup, deferred, delayed, preroll, pending, finalized>>
      BY <2>8, <3>1 DEF EndpointArrives, NoticeArrives, CloseDelayed, turnVars
    <3>. QED
      BY <1>1, <2>1, <3>2
  <2>9. CASE ConnectedArrives
    <3>1. CASE session = "Connecting"
      BY <2>1, <2>9, <3>1, ConnectedKnown
    <3>2. CASE session # "Connecting"
      <4>1. UNCHANGED <<frames, session, wire, warmup, deferred, delayed, preroll, pending, finalized>>
        BY <2>9, <3>2 DEF ConnectedArrives, turnVars
      <4>. QED
        BY <1>1, <2>1, <4>1
    <3>. QED
      BY <3>1, <3>2
  <2>10. CASE DrainStep
    BY <2>5, <2>6, <2>7, <2>8, <2>9, <2>10 DEF DrainStep
  <2>11. CASE TimerStep
    BY <2>1, <2>11, TimerKnown
  <2>. QED
    BY <1>3, <2>2, <2>3, <2>4, <2>10, <2>11 DEF Next
<1>. QED
  BY <1>2, <1>3

\* At first no turn is known.
LEMMA TurnsKnownInit ==
  ASSUME Init
  PROVE  TurnsKnown
<1>1. /\ frames = 0 /\ session = "Listening" /\ warmup = FALSE /\ deferred = NotDeferred
      /\ delayed = "none" /\ preroll = <<>> /\ pending = <<>> /\ finalized = FALSE /\ wire = <<>>
  BY DEF Init
<1>. QED
  BY <1>1, NothingSaid DEF TurnsKnown, Turned, TurnsApart, TurnsAnnounced, TurnsEnded, Speaking,
                           InUse, Apart

\* Both invariants, in every reachable state.
LEMMA TurnsKnownAlways == ~Warmups => (Spec => [](Placed /\ TurnsKnown))
<1>. SUFFICES ASSUME ~Warmups PROVE Spec => [](Placed /\ TurnsKnown)
  OBVIOUS
<1>1. Init => Placed /\ TurnsKnown
  BY PlacedInit, TurnsKnownInit
<1>2. Placed /\ TurnsKnown /\ [Next]_vars => (Placed /\ TurnsKnown)'
  BY PlacedStep, TurnsKnownStep
<1>. QED
  BY <1>1, <1>2, PTL DEF Spec

\* A turn that was ended for the server gets no more audio, when no warm-up holds speech back.
THEOREM TurnSealedHolds == ~Warmups => (Spec => []TurnSealed)
<1>1. Placed /\ TurnsKnown => TurnSealed
  <2>1. Places("Audio") = At(wire, "Audio") /\ Places("Finalize") = At(wire, "Finalize")
    BY DEF Places, At
  <2>. QED
    BY <2>1 DEF TurnSealed, TurnsKnown, TurnsApart, Sealed
<1>. QED
  BY <1>1, TurnsKnownAlways, PTL

\* After the end of a turn, the server is told that another begins before it is given the
\* audio, when no warm-up holds speech back.
THEOREM TurnAnnouncedHolds == ~Warmups => (Spec => []TurnAnnounced)
<1>1. Placed /\ TurnsKnown => TurnAnnounced
  <2>. SUFFICES ASSUME Placed, TurnsKnown,
                       NEW k \in At(wire, "Finalize"), NEW j \in At(wire, "Audio"),
                       k < j, wire[j].frame % 3 # 1
                PROVE  \E i \in k..j : wire[i].what = "Start"
    BY DEF TurnAnnounced, Places, At
  <2>1. PICK i \in At(wire, "Start") : k < i /\ i < j
    BY DEF TurnsKnown, TurnsAnnounced, AllAnnounced
  <2>2. i \in k..j
    BY <2>1 DEF At
  <2>. QED
    BY <2>1, <2>2 DEF At
<1>. QED
  BY <1>1, TurnsKnownAlways, PTL

\* Every turn that is over has been ended for the server where the client ends turns, when
\* no warm-up holds speech back.
THEOREM EndedTurnFinalizedHolds == ~Warmups => (Spec => []EndedTurnFinalized)
<1>1. Placed /\ TurnsKnown => EndedTurnFinalized
  <2>1. Places("Audio") = At(wire, "Audio") /\ Places("Finalize") = At(wire, "Finalize")
    BY DEF Places, At
  <2>. QED
    BY <2>1 DEF EndedTurnFinalized, TurnsKnown, TurnsEnded, AllEnded
<1>. QED
  BY <1>1, TurnsKnownAlways, PTL

--------------------------------------------------------------------------------
(***************************************************************************)
(* The text: the answers that make it up are counted.  Those that are on   *)
(* their way in the queue of events come after those that have arrived.    *)
(***************************************************************************)
Word == [answer : Nat, from : SUBSET Nat]
Piece == [text : Seq(Word), how : {"paste", "clipboard"}]
Happening == [what : {"Connected", "Text", "Partial", "Endpoint", "Fin", "Notice",
                      "Finished", "Lost"},
              answer : Nat, from : SUBSET Nat, to : {"None", "Fin", "Endpoint"}]

Numbers(s) == [i \in 1..Len(s) |-> s[i].answer]
Joined(c, t) == c \o t
Outs(ty) == UNION {Kept(Numbers(ty[i].text)) : i \in 1..Len(ty)}
Words(ty, c, t) == Outs(ty) \cup Kept(Numbers(c)) \cup Kept(Numbers(t))
Pieces(ty, c, t) ==
  /\ ty \in Seq(Piece) /\ c \in Seq(Word) /\ t \in Seq(Word)
  /\ \A i \in 1..Len(ty) : Rising(Numbers(ty[i].text))
  /\ \A i, j \in 1..Len(ty) :
       i < j => Below(Kept(Numbers(ty[i].text)), Kept(Numbers(ty[j].text)))
  /\ Rising(Numbers(c)) /\ Rising(Numbers(t))
  /\ Below(Outs(ty), Kept(Numbers(c)) \cup Kept(Numbers(t)))
  /\ Below(Kept(Numbers(c)), Kept(Numbers(t)))

Coming(q) == {q[i].answer : i \in At(q, "Text")}
InTurn(q) == \A i, j \in At(q, "Text") : i < j => q[i].answer < q[j].answer
Ahead(A, q, n) == Below(A, Coming(q)) /\ InTurn(q) /\ \A a \in A \cup Coming(q) : a \in Nat /\ a <= n

Received == read \in Nat /\ heard \in SUBSET Nat /\ answers \in Nat /\ inbox \in Seq(Happening)
Spelled ==
  Received /\ Pieces(typed, commit, transcript) /\
  Ahead(Words(typed, commit, transcript), inbox, answers)

\* The numbers of the answers in a text.
LEMMA NumbersSeq ==
  ASSUME NEW s \in Seq(Word)
  PROVE  /\ Numbers(s) \in Seq(Nat) /\ Len(Numbers(s)) = Len(s)
         /\ \A i \in 1..Len(s) : Numbers(s)[i] = s[i].answer
<1>1. Len(s) \in Nat /\ \A i \in 1..Len(s) : s[i] \in Word
  BY LenProperties, ElementOfSeq
<1>2. \A i \in 1..Len(s) : s[i].answer \in Nat
  BY <1>1 DEF Word
<1>. QED
  BY <1>1, <1>2 DEF Numbers

\* No text.
LEMMA NumbersEmpty == Numbers(<<>>) = <<>> /\ <<>> \in Seq(Word)
BY EmptySeq DEF Numbers

\* A word added to a text.
LEMMA NumbersAppend ==
  ASSUME NEW s \in Seq(Word), NEW x \in Word
  PROVE  Numbers(Append(s, x)) = Append(Numbers(s), x.answer) /\ Append(s, x) \in Seq(Word)
<1>. DEFINE u == Append(s, x)
            m == Numbers(s)
            v == Append(m, x.answer)
<1>1. /\ u \in Seq(Word) /\ Len(u) = Len(s) + 1 /\ u[Len(s) + 1] = x /\ Len(s) \in Nat
      /\ \A i \in 1..Len(s) : u[i] = s[i]
  BY AppendProperties, LenProperties
<1>2. /\ m \in Seq(Nat) /\ Len(m) = Len(s) /\ \A i \in 1..Len(s) : m[i] = s[i].answer
  BY NumbersSeq
<1>3. x.answer \in Nat
  BY DEF Word
<1>. HIDE DEF u, m
<1>4. /\ v \in Seq(Nat) /\ Len(v) = Len(m) + 1 /\ v[Len(m) + 1] = x.answer
      /\ \A i \in 1..Len(m) : v[i] = m[i]
  BY <1>2, <1>3, AppendProperties
<1>5. /\ Numbers(u) \in Seq(Nat) /\ Len(Numbers(u)) = Len(u)
      /\ \A i \in 1..Len(u) : Numbers(u)[i] = u[i].answer
  BY <1>1, NumbersSeq
<1>. HIDE DEF v
<1>6. ASSUME NEW i \in 1..Len(Numbers(u)) PROVE Numbers(u)[i] = v[i]
  <2>1. i \in 1..Len(s) \/ i = Len(s) + 1
    BY <1>1, <1>5
  <2>. QED
    BY <1>1, <1>2, <1>4, <1>5, <2>1
<1>7. Len(Numbers(u)) = Len(v)
  BY <1>1, <1>2, <1>4, <1>5
<1>8. Numbers(u) = v
  BY <1>4, <1>5, <1>6, <1>7, SeqEqual
<1>. QED
  BY <1>1, <1>8 DEF u, v, m

\* Two texts, one after the other.
LEMMA NumbersConcat ==
  ASSUME NEW s \in Seq(Word), NEW t \in Seq(Word)
  PROVE  Numbers(s \o t) = Numbers(s) \o Numbers(t) /\ s \o t \in Seq(Word)
<1>. DEFINE u == s \o t
            m == Numbers(s)
            n == Numbers(t)
            v == m \o n
<1>1. /\ u \in Seq(Word) /\ Len(u) = Len(s) + Len(t)
      /\ \A i \in 1..(Len(s) + Len(t)) : u[i] = IF i <= Len(s) THEN s[i] ELSE t[i - Len(s)]
  BY ConcatProperties
<1>2. /\ m \in Seq(Nat) /\ Len(m) = Len(s) /\ \A i \in 1..Len(s) : m[i] = s[i].answer
      /\ n \in Seq(Nat) /\ Len(n) = Len(t) /\ \A i \in 1..Len(t) : n[i] = t[i].answer
      /\ Len(s) \in Nat /\ Len(t) \in Nat
  BY NumbersSeq, LenProperties
<1>. HIDE DEF u, m, n
<1>3. /\ v \in Seq(Nat) /\ Len(v) = Len(m) + Len(n)
      /\ \A i \in 1..(Len(m) + Len(n)) : v[i] = IF i <= Len(m) THEN m[i] ELSE n[i - Len(m)]
  BY <1>2, ConcatProperties
<1>4. /\ Numbers(u) \in Seq(Nat) /\ Len(Numbers(u)) = Len(u)
      /\ \A i \in 1..Len(u) : Numbers(u)[i] = u[i].answer
  BY <1>1, NumbersSeq
<1>. HIDE DEF v
<1>5. ASSUME NEW i \in 1..Len(Numbers(u)) PROVE Numbers(u)[i] = v[i]
  <2>1. CASE i <= Len(s)
    <3>1. i \in 1..Len(s) /\ i \in 1..(Len(s) + Len(t)) /\ i \in 1..Len(u)
      BY <1>1, <1>2, <1>4, <2>1
    <3>2. Numbers(u)[i] = s[i].answer
      BY <1>1, <1>4, <2>1, <3>1
    <3>. QED
      BY <1>2, <1>3, <2>1, <3>1, <3>2
  <2>2. CASE ~(i <= Len(s))
    <3>1. /\ i - Len(s) \in 1..Len(t) /\ i \in 1..(Len(s) + Len(t)) /\ i \in 1..Len(u)
          /\ i \in 1..(Len(m) + Len(n))
      BY <1>1, <1>2, <1>4, <2>2
    <3>2. Numbers(u)[i] = t[i - Len(s)].answer
      BY <1>1, <1>4, <2>2, <3>1
    <3>3. v[i] = n[i - Len(s)]
      BY <1>2, <1>3, <2>2, <3>1
    <3>. QED
      BY <1>2, <3>1, <3>2, <3>3
  <2>. QED
    BY <2>1, <2>2
<1>6. Len(Numbers(u)) = Len(v)
  BY <1>1, <1>2, <1>3, <1>4
<1>7. Numbers(u) = v
  BY <1>3, <1>4, <1>5, <1>6, SeqEqual
<1>. QED
  BY <1>1, <1>7 DEF u, v, m, n

\* A word is added to the text in progress.
LEMMA WordAdded ==
  ASSUME NEW ty, NEW c, NEW t, Pieces(ty, c, t), NEW x \in Word,
         Below(Words(ty, c, t), {x.answer})
  PROVE  /\ Pieces(ty, c, Append(t, x))
         /\ Words(ty, c, Append(t, x)) = Words(ty, c, t) \cup {x.answer}
<1>. DEFINE u == Append(t, x)
<1>1. t \in Seq(Word) /\ Numbers(u) = Append(Numbers(t), x.answer) /\ u \in Seq(Word)
  BY NumbersAppend DEF Pieces
<1>2. Numbers(t) \in Seq(Nat) /\ x.answer \in Nat /\ Rising(Numbers(t))
  BY <1>1, NumbersSeq DEF Word, Pieces
<1>3. Below(Kept(Numbers(t)), {x.answer})
  BY DEF Below, Words
<1>. HIDE DEF u
<1>4. Rising(Numbers(u)) /\ Kept(Numbers(u)) = Kept(Numbers(t)) \cup {x.answer}
  BY <1>1, <1>2, <1>3, KeptAppend
<1>5. Words(ty, c, u) = Words(ty, c, t) \cup {x.answer}
  BY <1>4 DEF Words
<1>6. /\ Below(Outs(ty), Kept(Numbers(c)) \cup Kept(Numbers(u)))
      /\ Below(Kept(Numbers(c)), Kept(Numbers(u)))
  BY <1>4 DEF Below, Words, Pieces
<1>7. Pieces(ty, c, u)
  BY <1>1, <1>4, <1>6 DEF Pieces
<1>. QED
  BY <1>5, <1>7 DEF u

\* The text in progress is taken, or dropped.
LEMMA WordsTaken ==
  ASSUME NEW ty, NEW c, NEW t, Pieces(ty, c, t)
  PROVE  Pieces(ty, c, <<>>) /\ Words(ty, c, <<>>) \subseteq Words(ty, c, t)
<1>1. Numbers(<<>>) = <<>> /\ <<>> \in Seq(Word) /\ Kept(<<>>) = {} /\ Rising(<<>>)
  BY NumbersEmpty, KeptEmpty
<1>. QED
  BY <1>1 DEF Pieces, Words, Below

\* The text that is taken follows what waits to be put out.
LEMMA JoinedKept ==
  ASSUME NEW c \in Seq(Word), NEW t \in Seq(Word)
  PROVE  /\ Joined(c, t) \in Seq(Word)
         /\ Kept(Numbers(Joined(c, t))) = Kept(Numbers(c)) \cup Kept(Numbers(t))
         /\ Rising(Numbers(c)) /\ Rising(Numbers(t)) /\ Below(Kept(Numbers(c)), Kept(Numbers(t)))
            => Rising(Numbers(Joined(c, t)))
<1>. DEFINE u == Joined(c, t)
<1>1. Numbers(u) = Numbers(c) \o Numbers(t) /\ u \in Seq(Word)
  BY NumbersConcat DEF Joined
<1>2. Numbers(c) \in Seq(Nat) /\ Numbers(t) \in Seq(Nat)
  BY NumbersSeq
<1>. HIDE DEF u
<1>3. /\ Kept(Numbers(u)) = Kept(Numbers(c)) \cup Kept(Numbers(t))
      /\ Rising(Numbers(c)) /\ Rising(Numbers(t)) /\ Below(Kept(Numbers(c)), Kept(Numbers(t)))
         => Rising(Numbers(u))
  BY <1>1, <1>2, KeptConcat
<1>. QED
  BY <1>1, <1>3 DEF u

\* What waits to be put out takes in the transcript.
LEMMA WordsJoined ==
  ASSUME NEW ty, NEW c, NEW t, Pieces(ty, c, t)
  PROVE  Pieces(ty, Joined(c, t), <<>>)
<1>. DEFINE u == Joined(c, t)
<1>1. c \in Seq(Word) /\ t \in Seq(Word) /\ Below(Kept(Numbers(c)), Kept(Numbers(t)))
  BY DEF Pieces
<1>2. /\ u \in Seq(Word) /\ Rising(Numbers(u))
      /\ Kept(Numbers(u)) = Kept(Numbers(c)) \cup Kept(Numbers(t))
  BY <1>1, JoinedKept DEF Pieces
<1>. HIDE DEF u
<1>3. Numbers(<<>>) = <<>> /\ <<>> \in Seq(Word) /\ Kept(<<>>) = {} /\ Rising(<<>>)
  BY NumbersEmpty, KeptEmpty
<1>4. Below(Outs(ty), Kept(Numbers(u)) \cup {}) /\ Below(Kept(Numbers(u)), {})
  BY <1>2 DEF Below, Pieces
<1>5. Pieces(ty, u, <<>>)
  BY <1>2, <1>3, <1>4 DEF Pieces
<1>. QED
  BY <1>5 DEF u

\* A text is put out.
LEMMA WordsOut ==
  ASSUME NEW ty, NEW c, Pieces(ty, c, <<>>), NEW h \in {"paste", "clipboard"}
  PROVE  /\ Pieces(Append(ty, [text |-> c, how |-> h]), <<>>, <<>>)
         /\ Words(Append(ty, [text |-> c, how |-> h]), <<>>, <<>>) = Words(ty, c, <<>>)
<1>. DEFINE x == [text |-> c, how |-> h]
            u == Append(ty, x)
            n == Len(ty) + 1
<1>1. /\ ty \in Seq(Piece) /\ c \in Seq(Word) /\ x \in Piece /\ x.text = c
      /\ Rising(Numbers(c)) /\ Below(Outs(ty), Kept(Numbers(c)))
  BY DEF Pieces, Piece, Below
<1>2. Numbers(<<>>) = <<>> /\ <<>> \in Seq(Word) /\ Kept(<<>>) = {} /\ Rising(<<>>)
  BY NumbersEmpty, KeptEmpty
<1>. HIDE DEF x
<1>3. /\ u \in Seq(Piece) /\ Len(u) = n /\ u[n] = x /\ Len(ty) \in Nat
      /\ \A i \in 1..Len(ty) : u[i] = ty[i]
  BY <1>1, AppendProperties, LenProperties
<1>. HIDE DEF u
<1>4. /\ \A i : i \in 1..n <=> i \in 1..Len(ty) \/ i = n
      /\ \A i \in 1..Len(ty) : i < n /\ ~(n < i)
  BY <1>3
<1>. HIDE DEF n
<1>5. Outs(u) = Outs(ty) \cup Kept(Numbers(c))
  <2>1. \A a : a \in Outs(u) <=> \E i \in 1..Len(u) : a \in Kept(Numbers(u[i].text))
    BY DEF Outs
  <2>2. \A a : a \in Outs(ty) <=> \E i \in 1..Len(ty) : a \in Kept(Numbers(ty[i].text))
    BY DEF Outs
  <2>3. \A a \in Outs(u) : a \in Outs(ty) \cup Kept(Numbers(c))
    BY <1>1, <1>3, <1>4, <2>1, <2>2
  <2>4. \A a \in Outs(ty) : a \in Outs(u)
    BY <1>3, <1>4, <2>1, <2>2
  <2>5. \A a \in Kept(Numbers(c)) : a \in Outs(u)
    BY <1>1, <1>3, <1>4, <2>1
  <2>. QED
    BY <2>3, <2>4, <2>5
<1>6. \A i \in 1..Len(ty) : Below(Kept(Numbers(ty[i].text)), Kept(Numbers(c)))
  BY <1>1 DEF Below, Outs
<1>7. \A i, j \in 1..Len(u) :
        i < j => Below(Kept(Numbers(u[i].text)), Kept(Numbers(u[j].text)))
  <2>. SUFFICES ASSUME NEW i \in 1..Len(u), NEW j \in 1..Len(u), i < j
                PROVE  Below(Kept(Numbers(u[i].text)), Kept(Numbers(u[j].text)))
    OBVIOUS
  <2>1. i \in 1..Len(ty)
    BY <1>3, <1>4
  <2>2. CASE j \in 1..Len(ty)
    BY <1>3, <2>1, <2>2 DEF Pieces
  <2>3. CASE j = n
    BY <1>1, <1>3, <1>6, <2>1, <2>3
  <2>. QED
    BY <1>3, <1>4, <2>2, <2>3
<1>8. \A i \in 1..Len(u) : Rising(Numbers(u[i].text))
  BY <1>1, <1>3, <1>4 DEF Pieces
<1>9. Words(u, <<>>, <<>>) = Words(ty, c, <<>>)
  BY <1>2, <1>5 DEF Words
<1>10. Pieces(u, <<>>, <<>>)
  BY <1>2, <1>3, <1>7, <1>8 DEF Pieces, Below
<1>. QED
  BY <1>9, <1>10 DEF u, x

\* take_segment and commit_segment.
LEMMA WordsCommitted ==
  ASSUME Pieces(typed, commit, transcript), CommitSegment
  PROVE  /\ Pieces(typed', commit', transcript')
         /\ Words(typed', commit', transcript') \subseteq Words(typed, commit, transcript)
<1>. DEFINE u == Joined(commit, transcript)
<1>1. Kept(Numbers(u)) = Kept(Numbers(commit)) \cup Kept(Numbers(transcript))
  BY JoinedKept DEF Pieces
<1>2. Pieces(typed, u, <<>>)
  BY WordsJoined
<1>3. Kept(Numbers(<<>>)) = {}
  BY NumbersEmpty, KeptEmpty
<1>4. Words(typed, u, <<>>) \subseteq Words(typed, commit, transcript)
  BY <1>1, <1>3 DEF Words
<1>5. /\ transcript' = <<>>
      /\ \/ commit' = u /\ typed' = typed
         \/ /\ commit' = <<>>
            /\ \E h \in {"paste", "clipboard"} : typed' = Append(typed, [text |-> u, how |-> h])
  BY DEF CommitSegment, TakeSegment, Joined
<1>. HIDE DEF u
<1>6. CASE commit' = u /\ typed' = typed
  BY <1>2, <1>4, <1>5, <1>6
<1>7. ASSUME commit' = <<>>, NEW h \in {"paste", "clipboard"},
             typed' = Append(typed, [text |-> u, how |-> h])
      PROVE  /\ Pieces(typed', commit', transcript')
             /\ Words(typed', commit', transcript') \subseteq Words(typed, commit, transcript)
  <2>1. /\ Pieces(Append(typed, [text |-> u, how |-> h]), <<>>, <<>>)
        /\ Words(Append(typed, [text |-> u, how |-> h]), <<>>, <<>>) = Words(typed, u, <<>>)
    BY <1>2, WordsOut
  <2>. QED
    BY <1>4, <1>5, <1>7, <2>1
<1>. QED
  BY <1>5, <1>6, <1>7

\* Every text and partial is followed by an answer to the end of a segment.
Tailing(q) == \A i \in At(q, "Text") \cup At(q, "Partial") :
                \E j \in At(q, "Endpoint") \cup At(q, "Fin") : i < j

\* Events are added to the queue.
LEMMA EventsJoined ==
  ASSUME NEW q \in Seq(Happening), NEW m \in Seq(Happening)
  PROVE  /\ q \o m \in Seq(Happening) /\ Coming(q \o m) = Coming(q) \cup Coming(m)
         /\ InTurn(q) /\ InTurn(m) /\ Below(Coming(q), Coming(m)) => InTurn(q \o m)
         /\ \A c : At(q \o m, c) = {} <=> At(q, c) = {} /\ At(m, c) = {}
         /\ At(m, "Text") = {} /\ At(m, "Partial") = {} /\ Tailing(q) => Tailing(q \o m)
         /\ Len(m) # 0 /\ m[Len(m)].what \in {"Endpoint", "Fin"} => Tailing(q \o m)
<1>. DEFINE v == q \o m
            n == Len(q)
<1>1. /\ v \in Seq(Happening) /\ Len(v) = n + Len(m) /\ n \in Nat /\ Len(m) \in Nat
      /\ \A i \in 1..(n + Len(m)) : v[i] = IF i <= n THEN q[i] ELSE m[i - n]
  BY ConcatProperties, LenProperties
<1>. HIDE DEF v, n
<1>2. n = Len(q)
  BY DEF n
<1>3. \A c : \A i \in At(q, c) : i \in At(v, c) /\ v[i] = q[i] /\ i \in Int /\ i <= n
  <2>. SUFFICES ASSUME NEW c, NEW i \in At(q, c)
                PROVE  i \in At(v, c) /\ v[i] = q[i] /\ i \in Int /\ i <= n
    OBVIOUS
  <2>1. i \in 1..n /\ q[i].what = c
    BY <1>2 DEF At
  <2>2. v[i] = q[i] /\ i \in 1..Len(v) /\ i <= n
    BY <1>1, <2>1
  <2>. QED
    BY <2>1, <2>2 DEF At
<1>4. \A c : \A i \in At(m, c) : n + i \in At(v, c) /\ v[n + i] = m[i] /\ i \in Int /\ i >= 1
  <2>. SUFFICES ASSUME NEW c, NEW i \in At(m, c)
                PROVE  n + i \in At(v, c) /\ v[n + i] = m[i] /\ i \in Int /\ i >= 1
    OBVIOUS
  <2>1. i \in 1..Len(m) /\ m[i].what = c
    BY DEF At
  <2>2. n + i \in 1..(n + Len(m)) /\ ~(n + i <= n) /\ n + i - n = i
    BY <1>1, <2>1
  <2>3. v[n + i] = m[i]
    BY <1>1, <2>1, <2>2
  <2>4. n + i \in 1..Len(v) /\ i \in Int /\ i >= 1
    BY <1>1, <2>1, <2>2
  <2>. QED
    BY <2>1, <2>3, <2>4 DEF At
<1>5. \A c : \A i \in At(v, c) :
        \/ i \in At(q, c) /\ i <= n /\ i \in Int
        \/ i > n /\ i - n \in At(m, c) /\ v[i] = m[i - n] /\ i \in Int
  <2>. SUFFICES ASSUME NEW c, NEW i \in At(v, c)
                PROVE  \/ i \in At(q, c) /\ i <= n /\ i \in Int
                       \/ i > n /\ i - n \in At(m, c) /\ v[i] = m[i - n] /\ i \in Int
    OBVIOUS
  <2>1. i \in 1..(n + Len(m)) /\ v[i].what = c
    BY <1>1 DEF At
  <2>2. CASE i <= n
    <3>1. i \in 1..Len(q) /\ v[i] = q[i]
      BY <1>1, <1>2, <2>1, <2>2
    <3>. QED
      BY <2>1, <2>2, <3>1 DEF At
  <2>3. CASE ~(i <= n)
    <3>1. i > n /\ i - n \in 1..Len(m) /\ v[i] = m[i - n]
      BY <1>1, <2>1, <2>3
    <3>. QED
      BY <2>1, <3>1 DEF At
  <2>. QED
    BY <2>2, <2>3
<1>6. Coming(v) = Coming(q) \cup Coming(m)
  <2>1. Coming(v) \subseteq Coming(q) \cup Coming(m)
    <3>1. ASSUME NEW i \in At(v, "Text") PROVE v[i].answer \in Coming(q) \cup Coming(m)
      <4>1. CASE i \in At(q, "Text")
        BY <1>3, <4>1 DEF Coming
      <4>2. CASE i - n \in At(m, "Text") /\ v[i] = m[i - n]
        BY <4>2 DEF Coming
      <4>. QED
        BY <1>5, <4>1, <4>2
    <3>. QED
      BY <3>1 DEF Coming
  <2>2. Coming(q) \subseteq Coming(v)
    BY <1>3 DEF Coming
  <2>3. Coming(m) \subseteq Coming(v)
    BY <1>4 DEF Coming
  <2>. QED
    BY <2>1, <2>2, <2>3
<1>7. ASSUME InTurn(q), InTurn(m), Below(Coming(q), Coming(m)) PROVE InTurn(v)
  <2>. SUFFICES ASSUME NEW i \in At(v, "Text"), NEW j \in At(v, "Text"), i < j
                PROVE  v[i].answer < v[j].answer
    BY DEF InTurn
  <2>1. CASE i <= n /\ j <= n
    <3>1. i \in At(q, "Text") /\ j \in At(q, "Text")
      BY <1>1, <1>5, <2>1
    <3>. QED
      BY <1>3, <1>7, <3>1 DEF InTurn
  <2>2. CASE i <= n /\ ~(j <= n)
    <3>1. i \in At(q, "Text") /\ j - n \in At(m, "Text") /\ v[j] = m[j - n]
      BY <1>1, <1>5, <2>2
    <3>2. q[i].answer \in Coming(q) /\ m[j - n].answer \in Coming(m) /\ v[i] = q[i]
      BY <1>3, <3>1 DEF Coming
    <3>. QED
      BY <1>7, <3>1, <3>2 DEF Below
  <2>3. CASE ~(i <= n)
    <3>1. i \in Int /\ j \in Int
      BY <1>5
    <3>2. ~(j <= n) /\ i - n < j - n
      BY <1>1, <2>3, <3>1
    <3>3. i - n \in At(m, "Text") /\ v[i] = m[i - n] /\ j - n \in At(m, "Text") /\ v[j] = m[j - n]
      BY <1>1, <1>5, <2>3, <3>2
    <3>. QED
      BY <1>7, <3>2, <3>3 DEF InTurn
  <2>. QED
    BY <2>1, <2>2, <2>3
<1>8. \A c : At(v, c) = {} <=> At(q, c) = {} /\ At(m, c) = {}
  <2>. SUFFICES ASSUME NEW c PROVE At(v, c) = {} <=> At(q, c) = {} /\ At(m, c) = {}
    OBVIOUS
  <2>1. At(v, c) = {} => At(q, c) = {} /\ At(m, c) = {}
    BY <1>3, <1>4
  <2>2. At(q, c) = {} /\ At(m, c) = {} => At(v, c) = {}
    BY <1>5
  <2>. QED
    BY <2>1, <2>2
<1>9. ASSUME At(m, "Text") = {}, At(m, "Partial") = {}, Tailing(q) PROVE Tailing(v)
  <2>. SUFFICES ASSUME NEW i \in At(v, "Text") \cup At(v, "Partial")
                PROVE  \E j \in At(v, "Endpoint") \cup At(v, "Fin") : i < j
    BY DEF Tailing
  <2>1. i \in At(q, "Text") \cup At(q, "Partial")
    BY <1>5, <1>9
  <2>2. PICK j \in At(q, "Endpoint") \cup At(q, "Fin") : i < j
    BY <1>9, <2>1 DEF Tailing
  <2>. QED
    BY <1>3, <2>2
<1>10. ASSUME Len(m) # 0, m[Len(m)].what \in {"Endpoint", "Fin"} PROVE Tailing(v)
  <2>1. Len(m) \in At(m, "Endpoint") \cup At(m, "Fin")
    BY <1>1, <1>10 DEF At
  <2>2. n + Len(m) \in At(v, "Endpoint") \cup At(v, "Fin")
    BY <1>4, <2>1
  <2>3. \A i \in At(v, "Text") \cup At(v, "Partial") : i <= n + Len(m) /\ i \in Int
    BY <1>1 DEF At
  <2>4. \A i \in At(v, "Text") \cup At(v, "Partial") : i # n + Len(m)
    BY <2>2 DEF At
  <2>5. \A i \in At(v, "Text") \cup At(v, "Partial") : i < n + Len(m)
    BY <1>1, <2>3, <2>4
  <2>. QED
    BY <2>2, <2>5 DEF Tailing
<1>. QED
  BY <1>1, <1>6, <1>7, <1>8, <1>9, <1>10 DEF v

\* The first event is taken from the queue.
LEMMA EventTaken ==
  ASSUME NEW q \in Seq(Happening), q # <<>>
  PROVE  /\ Tail(q) \in Seq(Happening) /\ Head(q) \in Happening
         /\ Coming(Tail(q)) \subseteq Coming(q) /\ (InTurn(q) => InTurn(Tail(q)))
         /\ Head(q).what = "Text" =>
              /\ Head(q).answer \in Coming(q)
              /\ InTurn(q) => Below({Head(q).answer}, Coming(Tail(q)))
         /\ Tailing(q) => Tailing(Tail(q))
         /\ Tailing(q) /\ Head(q).what \in {"Text", "Partial"} =>
              At(Tail(q), "Endpoint") # {} \/ At(Tail(q), "Fin") # {}
         /\ \A c : c # Head(q).what /\ At(q, c) # {} => At(Tail(q), c) # {}
         /\ \A c : At(q, c) = {} => At(Tail(q), c) = {}
<1>. DEFINE v == Tail(q)
<1>1. /\ v \in Seq(Happening) /\ Head(q) \in Happening /\ Len(v) = Len(q) - 1
      /\ \A i \in 1..Len(v) : v[i] = q[i + 1]
  BY HeadTailProperties
<1>2. Len(q) \in Nat /\ Len(q) >= 1 /\ Len(v) \in Nat /\ Head(q) = q[1]
  BY <1>1, LenProperties, EmptySeq
<1>. HIDE DEF v
<1>3. \A c : \A i \in At(v, c) : i + 1 \in At(q, c) /\ v[i] = q[i + 1] /\ i \in Int /\ i >= 1
  <2>. SUFFICES ASSUME NEW c, NEW i \in At(v, c)
                PROVE  i + 1 \in At(q, c) /\ v[i] = q[i + 1] /\ i \in Int /\ i >= 1
    OBVIOUS
  <2>1. i \in 1..Len(v) /\ v[i].what = c
    BY DEF At
  <2>2. i + 1 \in 1..Len(q) /\ v[i] = q[i + 1] /\ i \in Int /\ i >= 1
    BY <1>1, <1>2, <2>1
  <2>. QED
    BY <2>1, <2>2 DEF At
<1>4. \A c : \A i \in At(q, c) : i \in Int /\ (i = 1 \/ (i - 1 \in At(v, c) /\ v[i - 1] = q[i]))
  <2>. SUFFICES ASSUME NEW c, NEW i \in At(q, c), i # 1
                PROVE  i - 1 \in At(v, c) /\ v[i - 1] = q[i]
    BY DEF At
  <2>1. i \in 1..Len(q) /\ q[i].what = c
    BY DEF At
  <2>2. i - 1 \in 1..Len(v) /\ i - 1 + 1 = i
    BY <1>1, <1>2, <2>1
  <2>3. v[i - 1] = q[i]
    BY <1>1, <2>2
  <2>. QED
    BY <2>1, <2>2, <2>3 DEF At
<1>5. Coming(v) \subseteq Coming(q)
  <2>1. ASSUME NEW i \in At(v, "Text") PROVE v[i].answer \in Coming(q)
    BY <1>3 DEF Coming
  <2>. QED
    BY <2>1 DEF Coming
<1>6. ASSUME InTurn(q) PROVE InTurn(v)
  <2>. SUFFICES ASSUME NEW i \in At(v, "Text"), NEW j \in At(v, "Text"), i < j
                PROVE  v[i].answer < v[j].answer
    BY DEF InTurn
  <2>1. /\ i + 1 \in At(q, "Text") /\ v[i] = q[i + 1] /\ j + 1 \in At(q, "Text")
        /\ v[j] = q[j + 1] /\ i + 1 < j + 1
    BY <1>3
  <2>. QED
    BY <1>6, <2>1 DEF InTurn
<1>7. \A c : Head(q).what = c => 1 \in At(q, c)
  BY <1>2 DEF At
<1>8. Head(q).what = "Text" => Head(q).answer \in Coming(q)
  BY <1>2, <1>7 DEF Coming
<1>9. ASSUME Head(q).what = "Text", InTurn(q) PROVE Below({Head(q).answer}, Coming(v))
  <2>1. ASSUME NEW i \in At(v, "Text") PROVE q[1].answer < v[i].answer
    <3>1. i + 1 \in At(q, "Text") /\ v[i] = q[i + 1] /\ 1 < i + 1 /\ 1 \in At(q, "Text")
      BY <1>3, <1>7, <1>9
    <3>. QED
      BY <1>9, <3>1 DEF InTurn
  <2>. QED
    BY <1>2, <2>1 DEF Below, Coming
<1>10. ASSUME Tailing(q) PROVE Tailing(v)
  <2>. SUFFICES ASSUME NEW i \in At(v, "Text") \cup At(v, "Partial")
                PROVE  \E j \in At(v, "Endpoint") \cup At(v, "Fin") : i < j
    BY DEF Tailing
  <2>1. i + 1 \in At(q, "Text") \cup At(q, "Partial") /\ i \in Int /\ i >= 1
    BY <1>3
  <2>2. PICK j \in At(q, "Endpoint") \cup At(q, "Fin") : i + 1 < j
    BY <1>10, <2>1 DEF Tailing
  <2>3. j - 1 \in At(v, "Endpoint") \cup At(v, "Fin") /\ j \in Int
    BY <1>4, <2>1, <2>2
  <2>4. i < j - 1
    BY <2>1, <2>2, <2>3
  <2>. QED
    BY <2>3, <2>4
<1>11. ASSUME Tailing(q), Head(q).what \in {"Text", "Partial"}
       PROVE  At(v, "Endpoint") # {} \/ At(v, "Fin") # {}
  <2>1. 1 \in At(q, "Text") \cup At(q, "Partial")
    BY <1>7, <1>11
  <2>2. PICK j \in At(q, "Endpoint") \cup At(q, "Fin") : 1 < j
    BY <1>11, <2>1 DEF Tailing
  <2>3. j - 1 \in At(v, "Endpoint") \cup At(v, "Fin")
    BY <1>4, <2>2
  <2>. QED
    BY <2>3
<1>12. \A c : c # Head(q).what /\ At(q, c) # {} => At(v, c) # {}
  <2>. SUFFICES ASSUME NEW c, c # Head(q).what, NEW i \in At(q, c) PROVE At(v, c) # {}
    OBVIOUS
  <2>1. i # 1
    BY <1>2 DEF At
  <2>. QED
    BY <1>4, <2>1
<1>13. \A c : At(q, c) = {} => At(v, c) = {}
  BY <1>3
<1>. QED
  BY <1>1, <1>5, <1>6, <1>8, <1>9, <1>10, <1>11, <1>12, <1>13 DEF v

\* A few events at once: a text of the next answer first, if any, and a marker last.
LEMMA EventsSaid ==
  ASSUME NEW q \in Seq(Happening), NEW n \in Nat,
         InTurn(q), \A a \in Coming(q) : a <= n, NEW m \in Seq(Happening), Len(m) # 0,
         At(m, "Text") = {} \/ (At(m, "Text") = {1} /\ m[1].answer = n + 1)
  PROVE  /\ q \o m \in Seq(Happening) /\ InTurn(q \o m)
         /\ Coming(q \o m) \subseteq Coming(q) \cup {n + 1}
         /\ At(m, "Text") = {} => Coming(q \o m) = Coming(q)
         /\ m[Len(m)].what \in {"Endpoint", "Fin"} => Tailing(q \o m)
         /\ \A c : At(q \o m, c) = {} <=> At(q, c) = {} /\ At(m, c) = {}
<1>1. InTurn(m)
  BY DEF InTurn
<1>2. Coming(m) \subseteq {n + 1} /\ (At(m, "Text") = {} => Coming(m) = {})
  BY DEF Coming
<1>3. \A a \in Coming(q) : a \in Nat
  <2>1. \A i \in 1..Len(q) : q[i] \in Happening
    BY ElementOfSeq
  <2>. QED
    BY <2>1 DEF Coming, At, Happening
<1>4. Below(Coming(q), Coming(m))
  BY <1>2, <1>3 DEF Below
<1>5. /\ q \o m \in Seq(Happening) /\ Coming(q \o m) = Coming(q) \cup Coming(m)
      /\ InTurn(q \o m)
      /\ \A c : At(q \o m, c) = {} <=> At(q, c) = {} /\ At(m, c) = {}
      /\ m[Len(m)].what \in {"Endpoint", "Fin"} => Tailing(q \o m)
  BY <1>1, <1>4, EventsJoined
<1>. QED
  BY <1>2, <1>5

\* What the server's answers are made of.
LEMMA AnswerMade ==
  ASSUME Received, NEW marker \in {"Fin", "Endpoint"}
  PROVE  LET long == <<Text(marker), Event("Partial"), Event(marker)>>
             short == <<Event("Partial"), Event(marker)>>
             last == <<Event("Partial"), Event("Finished")>>
         IN  /\ long \in Seq(Happening) /\ short \in Seq(Happening) /\ last \in Seq(Happening)
             /\ Len(long) = 3 /\ Len(short) = 2 /\ Len(last) = 2
             /\ long[3].what = marker /\ short[2].what = marker
             /\ At(long, "Text") = {1} /\ long[1].answer = answers + 1
             /\ At(short, "Text") = {} /\ At(last, "Text") = {}
             /\ \A c : c \notin {"Text", "Partial", marker} => At(long, c) = {} /\ At(short, c) = {}
             /\ \A c : c \notin {"Partial", "Finished"} => At(last, c) = {}
             /\ At(long, marker) # {} /\ At(short, marker) # {}
<1>1. Text(marker) \in Happening /\ Text(marker).what = "Text" /\ Text(marker).answer = answers + 1
  BY DEF Text, Happening, Received
<1>2. \A e \in {"Partial", "Finished", "Fin", "Endpoint", "Connected", "Lost"} :
        Event(e) \in Happening /\ Event(e).what = e
  BY DEF Event, Happening
<1>. DEFINE x == Text(marker)
            p == Event("Partial")
            e == Event(marker)
            f == Event("Finished")
            long == <<x, p, e>>
            short == <<p, e>>
            last == <<p, f>>
<1>3. /\ x \in Happening /\ x.what = "Text" /\ x.answer = answers + 1
      /\ p \in Happening /\ p.what = "Partial" /\ e \in Happening /\ e.what = marker
      /\ f \in Happening /\ f.what = "Finished"
  BY <1>1, <1>2
<1>. HIDE DEF x, p, e, f
<1>4. /\ long \in Seq(Happening) /\ Len(long) = 3 /\ long[1] = x /\ long[2] = p /\ long[3] = e
      /\ short \in Seq(Happening) /\ Len(short) = 2 /\ short[1] = p /\ short[2] = e
      /\ last \in Seq(Happening) /\ Len(last) = 2 /\ last[1] = p /\ last[2] = f
  BY <1>3
<1>. HIDE DEF long, short, last
<1>5. /\ \A i : i \in 1..3 <=> i \in {1, 2, 3}
      /\ \A i : i \in 1..2 <=> i \in {1, 2}
  OBVIOUS
<1>6. \A c : /\ \A i : i \in At(long, c) <=> (i = 1 /\ c = "Text") \/ (i = 2 /\ c = "Partial") \/ (i = 3 /\ c = marker)
             /\ \A i : i \in At(short, c) <=> (i = 1 /\ c = "Partial") \/ (i = 2 /\ c = marker)
             /\ \A i : i \in At(last, c) <=> (i = 1 /\ c = "Partial") \/ (i = 2 /\ c = "Finished")
  BY <1>3, <1>4, <1>5 DEF At
<1>7. At(long, "Text") = {1} /\ At(short, "Text") = {} /\ At(last, "Text") = {}
  BY <1>6
<1>8. At(long, marker) # {} /\ At(short, marker) # {}
  BY <1>6
<1>9. /\ \A c : c \notin {"Text", "Partial", marker} => At(long, c) = {} /\ At(short, c) = {}
      /\ \A c : c \notin {"Partial", "Finished"} => At(last, c) = {}
  BY <1>6
<1>. QED
  BY <1>3, <1>4, <1>7, <1>8, <1>9 DEF long, short, last, x, p, e, f

\* The server's answer: one text more, or none, and then the marker.
LEMMA AnswerSaid ==
  ASSUME Received, InTurn(inbox), \A a \in Coming(inbox) : a <= answers,
         NEW marker \in {"Fin", "Endpoint"},
         NEW after \in {<<>>, <<Event("Partial"), Event("Finished")>>}, Answer(marker, after)
  PROVE  /\ inbox' \in Seq(Happening) /\ heard' = {} /\ answers' \in {answers, answers + 1}
         /\ Coming(inbox') \subseteq Coming(inbox) \cup {answers + 1}
         /\ answers' = answers => Coming(inbox') = Coming(inbox)
         /\ InTurn(inbox') /\ At(inbox', marker) # {}
         /\ \A c \in {"Fin", "Endpoint"} \ {marker} : At(inbox', c) = {} <=> At(inbox, c) = {}
         /\ after = <<>> => Tailing(inbox')
<1>. DEFINE long == <<Text(marker), Event("Partial"), Event(marker)>>
            short == <<Event("Partial"), Event(marker)>>
            last == <<Event("Partial"), Event("Finished")>>
<1>1. /\ long \in Seq(Happening) /\ short \in Seq(Happening) /\ last \in Seq(Happening)
      /\ Len(long) = 3 /\ Len(short) = 2 /\ Len(last) = 2
      /\ long[3].what = marker /\ short[2].what = marker
      /\ At(long, "Text") = {1} /\ long[1].answer = answers + 1
      /\ At(short, "Text") = {} /\ At(last, "Text") = {}
      /\ \A c : c \notin {"Text", "Partial", marker} => At(long, c) = {} /\ At(short, c) = {}
      /\ \A c : c \notin {"Partial", "Finished"} => At(last, c) = {}
      /\ At(long, marker) # {} /\ At(short, marker) # {}
  BY AnswerMade
<1>2. /\ heard' = {}
      /\ \/ inbox' = inbox \o long \o after /\ answers' = answers + 1
         \/ inbox' = inbox \o short \o after /\ answers' = answers
  BY DEF Answer
<1>3. after \in {<<>>, last}
  OBVIOUS
<1>4. inbox \in Seq(Happening) /\ answers \in Nat
  BY DEF Received
<1>. HIDE DEF long, short, last
<1>5. PICK m \in {long, short} :
        /\ inbox' = inbox \o m \o after /\ answers' \in {answers, answers + 1}
        /\ answers' = answers => m = short
  BY <1>2, <1>4
<1>6. /\ m \in Seq(Happening) /\ Len(m) # 0 /\ m[Len(m)].what = marker
      /\ At(m, "Text") = {} \/ (At(m, "Text") = {1} /\ m[1].answer = answers + 1)
      /\ At(m, marker) # {}
      /\ \A c \in {"Fin", "Endpoint"} \ {marker} : At(m, c) = {}
  <2>1. m \in Seq(Happening) /\ (m = long \/ m = short)
    BY <1>1
  <2>2. Len(m) # 0 /\ m[Len(m)].what = marker
    <3>1. Len(long) # 0 /\ long[Len(long)].what = marker
      <4>1. Len(long) = 3 /\ long[3].what = marker
        BY <1>1
      <4>. QED
        BY <4>1
    <3>2. Len(short) # 0 /\ short[Len(short)].what = marker
      <4>1. Len(short) = 2 /\ short[2].what = marker
        BY <1>1
      <4>. QED
        BY <4>1
    <3>. QED
      BY <2>1, <3>1, <3>2
  <2>3. At(m, "Text") = {} \/ (At(m, "Text") = {1} /\ m[1].answer = answers + 1)
    BY <1>1, <2>1
  <2>4. At(m, marker) # {}
    BY <1>1, <2>1
  <2>5. \A c \in {"Fin", "Endpoint"} \ {marker} : At(m, c) = {}
    BY <1>1, <2>1
  <2>. QED
    BY <2>1, <2>2, <2>3, <2>4, <2>5
<1>. DEFINE v == inbox \o m
<1>7. /\ v \in Seq(Happening) /\ InTurn(v) /\ Coming(v) \subseteq Coming(inbox) \cup {answers + 1}
      /\ At(m, "Text") = {} => Coming(v) = Coming(inbox)
      /\ Tailing(v) /\ \A c : At(v, c) = {} <=> At(inbox, c) = {} /\ At(m, c) = {}
  BY <1>4, <1>6, EventsSaid
<1>. HIDE DEF v
<1>8. inbox' = v \o after
  BY <1>5 DEF v
<1>9. CASE after = <<>>
  <2>1. inbox' = v
    BY <1>7, <1>8, <1>9, ConcatEmptySeq
  <2>. QED
    BY <1>1, <1>2, <1>5, <1>6, <1>7, <2>1
<1>10. CASE after = last /\ after # <<>>
  <2>1. Coming(last) = {} /\ InTurn(last)
    BY <1>1 DEF Coming, InTurn
  <2>2. Below(Coming(v), Coming(last))
    BY <2>1 DEF Below
  <2>3. /\ v \o last \in Seq(Happening) /\ Coming(v \o last) = Coming(v) \cup Coming(last)
        /\ InTurn(v \o last)
        /\ \A c : At(v \o last, c) = {} <=> At(v, c) = {} /\ At(last, c) = {}
    <3>1. v \in Seq(Happening) /\ last \in Seq(Happening) /\ InTurn(v)
      BY <1>1, <1>7
    <3>. QED
      BY <2>1, <2>2, <3>1, EventsJoined
  <2>. QED
    BY <1>1, <1>2, <1>5, <1>6, <1>7, <1>8, <1>10, <2>1, <2>3
<1>. QED
  BY <1>3, <1>9, <1>10

\* One event that is no text.
LEMMA EventSaid ==
  ASSUME NEW q \in Seq(Happening),
         NEW e \in {"Connected", "Partial", "Endpoint", "Fin", "Notice", "Finished", "Lost"}
  PROVE  /\ Append(q, Event(e)) \in Seq(Happening) /\ Coming(Append(q, Event(e))) = Coming(q)
         /\ InTurn(q) => InTurn(Append(q, Event(e)))
         /\ e # "Partial" /\ Tailing(q) => Tailing(Append(q, Event(e)))
         /\ \A c : c # e => (At(Append(q, Event(e)), c) = {} <=> At(q, c) = {})
<1>. DEFINE x == Event(e)
            m == <<x>>
            v == q \o m
<1>1. x \in Happening /\ x.what = e
  BY DEF Event, Happening
<1>. HIDE DEF x
<1>2. Append(q, x) = v
  BY <1>1, AppendIsConcat
<1>3. m \in Seq(Happening) /\ Len(m) = 1 /\ m[1] = x
  BY <1>1
<1>. HIDE DEF m
<1>4. \A c : c # e => At(m, c) = {}
  BY <1>1, <1>3 DEF At
<1>5. Coming(m) = {} /\ InTurn(m)
  BY <1>4 DEF Coming, InTurn
<1>6. Below(Coming(q), Coming(m))
  BY <1>5 DEF Below
<1>7. /\ v \in Seq(Happening) /\ Coming(v) = Coming(q) \cup Coming(m)
      /\ InTurn(q) /\ InTurn(m) /\ Below(Coming(q), Coming(m)) => InTurn(v)
      /\ \A c : At(v, c) = {} <=> At(q, c) = {} /\ At(m, c) = {}
      /\ At(m, "Text") = {} /\ At(m, "Partial") = {} /\ Tailing(q) => Tailing(v)
  BY <1>3, EventsJoined
<1>. HIDE DEF v
<1>. QED
  BY <1>2, <1>4, <1>5, <1>6, <1>7 DEF x

\* An empty queue.
LEMMA QueueEmpty ==
  <<>> \in Seq(Happening) /\ Coming(<<>>) = {} /\ InTurn(<<>>) /\ \A c : At(<<>>, c) = {}
<1>1. \A c : At(<<>>, c) = {}
  BY DEF At
<1>. QED
  BY <1>1, EmptySeq DEF Coming, InTurn

\* What the server and the thread of the connection do to the queue.
LEMMA QueueGrows ==
  ASSUME Placed, Received, LinkStep, InTurn(inbox), \A a \in Coming(inbox) : a <= answers
  PROVE  /\ Received' /\ InTurn(inbox') /\ answers' \in {answers, answers + 1}
         /\ Coming(inbox') \subseteq Coming(inbox) \cup {answers + 1}
         /\ answers' = answers => Coming(inbox') = Coming(inbox)
<1>. USE DEF Received
<1>1. CASE LinkConnects \/ ServerPartial \/ ServerNotifies \/ LinkBreaks
  <2>1. /\ UNCHANGED <<read, heard, answers>>
        /\ \E e \in {"Connected", "Partial", "Notice", "Lost"} : inbox' = Append(inbox, Event(e))
    BY <1>1 DEF LinkConnects, ServerPartial, ServerNotifies, LinkBreaks, serverVars
  <2>2. PICK e \in {"Connected", "Partial", "Endpoint", "Fin", "Notice", "Finished", "Lost"} :
          inbox' = Append(inbox, Event(e))
    BY <2>1
  <2>3. /\ Append(inbox, Event(e)) \in Seq(Happening)
        /\ Coming(Append(inbox, Event(e))) = Coming(inbox) /\ InTurn(Append(inbox, Event(e)))
    BY EventSaid
  <2>. QED
    BY <2>1, <2>2, <2>3
<1>2. CASE ServerHears
  <2>1. /\ UNCHANGED <<answers, inbox>> /\ read' = read + 1 /\ read + 1 \in 1..Len(wire)
        /\ heard' = heard \cup ({wire[read + 1].frame} \ {0})
    <3>1. Len(wire) \in Nat
      BY Now, LenProperties
    <3>. QED
      BY <1>2, <3>1 DEF ServerHears
  <2>2. wire[read + 1] \in Message
    BY <2>1, Now, ElementOfSeq
  <2>3. heard' \in SUBSET Nat
    BY <2>1, <2>2 DEF Message
  <2>. QED
    BY <2>1, <2>3
<1>3. ASSUME NEW marker \in {"Fin", "Endpoint"},
             NEW after \in {<<>>, <<Event("Partial"), Event("Finished")>>}, Answer(marker, after),
             read' \in Nat
      PROVE  /\ Received' /\ InTurn(inbox') /\ answers' \in {answers, answers + 1}
             /\ Coming(inbox') \subseteq Coming(inbox) \cup {answers + 1}
             /\ answers' = answers => Coming(inbox') = Coming(inbox)
  <2>1. /\ inbox' \in Seq(Happening) /\ heard' = {} /\ answers' \in {answers, answers + 1}
        /\ Coming(inbox') \subseteq Coming(inbox) \cup {answers + 1}
        /\ answers' = answers => Coming(inbox') = Coming(inbox)
        /\ InTurn(inbox')
    BY <1>3, AnswerSaid
  <2>. QED
    BY <1>3, <2>1
<1>4. CASE ServerFinalizes \/ ServerSplits
  <2>1. read' \in Nat /\ (Answer("Fin", <<>>) \/ Answer("Endpoint", <<>>))
    BY <1>4 DEF ServerFinalizes, ServerSplits
  <2>. QED
    BY <1>3, <2>1
<1>5. CASE ServerFinishes
  <2>1. read' \in Nat
    BY <1>5 DEF ServerFinishes
  <2>2. CASE heard # {}
    BY <1>3, <1>5, <2>1, <2>2 DEF ServerFinishes
  <2>3. CASE heard = {}
    <3>. DEFINE last == <<Event("Partial"), Event("Finished")>>
    <3>1. inbox' = inbox \o last /\ UNCHANGED <<heard, answers>>
      BY <1>5, <2>3 DEF ServerFinishes
    <3>2. last \in Seq(Happening) /\ Len(last) = 2 /\ At(last, "Text") = {}
      BY AnswerMade
    <3>. HIDE DEF last
    <3>3. /\ answers \in Nat /\ Len(last) # 0 /\ inbox \in Seq(Happening)
          /\ At(last, "Text") = {} \/ (At(last, "Text") = {1} /\ last[1].answer = answers + 1)
      BY <3>2 DEF Received
    <3>4. inbox \o last \in Seq(Happening) /\ InTurn(inbox \o last)
      BY <3>2, <3>3, EventsSaid
    <3>5. Coming(inbox \o last) = Coming(inbox)
      BY <3>2, <3>3, EventsSaid
    <3>. QED
      BY <2>1, <3>1, <3>3, <3>4, <3>5
  <2>. QED
    BY <2>2, <2>3
<1>. QED
  BY <1>1, <1>2, <1>4, <1>5 DEF LinkStep

\* Every step: only answers and commits touch the words.
LEMMA SpelledStep ==
  ASSUME Placed, Spelled, [Next]_vars
  PROVE  Spelled'
<1>. DEFINE W == Words(typed, commit, transcript)
<1>1. /\ Pieces(typed, commit, transcript) /\ Below(W, Coming(inbox)) /\ InTurn(inbox)
      /\ \A a \in W \cup Coming(inbox) : a \in Nat /\ a <= answers
      /\ Received /\ read \in Nat /\ heard \in SUBSET Nat /\ answers \in Nat /\ inbox \in Seq(Happening)
  BY DEF Spelled, Ahead, Received
<1>2. ASSUME answers' = answers, read' \in Nat, heard' \in SUBSET Nat, inbox' \in Seq(Happening),
             Pieces(typed', commit', transcript'),
             Coming(inbox') \subseteq Coming(inbox), InTurn(inbox'),
             Words(typed', commit', transcript') \subseteq W
      PROVE  Spelled'
  <2>1. Ahead(Words(typed', commit', transcript'), inbox', answers')
    BY <1>1, <1>2 DEF Ahead, Below
  <2>. QED
    BY <1>1, <1>2, <2>1 DEF Spelled, Received
<1>3. CASE UNCHANGED vars
  BY <1>1, <1>2, <1>3 DEF vars, serverVars, textVars
<1>4. CASE SpeechStep \/ WarmupStep \/ IdleCloses \/ Recovers
  <2>1. UNCHANGED serverVars /\ UNCHANGED inbox /\ UNCHANGED textVars
    BY <1>4 DEF SpeechStep, Onset, SpeechDeferred, SpeechConnects, SpeechContinues, SpeechQueued,
                SpeechMissed, SpeechEnded, GateOpens, WarmupStep, WarmupStarts, WarmupEnds,
                IdleCloses, Recovers
  <2>. QED
    BY <1>1, <1>2, <2>1 DEF serverVars, textVars
<1>5. CASE LinkStep
  <2>1. UNCHANGED <<typed, commit, transcript>>
    BY <1>5 DEF LinkStep, LinkConnects, ServerHears, ServerFinalizes, ServerFinishes,
                ServerSplits, ServerPartial, ServerNotifies, LinkBreaks, OthersThanServer, textVars
  <2>2. /\ Received' /\ InTurn(inbox') /\ answers' \in {answers, answers + 1}
        /\ Coming(inbox') \subseteq Coming(inbox) \cup {answers + 1}
        /\ answers' = answers => Coming(inbox') = Coming(inbox)
    BY <1>1, <1>5, QueueGrows
  <2>. HIDE DEF W
  <2>3. Below(W, Coming(inbox'))
    BY <1>1, <2>2 DEF Below
  <2>4. \A a \in W \cup Coming(inbox') : a \in Nat /\ a <= answers'
    <3>1. CASE answers' = answers
      BY <1>1, <2>2, <3>1
    <3>2. CASE answers' = answers + 1
      BY <1>1, <2>2, <3>2
    <3>. QED
      BY <2>2, <3>1, <3>2
  <2>5. Pieces(typed', commit', transcript') /\ Words(typed', commit', transcript') = W
    BY <1>1, <2>1 DEF W
  <2>. QED
    BY <2>2, <2>3, <2>4, <2>5 DEF Spelled, Ahead
<1>6. ASSUME Cleanup, Pieces(typed', commit', transcript'),
             Words(typed', commit', transcript') \subseteq W
      PROVE  Spelled'
  <2>1. answers' = answers /\ read' = 0 /\ heard' = {} /\ inbox' = <<>>
    BY <1>6 DEF Cleanup
  <2>. QED
    BY <1>1, <1>2, <1>6, <2>1, QueueEmpty
<1>7. CASE FinishedArrives
  BY <1>1, <1>6, <1>7, WordsCommitted DEF FinishedArrives
<1>8. CASE LostArrives
  <2>1. Cleanup /\ transcript' = <<>> /\ UNCHANGED <<commit, typed>>
    BY <1>8 DEF LostArrives, TakeSegment
  <2>2. Pieces(typed, commit, <<>>) /\ Words(typed, commit, <<>>) \subseteq W
    BY <1>1, WordsTaken
  <2>. QED
    BY <1>6, <2>1, <2>2
<1>9. CASE SessionTimeout \/ Fails
  <2>1. Cleanup /\ UNCHANGED <<commit, typed, transcript>>
    BY <1>9 DEF SessionTimeout, Fails, textVars
  <2>. QED
    BY <1>1, <1>6, <2>1
<1>10. CASE \/ ConnectedArrives \/ TextArrives \/ PartialArrives \/ EndpointArrives
            \/ NoticeArrives \/ FinArrives
  <2>1. inbox # <<>> /\ inbox' = Tail(inbox) /\ UNCHANGED <<read, heard, answers>>
    BY <1>10 DEF ConnectedArrives, TextArrives, PartialArrives, EndpointArrives, NoticeArrives,
                 FinArrives, Takes, serverVars
  <2>2. /\ inbox' \in Seq(Happening) /\ Head(inbox) \in Happening
        /\ Coming(inbox') \subseteq Coming(inbox) /\ InTurn(inbox')
        /\ Head(inbox).what = "Text" =>
             Head(inbox).answer \in Coming(inbox) /\ Below({Head(inbox).answer}, Coming(inbox'))
    BY <1>1, <2>1, EventTaken
  <2>3. CASE ConnectedArrives \/ PartialArrives \/ NoticeArrives
    <3>1. UNCHANGED <<commit, typed, transcript>>
      BY <2>3 DEF ConnectedArrives, PartialArrives, NoticeArrives, textVars
    <3>. QED
      BY <1>1, <1>2, <2>1, <2>2, <3>1
  <2>4. CASE EndpointArrives \/ FinArrives
    <3>1. CommitSegment
      BY <2>4 DEF EndpointArrives, FinArrives
    <3>. QED
      BY <1>1, <1>2, <2>1, <2>2, <3>1, WordsCommitted
  <2>5. CASE TextArrives
    <3>1. UNCHANGED <<commit, typed>> /\ Head(inbox).what = "Text"
      BY <2>5 DEF TextArrives, Takes
    <3>2. CASE TooLate
      <4>1. UNCHANGED transcript
        BY <2>5, <3>2 DEF TextArrives
      <4>. QED
        BY <1>1, <1>2, <2>1, <2>2, <3>1, <4>1
    <3>3. CASE ~TooLate
      <4>. DEFINE x == [answer |-> Head(inbox).answer, from |-> Head(inbox).from]
      <4>1. transcript' = Append(transcript, x)
        BY <2>5, <3>3 DEF TextArrives
      <4>2. x \in Word /\ x.answer = Head(inbox).answer
        BY <2>2 DEF Happening, Word
      <4>. HIDE DEF x
      <4>3. Below(W, {x.answer}) /\ x.answer <= answers /\ x.answer \in Nat
        BY <1>1, <2>2, <3>1, <4>2 DEF Below
      <4>4. /\ Pieces(typed, commit, Append(transcript, x))
            /\ Words(typed, commit, Append(transcript, x)) = W \cup {x.answer}
        BY <1>1, <4>2, <4>3, WordAdded
      <4>. HIDE DEF W
      <4>5. Ahead(W \cup {x.answer}, inbox', answers')
        BY <1>1, <2>1, <2>2, <3>1, <4>2, <4>3 DEF Ahead, Below
      <4>. QED
        BY <1>1, <2>1, <2>2, <3>1, <4>1, <4>4, <4>5 DEF Spelled, Received
    <3>. QED
      BY <3>2, <3>3
  <2>. QED
    BY <1>10, <2>3, <2>4, <2>5
<1>. QED
  BY <1>3, <1>4, <1>5, <1>7, <1>8, <1>9, <1>10 DEF Next, DrainStep, TimerStep

\* At first nothing was said.
LEMMA SpelledInit ==
  ASSUME Init
  PROVE  Spelled
<1>1. /\ read = 0 /\ heard = {} /\ answers = 0 /\ inbox = <<>>
      /\ transcript = <<>> /\ commit = <<>> /\ typed = <<>>
  BY DEF Init
<1>2. Numbers(<<>>) = <<>> /\ <<>> \in Seq(Word) /\ Kept(<<>>) = {} /\ Rising(<<>>)
  BY NumbersEmpty, KeptEmpty
<1>3. <<>> \in Seq(Piece) /\ Len(<<>>) = 0 /\ Outs(<<>>) = {}
  <2>1. <<>> \in Seq(Piece) /\ Len(<<>>) = 0
    BY EmptySeq
  <2>. QED
    BY <2>1 DEF Outs
<1>4. Words(<<>>, <<>>, <<>>) = {}
  BY <1>2, <1>3 DEF Words
<1>5. Pieces(<<>>, <<>>, <<>>)
  BY <1>2, <1>3 DEF Pieces, Below
<1>6. Received
  BY <1>1, QueueEmpty DEF Received
<1>7. Ahead({}, <<>>, 0)
  BY QueueEmpty DEF Ahead, Below
<1>. QED
  BY <1>1, <1>4, <1>5, <1>6, <1>7 DEF Spelled

\* What was put out, what waits and what is in progress, as the property sees them.
LEMMA TextsOrdered ==
  ASSUME Pieces(typed, commit, transcript)
  PROVE  TextInOrder
<1>. DEFINE n == Len(typed)
<1>1. n \in Nat /\ \A i \in 1..n : typed[i].text \in Seq(Word)
  <2>1. typed \in Seq(Piece)
    BY DEF Pieces
  <2>2. n \in Nat /\ \A i \in 1..n : typed[i] \in Piece
    BY <2>1, LenProperties, ElementOfSeq
  <2>. QED
    BY <2>2 DEF Piece
<1>2. /\ \A i \in 1..n : Texts[i] = typed[i].text
      /\ Texts[n + 1] = commit /\ Texts[n + 2] = transcript
  BY <1>1 DEF Texts
<1>. HIDE DEF n
<1>3. \A i : i \in 1..(n + 2) <=> i \in 1..n \/ i = n + 1 \/ i = n + 2
  BY <1>1
<1>4. \A i \in 1..(n + 2) : Texts[i] \in Seq(Word) /\ Rising(Numbers(Texts[i]))
  BY <1>1, <1>2, <1>3 DEF Pieces, n
<1>5. ASSUME NEW i \in 1..(n + 2), NEW j \in 1..(n + 2), i < j
      PROVE  Below(Kept(Numbers(Texts[i])), Kept(Numbers(Texts[j])))
  <2>1. \A k \in 1..n : \A a \in Kept(Numbers(typed[k].text)) : a \in Outs(typed)
    BY DEF Outs, n
  <2>2. CASE i \in 1..n /\ j \in 1..n
    BY <1>2, <1>5, <2>2 DEF Pieces, n
  <2>3. CASE i \in 1..n /\ j \in {n + 1, n + 2}
    BY <1>2, <2>1, <2>3 DEF Pieces, Below
  <2>4. CASE i = n + 1 /\ j = n + 2
    BY <1>2, <2>4 DEF Pieces
  <2>. QED
    BY <1>1, <1>3, <1>5, <2>2, <2>3, <2>4
<1>6. ASSUME NEW i \in 1..(n + 2), NEW k \in 1..Len(Texts[i])
      PROVE  /\ k \in 1..Len(Numbers(Texts[i])) /\ Numbers(Texts[i])[k] = Texts[i][k].answer
             /\ Texts[i][k].answer \in Kept(Numbers(Texts[i]))
  <2>1. /\ Len(Numbers(Texts[i])) = Len(Texts[i])
        /\ Numbers(Texts[i])[k] = Texts[i][k].answer
    BY <1>4, <1>6, NumbersSeq
  <2>. QED
    BY <2>1 DEF Kept
<1>7. SUFFICES ASSUME NEW i \in 1..(n + 2), NEW j \in 1..(n + 2),
                      NEW k \in 1..Len(Texts[i]), NEW l \in 1..Len(Texts[j]),
                      i < j \/ (i = j /\ k < l)
               PROVE  Texts[i][k].answer < Texts[j][l].answer
  BY DEF TextInOrder, n
<1>8. CASE i < j
  <2>1. /\ Texts[i][k].answer \in Kept(Numbers(Texts[i]))
        /\ Texts[j][l].answer \in Kept(Numbers(Texts[j]))
    BY <1>6
  <2>2. Below(Kept(Numbers(Texts[i])), Kept(Numbers(Texts[j])))
    BY <1>5, <1>8
  <2>. QED
    BY <2>1, <2>2 DEF Below
<1>9. CASE i = j /\ k < l
  BY <1>4, <1>6, <1>9 DEF Rising
<1>. QED
  BY <1>7, <1>8, <1>9

\* Text is put out in the order of the answers, and no answer twice.
THEOREM TextInOrderHolds == Spec => []TextInOrder
<1>1. Init => Placed /\ Spelled
  BY PlacedInit, SpelledInit
<1>2. Placed /\ Spelled /\ [Next]_vars => (Placed /\ Spelled)'
  BY PlacedStep, SpelledStep
<1>3. Spelled => TextInOrder
  BY TextsOrdered DEF Spelled
<1>. QED
  BY <1>1, <1>2, <1>3, PTL DEF Spec

--------------------------------------------------------------------------------
(***************************************************************************)
(* Waiting.  An answer is owed while the server has audio or a finalize to *)
(* answer, or an answer is on its way.  Commands that the server has not   *)
(* taken yet stay where they are, for what is said only grows.             *)
(***************************************************************************)
Grows(w, v) == Len(w) <= Len(v) /\ \A i \in 1..Len(w) : v[i] = w[i]
Unread(w, r, c) == \E i \in At(w, c) : r < i
Owed ==
  \/ heard # {} \/ Unread(wire, read, "Audio") \/ Unread(wire, read, "Finalize")
  \/ At(inbox, "Endpoint") # {} \/ At(inbox, "Fin") # {}

Waiters ==
  /\ awaiting \in BOOLEAN /\ wait \in BOOLEAN /\ byText \in BOOLEAN
  /\ read <= Len(wire)
  /\ wait = TRUE => mode = "server"
  /\ deferred # NotDeferred => deferred.audio # <<>>
\* Nothing is left of a session that is over.
NoneWaits ==
  session \in {"Listening", "Failed"} =>
    /\ awaiting = FALSE /\ wait = FALSE /\ read = 0 /\ heard = {} /\ inbox = <<>>
    /\ link = "none"
\* What comes with every text and partial, and with every finalize; a server that ends
\* the turns itself is sent none.
AnswersComing ==
  session \in {"Connecting", "Streaming"} =>
    /\ At(wire, "Stop") = {}
    /\ awaiting = TRUE => Unread(wire, read, "Finalize") \/ At(inbox, "Fin") # {}
    /\ mode = "server" => At(wire, "Finalize") = {} /\ At(inbox, "Fin") = {}
    /\ heard # {} \/ Tailing(inbox)
\* Until the server has closed the segment and the audio is paused, it owes an answer.
Shut == byEndpoint \/ leftOver
SpeechOwed ==
  mode = "server" =>
    /\ session = "Connecting" => pending # <<>>
    /\ session = "Streaming" /\ ~(paused = TRUE /\ Shut) => Owed
Waits == Waiters /\ NoneWaits /\ AnswersComing /\ SpeechOwed

\* A command that is added has not been taken yet.
LEMMA CommandUnread ==
  ASSUME NEW w \in Seq(Message), NEW r \in Nat, r <= Len(w), NEW c \in {"Start", "Finalize", "Stop"}
  PROVE  Grows(w, Append(w, Command(c))) /\ Unread(Append(w, Command(c)), r, c)
<1> DEFINE v == Append(w, Command(c))
<1>1. Command(c) \in Message
  BY DEF Command, Message
<1>2. /\ Len(v) = Len(w) + 1 /\ Len(w) \in Nat /\ v[Len(w) + 1] = Command(c)
      /\ \A i \in 1..Len(w) : v[i] = w[i]
  BY <1>1, AppendProperties, LenProperties
<1>3. Command(c).what = c
  BY DEF Command
<1> HIDE DEF v
<1>4. Len(w) + 1 \in At(v, c) /\ r < Len(w) + 1 /\ Len(w) <= Len(v)
  BY <1>2, <1>3 DEF At
<1>5. Grows(w, v)
  BY <1>2, <1>4 DEF Grows
<1>6. Unread(v, r, c)
  BY <1>4 DEF Unread
<1>. QED
  BY <1>5, <1>6 DEF v

\* Audio that is added has not been taken yet.
LEMMA AudioUnread ==
  ASSUME NEW w \in Seq(Message), NEW r \in Nat, r <= Len(w), NEW s \in Seq(Nat)
  PROVE  /\ Grows(w, w \o AudioOf(s))
         /\ s # <<>> => Unread(w \o AudioOf(s), r, "Audio")
<1> DEFINE a == AudioOf(s)
           v == w \o a
<1>1. /\ Len(s) \in Nat /\ (s # <<>> => Len(s) # 0) /\ \A i \in 1..Len(s) : s[i] \in Nat
  BY LenProperties, ElementOfSeq, EmptySeq
<1>2. /\ a \in Seq(Message) /\ Len(a) = Len(s)
      /\ \A i \in 1..Len(s) : a[i] = Audio(s[i])
  BY <1>1 DEF AudioOf, Audio, Message
<1> HIDE DEF a
<1>3. /\ Len(v) = Len(w) + Len(a) /\ Len(w) \in Nat
      /\ \A i \in 1..(Len(w) + Len(a)) : v[i] = IF i <= Len(w) THEN w[i] ELSE a[i - Len(w)]
  BY <1>2, ConcatProperties, LenProperties
<1> HIDE DEF v
<1>4. Grows(w, v)
  BY <1>1, <1>2, <1>3 DEF Grows
<1>5. ASSUME s # <<>> PROVE Unread(v, r, "Audio")
  <2>1. Len(w) + 1 \in 1..Len(v) /\ Len(w) + 1 \in 1..(Len(w) + Len(a)) /\ Len(w) + 1 - Len(w) = 1 /\ 1 \in 1..Len(s)
    BY <1>1, <1>2, <1>3, <1>5
  <2>2. v[Len(w) + 1] = Audio(s[1])
    <3>1. ~(Len(w) + 1 <= Len(w))
      BY <1>3
    <3>2. v[Len(w) + 1] = a[1]
      BY <1>3, <2>1, <3>1
    <3>. QED
      BY <1>2, <2>1, <3>2
  <2>3. Len(w) + 1 \in At(v, "Audio") /\ r < Len(w) + 1
    BY <1>3, <2>1, <2>2 DEF At, Audio
  <2>. QED
    BY <2>3 DEF Unread
<1>. QED
  BY <1>4, <1>5 DEF v, a

\* What has not been taken stays where it is when more is said.
LEMMA UnreadStays ==
  ASSUME NEW w \in Seq(Message), NEW v \in Seq(Message), NEW r, Grows(w, v)
  PROVE  /\ \A c : Unread(w, r, c) => Unread(v, r, c)
         /\ \A x \in Seq(Message) : Grows(v, x) => Grows(w, x)
         /\ r \in Nat /\ r <= Len(w) => r <= Len(v)
<1>1. Len(w) \in Nat /\ Len(v) \in Nat /\ Len(w) <= Len(v) /\ \A i \in 1..Len(w) : v[i] = w[i]
  BY LenProperties DEF Grows
<1>2. \A c : At(w, c) \subseteq At(v, c)
  BY <1>1 DEF At
<1>3. \A c : Unread(w, r, c) => Unread(v, r, c)
  BY <1>2 DEF Unread
<1>4. ASSUME NEW x \in Seq(Message), Grows(v, x) PROVE Grows(w, x)
  <2>1. Len(x) \in Nat /\ Len(v) <= Len(x) /\ \A i \in 1..Len(v) : x[i] = v[i]
    BY <1>4, LenProperties DEF Grows
  <2>. QED
    BY <1>1, <2>1 DEF Grows
<1>5. r \in Nat /\ r <= Len(w) => r <= Len(v)
  BY <1>1
<1>. QED
  BY <1>3, <1>4, <1>5

\* A step that only adds to what is said, and hears nothing, keeps what is owed.
LEMMA WaitsKept ==
  ASSUME Placed, Received, Waits, UNCHANGED <<mode, session, link>>,
         UNCHANGED <<read, heard, inbox>>,
         wire' \in Seq(Message), Grows(wire, wire'),
         byText' \in BOOLEAN, awaiting' \in BOOLEAN, wait' \in BOOLEAN,
         deferred' # NotDeferred => deferred'.audio # <<>>,
         awaiting' = TRUE => awaiting = TRUE \/
           (session \in {"Connecting", "Streaming"} /\ Unread(wire', read, "Finalize")),
         wait' = TRUE => wait = TRUE \/ (mode = "server" /\ session = "Streaming"),
         session \in {"Connecting", "Streaming"} => At(wire', "Stop") = At(wire, "Stop"),
         mode = "server" => At(wire', "Finalize") = At(wire, "Finalize"),
         mode = "server" /\ session = "Connecting" /\ pending # <<>> => pending' # <<>>,
         mode = "server" /\ session = "Streaming" /\ paused' = TRUE /\ Shut' =>
           paused = TRUE /\ Shut,
         mode = "server" /\ session = "Streaming" /\ paused = TRUE /\ Shut =>
           (paused' = TRUE /\ Shut') \/ Unread(wire', read, "Audio")
  PROVE  Waits'
<1>1. wire \in Seq(Message) /\ read \in Nat /\ read <= Len(wire)
  BY DEF Placed, Buffers, Received, Waits, Waiters
<1>2. /\ \A c : Unread(wire, read, c) => Unread(wire', read, c)
      /\ read <= Len(wire')
  BY <1>1, UnreadStays
<1>3. Waiters'
  BY <1>2 DEF Waits, Waiters
<1>4. NoneWaits'
  BY DEF Waits, Waiters, NoneWaits
<1>5. AnswersComing'
  <2>. SUFFICES ASSUME session \in {"Connecting", "Streaming"} PROVE AnswersComing'
    BY DEF AnswersComing
  <2>1. /\ At(wire, "Stop") = {}
        /\ awaiting = TRUE => Unread(wire, read, "Finalize") \/ At(inbox, "Fin") # {}
        /\ mode = "server" => At(wire, "Finalize") = {} /\ At(inbox, "Fin") = {}
        /\ heard # {} \/ Tailing(inbox)
    BY DEF Waits, AnswersComing
  <2>2. awaiting' = TRUE => Unread(wire', read, "Finalize") \/ At(inbox, "Fin") # {}
    BY <1>2, <2>1
  <2>. QED
    BY <2>1, <2>2 DEF AnswersComing
<1>6. SpeechOwed'
  <2>. SUFFICES ASSUME mode = "server" PROVE SpeechOwed'
    BY DEF SpeechOwed
  <2>1. session = "Connecting" => pending' # <<>>
    BY DEF Waits, SpeechOwed
  <2>2. Owed => Owed'
    BY <1>2 DEF Owed
  <2>3. ASSUME session = "Streaming", ~(paused' = TRUE /\ Shut') PROVE Owed'
    <3>1. CASE Unread(wire', read, "Audio")
      BY <3>1 DEF Owed
    <3>2. CASE ~Unread(wire', read, "Audio")
      BY <2>2, <2>3, <3>2 DEF Waits, SpeechOwed
    <3>. QED
      BY <3>1, <3>2
  <2>. QED
    BY <2>1, <2>3 DEF SpeechOwed
<1>. QED
  BY <1>3, <1>4, <1>5, <1>6 DEF Waits

\* A session that is over is owed nothing.
LEMMA WaitsCleaned ==
  ASSUME Waits, Cleanup, mode' = mode, session' \in {"Listening", "Failed"}
  PROVE  Waits'
<1>1. /\ read' = 0 /\ heard' = {} /\ inbox' = <<>> /\ link' = "none" /\ wire' = <<>>
      /\ awaiting' = FALSE /\ wait' = FALSE /\ byText' = FALSE /\ ~Shut'
      /\ deferred' = deferred
  BY DEF Shut, Cleanup
<1>2. Len(<<>>) = 0
  OBVIOUS
<1>3. Waiters'
  <2>1. read' <= Len(wire')
    BY <1>1, <1>2
  <2>2. deferred' # NotDeferred => deferred'.audio # <<>>
    BY <1>1 DEF Waits, Waiters
  <2>3. awaiting' \in BOOLEAN /\ wait' \in BOOLEAN /\ byText' \in BOOLEAN
    BY <1>1
  <2>. QED
    BY <1>1, <2>1, <2>2, <2>3 DEF Waiters
<1>4. NoneWaits'
  BY <1>1 DEF NoneWaits
<1>5. AnswersComing' /\ SpeechOwed'
  BY DEF AnswersComing, SpeechOwed
<1>. QED
  BY <1>3, <1>4, <1>5 DEF Waits

\* A session that begins has the speech to send that it begins with.
LEMMA WaitsStarted ==
  ASSUME Waits, session = "Listening", NEW a \in Seq(Nat), StartAsr(a), a # <<>>,
         UNCHANGED <<mode, awaiting, wait, byText, Shut>>, UNCHANGED <<read, heard, inbox>>,
         deferred' # NotDeferred => deferred'.audio # <<>>
  PROVE  Waits'
<1>1. /\ awaiting = FALSE /\ wait = FALSE /\ read = 0 /\ heard = {} /\ inbox = <<>>
  BY DEF Waits, NoneWaits
<1>2. /\ session' = "Connecting" /\ wire' = <<Command("Start")>> /\ pending' = a
  BY DEF StartAsr
<1>3. /\ Len(wire') = 1 /\ wire'[1].what = "Start"
  BY <1>2 DEF Command
<1>4. At(wire', "Stop") = {} /\ At(wire', "Finalize") = {}
  BY <1>3 DEF At
<1>5. Waiters'
  BY <1>1, <1>3 DEF Waits, Waiters
<1>6. NoneWaits' /\ SpeechOwed'
  BY <1>2 DEF NoneWaits, SpeechOwed
<1>7. \A c : At(inbox', c) = {}
  BY <1>1, QueueEmpty
<1>8. AnswersComing'
  BY <1>1, <1>4, <1>7 DEF AnswersComing, Tailing
<1>. QED
  BY <1>5, <1>6, <1>8 DEF Waits

\* What ends a turn: either the client finalizes it, or an answer of the server is waited for.
LEMMA WaitsFinish ==
  ASSUME Placed, Waits, NEW state, NEW before, NEW queued \in Seq(Nat), NEW sent \in Seq(Message),
         FinishSpeech(state, before, queued, sent)
  PROVE  \/ /\ mode # "server" /\ state \in {"Connecting", "Streaming"}
            /\ wire' = Append(sent \o AudioOf(queued), Command("Finalize"))
            /\ awaiting' = TRUE /\ wait' = wait
         \/ /\ wire' = sent /\ pending' = queued /\ paused' = paused /\ awaiting' = awaiting
            /\ wait' \in BOOLEAN
            /\ wait' = TRUE => wait = TRUE \/ (mode = "server" /\ state = "Streaming")
<1>1. TurnEnded(queued, sent) = Append(sent \o AudioOf(queued), Command("Finalize"))
  <2>1. sent \o AudioOf(queued) \in Seq(Message)
    BY AudioSaid
  <2>2. Command("Finalize") \in Message
    BY DEF Command, Message
  <2>. QED
    BY <2>1, <2>2, AppendIsConcat DEF TurnEnded
<1>2. wait \in BOOLEAN
  BY DEF Waits, Waiters
<1>3. CASE mode # "server" /\ state \in {"Connecting", "Streaming"} /\ ~finalized
  BY <1>1, <1>3 DEF FinishSpeech
<1>4. CASE ~(mode # "server" /\ state \in {"Connecting", "Streaming"} /\ ~finalized)
  <2>1. /\ wire' = sent /\ pending' = queued /\ paused' = paused /\ awaiting' = awaiting
        /\ wait' = (wait \/ (mode = "server" /\ state = "Streaming" /\ ~byEndpoint))
    BY <1>4 DEF FinishSpeech
  <2>2. wait' \in BOOLEAN
    BY <2>1
  <2>3. wait' = TRUE => wait = TRUE \/ (mode = "server" /\ state = "Streaming")
    BY <1>2, <2>1
  <2>. QED
    BY <2>1, <2>2, <2>3
<1>. QED
  BY <1>3, <1>4

\* What a frame that is handled adds to what is said.
LEMMA WaitsFrame ==
  ASSUME Placed, Waits
  PROVE  LET f == frames + 1
             w == WireWith(f)
             p == PendingWith(f)
             h == HeldWith(f)
         IN  /\ w \in Seq(Message) /\ p \in Seq(Nat) /\ Grows(wire, w)
             /\ At(w, "Stop") = At(wire, "Stop") /\ At(w, "Finalize") = At(wire, "Finalize")
             /\ pending # <<>> => p # <<>>
             /\ h # NotDeferred => h.audio # <<>>
<1> DEFINE f == frames + 1
<1>1. /\ wire \in Seq(Message) /\ pending \in Seq(Nat) /\ f \in Nat /\ deferred.audio \in Seq(Nat)
      /\ MaxPending \in Nat \ {0}
  BY Now
<1> HIDE DEF f
<1>2. WireWith(f) \in Seq(Message) /\ PendingWith(f) \in Seq(Nat)
  BY FrameHandled DEF f
<1>3. /\ Grows(wire, wire) /\ Len(wire) \in Nat
  BY <1>1, LenProperties DEF Grows
<1>4. <<f>> \in Seq(Nat) /\ Append(wire, Audio(f)) = wire \o AudioOf(<<f>>)
  BY <1>1, FrameSaid
<1>5. Grows(wire, wire \o AudioOf(<<f>>))
  <2>1. 0 \in Nat /\ 0 <= Len(wire)
    BY <1>3
  <2>. QED
    BY <1>1, <1>4, <2>1, AudioUnread
<1>6. /\ At(wire \o AudioOf(<<f>>), "Stop") = At(wire, "Stop")
      /\ At(wire \o AudioOf(<<f>>), "Finalize") = At(wire, "Finalize")
  BY <1>1, <1>4, AudioSaid
<1>7. /\ Grows(wire, WireWith(f)) /\ At(WireWith(f), "Stop") = At(wire, "Stop")
      /\ At(WireWith(f), "Finalize") = At(wire, "Finalize")
  BY <1>3, <1>4, <1>5, <1>6 DEF WireWith
<1>8. Append(pending, f) \in Seq(Nat) /\ Append(pending, f) # <<>>
  BY <1>1, KeptAppend
<1>9. Latest(MaxPending, Append(pending, f)) # <<>>
  BY <1>1, <1>8, LatestKept
<1>10. pending # <<>> => PendingWith(f) # <<>>
  BY <1>9 DEF PendingWith
<1>11. Append(deferred.audio, f) # <<>>
  BY <1>1, KeptAppend
<1>12. HeldWith(f) # NotDeferred => HeldWith(f).audio # <<>>
  <2>1. CASE Deferring
    <3>1. HeldWith(f).audio = Append(deferred.audio, f)
      <4>1. deferred = [audio |-> deferred.audio, ended |-> deferred.ended]
        BY DEF Placed, Buffers
      <4>2. HeldWith(f) = [deferred EXCEPT !.audio = Append(@, f)]
        BY <2>1 DEF HeldWith
      <4>. QED
        BY <4>1, <4>2
    <3>. QED
      BY <1>11, <3>1
  <2>2. CASE ~Deferring
    BY <2>2 DEF HeldWith, Deferring
  <2>. QED
    BY <2>1, <2>2
<1>. QED
  BY <1>2, <1>7, <1>10, <1>12 DEF f

\* A frame of speech, a turn that begins and a turn that ends.
LEMMA OnsetWaits ==
  ASSUME Placed, Received, Waits, Onset, mode' = mode
  PROVE  Waits'
<1>1. /\ UNCHANGED <<mode, session, link>> /\ UNCHANGED <<read, heard, inbox>>
      /\ awaiting' = awaiting /\ paused' = paused
      /\ wait' = wait /\ byText' = byText /\ Shut' = Shut
      /\ deferred' = HeldWith(frames + 1) /\ wire' = WireWith(frames + 1)
      /\ pending' = PendingWith(frames + 1)
  BY DEF Shut, Onset, turnVars, waitVars, serverVars
<1>2. /\ wire' \in Seq(Message) /\ Grows(wire, wire')
      /\ At(wire', "Stop") = At(wire, "Stop") /\ At(wire', "Finalize") = At(wire, "Finalize")
      /\ pending # <<>> => pending' # <<>>
      /\ deferred' # NotDeferred => deferred'.audio # <<>>
  BY <1>1, WaitsFrame
<1>3. awaiting' \in BOOLEAN /\ wait' \in BOOLEAN /\ byText' \in BOOLEAN
  BY <1>1 DEF Waits, Waiters
<1>. QED
  BY <1>1, <1>2, <1>3, WaitsKept

\* The gate opens: a wait is owed what it was owed, or by the speech that begins.
LEMMA OpensWaits ==
  ASSUME Placed, Received, Waits, mode' = mode,
         SpeechDeferred \/ SpeechConnects \/ SpeechContinues \/ SpeechQueued \/ SpeechMissed
  PROVE  Waits'
<1> DEFINE f == frames + 1
<1>1. /\ awaiting' = awaiting /\ wait' = wait /\ byText' = byText /\ Shut' = Shut
      /\ UNCHANGED <<read, heard, inbox>> /\ frames' = f /\ UNCHANGED mode
  BY DEF Shut, SpeechDeferred, SpeechConnects, SpeechContinues, SpeechQueued, SpeechMissed, GateOpens,
         waitVars, serverVars
<1>2. /\ wire \in Seq(Message) /\ pending \in Seq(Nat) /\ preroll \in Seq(Nat) /\ f \in Nat
      /\ deferred.audio \in Seq(Nat) /\ MaxPending \in Nat \ {0}
  BY Now
<1> HIDE DEF f
<1>3. /\ awaiting' \in BOOLEAN /\ wait' \in BOOLEAN /\ byText' \in BOOLEAN
      /\ read \in Nat /\ read <= Len(wire) /\ paused \in BOOLEAN /\ finalized \in BOOLEAN
      /\ deferred # NotDeferred => deferred.audio # <<>>
  BY <1>1 DEF Waits, Waiters, Received, Placed, Flags
<1>4. /\ Grows(wire, wire) /\ Len(wire) \in Nat
  BY <1>2, LenProperties DEF Grows
<1>5. Append(preroll, f) \in Seq(Nat) /\ Append(preroll, f) # <<>>
  BY <1>2, KeptAppend
<1>6. CASE SpeechDeferred
  <2>1. /\ UNCHANGED <<session, link>> /\ wire' = wire /\ pending' = pending /\ paused' = paused
        /\ deferred' = [audio |-> Append((IF deferred.audio = <<>> THEN preroll ELSE deferred.audio), f),
                        ended |-> FALSE]
    BY <1>1, <1>6 DEF SpeechDeferred
  <2>2. deferred'.audio # <<>>
    <3>1. Append(deferred.audio, f) # <<>>
      BY <1>2, KeptAppend
    <3>. QED
      BY <1>5, <2>1, <3>1
  <2>. QED
    BY <1>1, <1>2, <1>3, <1>4, <2>1, <2>2, WaitsKept
<1>7. CASE SpeechConnects
  <2>1. /\ session = "Listening" /\ deferred' = deferred
        /\ StartAsr(Latest(MaxPending, Append(preroll, f)))
    BY <1>1, <1>7 DEF SpeechConnects
  <2>2. /\ Latest(MaxPending, Append(preroll, f)) \in Seq(Nat)
        /\ Latest(MaxPending, Append(preroll, f)) # <<>>
    BY <1>2, <1>5, LatestKept
  <2>. QED
    BY <1>1, <1>3, <2>1, <2>2, WaitsStarted
<1>8. CASE SpeechContinues
  <2> DEFINE v == Append(wire, Command("Start"))
             x == v \o AudioOf(ResumedWith)
  <2>1. /\ UNCHANGED <<session, link>> /\ session = "Streaming" /\ deferred' = deferred
        /\ pending' = pending /\ paused' = FALSE /\ wire' = x \o <<Audio(f)>>
    BY <1>1, <1>8 DEF SpeechContinues, Announced
  <2>2. /\ v \in Seq(Message) /\ Grows(wire, v)
        /\ At(v, "Stop") = At(wire, "Stop") /\ At(v, "Finalize") = At(wire, "Finalize")
    BY <1>2, <1>3, CommandSaid, CommandUnread
  <2>3. ResumedWith \in Seq(Nat)
    BY <1>2, EmptySeq DEF ResumedWith
  <2> HIDE DEF v
  <2>4. read <= Len(v)
    BY <1>2, <1>3, <2>2, UnreadStays
  <2>5. /\ x \in Seq(Message) /\ Grows(v, x)
        /\ At(x, "Stop") = At(v, "Stop") /\ At(x, "Finalize") = At(v, "Finalize")
    BY <1>3, <2>2, <2>3, <2>4, AudioSaid, AudioUnread
  <2> HIDE DEF x
  <2>6. read <= Len(x)
    BY <1>3, <2>2, <2>4, <2>5, UnreadStays
  <2>7. wire' = x \o AudioOf(<<f>>) /\ <<f>> \in Seq(Nat) /\ <<f>> # <<>>
    BY <1>2, <2>1, <2>5, FrameSaid
  <2>8. /\ wire' \in Seq(Message) /\ Grows(x, wire') /\ Unread(wire', read, "Audio")
        /\ At(wire', "Stop") = At(x, "Stop") /\ At(wire', "Finalize") = At(x, "Finalize")
    BY <1>3, <2>5, <2>6, <2>7, AudioSaid, AudioUnread
  <2>9. Grows(wire, wire')
    <3>1. Grows(wire, x)
      BY <1>2, <2>2, <2>5, UnreadStays
    <3>. QED
      BY <1>2, <2>5, <2>8, <3>1, UnreadStays
  <2>. QED
    BY <1>1, <1>3, <2>1, <2>2, <2>5, <2>8, <2>9, WaitsKept
<1>9. CASE SpeechQueued
  <2>1. UNCHANGED <<session, link>> /\ session = "Connecting" /\ deferred' = deferred
    BY <1>9 DEF SpeechQueued
  <2>2. /\ pending' # <<>> /\ wire' \in {wire, Append(wire, Command("Start"))}
    <3>1. /\ pending \o Append(preroll, f) \in Seq(Nat) /\ Append(pending, f) \in Seq(Nat)
          /\ Append(pending, f) # <<>>
      BY <1>2, <1>5, KeptAppend, KeptConcat
    <3>2. pending \o Append(preroll, f) # <<>>
      <4>1. Kept(Append(preroll, f)) = Kept(preroll) \cup {f}
        BY <1>2, KeptAppend
      <4>2. Kept(pending \o Append(preroll, f)) = Kept(pending) \cup Kept(Append(preroll, f))
        BY <1>2, <1>5, KeptConcat
      <4>. QED
        BY <4>1, <4>2, KeptEmpty
    <3>3. /\ Latest(MaxPending, pending \o Append(preroll, f)) # <<>>
          /\ Latest(MaxPending, Append(pending, f)) # <<>>
      BY <1>2, <3>1, <3>2, LatestKept
    <3>. QED
      BY <1>1, <1>9, <3>3 DEF SpeechQueued, Announced
  <2>3. /\ wire' \in Seq(Message) /\ Grows(wire, wire')
        /\ At(wire', "Stop") = At(wire, "Stop") /\ At(wire', "Finalize") = At(wire, "Finalize")
    <3>1. /\ Append(wire, Command("Start")) \in Seq(Message)
          /\ Grows(wire, Append(wire, Command("Start")))
          /\ At(Append(wire, Command("Start")), "Stop") = At(wire, "Stop")
          /\ At(Append(wire, Command("Start")), "Finalize") = At(wire, "Finalize")
      BY <1>2, <1>3, CommandSaid, CommandUnread
    <3>2. CASE wire' = wire
      BY <1>2, <1>4, <3>2
    <3>3. CASE wire' = Append(wire, Command("Start"))
      BY <3>1, <3>3
    <3>. QED
      BY <2>2, <3>2, <3>3
  <2>. QED
    BY <1>1, <1>3, <2>1, <2>2, <2>3, WaitsKept
<1>10. CASE SpeechMissed
  <2>1. /\ UNCHANGED <<session, link>> /\ wire' = wire /\ pending' = pending /\ paused' = paused
        /\ deferred' = deferred
    BY <1>10 DEF SpeechMissed
  <2>. QED
    BY <1>1, <1>2, <1>3, <1>4, <2>1, WaitsKept
<1>. QED
  BY <1>6, <1>7, <1>8, <1>9, <1>10

\* The gate closes: the wait that begins is for this speech, or for its finalize.
LEMMA EndWaits ==
  ASSUME Placed, Received, Waits, SpeechEnded, mode' = mode
  PROVE  Waits'
<1> DEFINE f == frames + 1
           w == WireWith(f)
           p == PendingWith(f)
<1>1. /\ UNCHANGED <<mode, session, link>> /\ UNCHANGED <<read, heard, inbox>>
      /\ byText' = byText /\ Shut' = Shut
  BY DEF Shut, SpeechEnded, serverVars
<1>2. /\ wire \in Seq(Message) /\ pending \in Seq(Nat) /\ f \in Nat /\ deferred.audio \in Seq(Nat)
  BY Now
<1>3. /\ awaiting \in BOOLEAN /\ wait \in BOOLEAN /\ byText' \in BOOLEAN
      /\ read \in Nat /\ read <= Len(wire)
      /\ deferred # NotDeferred => deferred.audio # <<>>
  BY <1>1 DEF Waits, Waiters, Received
<1>4. CASE Deferring
  <2>1. /\ deferred' = [audio |-> Append(deferred.audio, f), ended |-> TRUE]
        /\ wire' = wire /\ pending' = pending /\ awaiting' = awaiting /\ paused' = paused
        /\ wait' = wait
    BY <1>4 DEF SpeechEnded
  <2>2. Append(deferred.audio, f) # <<>>
    BY <1>2, KeptAppend
  <2>3. deferred'.audio # <<>>
    BY <2>1, <2>2
  <2>4. Grows(wire, wire)
    BY <1>2, LenProperties DEF Grows
  <2>. QED
    BY <1>1, <1>2, <1>3, <2>1, <2>3, <2>4, WaitsKept
<1>5. CASE ~Deferring
  <2>1. FinishSpeech(session, PrerollWith(f), p, w) /\ deferred' = deferred
    BY <1>5 DEF SpeechEnded
  <2>2. /\ w \in Seq(Message) /\ p \in Seq(Nat) /\ Grows(wire, w)
        /\ At(w, "Stop") = At(wire, "Stop") /\ At(w, "Finalize") = At(wire, "Finalize")
        /\ pending # <<>> => p # <<>>
    BY WaitsFrame
  <2> HIDE DEF f, w, p
  <2>3. \/ /\ mode # "server" /\ session \in {"Connecting", "Streaming"}
           /\ wire' = Append(w \o AudioOf(p), Command("Finalize"))
           /\ awaiting' = TRUE /\ wait' = wait
        \/ /\ wire' = w /\ pending' = p /\ paused' = paused /\ awaiting' = awaiting
           /\ wait' \in BOOLEAN
           /\ wait' = TRUE => wait = TRUE \/ (mode = "server" /\ session = "Streaming")
    BY <2>1, <2>2, WaitsFinish
  <2>4. CASE /\ wire' = w /\ pending' = p /\ paused' = paused /\ awaiting' = awaiting
             /\ wait' \in BOOLEAN
             /\ wait' = TRUE => wait = TRUE \/ (mode = "server" /\ session = "Streaming")
    BY <1>1, <1>3, <2>1, <2>2, <2>4, WaitsKept
  <2>5. CASE /\ mode # "server" /\ session \in {"Connecting", "Streaming"}
             /\ wire' = Append(w \o AudioOf(p), Command("Finalize"))
             /\ awaiting' = TRUE /\ wait' = wait
    <3>1. read <= Len(w)
      BY <1>2, <1>3, <2>2, UnreadStays
    <3>2. /\ w \o AudioOf(p) \in Seq(Message) /\ Grows(w, w \o AudioOf(p))
          /\ At(w \o AudioOf(p), "Stop") = At(w, "Stop")
      BY <1>3, <2>2, <3>1, AudioSaid, AudioUnread
    <3>3. read <= Len(w \o AudioOf(p))
      BY <1>3, <2>2, <3>1, <3>2, UnreadStays
    <3>4. /\ wire' \in Seq(Message) /\ Grows(w \o AudioOf(p), wire')
          /\ Unread(wire', read, "Finalize") /\ At(wire', "Stop") = At(w \o AudioOf(p), "Stop")
      BY <1>3, <2>5, <3>2, <3>3, CommandSaid, CommandUnread
    <3>5. Grows(wire, wire')
      <4>1. Grows(wire, w \o AudioOf(p))
        BY <1>2, <2>2, <3>2, UnreadStays
      <4>. QED
        BY <1>2, <3>2, <3>4, <4>1, UnreadStays
    <3>6. awaiting' \in BOOLEAN /\ wait' \in BOOLEAN
      BY <1>3, <2>5
    <3>. QED
      BY <1>1, <1>3, <2>1, <2>2, <2>5, <3>2, <3>4, <3>5, <3>6, WaitsKept
  <2>. QED
    BY <2>3, <2>4, <2>5
<1>. QED
  BY <1>4, <1>5

\* What the warm-up resumes, the server takes and answers, and the timers end.
LEMMA WarmupWaits ==
  ASSUME Placed, Received, Waits, WarmupStep, mode' = mode
  PROVE  Waits'
<1>1. /\ awaiting' = awaiting /\ wait' = wait /\ byText' = byText /\ Shut' = Shut
      /\ UNCHANGED <<read, heard, inbox>>
  BY DEF Shut, WarmupStep, WarmupStarts, WarmupEnds, turnVars, waitVars, serverVars
<1>2. /\ awaiting' \in BOOLEAN /\ wait' \in BOOLEAN /\ byText' \in BOOLEAN
      /\ deferred # NotDeferred => deferred.audio # <<>>
  BY <1>1 DEF Waits, Waiters
<1>3. wire \in Seq(Message) /\ Grows(wire, wire) /\ deferred.audio \in Seq(Nat)
  BY LenProperties, Now DEF Grows
<1>4. CASE UNCHANGED <<session, link, wire, pending, paused>> /\ deferred' \in {deferred, NotDeferred}
  <2>1. deferred' # NotDeferred => deferred'.audio # <<>>
    BY <1>2, <1>4
  <2>. QED
    BY <1>1, <1>2, <1>3, <1>4, <2>1, WaitsKept
<1>5. CASE Deferring /\ session = "Listening" /\ StartAsr(deferred.audio) /\ deferred' = NotDeferred
  <2>1. deferred.audio # <<>>
    BY <1>2, <1>5 DEF Deferring
  <2>. QED
    BY <1>1, <1>3, <1>5, <2>1, WaitsStarted
<1>6. CASE WarmupStarts
  BY <1>4, <1>6 DEF WarmupStarts, audioVars, turnVars
<1>7. CASE WarmupEnds
  BY <1>4, <1>5, <1>7 DEF WarmupEnds
<1>. QED
  BY <1>6, <1>7 DEF WarmupStep

\* What the server takes from the wire it owes an answer, until the answer is in the queue.
LEMMA LinkWaits ==
  ASSUME Placed, Received, InTurn(inbox), \A a \in Coming(inbox) : a <= answers, Waits,
         LinkStep, mode' = mode
  PROVE  Waits'
<1>1. /\ UNCHANGED <<mode, session, wire, pending, paused, deferred>>
      /\ awaiting' = awaiting /\ wait' = wait /\ byText' = byText /\ Shut' = Shut
  BY DEF Shut, LinkStep, LinkConnects, ServerHears, ServerFinalizes, ServerFinishes, ServerSplits,
         ServerPartial, ServerNotifies, LinkBreaks, OthersThanServer, audioVars, turnVars, waitVars
<1>2. session \notin {"Listening", "Failed"} /\ session' \notin {"Listening", "Failed"}
  <2>1. link # "none"
    BY DEF LinkStep, LinkConnects, ServerHears, ServerFinalizes, ServerFinishes, ServerSplits,
           ServerPartial, ServerNotifies, LinkBreaks
  <2>. QED
    BY <1>1, <2>1 DEF Waits, NoneWaits
<1>3. /\ wire \in Seq(Message) /\ read \in Nat /\ read <= Len(wire) /\ Len(wire) \in Nat
      /\ inbox \in Seq(Happening)
  BY LenProperties DEF Placed, Buffers, Waits, Waiters, Received
<1>4. read' <= Len(wire') => Waiters'
  BY <1>1 DEF Waits, Waiters
<1>5. NoneWaits'
  BY <1>2 DEF NoneWaits
<1>6. session \in {"Connecting", "Streaming"} =>
        /\ At(wire, "Stop") = {}
        /\ awaiting = TRUE => Unread(wire, read, "Finalize") \/ At(inbox, "Fin") # {}
        /\ mode = "server" => At(wire, "Finalize") = {} /\ At(inbox, "Fin") = {}
        /\ heard # {} \/ Tailing(inbox)
  BY DEF Waits, AnswersComing
<1>7. ASSUME Owed => Owed' PROVE SpeechOwed'
  BY <1>1, <1>7 DEF Waits, SpeechOwed
<1>8. ASSUME NEW e \in {"Connected", "Partial", "Notice", "Lost"}, inbox' = Append(inbox, Event(e)),
             read' = read, heard' = heard, e = "Partial" => heard # {}
      PROVE  Waits'
  <2>1. /\ \A c \in {"Endpoint", "Fin"} : At(inbox', c) = {} <=> At(inbox, c) = {}
        /\ e # "Partial" /\ Tailing(inbox) => Tailing(inbox')
    <3>1. inbox \in Seq(Happening)
      BY <1>3
    <3>2. /\ e # "Partial" /\ Tailing(inbox) => Tailing(Append(inbox, Event(e)))
          /\ \A c : c # e => (At(Append(inbox, Event(e)), c) = {} <=> At(inbox, c) = {})
      BY <3>1, EventSaid
    <3>3. e # "Endpoint" /\ e # "Fin"
      OBVIOUS
    <3>. QED
      BY <1>8, <3>2, <3>3
  <2>2. AnswersComing'
    BY <1>1, <1>6, <1>8, <2>1 DEF AnswersComing
  <2>3. Owed => Owed'
    BY <1>1, <1>8, <2>1 DEF Owed
  <2>. QED
    BY <1>1, <1>3, <1>4, <1>5, <1>7, <1>8, <2>2, <2>3 DEF Waits
<1>9. CASE LinkConnects \/ ServerPartial \/ ServerNotifies \/ LinkBreaks
  <2>1. read' = read /\ heard' = heard
    BY <1>9 DEF LinkConnects, ServerPartial, ServerNotifies, LinkBreaks, serverVars
  <2>2. CASE LinkConnects
    BY <1>8, <2>1, <2>2 DEF LinkConnects
  <2>3. CASE ServerPartial
    BY <1>8, <2>1, <2>3 DEF ServerPartial
  <2>4. CASE LinkBreaks
    BY <1>8, <2>1, <2>4 DEF LinkBreaks
  <2>5. CASE ServerNotifies
    BY <1>8, <2>1, <2>5 DEF ServerNotifies
  <2>. QED
    BY <1>9, <2>2, <2>3, <2>4, <2>5
<1>10. read + 1 \in Nat /\ (read < Len(wire) => read + 1 \in 1..Len(wire) /\ read + 1 <= Len(wire))
  BY <1>3
<1>11. ASSUME NEW c, Unread(wire, read, c), read + 1 \notin At(wire, c)
       PROVE  Unread(wire, read + 1, c)
  <2>1. PICK i \in At(wire, c) : read < i
    BY <1>11 DEF Unread
  <2>2. i \in Nat /\ i # read + 1
    BY <1>3, <1>11, <2>1 DEF At
  <2>3. read + 1 < i
    BY <1>3, <2>1, <2>2
  <2>. QED
    BY <2>1, <2>3 DEF Unread
<1>12. CASE ServerHears
  <2>1. /\ read < Len(wire) /\ wire[read + 1].what \in {"Audio", "Start"} /\ read' = read + 1
        /\ heard' = heard \cup ({wire[read + 1].frame} \ {0}) /\ inbox' = inbox
    BY <1>12 DEF ServerHears
  <2>2. read + 1 \notin At(wire, "Finalize")
    BY <2>1 DEF At
  <2>3. Unread(wire, read, "Finalize") => Unread(wire', read', "Finalize")
    BY <1>1, <1>11, <2>1, <2>2
  <2>4. Unread(wire, read, "Audio") => Unread(wire', read', "Audio") \/ heard' # {}
    <3>1. CASE read + 1 \in At(wire, "Audio")
      <4>1. wire[read + 1].frame \in Sent(wire)
        BY <3>1 DEF Sent
      <4>2. wire[read + 1].frame # 0
        BY <4>1, Now
      <4>. QED
        BY <2>1, <4>2
    <3>2. CASE read + 1 \notin At(wire, "Audio")
      BY <1>1, <1>11, <2>1, <3>2
    <3>. QED
      BY <3>1, <3>2
  <2>5. heard # {} => heard' # {}
    BY <2>1
  <2>6. AnswersComing'
    BY <1>1, <1>6, <2>1, <2>3, <2>5 DEF AnswersComing
  <2>7. Owed => Owed'
    BY <2>1, <2>3, <2>4, <2>5 DEF Owed
  <2>. QED
    BY <1>1, <1>4, <1>5, <1>7, <1>10, <2>1, <2>6, <2>7 DEF Waits
<1>13. CASE ServerFinalizes
  <2>1. /\ read < Len(wire) /\ wire[read + 1].what = "Finalize" /\ read' = read + 1
        /\ Answer("Fin", <<>>)
    BY <1>13 DEF ServerFinalizes
  <2>2. At(inbox', "Fin") # {} /\ Tailing(inbox')
    BY <2>1, AnswerSaid
  <2>3. At(wire, "Finalize") # {}
    BY <1>10, <2>1 DEF At
  <2>4. mode # "server" \/ session \notin {"Connecting", "Streaming"}
    BY <1>6, <2>3
  <2>5. AnswersComing'
    BY <1>1, <1>6, <2>2, <2>4 DEF AnswersComing
  <2>6. SpeechOwed'
    BY <1>1, <2>4 DEF SpeechOwed
  <2>. QED
    BY <1>1, <1>4, <1>5, <1>10, <2>1, <2>5, <2>6 DEF Waits
<1>14. CASE ServerFinishes
  <2>1. read < Len(wire) /\ wire[read + 1].what = "Stop" /\ read' = read + 1
    BY <1>14 DEF ServerFinishes
  <2>2. At(wire, "Stop") # {}
    BY <1>10, <2>1 DEF At
  <2>3. session' \notin {"Connecting", "Streaming"}
    BY <1>1, <1>6, <2>2
  <2>4. AnswersComing' /\ SpeechOwed'
    BY <2>3 DEF AnswersComing, SpeechOwed
  <2>. QED
    BY <1>1, <1>4, <1>5, <1>10, <2>1, <2>4 DEF Waits
<1>15. CASE ServerSplits
  <2>1. read' = read /\ Answer("Endpoint", <<>>)
    BY <1>15 DEF ServerSplits
  <2>2. /\ At(inbox', "Endpoint") # {} /\ Tailing(inbox')
        /\ \A c \in {"Fin", "Endpoint"} \ {"Endpoint"} : At(inbox', c) = {} <=> At(inbox, c) = {}
    BY <2>1, AnswerSaid
  <2>3. At(inbox', "Fin") = {} <=> At(inbox, "Fin") = {}
    BY <2>2
  <2>4. AnswersComing'
    BY <1>1, <1>6, <2>1, <2>2, <2>3 DEF AnswersComing
  <2>5. Owed'
    BY <2>2 DEF Owed
  <2>. QED
    BY <1>1, <1>3, <1>4, <1>5, <1>7, <2>1, <2>4, <2>5 DEF Waits
<1>. QED
  BY <1>9, <1>12, <1>13, <1>14, <1>15 DEF LinkStep

\* A timer ends the session, and what it waits for, or adds commands.
LEMMA TimerWaits ==
  ASSUME Placed, Received, Waits, TimerStep, mode' = mode
  PROVE  Waits'
<1>1. CASE SessionTimeout \/ Fails
  BY <1>1, WaitsCleaned DEF SessionTimeout, Fails
<1>2. CASE Recovers
  <2>1. /\ UNCHANGED <<read, heard, inbox, link, wire, deferred>> /\ session = "Failed"
        /\ session' = "Listening"
        /\ awaiting' = awaiting /\ wait' = wait /\ byText' = byText /\ Shut' = Shut
    BY <1>2 DEF Shut, Recovers, audioVars, turnVars, waitVars, serverVars
  <2>2. Waiters'
    BY <2>1 DEF Waits, Waiters
  <2>3. NoneWaits'
    BY <2>1 DEF Waits, NoneWaits
  <2>4. AnswersComing' /\ SpeechOwed'
    BY <2>1 DEF AnswersComing, SpeechOwed
  <2>. QED
    BY <2>2, <2>3, <2>4 DEF Waits
<1>3. CASE IdleCloses
  <2>1. /\ session' = "Closing" /\ wire' = wire \o <<Command("Finalize"), Command("Stop")>>
        /\ UNCHANGED <<read, deferred>>
        /\ awaiting' = awaiting /\ wait' = wait /\ byText' = byText /\ Shut' = Shut
    BY <1>3 DEF Shut, IdleCloses, turnVars, waitVars, serverVars
  <2>2. wire \in Seq(Message) /\ read \in Nat /\ read <= Len(wire) /\ Len(wire) \in Nat
    BY LenProperties DEF Placed, Buffers, Waits, Waiters, Received
  <2>3. wire' = Append(Append(wire, Command("Finalize")), Command("Stop"))
    BY <2>1, <2>2, SaidTwice DEF Command, Message
  <2>4. /\ Append(wire, Command("Finalize")) \in Seq(Message)
        /\ Grows(wire, Append(wire, Command("Finalize")))
    BY <2>2, CommandSaid, CommandUnread
  <2>5. read <= Len(Append(wire, Command("Finalize")))
    BY <2>2, <2>4, UnreadStays
  <2>6. /\ wire' \in Seq(Message) /\ Grows(Append(wire, Command("Finalize")), wire')
    BY <2>2, <2>3, <2>4, <2>5, CommandSaid, CommandUnread
  <2>7. read <= Len(wire')
    BY <2>2, <2>4, <2>5, <2>6, UnreadStays
  <2>8. Waiters'
    BY <2>1, <2>7 DEF Waits, Waiters
  <2>9. NoneWaits' /\ AnswersComing' /\ SpeechOwed'
    BY <2>1 DEF NoneWaits, AnswersComing, SpeechOwed
  <2>. QED
    BY <2>8, <2>9 DEF Waits
<1>. QED
  BY <1>1, <1>2, <1>3 DEF TimerStep

\* The events that are read.
LEMMA DrainWaits ==
  ASSUME Placed, Received, Waits, DrainStep, mode' = mode
  PROVE  Waits'
<1>1. /\ inbox # <<>> /\ inbox \in Seq(Happening) /\ wire \in Seq(Message) /\ pending \in Seq(Nat)
      /\ read \in Nat /\ read <= Len(wire)
      /\ awaiting \in BOOLEAN /\ wait \in BOOLEAN /\ byText \in BOOLEAN
      /\ paused \in BOOLEAN /\ mode \in {"client", "server", "both"}
      /\ session \in {"Listening", "Connecting", "Streaming", "Closing", "Failed"}
  BY DEF DrainStep, ConnectedArrives, TextArrives, PartialArrives, EndpointArrives, NoticeArrives,
         FinArrives, FinishedArrives, LostArrives, Takes, Placed, Flags, Buffers, Received, Waits, Waiters
<1>2. session \notin {"Listening", "Failed"}
  BY <1>1 DEF Waits, NoneWaits
<1>3. /\ Tailing(inbox) => Tailing(Tail(inbox))
      /\ Tailing(inbox) /\ Head(inbox).what \in {"Text", "Partial"} =>
           At(Tail(inbox), "Endpoint") # {} \/ At(Tail(inbox), "Fin") # {}
      /\ \A c : c # Head(inbox).what /\ At(inbox, c) # {} => At(Tail(inbox), c) # {}
      /\ \A c : At(inbox, c) = {} => At(Tail(inbox), c) = {}
  BY <1>1, EventTaken
<1>4. session \in {"Connecting", "Streaming"} =>
        /\ At(wire, "Stop") = {}
        /\ awaiting = TRUE => Unread(wire, read, "Finalize") \/ At(inbox, "Fin") # {}
        /\ mode = "server" => At(wire, "Finalize") = {} /\ At(inbox, "Fin") = {}
        /\ heard # {} \/ Tailing(inbox)
  BY DEF Waits, AnswersComing
<1>5. /\ deferred # NotDeferred => deferred.audio # <<>>
      /\ wait = TRUE => mode = "server"
  BY DEF Waits, Waiters
<1>6. CASE FinishedArrives \/ LostArrives
  BY <1>6, WaitsCleaned DEF FinishedArrives, LostArrives
<1>7. ASSUME UNCHANGED <<session, wire, pending, paused, deferred>>, UNCHANGED <<read, heard>>,
             awaiting' = awaiting, inbox' = Tail(inbox), Head(inbox).what # "Fin",
             wait' \in BOOLEAN, wait' = TRUE => wait = TRUE,
             byText' \in BOOLEAN, SpeechOwed'
      PROVE  Waits'
  <2>1. Waiters'
    BY <1>1, <1>5, <1>7 DEF Waiters
  <2>2. NoneWaits'
    BY <1>2, <1>7 DEF NoneWaits
  <2>3. At(inbox, "Fin") # {} => At(inbox', "Fin") # {}
    BY <1>3, <1>7
  <2>4. AnswersComing'
    BY <1>3, <1>4, <1>7, <2>3 DEF AnswersComing
  <2>. QED
    BY <1>7, <2>1, <2>2, <2>4 DEF Waits
<1>8. ASSUME UNCHANGED <<mode, session, wire, pending>>, UNCHANGED <<read, heard>>,
             inbox' = Tail(inbox), Head(inbox).what \in {"Text", "Partial"}
      PROVE  SpeechOwed'
  <2>. SUFFICES ASSUME mode = "server" PROVE SpeechOwed'
    BY <1>8 DEF SpeechOwed
  <2>1. session = "Connecting" => pending' # <<>>
    BY <1>8 DEF Waits, SpeechOwed
  <2>2. session = "Streaming" => Owed'
    BY <1>3, <1>4, <1>8 DEF Owed
  <2>. QED
    BY <1>8, <2>1, <2>2 DEF SpeechOwed
<1>9. CASE TextArrives
  <2>1. /\ UNCHANGED <<mode, session, wire, pending, paused, deferred>> /\ UNCHANGED <<read, heard>>
        /\ awaiting' = awaiting /\ inbox' = Tail(inbox) /\ Head(inbox).what = "Text"
    BY <1>9 DEF TextArrives, Takes, audioVars, turnVars, serverVars
  <2>2. /\ wait' \in BOOLEAN /\ (wait' = TRUE => wait = TRUE)
        /\ byText' \in BOOLEAN
    <3>1. CASE TooLate
      BY <1>1, <1>9, <3>1 DEF TextArrives, waitVars
    <3>2. CASE ~TooLate
      BY <1>1, <1>9, <3>2 DEF TextArrives
    <3>. QED
      BY <3>1, <3>2
  <2>3. SpeechOwed'
    BY <1>8, <2>1
  <2>. QED
    BY <1>7, <2>1, <2>2, <2>3
<1>10. CASE PartialArrives
  <2>1. /\ UNCHANGED <<mode, session, wire, pending, paused, deferred>> /\ UNCHANGED <<read, heard>>
        /\ awaiting' = awaiting /\ inbox' = Tail(inbox) /\ Head(inbox).what = "Partial"
        /\ wait' = FALSE /\ byText' = byText /\ ~Shut'
    BY <1>10 DEF Shut, PartialArrives, Takes, audioVars, turnVars, serverVars
  <2>2. /\ wait' \in BOOLEAN /\ (wait' = TRUE => wait = TRUE)
        /\ byText' \in BOOLEAN
    BY <1>1, <2>1
  <2>3. SpeechOwed'
    BY <1>8, <2>1
  <2>. QED
    BY <1>7, <2>1, <2>2, <2>3
<1>11. CASE EndpointArrives \/ NoticeArrives
  <2>1. /\ UNCHANGED <<mode, pending, deferred>> /\ UNCHANGED <<read, heard>>
        /\ inbox' = Tail(inbox) /\ Head(inbox).what \in {"Endpoint", "Notice"}
        /\ \/ session = "Streaming" /\ session' = "Closing" /\ wire' = Append(wire, Command("Stop"))
           \/ session' = session /\ wire' = wire
    BY <1>11 DEF EndpointArrives, NoticeArrives, CloseDelayed, Takes, serverVars
  <2>2. /\ wait' \in BOOLEAN /\ (wait' = TRUE => wait = TRUE)
        /\ byText' \in BOOLEAN /\ awaiting' \in {FALSE, awaiting}
    BY <1>1, <1>11 DEF EndpointArrives, NoticeArrives, ClosedByServer, turnVars
  <2>3. read <= Len(wire')
    <3>1. Grows(wire, Append(wire, Command("Stop"))) /\ Append(wire, Command("Stop")) \in Seq(Message)
      BY <1>1, CommandSaid, CommandUnread
    <3>2. read <= Len(Append(wire, Command("Stop")))
      BY <1>1, <3>1, UnreadStays
    <3>. QED
      BY <1>1, <2>1, <3>2
  <2>4. Waiters'
    BY <1>1, <1>5, <2>1, <2>2, <2>3 DEF Waiters
  <2>5. NoneWaits'
    BY <1>2, <2>1 DEF NoneWaits
  <2>6. At(inbox, "Fin") # {} => At(inbox', "Fin") # {}
    BY <1>3, <2>1
  <2>7. AnswersComing'
    BY <1>1, <1>3, <1>4, <2>1, <2>2, <2>6 DEF AnswersComing
  <2>8. ASSUME EndpointArrives PROVE SpeechOwed'
    <3>1. Shut' /\ (mode = "server" => paused' = TRUE)
      BY <1>1, <2>8 DEF Shut, EndpointArrives, ClosedByServer
    <3>. QED
      BY <1>1, <2>1, <3>1 DEF Waits, SpeechOwed
  <2>9. ASSUME NoticeArrives PROVE SpeechOwed'
    <3>1. paused' = paused /\ Shut' = Shut /\ Head(inbox).what = "Notice"
      BY <2>9 DEF Shut, NoticeArrives, Takes, turnVars
    <3>2. Owed /\ session' = session => Owed'
      <4>1. At(inbox, "Endpoint") # {} => At(inbox', "Endpoint") # {}
        BY <1>3, <2>1, <3>1
      <4>2. session' = session => wire' = wire
        BY <1>4, <2>1
      <4>. QED
        BY <2>1, <2>6, <4>1, <4>2 DEF Owed
    <3>. QED
      BY <1>1, <2>1, <3>1, <3>2 DEF Waits, SpeechOwed
  <2>10. SpeechOwed'
    BY <1>11, <2>8, <2>9
  <2>. QED
    BY <2>4, <2>5, <2>7, <2>10 DEF Waits
<1>12. CASE FinArrives
  <2>1. /\ UNCHANGED <<mode, session, wire, pending, deferred>> /\ UNCHANGED <<read, heard>>
        /\ inbox' = Tail(inbox) /\ Head(inbox).what = "Fin" /\ awaiting' = FALSE
        /\ wait' = (wait /\ byText) /\ byText' = FALSE /\ Shut' = Shut
    BY <1>12 DEF Shut, FinArrives, Takes, serverVars, audioVars
  <2>2. wait' \in BOOLEAN /\ (wait' = TRUE => wait = TRUE)
    BY <1>1, <2>1
  <2>3. Waiters'
    BY <1>1, <1>5, <2>1, <2>2 DEF Waiters
  <2>4. NoneWaits'
    BY <1>2, <2>1 DEF NoneWaits
  <2>5. AnswersComing'
    BY <1>3, <1>4, <2>1 DEF AnswersComing
  <2>6. mode # "server" \/ session \notin {"Connecting", "Streaming"}
    <3>1. At(inbox, "Fin") # {}
      <4>1. 1 \in 1..Len(inbox) /\ inbox[1] = Head(inbox)
        BY <1>1, HeadTailProperties, EmptySeq, LenProperties
      <4>. QED
        BY <2>1, <4>1 DEF At
    <3>. QED
      BY <1>4, <3>1
  <2>7. SpeechOwed'
    BY <2>1, <2>6 DEF SpeechOwed
  <2>. QED
    BY <2>3, <2>4, <2>5, <2>7 DEF Waits
<1>13. CASE ConnectedArrives
  <2>1. /\ UNCHANGED <<mode, deferred>> /\ UNCHANGED <<read, heard>> /\ inbox' = Tail(inbox)
        /\ Head(inbox).what = "Connected" /\ byText' = byText /\ Shut' = Shut
    BY <1>13 DEF Shut, ConnectedArrives, Takes, serverVars
  <2>2. At(inbox, "Fin") # {} => At(inbox', "Fin") # {}
    BY <1>3, <2>1
  <2>3. CASE session # "Connecting"
    <3>1. /\ UNCHANGED <<session, wire, pending, paused>> /\ awaiting' = awaiting /\ wait' = wait
      BY <1>13, <2>3 DEF ConnectedArrives, turnVars
    <3>2. At(inbox, "Endpoint") # {} => At(inbox', "Endpoint") # {}
      BY <1>3, <2>1
    <3>3. Owed => Owed'
      BY <2>1, <2>2, <3>1, <3>2 DEF Owed
    <3>4. SpeechOwed'
      BY <2>1, <2>3, <3>1, <3>3 DEF Waits, SpeechOwed
    <3>. QED
      BY <1>1, <1>7, <2>1, <3>1, <3>4
  <2>4. CASE session = "Connecting"
    <3> DEFINE v == wire \o AudioOf(pending)
    <3>1. /\ v \in Seq(Message) /\ Grows(wire, v) /\ (pending # <<>> => Unread(v, read, "Audio"))
          /\ At(v, "Stop") = At(wire, "Stop") /\ At(v, "Finalize") = At(wire, "Finalize")
      BY <1>1, AudioSaid, AudioUnread
    <3>2. /\ session' = "Streaming"
          /\ \/ FinishSpeech("Streaming", preroll, <<>>, v)
             \/ wire' = v /\ UNCHANGED <<awaiting, wait>>
      BY <1>13, <2>4 DEF ConnectedArrives
    <3> HIDE DEF v
    <3>3. /\ read <= Len(v) /\ \A c : Unread(wire, read, c) => Unread(v, read, c)
      BY <1>1, <3>1, UnreadStays
    <3>4. CASE /\ wire' = v /\ awaiting' = awaiting /\ wait' \in BOOLEAN
               /\ wait' = TRUE => wait = TRUE \/ mode = "server"
      <4>1. Waiters'
        BY <1>1, <1>5, <2>1, <3>3, <3>4 DEF Waiters
      <4>2. NoneWaits'
        BY <3>2 DEF NoneWaits
      <4>3. AnswersComing'
        BY <1>3, <1>4, <2>1, <2>2, <2>4, <3>1, <3>3, <3>4 DEF AnswersComing
      <4>4. mode = "server" => Owed'
        BY <2>1, <2>4, <3>1, <3>4 DEF Waits, SpeechOwed, Owed
      <4>5. SpeechOwed'
        BY <2>1, <3>2, <4>4 DEF SpeechOwed
      <4>. QED
        BY <4>1, <4>2, <4>3, <4>5 DEF Waits
    <3>5. CASE /\ mode # "server" /\ awaiting' = TRUE /\ wait' = wait
               /\ wire' = Append(v \o AudioOf(<<>>), Command("Finalize"))
      <4>1. /\ <<>> \in Seq(Nat) /\ v \o AudioOf(<<>>) \in Seq(Message)
            /\ Grows(v, v \o AudioOf(<<>>)) /\ At(v \o AudioOf(<<>>), "Stop") = At(v, "Stop")
        <5>1. <<>> \in Seq(Nat)
          BY EmptySeq
        <5>2. v \o AudioOf(<<>>) \in Seq(Message) /\ At(v \o AudioOf(<<>>), "Stop") = At(v, "Stop")
          BY <3>1, <5>1, AudioSaid
        <5>3. Grows(v, v \o AudioOf(<<>>))
          BY <1>1, <3>1, <3>3, <5>1, AudioUnread
        <5>. QED
          BY <5>1, <5>2, <5>3
      <4>2. read <= Len(v \o AudioOf(<<>>))
        BY <1>1, <3>1, <3>3, <4>1, UnreadStays
      <4>3. /\ wire' \in Seq(Message) /\ Unread(wire', read, "Finalize")
            /\ At(wire', "Stop") = At(v \o AudioOf(<<>>), "Stop")
            /\ Grows(v \o AudioOf(<<>>), wire')
        BY <1>1, <3>5, <4>1, <4>2, CommandSaid, CommandUnread
      <4>4. read <= Len(wire')
        BY <1>1, <4>1, <4>2, <4>3, UnreadStays
      <4>5. Waiters'
        BY <1>1, <1>5, <2>1, <3>5, <4>4 DEF Waiters
      <4>6. NoneWaits'
        BY <3>2 DEF NoneWaits
      <4>7. AnswersComing'
        BY <1>3, <1>4, <2>1, <2>4, <3>1, <3>5, <4>1, <4>3 DEF AnswersComing
      <4>8. SpeechOwed'
        BY <2>1, <3>5 DEF SpeechOwed
      <4>. QED
        BY <4>5, <4>6, <4>7, <4>8 DEF Waits
    <3>6. <<>> \in Seq(Nat)
      BY EmptySeq
    <3>7. CASE FinishSpeech("Streaming", preroll, <<>>, v)
      BY <3>1, <3>4, <3>5, <3>6, <3>7, WaitsFinish
    <3>8. CASE wire' = v /\ UNCHANGED <<awaiting, wait>>
      BY <1>1, <3>4, <3>8
    <3>. QED
      BY <3>2, <3>7, <3>8
  <2>. QED
    BY <2>3, <2>4
<1>. QED
  BY <1>6, <1>9, <1>10, <1>11, <1>12, <1>13 DEF DrainStep

\* Every step.
LEMMA WaitsStep ==
  ASSUME Placed, Spelled, Waits, [Next]_vars
  PROVE  Waits'
<1>1. Received /\ InTurn(inbox) /\ \A a \in Coming(inbox) : a <= answers
  BY DEF Spelled, Ahead
<1>2. CASE UNCHANGED vars
  <2>1. /\ UNCHANGED <<mode, session, link, wire, pending, deferred, read, heard, inbox>>
        /\ awaiting' = awaiting /\ wait' = wait /\ byText' = byText /\ Shut' = Shut
        /\ paused' = paused
    BY <1>2 DEF Shut, vars, audioVars, turnVars, waitVars, serverVars
  <2>2. Waiters'
    BY <2>1 DEF Waits, Waiters
  <2>3. NoneWaits'
    BY <2>1 DEF Waits, NoneWaits
  <2>4. AnswersComing'
    BY <2>1 DEF Waits, AnswersComing
  <2>5. SpeechOwed'
    BY <2>1 DEF Waits, SpeechOwed, Owed
  <2>. QED
    BY <2>2, <2>3, <2>4, <2>5 DEF Waits
<1>3. ASSUME Next PROVE Waits'
  <2>1. mode' = mode
    BY <1>3 DEF Next
  <2>2. CASE SpeechStep
    BY <1>1, <2>1, <2>2, OnsetWaits, OpensWaits, EndWaits DEF SpeechStep
  <2>. QED
    BY <1>1, <1>3, <2>1, <2>2, WarmupWaits, LinkWaits, DrainWaits, TimerWaits DEF Next
<1>. QED
  BY <1>2, <1>3

\* At first nothing waits.
LEMMA WaitsInit ==
  ASSUME Init
  PROVE  Waits
<1>1. /\ session = "Listening" /\ deferred = NotDeferred /\ wire = <<>> /\ read = 0 /\ heard = {}
      /\ inbox = <<>> /\ link = "none"
      /\ awaiting = FALSE /\ wait = FALSE /\ byText = FALSE /\ ~Shut
  BY DEF Shut, Init
<1>2. Len(<<>>) = 0
  OBVIOUS
<1>3. read <= Len(wire)
  BY <1>1, <1>2
<1>4. /\ awaiting \in BOOLEAN /\ wait \in BOOLEAN /\ byText \in BOOLEAN
  BY <1>1
<1>5. Waiters
  BY <1>1, <1>3, <1>4 DEF Waiters
<1>6. NoneWaits
  BY <1>1 DEF NoneWaits
<1>7. AnswersComing /\ SpeechOwed
  BY <1>1 DEF AnswersComing, SpeechOwed
<1>. QED
  BY <1>5, <1>6, <1>7 DEF Waits

\* What ends a wait is remembered as a mark, and what a mark does not tell as left over.
Marked ==
  /\ wait \in BOOLEAN /\ byText \in BOOLEAN /\ byEndpoint \in BOOLEAN /\ leftOver \in BOOLEAN
  /\ wait = TRUE /\ byEndpoint = TRUE => leftOver = TRUE

\* No wait begins while the mark of an endpoint stands.
LEMMA MarkedStep ==
  ASSUME Marked, [Next]_vars
  PROVE  Marked'
<1>1. ASSUME UNCHANGED waitVars PROVE Marked'
  BY <1>1 DEF Marked, waitVars
<1>2. CASE UNCHANGED vars
  BY <1>1, <1>2 DEF vars
<1>3. CASE SpeechStep /\ ~SpeechEnded
  BY <1>1, <1>3 DEF SpeechStep, Onset, SpeechDeferred, SpeechConnects, SpeechContinues,
                    SpeechQueued, SpeechMissed, GateOpens
<1>4. CASE SpeechEnded
  <2>1. /\ UNCHANGED <<byText, byEndpoint, leftOver>>
        /\ wait' = wait \/ \E b \in BOOLEAN : wait' = (wait \/ (b /\ ~byEndpoint))
    BY <1>4 DEF SpeechEnded, FinishSpeech
  <2>. QED
    BY <2>1 DEF Marked
<1>5. CASE WarmupStep \/ LinkStep
  BY <1>1, <1>5 DEF WarmupStep, WarmupStarts, WarmupEnds, LinkStep, LinkConnects, ServerHears,
                    ServerFinalizes, ServerFinishes, ServerSplits, ServerPartial, ServerNotifies,
                    LinkBreaks, OthersThanServer
<1>6. CASE ConnectedArrives
  <2>1. /\ UNCHANGED <<byText, byEndpoint, leftOver>>
        /\ wait' = wait \/ \E b \in BOOLEAN : wait' = (wait \/ (b /\ ~byEndpoint))
    BY <1>6 DEF ConnectedArrives, FinishSpeech
  <2>. QED
    BY <2>1 DEF Marked
<1>7. CASE TextArrives
  BY <1>1, <1>7 DEF TextArrives, Marked
<1>8. CASE PartialArrives
  BY <1>8 DEF PartialArrives, Marked
<1>9. CASE EndpointArrives
  BY <1>9 DEF EndpointArrives, ClosedByServer, Marked
<1>10. CASE NoticeArrives
  BY <1>10 DEF NoticeArrives, Marked
<1>11. CASE FinArrives
  BY <1>11 DEF FinArrives, Marked
<1>12. ASSUME Cleanup PROVE Marked'
  BY <1>12 DEF Cleanup, Marked
<1>13. CASE TimerStep
  BY <1>1, <1>12, <1>13 DEF TimerStep, IdleCloses, SessionTimeout, Fails, Recovers
<1>14. CASE FinishedArrives \/ LostArrives
  BY <1>12, <1>14 DEF FinishedArrives, LostArrives
<1>. QED
  BY <1>2, <1>3, <1>4, <1>5, <1>6, <1>7, <1>8, <1>9, <1>10, <1>11, <1>13, <1>14
  DEF Next, DrainStep

\* An answer that is waited for is owed: to a finalize until its answer has come, to speech
\* until the server has closed the segment and the audio is paused, unless the endpoint left
\* a wait or lost its mark (handle_asr_event, finish_current_speech).
THEOREM WaitIsOwedHolds == Spec => []WaitIsOwed
<1>1. Init => Placed /\ Spelled /\ Waits /\ Marked
  BY PlacedInit, SpelledInit, WaitsInit DEF Init, Marked
<1>2. Placed /\ Spelled /\ Waits /\ Marked /\ [Next]_vars =>
        Placed' /\ Spelled' /\ Waits' /\ Marked'
  BY PlacedStep, SpelledStep, WaitsStep, MarkedStep
<1>3. Placed /\ Spelled /\ Waits /\ Marked => WaitIsOwed
  <2>. SUFFICES ASSUME Placed, Waits, Marked, session = "Streaming", Received,
                       awaiting \/ (wait /\ ~(paused /\ leftOver))
                PROVE  Owes
    BY DEF WaitIsOwed, Spelled
  <2>1. awaiting \in BOOLEAN /\ wait \in BOOLEAN /\ paused \in BOOLEAN
    BY DEF Waits, Waiters, Placed, Flags
  <2>2. Owed
    <3>1. CASE awaiting
      BY <2>1, <3>1 DEF Waits, AnswersComing, Owed
    <3>2. CASE wait /\ ~(paused /\ leftOver)
      <4>1. wait = TRUE /\ ~(paused = TRUE /\ Shut)
        BY <2>1, <3>2 DEF Marked, Shut
      <4>. QED
        BY <4>1 DEF Waits, Waiters, SpeechOwed
    <3>. QED
      BY <3>1, <3>2
  <2>3. read \in Nat /\ Len(wire) \in Nat
    BY LenProperties DEF Received, Placed, Buffers
  <2>4. ASSUME NEW c \in {"Audio", "Finalize"}, Unread(wire, read, c) PROVE Owes
    <3>1. PICK i \in At(wire, c) : read < i
      BY <2>4 DEF Unread
    <3>2. i \in (read + 1)..Len(wire) /\ wire[i].what = c
      BY <2>3, <3>1 DEF At
    <3>. QED
      BY <3>2 DEF Owes
  <2>5. At(inbox, "Endpoint") # {} \/ At(inbox, "Fin") # {} => Owes
    BY DEF Owes, At
  <2>6. heard # {} => Owes
    BY DEF Owes
  <2>. QED
    BY <2>2, <2>4, <2>5, <2>6 DEF Owed
<1>. QED
  BY <1>1, <1>2, <1>3, PTL DEF Spec

--------------------------------------------------------------------------------
(***************************************************************************)
(* The head of a turn.                                                     *)
(***************************************************************************)
\* Where the frame before the gate opens is, while it is the latest one.
HeadKept ==
  mode # "client" /\ frames % 3 = 1 =>
    /\ session = "Listening" => frames \in Kept(preroll)
    /\ session = "Connecting" => frames \in Kept(IF finalized = TRUE THEN preroll ELSE pending)
    /\ session = "Streaming" =>
         frames \in Sent(wire) \/ (paused = TRUE /\ frames \in Kept(preroll))

\* A frame that is kept is there at once, and is not what makes room for the next.
LEMMA FrameKept ==
  ASSUME NEW n \in Nat \ {0}, NEW s \in Seq(Nat), NEW f \in Nat
  PROVE  /\ f \in Kept(Latest(n, Append(s, f)))
         /\ \A m \in Kept(s) : n > 1 /\ Rising(s) /\ (\A g \in Kept(s) : g <= m) =>
              m \in Kept(Latest(n, Append(s, f)))
<1>. DEFINE t == Append(s, f)
<1>1. t \in Seq(Nat)
  BY KeptAppend
<1>2. /\ Len(t) = Len(s) + 1 /\ Len(s) \in Nat /\ t[Len(s) + 1] = f
      /\ \A i \in 1..Len(s) : t[i] = s[i] /\ s[i] \in Nat
  BY AppendProperties, LenProperties, ElementOfSeq
<1>. HIDE DEF t
<1>3. \A i \in 1..Len(t) : i > Len(t) - n => t[i] \in Kept(Latest(n, t))
  BY <1>1, LatestKept
<1>4. f \in Kept(Latest(n, t))
  <2>1. Len(s) + 1 \in 1..Len(t) /\ Len(s) + 1 > Len(t) - n
    BY <1>2
  <2>. QED
    BY <1>2, <1>3, <2>1
<1>5. ASSUME NEW m \in Kept(s), n > 1, Rising(s), \A g \in Kept(s) : g <= m
      PROVE  m \in Kept(Latest(n, t))
  <2>1. PICK i \in 1..Len(s) : s[i] = m
    BY DEF Kept
  <2>2. s[Len(s)] <= m /\ Len(s) \in 1..Len(s) /\ m \in Nat
    <3>1. Len(s) \in 1..Len(s) /\ s[i] \in Nat
      BY <1>2, <2>1
    <3>2. s[Len(s)] \in Kept(s)
      BY <3>1 DEF Kept
    <3>. QED
      BY <1>5, <2>1, <3>1, <3>2
  <2>3. i = Len(s)
    <3>1. i < Len(s) => s[i] < s[Len(s)]
      BY <1>5, <2>2 DEF Rising
    <3>. QED
      BY <1>2, <2>1, <2>2, <3>1
  <2>4. Len(s) \in 1..Len(t) /\ Len(s) > Len(t) - n /\ t[Len(s)] = m
    BY <1>2, <1>5, <2>1, <2>2, <2>3
  <2>. QED
    BY <1>3, <2>4
<1>. QED
  BY <1>4, <1>5 DEF t

\* The first frame goes where the state calls for.
LEMMA OnsetKept ==
  ASSUME Placed, TurnsKnown, Onset, mode' = mode
  PROVE  HeadKept'
<1>. DEFINE f == frames + 1
<1>1. /\ frames' = f /\ UNCHANGED <<session, finalized, paused>> /\ f \in Nat
      /\ wire' = WireWith(f) /\ pending' = PendingWith(f) /\ preroll' = PrerollWith(f)
  BY Now DEF Onset, turnVars
<1>2. warmup = FALSE /\ deferred = NotDeferred
  BY DEF TurnsKnown, Turned
<1>3. ~Deferring /\ ~warmup
  BY <1>2 DEF Deferring
<1>. HIDE DEF f
<1>4. paused \in BOOLEAN /\ finalized \in BOOLEAN
  BY DEF Placed, Flags
<1>5. /\ f \in Kept(Latest(PrerollSize, Append(preroll, f)))
      /\ f \in Kept(Latest(MaxPending, Append(pending, f)))
  BY <1>1, FrameKept, Now
<1>6. f \in Sent(Append(wire, Audio(f)))
  <2>1. wire \in Seq(Message) /\ <<f>> \in Seq(Nat)
    BY <1>1, Now
  <2>2. Append(wire, Audio(f)) = wire \o AudioOf(<<f>>) /\ Kept(<<f>>) = {f}
    BY <1>1, <2>1, FrameSaid
  <2>3. Sent(wire \o AudioOf(<<f>>)) = Sent(wire) \cup Kept(<<f>>)
    BY <2>1, AudioSaid
  <2>. QED
    BY <2>2, <2>3
<1>7. session = "Listening" => preroll' = Latest(PrerollSize, Append(preroll, f))
  BY <1>1, <1>3 DEF PrerollWith, ToWire, ToPending
<1>8. session = "Connecting" /\ finalized = TRUE => preroll' = Latest(PrerollSize, Append(preroll, f))
  BY <1>1, <1>3 DEF PrerollWith, ToWire, ToPending
<1>9. session = "Connecting" /\ finalized = FALSE => pending' = Latest(MaxPending, Append(pending, f))
  BY <1>1, <1>3 DEF PendingWith, ToPending
<1>10. session = "Streaming" /\ paused = FALSE => wire' = Append(wire, Audio(f))
  BY <1>1, <1>3 DEF WireWith, ToWire
<1>11. session = "Streaming" /\ paused = TRUE => preroll' = Latest(PrerollSize, Append(preroll, f))
  BY <1>1, <1>3 DEF PrerollWith, ToWire, ToPending
<1>12. session = "Streaming" => f \in Sent(wire') \/ (paused = TRUE /\ f \in Kept(preroll'))
  BY <1>4, <1>5, <1>6, <1>10, <1>11
<1>. QED
  BY <1>1, <1>4, <1>5, <1>7, <1>8, <1>9, <1>12 DEF HeadKept

\* It stays where it is, or goes out when the connection is up.
LEMMA HeadKeptStep ==
  ASSUME Placed, TurnsKnown, HeadKept, ~Warmups, [Next]_vars
  PROVE  HeadKept'
<1>1. ASSUME UNCHANGED <<mode, frames, session, preroll, pending, wire, finalized>>,
             paused = TRUE => paused' = TRUE
      PROVE  HeadKept'
  BY <1>1 DEF HeadKept
<1>2. ASSUME frames' % 3 # 1 PROVE HeadKept'
  BY <1>2 DEF HeadKept
<1>3. ASSUME session' \in {"Closing", "Failed"} PROVE HeadKept'
  BY <1>3 DEF HeadKept
<1>4. CASE UNCHANGED vars
  BY <1>1, <1>4 DEF vars, audioVars, turnVars
<1>5. CASE Next
  <2>1. mode' = mode /\ frames \in Nat
    BY <1>5, Now DEF Next
  <2>2. CASE SpeechStep
    <3>1. CASE Onset
      BY <2>1, <3>1, OnsetKept
    <3>2. CASE ~Onset
      <4>1. frames' = frames + 1 /\ frames % 3 \in {1, 2}
        BY <2>2, <3>2 DEF SpeechStep, SpeechDeferred, SpeechConnects, SpeechContinues, SpeechQueued,
                          SpeechMissed, SpeechEnded, GateOpens, Speaking
      <4>2. frames' % 3 # 1
        BY <2>1, <4>1, Counted
      <4>. QED
        BY <1>2, <4>2
    <3>. QED
      BY <3>1, <3>2
  <2>3. ~WarmupStep
    BY DEF WarmupStep, WarmupStarts, WarmupEnds, TurnsKnown, Turned
  <2>4. CASE LinkStep
    <3>1. OthersThanServer
      BY <2>4 DEF LinkStep, LinkConnects, ServerHears, ServerFinalizes, ServerFinishes,
                  ServerSplits, ServerPartial, ServerNotifies, LinkBreaks
    <3>. QED
      BY <1>1, <2>1, <3>1 DEF OthersThanServer, audioVars, turnVars
  <2>5. CASE TextArrives \/ PartialArrives \/ FinArrives
    BY <1>1, <2>1, <2>5 DEF TextArrives, PartialArrives, FinArrives, audioVars, turnVars
  <2>6. CASE FinishedArrives \/ LostArrives
    <3>1. GateReset
      BY <2>6 DEF FinishedArrives, LostArrives
    <3>2. frames' % 3 = 0
      BY <2>1, <3>1, GatePasses
    <3>. QED
      BY <1>2, <3>2
  <2>7. CASE EndpointArrives \/ NoticeArrives
    <3>1. delayed = "none"
      BY DEF TurnsKnown, Turned
    <3>2. UNCHANGED <<frames, session, wire, preroll, pending, finalized>>
      BY <2>7, <3>1 DEF EndpointArrives, NoticeArrives, CloseDelayed, turnVars
    <3>3. paused = TRUE => paused' = TRUE
      BY <2>7 DEF EndpointArrives, NoticeArrives, turnVars
    <3>. QED
      BY <1>1, <2>1, <3>2, <3>3
  <2>8. CASE ConnectedArrives
    <3>1. CASE session = "Connecting"
      <4>1. delayed = "none" /\ finalized \in BOOLEAN
        BY DEF TurnsKnown, Turned, Placed, Flags
      <4>2. /\ session' = "Streaming" /\ wire' = wire \o AudioOf(pending)
            /\ UNCHANGED <<frames, preroll, paused>>
        BY <2>8, <3>1, <4>1 DEF ConnectedArrives
      <4>3. Sent(wire') = Sent(wire) \cup Kept(pending)
        BY <4>2, Now, AudioSaid
      <4>4. finalized = TRUE => mode = "client" \/ paused = TRUE
        BY <3>1 DEF Placed, Flow
      <4>5. CASE finalized = FALSE
        BY <2>1, <3>1, <4>2, <4>3, <4>5 DEF HeadKept
      <4>6. CASE finalized = TRUE
        BY <2>1, <3>1, <4>2, <4>4, <4>6 DEF HeadKept
      <4>. QED
        BY <4>1, <4>5, <4>6
    <3>2. CASE session # "Connecting"
      <4>1. UNCHANGED <<frames, session, wire, preroll, pending, finalized, paused>>
        BY <2>8, <3>2 DEF ConnectedArrives, turnVars
      <4>. QED
        BY <1>1, <2>1, <4>1
    <3>. QED
      BY <3>1, <3>2
  <2>9. CASE DrainStep
    BY <2>5, <2>6, <2>7, <2>8, <2>9 DEF DrainStep
  <2>10. CASE TimerStep
    <3>1. CASE IdleCloses \/ Fails
      BY <1>3, <3>1 DEF IdleCloses, Fails
    <3>2. CASE SessionTimeout \/ Recovers
      <4>1. GateReset
        BY <3>2 DEF SessionTimeout, Recovers
      <4>2. frames' % 3 = 0
        BY <2>1, <4>1, GatePasses
      <4>. QED
        BY <1>2, <4>2
    <3>. QED
      BY <2>10, <3>1, <3>2 DEF TimerStep
  <2>. QED
    BY <1>5, <2>2, <2>3, <2>4, <2>9, <2>10 DEF Next
<1>. QED
  BY <1>4, <1>5

\* What was sent of a frame is the message that carries it.
LEMMA SentAudio ==
  ASSUME NEW w \in Seq(Message), NEW f \in Sent(w)
  PROVE  \E i \in 1..Len(w) : w[i] = Audio(f)
<1>1. PICK i \in 1..Len(w) : w[i].what = "Audio" /\ w[i].frame = f
  BY DEF Sent, At
<1>2. w[i] \in Message
  BY <1>1, ElementOfSeq
<1>3. w[i] = Audio(f)
  BY <1>1, <1>2 DEF Audio, Message
<1>. QED
  BY <1>3

\* Where the server may end turns, a turn reaches it with its head, or the head is about to
\* be sent, when no warm-up holds speech back and the audio that waits for a connection has
\* room for two frames.
THEOREM HeadSentHolds == ~Warmups /\ MaxPending > 1 => (Spec => HeadSent)
<1>. SUFFICES ASSUME ~Warmups, MaxPending > 1 PROVE Spec => HeadSent
  OBVIOUS
<1>. DEFINE Act == mode # "client" /\ (SpeechContinues \/ SpeechQueued \/ SpeechConnects) =>
                     \/ \E i \in 1..Len(wire') : wire'[i] = Audio(frames)
                     \/ \E i \in 1..Len(pending') : pending'[i] = frames
            f == frames + 1
<1>1. ASSUME Placed, TurnsKnown, HeadKept, [Next]_vars PROVE [Act]_vars
  <2>. SUFFICES ASSUME Next, mode # "client", SpeechContinues \/ SpeechQueued \/ SpeechConnects
                PROVE  frames \in Sent(wire') \/ frames \in Kept(pending')
    <3>1. Placed'
      BY <1>1, PlacedStep
    <3>2. wire' \in Seq(Message)
      BY <3>1 DEF Placed, Buffers
    <3>3. frames \in Sent(wire') => \E i \in 1..Len(wire') : wire'[i] = Audio(frames)
      BY <3>2, SentAudio
    <3>4. frames \in Kept(pending') => \E i \in 1..Len(pending') : pending'[i] = frames
      BY DEF Kept
    <3>. QED
      BY <1>1, <3>3, <3>4 DEF Act
  <2>1. /\ frames % 3 = 1 /\ frames' = f /\ f \in Nat /\ warmup = FALSE
        /\ finalized \in BOOLEAN /\ paused \in BOOLEAN
    BY <1>1, Now DEF SpeechContinues, SpeechQueued, SpeechConnects, GateOpens, Placed, Flags
  <2>. HIDE DEF f
  <2>2. /\ MaxPending \in Nat \ {0} /\ preroll \in Seq(Nat) /\ pending \in Seq(Nat)
        /\ wire \in Seq(Message) /\ Rising(preroll) /\ Rising(pending)
        /\ \A g \in Kept(preroll) \cup Kept(pending) : g <= frames
    BY <1>1, Now DEF InLine
  <2>3. CASE SpeechConnects
    <3>1. pending' = Latest(MaxPending, Append(preroll, f)) /\ session = "Listening"
      BY <2>1, <2>3 DEF SpeechConnects, StartAsr
    <3>2. frames \in Kept(preroll)
      BY <1>1, <2>1, <3>1 DEF HeadKept
    <3>. QED
      BY <2>1, <2>2, <3>1, <3>2, FrameKept
  <2>4. CASE SpeechQueued
    <3>1. session = "Connecting"
      BY <2>4 DEF SpeechQueued
    <3>2. CASE finalized = TRUE
      <4>1. pending = <<>> /\ frames \in Kept(preroll)
        BY <1>1, <2>1, <3>1, <3>2 DEF HeadKept, TurnsKnown, Turned
      <4>2. pending' = Latest(MaxPending, pending \o Append(preroll, f))
        BY <2>1, <2>4, <3>2 DEF SpeechQueued
      <4>3. Append(preroll, f) \in Seq(Nat)
        BY <2>1, <2>2, KeptAppend
      <4>4. <<>> \o Append(preroll, f) = Append(preroll, f)
        BY <4>3, ConcatEmptySeq
      <4>5. pending' = Latest(MaxPending, Append(preroll, f))
        BY <4>1, <4>2, <4>4
      <4>. QED
        BY <2>1, <2>2, <4>1, <4>5, FrameKept
    <3>3. CASE finalized = FALSE
      <4>1. pending' = Latest(MaxPending, Append(pending, f)) /\ frames \in Kept(pending)
        BY <1>1, <2>1, <2>4, <3>1, <3>3 DEF HeadKept, SpeechQueued
      <4>. QED
        BY <2>1, <2>2, <4>1, FrameKept
    <3>. QED
      BY <2>1, <3>2, <3>3
  <2>5. CASE SpeechContinues
    <3>. DEFINE r == ResumedWith
                v == Append(wire, Command("Start"))
    <3>1. session = "Streaming" /\ wire' = v \o AudioOf(r) \o <<Audio(f)>>
      BY <2>1, <2>5 DEF SpeechContinues, Announced
    <3>2. v \in Seq(Message) /\ Sent(v) = Sent(wire)
      BY <2>2, CommandSaid
    <3>3. r \in Seq(Nat) /\ (paused = TRUE => r = preroll)
      BY <2>2, KeptEmpty DEF ResumedWith
    <3>. HIDE DEF v, r
    <3>4. v \o AudioOf(r) \in Seq(Message) /\ Sent(v \o AudioOf(r)) = Sent(wire) \cup Kept(r)
      BY <3>2, <3>3, AudioSaid
    <3>5. wire' = (v \o AudioOf(r)) \o AudioOf(<<f>>)
      BY <2>1, <3>1, <3>4, FrameSaid
    <3>6. Sent(wire') = Sent(v \o AudioOf(r)) \cup Kept(<<f>>)
      <4>1. <<f>> \in Seq(Nat)
        BY <2>1
      <4>. QED
        BY <3>4, <3>5, <4>1, AudioSaid
    <3>7. frames \in Sent(wire) \/ (paused = TRUE /\ frames \in Kept(preroll))
      BY <1>1, <2>1, <3>1 DEF HeadKept
    <3>. QED
      BY <3>3, <3>4, <3>6, <3>7
  <2>. QED
    BY <2>3, <2>4, <2>5
<1>2. Init => Placed /\ TurnsKnown /\ HeadKept
  <2>1. Init => HeadKept
    BY DEF Init, HeadKept
  <2>. QED
    BY <2>1, PlacedInit, TurnsKnownInit
<1>3. Placed /\ TurnsKnown /\ HeadKept /\ [Next]_vars => (Placed /\ TurnsKnown /\ HeadKept)'
  BY PlacedStep, TurnsKnownStep, HeadKeptStep
<1>4. Placed /\ TurnsKnown /\ HeadKept /\ [Next]_vars => [Act]_vars
  BY <1>1
<1>5. Spec => [][Act]_vars
  BY <1>2, <1>3, <1>4, PTL DEF Spec
<1>. QED
  BY <1>5 DEF HeadSent, Act

--------------------------------------------------------------------------------
(***************************************************************************)
(* Turns held back by a warm-up.                                           *)
(***************************************************************************)
Given(w) == {w[i].frame : i \in 1..Len(w)} \ {0}

\* The latest turn is not one whose end the gate has seen.
Unclosed == Speaking \/ closed # 3 * (frames \div 3)
\* Speech that was held back, or is, is taken to go on only while it has not ended.
Closings ==
  /\ closed \in Nat /\ closed <= frames
  /\ delayed = "speaking" => Unclosed
  /\ deferred # NotDeferred /\ deferred.ended = FALSE => Unclosed

\* A frame that was sent, to this connection or late to one before, waits nowhere else,
\* and none waits in two places.
Separate(A, P, R, D) ==
  A \cap P = {} /\ A \cap R = {} /\ A \cap D = {} /\ P \cap R = {} /\ P \cap D = {}
Gone == Given(wire) \cup late
Elsewhere ==
  /\ \A f \in Gone : f \in Nat /\ f # 0 /\ f <= frames
  /\ Separate(Gone, Kept(pending), Kept(preroll), Kept(deferred.audio))

\* A connection that was given a late turn is known to have one.
LateHeld == late \cap Given(wire) # {} => delayed = "ended"

Held == Closings /\ Elsewhere /\ LateHeld

\* What commands, audio and a frame add to what was given.
LEMMA GivenSaid ==
  /\ Given(<<>>) = {}
  /\ \A w \in Seq(Message), c \in {"Start", "Finalize", "Stop"} :
       Given(Append(w, Command(c))) = Given(w)
<1>1. Given(<<>>) = {}
  BY EmptySeq DEF Given
<1>2. ASSUME NEW w \in Seq(Message), NEW c \in {"Start", "Finalize", "Stop"}
      PROVE  Given(Append(w, Command(c))) = Given(w)
  <2>. DEFINE v == Append(w, Command(c))
  <2>1. Command(c) \in Message /\ Command(c).frame = 0
    BY DEF Command, Message
  <2>2. /\ Len(v) = Len(w) + 1 /\ Len(w) \in Nat /\ v[Len(w) + 1] = Command(c)
        /\ \A i \in 1..Len(w) : v[i] = w[i]
    BY <2>1, AppendProperties, LenProperties
  <2>. HIDE DEF v
  <2>3. \A i : i \in 1..Len(v) <=> i \in 1..Len(w) \/ i = Len(w) + 1
    BY <2>2
  <2>4. Given(v) = Given(w)
    BY <2>1, <2>2, <2>3 DEF Given
  <2>. QED
    BY <2>4 DEF v
<1>. QED
  BY <1>1, <1>2

\* What audio adds to it.
LEMMA GivenAudio ==
  ASSUME NEW w \in Seq(Message), NEW s \in Seq(Nat)
  PROVE  Given(w \o AudioOf(s)) = Given(w) \cup (Kept(s) \ {0})
<1>. DEFINE a == AudioOf(s)
            v == w \o a
<1>1. Len(s) \in Nat /\ Len(w) \in Nat /\ \A i \in 1..Len(s) : s[i] \in Nat
  BY LenProperties, ElementOfSeq
<1>2. /\ a \in Seq(Message) /\ Len(a) = Len(s)
      /\ \A i \in 1..Len(s) : a[i].frame = s[i]
  BY <1>1 DEF AudioOf, Audio, Message
<1>. HIDE DEF a
<1>3. /\ Len(v) = Len(w) + Len(s)
      /\ \A i \in 1..(Len(w) + Len(s)) : v[i] = IF i <= Len(w) THEN w[i] ELSE a[i - Len(w)]
  <2>1. a \in Seq(Message)
    BY <1>2
  <2>2. /\ Len(w \o a) = Len(w) + Len(a)
        /\ \A i \in 1..(Len(w) + Len(a)) :
             (w \o a)[i] = IF i <= Len(w) THEN w[i] ELSE a[i - Len(w)]
    BY <2>1, ConcatProperties
  <2>. QED
    BY <1>2, <2>2
<1>. HIDE DEF v
<1>4. ASSUME NEW i \in 1..Len(v) PROVE v[i].frame \in Given(w) \cup Kept(s) \cup {0}
  <2>1. CASE i <= Len(w)
    <3>1. i \in 1..Len(w) /\ v[i] = w[i]
      BY <1>1, <1>3, <2>1
    <3>. QED
      BY <3>1 DEF Given
  <2>2. CASE ~(i <= Len(w))
    <3>1. i - Len(w) \in 1..Len(s) /\ v[i] = a[i - Len(w)]
      BY <1>1, <1>3, <2>2
    <3>2. v[i].frame = s[i - Len(w)]
      BY <1>2, <3>1
    <3>. QED
      BY <3>1, <3>2 DEF Kept
  <2>. QED
    BY <2>1, <2>2
<1>5. ASSUME NEW i \in 1..Len(w) PROVE w[i].frame \in Given(v) \cup {0}
  <2>1. i \in 1..Len(v) /\ v[i] = w[i]
    BY <1>1, <1>3
  <2>. QED
    BY <2>1 DEF Given
<1>6. ASSUME NEW i \in 1..Len(s) PROVE s[i] \in Given(v) \cup {0}
  <2>1. /\ Len(w) + i \in 1..(Len(w) + Len(s)) /\ ~(Len(w) + i <= Len(w))
        /\ Len(w) + i - Len(w) = i
    BY <1>1
  <2>2. v[Len(w) + i] = a[i]
    BY <1>3, <2>1
  <2>3. Len(w) + i \in 1..Len(v) /\ v[Len(w) + i].frame = s[i]
    BY <1>2, <1>3, <2>1, <2>2
  <2>. QED
    BY <2>3 DEF Given
<1>7. Given(v) = Given(w) \cup (Kept(s) \ {0})
  <2>1. Given(v) \subseteq Given(w) \cup (Kept(s) \ {0})
    BY <1>4 DEF Given
  <2>2. Given(w) \subseteq Given(v)
    BY <1>5 DEF Given
  <2>3. Kept(s) \ {0} \subseteq Given(v)
    BY <1>6 DEF Kept
  <2>. QED
    BY <2>1, <2>2, <2>3
<1>. QED
  BY <1>7 DEF v, a

\* The state as these steps need it.
LEMMA HeldNow ==
  ASSUME Placed, Elsewhere
  PROVE  LET f == frames + 1
         IN  /\ f \in Nat /\ f # 0 /\ frames <= f
             /\ \A g \in Gone \cup Kept(pending) \cup Kept(preroll) \cup Kept(deferred.audio) :
                  g \in Nat /\ g # 0 /\ g <= frames /\ g # f
<1>1. /\ frames \in Nat
      /\ \A g \in Kept(pending) \cup Kept(preroll) : g \in Nat /\ g # 0 /\ g <= frames
      /\ \A g \in Kept(deferred.audio) : g \in Nat /\ g # 0 /\ g <= frames
  BY Now
<1>2. \A g \in Gone : g \in Nat /\ g # 0 /\ g <= frames
  BY DEF Elsewhere
<1>. QED
  BY <1>1, <1>2

\* A frame goes to one place.
LEMMA FrameElsewhere ==
  ASSUME Placed, Elsewhere
  PROVE  LET f == frames + 1
         IN  /\ Given(WireWith(f)) \subseteq Given(wire) \cup {f}
             /\ Separate(Given(WireWith(f)) \cup late, Kept(PendingWith(f)), Kept(PrerollWith(f)),
                         Kept(HeldWith(f).audio))
             /\ Kept(PendingWith(f)) \subseteq Kept(pending) \cup {f}
<1>. DEFINE f == frames + 1
            w == WireWith(f)
            p == PendingWith(f)
            r == PrerollWith(f)
            d == HeldWith(f).audio
            news == Kept(pending) \cup Kept(preroll) \cup Kept(deferred.audio) \cup Gone
<1>1. /\ f \in Nat /\ f # 0 /\ f \notin news
      /\ Separate(Gone, Kept(pending), Kept(preroll), Kept(deferred.audio))
  BY HeldNow DEF Elsewhere
<1>2. /\ wire \in Seq(Message) /\ pending \in Seq(Nat) /\ preroll \in Seq(Nat)
      /\ deferred.audio \in Seq(Nat) /\ MaxPending \in Nat \ {0} /\ PrerollSize \in Nat \ {0}
  BY Now
<1>. HIDE DEF f
<1>3. /\ Kept(Append(deferred.audio, f)) = Kept(deferred.audio) \cup {f}
      /\ Kept(Latest(MaxPending, Append(pending, f))) \subseteq Kept(pending) \cup {f}
      /\ Kept(Latest(PrerollSize, Append(preroll, f))) \subseteq Kept(preroll) \cup {f}
  <2>1. /\ Kept(Append(deferred.audio, f)) = Kept(deferred.audio) \cup {f}
        /\ Append(pending, f) \in Seq(Nat) /\ Kept(Append(pending, f)) = Kept(pending) \cup {f}
        /\ Append(preroll, f) \in Seq(Nat) /\ Kept(Append(preroll, f)) = Kept(preroll) \cup {f}
    BY <1>1, <1>2, KeptAppend
  <2>2. Kept(Latest(MaxPending, Append(pending, f))) \subseteq Kept(Append(pending, f))
    BY <1>2, <2>1, LatestKept
  <2>3. Kept(Latest(PrerollSize, Append(preroll, f))) \subseteq Kept(Append(preroll, f))
    BY <1>2, <2>1, LatestKept
  <2>. QED
    BY <2>1, <2>2, <2>3
<1>4. Given(Append(wire, Audio(f))) = Given(wire) \cup {f}
  <2>1. <<f>> \in Seq(Nat) /\ Kept(<<f>>) = {f} /\ Append(wire, Audio(f)) = wire \o AudioOf(<<f>>)
    BY <1>1, <1>2, FrameSaid
  <2>2. Given(wire \o AudioOf(<<f>>)) = Given(wire) \cup (Kept(<<f>>) \ {0})
    BY <1>2, <2>1, GivenAudio
  <2>. QED
    BY <1>1, <2>1, <2>2
<1>5. w = wire \/ (w = Append(wire, Audio(f)) /\ ToWire)
  BY DEF WireWith
<1>6. p = pending \/ (p = Latest(MaxPending, Append(pending, f)) /\ ToPending)
  BY DEF PendingWith
<1>7. r = preroll \/ (r = Latest(PrerollSize, Append(preroll, f)) /\ ~ToWire /\ ~ToPending)
  BY DEF PrerollWith
<1>8. d = deferred.audio \/ (d = Append(deferred.audio, f) /\ Deferring)
  <2>1. deferred = [audio |-> deferred.audio, ended |-> deferred.ended]
    BY DEF Placed, Buffers
  <2>2. CASE Deferring
    <3>1. HeldWith(f) = [deferred EXCEPT !.audio = Append(deferred.audio, f)]
      BY <2>2 DEF HeldWith
    <3>. QED
      BY <2>1, <2>2, <3>1
  <2>3. CASE ~Deferring
    BY <2>3 DEF HeldWith
  <2>. QED
    BY <2>2, <2>3
<1>9. Deferring => w = wire /\ p = pending /\ r = preroll
  BY DEF WireWith, PendingWith, PrerollWith
<1>10. ~(ToWire /\ ToPending)
  BY DEF ToWire, ToPending
<1>. HIDE DEF w, p, r, d
<1>11. Given(w) \subseteq Given(wire) \cup {f} /\ Kept(p) \subseteq Kept(pending) \cup {f}
  BY <1>3, <1>4, <1>5, <1>6
<1>12. Separate(Given(w) \cup late, Kept(p), Kept(r), Kept(d))
  <2>. USE DEF Separate, Gone
  <2>1. CASE Deferring
    BY <1>1, <1>3, <1>8, <1>9, <2>1
  <2>2. CASE ~Deferring /\ w # wire
    <3>1. w = Append(wire, Audio(f)) /\ p = pending /\ r = preroll /\ d = deferred.audio
      BY <1>5, <1>6, <1>7, <1>8, <1>10, <2>2
    <3>2. Given(w) = Given(wire) \cup {f}
      BY <1>4, <3>1
    <3>. QED
      BY <1>1, <3>1, <3>2
  <2>3. CASE ~Deferring /\ p # pending
    BY <1>1, <1>3, <1>5, <1>6, <1>7, <1>8, <1>10, <2>3
  <2>4. CASE ~Deferring /\ w = wire /\ p = pending
    BY <1>1, <1>3, <1>7, <1>8, <2>4
  <2>. QED
    BY <2>1, <2>2, <2>3, <2>4
<1>. QED
  BY <1>11, <1>12 DEF f, w, p, r, d

\* The end of speech sends what is pending.
LEMMA FinishElsewhere ==
  ASSUME Placed, NEW state, NEW before \in Seq(Nat), NEW queued \in Seq(Nat),
         NEW sent \in Seq(Message), FinishSpeech(state, before, queued, sent),
         NEW L, NEW D, Separate(Given(sent) \cup L, Kept(queued), Kept(before), D)
  PROVE  /\ Given(wire') \subseteq Given(sent) \cup Kept(queued)
         /\ Separate(Given(wire') \cup L, Kept(pending'), Kept(preroll'), D)
<1>1. /\ sent \o AudioOf(queued) \in Seq(Message)
      /\ Given(sent \o AudioOf(queued)) = Given(sent) \cup (Kept(queued) \ {0})
  BY AudioSaid, GivenAudio
<1>2. /\ Given(Append(sent \o AudioOf(queued), Command("Finalize"))) = Given(sent) \cup (Kept(queued) \ {0})
      /\ Kept(<<>>) = {}
  BY <1>1, GivenSaid, KeptEmpty
<1>3. mode \in {"client", "server", "both"}
  BY DEF Placed, Buffers
<1>4. \/ /\ wire' = Append(sent \o AudioOf(queued), Command("Finalize")) /\ pending' = <<>>
         /\ preroll' = <<>> \/ preroll' = before
      \/ wire' = sent /\ pending' = queued /\ preroll' = before
  BY <1>3, SpeechFinished
<1>. QED
  BY <1>1, <1>2, <1>4 DEF Separate

\* Time goes on, and what has not ended has not.
LEMMA UnclosedKept ==
  ASSUME frames \in Nat, Closings, closed' = closed,
         \/ frames' = frames
         \/ frames % 3 \in {0, 1} /\ frames' = frames + 1
         \/ GateReset
  PROVE  closed' \in Nat /\ closed' <= frames' /\ (Unclosed => Unclosed')
<1>1. closed \in Nat /\ closed <= frames
  BY DEF Closings
<1>2. CASE frames' = frames
  BY <1>1, <1>2 DEF Unclosed, Speaking
<1>3. CASE frames % 3 = 0 /\ frames' = frames + 1
  <2>1. frames' \div 3 = frames \div 3 /\ ~Speaking
    BY <1>3 DEF Speaking
  <2>. QED
    BY <1>1, <1>3, <2>1 DEF Unclosed
<1>4. CASE frames % 3 = 1 /\ frames' = frames + 1
  <2>1. Speaking'
    BY <1>4 DEF Speaking
  <2>. QED
    BY <1>1, <1>4, <2>1 DEF Unclosed
<1>5. CASE GateReset
  <2>1. frames' \in Nat /\ frames <= frames' /\ frames' % 3 = 0
    BY <1>5, GatePasses
  <2>2. CASE frames' = frames
    BY <1>1, <1>2, <2>2
  <2>3. CASE frames < frames'
    <3>1. \A n \in Nat : n % 3 = 0 => 3 * (n \div 3) = n
      OBVIOUS
    <3>2. 3 * (frames' \div 3) = frames'
      BY <2>1, <3>1
    <3>3. closed' \in Nat /\ closed' < frames'
      BY <1>1, <2>1, <2>3
    <3>4. closed' # frames'
      BY <2>1, <3>3
    <3>5. Unclosed'
      BY <3>2, <3>4 DEF Unclosed
    <3>. QED
      BY <2>1, <3>3, <3>5
  <2>. QED
    BY <1>1, <2>1, <2>2, <2>3
<1>. QED
  BY <1>2, <1>3, <1>4, <1>5

\* A frame before the gate opens belongs to no turn that is late.
LEMMA OnsetHeld ==
  ASSUME Placed, Held, Onset, mode' = mode
  PROVE  Held'
<1>. DEFINE f == frames + 1
<1>1. /\ frames % 3 = 0 /\ frames' = f /\ UNCHANGED <<delayed, closed, late>>
      /\ wire' = WireWith(f) /\ pending' = PendingWith(f) /\ preroll' = PrerollWith(f)
      /\ deferred' = HeldWith(f)
  BY DEF Onset, turnVars, histVars
<1>2. frames \in Nat /\ Closings /\ Elsewhere /\ LateHeld
  BY Now DEF Held
<1>3. closed' \in Nat /\ closed' <= frames' /\ (Unclosed => Unclosed')
  BY <1>1, <1>2, UnclosedKept
<1>4. /\ Given(wire') \subseteq Given(wire) \cup {f}
      /\ Separate(Given(wire') \cup late, Kept(pending'), Kept(preroll'), Kept(deferred'.audio))
  BY <1>1, <1>2, FrameElsewhere
<1>5. deferred' # NotDeferred => deferred # NotDeferred /\ deferred'.ended = deferred.ended
  BY <1>1, FrameHandled DEF HeldWith, Deferring
<1>6. /\ f \in Nat /\ f # 0 /\ \A g \in Gone : g \in Nat /\ g # 0 /\ g <= f /\ g # f
  <2>1. frames <= f /\ f \in Nat /\ f # 0 /\ \A g \in Gone : g \in Nat /\ g # 0 /\ g <= frames /\ g # f
    BY <1>2, HeldNow
  <2>. HIDE DEF f
  <2>. QED
    BY <1>2, <2>1
<1>. HIDE DEF f
<1>7. Closings'
  BY <1>1, <1>2, <1>3, <1>5 DEF Closings
<1>8. Elsewhere'
  BY <1>1, <1>4, <1>6 DEF Elsewhere, Gone
<1>9. LateHeld'
  BY <1>1, <1>2, <1>4, <1>6 DEF LateHeld, Gone
<1>. QED
  BY <1>7, <1>8, <1>9 DEF Held

\* The gate opens, and what was kept goes where the frame goes.
LEMMA OpensHeld ==
  ASSUME Placed, Held, mode' = mode,
         SpeechDeferred \/ SpeechConnects \/ SpeechContinues \/ SpeechQueued \/ SpeechMissed
  PROVE  Held'
<1>. DEFINE f == frames + 1
            A == Gone
            P == Kept(pending)
            R == Kept(preroll)
            D == Kept(deferred.audio)
<1>1. /\ frames % 3 = 1 /\ frames' = f /\ UNCHANGED <<delayed, closed, late>>
  BY DEF SpeechDeferred, SpeechConnects, SpeechContinues, SpeechQueued, SpeechMissed, GateOpens,
         histVars
<1>2. frames \in Nat /\ Closings /\ Elsewhere /\ LateHeld
  BY Now DEF Held
<1>3. closed' \in Nat /\ closed' <= frames' /\ (Unclosed => Unclosed') /\ Unclosed'
  <2>1. closed' \in Nat /\ closed' <= frames' /\ (Unclosed => Unclosed')
    BY <1>1, <1>2, UnclosedKept
  <2>2. Speaking'
    BY <1>1, <1>2 DEF Speaking
  <2>. QED
    BY <2>1, <2>2 DEF Unclosed
<1>4. Closings'
  BY <1>1, <1>3 DEF Closings
<1>5. /\ f \in Nat /\ f # 0 /\ f \notin A \cup P \cup R \cup D
      /\ \A g \in A \cup P \cup R \cup D : g \in Nat /\ g # 0 /\ g <= f
  <2>1. /\ f \in Nat /\ f # 0 /\ frames <= f
        /\ \A g \in A \cup P \cup R \cup D : g \in Nat /\ g # 0 /\ g <= frames /\ g # f
    BY <1>2, HeldNow
  <2>. HIDE DEF f, A, P, R, D
  <2>. QED
    BY <1>2, <2>1
<1>6. Separate(A, P, R, D) /\ A = Given(wire) \cup late
  BY <1>2 DEF Elsewhere, Gone
<1>7. /\ wire \in Seq(Message) /\ pending \in Seq(Nat) /\ preroll \in Seq(Nat)
      /\ deferred.audio \in Seq(Nat) /\ MaxPending \in Nat \ {0} /\ PrerollSize \in Nat \ {0}
      /\ paused \in BOOLEAN /\ warmup \in BOOLEAN /\ finalized \in BOOLEAN
  BY Now DEF Placed, Flags
<1>8. deferred # NotDeferred => warmup = TRUE
  BY DEF Placed, Flow
<1>9. deferred = NotDeferred => D = {}
  BY KeptEmpty DEF NotDeferred
<1>. HIDE DEF f
<1>10. /\ Append(preroll, f) \in Seq(Nat) /\ Kept(Append(preroll, f)) = R \cup {f}
       /\ Append(pending, f) \in Seq(Nat) /\ Kept(Append(pending, f)) = P \cup {f}
       /\ Append(deferred.audio, f) \in Seq(Nat) /\ Kept(Append(deferred.audio, f)) = D \cup {f}
  BY <1>5, <1>7, KeptAppend
<1>11. Kept(<<>>) = {}
  BY KeptEmpty
<1>. HIDE DEF A, P, R, D
<1>12. ASSUME Given(wire') \subseteq A \cup R \cup {f}, late \cap Given(wire') \subseteq late \cap Given(wire),
              Separate(Given(wire') \cup late, Kept(pending'), Kept(preroll'), Kept(deferred'.audio))
       PROVE  Held'
  <2>1. Elsewhere'
    BY <1>1, <1>5, <1>6, <1>12 DEF Elsewhere, Gone
  <2>2. LateHeld'
    BY <1>1, <1>2, <1>12 DEF LateHeld
  <2>. QED
    BY <1>4, <2>1, <2>2 DEF Held
<1>13. CASE SpeechDeferred
  <2>1. /\ UNCHANGED <<pending, wire>> /\ preroll' = <<>>
        /\ deferred'.audio = Append(preroll, f) \/ deferred'.audio = Append(deferred.audio, f)
    BY <1>1, <1>13 DEF SpeechDeferred
  <2>2. Kept(pending') = P /\ Kept(preroll') = {}
    BY <1>11, <2>1 DEF P
  <2>3. Kept(deferred'.audio) \subseteq R \cup D \cup {f}
    BY <1>10, <2>1
  <2>4. Separate(Given(wire') \cup late, Kept(pending'), Kept(preroll'), Kept(deferred'.audio))
    BY <1>5, <1>6, <2>1, <2>2, <2>3 DEF Separate
  <2>. QED
    BY <1>6, <1>12, <2>1, <2>4
<1>14. ASSUME ~SpeechDeferred PROVE deferred' = deferred /\ Kept(deferred'.audio) = {} /\ D = {}
  <2>1. deferred' = deferred /\ warmup = FALSE
    BY <1>7, <1>14 DEF SpeechConnects, SpeechContinues, SpeechQueued, SpeechMissed
  <2>. QED
    BY <1>8, <1>9, <2>1 DEF D
<1>15. CASE SpeechConnects /\ ~SpeechDeferred
  <2>1. /\ wire' = <<Command("Start")>> /\ pending' = Latest(MaxPending, Append(preroll, f))
        /\ preroll' = <<>>
    BY <1>1, <1>15 DEF SpeechConnects, StartAsr
  <2>2. Given(wire') = {}
    <3>1. wire' = Append(<<>>, Command("Start")) /\ <<>> \in Seq(Message)
      BY <2>1, NothingSaid
    <3>. QED
      BY <3>1, GivenSaid
  <2>3. Kept(pending') \subseteq R \cup {f} /\ Kept(preroll') = {}
    BY <1>7, <1>10, <1>11, <2>1, LatestKept
  <2>4. Separate(Given(wire') \cup late, Kept(pending'), Kept(preroll'), Kept(deferred'.audio))
    BY <1>5, <1>6, <1>14, <1>15, <2>2, <2>3 DEF Separate
  <2>. QED
    BY <1>12, <2>2, <2>4
<1>16. CASE SpeechContinues /\ ~SpeechDeferred
  <2>. DEFINE r == ResumedWith
              v == Append(wire, Command("Start"))
  <2>1. /\ wire' = v \o AudioOf(r) \o <<Audio(f)>> /\ pending' = pending
        /\ preroll' = (IF paused THEN <<>> ELSE preroll)
    BY <1>1, <1>16 DEF SpeechContinues, Announced
  <2>2. v \in Seq(Message) /\ Given(v) = Given(wire)
    BY <1>7, CommandSaid, GivenSaid
  <2>3. /\ r \in Seq(Nat)
        /\ \/ Kept(r) = R /\ preroll' = <<>>
           \/ Kept(r) = {} /\ preroll' = preroll
    BY <1>7, <1>11, <2>1, KeptEmpty DEF ResumedWith, R
  <2>. HIDE DEF v, r
  <2>4. v \o AudioOf(r) \in Seq(Message) /\ Given(v \o AudioOf(r)) = Given(wire) \cup (Kept(r) \ {0})
    BY <2>2, <2>3, AudioSaid, GivenAudio
  <2>5. <<f>> \in Seq(Nat) /\ Kept(<<f>>) = {f} /\ wire' = (v \o AudioOf(r)) \o AudioOf(<<f>>)
    BY <1>5, <2>1, <2>4, FrameSaid
  <2>6. Given((v \o AudioOf(r)) \o AudioOf(<<f>>)) = Given(v \o AudioOf(r)) \cup (Kept(<<f>>) \ {0})
    BY <2>4, <2>5, GivenAudio
  <2>7. Given(wire') = Given(wire) \cup (Kept(r) \ {0}) \cup {f}
    BY <1>5, <2>4, <2>5, <2>6
  <2>8. Kept(pending') = P /\ ((Kept(r) = R /\ Kept(preroll') = {}) \/ (Kept(r) = {} /\ Kept(preroll') = R))
    BY <1>11, <2>1, <2>3 DEF P, R
  <2>9. Separate(Given(wire') \cup late, Kept(pending'), Kept(preroll'), Kept(deferred'.audio))
    BY <1>5, <1>6, <1>14, <1>16, <2>7, <2>8 DEF Separate
  <2>10. Given(wire') \subseteq A \cup R \cup {f} /\ late \cap Given(wire') \subseteq late \cap Given(wire)
    BY <1>5, <1>6, <2>7, <2>8 DEF Separate
  <2>. QED
    BY <1>12, <2>9, <2>10
<1>17. CASE SpeechQueued /\ ~SpeechDeferred
  <2>1. Given(wire') = Given(wire)
    BY <1>7, <1>17, GivenSaid DEF SpeechQueued, Announced
  <2>2. CASE finalized = TRUE
    <3>1. preroll' = <<>> /\ pending' = Latest(MaxPending, pending \o Append(preroll, f))
      BY <1>1, <1>17, <2>2 DEF SpeechQueued
    <3>2. /\ pending \o Append(preroll, f) \in Seq(Nat)
          /\ Kept(pending \o Append(preroll, f)) = P \cup R \cup {f}
      <4>1. /\ pending \o Append(preroll, f) \in Seq(Nat)
            /\ Kept(pending \o Append(preroll, f)) = Kept(pending) \cup Kept(Append(preroll, f))
        BY <1>7, <1>10, KeptConcat
      <4>. QED
        BY <1>10, <4>1 DEF P
    <3>3. Kept(pending') \subseteq P \cup R \cup {f} /\ Kept(preroll') = {}
      BY <1>7, <1>11, <3>1, <3>2, LatestKept
    <3>4. Separate(Given(wire') \cup late, Kept(pending'), Kept(preroll'), Kept(deferred'.audio))
      BY <1>5, <1>6, <1>14, <1>17, <2>1, <3>3 DEF Separate
    <3>. QED
      BY <1>6, <1>12, <2>1, <3>4
  <2>3. CASE finalized = FALSE
    <3>1. preroll' = preroll /\ pending' = Latest(MaxPending, Append(pending, f))
      BY <1>1, <1>17, <2>3 DEF SpeechQueued
    <3>2. Kept(pending') \subseteq P \cup {f} /\ Kept(preroll') = R
      BY <1>7, <1>10, <3>1, LatestKept DEF R
    <3>3. Separate(Given(wire') \cup late, Kept(pending'), Kept(preroll'), Kept(deferred'.audio))
      BY <1>5, <1>6, <1>14, <1>17, <2>1, <3>2 DEF Separate
    <3>. QED
      BY <1>6, <1>12, <2>1, <3>3
  <2>. QED
    BY <1>7, <2>2, <2>3
<1>18. CASE SpeechMissed /\ ~SpeechDeferred
  <2>1. UNCHANGED <<pending, wire>> /\ preroll' = Latest(PrerollSize, Append(preroll, f))
    BY <1>1, <1>18 DEF SpeechMissed
  <2>2. Kept(preroll') \subseteq R \cup {f} /\ Kept(pending') = P
    BY <1>7, <1>10, <2>1, LatestKept DEF P
  <2>3. Separate(Given(wire') \cup late, Kept(pending'), Kept(preroll'), Kept(deferred'.audio))
    BY <1>5, <1>6, <1>14, <1>18, <2>1, <2>2 DEF Separate
  <2>. QED
    BY <1>6, <1>12, <2>1, <2>3
<1>. QED
  BY <1>13, <1>15, <1>16, <1>17, <1>18

\* The gate closes: what was held back is known to have ended.
LEMMA EndHeld ==
  ASSUME Placed, Held, SpeechEnded, mode' = mode
  PROVE  Held'
<1>. DEFINE f == frames + 1
            w == WireWith(f)
            p == PendingWith(f)
            r == PrerollWith(f)
<1>1. /\ frames' = f /\ closed' = f /\ late' = late
      /\ delayed' = IF delayed = "none" THEN "none" ELSE "ended"
  BY DEF SpeechEnded, EndSeen
<1>2. Closings /\ Elsewhere /\ LateHeld
  BY DEF Held
<1>3. /\ f \in Nat /\ f # 0
      /\ \A g \in Gone \cup Kept(pending) : g \in Nat /\ g # 0 /\ g <= f /\ g # f
  <2>1. /\ f \in Nat /\ f # 0 /\ frames <= f /\ frames \in Nat
        /\ \A g \in Gone \cup Kept(pending) : g \in Nat /\ g # 0 /\ g <= frames /\ g # f
    BY <1>2, HeldNow, Now
  <2>. HIDE DEF f
  <2>. QED
    BY <2>1
<1>4. Separate(Gone, Kept(pending), Kept(preroll), Kept(deferred.audio))
  BY <1>2 DEF Elsewhere
<1>5. /\ Given(w) \subseteq Given(wire) \cup {f} /\ Kept(p) \subseteq Kept(pending) \cup {f}
      /\ Separate(Given(w) \cup late, Kept(p), Kept(r), Kept(HeldWith(f).audio))
  BY <1>2, FrameElsewhere
<1>6. /\ Given(wire') \subseteq Given(wire) \cup Kept(pending) \cup {f}
      /\ Separate(Given(wire') \cup late, Kept(pending'), Kept(preroll'), Kept(deferred'.audio))
      /\ deferred' # NotDeferred => deferred'.ended = TRUE
  <2>1. CASE Deferring
    <3>1. /\ deferred' = [audio |-> Append(deferred.audio, f), ended |-> TRUE]
          /\ UNCHANGED <<wire, pending, preroll>>
      BY <1>1, <2>1 DEF SpeechEnded
    <3>2. w = wire /\ p = pending /\ r = preroll
      BY <2>1 DEF WireWith, PendingWith, PrerollWith
    <3>3. HeldWith(f) = [audio |-> Append(deferred.audio, f), ended |-> deferred.ended]
      <4>1. deferred = [audio |-> deferred.audio, ended |-> deferred.ended]
        BY DEF Placed, Buffers
      <4>. QED
        BY <2>1, <4>1 DEF HeldWith
    <3>4. deferred'.audio = HeldWith(f).audio /\ deferred'.ended = TRUE
      BY <3>1, <3>3
    <3>. HIDE DEF w, p, r, f
    <3>. QED
      BY <1>5, <3>1, <3>2, <3>4
  <2>2. CASE ~Deferring
    <3>1. FinishSpeech(session, r, p, w) /\ deferred' = deferred /\ deferred = NotDeferred
      BY <1>1, <2>2 DEF SpeechEnded, Deferring
    <3>2. HeldWith(f) = deferred
      BY <2>2 DEF HeldWith
    <3>3. w \in Seq(Message) /\ p \in Seq(Nat) /\ r \in Seq(Nat)
      BY FrameHandled
    <3>. HIDE DEF w, p, r, f
    <3>4. Separate(Given(w) \cup late, Kept(p), Kept(r), Kept(deferred.audio))
      BY <1>5, <3>2
    <3>5. /\ Given(wire') \subseteq Given(w) \cup Kept(p)
          /\ Separate(Given(wire') \cup late, Kept(pending'), Kept(preroll'), Kept(deferred.audio))
      BY <3>1, <3>3, <3>4, FinishElsewhere
    <3>. QED
      BY <1>5, <3>1, <3>5
  <2>. QED
    BY <2>1, <2>2
<1>. HIDE DEF f, w, p, r
<1>7. Closings'
  BY <1>1, <1>3, <1>6 DEF Closings
<1>8. Elsewhere'
  BY <1>1, <1>3, <1>6 DEF Elsewhere, Gone
<1>9. LateHeld'
  <2>1. late \cap Given(wire') \subseteq late \cap Given(wire)
    BY <1>3, <1>4, <1>6 DEF Gone, Separate
  <2>. QED
    BY <1>1, <1>2, <2>1 DEF LateHeld
<1>. QED
  BY <1>7, <1>8, <1>9 DEF Held

\* The end of a warm-up hands over what was held back, ended or not.
LEMMA WarmupHeld ==
  ASSUME Placed, Held, WarmupStep, mode' = mode
  PROVE  Held'
<1>1. Closings /\ Elsewhere /\ LateHeld /\ frames \in Nat
  BY Now DEF Held
<1>2. UNCHANGED <<frames, preroll, closed, late>>
  BY DEF WarmupStep, WarmupStarts, WarmupEnds, audioVars, histVars
<1>3. closed' \in Nat /\ closed' <= frames' /\ (Unclosed => Unclosed')
  BY <1>1, <1>2, UnclosedKept
<1>4. Kept(<<>>) = {}
  BY KeptEmpty
<1>5. CASE UNCHANGED <<wire, pending, delayed>> /\ (deferred' = deferred \/ deferred' = NotDeferred)
  <2>1. Closings'
    BY <1>1, <1>3, <1>5 DEF Closings
  <2>2. Kept(deferred'.audio) \subseteq Kept(deferred.audio)
    BY <1>4, <1>5 DEF NotDeferred
  <2>3. Elsewhere' /\ LateHeld'
    BY <1>1, <1>2, <1>5, <2>2 DEF Elsewhere, Gone, Separate, LateHeld
  <2>. QED
    BY <2>1, <2>3 DEF Held
<1>6. CASE WarmupStarts
  BY <1>5, <1>6 DEF WarmupStarts, audioVars, turnVars
<1>7. CASE WarmupEnds /\ ~(Deferring /\ session = "Listening")
  BY <1>5, <1>7 DEF WarmupEnds
<1>8. CASE WarmupEnds /\ Deferring /\ session = "Listening"
  <2>1. /\ wire' = <<Command("Start")>> /\ pending' = deferred.audio /\ deferred' = NotDeferred
        /\ delayed' = (IF deferred.ended THEN "ended" ELSE "speaking") /\ deferred # NotDeferred
        /\ deferred.ended \in BOOLEAN
    BY <1>8 DEF WarmupEnds, StartAsr, Deferring, Placed, Flags
  <2>2. Given(wire') = {}
    <3>1. wire' = Append(<<>>, Command("Start")) /\ <<>> \in Seq(Message)
      BY <2>1, NothingSaid
    <3>. QED
      BY <3>1, GivenSaid
  <2>3. Closings'
    BY <1>1, <1>3, <2>1 DEF Closings
  <2>4. Kept(deferred'.audio) = {} /\ Kept(pending') = Kept(deferred.audio) /\ Kept(preroll') = {}
    <3>1. preroll = <<>>
      BY <2>1 DEF Placed, Flow
    <3>. QED
      BY <1>2, <1>4, <2>1, <3>1 DEF NotDeferred
  <2>5. Elsewhere' /\ LateHeld'
    BY <1>1, <1>2, <2>2, <2>4 DEF Elsewhere, Gone, Separate, LateHeld
  <2>. QED
    BY <2>3, <2>5 DEF Held
<1>. QED
  BY <1>6, <1>7, <1>8 DEF WarmupStep

\* The connection is up: what waited for it goes out, and if that is late it is known to be.
LEMMA ConnectedHeld ==
  ASSUME Placed, Held, ConnectedArrives, mode' = mode, session = "Connecting"
  PROVE  Held'
<1>. DEFINE v == wire \o AudioOf(pending)
<1>1. Closings /\ Elsewhere /\ LateHeld /\ frames \in Nat
  BY Now DEF Held
<1>2. /\ UNCHANGED <<frames, deferred, closed>>
      /\ late' = (IF delayed # "none" /\ TurnOver
                  THEN late \cup ({wire'[i].frame : i \in 1..Len(wire')} \ {0}) ELSE late)
      /\ \/ delayed = "ended" /\ delayed' = delayed /\ FinishSpeech("Streaming", preroll, <<>>, v)
         \/ /\ delayed # "ended" /\ delayed' = "none" /\ wire' = v /\ pending' = <<>>
            /\ preroll' = preroll
  BY DEF ConnectedArrives
<1>3. late' \subseteq late \cup Given(wire') /\ late \subseteq late'
      /\ (delayed = "none" => late' = late)
  BY <1>2 DEF Given
<1>4. wire \in Seq(Message) /\ pending \in Seq(Nat) /\ preroll \in Seq(Nat)
  BY Now
<1>5. v \in Seq(Message) /\ Given(v) = Given(wire) \cup (Kept(pending) \ {0})
  BY <1>4, AudioSaid, GivenAudio
<1>6. Kept(<<>>) = {} /\ <<>> \in Seq(Nat)
  BY KeptEmpty
<1>. HIDE DEF v
<1>7. /\ Separate(Gone, Kept(pending), Kept(preroll), Kept(deferred.audio))
      /\ \A g \in Gone \cup Kept(pending) : g \in Nat /\ g # 0 /\ g <= frames
  BY <1>1, HeldNow DEF Elsewhere
<1>8. Separate(Given(v) \cup late, Kept(<<>>), Kept(preroll), Kept(deferred.audio))
  BY <1>5, <1>6, <1>7 DEF Separate, Gone
<1>9. /\ Given(wire') \subseteq Given(wire) \cup Kept(pending)
      /\ Separate(Given(wire') \cup late, Kept(pending'), Kept(preroll'), Kept(deferred'.audio))
  <2>1. CASE FinishSpeech("Streaming", preroll, <<>>, v)
    <3>1. /\ Given(wire') \subseteq Given(v) \cup Kept(<<>>)
          /\ Separate(Given(wire') \cup late, Kept(pending'), Kept(preroll'), Kept(deferred.audio))
      BY <1>4, <1>5, <1>6, <1>8, <2>1, FinishElsewhere
    <3>. QED
      BY <1>2, <1>5, <1>6, <3>1
  <2>2. CASE wire' = v /\ pending' = <<>> /\ preroll' = preroll
    BY <1>2, <1>5, <1>8, <2>2
  <2>. QED
    BY <1>2, <2>1, <2>2
<1>10. Closings'
  <2>1. closed' \in Nat /\ closed' <= frames' /\ (Unclosed => Unclosed')
    BY <1>1, <1>2, UnclosedKept
  <2>2. delayed' # "speaking"
    BY <1>2
  <2>. QED
    BY <1>1, <1>2, <2>1, <2>2 DEF Closings
<1>11. Elsewhere'
  <2>1. Given(wire') \cup late' = Given(wire') \cup late
    BY <1>3
  <2>2. \A g \in Given(wire') \cup late : g \in Nat /\ g # 0 /\ g <= frames
    BY <1>7, <1>9 DEF Gone
  <2>. QED
    BY <1>2, <1>9, <2>1, <2>2 DEF Elsewhere, Gone
<1>12. LateHeld'
  <2>1. late \cap Given(wire') \subseteq late \cap Given(wire)
    BY <1>7, <1>9 DEF Separate, Gone
  <2>2. CASE delayed = "ended"
    BY <1>2, <2>2 DEF LateHeld
  <2>3. CASE delayed # "ended"
    <3>1. late \cap Given(wire') = {}
      BY <1>1, <2>1, <2>3 DEF LateHeld
    <3>2. delayed = "none" \/ ~TurnOver
      <4>1. delayed \in {"none", "speaking"}
        BY <2>3 DEF Placed, Buffers
      <4>2. TurnOver => ~Unclosed
        BY DEF TurnOver, Unclosed
      <4>. QED
        BY <1>1, <4>1, <4>2 DEF Closings
    <3>3. late' = late
      BY <1>2, <3>2
    <3>. QED
      BY <3>1, <3>3 DEF LateHeld
  <2>. QED
    BY <2>2, <2>3
<1>. QED
  BY <1>10, <1>11, <1>12 DEF Held

\* What gives the connection nothing but commands, or lets it go.
LEMMA QuietHeld ==
  ASSUME Placed, Held, UNCHANGED <<deferred, preroll, closed, late>>,
         frames' = frames \/ GateReset,
         \/ UNCHANGED <<pending, delayed>> /\ Given(wire') = Given(wire)
         \/ pending' = <<>> /\ delayed' = "none" /\ wire' = <<>>
  PROVE  Held'
<1>1. Closings /\ Elsewhere /\ LateHeld /\ frames \in Nat
  BY Now DEF Held
<1>2. closed' \in Nat /\ closed' <= frames' /\ (Unclosed => Unclosed')
  BY <1>1, UnclosedKept
<1>3. frames' \in Nat /\ frames <= frames'
  BY <1>1, GatePasses
<1>4. Kept(<<>>) = {} /\ Given(<<>>) = {}
  BY KeptEmpty, GivenSaid
<1>5. \/ Kept(pending') = Kept(pending) /\ Given(wire') = Given(wire) /\ delayed' = delayed
      \/ Kept(pending') = {} /\ Given(wire') = {} /\ delayed' = "none"
  BY <1>4
<1>6. Closings'
  BY <1>1, <1>2, <1>5 DEF Closings
<1>7. \A g \in Gone : g \in Nat /\ g # 0 /\ g <= frames'
  BY <1>1, <1>3 DEF Elsewhere
<1>8. Elsewhere'
  BY <1>1, <1>5, <1>7 DEF Elsewhere, Gone, Separate
<1>9. LateHeld'
  BY <1>1, <1>5 DEF LateHeld
<1>. QED
  BY <1>6, <1>8, <1>9 DEF Held

\* Every step.
LEMMA HeldStep ==
  ASSUME Placed, Held, [Next]_vars
  PROVE  Held'
<1>1. wire' = wire => Given(wire') = Given(wire)
  OBVIOUS
<1>2. ASSUME UNCHANGED <<frames, deferred, preroll, closed, late, pending, delayed, wire>> PROVE Held'
  BY <1>1, <1>2, QuietHeld
<1>3. ASSUME UNCHANGED <<deferred, preroll, closed, late>>, frames' = frames \/ GateReset,
             pending' = <<>>, delayed' = "none", wire' = <<>>
      PROVE  Held'
  BY <1>3, QuietHeld
<1>4. CASE UNCHANGED vars
  BY <1>2, <1>4 DEF vars, audioVars, turnVars, histVars
<1>5. CASE Next
  <2>1. mode' = mode
    BY <1>5 DEF Next
  <2>2. CASE SpeechStep
    BY <2>1, <2>2, OnsetHeld, OpensHeld, EndHeld DEF SpeechStep
  <2>3. CASE WarmupStep
    BY <2>1, <2>3, WarmupHeld
  <2>4. CASE LinkStep
    <3>1. OthersThanServer
      BY <2>4 DEF LinkStep, LinkConnects, ServerHears, ServerFinalizes, ServerFinishes,
                  ServerSplits, ServerPartial, ServerNotifies, LinkBreaks
    <3>. QED
      BY <1>2, <3>1 DEF OthersThanServer, audioVars, turnVars, histVars
  <2>5. CASE TextArrives \/ PartialArrives
    BY <1>2, <2>5 DEF TextArrives, PartialArrives, audioVars, turnVars, histVars
  <2>6. CASE FinArrives
    BY <1>2, <2>6 DEF FinArrives, audioVars, histVars
  <2>7. CASE FinishedArrives \/ LostArrives
    <3>1. GateReset /\ Cleanup
      BY <2>7 DEF FinishedArrives, LostArrives
    <3>. QED
      BY <1>3, <3>1 DEF Cleanup, histVars
  <2>8. CASE EndpointArrives \/ NoticeArrives
    <3>1. /\ UNCHANGED <<frames, deferred, preroll, closed, late, pending, delayed>>
          /\ wire' = wire \/ wire' = Append(wire, Command("Stop"))
      BY <2>8 DEF EndpointArrives, NoticeArrives, CloseDelayed, turnVars, histVars
    <3>2. Given(wire') = Given(wire)
      BY <3>1, Now, GivenSaid
    <3>. QED
      BY <3>1, <3>2, QuietHeld
  <2>9. CASE ConnectedArrives
    <3>1. CASE session = "Connecting"
      BY <2>1, <2>9, <3>1, ConnectedHeld
    <3>2. CASE session # "Connecting"
      <4>1. UNCHANGED <<frames, deferred, preroll, closed, late, pending, delayed, wire>>
        BY <2>9, <3>2 DEF ConnectedArrives, turnVars
      <4>. QED
        BY <1>2, <4>1
    <3>. QED
      BY <3>1, <3>2
  <2>10. CASE DrainStep
    BY <2>5, <2>6, <2>7, <2>8, <2>9, <2>10 DEF DrainStep
  <2>11. CASE IdleCloses
    <3>. DEFINE v == Append(wire, Command("Finalize"))
    <3>1. /\ UNCHANGED <<frames, deferred, preroll, closed, late, pending, delayed>>
          /\ wire' = wire \o <<Command("Finalize"), Command("Stop")>>
      BY <2>11 DEF IdleCloses, turnVars, histVars
    <3>2. Command("Finalize") \in Message /\ Command("Stop") \in Message /\ wire \in Seq(Message)
      BY Now DEF Command, Message
    <3>3. wire' = Append(v, Command("Stop"))
      BY <3>1, <3>2, SaidTwice
    <3>4. v \in Seq(Message) /\ Given(v) = Given(wire)
      BY <3>2, AppendProperties, GivenSaid
    <3>. HIDE DEF v
    <3>5. Given(wire') = Given(wire)
      BY <3>3, <3>4, GivenSaid
    <3>. QED
      BY <3>1, <3>5, QuietHeld
  <2>12. CASE SessionTimeout \/ Fails
    <3>1. Cleanup /\ (frames' = frames \/ GateReset)
      BY <2>12 DEF SessionTimeout, Fails
    <3>. QED
      BY <1>3, <3>1 DEF Cleanup, histVars
  <2>13. CASE Recovers
    <3>1. GateReset /\ UNCHANGED <<deferred, preroll, closed, late, pending, delayed, wire>>
      BY <2>13 DEF Recovers, audioVars, turnVars, histVars
    <3>. QED
      BY <1>1, <3>1, QuietHeld
  <2>14. CASE TimerStep
    BY <2>11, <2>12, <2>13, <2>14 DEF TimerStep
  <2>. QED
    BY <1>5, <2>2, <2>3, <2>4, <2>10, <2>14 DEF Next
<1>. QED
  BY <1>4, <1>5

\* At first nothing is held back.
LEMMA HeldInit ==
  ASSUME Init
  PROVE  Held
<1>1. /\ frames = 0 /\ closed = 0 /\ delayed = "none" /\ deferred = NotDeferred /\ late = {}
      /\ wire = <<>> /\ pending = <<>> /\ preroll = <<>>
  BY DEF Init
<1>2. Gone = {} /\ Kept(pending) = {}
  BY <1>1, GivenSaid, KeptEmpty DEF Gone
<1>3. Closings
  BY <1>1 DEF Closings
<1>4. Elsewhere /\ LateHeld
  BY <1>1, <1>2, KeptEmpty DEF Elsewhere, Separate, LateHeld, NotDeferred
<1>. QED
  BY <1>3, <1>4 DEF Held

\* A turn that had to wait for a warm-up, and was over before its connection was up, is not
\* pasted by that connection, whatever the server makes of it and whatever turn follows.
THEOREM HeldTurnNotPastedHolds == Spec => HeldTurnNotPasted
<1>. DEFINE Act == \A i \in (Len(typed) + 1)..Len(typed') : typed'[i].how = "paste" =>
                     \A k \in 1..Len(typed'[i].text) :
                       typed'[i].text[k].from \cap late \cap OfThisLink = {}
<1>1. ASSUME Spelled, Held, [Next]_vars PROVE [Act]_vars
  <2>. SUFFICES ASSUME Next, NEW i \in (Len(typed) + 1)..Len(typed'), typed'[i].how = "paste"
                PROVE  late \cap OfThisLink = {}
    BY <1>1 DEF Act
  <2>1. typed' # typed
    OBVIOUS
  <2>2. CommitSegment
    BY <2>1 DEF Next, SpeechStep, Onset, SpeechDeferred, SpeechConnects, SpeechContinues,
                SpeechQueued, SpeechMissed, SpeechEnded, GateOpens, WarmupStep, WarmupStarts,
                WarmupEnds, LinkStep, LinkConnects, ServerHears, ServerFinalizes, ServerFinishes,
                ServerSplits, ServerPartial, ServerNotifies, LinkBreaks, OthersThanServer, DrainStep,
                ConnectedArrives, TextArrives, PartialArrives, EndpointArrives, NoticeArrives,
                FinArrives, FinishedArrives, LostArrives, TimerStep, IdleCloses, SessionTimeout, Fails,
                Recovers, textVars
  <2>3. \/ typed' = typed
        \/ \E t : typed' = Append(typed, [text |-> t, how |-> IF delayed = "none" THEN "paste"
                                                           ELSE "clipboard"])
    BY <2>2 DEF CommitSegment
  <2>4. PICK t : typed' = Append(typed, [text |-> t, how |-> IF delayed = "none" THEN "paste"
                                                            ELSE "clipboard"])
    BY <2>1, <2>3
  <2>. DEFINE piece == [text |-> t, how |-> IF delayed = "none" THEN "paste" ELSE "clipboard"]
  <2>5. typed' = Append(typed, piece) /\ (delayed # "none" => piece.how = "clipboard")
    BY <2>4
  <2>. HIDE DEF piece
  <2>6. typed \in Seq(Piece \cup {piece})
    <3>1. typed \in Seq(Piece)
      BY <1>1 DEF Spelled, Pieces
    <3>. QED
      BY <3>1
  <2>7. /\ Len(typed) \in Nat /\ Len(typed') = Len(typed) + 1
        /\ typed'[Len(typed) + 1] = piece
    BY <2>5, <2>6, AppendProperties, LenProperties
  <2>8. i = Len(typed) + 1
    BY <2>7
  <2>9. delayed = "none"
    BY <2>5, <2>7, <2>8
  <2>10. late \cap Given(wire) = {} /\ 0 \notin late
    BY <1>1, <2>9 DEF Held, LateHeld, Elsewhere, Gone
  <2>. QED
    BY <2>10 DEF OfThisLink, Given
<1>2. Init => Placed /\ Spelled /\ Held
  BY PlacedInit, SpelledInit, HeldInit
<1>3. Placed /\ Spelled /\ Held /\ [Next]_vars => (Placed /\ Spelled /\ Held)'
  BY PlacedStep, SpelledStep, HeldStep
<1>4. Placed /\ Spelled /\ Held /\ [Next]_vars => [Act]_vars
  BY <1>1
<1>5. Spec => [][Act]_vars
  BY <1>2, <1>3, <1>4, PTL DEF Spec
<1>. QED
  BY <1>5 DEF HeldTurnNotPasted, Act
===============================================================================

--------------------------- MODULE RecognitionProofs ---------------------------
(***************************************************************************)
(* Proofs about RecognitionSession, for every recogniser and every setting *)
(* of the limit, the interval and the margin: no sample is lost or         *)
(* answered twice, what is decoded and shown belongs to the utterance in   *)
(* progress, no utterance outgrows the limit, and the text that is shown   *)
(* neither flickers nor freezes.                                           *)
(***************************************************************************)
EXTENDS RecognitionSession, SequenceTheorems, WellFoundedInduction, TLAPS

-------------------------------------------------------------------------------
(***************************************************************************)
(* Sequences.                                                              *)
(***************************************************************************)

\* A sequence begins what it is followed by something in, and so does what
\* begins it.
LEMMA PrefixGrows ==
  ASSUME NEW S, NEW p \in Seq(S), NEW s \in Seq(S), NEW t \in Seq(S), IsPrefix(p, s)
  PROVE  IsPrefix(p, s \o t)
<1>1. /\ s \o t \in Seq(S) /\ Len(s \o t) = Len(s) + Len(t)
      /\ \A i \in 1..Len(s) : (s \o t)[i] = s[i]
  BY ConcatProperties, LenProperties
<1>2. Len(p) <= Len(s) /\ Len(p) \in Nat /\ Len(s) \in Nat /\ Len(t) \in Nat
  BY LenProperties DEF IsPrefix
<1>3. CASE Len(p) = 0
  BY <1>1, <1>2, <1>3, SubSeqEmpty DEF IsPrefix
<1>4. CASE Len(p) > 0
  <2>1. SubSeq(s \o t, 1, Len(p)) = SubSeq(s, 1, Len(p))
    BY <1>2, <1>4, SubSeqOfConcat1
  <2>. QED
    BY <2>1, <1>1, <1>2 DEF IsPrefix
<1>. QED
  BY <1>2, <1>3, <1>4

LEMMA PrefixOfItself ==
  ASSUME NEW S, NEW s \in Seq(S)
  PROVE  IsPrefix(s, s) /\ IsPrefix(<<>>, s)
<1>1. Len(s) \in Nat /\ Len(<<>>) = 0
  BY LenProperties
<1>2. SubSeq(<<>>, 1, 0) = <<>> /\ SubSeq(s, 1, 0) = <<>>
  BY SubSeqEmpty
<1>. QED
  BY <1>1, <1>2 DEF IsPrefix

\* The samples received, with the new ones of a message, are the samples
\* received after it (NewSamples).
LEMMA SamplesGrow ==
  ASSUME NEW r \in Nat, NEW k \in Nat
  PROVE  /\ [i \in 1..r |-> i] \in Seq(Nat)
         /\ [i \in 1..k |-> r + i] \in Seq(Nat)
         /\ Len([i \in 1..k |-> r + i]) = k
         /\ [i \in 1..r |-> i] \o [i \in 1..k |-> r + i] = [i \in 1..(r + k) |-> i]
<1>. DEFINE old == [i \in 1..r |-> i]
            new == [i \in 1..k |-> r + i]
            all == [i \in 1..(r + k) |-> i]
<1>1. old \in Seq(Nat) /\ Len(old) = r
  OBVIOUS
<1>2. new \in Seq(Nat) /\ Len(new) = k
  OBVIOUS
<1>3. all \in Seq(Nat) /\ Len(all) = r + k
  OBVIOUS
<1>4. old \o new \in Seq(Nat) /\ Len(old \o new) = r + k
  BY <1>1, <1>2, ConcatProperties
<1>5. ASSUME NEW i \in 1..(r + k)
      PROVE  (old \o new)[i] = all[i]
  <2>1. (old \o new)[i] = IF i <= r THEN old[i] ELSE new[i - r]
    BY <1>1, <1>2, ConcatProperties
  <2>. QED
    BY <2>1
<1>6. old \o new = all
  <2>. HIDE DEF old, new, all
  <2>. QED
    BY <1>3, <1>4, <1>5, SeqEqual
<1>. QED
  BY <1>1, <1>2, <1>6

\* The last piece taken off and put on again.
LEMMA Regroup ==
  ASSUME NEW S, NEW p \in Seq(S), NEW s \in Seq(S), NEW t \in Seq(S)
  PROVE  /\ p \o (s \o t) = (p \o s) \o t
         /\ s \o t \in Seq(S) /\ Len(s \o t) = Len(s) + Len(t)
         /\ s \o <<>> = s
<1>1. (p \o s) \o t = p \o (s \o t)
  BY ConcatAssociative
<1>. QED
  BY <1>1, ConcatProperties, ConcatEmptySeq

-------------------------------------------------------------------------------
(***************************************************************************)
(* The invariant.                                                          *)
(***************************************************************************)

\* As much of TypeOK as the proofs need.
Typed ==
  /\ state \in {"Connecting", "Ready", "Streaming", "Closing", "Closed"}
  /\ half \in 0..1 /\ received \in Nat
  /\ audio \in Seq(Nat) /\ snapshot \in Seq(Nat) /\ answered \in Seq(Nat)
  /\ agreement.about \in Seq(Nat)
  /\ decode \in {"none", "running", "done", "failed"}

\* SamplesAnsweredOnce is not inductive: the connection must have begun with
\* nothing, too.
Accounted ==
  /\ state \in {"Connecting", "Ready", "Streaming"} => answered \o audio = AllSamples
  /\ state = "Closing" => answered = AllSamples
  /\ IsPrefix(answered, AllSamples)

Inv == Typed /\ Accounted /\ PartialsCurrent /\ BufferBounded

\* The variables of the utterance in the state after Drop, ClearUtterance and
\* TaskTaken: nothing is left of it.
Emptied ==
  /\ audio' = <<>> /\ agreement' = Nothing
  /\ decode' = "none" /\ snapshot' = <<>>

LEMMA EmptiedSafe ==
  ASSUME Emptied
  PROVE  /\ audio' \in Seq(Nat) /\ snapshot' \in Seq(Nat) /\ agreement'.about \in Seq(Nat)
         /\ decode' \in {"none", "running", "done", "failed"}
         /\ PartialsCurrent' /\ BufferBounded'
<1>1. <<>> \in Seq(Nat) /\ IsPrefix(<<>>, <<>>) /\ Len(<<>>) = 0
  BY PrefixOfItself, EmptySeq, LenProperties
<1>2. agreement'.about = <<>>
  BY DEF Emptied, Nothing
<1>3. MaxUtterance \in Nat /\ 0 < MaxUtterance
  BY RecognitionAssumption
<1>. QED
  BY <1>1, <1>2, <1>3 DEF Emptied, PartialsCurrent, BufferBounded

-------------------------------------------------------------------------------
(***************************************************************************)
(* Steps that take no audio in.                                            *)
(***************************************************************************)
LEMMA InitSafe == Init => Inv
<1>. SUFFICES ASSUME Init PROVE Inv
  OBVIOUS
<1>1. <<>> \in Seq(Nat) /\ IsPrefix(<<>>, <<>>) /\ Len(<<>>) = 0 /\ <<>> \o <<>> = <<>>
  BY PrefixOfItself, EmptySeq, LenProperties, ConcatEmptySeq
<1>2. AllSamples = <<>>
  <2>1. [i \in 1..0 |-> i] \in Seq(Nat) /\ Len([i \in 1..0 |-> i]) = 0
    OBVIOUS
  <2>. QED
    BY <2>1, EmptySeq DEF Init, AllSamples
<1>3. MaxUtterance \in Nat /\ 0 < MaxUtterance
  BY RecognitionAssumption
<1>. QED
  BY <1>1, <1>2, <1>3
  DEF Init, Inv, Typed, Accounted, PartialsCurrent, BufferBounded, Nothing

\* A dropped session keeps the answers it gave.
LEMMA DropSafe ==
  ASSUME Inv, Drop, UNCHANGED answered,
         received' \in Nat, IsPrefix(answered, AllSamples')
  PROVE  Inv'
<1>1. Emptied
  BY DEF Drop, NoTask, Emptied
<1>. QED
  BY <1>1, EmptiedSafe DEF Inv, Typed, Accounted, Drop

\* An answer takes the whole utterance.
LEMMA AnsweredSafe ==
  ASSUME NEW all \in Seq(Nat), NEW then \in {"Ready", "Streaming", "Closing"},
         Inv, Answered(all, then), half' \in 0..1, received' \in Nat,
         answered \o all = AllSamples'
  PROVE  Inv'
<1>1. Emptied
  BY DEF Answered, TaskTaken, NoTask, ClearUtterance, Emptied
<1>2. answered' = AllSamples' /\ state' = then
  BY DEF Answered, Whole
<1>3. answered' \in Seq(Nat)
  BY <1>2, SamplesGrow DEF AllSamples
<1>4. answered' \o audio' = AllSamples' /\ IsPrefix(answered', AllSamples')
  BY <1>1, <1>2, <1>3, PrefixOfItself, ConcatEmptySeq DEF Emptied
<1>. QED
  BY <1>1, <1>2, <1>3, <1>4, EmptiedSafe DEF Inv, Typed, Accounted

LEMMA DecodeEndsSafe == Inv /\ DecodeEnds => Inv'
<1>. SUFFICES ASSUME Inv, DecodeEnds PROVE Inv'
  OBVIOUS
<1>1. decode = "running" /\ decode' \in {"done", "failed"}
      /\ UNCHANGED <<state, half, received, audio, snapshot, agreement, answered>>
  BY DEF DecodeEnds
<1>. QED
  BY <1>1
  DEF Inv, Typed, Accounted, PartialsCurrent, BufferBounded, AllSamples

LEMMA QuietSafe ==
  Inv /\ (Configures \/ ConfigurationRefused \/ Disconnects \/ ShutsDown \/ UNCHANGED vars)
    => Inv'
<1>. SUFFICES ASSUME Inv, Configures \/ ConfigurationRefused \/ Disconnects \/ ShutsDown
                          \/ UNCHANGED vars
              PROVE  Inv'
  OBVIOUS
<1>1. CASE ConfigurationRefused \/ Disconnects \/ ShutsDown
  <2>1. Drop /\ UNCHANGED <<received, answered>>
    BY <1>1 DEF ConfigurationRefused, Disconnects, ShutsDown
  <2>. QED
    BY <2>1, DropSafe DEF Inv, Typed, Accounted, AllSamples
<1>2. CASE Configures \/ UNCHANGED vars
  <2>1. state' = state \/ (state = "Connecting" /\ state' = "Ready")
    BY <1>2 DEF Configures, vars
  <2>2. UNCHANGED <<half, received, audio, decode, snapshot, agreement, answered>>
    BY <1>2 DEF Configures, vars, utteranceVars, taskVars
  <2>. QED
    BY <2>1, <2>2
    DEF Inv, Typed, Accounted, PartialsCurrent, BufferBounded, AllSamples
<1>. QED
  BY <1>1, <1>2

\* finalize, and the end of the connection.
LEMMA AskedSafe == Inv /\ (Finalizes \/ Finishes) => Inv'
<1>. SUFFICES ASSUME Inv, Finalizes \/ Finishes PROVE Inv'
  OBVIOUS
<1>1. state \in {"Ready", "Streaming"} /\ UNCHANGED received
  BY DEF Finalizes, Finishes, Open, Inv, Typed
<1>2. answered \o audio = AllSamples /\ AllSamples' = AllSamples
      /\ received' \in Nat /\ IsPrefix(answered, AllSamples')
  BY <1>1 DEF Inv, Typed, Accounted, AllSamples
<1>3. CASE Drop /\ UNCHANGED answered
  BY <1>2, <1>3, DropSafe
<1>4. ASSUME NEW then \in {"Ready", "Streaming", "Closing"}, Answered(audio, then),
             UNCHANGED half
      PROVE  Inv'
  BY <1>2, <1>4, AnsweredSafe DEF Inv, Typed
<1>5. CASE audio = <<>> /\ state' \in {state, "Closing"} /\ UNCHANGED <<half, utteranceVars>>
  <2>1. UNCHANGED <<half, received, audio, decode, snapshot, agreement, answered>>
    BY <1>1, <1>5 DEF utteranceVars, taskVars
  <2>2. answered = AllSamples /\ answered \o audio = AllSamples
    BY <1>2, <1>5, ConcatEmptySeq DEF Inv, Typed
  <2>. QED
    BY <1>1, <1>2, <1>5, <2>1, <2>2
    DEF Inv, Typed, Accounted, PartialsCurrent, BufferBounded
<1>6. \/ Drop /\ UNCHANGED answered
      \/ \E then \in {"Ready", "Streaming", "Closing"} : Answered(audio, then) /\ UNCHANGED half
      \/ audio = <<>> /\ state' \in {state, "Closing"} /\ UNCHANGED <<half, utteranceVars>>
  BY <1>1 DEF Finalizes, Finishes, RecognitionFails
<1>. QED
  BY <1>3, <1>4, <1>5, <1>6

-------------------------------------------------------------------------------
(***************************************************************************)
(* Audio.                                                                  *)
(***************************************************************************)

\* What a message adds.
LEMMA NewSamplesAdd ==
  ASSUME NEW n \in MessageBytes, Inv, Open, received' = received + Len(NewSamples(n))
  PROVE  /\ NewSamples(n) \in Seq(Nat) /\ BytesLeft(n) \in 0..1
         /\ received' \in Nat
         /\ audio \o NewSamples(n) \in Seq(Nat)
         /\ answered \o (audio \o NewSamples(n)) = AllSamples'
         /\ IsPrefix(answered, AllSamples')
         /\ IsPrefix(audio, audio \o NewSamples(n))
<1>. DEFINE k == (half + n) \div 2
<1>1. n \in Nat /\ half \in Nat /\ k \in Nat /\ BytesLeft(n) \in 0..1
  BY RecognitionAssumption DEF Inv, Typed, BytesLeft
<1>2. NewSamples(n) = [i \in 1..k |-> received + i]
  BY DEF NewSamples
<1>3. received \in Nat /\ audio \in Seq(Nat) /\ answered \in Seq(Nat)
  BY DEF Inv, Typed
<1>. HIDE DEF k
<1>4. /\ NewSamples(n) \in Seq(Nat) /\ Len(NewSamples(n)) = k
      /\ AllSamples \in Seq(Nat)
      /\ AllSamples \o NewSamples(n) = [i \in 1..(received + k) |-> i]
  BY <1>1, <1>2, <1>3, SamplesGrow DEF AllSamples
<1>5. received' = received + k /\ AllSamples' = AllSamples \o NewSamples(n)
  BY <1>4 DEF AllSamples
<1>6. answered \o audio = AllSamples /\ IsPrefix(answered, AllSamples)
  BY DEF Inv, Accounted, Open
<1>7. answered \o (audio \o NewSamples(n)) = (answered \o audio) \o NewSamples(n)
      /\ audio \o NewSamples(n) \in Seq(Nat)
  <2>. DEFINE S == Nat
  <2>1. answered \in Seq(S) /\ audio \in Seq(S) /\ NewSamples(n) \in Seq(S)
    BY <1>3, <1>4
  <2>. HIDE DEF S
  <2>2. answered \o (audio \o NewSamples(n)) = (answered \o audio) \o NewSamples(n)
        /\ audio \o NewSamples(n) \in Seq(S)
    BY <2>1, Regroup
  <2>. QED
    BY <2>2 DEF S
<1>8. IsPrefix(answered, AllSamples \o NewSamples(n))
  BY <1>3, <1>4, <1>6, PrefixGrows
<1>9. IsPrefix(audio, audio \o NewSamples(n))
  BY <1>3, <1>4, PrefixOfItself, PrefixGrows
<1>. QED
  BY <1>1, <1>3, <1>4, <1>5, <1>6, <1>7, <1>8, <1>9

\* advance: whatever it decodes, or shows, begins the utterance.
LEMMA AdvanceSafe ==
  ASSUME NEW new \in Seq(Nat), new # <<>>, Inv, Advance(audio \o new),
         ~TooLong(audio \o new), half' \in 0..1, received' \in Nat,
         answered \o (audio \o new) = AllSamples', IsPrefix(answered, AllSamples')
  PROVE  Inv'
<1>. DEFINE all == audio \o new
<1>1. audio \in Seq(Nat) /\ snapshot \in Seq(Nat) /\ agreement.about \in Seq(Nat)
  BY DEF Inv, Typed
<1>2. all \in Seq(Nat) /\ Len(all) = Len(audio) + Len(new) /\ Len(new) > 0
  BY <1>1, ConcatProperties, EmptySeq, LenProperties
<1>3. all # <<>> /\ Len(all) \in Nat
  BY <1>1, <1>2, EmptySeq, LenProperties
<1>4. Len(all) < MaxUtterance
  BY <1>3, RecognitionAssumption DEF TooLong
<1>5. IsPrefix(all, all) /\ IsPrefix(<<>>, all)
  BY <1>2, PrefixOfItself
<1>6. IsPrefix(agreement.about, all)
  BY <1>1, PrefixGrows DEF Inv, PartialsCurrent
<1>7. decode # "none" => snapshot # <<>> /\ IsPrefix(snapshot, all)
  BY <1>1, PrefixGrows DEF Inv, PartialsCurrent
<1>. HIDE DEF all
<1>8. Busy(all) => /\ Decoded(all) \in Seq(Nat) /\ Decoded(all) # <<>>
                   /\ IsPrefix(Decoded(all), all) /\ Len(Decoded(all)) < MaxUtterance
  <2>1. CASE Starts(all)
    BY <1>2, <1>3, <1>4, <1>5, <2>1 DEF Decoded
  <2>2. CASE ~Starts(all)
    BY <1>1, <1>7, <2>2 DEF Decoded, Busy, Inv, BufferBounded
  <2>. QED
    BY <2>1, <2>2
<1>9. audio' = all /\ state' = "Streaming" /\ UNCHANGED answered
  BY DEF Advance, all
<1>10. /\ decode' \in {"none", "running"} /\ snapshot' \in Seq(Nat)
       /\ Len(snapshot') < MaxUtterance
       /\ decode' # "none" => snapshot' # <<>> /\ IsPrefix(snapshot', all)
  <2>0. <<>> \in Seq(Nat) /\ Len(<<>>) = 0 /\ MaxUtterance \in Nat /\ 0 < MaxUtterance
    BY EmptySeq, RecognitionAssumption
  <2>1. CASE NoTask
    BY <2>0, <2>1 DEF NoTask
  <2>2. CASE Busy(all) /\ decode' = "running" /\ snapshot' = Decoded(all)
    BY <1>8, <2>2
  <2>. QED
    BY <2>1, <2>2 DEF Advance, all
<1>11. agreement'.about \in Seq(Nat) /\ IsPrefix(agreement'.about, all)
  <2>1. CASE UNCHANGED agreement
    BY <1>1, <1>6, <2>1
  <2>2. CASE decode = "done" /\ Observe(text, snapshot)
    <3>1. agreement'.about = snapshot
      BY <2>2 DEF Observe
    <3>. QED
      BY <1>1, <1>7, <2>2, <3>1
  <2>3. ASSUME Busy(all), NEW hypothesis \in Hypotheses, Observe(hypothesis, Decoded(all))
        PROVE  agreement'.about \in Seq(Nat) /\ IsPrefix(agreement'.about, all)
    <3>1. agreement'.about = Decoded(all)
      BY <2>3 DEF Observe
    <3>. QED
      BY <1>8, <2>3, <3>1
  <2>. QED
    BY <2>1, <2>2, <2>3 DEF Advance, all
<1>12. answered' \o audio' = AllSamples' /\ IsPrefix(answered', AllSamples')
  BY <1>9 DEF all
<1>. QED
  BY <1>2, <1>4, <1>9, <1>10, <1>11, <1>12
  DEF Inv, Typed, Accounted, PartialsCurrent, BufferBounded

LEMMA HearsSafe == Inv /\ MessageStep => Inv'
<1>. SUFFICES ASSUME NEW n \in MessageBytes, Inv, Hears(n) PROVE Inv'
  BY DEF MessageStep
<1>. DEFINE new == NewSamples(n)
            all == audio \o new
<1>1. Open /\ received' = received + Len(new)
  BY DEF Hears
<1>2. /\ new \in Seq(Nat) /\ BytesLeft(n) \in 0..1 /\ received' \in Nat
      /\ all \in Seq(Nat) /\ answered \o all = AllSamples'
      /\ IsPrefix(answered, AllSamples')
  BY <1>1, NewSamplesAdd
<1>3. CASE RecognitionFails
  BY <1>2, <1>3, DropSafe DEF RecognitionFails
<1>4. CASE Answered(all, "Streaming") /\ half' = BytesLeft(n)
  BY <1>2, <1>4, AnsweredSafe
<1>5. CASE new # <<>> /\ ~TooLong(all) /\ Advance(all) /\ half' = BytesLeft(n)
  BY <1>2, <1>5, AdvanceSafe
<1>6. CASE new = <<>> /\ half' = BytesLeft(n) /\ state' = "Streaming" /\ UNCHANGED utteranceVars
  <2>1. UNCHANGED <<audio, decode, snapshot, agreement, answered>>
    BY <1>6 DEF utteranceVars, taskVars
  <2>2. all = audio
    BY <1>6, ConcatEmptySeq DEF Inv, Typed
  <2>3. answered' \o audio' = AllSamples' /\ IsPrefix(answered', AllSamples')
    BY <1>2, <2>1, <2>2
  <2>. QED
    BY <1>2, <1>6, <2>1, <2>3
    DEF Inv, Typed, Accounted, PartialsCurrent, BufferBounded
<1>. QED
  BY <1>3, <1>4, <1>5, <1>6 DEF Hears, AdvanceFails

LEMMA NextSafe == Inv /\ [Next]_vars => Inv'
<1>. SUFFICES ASSUME Inv, [Next]_vars PROVE Inv'
  OBVIOUS
<1>1. CASE Configures \/ ConfigurationRefused \/ Disconnects \/ ShutsDown \/ UNCHANGED vars
  BY <1>1, QuietSafe
<1>2. CASE MessageStep
  BY <1>2, HearsSafe
<1>3. CASE Finalizes \/ Finishes
  BY <1>3, AskedSafe
<1>4. CASE DecodeEnds
  BY <1>4, DecodeEndsSafe
<1>. QED
  BY <1>1, <1>2, <1>3, <1>4 DEF Next

THEOREM InvCorrect == Spec => []Inv
BY InitSafe, NextSafe, PTL DEF Spec

-------------------------------------------------------------------------------
(***************************************************************************)
(* What the connection promises.                                           *)
(***************************************************************************)

\* Every sample is in exactly one answer, in order: PseudoStream gives up its
\* audio to an answer, and to nothing else, however finalize, the limit and the
\* end of the connection follow each other.
THEOREM SamplesAnsweredOnceHolds == Spec => []SamplesAnsweredOnce
<1>1. Inv => SamplesAnsweredOnce
  BY DEF Inv, Accounted, SamplesAnsweredOnce, Open
<1>. QED
  BY <1>1, InvCorrect, PTL

\* Neither a decoding under way nor the text shown outlives its utterance:
\* finalize waits for the task that advance has left behind.
THEOREM PartialsCurrentHolds == Spec => []PartialsCurrent
<1>1. Inv => PartialsCurrent
  BY DEF Inv
<1>. QED
  BY <1>1, InvCorrect, PTL

\* handle_audio_samples cuts every utterance before it reaches the limit.
THEOREM BufferBoundedHolds == Spec => []BufferBounded
<1>1. Inv => BufferBounded
  BY DEF Inv
<1>. QED
  BY <1>1, InvCorrect, PTL

-------------------------------------------------------------------------------
(***************************************************************************)
(* When the next partial result is due.                                    *)
(***************************************************************************)
Scheduled ==
  /\ next \in Nat /\ audio \in Seq(Nat)
  /\ Partials /\ state \in {"Connecting", "Ready", "Streaming"}
       => Len(audio) < next /\ next <= Len(audio) + Interval

LEMMA Quotient ==
  ASSUME NEW d \in Nat, NEW k \in Nat \ {0}
  PROVE  /\ d \div k \in Nat
         /\ d < (d \div k + 1) * k /\ (d \div k + 1) * k <= d + k
         /\ (d \div k + 1) * k \in Nat
<1>1. d \div k \in Nat
  OBVIOUS
<1>2. d = k * (d \div k) + (d % k) /\ d % k \in 0..(k - 1)
  OBVIOUS
<1>. DEFINE q == d \div k
            r == d % k
<1>. HIDE DEF q, r
<1>3. q \in Nat /\ d = k * q + r /\ r \in 0..(k - 1)
  BY <1>1, <1>2 DEF q, r
<1>4. (q + 1) * k = k * q + k /\ (q + 1) * k \in Nat
  BY <1>3
<1>5. d < (q + 1) * k /\ (q + 1) * k <= d + k
  BY <1>3, <1>4
<1>. QED
  BY <1>3, <1>4, <1>5 DEF q

\* The schedule starts anew with each utterance.
LEMMA ScheduleStarts ==
  ASSUME audio' = <<>>, next' = Interval
  PROVE  Scheduled'
<1>1. Len(<<>>) = 0 /\ <<>> \in Seq(Nat)
  BY EmptySeq
<1>. QED
  BY <1>1, RecognitionAssumption DEF Scheduled

LEMMA ScheduleAdvances ==
  ASSUME NEW new \in Seq(Nat), Scheduled, Open, Advance(audio \o new)
  PROVE  Scheduled'
<1>. DEFINE all == audio \o new
<1>1. all \in Seq(Nat) /\ Len(all) \in Nat /\ Len(audio) \in Nat /\ Len(all) >= Len(audio)
  BY ConcatProperties, LenProperties DEF Scheduled
<1>2. Interval \in Nat \ {0} /\ Partials \in BOOLEAN /\ next \in Nat
  BY RecognitionAssumption DEF Scheduled
<1>3. Partials => next <= Len(audio) + Interval
  BY DEF Scheduled, Open
<1>. HIDE DEF all
<1>4. audio' = all /\ next' = (IF Due(all) THEN NextAfter(Len(all)) ELSE next)
  BY DEF Advance, all
<1>5. CASE Due(all)
  <2>. DEFINE d == Len(all) - next
              step == (d \div Interval + 1) * Interval
  <2>1. d \in Nat
    BY <1>1, <1>2, <1>5 DEF Due
  <2>. HIDE DEF d
  <2>2. step \in Nat /\ d < step /\ step <= d + Interval
    BY <1>2, <2>1, Quotient
  <2>3. next' = next + step
    BY <1>4, <1>5 DEF NextAfter, d
  <2>. HIDE DEF step
  <2>4. next' \in Nat /\ Len(all) < next' /\ next' <= Len(all) + Interval
    BY <1>1, <1>2, <2>2, <2>3 DEF d
  <2>. QED
    BY <1>1, <1>4, <2>4 DEF Scheduled
<1>6. CASE ~Due(all)
  <2>1. next' = next /\ (Partials => Len(all) < next)
    BY <1>1, <1>2, <1>4, <1>6 DEF Due
  <2>2. Partials => next <= Len(all) + Interval
    BY <1>1, <1>2, <1>3
  <2>. QED
    BY <1>1, <1>2, <1>4, <2>1, <2>2 DEF Scheduled
<1>. QED
  BY <1>5, <1>6

LEMMA ScheduleKept == Inv /\ Scheduled /\ [Next]_vars => Scheduled'
<1>. SUFFICES ASSUME Inv, Scheduled, [Next]_vars PROVE Scheduled'
  OBVIOUS
<1>1. CASE Drop
  BY <1>1, ScheduleStarts DEF Drop
<1>2. CASE \E all, then : Answered(all, then)
  BY <1>2, ScheduleStarts DEF Answered, ClearUtterance
<1>3. CASE /\ UNCHANGED <<audio, next>>
           /\ \/ state' \in {state, "Closing"}
              \/ state \in {"Connecting", "Ready", "Streaming"}
  BY <1>3 DEF Scheduled
<1>4. ASSUME NEW n \in MessageBytes, Hears(n), Advance(audio \o NewSamples(n))
      PROVE  Scheduled'
  <2>1. Open /\ received' = received + Len(NewSamples(n))
    BY <1>4 DEF Hears
  <2>2. NewSamples(n) \in Seq(Nat)
    BY <2>1, NewSamplesAdd
  <2>. QED
    BY <1>4, <2>1, <2>2, ScheduleAdvances
<1>5. CASE MessageStep
  <2>. SUFFICES ASSUME NEW n \in MessageBytes, Hears(n) PROVE Scheduled'
    BY <1>5 DEF MessageStep
  <2>1. CASE UNCHANGED utteranceVars
    BY <1>3, <2>1 DEF Hears, Open, utteranceVars
  <2>2. CASE Advance(audio \o NewSamples(n))
    BY <1>4, <2>2
  <2>. QED
    BY <1>1, <1>2, <2>1, <2>2 DEF Hears, AdvanceFails, RecognitionFails
<1>6. CASE Finalizes \/ Finishes
  BY <1>1, <1>2, <1>3, <1>6
  DEF Finalizes, Finishes, RecognitionFails, utteranceVars, Open
<1>7. CASE Configures \/ DecodeEnds \/ UNCHANGED vars
  BY <1>3, <1>7 DEF Configures, DecodeEnds, vars, utteranceVars
<1>8. CASE ConfigurationRefused \/ Disconnects \/ ShutsDown
  BY <1>1, <1>8 DEF ConfigurationRefused, Disconnects, ShutsDown
<1>. QED
  BY <1>5, <1>6, <1>7, <1>8 DEF Next

\* Within an interval after any message a partial result is due, in every
\* utterance, however much audio the message brings (advance).
THEOREM PartialDueHolds == Spec => []PartialDue
<1>1. Init => Scheduled
  BY EmptySeq, RecognitionAssumption DEF Init, Scheduled
<1>2. Scheduled => PartialDue
  BY DEF Scheduled, PartialDue, Open
<1>. QED
  BY <1>1, <1>2, ScheduleKept, InvCorrect, PTL DEF Spec

-------------------------------------------------------------------------------
(***************************************************************************)
(* What is shown.                                                          *)
(***************************************************************************)
Steady == agreement' # Nothing => ~IsStrictPrefix(agreement'.confirmed, agreement.confirmed)

LEMMA ObserveSteady ==
  ASSUME NEW hypothesis, NEW about, Observe(hypothesis, about)
  PROVE  Steady
<1>. DEFINE candidate == Less(LongestCommonPrefix({agreement.previous, hypothesis}), Margin)
<1>1. agreement'.confirmed = Confirmed(agreement.confirmed, candidate)
  BY DEF Observe
<1>. HIDE DEF candidate
<1>. QED
  BY <1>1 DEF Confirmed, Steady, IsStrictPrefix

\* Within an utterance no partial result is a mere beginning of the one before
\* it, whatever the recogniser makes of the audio (Agreement::observe), and no
\* other step touches what is shown but to end the utterance.
THEOREM DisplaySteadyHolds == Spec => DisplaySteady
<1>1. ASSUME [Next]_vars PROVE Steady
  <2>1. CASE UNCHANGED agreement
    BY <2>1 DEF Steady, IsStrictPrefix
  <2>2. CASE agreement' = Nothing
    BY <2>2 DEF Steady
  <2>3. CASE \E hypothesis, about : Observe(hypothesis, about)
    BY <2>3, ObserveSteady
  <2>4. CASE MessageStep
    <3>. SUFFICES ASSUME NEW n \in MessageBytes, Hears(n) PROVE Steady
      BY <2>4 DEF MessageStep
    <3>1. CASE Advance(audio \o NewSamples(n))
      BY <2>1, <2>3, <3>1 DEF Advance
    <3>. QED
      BY <2>1, <2>2, <3>1
      DEF Hears, Answered, ClearUtterance, AdvanceFails, RecognitionFails, Drop, utteranceVars
  <2>5. CASE Finalizes \/ Finishes
    BY <2>1, <2>2, <2>5
    DEF Finalizes, Finishes, Answered, ClearUtterance, RecognitionFails, Drop, utteranceVars
  <2>6. CASE Configures \/ DecodeEnds \/ UNCHANGED vars
    BY <2>1, <2>6 DEF Configures, DecodeEnds, vars, utteranceVars
  <2>7. CASE ConfigurationRefused \/ Disconnects \/ ShutsDown
    BY <2>2, <2>7 DEF ConfigurationRefused, Disconnects, ShutsDown, Drop
  <2>. QED
    BY <1>1, <2>4, <2>5, <2>6, <2>7 DEF Next
<1>. QED
  BY <1>1, PTL DEF Spec, DisplaySteady, Steady

-------------------------------------------------------------------------------
(***************************************************************************)
(* Longest common prefixes.                                                *)
(***************************************************************************)

\* Every set of numbers has a least one: induction, for statements that are
\* written as sets.
LEMMA Least ==
  ASSUME NEW T \in SUBSET Nat, T # {}
  PROVE  \E x \in T : \A y \in T : x <= y
<1>1. IsWellFoundedOn(OpToRel(<, Nat), Nat)
  BY NatLessThanWellFounded, Zenon
<1>2. ASSUME NEW x \in Nat, NEW y \in Nat, y < x
      PROVE  <<y, x>> \in OpToRel(<, Nat)
  BY <1>2, Zenon DEF OpToRel
<1>3. \E x \in T : \A y \in T : ~(<<y, x>> \in OpToRel(<, Nat))
  BY <1>1, WFMin, Zenon
<1>4. \E x \in T : \A y \in T : ~(y < x)
  BY <1>2, <1>3, Zenon
<1>. QED
  BY <1>4

\* A beginning of a sequence is a sequence of the same kind, as long as it says.
LEMMA PrefixKind ==
  ASSUME NEW S, NEW s \in Seq(S), NEW n \in 0..Len(s)
  PROVE  SubSeq(s, 1, n) \in Seq(S) /\ Len(SubSeq(s, 1, n)) = n
<1>1. Len(s) \in Nat
  BY LenProperties
<1>. QED
  BY <1>1, SubSeqProperties

LEMMA PrefixesKind ==
  ASSUME NEW S, NEW s \in Seq(S), NEW p \in Prefixes(s)
  PROVE  p \in Seq(S) /\ Len(p) \in 0..Len(s)
<1>1. PICK n \in 0..Len(s) : p = SubSeq(s, 1, n)
  BY DEF Prefixes
<1>. QED
  BY <1>1, PrefixKind

\* The common prefixes of two sequences are sequences, no longer than either, and
\* the empty one is there.
LEMMA CommonKind ==
  ASSUME NEW S, NEW s \in Seq(S), NEW t \in Seq(S)
  PROVE  /\ <<>> \in CommonPrefixes({s, t})
         /\ \A p \in CommonPrefixes({s, t}) :
              p \in Seq(S) /\ Len(p) \in Nat /\ Len(p) <= Len(s) /\ IsPrefix(p, s)
<1>1. Len(s) \in Nat /\ Len(t) \in Nat
  BY LenProperties
<1>2. <<>> \in Prefixes(s)
  <2>1. SubSeq(s, 1, 0) = <<>>
    BY SubSeqEmpty
  <2>. QED
    BY <1>1, <2>1 DEF Prefixes
<1>3. IsPrefix(<<>>, s) /\ IsPrefix(<<>>, t)
  BY PrefixOfItself
<1>4. <<>> \in CommonPrefixes({s, t})
  BY <1>2, <1>3 DEF CommonPrefixes
<1>5. ASSUME NEW p \in CommonPrefixes({s, t})
      PROVE  p \in Seq(S) /\ Len(p) \in Nat /\ Len(p) <= Len(s) /\ IsPrefix(p, s)
  <2>1. (p \in Prefixes(s) \/ p \in Prefixes(t)) /\ IsPrefix(p, s)
    BY DEF CommonPrefixes
  <2>2. p \in Seq(S)
    BY <2>1, PrefixesKind
  <2>. QED
    BY <2>1, <2>2, LenProperties DEF IsPrefix
<1>. QED
  BY <1>4, <1>5

\* There is a longest one.
LEMMA LongestKind ==
  ASSUME NEW S, NEW s \in Seq(S), NEW t \in Seq(S)
  PROVE  /\ LongestCommonPrefix({s, t}) \in CommonPrefixes({s, t})
         /\ \A p \in CommonPrefixes({s, t}) : Len(p) <= Len(LongestCommonPrefix({s, t}))
         /\ LongestCommonPrefix({s, t}) \in Seq(S)
<1>. DEFINE C == CommonPrefixes({s, t})
            T == {Len(s) - Len(p) : p \in C}
<1>1. /\ <<>> \in C
      /\ \A p \in C : p \in Seq(S) /\ Len(p) \in Nat /\ Len(p) <= Len(s)
  BY CommonKind
<1>2. Len(s) \in Nat
  BY LenProperties
<1>. HIDE DEF C
<1>3. T \in SUBSET Nat /\ T # {}
  BY <1>1, <1>2
<1>4. PICK x \in T : \A y \in T : x <= y
  <2>. HIDE DEF T
  <2>. QED
    BY <1>3, Least
<1>5. PICK longest \in C : x = Len(s) - Len(longest)
  OBVIOUS
<1>6. ASSUME NEW p \in C PROVE Len(p) <= Len(longest)
  <2>1. Len(s) - Len(longest) <= Len(s) - Len(p)
    BY <1>4, <1>5
  <2>2. Len(p) \in Nat /\ Len(longest) \in Nat
    BY <1>1
  <2>. QED
    BY <1>2, <2>1, <2>2
<1>7. LongestCommonPrefix({s, t}) = CHOOSE l \in C : \A p \in C : Len(p) <= Len(l)
  BY DEF LongestCommonPrefix, C
<1>8. /\ LongestCommonPrefix({s, t}) \in C
      /\ \A p \in C : Len(p) <= Len(LongestCommonPrefix({s, t}))
  BY <1>6, <1>7
<1>. QED
  BY <1>1, <1>8 DEF C

\* What a sequence has in common with itself is all of it.
LEMMA CommonWithItself ==
  ASSUME NEW S, NEW s \in Seq(S)
  PROVE  LongestCommonPrefix({s, s}) = s
<1>. DEFINE l == LongestCommonPrefix({s, s})
<1>1. /\ l \in CommonPrefixes({s, s}) /\ l \in Seq(S)
      /\ \A p \in CommonPrefixes({s, s}) : Len(p) <= Len(l)
  BY LongestKind
<1>2. IsPrefix(l, s) /\ Len(l) <= Len(s)
  BY <1>1, CommonKind
<1>3. s \in CommonPrefixes({s, s})
  <2>1. Len(s) \in 0..Len(s) /\ SubSeq(s, 1, Len(s)) = s
    BY LenProperties, SubSeqFull
  <2>2. s \in Prefixes(s) /\ IsPrefix(s, s)
    BY <2>1, PrefixOfItself DEF Prefixes
  <2>. QED
    BY <2>2 DEF CommonPrefixes
<1>. HIDE DEF l
<1>4. Len(l) = Len(s)
  <2>1. Len(s) <= Len(l) /\ Len(l) <= Len(s)
    BY <1>1, <1>2, <1>3
  <2>2. Len(l) \in Nat /\ Len(s) \in Nat
    BY <1>1, LenProperties
  <2>. QED
    BY <2>1, <2>2
<1>5. SubSeq(l, 1, Len(l)) = l /\ SubSeq(s, 1, Len(s)) = s
  BY <1>1, SubSeqFull
<1>6. l = s
  BY <1>2, <1>4, <1>5 DEF IsPrefix
<1>. QED
  BY <1>6 DEF l

-------------------------------------------------------------------------------
(***************************************************************************)
(* What is compared and shown.                                             *)
(***************************************************************************)
Records == [previous : Seq(Chars), confirmed : Seq(Chars), about : Seq(Nat)]
Worded == (decode = "done" => text \in Hypotheses) /\ agreement \in Records

\* All but the end of a text is a text.
LEMMA LessKind ==
  ASSUME NEW s \in Seq(Chars)
  PROVE  Less(s, Margin) \in Seq(Chars)
<1>1. Len(s) \in Nat /\ Margin \in Nat
  BY LenProperties, RecognitionAssumption
<1>2. (IF Len(s) > Margin THEN Len(s) - Margin ELSE 0) \in 0..Len(s)
  BY <1>1
<1>. QED
  BY <1>2, PrefixKind DEF Less

LEMMA ObserveWorded ==
  ASSUME agreement \in Records, NEW hypothesis \in Hypotheses, NEW about \in Seq(Nat),
         Observe(hypothesis, about)
  PROVE  agreement' \in Records
<1>. DEFINE common == LongestCommonPrefix({agreement.previous, hypothesis})
            shown == Confirmed(agreement.confirmed, Less(common, Margin))
<1>1. /\ agreement.previous \in Seq(Chars) /\ agreement.confirmed \in Seq(Chars)
      /\ hypothesis \in Seq(Chars)
  BY RecognitionAssumption DEF Records
<1>2. common \in Seq(Chars)
  BY <1>1, LongestKind
<1>. HIDE DEF common
<1>3. shown \in Seq(Chars)
  BY <1>1, <1>2, LessKind DEF Confirmed
<1>4. agreement' = [previous |-> hypothesis, confirmed |-> shown, about |-> about]
  BY DEF Observe, common
<1>. HIDE DEF shown
<1>. QED
  BY <1>1, <1>3, <1>4 DEF Records

\* What a step does to the words: it observes another hypothesis, of audio that is a
\* sequence, or leaves them, or ends the utterance.
Observes ==
  \E hypothesis \in Hypotheses, about \in Seq(Nat) : Observe(hypothesis, about)

LEMMA WordsTaken ==
  ASSUME Inv, Worded, [Next]_vars
  PROVE  /\ Observes \/ UNCHANGED agreement \/ agreement' = Nothing
         /\ decode' = "done" => text' \in Hypotheses
<1>0. snapshot \in Seq(Nat) /\ (decode = "done" => text \in Hypotheses)
  BY DEF Inv, Typed, Worded
<1>1. CASE UNCHANGED utteranceVars
  BY <1>0, <1>1 DEF utteranceVars, taskVars
<1>2. CASE Drop
  BY <1>2 DEF Drop, NoTask
<1>3. CASE \E all, then : Answered(all, then)
  BY <1>3 DEF Answered, TaskTaken, NoTask, ClearUtterance
<1>4. ASSUME NEW n \in MessageBytes, Hears(n), Advance(audio \o NewSamples(n))
      PROVE  /\ Observes \/ UNCHANGED agreement
             /\ decode' # "done"
  <2>. DEFINE all == audio \o NewSamples(n)
  <2>1. Open /\ received' = received + Len(NewSamples(n))
    BY <1>4 DEF Hears
  <2>2. all \in Seq(Nat)
    BY <2>1, NewSamplesAdd
  <2>. HIDE DEF all
  <2>3. Decoded(all) \in Seq(Nat)
    BY <1>0, <2>2 DEF Decoded
  <2>4. Advance(all)
    BY <1>4 DEF all
  <2>5. decode' # "done"
    BY <2>4 DEF Advance, NoTask
  <2>6. Observes \/ UNCHANGED agreement
    BY <1>0, <2>3, <2>4 DEF Advance, Observes
  <2>. QED
    BY <2>5, <2>6
<1>5. CASE MessageStep
  <2>. SUFFICES ASSUME NEW n \in MessageBytes, Hears(n)
                PROVE  /\ Observes \/ UNCHANGED agreement \/ agreement' = Nothing
                       /\ decode' = "done" => text' \in Hypotheses
    BY <1>5 DEF MessageStep
  <2>1. CASE Advance(audio \o NewSamples(n))
    BY <1>4, <2>1
  <2>. QED
    BY <1>1, <1>2, <1>3, <2>1 DEF Hears, AdvanceFails, RecognitionFails
<1>6. CASE Finalizes \/ Finishes
  BY <1>1, <1>2, <1>3, <1>6 DEF Finalizes, Finishes, RecognitionFails
<1>7. CASE DecodeEnds
  BY <1>7 DEF DecodeEnds
<1>8. CASE Configures \/ UNCHANGED vars
  BY <1>1, <1>8 DEF Configures, vars
<1>9. CASE ConfigurationRefused \/ Disconnects \/ ShutsDown
  BY <1>2, <1>9 DEF ConfigurationRefused, Disconnects, ShutsDown
<1>. QED
  BY <1>5, <1>6, <1>7, <1>8, <1>9 DEF Next

LEMMA WordedKept == Inv /\ Worded /\ [Next]_vars => Worded'
<1>. SUFFICES ASSUME Inv, Worded, [Next]_vars PROVE Worded'
  OBVIOUS
<1>1. /\ Observes \/ UNCHANGED agreement \/ agreement' = Nothing
      /\ decode' = "done" => text' \in Hypotheses
  BY WordsTaken
<1>2. Observes => agreement' \in Records
  BY ObserveWorded DEF Observes, Worded
<1>3. Nothing \in Records
  BY EmptySeq DEF Nothing, Records
<1>. QED
  BY <1>1, <1>2, <1>3 DEF Worded

THEOREM WordedCorrect == Spec => []Worded
<1>1. Init => Worded
  <2>1. Nothing \in Records
    BY EmptySeq DEF Nothing, Records
  <2>. QED
    BY <2>1 DEF Init, Worded
<1>. QED
  BY <1>1, WordedKept, InvCorrect, PTL DEF Spec

\* Every reachable state of a connection is well typed: what is compared and shown are
\* texts, and the longest beginning that two hypotheses have in common exists.
THEOREM TypeCorrect == Spec => []TypeOK
<1>1. Init => Scheduled
  BY EmptySeq, RecognitionAssumption DEF Init, Scheduled
<1>2. Inv /\ Scheduled /\ Worded => TypeOK
  BY DEF Inv, Typed, Scheduled, Worded, Records, TypeOK
<1>. QED
  BY <1>1, <1>2, ScheduleKept, InvCorrect, WordedCorrect, PTL DEF Spec

\* A hypothesis that the recogniser makes twice in a row is shown, up to the margin,
\* also when it is not what was shown before: what is shown may be corrected
\* (Agreement::observe), and does not freeze for the rest of the utterance.
THEOREM CorrectionShownHolds == Spec => CorrectionShown
<1>. DEFINE Shows == agreement'.about # agreement.about /\ agreement'.previous = agreement.previous
                       => IsPrefix(Less(agreement'.previous, Margin), agreement'.confirmed)
<1>1. ASSUME Inv, Worded, [Next]_vars PROVE Shows
  <2>1. CASE UNCHANGED agreement
    BY <2>1
  <2>2. CASE agreement' = Nothing
    <3>1. Margin \in Nat /\ Len(<<>>) = 0 /\ SubSeq(<<>>, 1, 0) = <<>>
      BY EmptySeq, SubSeqEmpty, RecognitionAssumption
    <3>2. Less(<<>>, Margin) = <<>> /\ IsPrefix(<<>>, <<>>)
      BY <3>1 DEF Less, IsPrefix
    <3>. QED
      BY <2>2, <3>2 DEF Nothing
  <2>3. CASE Observes
    <3>1. PICK hypothesis \in Hypotheses, about \in Seq(Nat) : Observe(hypothesis, about)
      BY <2>3 DEF Observes
    <3>. SUFFICES ASSUME agreement'.previous = agreement.previous
                  PROVE  IsPrefix(Less(agreement'.previous, Margin), agreement'.confirmed)
      OBVIOUS
    <3>2. hypothesis \in Seq(Chars) /\ agreement'.previous = hypothesis
      BY <3>1, RecognitionAssumption DEF Observe
    <3>3. LongestCommonPrefix({hypothesis, hypothesis}) = hypothesis
      BY <3>2, CommonWithItself
    <3>. DEFINE candidate == Less(hypothesis, Margin)
    <3>4. agreement'.confirmed = Confirmed(agreement.confirmed, candidate)
      BY <3>1, <3>2, <3>3 DEF Observe
    <3>5. candidate \in Seq(Chars)
      BY <3>2, LessKind
    <3>. HIDE DEF candidate
    <3>6. IsPrefix(candidate, candidate)
      BY <3>5, PrefixOfItself
    <3>7. IsPrefix(candidate, agreement'.confirmed)
      BY <3>4, <3>6 DEF Confirmed, IsStrictPrefix
    <3>. QED
      BY <3>2, <3>7 DEF candidate
  <2>. QED
    BY <1>1, <2>1, <2>2, <2>3, WordsTaken
<1>2. Spec => [][Shows]_vars
  BY <1>1, InvCorrect, WordedCorrect, PTL DEF Spec
<1>. QED
  BY <1>2 DEF CorrectionShown
===============================================================================

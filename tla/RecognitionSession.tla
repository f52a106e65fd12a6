-------------------------- MODULE RecognitionSession --------------------------
(***************************************************************************)
(* One connection of the bundled recognition server: Session, PseudoStream *)
(* and Agreement of crates/asr-server/src, with the loop of server.rs that *)
(* hands it one message after the other.                                   *)
(*                                                                         *)
(* The audio of an utterance is collected until the client ends it, or     *)
(* until it is too long, and is then recognised as a whole.  Meanwhile the *)
(* recogniser decodes what there is, on a thread of its own and again and  *)
(* again, and the beginning on which two decodings agree is shown.         *)
(*                                                                         *)
(* Samples are numbered as they come; a sample is two bytes, and a message *)
(* may end within one.  One sample is one unit of time.                    *)
(***************************************************************************)
EXTENDS Naturals, Sequences, SequencesExt

CONSTANTS
  Chars,         \* characters
  Hypotheses,    \* what the recogniser may make of audio: sequences of characters
  MaxUtterance,  \* config.max_utterance_ms
  Interval,      \* config.partial_interval_ms
  Margin,        \* config.partial_tail_margin_chars
  Partials,      \* config.pseudo_stream
  MessageBytes,  \* bound: the lengths of messages, in bytes
  MaxSamples     \* bound: samples the client sends

ASSUME RecognitionAssumption ==
  /\ Hypotheses \subseteq Seq(Chars)
  /\ MaxUtterance \in Nat \ {0} /\ Interval \in Nat \ {0} /\ Margin \in Nat
  /\ Partials \in BOOLEAN
  /\ MessageBytes \subseteq Nat \ {0} /\ MaxSamples \in Nat

VARIABLES
  state,      \* Session::state
  half,       \* bytes of an unfinished sample (pending_byte)
  received,   \* history: how many samples have come
  audio,      \* the samples of this utterance (chunks)
  next,       \* next_partial_ms
  decode,     \* partial_task: none, running, done, failed
  snapshot,   \* the audio it decodes
  text,       \* its result
  agreement,  \* Agreement, and (history) the audio of its latest hypothesis
  answered    \* history: the samples in the answers given, one after the other

taskVars == <<decode, snapshot, text>>
utteranceVars == <<audio, next, taskVars, agreement, answered>>
vars == <<state, half, received, utteranceVars>>

Open == state \in {"Ready", "Streaming"}
NoTask == decode' = "none" /\ snapshot' = <<>> /\ text' = <<>>
Nothing == [previous |-> <<>>, confirmed |-> <<>>, about |-> <<>>]

TypeOK ==
  /\ state \in {"Connecting", "Ready", "Streaming", "Closing", "Closed"}
  /\ half \in 0..1
  /\ received \in Nat
  /\ audio \in Seq(Nat) /\ next \in Nat
  /\ decode \in {"none", "running", "done", "failed"}
  /\ snapshot \in Seq(Nat)
  /\ decode = "done" => text \in Hypotheses
  /\ agreement \in [previous : Seq(Chars), confirmed : Seq(Chars), about : Seq(Nat)]
  /\ answered \in Seq(Nat)

Init ==
  /\ state = "Connecting" /\ half = 0 /\ received = 0
  /\ audio = <<>> /\ next = Interval
  /\ decode = "none" /\ snapshot = <<>> /\ text = <<>>
  /\ agreement = Nothing /\ answered = <<>>

-------------------------------------------------------------------------------
(***************************************************************************)
(* Agreement.  A definition whose name begins with Slip is no part of the  *)
(* model: it is the one that follows it, with a mistake.                   *)
(***************************************************************************)
Less(s, n) == SubSeq(s, 1, IF Len(s) > n THEN Len(s) - n ELSE 0)

\* observe: what may be shown after another hypothesis.  A beginning of what is
\* shown already does not replace it; anything else does.
SlipNeverCorrects(shown, candidate) == IF IsPrefix(shown, candidate) THEN candidate ELSE shown
SlipAlwaysReplaces(shown, candidate) == candidate
Confirmed(shown, candidate) == IF IsStrictPrefix(candidate, shown) THEN shown ELSE candidate

Observe(hypothesis, about) ==
  agreement' = [previous |-> hypothesis,
                confirmed |-> Confirmed(agreement.confirmed,
                                        Less(LongestCommonPrefix({agreement.previous, hypothesis}),
                                             Margin)),
                about |-> about]

-------------------------------------------------------------------------------
(***************************************************************************)
(* The life of the connection.                                             *)
(***************************************************************************)
\* The session is dropped, after an error or without its client.
Drop ==
  /\ state' = "Closed" /\ half' = 0
  /\ audio' = <<>> /\ next' = Interval /\ agreement' = Nothing
  /\ NoTask

\* handle_text: the first message configures, if its settings are supported.
Configures ==
  /\ state = "Connecting" /\ state' = "Ready"
  /\ UNCHANGED <<half, received, utteranceVars>>
ConfigurationRefused ==
  /\ state = "Connecting" /\ Drop
  /\ UNCHANGED <<received, answered>>

\* The client is gone, or closes without asking for the rest.
Disconnects ==
  /\ state # "Closed" /\ Drop
  /\ UNCHANGED <<received, answered>>

\* close_and_wait, shutdown
ShutsDown ==
  /\ state = "Closing" /\ Drop
  /\ UNCHANGED <<received, answered>>

-------------------------------------------------------------------------------
(***************************************************************************)
(* Answers.                                                                *)
(***************************************************************************)
SlipTimerKept == audio' = <<>> /\ agreement' = Nothing /\ UNCHANGED next
ClearUtterance == audio' = <<>> /\ next' = Interval /\ agreement' = Nothing

\* PseudoStream::finalize waits for the task and throws its result away.
SlipTaskLeft == UNCHANGED taskVars
TaskTaken == NoTask

\* finish_utterance, for the samples `all': recognised as a whole, or not.
SlipWithoutLast(all) == IF decode = "running" THEN snapshot ELSE all
Whole(all) == all
Answered(all, then) ==
  /\ answered' = answered \o Whole(all) /\ state' = then
  /\ TaskTaken /\ ClearUtterance
RecognitionFails == Drop /\ UNCHANGED answered

-------------------------------------------------------------------------------
(***************************************************************************)
(* Partial results.                                                        *)
(***************************************************************************)
\* The first multiple of the interval, counted from next, that lies ahead.
NextAfter(now) == next + ((now - next) \div Interval + 1) * Interval

\* advance and emit_partial, for the samples `all'.  A task may be found done
\* before another is started, and again after the loop has yielded; of two
\* results the later one is used.  A task that has failed ends the session.
Due(all) == Partials /\ Len(all) >= next
Starts(all) == Due(all) /\ decode # "running"
Busy(all) == Starts(all) \/ decode = "running"
Decoded(all) == IF Starts(all) THEN all ELSE snapshot

Advance(all) ==
  /\ decode # "failed"
  /\ audio' = all /\ next' = (IF Due(all) THEN NextAfter(Len(all)) ELSE next)
  /\ state' = "Streaming" /\ UNCHANGED answered
  /\ \/ /\ IF Busy(all)
           THEN decode' = "running" /\ snapshot' = Decoded(all) /\ text' = <<>>
           ELSE NoTask
        /\ IF decode = "done" THEN Observe(text, snapshot) ELSE UNCHANGED agreement
     \/ /\ Busy(all) /\ NoTask
        /\ \E hypothesis \in Hypotheses : Observe(hypothesis, Decoded(all))

AdvanceFails(all) == (decode = "failed" \/ Busy(all)) /\ RecognitionFails

\* The decoding thread.
DecodeEnds ==
  /\ decode = "running"
  /\ \/ decode' = "done" /\ text' \in Hypotheses
     \/ decode' = "failed" /\ UNCHANGED text
  /\ UNCHANGED <<state, half, received, audio, next, snapshot, agreement, answered>>

-------------------------------------------------------------------------------
(***************************************************************************)
(* Messages of the client.                                                 *)
(***************************************************************************)
\* Pcm16Buffer::feed, for a message of n bytes.
BytesLeft(n) == (half + n) % 2
NewSamples(n) == [i \in 1..((half + n) \div 2) |-> received + i]

TooLong(all) == Len(all) >= MaxUtterance

\* handle_binary
Hears(n) ==
  LET new == NewSamples(n)
      all == audio \o new
  IN  /\ Open /\ received + Len(new) <= MaxSamples
      /\ received' = received + Len(new)
      /\ IF new = <<>>
         THEN half' = BytesLeft(n) /\ state' = "Streaming" /\ UNCHANGED utteranceVars
         ELSE IF TooLong(all)
         THEN (Answered(all, "Streaming") /\ half' = BytesLeft(n)) \/ RecognitionFails
         ELSE (Advance(all) /\ half' = BytesLeft(n)) \/ AdvanceFails(all)

\* finalize; without audio there is only the marker to send.
Finalizes ==
  /\ Open
  /\ \/ audio = <<>> /\ UNCHANGED <<state, half, utteranceVars>>
     \/ audio # <<>> /\ Answered(audio, state) /\ UNCHANGED half
     \/ audio # <<>> /\ RecognitionFails
  /\ UNCHANGED received

\* finish_connection
Finishes ==
  /\ Open
  /\ \/ half = 1 /\ Drop /\ UNCHANGED answered
     \/ half = 0 /\ audio = <<>> /\ state' = "Closing" /\ UNCHANGED <<half, utteranceVars>>
     \/ half = 0 /\ audio # <<>> /\ Answered(audio, "Closing") /\ UNCHANGED half
     \/ half = 0 /\ audio # <<>> /\ RecognitionFails
  /\ UNCHANGED received

-------------------------------------------------------------------------------
MessageStep == \E n \in MessageBytes : Hears(n)

Next ==
  \/ Configures \/ ConfigurationRefused
  \/ MessageStep \/ Finalizes \/ Finishes
  \/ DecodeEnds
  \/ Disconnects \/ ShutsDown

Spec == Init /\ [][Next]_vars

-------------------------------------------------------------------------------
AllSamples == [i \in 1..received |-> i]

\* Every sample is in one answer, whether finalize, the limit or the end of the
\* connection has cut it off, and the answers are in order: no audio is lost
\* between two utterances or recognised twice.  What Turn takes from the server
\* rests on this.
SamplesAnsweredOnce ==
  /\ Open => answered \o audio = AllSamples
  /\ state = "Closing" => answered = AllSamples
  /\ IsPrefix(answered, AllSamples)

\* A decoding under way, and the text shown, are of the utterance in progress:
\* no partial result of an utterance that was ended shows in the next.
PartialsCurrent ==
  /\ decode # "none" => snapshot # <<>> /\ IsPrefix(snapshot, audio)
  /\ IsPrefix(agreement.about, audio)

\* Within an utterance, the text shown does not flicker: it never becomes a
\* mere beginning of itself.
DisplaySteady ==
  [][agreement' # Nothing => ~IsStrictPrefix(agreement'.confirmed, agreement.confirmed)]_vars

\* It does not freeze either: a hypothesis that comes twice in a row is shown, up
\* to the margin, whatever was shown before.
CorrectionShown ==
  [][agreement'.about # agreement.about /\ agreement'.previous = agreement.previous
       => IsPrefix(Less(agreement'.previous, Margin), agreement'.confirmed)]_vars

\* In every utterance the next partial result is due within an interval, however
\* much audio comes at once.
PartialDue ==
  Open /\ Partials => Len(audio) < next /\ next <= Len(audio) + Interval

\* The recogniser, which cannot take more, is never given audio beyond the limit
\* and what the last message adds to it.
BufferBounded == Len(audio) < MaxUtterance /\ Len(snapshot) < MaxUtterance
===============================================================================

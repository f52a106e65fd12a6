-------------------------------- MODULE Hearing --------------------------------
(***************************************************************************)
(* The way of the sound from the microphone to the start of a speech: the  *)
(* callback of the microphone resamples what it is given and cuts it into  *)
(* frames (crates/platform/src/audio.rs, resample.rs), a bounded queue     *)
(* takes them to the VAD worker (run_vad_thread of crates/app/src/         *)
(* wiring.rs), which gives each window of samples a probability (crates/   *)
(* vad), and the controller's speech gate (crates/core/src/gate.rs) makes  *)
(* of these the start and the end of speech, with the pre-roll             *)
(* (preroll.rs) for what was said before the gate opened.                  *)
(*                                                                         *)
(* A sample is the point in time it was taken at.  A microphone gives a    *)
(* sample at every whole multiple of Den, and Rate of them make Den        *)
(* samples of the program, so the program's are Rate apart: 3 and 2 stand  *)
(* for a microphone of 24 kHz.  A probability is "high" from the threshold *)
(* on, "mid" from the release threshold on, and "low" below.               *)
(***************************************************************************)
EXTENDS Integers, Sequences, SequencesExt, Session

CONSTANTS
  Rates,       \* the microphones: how far samples of the program are apart
  Den,         \* how far their own are apart
  Callbacks,   \* how many samples a call of the callback may bring
  FrameSize,   \* FRAME_SAMPLES
  QueueSize,   \* frames the queue takes: 64
  Hop,         \* VAD_HOP, samples of a window
  SpeechTime, SilenceTime, PrerollSet,  \* vad_min_speech_ms, vad_min_silence_ms and preroll_ms
               \* of the settings, in samples
  MaxSound,    \* bound: samples of the microphones
  MaxCaptures, \* bound: times the microphone is opened
  MaxChanges   \* bound: changes of the session that no frame makes

\* milliseconds_to_frames, of so many samples: the windows until speech starts and ends.
WindowsOf(time) == LET whole == (time + Hop - 1) \div Hop IN IF whole > 1 THEN whole ELSE 1
MinSpeech == WindowsOf(SpeechTime)
MinSilence == WindowsOf(SilenceTime)

ASSUME HearingAssumption ==
  /\ Rates \subseteq Nat \ {0} /\ Callbacks \subseteq Nat \ {0}
  /\ \A n \in {Den, QueueSize, Hop} : n \in Nat \ {0}
  /\ FrameSize \in Nat \ {0, 1}
  /\ \A n \in {SpeechTime, SilenceTime, PrerollSet, MaxSound, MaxCaptures, MaxChanges} : n \in Nat
  \* A frame has no room for the end of a speech and the start of the next.
  /\ (MinSpeech + 1) * Hop >= FrameSize + Hop

VARIABLES
  mic,       \* the microphone: its rate, 0 if it is closed, the samples it has had
             \* before it was opened and by now, the resampler's position, and
             \* the frame it is filling
  captures,  \* times it was opened
  audio,     \* frames on their way to the worker
  controls,  \* what the controller has told the worker
  worker,    \* "loading", "suspended", "enabled", "gone"
  carry,     \* samples the worker has left over
  events,    \* frames with their probabilities on the way to the controller
  session,   \* the state of Session
  leaving,   \* whether the controller is on its way from suspend to closing the microphone
  speaking, run,  \* the gate
  history,   \* the windows the gate has had since it was last reset
  told,      \* whether the last event of the gate was the start of speech
  preroll,
  changes    \* changes of the session that no frame has made, for the bound

gateVars == <<speaking, run, history, told>>
sessionVars == <<session, leaving, gateVars, preroll, changes>>
workVars == <<controls, worker, carry, events>>
vars == <<mic, captures, audio, workVars, session, leaving, gateVars, preroll, changes>>

None(had) == [rate |-> 0, since |-> 0, had |-> had, position |-> 0, frame |-> <<>>]
Failure == [of |-> 0]
Levels == {"high", "mid", "low"}
Open == mic.rate # 0
Tells(what) == controls' = controls \o what
LastOf(s, n) == SubSeq(s, Len(s) - (IF Len(s) < n THEN Len(s) ELSE n) + 1, Len(s))

(***************************************************************************)
(* The gate and the pre-roll.                                              *)
(***************************************************************************)
\* What a probability makes of the gate: whether it is speaking, its run, and
\* the event, if any.
SlipPushed(gate, level) ==
  LET more == gate.run + 1 IN
  IF ~gate.speaking
  THEN IF level # "high" THEN gate
       ELSE IF more >= MinSpeech THEN [speaking |-> TRUE, run |-> 0, event |-> "started"]
       ELSE [speaking |-> FALSE, run |-> more, event |-> "none"]
  ELSE IF level # "low" THEN [speaking |-> TRUE, run |-> 0, event |-> "none"]
       ELSE IF more >= MinSilence THEN [speaking |-> FALSE, run |-> 0, event |-> "ended"]
       ELSE [speaking |-> TRUE, run |-> more, event |-> "none"]
Pushed(gate, level) ==
  LET more == gate.run + 1 IN
  IF ~gate.speaking
  THEN IF level # "high" THEN [speaking |-> FALSE, run |-> 0, event |-> "none"]
       ELSE IF more >= MinSpeech THEN [speaking |-> TRUE, run |-> 0, event |-> "started"]
       ELSE [speaking |-> FALSE, run |-> more, event |-> "none"]
  ELSE IF level # "low" THEN [speaking |-> TRUE, run |-> 0, event |-> "none"]
       ELSE IF more >= MinSilence THEN [speaking |-> FALSE, run |-> 0, event |-> "ended"]
       ELSE [speaking |-> TRUE, run |-> more, event |-> "none"]

\* The gate after each window of a frame, before it the gate as it was.
Course(windows) ==
  LET gate[i \in 0..Len(windows)] ==
        IF i = 0 THEN [speaking |-> speaking, run |-> run, event |-> "none"]
        ELSE Pushed(gate[i - 1], windows[i].level)
  IN  gate

\* effective_preroll_ms: at least the times that decide and one window more, though the
\* gate takes as many windows as these times begin.
SlipPrerollSize == PrerollSet
PrerollSize ==
  LET deciding == SpeechTime + SilenceTime + Hop IN
  IF PrerollSet > deciding THEN PrerollSet ELSE deciding
Kept(samples) == LastOf(preroll \o samples, PrerollSize)

ResetsGate == speaking' = FALSE /\ run' = 0 /\ history' = <<>> /\ told' = FALSE

(***************************************************************************)
(* The microphone.  The resampler interpolates between the sample before   *)
(* and the current one; before the first there is none, and its position   *)
(* makes it wait for the second.                                           *)
(***************************************************************************)
\* How many fall between the microphone's last sample and the current one.
Points(rate, position) == IF position < Den THEN (Den - 1 - position) \div rate + 1 ELSE 0
Resampled(m) ==
  LET points == Points(m.rate, m.position)
      taken == [i \in 1..points |-> m.had * Den + m.position + (i - 1) * m.rate]
  IN  IF m.rate = Den
      THEN [m EXCEPT !.had = @ + 1, !.position = 0, !.frame = Append(@, (m.had + 1) * Den)]
      ELSE [m EXCEPT !.had = @ + 1, !.position = @ + points * m.rate - Den,
                     !.frame = @ \o taken]
Brought(m, n) ==
  LET after[i \in 0..n] == IF i = 0 THEN m ELSE Resampled(after[i - 1]) IN after[n]

\* The frames that are full, of a microphone.
Frames(m) ==
  [i \in 1..(Len(m.frame) \div FrameSize) |->
     [of |-> captures, samples |-> SubSeq(m.frame, (i - 1) * FrameSize + 1, i * FrameSize)]]
SlipRest(m) == <<>>
Rest(m) == LastOf(m.frame, Len(m.frame) % FrameSize)

\* try_send: a frame for which there is no room, or no worker, is dropped.
Offered(frames) ==
  LET room == QueueSize - Len(audio) IN
  IF worker = "gone" THEN audio
  ELSE audio \o SubSeq(frames, 1, IF Len(frames) < room THEN Len(frames) ELSE room)

Delivers(n) ==
  /\ Open /\ mic.had + n <= MaxSound
  /\ LET m == Brought(mic, n) IN
       /\ audio' = Offered(Frames(m))
       /\ mic' = [m EXCEPT !.frame = Rest(m)]
  /\ UNCHANGED <<captures, workVars, sessionVars>>

\* AudioCapture::start; the resampler and the frame are new.
Opens(rate) ==
  /\ captures < MaxCaptures /\ captures' = captures + 1
  /\ mic' = [rate |-> rate, since |-> mic.had, had |-> mic.had, position |-> Den, frame |-> <<>>]

(***************************************************************************)
(* The worker.  While suspended it waits for the controller and leaves the *)
(* frames alone; enabled, it takes whichever comes.                        *)
(***************************************************************************)
ModelLoaded == worker' = "suspended" /\ carry' = <<>> /\ UNCHANGED events
ModelFails == worker' = "gone" /\ events' = Append(events, Failure) /\ UNCHANGED carry
Loads ==
  /\ worker = "loading" /\ (ModelLoaded \/ ModelFails)
  /\ UNCHANGED <<mic, captures, audio, controls, sessionVars>>

Emptied == <<>>
Obeys ==
  /\ worker \in {"suspended", "enabled"} /\ controls # <<>>
  /\ controls' = Tail(controls)
  /\ CASE Head(controls) = "resume" ->
            worker' = "enabled" /\ carry' = <<>> /\ UNCHANGED audio
       [] Head(controls) = "suspend" ->
            worker' = "suspended" /\ carry' = <<>> /\ audio' = Emptied
       [] OTHER -> worker' = "gone" /\ audio' = <<>> /\ UNCHANGED carry
  /\ UNCHANGED <<mic, captures, events, sessionVars>>

\* SileroVad::push: whole windows are judged, what is over is kept.
Windows(samples) == [i \in 1..(Len(samples) \div Hop) |-> samples[i * Hop]]
Left(samples) == LastOf(samples, Len(samples) % Hop)
Judges(levels) ==
  /\ worker = "enabled" /\ audio # <<>>
  /\ LET samples == carry \o Head(audio).samples
         ends == Windows(samples)
     IN  /\ Len(levels) = Len(ends)
         /\ carry' = Left(samples)
         /\ events' = Append(events,
              [of |-> Head(audio).of, samples |-> Head(audio).samples,
               windows |-> [i \in 1..Len(ends) |-> [level |-> levels[i], end |-> ends[i]]]])
  /\ audio' = Tail(audio)
  /\ UNCHANGED <<mic, captures, controls, worker, sessionVars>>

Breaks ==
  /\ worker = "enabled" /\ audio # <<>>
  /\ worker' = "gone" /\ audio' = <<>> /\ events' = Append(events, Failure)
  /\ UNCHANGED <<mic, captures, controls, carry, sessionVars>>

(***************************************************************************)
(* The controller.  The end of a speech and of a session are told in Turn  *)
(* and Controller; here they come when they may, and a frame of a session  *)
(* goes on the wire or into the pre-roll.                                  *)
(***************************************************************************)
Counts == changes < MaxChanges /\ changes' = changes + 1
Free == ~leaving /\ UNCHANGED leaving

\* enable_listening; a microphone that cannot be opened fails the session.
SwitchesOn(rate) ==
  /\ Free /\ session = "Disabled" /\ Opens(rate)
  /\ session' = Apply(session, "Enable")
  /\ preroll' = <<>> /\ ResetsGate /\ Tells(<<"resume">>)
  /\ UNCHANGED <<audio, worker, carry, events, changes>>
FindsNoMicrophone ==
  /\ Free /\ session = "Disabled"
  /\ session' = Apply(Apply(session, "Enable"), "Failed")
  /\ Counts /\ preroll' = <<>> /\ ResetsGate /\ Tells(<<"resume", "suspend">>)
  /\ UNCHANGED <<mic, captures, audio, worker, carry, events>>
SwitchesOnAgain ==
  /\ Free /\ session = "Stopping" /\ session' = Apply(session, "Enable")
  /\ UNCHANGED <<mic, captures, audio, workVars, gateVars, preroll, changes>>

\* disable_listening tells the worker first and then closes the microphone,
\* whose callback may come in between.
Disables ==
  /\ ~leaving /\ session \notin {"Disabled", "Stopping"}
  /\ Counts /\ leaving' = TRUE /\ Tells(<<"suspend">>)
  /\ UNCHANGED <<mic, captures, audio, worker, carry, events, session, gateVars, preroll>>
Closes ==
  /\ leaving /\ leaving' = FALSE
  /\ session' = Apply(session, "Disable") /\ mic' = None(mic.had) /\ ResetsGate /\ preroll' = <<>>
  /\ UNCHANGED <<captures, audio, workVars, changes>>

\* resume_after_finished: listening goes on, with the microphone as it is or
\* opened again, and what is in the pre-roll.
Resumes(rate) ==
  /\ IF session' # "Listening" THEN UNCHANGED <<mic, captures, controls, gateVars>>
     ELSE /\ ResetsGate /\ Tells(<<"resume">>)
          /\ IF Open THEN UNCHANGED <<mic, captures>> ELSE Opens(rate)
  /\ UNCHANGED <<audio, worker, carry, events, preroll>>
Proceeds ==
  /\ Free /\ \E input \in {"Connected", "IdleTimeout", "Failed"} :
       Accepts(session, input) /\ session # "Disabled" /\ session' = Apply(session, input)
  /\ Counts
  /\ UNCHANGED <<mic, captures, audio, workVars, gateVars, preroll>>
Ends(rate) ==
  /\ Free /\ \E input \in {"Finished", "Timeout", "Aborted", "Retry"} :
       Accepts(session, input) /\ session' = Apply(session, input)
  /\ Counts
  /\ Resumes(rate)

\* handle_vad_frame: the starts of speech first, then the samples, then the ends.
\* What start_asr sends first.
SentAtStart(frame) == preroll \o frame.samples
Had(course, what) == \E i \in DOMAIN course : course[i].event = what
Tell(course) ==
  IF Had(course, "ended") THEN FALSE ELSE IF Had(course, "started") THEN TRUE ELSE told
Hears ==
  /\ Free /\ events # <<>> /\ Head(events) # Failure
  /\ LET frame == Head(events)
         course == Course(frame.windows)
         after == course[Len(frame.windows)]
         begins == session = "Listening" /\ Had(course, "started")
     IN  IF ~ListeningEnabled(session)
         THEN UNCHANGED <<session, gateVars, preroll, changes>>
         ELSE /\ speaking' = after.speaking /\ run' = after.run
              /\ history' = history \o frame.windows
              /\ told' = Tell(course)
              /\ session' = IF begins THEN Apply(session, "SpeechStarted") ELSE session
              /\ IF begins THEN preroll' = <<>>
                 ELSE IF session \in {"Connecting", "Streaming"}
                 THEN preroll' \in {preroll, Kept(frame.samples), <<>>}
                 ELSE preroll' = Kept(frame.samples)
  /\ events' = Tail(events)
  /\ UNCHANGED <<mic, captures, audio, controls, worker, carry, changes>>

\* handle_vad_failure.
LearnsOfFailure ==
  /\ Free /\ events # <<>> /\ Head(events) = Failure
  /\ events' = Tail(events) /\ Tells(<<"suspend">>) /\ mic' = None(mic.had)
  /\ session' = Apply(session, "Failed")
  /\ UNCHANGED <<captures, audio, worker, carry, gateVars, preroll, changes>>

\* request_shutdown, of a controller that does not listen any more.
Quits ==
  /\ Free /\ session = "Disabled" /\ ~Contains(controls, "shutdown")
  /\ Tells(<<"shutdown">>)
  /\ UNCHANGED <<mic, captures, audio, worker, carry, events, session, gateVars, preroll, changes>>

Init ==
  /\ mic = None(0) /\ captures = 0 /\ audio = <<>>
  /\ controls = <<"suspend">> /\ worker = "loading" /\ carry = <<>> /\ events = <<>>
  /\ session = "Disabled" /\ leaving = FALSE
  /\ speaking = FALSE /\ run = 0 /\ history = <<>> /\ told = FALSE
  /\ preroll = <<>> /\ changes = 0

Next ==
  \/ \E n \in Callbacks : Delivers(n)
  \/ Loads \/ Obeys
  \/ \E levels \in BoundedSeq(Levels, (FrameSize + Hop - 1) \div Hop) : Judges(levels)
  \/ Breaks
  \/ \E rate \in Rates : SwitchesOn(rate) \/ Ends(rate)
  \/ FindsNoMicrophone \/ SwitchesOnAgain \/ Disables \/ Closes \/ Proceeds
  \/ Hears \/ LearnsOfFailure \/ Quits

Spec == Init /\ [][Next]_vars

(***************************************************************************)
(* Properties.                                                             *)
(***************************************************************************)
\* The samples of a frame are taken at even times, whatever pieces the
\* microphone brings them in, and between two frames none is left out but whole
\* frames: the resampler and the cutting carry over from one call to the next.
EvenlySampled ==
  \A i \in DOMAIN audio :
    LET f == audio[i]
        apart == f.samples[2] - f.samples[1] IN
    /\ apart \in Rates /\ \A k \in 2..FrameSize : f.samples[k] - f.samples[k - 1] = apart
    /\ f.of = captures /\ Open =>
         (f.samples[1] - (mic.since + 1) * Den) % (FrameSize * mic.rate) = 0

\* The gate is open exactly if, since it was reset, MinSpeech windows in a row
\* were above the threshold and no MinSilence windows in a row after them were
\* below the release threshold (SpeechGate::push keeps one counter for both), and
\* a session that listens was told so last, though a frame holds several windows
\* and its events are not told in their order.
AllOf(what, first, last) == \A i \in first..last : history[i].level \in what
GateExact ==
  /\ speaking <=>
       \E on \in MinSpeech..Len(history) :
         /\ AllOf({"high"}, on - MinSpeech + 1, on)
         /\ ~\E off \in (on + MinSilence)..Len(history) : AllOf({"low"}, off - MinSilence + 1, off)
  /\ ListeningEnabled(session) => told = speaking

\* The speech is sent from its first sound on: the windows that opened the gate
\* end within what is sent for it, however many frames they took.  (The first may
\* begin with samples that the session before has had.)
Opened(h) == {on \in MinSpeech..Len(h) : \A i \in (on - MinSpeech + 1)..on : h[i].level = "high"}
LastOpened(h) == CHOOSE on \in Opened(h) : \A other \in Opened(h) : other <= on
OnsetSent ==
  [][session = "Listening" /\ session' = "Connecting" =>
       \A i \in (LastOpened(history') - MinSpeech + 1)..LastOpened(history') :
         Contains(SentAtStart(Head(events)), history'[i].end)]_vars

\* What is heard while listening was not taken before listening was switched on.
FreshAudio ==
  [][Hears /\ ListeningEnabled(session) => Head(events).of = captures]_vars
================================================================================

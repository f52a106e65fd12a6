--------------------------------- MODULE Turn ---------------------------------
(***************************************************************************)
(* What becomes of the words: the audio of one utterance after another on  *)
(* its way through the controller to the recogniser, and the text on its   *)
(* way back, in crates/app/src/controller.rs, with the recogniser of       *)
(* crates/asr-server behind the connection.                                *)
(*                                                                         *)
(* An utterance, a turn, is three frames of the VAD worker: one spoken     *)
(* before the speech gate opens, one on which it opens and one on which it *)
(* closes.  Frames are numbered in the order they are spoken.  Time is     *)
(* free to pass between any two steps, silence is left out, and so is the  *)
(* user who switches listening off (Controller has both).                  *)
(***************************************************************************)
EXTENDS Naturals, Sequences

CONSTANTS
  Modes,        \* settings.endpoint_mode: some of client, server and both
  PerEndpoint,  \* settings.paste_per_endpoint
  Turns,        \* bound: how often the user speaks
  PrerollSize,  \* frames the pre-roll holds
  MaxPending,   \* frames that may wait for the connection
  MaxInbox,     \* bound: events in the queue when the server says something unasked
  Splits,       \* whether the server ends segments on its own
  Warmups,      \* whether an enrollment warm-up may run
  Breaks,       \* whether connections break, time out and fail
  Notices       \* whether the server sends notices to the user

ASSUME TurnAssumption ==
  /\ Modes \subseteq {"client", "server", "both"}
  /\ {PerEndpoint, Splits, Warmups, Breaks, Notices} \subseteq BOOLEAN
  /\ Turns \in Nat /\ MaxInbox \in Nat
  /\ PrerollSize \in Nat \ {0} /\ MaxPending \in Nat \ {0}

VARIABLES
  mode,        \* the endpoint mode in force, which does not change
  frames,      \* frames spoken so far
  session,     \* Session::state
  warmup,      \* whether the warm-up job runs
  deferred,    \* deferred_speech: its audio and whether its end was seen
  delayed,     \* delayed_turn: none, or whether its end was seen
  preroll,     \* frames kept from before the gate opened
  pending,     \* pending_audio
  finalized,   \* client_finalize_sent
  awaiting,    \* finalize_pending
  paused,      \* server_audio_paused
  wait,        \* whether the answer of the server is waited for (pending_since)
  byText,      \* pending_completed_by_final_text
  byEndpoint,  \* pending_completed_by_endpoint
  leftOver,    \* history: whether the last endpoint left a wait, or lost its mark
  link,        \* the connection: none, dialing, up, over
  wire,        \* all that was given to the thread of this connection
  read,        \* how much of it the server has taken
  heard,       \* the frames the server collects for its next answer
  answers,     \* how many answers with text there have been
  inbox,       \* events not yet read
  transcript,  \* the final text of the segment in progress
  commit,      \* pending_commit: text not yet put out
  typed,       \* history: what was put out, and how
  closed,      \* history: the latest frame on which the gate closed
  held,        \* history: audio held back by a warm-up until the connection was up
  late         \* history: the same, where the user had finished by then

audioVars == <<deferred, preroll, pending, wire>>
turnVars == <<finalized, awaiting, paused, delayed>>
waitVars == <<wait, byText, byEndpoint, leftOver>>
serverVars == <<read, heard, answers>>
textVars == <<transcript, commit, typed>>
histVars == <<closed, held, late>>
vars == <<mode, frames, session, warmup, audioVars, turnVars, waitVars, link, serverVars,
          inbox, textVars, histVars>>

Frames == 1..(3 * Turns)
NotDeferred == [audio |-> <<>>, ended |-> FALSE]

\* AsrCommand and AsrEvent.  Text carries the frames it was recognised from and
\* what the server answered with it: a finalize, or an endpoint of its own.
Audio(f) == [what |-> "Audio", frame |-> f]
Command(c) == [what |-> c, frame |-> 0]
Event(e) == [what |-> e, answer |-> 0, from |-> {}, to |-> "None"]

TypeOK ==
  /\ mode \in Modes
  /\ frames \in 0..(3 * Turns)
  /\ session \in {"Listening", "Connecting", "Streaming", "Closing", "Failed"}
  /\ warmup \in BOOLEAN
  /\ deferred \in [audio : Seq(Frames), ended : BOOLEAN]
  /\ delayed \in {"none", "speaking", "ended"}
  /\ preroll \in Seq(Frames) /\ pending \in Seq(Frames)
  /\ finalized \in BOOLEAN /\ awaiting \in BOOLEAN /\ paused \in BOOLEAN
  /\ wait \in BOOLEAN /\ byText \in BOOLEAN /\ byEndpoint \in BOOLEAN
  /\ leftOver \in BOOLEAN
  /\ link \in {"none", "dialing", "up", "over"}
  /\ wire \in Seq([what : {"Start", "Finalize", "Stop", "Audio"}, frame : 0..(3 * Turns)])
  /\ read \in 0..Len(wire)
  /\ heard \in SUBSET Frames
  /\ answers \in Nat
  /\ inbox \in Seq([what : {"Connected", "Text", "Partial", "Endpoint", "Fin", "Notice",
                            "Finished", "Lost"},
                    answer : Nat, from : SUBSET Frames, to : {"None", "Fin", "Endpoint"}])
  /\ transcript \in Seq([answer : Nat, from : SUBSET Frames])
  /\ commit \in Seq([answer : Nat, from : SUBSET Frames])
  /\ typed \in Seq([text : Seq([answer : Nat, from : SUBSET Frames]),
                    how : {"paste", "clipboard"}])
  /\ closed \in 0..(3 * Turns) /\ held \in SUBSET Frames /\ late \in SUBSET held

Init ==
  /\ mode \in Modes
  /\ frames = 0 /\ session = "Listening"
  /\ warmup = FALSE /\ deferred = NotDeferred /\ delayed = "none"
  /\ preroll = <<>> /\ pending = <<>>
  /\ finalized = FALSE /\ awaiting = FALSE /\ paused = FALSE
  /\ wait = FALSE /\ byText = FALSE /\ byEndpoint = FALSE /\ leftOver = FALSE
  /\ link = "none" /\ wire = <<>> /\ read = 0 /\ heard = {} /\ answers = 0
  /\ inbox = <<>>
  /\ transcript = <<>> /\ commit = <<>> /\ typed = <<>>
  /\ closed = 0 /\ held = {} /\ late = {}

-------------------------------------------------------------------------------
(***************************************************************************)
(* Audio.  handle_vad_samples keeps or sends a frame; where it goes depends *)
(* on the state the gate event before it has left.                         *)
(***************************************************************************)
TurnOf(f) == (f - 1) \div 3
Speaking == frames % 3 = 2

\* gate.reset: what is still being said counts as another turn.
GateReset == frames' = IF frames % 3 = 0 THEN frames ELSE 3 * TurnOf(frames) + 3

Latest(n, s) == IF Len(s) <= n THEN s ELSE SubSeq(s, Len(s) - n + 1, Len(s))
AudioOf(s) == [i \in 1..Len(s) |-> Audio(s[i])]

Deferring == deferred # NotDeferred
ToWire == session = "Streaming" /\ ~paused
ToPending == session = "Connecting" /\ ~finalized

\* Where frame f leaves each of the buffers.  A warm-up without deferred speech
\* swallows it.
HeldWith(f) == IF Deferring THEN [deferred EXCEPT !.audio = Append(@, f)] ELSE deferred
WireWith(f) == IF ~Deferring /\ ~warmup /\ ToWire THEN Append(wire, Audio(f)) ELSE wire
PendingWith(f) ==
  IF ~Deferring /\ ~warmup /\ ToPending THEN Latest(MaxPending, Append(pending, f))
  ELSE pending
SlipKeepsSent(f) ==
  IF ~Deferring /\ ~warmup /\ ~ToPending THEN Latest(PrerollSize, Append(preroll, f))
  ELSE preroll
PrerollWith(f) ==
  IF ~Deferring /\ ~warmup /\ ~ToWire /\ ~ToPending
  THEN Latest(PrerollSize, Append(preroll, f)) ELSE preroll

\* A frame of speech before the gate opens.
Onset ==
  /\ frames % 3 = 0 /\ frames < 3 * Turns
  /\ frames' = frames + 1
  /\ deferred' = HeldWith(frames') /\ wire' = WireWith(frames')
  /\ pending' = PendingWith(frames') /\ preroll' = PrerollWith(frames')
  /\ UNCHANGED <<session, warmup, turnVars, waitVars, link, serverVars, inbox, textVars,
                 histVars>>

\* The gate opens on this frame (handle_gate_event, SpeechStarted).
GateOpens ==
  /\ frames % 3 = 1 /\ frames' = frames + 1
  /\ finalized' = FALSE
  /\ UNCHANGED <<awaiting, delayed, waitVars, serverVars, inbox, textVars, histVars>>

\* While a warm-up runs, or after it was found due, speech is deferred, with
\* the speech deferred before.
SpeechDeferred ==
  /\ GateOpens
  /\ warmup \/ (Warmups /\ session = "Listening")
  /\ warmup' = TRUE
  /\ deferred' = [audio |-> Append((IF deferred.audio = <<>> THEN preroll ELSE deferred.audio),
                                   frames'),
                  ended |-> FALSE]
  /\ preroll' = <<>>
  /\ UNCHANGED <<session, pending, wire, paused, link>>

\* start_asr: a connection whose first command announces the speech.
StartAsr(audio) ==
  /\ session' = "Connecting" /\ link' = "dialing"
  /\ wire' = <<Command("Start")>> /\ pending' = audio /\ paused' = FALSE

SpeechConnects ==
  /\ GateOpens /\ ~warmup /\ session = "Listening"
  /\ StartAsr(Latest(MaxPending, Append(preroll, frames')))
  /\ preroll' = <<>>
  /\ UNCHANGED <<warmup, deferred>>

\* send_speech_start, in the queue of the connection, up or not.
SlipUnannounced == wire
Announced == Append(wire, Command("Start"))

\* Paused audio goes on with the pre-roll.
SlipHeadLeft == <<>>
ResumedWith == IF paused THEN preroll ELSE <<>>

SpeechContinues ==
  /\ GateOpens /\ ~warmup /\ session = "Streaming"
  /\ wire' = Announced \o AudioOf(ResumedWith) \o <<Audio(frames')>>
  /\ preroll' = (IF paused THEN <<>> ELSE preroll)
  /\ paused' = FALSE
  /\ UNCHANGED <<session, warmup, deferred, pending, link>>

\* The same before the connection is up, when the turn before was finalized.
SpeechQueued ==
  /\ GateOpens /\ ~warmup /\ session = "Connecting"
  /\ IF finalized
     THEN /\ wire' = Announced
          /\ pending' = Latest(MaxPending, pending \o Append(preroll, frames'))
          /\ preroll' = <<>> /\ paused' = FALSE
     ELSE /\ pending' = Latest(MaxPending, Append(pending, frames'))
          /\ UNCHANGED <<wire, preroll, paused>>
  /\ UNCHANGED <<session, warmup, deferred, link>>

\* No connection to begin with: the frame is kept for the next one.
SpeechMissed ==
  /\ GateOpens /\ ~warmup /\ session \in {"Closing", "Failed"}
  /\ preroll' = Latest(PrerollSize, Append(preroll, frames'))
  /\ UNCHANGED <<session, warmup, deferred, pending, wire, paused, link>>

\* A turn ended by the client: what is pending goes first, the finalize last.
SlipQueueAfter(queued, sent) == sent \o <<Command("Finalize")>> \o AudioOf(queued)
SlipLastFrameAfter(queued, sent) ==
  LET all == sent \o AudioOf(queued)
  IN  SubSeq(all, 1, Len(all) - 1) \o <<Command("Finalize"), all[Len(all)]>>
TurnEnded(queued, sent) == sent \o AudioOf(queued) \o <<Command("Finalize")>>

\* finish_current_speech, on the buffers as the frame before has left them.
FinishSpeech(state, before, queued, sent) ==
  IF mode # "server" /\ state \in {"Connecting", "Streaming"} /\ ~finalized
  THEN /\ wire' = TurnEnded(queued, sent)
       /\ pending' = <<>>
       /\ preroll' = (IF mode = "both" THEN <<>> ELSE before)
       /\ paused' = (paused \/ mode = "both")
       /\ finalized' = TRUE /\ awaiting' = TRUE
       /\ UNCHANGED wait
  ELSE /\ wire' = sent /\ pending' = queued /\ preroll' = before
       /\ wait' = (wait \/ (mode = "server" /\ state = "Streaming" /\ ~byEndpoint))
       /\ UNCHANGED <<paused, finalized, awaiting>>

SlipEndUnseen(turn) == turn
EndSeen(turn) == IF turn = "none" THEN "none" ELSE "ended"

\* The gate closes on this frame (SpeechEnded), after the frame has been handled.
SpeechEnded ==
  /\ Speaking /\ frames' = frames + 1
  /\ delayed' = EndSeen(delayed)
  /\ IF Deferring
     THEN /\ deferred' = [audio |-> Append(deferred.audio, frames'), ended |-> TRUE]
          /\ UNCHANGED <<preroll, pending, wire, finalized, awaiting, paused, wait>>
     ELSE /\ FinishSpeech(session, PrerollWith(frames'), PendingWith(frames'), WireWith(frames'))
          /\ UNCHANGED deferred
  /\ closed' = frames'
  /\ UNCHANGED <<session, warmup, byText, byEndpoint, leftOver, link, serverVars, inbox,
                 textVars, held, late>>

-------------------------------------------------------------------------------
(***************************************************************************)
(* The warm-up (start_warmup, finish_enrollment_warmup).                   *)
(***************************************************************************)
WarmupStarts ==
  /\ Warmups /\ ~warmup /\ warmup' = TRUE
  /\ UNCHANGED <<frames, session, audioVars, turnVars, waitVars, link, serverVars, inbox,
                 textVars, histVars>>

\* resume_deferred_warmup_speech
WarmupEnds ==
  /\ warmup /\ warmup' = FALSE
  /\ deferred' = NotDeferred
  /\ IF Deferring /\ session = "Listening"
     THEN /\ StartAsr(deferred.audio)
          /\ delayed' = (IF deferred.ended THEN "ended" ELSE "speaking")
     ELSE UNCHANGED <<session, link, wire, pending, paused, delayed>>
  /\ UNCHANGED <<frames, preroll, finalized, awaiting, waitVars, serverVars, inbox, textVars,
                 histVars>>

-------------------------------------------------------------------------------
(***************************************************************************)
(* The recogniser and the thread of the connection, which hands over in    *)
(* order what it is given.  A response with a marker holds the text, then  *)
(* a partial (parse_response adds one to every response), then the marker. *)
(***************************************************************************)
Text(to) == [what |-> "Text", answer |-> answers + 1, from |-> heard, to |-> to]

\* What was heard may turn out to be no words at all.
Answer(marker, after) ==
  /\ \/ /\ heard # {}
        /\ inbox' = inbox \o <<Text(marker), Event("Partial"), Event(marker)>> \o after
        /\ answers' = answers + 1
     \/ /\ inbox' = inbox \o <<Event("Partial"), Event(marker)>> \o after
        /\ UNCHANGED answers
  /\ heard' = {}

OthersThanServer ==
  UNCHANGED <<frames, session, warmup, audioVars, turnVars, waitVars, textVars, histVars>>

LinkConnects ==
  /\ link = "dialing" /\ link' = "up"
  /\ inbox' = Append(inbox, Event("Connected"))
  /\ UNCHANGED serverVars /\ OthersThanServer

\* handle_binary, and the control messages that mean nothing to it.
ServerHears ==
  /\ link = "up" /\ read < Len(wire) /\ wire[read + 1].what \in {"Audio", "Start"}
  /\ read' = read + 1
  /\ heard' = heard \cup ({wire[read + 1].frame} \ {0})
  /\ UNCHANGED <<link, answers, inbox>> /\ OthersThanServer

\* finalize
ServerFinalizes ==
  /\ link = "up" /\ read < Len(wire) /\ wire[read + 1].what = "Finalize"
  /\ read' = read + 1
  /\ Answer("Fin", <<>>)
  /\ UNCHANGED link /\ OthersThanServer

\* finish_connection
ServerFinishes ==
  /\ link = "up" /\ read < Len(wire) /\ wire[read + 1].what = "Stop"
  /\ read' = read + 1 /\ link' = "over"
  /\ IF heard = {}
     THEN inbox' = inbox \o <<Event("Partial"), Event("Finished")>> /\ UNCHANGED <<heard, answers>>
     ELSE Answer("Endpoint", <<Event("Partial"), Event("Finished")>>)
  /\ OthersThanServer

\* The server ends a segment on its own: because the utterance has become too
\* long (TooLong of RecognitionSession), or because it is an external service that
\* hears the end of speech, which the bundled server leaves to its client.
ServerSplits ==
  /\ Splits /\ link = "up" /\ heard # {} /\ Len(inbox) <= MaxInbox
  /\ Answer("Endpoint", <<>>)
  /\ UNCHANGED <<link, read>> /\ OthersThanServer

ServerPartial ==
  /\ link = "up" /\ heard # {} /\ Len(inbox) <= MaxInbox
  /\ inbox' = Append(inbox, Event("Partial"))
  /\ UNCHANGED <<link, serverVars>> /\ OthersThanServer

\* A message to the user, in a response of its own (parse_response).
ServerNotifies ==
  /\ Notices /\ link = "up" /\ Len(inbox) <= MaxInbox
  /\ inbox' = Append(inbox, Event("Notice"))
  /\ UNCHANGED <<link, serverVars>> /\ OthersThanServer

LinkBreaks ==
  /\ Breaks /\ link \in {"dialing", "up"} /\ link' = "over"
  /\ inbox' = Append(inbox, Event("Lost"))
  /\ UNCHANGED serverVars /\ OthersThanServer

-------------------------------------------------------------------------------
(***************************************************************************)
(* handle_asr_event                                                        *)
(***************************************************************************)
Takes(e) == inbox # <<>> /\ Head(inbox).what = e

\* The user is silent, and the gate has seen the end of the latest turn.
TurnOver == ~Speaking /\ closed = 3 * (frames \div 3)

ConnectedArrives ==
  /\ Takes("Connected") /\ inbox' = Tail(inbox)
  /\ IF session = "Connecting"
     THEN /\ session' = "Streaming"
          /\ IF delayed = "ended"
             THEN /\ FinishSpeech("Streaming", preroll, <<>>, wire \o AudioOf(pending))
                  /\ UNCHANGED delayed
             ELSE /\ wire' = wire \o AudioOf(pending) /\ pending' = <<>>
                  /\ delayed' = "none"
                  /\ UNCHANGED <<preroll, paused, finalized, awaiting, wait>>
          /\ LET given == {wire'[i].frame : i \in 1..Len(wire')} \ {0}
             IN  /\ held' = (IF delayed = "none" THEN held ELSE held \cup given)
                 /\ late' = (IF delayed # "none" /\ TurnOver THEN late \cup given ELSE late)
     ELSE UNCHANGED <<session, preroll, pending, wire, turnVars, wait, held, late>>
  /\ UNCHANGED <<frames, warmup, deferred, byText, byEndpoint, leftOver, link, serverVars,
                 textVars, closed>>

\* Text that comes when the client has ended the turn and waits for nothing is
\* taken for a late answer.
TooLate == finalized /\ ~Speaking /\ ~awaiting

TextArrives ==
  /\ Takes("Text") /\ inbox' = Tail(inbox)
  /\ IF TooLate
     THEN UNCHANGED <<transcript, waitVars>>
     ELSE /\ transcript' = Append(transcript, [answer |-> Head(inbox).answer,
                                               from |-> Head(inbox).from])
          /\ byEndpoint' = FALSE /\ byText' = wait /\ wait' = FALSE /\ leftOver' = FALSE
  /\ UNCHANGED <<frames, session, warmup, audioVars, turnVars, link, serverVars, commit,
                 typed, histVars>>

PartialArrives ==
  /\ Takes("Partial") /\ inbox' = Tail(inbox)
  /\ byEndpoint' = FALSE /\ wait' = FALSE /\ leftOver' = FALSE /\ UNCHANGED byText
  /\ UNCHANGED <<frames, session, warmup, audioVars, turnVars, link, serverVars, textVars,
                 histVars>>

\* take_segment and commit_segment, while automatic pasting is on: text waits
\* for the end of the session unless it goes out segment by segment, and text of
\* a turn that had to wait for a warm-up is not pasted.
SlipNotTaken == UNCHANGED transcript
TakeSegment == transcript' = <<>>
CommitSegment ==
  LET text == commit \o transcript
      out == text # <<>> /\ (PerEndpoint \/ session = "Closing")
  IN  /\ TakeSegment
      /\ commit' = (IF out THEN <<>> ELSE text)
      /\ typed' = (IF out THEN Append(typed, [text |-> text,
                                              how |-> IF delayed = "none" THEN "paste"
                                                      ELSE "clipboard"])
                   ELSE typed)

\* The server has closed the segment, whether or not that was waited for.
SlipOnlyIfWaited ==
  /\ wait' = (wait /\ byText) /\ leftOver' = (wait /\ byText)
  /\ byText' = FALSE /\ byEndpoint' = (wait \/ byText)
ClosedByServer ==
  /\ wait' = (wait /\ byText) /\ leftOver' = (wait /\ byText)
  /\ byText' = FALSE /\ byEndpoint' = TRUE

\* close_delayed_session_after_response: the connection of a turn in one of these
\* states, which a warm-up held back, has had its answer.
CloseDelayed(turns) ==
  IF delayed \in turns /\ session = "Streaming" /\ ~Speaking
  THEN session' = "Closing" /\ wire' = Append(wire, Command("Stop"))
  ELSE UNCHANGED <<session, wire>>

EndpointArrives ==
  /\ Takes("Endpoint") /\ inbox' = Tail(inbox)
  /\ ClosedByServer
  /\ awaiting' = FALSE
  /\ paused' = (paused \/ mode # "client")
  /\ CommitSegment
  /\ CloseDelayed({"ended"})
  /\ UNCHANGED <<frames, warmup, deferred, preroll, pending, finalized, delayed, link,
                 serverVars, histVars>>

\* A notice that follows an endpoint only takes its mark; any other ends the wait.  It is
\* read after Connected, so that the mark of a turn held back stays (show_overlay_notice).
NoticeArrives ==
  /\ Takes("Notice") /\ inbox' = Tail(inbox)
  /\ wait' = (wait /\ byEndpoint) /\ byEndpoint' = FALSE /\ UNCHANGED byText
  /\ leftOver' = (leftOver \/ byEndpoint)
  /\ CloseDelayed({"speaking", "ended"})
  /\ UNCHANGED <<frames, warmup, deferred, preroll, pending, turnVars, link, serverVars,
                 textVars, histVars>>

FinArrives ==
  /\ Takes("Fin") /\ inbox' = Tail(inbox)
  /\ wait' = (wait /\ byText) /\ byText' = FALSE /\ UNCHANGED <<byEndpoint, leftOver>>
  /\ awaiting' = FALSE
  /\ CommitSegment
  /\ UNCHANGED <<frames, session, warmup, audioVars, finalized, paused, delayed, link,
                 serverVars, histVars>>

\* cleanup_asr.  The text of the session is not its business.
Cleanup ==
  /\ link' = "none" /\ wire' = <<>> /\ read' = 0 /\ heard' = {} /\ inbox' = <<>>
  /\ pending' = <<>> /\ delayed' = "none"
  /\ finalized' = FALSE /\ awaiting' = FALSE /\ paused' = FALSE
  /\ wait' = FALSE /\ byText' = FALSE /\ byEndpoint' = FALSE /\ leftOver' = FALSE
  /\ UNCHANGED <<warmup, deferred, preroll, answers, histVars>>

\* Finished is sent only by a server that was asked to stop.
FinishedArrives ==
  /\ Takes("Finished") /\ session = "Closing"
  /\ CommitSegment
  /\ session' = "Listening" /\ GateReset /\ Cleanup

\* finish_asr_shutdown and abort_asr_session
LostArrives ==
  /\ Takes("Lost")
  /\ TakeSegment /\ UNCHANGED <<commit, typed>>
  /\ session' = "Listening" /\ GateReset /\ Cleanup

-------------------------------------------------------------------------------
(***************************************************************************)
(* periodic                                                                *)
(***************************************************************************)
Active == {"Connecting", "Streaming", "Closing"}

\* idle_close_is_due
IdleCloses ==
  /\ session = "Streaming" /\ ~(Speaking /\ ~paused) /\ ~(wait \/ awaiting)
  /\ session' = "Closing"
  /\ wire' = wire \o <<Command("Finalize"), Command("Stop")>>
  /\ UNCHANGED <<frames, warmup, deferred, preroll, pending, turnVars, waitVars, link,
                 serverVars, inbox, textVars, histVars>>

\* reset_after_session_timeout
SessionTimeout ==
  /\ Breaks /\ session \in {"Connecting", "Closing"}
  /\ session' = "Listening" /\ GateReset /\ Cleanup
  /\ UNCHANGED textVars

\* fail_runtime and check_failed_recovery
Fails ==
  /\ Breaks /\ session \in Active
  /\ session' = "Failed" /\ Cleanup
  /\ UNCHANGED <<frames, textVars>>

Recovers ==
  /\ session = "Failed" /\ session' = "Listening" /\ GateReset
  /\ UNCHANGED <<warmup, audioVars, turnVars, waitVars, link, serverVars, inbox, textVars,
                 histVars>>

-------------------------------------------------------------------------------
SpeechStep ==
  \/ Onset \/ SpeechDeferred \/ SpeechConnects \/ SpeechContinues \/ SpeechQueued
  \/ SpeechMissed \/ SpeechEnded
WarmupStep == WarmupStarts \/ WarmupEnds
LinkStep ==
  \/ LinkConnects \/ ServerHears \/ ServerFinalizes \/ ServerFinishes \/ ServerSplits
  \/ ServerPartial \/ ServerNotifies \/ LinkBreaks
DrainStep ==
  \/ ConnectedArrives \/ TextArrives \/ PartialArrives \/ EndpointArrives \/ NoticeArrives
  \/ FinArrives \/ FinishedArrives \/ LostArrives
TimerStep == IdleCloses \/ SessionTimeout \/ Fails \/ Recovers

Next ==
  /\ SpeechStep \/ WarmupStep \/ LinkStep \/ DrainStep \/ TimerStep
  /\ UNCHANGED mode
Spec == Init /\ [][Next]_vars

-------------------------------------------------------------------------------
(***************************************************************************)
(* Audio.                                                                  *)
(***************************************************************************)
Places(what) == {i \in 1..Len(wire) : wire[i].what = what}

\* What the server is given is in the order it was spoken, and no frame twice,
\* whatever buffers the frames went through (pre-roll, pending_audio, deferred).
AudioInOrder ==
  /\ \A i, j \in Places("Audio") : i < j => wire[i].frame < wire[j].frame
  /\ \A i \in Places("Audio"), j \in 1..Len(pending) : wire[i].frame < pending[j]
  /\ \A i, j \in 1..Len(pending) : i < j => pending[i] < pending[j]

\* After a turn was ended, the server is told that another one begins before it
\* is given the audio, also while the connection is not up yet: two voices do
\* not meet in one turn.  (On an open connection the frames before the gate
\* opens have been sent by then.)
TurnAnnounced ==
  \A k \in Places("Finalize"), j \in Places("Audio") :
    k < j /\ wire[j].frame % 3 # 1 => \E i \in k..j : wire[i].what = "Start"

\* A turn the client has ended is complete: no audio of it follows.
TurnSealed ==
  \A k \in Places("Finalize") : \A i, j \in Places("Audio") :
    i < k /\ k < j => TurnOf(wire[i].frame) # TurnOf(wire[j].frame)

\* Every turn that is over has been ended for the server (settings.rs, of
\* endpoint_mode: client sends finalize when the VAD hears silence).
EndedTurnFinalized ==
  mode # "server" /\ session = "Streaming" /\ frames % 3 = 0 =>
    \A i \in Places("Audio") : \E k \in Places("Finalize") : i < k

\* Where the server may end turns, a turn reaches it with its head: the frame
\* before the gate opened is sent or about to be, whether the audio was paused,
\* pending or flowing.  (With endpoint_mode client it may be missing: what comes
\* between a finalize and Connected is only sent if the audio was paused.)
HeadSent ==
  [][mode # "client" /\ (SpeechContinues \/ SpeechQueued \/ SpeechConnects) =>
       \/ \E i \in 1..Len(wire') : wire'[i] = Audio(frames)
       \/ \E i \in 1..Len(pending') : pending'[i] = frames]_vars

(***************************************************************************)
(* Text.                                                                   *)
(***************************************************************************)
\* Everything put out, in order, and what is to follow it.
Texts ==
  [i \in 1..(Len(typed) + 2) |->
     IF i <= Len(typed) THEN typed[i].text ELSE IF i = Len(typed) + 1 THEN commit ELSE transcript]

\* Text is put out in the order of the answers, and no answer twice.
TextInOrder ==
  \A i, j \in 1..(Len(typed) + 2) : \A k \in 1..Len(Texts[i]), l \in 1..Len(Texts[j]) :
    i < j \/ (i = j /\ k < l) => Texts[i][k].answer < Texts[j][l].answer

\* A turn that had to wait for a warm-up, and was over before its connection was
\* up, is not pasted by that connection, whatever number of segments the server
\* makes of it and whatever turn follows: by then the user may be in another
\* window.
OfThisLink == {wire[i].frame : i \in 1..Len(wire)}
HeldTurnNotPasted ==
  [][\A i \in (Len(typed) + 1)..Len(typed') : typed'[i].how = "paste" =>
       \A k \in 1..Len(typed'[i].text) :
         typed'[i].text[k].from \cap late \cap OfThisLink = {}]_vars

\* The same of everything that is ever put out, whichever session puts it out.
LateTextNotPasted ==
  \A i \in 1..Len(typed) : typed[i].how = "paste" =>
    \A k \in 1..Len(typed[i].text) : typed[i].text[k].from \cap late = {}

\* Text of a turn that was not held back is pasted.
OtherTextPasted ==
  \A i \in 1..Len(typed) : typed[i].how = "clipboard" =>
    \A k \in 1..Len(typed[i].text) : LET from == typed[i].text[k].from IN
      (\E f \in from : f % 3 = 2) => from \cap held # {}

\* The text that answers a finalize is taken.
FinalTextKept ==
  [][TextArrives /\ Head(inbox).to = "Fin" => transcript' # transcript]_vars

(***************************************************************************)
(* Waiting.                                                                *)
(***************************************************************************)
\* The server has still to answer: to audio, or to a finalize.
Owes ==
  \/ heard # {}
  \/ \E i \in (read + 1)..Len(wire) : wire[i].what \in {"Audio", "Finalize"}
  \/ \E i \in 1..Len(inbox) : inbox[i].what \in {"Endpoint", "Fin"}

\* The answer waited for (and shown to be waited for) can still come: to a finalize
\* until the first answer after it, to speech until the server closes the segment and the
\* audio is paused, unless the endpoint left a wait or lost its mark.
WaitIsOwed ==
  session = "Streaming" /\ (awaiting \/ (wait /\ ~(paused /\ leftOver))) => Owes

\* Comment of controller.rs (1860): no wait begins, or is left over, to which no answer
\* comes any more.  Not so once the server has closed the segment: a wait renewed between
\* the text and its endpoint survives the endpoint, and one begins where a notice has taken
\* the mark of an endpoint that came before the end of the speech.
WaitNotLeftOver == session = "Streaming" /\ wait => Owes

===============================================================================

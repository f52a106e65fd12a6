------------------------------ MODULE Connection ------------------------------
(***************************************************************************)
(* One connection to a recogniser after another, as the threads that serve *)
(* it: the session thread of crates/protocol/src/client.rs, the control    *)
(* thread of crates/app/src/controller.rs (spawn_connection_control), which*)
(* asks over HTTP whether this device still holds the speech session, and  *)
(* the controller, which waits for both threads when it lets a connection  *)
(* go (cleanup_asr).  Controller and Turn take that wait for one step; here*)
(* it is taken apart.  In a process started with --check-connection the    *)
(* session thread serves the check instead (check_connection.rs).          *)
(***************************************************************************)
EXTENDS Naturals, SequencesExt

CONSTANTS
  Batch,        \* commands sent before the socket is read again, 32 in the code
  Words,        \* what the thread sends while it listens: AsrCommand without SpeechStart and Stop
  MaxCommands,  \* bound: commands given to one connection
  MaxPartials,  \* bound: answers without text that matters
  Connections,  \* bound: connections opened
  Silence,      \* frames of silence the check sends, 9 in the code
  Controlled    \* whether the endpoint has a ConnectionControl: some of TRUE and FALSE

ASSUME ConnectionAssumption ==
  /\ Batch \in Nat \ {0} /\ {MaxCommands, MaxPartials, Connections, Silence} \subseteq Nat
  /\ Controlled \subseteq BOOLEAN

VARIABLES
  opened,     \* connections opened so far
  control,    \* whether this one has a control thread
  pc,         \* the controller: idle, live, or where in cleanup_asr it is; or checking
  listening,  \* whether audio is still given to the connection
  given,      \* history: all commands given to it
  queue,      \* to_asr: those the session thread has not taken
  sender,     \* whether a sender of to_asr is left
  asr,        \* the session thread: none, connect, send, read, keep, over
  batch,      \* commands taken since the last read
  stopping, finished, failed,  \* its flags
  wire,       \* what the server was sent
  events,     \* what the controller was told, this connection
  ctl,        \* the control thread: none, build, wait, poll, told, post, over, failed
  failures,   \* consecutive_failures
  stop,       \* the stop channel of the control thread: none, sent, taken
  notice,     \* its event: none, Superseded, Unavailable
  attempts,   \* posts of the completion
  lease,      \* whether the server still counts this device as the speaker
  seen,       \* events the check has read
  verdict     \* of the check: none, waits, probed and answered before there is one

asrVars == <<queue, asr, batch, stopping, finished, failed, wire, events>>
ctlVars == <<ctl, failures, notice, attempts>>
checkVars == <<seen, verdict>>
vars == <<opened, control, pc, listening, given, sender, asrVars, ctlVars, stop, lease,
          checkVars>>

Cleaning == {"stopControl", "joinControl", "drop", "joinSession"}
Endings == {"Finished", "Failed"}
Undecided == {"none", "waits", "probed", "answered"}
Verdicts == {"ok", "notReady", "serverError", "failed", "timeout", "rejected"}  \* 0, 2 .. 6
Gone == {"none", "over", "failed"}   \* no control thread, or one that has returned

TypeOK ==
  /\ opened \in 0..Connections /\ pc \in {"idle", "live", "checking"} \cup Cleaning
  /\ asr \in {"none", "connect", "send", "read", "keep", "over"} /\ batch \in 0..Batch
  /\ ctl \in {"none", "build", "wait", "poll", "told", "post", "over", "failed"}
  /\ failures \in 0..2 /\ stop \in {"none", "sent", "taken"} /\ attempts \in 0..4
  /\ notice \in {"none", "Superseded", "Unavailable"}
  /\ {control, listening, sender, stopping, finished, failed, lease} \subseteq BOOLEAN
  /\ seen \in 0..Len(events) /\ verdict \in Undecided \cup Verdicts

Init ==
  /\ opened = 0 /\ control = FALSE /\ pc = "idle" /\ listening = FALSE
  /\ given = <<>> /\ queue = <<>> /\ sender = FALSE /\ asr = "none" /\ batch = 0
  /\ stopping = FALSE /\ finished = FALSE /\ failed = FALSE /\ wire = <<>> /\ events = <<>>
  /\ ctl = "none" /\ failures = 0 /\ stop = "none" /\ notice = "none" /\ attempts = 0
  /\ lease = TRUE /\ seen = 0 /\ verdict = "none"

-------------------------------------------------------------------------------
(* The controller. *)

\* start_asr: the control thread first, then the session thread, which finds the
\* start of the speech in its queue.
Opens ==
  /\ pc = "idle" /\ verdict = "none" /\ opened < Connections /\ opened' = opened + 1
  /\ control' \in Controlled /\ pc' = "live" /\ listening' = TRUE
  /\ given' = <<"Start">> /\ queue' = <<"Start">> /\ sender' = TRUE
  /\ asr' = "connect" /\ batch' = 0 /\ wire' = <<>> /\ events' = <<>>
  /\ stopping' = FALSE /\ finished' = FALSE /\ failed' = FALSE
  /\ ctl' = (IF control' THEN "build" ELSE "none") /\ failures' = 0 /\ stop' = "none"
  /\ notice' = "none" /\ attempts' = 0 /\ lease' = TRUE /\ UNCHANGED checkVars

\* Audio and the end of a turn while it listens; Stop, once, at the end.
Gives ==
  /\ pc = "live" /\ Len(given) < MaxCommands
  /\ \/ listening /\ \E c \in Words :
          given' = Append(given, c) /\ queue' = Append(queue, c) /\ UNCHANGED listening
     \/ listening /\ listening' = FALSE
          /\ given' = Append(given, "Stop") /\ queue' = Append(queue, "Stop")
  /\ UNCHANGED <<opened, control, pc, sender, asr, batch, stopping, finished, failed, wire,
                 events, ctlVars, stop, lease, checkVars>>

\* drain_connection_control_events: listening is switched off, which sends Stop.
ControlLost ==
  /\ pc = "live" /\ notice # "none" /\ notice' = "none"
  /\ listening' = FALSE
  /\ IF listening THEN given' = Append(given, "Stop") /\ queue' = Append(queue, "Stop")
     ELSE UNCHANGED <<given, queue>>
  /\ UNCHANGED <<opened, control, pc, sender, asr, batch, stopping, finished, failed, wire,
                 events, ctl, failures, attempts, stop, lease, checkVars>>

\* The connection is let go: at its end, when it fails, when a deadline passes, when
\* the route changes.  cleanup_asr then does one thing after the other, and the two
\* joins wait.
LetsGo ==
  /\ pc = "live" /\ pc' = "stopControl" /\ listening' = FALSE
  /\ UNCHANGED <<opened, control, given, sender, asrVars, ctlVars, stop, lease, checkVars>>
StopsControl ==
  /\ pc = "stopControl" /\ pc' = "joinControl"
  /\ stop' = IF ctl \in Gone THEN stop ELSE "sent"
  /\ UNCHANGED <<opened, control, listening, given, sender, asrVars, ctlVars, lease, checkVars>>
ControlJoined ==
  /\ pc = "joinControl" /\ ctl \in Gone /\ pc' = "drop"
  /\ UNCHANGED <<opened, control, listening, given, sender, asrVars, ctlVars, stop, lease, checkVars>>
SlipJoinsFirst ==
  /\ pc = "drop" /\ asr = "over" /\ pc' = "joinSession" /\ sender' = FALSE
  /\ UNCHANGED <<opened, control, listening, given, asrVars, ctlVars, stop, lease, checkVars>>
SenderDropped ==
  /\ pc = "drop" /\ pc' = "joinSession" /\ sender' = FALSE
  /\ UNCHANGED <<opened, control, listening, given, asrVars, ctlVars, stop, lease, checkVars>>
SessionJoined ==
  /\ pc = "joinSession" /\ asr = "over" /\ pc' = "idle"
  /\ UNCHANGED <<opened, control, listening, given, sender, asrVars, ctlVars, stop, lease, checkVars>>

ControllerStep ==
  Opens \/ Gives \/ ControlLost \/ LetsGo \/ StopsControl \/ ControlJoined \/ SenderDropped
  \/ SessionJoined

-------------------------------------------------------------------------------
(* The session thread, run_session. *)

Rest ==
  UNCHANGED <<opened, control, pc, listening, given, sender, ctlVars, stop, lease, checkVars>>

\* break 'session after an error: the thread says Failed, and nothing else.
Fails ==
  /\ failed' = TRUE /\ asr' = "over" /\ events' = Append(events, "Failed")

\* The connection is made and configured, or is not.
Connects ==
  /\ asr = "connect"
  /\ \/ asr' = "send" /\ events' = Append(events, "Connected") /\ UNCHANGED failed
     \/ Fails
  /\ UNCHANGED <<queue, batch, stopping, finished, wire>> /\ Rest

\* A command is taken from the queue and sent.
Sends ==
  /\ asr = "send" /\ batch < Batch /\ queue # <<>>
  /\ queue' = Tail(queue) /\ batch' = batch + 1
  /\ \/ wire' = Append(wire, Head(queue)) /\ stopping' = (stopping \/ Head(queue) = "Stop")
        /\ UNCHANGED <<asr, failed, events>>
     \/ Fails /\ UNCHANGED <<wire, stopping>>
  /\ UNCHANGED finished /\ Rest

\* Nothing left to take, and nobody left to give: Finished is made up, since nothing
\* else has been said.
SlipHasNoSender == ~sender
HasNoSender == ~sender /\ queue = <<>>
Disconnected ==
  /\ asr = "send" /\ batch < Batch /\ HasNoSender
  /\ asr' = "over" /\ events' = Append(events, "Finished")
  /\ UNCHANGED <<queue, batch, stopping, finished, failed, wire>> /\ Rest
Reads ==
  /\ asr = "send" /\ (batch = Batch \/ (queue = <<>> /\ sender)) /\ asr' = "read"
  /\ UNCHANGED <<queue, batch, stopping, finished, failed, wire, events>> /\ Rest

\* What the socket has: nothing for 20 ms, text, the end the server announces, an
\* error it reports, an error of the socket, or a close, for its policy or another
\* reason, which is a failure unless Stop was sent.
Read ==
  /\ asr = "read"
  /\ \/ asr' = "keep" /\ UNCHANGED <<events, finished, failed>>
     \/ /\ Len(SelectSeq(events, LAMBDA e : e = "Text")) < MaxPartials
        /\ asr' = "keep" /\ events' = Append(events, "Text") /\ UNCHANGED <<finished, failed>>
     \/ asr' = "keep" /\ finished' = TRUE /\ events' = events \o <<"Text", "Finished">>
        /\ UNCHANGED failed
     \/ Fails /\ UNCHANGED finished
     \/ /\ failed' = ~stopping /\ asr' = "over"
        /\ \E e \in {"Closed", "Rejected"} :
             events' = events \o <<e, IF stopping THEN "Finished" ELSE "Failed">>
        /\ UNCHANGED finished
  /\ UNCHANGED <<queue, batch, stopping, wire>> /\ Rest

\* The keepalive after 15 s of silence, and the way back to the commands.
Keeps ==
  /\ asr = "keep"
  /\ \/ /\ asr' = (IF finished THEN "over" ELSE "send") /\ batch' = 0
        /\ UNCHANGED <<failed, events>>
     \/ Fails /\ UNCHANGED batch
  /\ UNCHANGED <<queue, stopping, finished, wire>> /\ Rest

SessionStep == Connects \/ Sends \/ Disconnected \/ Reads \/ Read \/ Keeps

-------------------------------------------------------------------------------
(* The connection check, run and wait_for_finished. *)

\* A provider that is not ready, or knows no endpoint, ends it at once.
Starting == pc = "idle" /\ opened = 0 /\ verdict = "none" /\ Connections > 0
NotReady ==
  /\ Starting /\ verdict' \in {"notReady", "failed"}
  /\ UNCHANGED <<opened, control, pc, listening, given, sender, asrVars, ctlVars, stop, lease,
                 seen>>
Checks ==
  /\ Starting /\ opened' = opened + 1 /\ verdict' = "waits"
  /\ pc' = "checking" /\ sender' = TRUE /\ asr' = "connect"
  /\ UNCHANGED <<control, listening, given, queue, batch, stopping, finished, failed, wire,
                 events, ctlVars, stop, lease, seen>>

\* send_silence_probe: the whole of a short session at once.
Probe == [i \in 1..Silence |-> "Audio"] \o <<"Finalize", "Stop">>

\* With its verdict the check lets go of its sender and waits for the session thread;
\* out of time it ends the process, and the thread with it.
Says(v) == verdict' = v /\ pc' = "joinSession" /\ sender' = FALSE /\ UNCHANGED <<given, queue>>
GoesOn(v) == verdict' = v /\ UNCHANGED <<pc, sender, given, queue>>

SlipUnanswered == verdict # "waits"
HasAnswer == verdict = "answered"
ChecksEvent ==
  /\ pc = "checking" /\ seen < Len(events) /\ seen' = seen + 1
  /\ LET e == events[seen'] IN
       \/ /\ e = "Connected" /\ verdict' = "probed" /\ given' = Probe /\ queue' = Probe
          /\ UNCHANGED <<pc, sender>>
       \/ e = "Connected" /\ asr = "over" /\ Says("failed")
       \/ e = "Text" /\ GoesOn("answered")
       \/ e = "Closed" /\ GoesOn(verdict)
       \/ e = "Rejected" /\ Says("rejected")
       \/ e = "Finished" /\ Says(IF HasAnswer THEN "ok" ELSE "failed")
       \/ e = "Failed" /\ \E v \in {"serverError", "failed"} : Says(v)
  /\ UNCHANGED <<opened, control, listening, asr, batch, stopping, finished, failed, wire,
                 events, ctlVars, stop, lease>>
TimesOut ==
  /\ pc = "checking" /\ verdict' = "timeout" /\ pc' = "idle" /\ sender' = FALSE
  /\ asr' = "none"
  /\ UNCHANGED <<opened, control, listening, given, queue, batch, stopping, finished, failed,
                 wire, events, ctlVars, stop, lease, seen>>

CheckStep == NotReady \/ Checks \/ ChecksEvent \/ TimesOut

-------------------------------------------------------------------------------
(* The control thread, and the server it asks. *)

Untouched ==
  UNCHANGED <<opened, control, pc, listening, given, sender, asrVars, lease, checkVars>>

\* The HTTP client is built, or the thread gives up at once.
Builds ==
  /\ ctl = "build"
  /\ \/ ctl' = "wait" /\ UNCHANGED notice
     \/ ctl' = "failed" /\ notice' = "Unavailable"
  /\ UNCHANGED <<failures, attempts, stop>> /\ Untouched

\* Between two polls it waits for the interval to pass, or to be told to stop.
Waits ==
  /\ ctl = "wait"
  /\ \/ stop = "sent" /\ stop' = "taken" /\ ctl' = "post"
     \/ stop # "sent" /\ ctl' = "poll" /\ UNCHANGED stop
  /\ UNCHANGED <<failures, notice, attempts>> /\ Untouched

\* The status of the connection: ready as long as the lease lasts, superseded, some
\* other state, or no answer, of which the second in a row is one too many.
SlipFailedOnce == 0
FailedAgain == failures + 1
SlipAfterNotice == "post"
AfterNotice == "told"
Polls ==
  /\ ctl = "poll"
  /\ \/ lease /\ ctl' = "wait" /\ failures' = 0 /\ UNCHANGED notice
     \/ ~lease /\ ctl' = AfterNotice /\ notice' = "Superseded" /\ UNCHANGED failures
     \/ ctl' = AfterNotice /\ notice' = "Unavailable" /\ UNCHANGED failures
     \/ /\ failures' = FailedAgain
        /\ IF FailedAgain >= 2 THEN ctl' = AfterNotice /\ notice' = "Unavailable"
           ELSE ctl' = "wait" /\ UNCHANGED notice
  /\ UNCHANGED <<attempts, stop>> /\ Untouched

\* Having told the controller, it waits until the audio has been stopped.
Acknowledged ==
  /\ ctl = "told" /\ stop = "sent" /\ stop' = "taken" /\ ctl' = "post"
  /\ UNCHANGED <<failures, notice, attempts>> /\ Untouched

\* complete_connection_control: accepted is asked again, four times at most.
Posts ==
  /\ ctl = "post" /\ attempts' = attempts + 1
  /\ ctl' \in (IF attempts < 3 THEN {"post", "over"} ELSE {"over"})
  /\ UNCHANGED <<failures, notice, stop>> /\ Untouched

ControlStep == Builds \/ Waits \/ Polls \/ Acknowledged \/ Posts

\* Another device takes over.
Superseded ==
  /\ control /\ lease /\ lease' = FALSE
  /\ UNCHANGED <<opened, control, pc, listening, given, sender, asrVars, ctlVars, stop,
                 checkVars>>

Next == ControllerStep \/ SessionStep \/ CheckStep \/ ControlStep \/ Superseded

Spec == Init /\ [][Next]_vars

\* Threads run.  Connecting and sending end because the other side answers or TCP
\* gives up (the code sets no limit of its own), reading after 20 ms, an HTTP request
\* after 5 s.  The controller looks at the control thread every 20 ms, and the check
\* waits 15 s at most.  That a connection is ever let go, and that the user speaks, is
\* not assumed.
FairSpec ==
  /\ Spec
  /\ WF_vars(SessionStep) /\ WF_vars(ControlStep) /\ WF_vars(ControlLost)
  /\ WF_vars(ChecksEvent \/ TimesOut)
  /\ WF_vars(StopsControl \/ ControlJoined \/ SenderDropped \/ SessionJoined)

-------------------------------------------------------------------------------
(* Properties. *)

\* Where the thread has said how it ended.
Ends == {i \in 1..Len(events) : events[i] \in Endings}

\* Code: run_session.  A session thread that is over has said how it ended, once and
\* last (a keepalive that fails after the server has finished adds its failure), and
\* one that was let go without a failure has sent all it was given.
EndAccounted ==
  asr = "over" =>
    /\ Len(events) \in Ends
    /\ \A i \in Ends \ {Len(events)} :
         /\ finished /\ failed /\ i + 1 = Len(events)
         /\ events[i] = "Finished" /\ events[i + 1] = "Failed"
    /\ ~failed /\ ~finished /\ ~stopping => wire = given

\* Code: complete_connection_control.  The server is told that the connection is
\* complete once the controller has stopped giving it audio, not before, and never
\* goes untold by a control thread that had reached it.
CompletionReported ==
  /\ attempts > 0 => pc \in Cleaning \cup {"idle"} /\ ~listening
  /\ ctl = "over" => attempts > 0

\* Code: cleanup_asr and check_connection::run.  The controller, which waits for both
\* threads of a connection, always gets out of that wait, and so does the check, which
\* waits for the server before.
CleanupEnds == pc \in Cleaning \cup {"checking"} ~> pc = "idle"

\* Code: wait_for_finished.  The check finds the connection good only after an answer,
\* before anything failed, and only if the server has ended the session, or has been
\* sent the whole probe before the end was made up for it.
VerdictEarned ==
  verdict = "ok" =>
    /\ finished \/ wire = Probe
    /\ \E i \in 1..seen : events[i] = "Text"
    /\ \A i \in 1..seen : events[i] \notin {"Failed", "Rejected"}

\* Code: spawn_connection_control, drain_connection_control_events.  A device whose
\* session was taken over by another stops giving audio to its connection, even
\* where the status cannot be asked.
LoserFallsSilent == ~lease ~> ~listening
===============================================================================

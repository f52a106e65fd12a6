------------------------------ MODULE Controller ------------------------------
(***************************************************************************)
(* The life of a voice session as the controller thread of                 *)
(* crates/app/src/controller.rs drives it: the session state machine, the  *)
(* microphone and the VAD worker, the connection to the recogniser with    *)
(* the event queue of its thread, the warm-up job with the speech it       *)
(* holds back, failures with their retry, and the settings in force.       *)
(*                                                                         *)
(* One action is one handler of the controller loop, run to completion, or *)
(* one step of a thread it talks to.  What is recognised and typed, and    *)
(* the bookkeeping of answers still expected, is left to module Turn: here *)
(* a step that depends on it (the idle close, the flush of buffered audio) *)
(* is free to happen or not.  A deadline is free to expire once its clock  *)
(* is set.                                                                 *)
(***************************************************************************)
EXTENDS Sequences, Naturals, Session

CONSTANTS
  Routes,         \* recognition services the settings can select
  Tunings,        \* everything else the settings hold
  NoSettings,     \* pending_settings = None
  SavedSettings,  \* the settings the user may save while the program runs
  EnrollRoutes,   \* routes whose provider asks for an enrollment warm-up
  CheckedRoutes,  \* routes whose server must announce the expected backend
  VadMayFail,     \* whether the VAD worker may die
  ReadinessSeen,  \* what the connection may turn out to be: ready or not
  MaxInbox        \* events waiting in the queue before the thread's last ones

Readiness == {"Ready", "NeedsLogin", "NeedsSetup"}
Settings == [listening : {"on", "off"}, route : Routes, tuning : Tunings]

ASSUME ControllerAssumption ==
  /\ SavedSettings \subseteq Settings
  /\ NoSettings \notin Settings
  /\ EnrollRoutes \subseteq Routes
  /\ CheckedRoutes \subseteq Routes
  /\ VadMayFail \in BOOLEAN
  /\ ReadinessSeen \subseteq Readiness
  /\ MaxInbox \in Nat

VARIABLES
  phase,     \* the controller thread: starting, running, stopped
  session,   \* Session::state
  clocks,    \* which of failed_at, connecting_started_at, closing_started_at are set
  recovery,  \* failed_recovery_enabled: off, auto
  mic,       \* audio_capture: closed, open
  vad,       \* the VAD worker: suspended, running, dead, and reported once its
             \* death has been read (vad_channel_open = false)
  gate,      \* the speech gate: idle, speaking
  link,      \* the transport and its thread: none, dialing, up, over (it has
             \* reported its end), gone (it has returned)
  inbox,     \* events of that thread not yet read
  stop,      \* asr_closing: unsent, sent
  delayed,   \* delayed_turn: none, or whether its end was seen
  backend,   \* expected_backend and backend_confirmed: any, awaited, confirmed
  named,     \* history: whether this connection named the expected backend: unasked
             \* before its Connected is taken, then no, yes
  warmup,    \* the warm-up job: none, running
  retry,     \* warmup_retry_at: due, held (in the future)
  answer,    \* the last successful answer: old, recent (within the idle threshold)
  deferred,  \* deferred_speech: none, or whether its end was seen
  error,     \* facts.error: none, temporary, persistent
  splash,    \* splash_started_at: none, shown
  settings,  \* the settings in force
  pending,   \* pending_settings
  file,      \* the settings file as last saved
  ready,     \* readiness of the connection
  login      \* the login worker: none, running

sessionVars == <<session, clocks, recovery>>
micVars == <<mic, vad, gate>>
asrVars == <<link, inbox, stop, delayed>>
warmVars == <<warmup, retry, answer, deferred>>
viewVars == <<error, splash>>
settingsVars == <<settings, pending, file>>
backendVars == <<backend, named>>
outsideVars == <<backendVars, ready, login, phase>>
vars == <<sessionVars, micVars, asrVars, warmVars, viewVars, settingsVars,
          outsideVars>>

Active == {"Connecting", "Streaming", "Closing", "Stopping"}
Speech == {"none", "speaking", "ended"}
Clocks == {"failed", "connecting", "closing"}

\* What the thread of a connection can report.  Other stands for <fin> and the
\* announced warm-up interval; Lost for an error that only says the connection
\* is gone, Fault for any other error.
Answers == {"Other", "Text", "Endpoint", "Notice", "BackendOk", "BackendWrong"}
Closes == {"ClosedPolicy", "ClosedReason", "Closed"}
Events == Answers \cup Closes \cup {"Connected", "Finished", "Lost", "Fault"}

TypeOK ==
  /\ phase \in {"starting", "running", "stopped"}
  /\ session \in States
  /\ clocks \in SUBSET Clocks
  /\ recovery \in {"off", "auto"}
  /\ mic \in {"closed", "open"}
  /\ vad \in {"suspended", "running", "dead", "reported"}
  /\ gate \in {"idle", "speaking"}
  /\ link \in {"none", "dialing", "up", "over", "gone"}
  /\ inbox \in Seq(Events)
  /\ stop \in {"unsent", "sent"}
  /\ delayed \in Speech
  /\ backend \in {"any", "awaited", "confirmed"}
  /\ named \in {"unasked", "no", "yes"}
  /\ warmup \in {"none", "running"}
  /\ retry \in {"due", "held"}
  /\ answer \in {"old", "recent"}
  /\ deferred \in Speech
  /\ error \in {"none", "temporary", "persistent"}
  /\ splash \in {"none", "shown"}
  /\ settings \in Settings /\ file \in Settings
  /\ pending \in Settings \cup {NoSettings}
  /\ ready \in ReadinessSeen
  /\ login \in {"none", "running"}

Init ==
  /\ phase = "starting"
  /\ session = "Disabled" /\ clocks = {} /\ recovery = "off"
  /\ mic = "closed" /\ gate = "idle"
  /\ vad \in {"suspended"} \cup (IF VadMayFail THEN {"dead"} ELSE {})
  /\ link = "none" /\ inbox = <<>> /\ stop = "unsent" /\ delayed = "none"
  /\ backend = "any" /\ named = "unasked"
  /\ warmup = "none" /\ retry = "due" /\ answer = "old" /\ deferred = "none"
  /\ error = "none" /\ splash = "shown"
  /\ settings \in Settings /\ file = settings /\ pending = NoSettings
  /\ ready \in ReadinessSeen
  /\ login = "none"

-------------------------------------------------------------------------------
(***************************************************************************)
(* Calls nested in the handlers.  A handler may have moved the session,    *)
(* reset the gate, started a warm-up or dropped the connection before it   *)
(* makes the call; `at' is the state the call finds.                       *)
(* A definition whose name begins with Slip is no part of the model: it is *)
(* the one that follows it with a slip of the pen in the code it stands    *)
(* for, and shows that a property would notice.                            *)
(***************************************************************************)
Now == [session |-> session, gate |-> gate, link |-> link, warmup |-> warmup,
        login |-> login, error |-> error, splash |-> splash]

\* Commands sent to a dead worker go nowhere.
Worker == vad \in {"suspended", "running"}
SlipNotPaused == vad
Suspended == IF Worker THEN "suspended" ELSE vad
Resumed == IF Worker THEN "running" ELSE vad

\* cleanup_asr: the transport goes, and with it all that belongs to the turn.
\* The clocks of the connection stop too; whoever calls it says which clocks
\* are left.
SlipTurnKept == link' = "none" /\ inbox' = <<>> /\ stop' = "unsent" /\ UNCHANGED delayed
SlipLinkKept == inbox' = <<>> /\ stop' = "unsent" /\ delayed' = "none" /\ UNCHANGED link
CleanupAsr == link' = "none" /\ inbox' = <<>> /\ stop' = "unsent" /\ delayed' = "none"
SlipAllClocks == {}
NoConnectionClock == clocks \ {"connecting", "closing"}

\* What a call leaves of the transport that a handler may have dropped.
AsrAfter(at) ==
  IF at.link = "none"
  THEN CleanupAsr /\ clocks' = NoConnectionClock
  ELSE UNCHANGED <<asrVars, clocks>>

\* fail_runtime (how = "auto") and fail_runtime_user_action (how = "off"),
\* called in state s.
SlipUntimed(s, how) ==
  /\ session' = Apply(s, "Failed")
  /\ clocks' = clocks \cap {"failed"}
  /\ recovery' = (IF session' = "Failed" THEN how ELSE "off")
  /\ error' = (IF how = "auto" THEN "temporary" ELSE "persistent")
  /\ splash' = "none"
  /\ CleanupAsr
FailRuntime(s, how) ==
  /\ session' = Apply(s, "Failed")
  /\ clocks' = (IF session' = "Failed" THEN (clocks \cap {"failed"}) \cup
                                            (IF s = "Failed" THEN {} ELSE {"failed"})
                ELSE {})
  /\ recovery' = (IF session' = "Failed" THEN how ELSE "off")
  /\ error' = (IF how = "auto" THEN "temporary" ELSE "persistent")
  /\ splash' = "none"
  /\ CleanupAsr

\* A queued command is refused once the thread has returned.
SendFails == link = "gone"

\* require_connection, when the connection is not ready.  A session that is
\* Disabled holds no transport.
RequireConnection(at) ==
  /\ session' = "Disabled"
  /\ CleanupAsr /\ clocks' = NoConnectionClock
  /\ IF at.session = "Disabled"
     THEN UNCHANGED <<mic, vad>>
     ELSE mic' = "closed" /\ vad' = Suspended
  /\ error' = "persistent" /\ splash' = "none"
  /\ gate' = at.gate /\ warmup' = at.warmup /\ login' = at.login
  /\ UNCHANGED <<recovery, deferred>>

\* The part of enable_listening after the state machine accepted it in
\* Disabled: arm the VAD, open the microphone.
OpenMicrophone(at, micOk) ==
  /\ recovery' = "off"
  /\ gate' = "idle" /\ warmup' = at.warmup /\ login' = at.login
  /\ CleanupAsr
  /\ UNCHANGED deferred
  /\ IF mic = "open" \/ micOk
     THEN /\ session' = "Listening" /\ mic' = "open" /\ vad' = Resumed
          /\ clocks' = NoConnectionClock \ {"failed"}
          /\ error' = at.error /\ splash' = at.splash
     ELSE /\ session' = "Failed" /\ UNCHANGED mic /\ vad' = Suspended
          /\ clocks' = {"failed"}
          /\ error' = "persistent" /\ splash' = "none"

EnableListening(at, micOk) ==
  \/ /\ ready # "Ready"
     /\ RequireConnection(at)
  \/ /\ ready = "Ready"
     /\ at.session = "Disabled"
     /\ OpenMicrophone(at, micOk)
  \/ /\ ready = "Ready"
     /\ at.session # "Disabled"
     /\ session' = Apply(at.session, "Enable")
     /\ gate' = at.gate /\ warmup' = at.warmup /\ login' = at.login
     /\ error' = at.error /\ splash' = at.splash
     /\ AsrAfter(at)
     /\ UNCHANGED <<recovery, mic, vad, deferred>>

\* disable_listening.  In Connecting and Streaming it asks the recogniser to
\* finish; when the thread is already gone, the send fails the session.
DisableListening(at, shown) ==
  LET hangUp == at.session \in {"Connecting", "Streaming"}
      failed == hangUp /\ SendFails
  IN  /\ warmup' = "none" /\ deferred' = "none" /\ delayed' = "none"
      /\ mic' = "closed" /\ vad' = Suspended /\ gate' = "idle"
      /\ error' = shown /\ splash' = "none"
      /\ UNCHANGED login
      /\ session' = (IF failed THEN "Disabled" ELSE Apply(at.session, "Disable"))
      /\ recovery' = (IF failed \/ at.session = "Failed" THEN "off" ELSE recovery)
      /\ IF failed \/ at.link = "none"
         THEN /\ link' = "none" /\ inbox' = <<>> /\ stop' = "unsent"
              /\ clocks' = (IF failed \/ at.session = "Failed" THEN {}
                            ELSE NoConnectionClock)
         ELSE /\ UNCHANGED <<link, inbox>>
              /\ stop' = (IF hangUp THEN "sent" ELSE stop)
              /\ clocks' = (IF hangUp THEN clocks \cup {"closing"} ELSE clocks)

\* start_login: nothing but a message when a worker runs already, or when the
\* provider knows no login.
BeginLogin(at) ==
  /\ login' \in {login, "running"}
  /\ session' = at.session
  /\ gate' = at.gate /\ warmup' = at.warmup
  /\ error' = "temporary" /\ splash' = "none"
  /\ AsrAfter(at)
  /\ UNCHANGED <<recovery, mic, vad, deferred>>

ApplyListeningSetting(at, on, micOk) ==
  \/ on = "on" /\ ready = "NeedsLogin" /\ BeginLogin(at)
  \/ on = "on" /\ ready # "NeedsLogin" /\ EnableListening(at, micOk)
  \/ on = "off" /\ DisableListening(at, "none")

\* Whether start_warmup leaves a job running, under the given settings.
WarmupAllowed(s) == s.route \in EnrollRoutes /\ retry = "due" /\ error # "persistent"
WarmupStarted(s) == IF WarmupAllowed(s) THEN "running" ELSE warmup

\* apply_pending_settings: the settings saved meanwhile, and whether they turn
\* listening off.
AppliedSettings == IF pending = NoSettings THEN settings ELSE pending
SlipNotWithdrawn == FALSE
ListeningWithdrawn == settings.listening = "on" /\ AppliedSettings.listening = "off"

\* The common end of a session whose transport is gone: resume_after_finished
\* arms the VAD and makes sure the microphone is open, apply_pending_settings
\* then puts the settings saved meanwhile in force, and obeys the one that
\* turned listening off.
EndSession(target, left, how, shown, micOk) ==
  LET broken == target = "Listening" /\ mic = "closed" /\ ~micOk
      off == ListeningWithdrawn
  IN  /\ session' = (IF off THEN "Disabled" ELSE IF broken THEN "Failed" ELSE target)
      /\ mic' = (IF off THEN "closed"
                 ELSE IF target = "Listening" /\ ~broken THEN "open" ELSE mic)
      /\ vad' = (IF off \/ broken THEN Suspended
                 ELSE IF target = "Listening" THEN Resumed ELSE vad)
      /\ gate' = (IF target = "Listening" \/ pending # NoSettings THEN "idle" ELSE gate)
      /\ clocks' = (IF broken THEN (IF off THEN {} ELSE {"failed"}) ELSE left)
      /\ recovery' = (IF broken THEN "off" ELSE how)
      /\ error' = (IF off THEN "none" ELSE IF broken THEN "persistent" ELSE shown)
      /\ splash' = "none"
      /\ warmup' = (IF off THEN "none" ELSE warmup)
      /\ deferred' = (IF off THEN "none" ELSE deferred)
      /\ CleanupAsr
      /\ settings' = AppliedSettings
      /\ pending' = NoSettings
      /\ UNCHANGED <<retry, file, outsideVars>>

-------------------------------------------------------------------------------
(***************************************************************************)
(* The start of the controller and the commands of the user.               *)
(***************************************************************************)
Running == phase = "running"

\* run, up to its loop.  A missing permission to paste shows an error first.
Startup(warned, micOk) ==
  /\ phase = "starting" /\ phase' = "running"
  /\ LET at == IF warned THEN [Now EXCEPT !.error = "temporary", !.splash = "none"]
               ELSE Now
     IN  IF settings.listening = "on" /\ ready = "Ready"
         THEN EnableListening(at, micOk)
         ELSE /\ vad' = Suspended
              /\ error' = at.error /\ splash' = at.splash
              /\ UNCHANGED <<sessionVars, mic, gate, asrVars, warmup, deferred, login>>
  /\ UNCHANGED <<settingsVars, retry, answer, backendVars, ready>>

\* What the handlers of user commands leave alone.
Otherwise == UNCHANGED <<retry, answer, backendVars, ready, phase>>

Flip(on) == IF on = "on" THEN "off" ELSE "on"

\* toggle_listening: the saved preference is flipped, in the settings that
\* wait to be applied as well, and saved.
ToggleListening(micOk) ==
  /\ Running
  /\ LET on == Flip(settings.listening)
     IN  /\ settings' = [settings EXCEPT !.listening = on]
         /\ IF pending = NoSettings
            THEN UNCHANGED pending /\ file' = settings'
            ELSE pending' = [pending EXCEPT !.listening = on] /\ file' = pending'
         /\ ApplyListeningSetting(Now, on, micOk)
  /\ Otherwise

\* Whether the settings saved ask for another state of listening.
ListeningChanges(new) == (new.listening = "on") # ListeningEnabled(session)

\* The settings window saves the file and sends UpdateSettings.  Without a
\* connection to protect, the settings take effect at once; a new route is
\* warmed up.
UpdateSettingsIdle(new, micOk) ==
  /\ Running
  /\ session \notin Active
  /\ file' = new /\ settings' = new /\ UNCHANGED pending
  /\ LET moved == settings.route # new.route
         warm == IF moved THEN WarmupStarted(new) ELSE warmup
         at == [Now EXCEPT !.gate = "idle", !.warmup = warm,
                           !.link = IF moved THEN "none" ELSE link,
                           !.splash = IF warm = warmup THEN splash ELSE "none"]
     IN  IF ListeningChanges(new)
         THEN ApplyListeningSetting(at, new.listening, micOk)
         ELSE /\ gate' = "idle" /\ warmup' = warm /\ splash' = at.splash
              /\ AsrAfter(at)
              /\ UNCHANGED <<session, recovery, mic, vad, deferred, error, login>>
  /\ Otherwise

\* During a connection a new route takes effect at once: the session is
\* aborted, its transport dropped, the new route warmed up.
UpdateSettingsRoute(new, micOk) ==
  /\ Running
  /\ session \in Active
  /\ settings.route # new.route
  /\ file' = new /\ settings' = new /\ UNCHANGED pending
  /\ LET at == [Now EXCEPT !.session = Apply(session, "Aborted"), !.gate = "idle",
                           !.warmup = WarmupStarted(new), !.link = "none",
                           !.splash = "none"]
     IN  IF ListeningChanges(new)
         THEN ApplyListeningSetting(at, new.listening, micOk)
         ELSE /\ session' = at.session
              /\ gate' = "idle" /\ warmup' = at.warmup /\ splash' = "none"
              /\ AsrAfter(at)
              /\ UNCHANGED <<recovery, mic, vad, deferred, error, login>>
  /\ Otherwise

\* Other settings wait for the end of the session; only the preference to
\* listen is obeyed at once.
UpdateSettingsDeferred(new, micOk) ==
  /\ Running
  /\ session \in Active
  /\ settings.route = new.route
  /\ file' = new /\ pending' = new
  /\ settings' = [settings EXCEPT !.listening = new.listening]
  /\ IF ListeningChanges(new)
     THEN ApplyListeningSetting(Now, new.listening, micOk)
     ELSE UNCHANGED <<sessionVars, micVars, asrVars, warmup, deferred, viewVars, login>>
  /\ Otherwise

\* Saved during a connection with another microphone, which cannot be opened:
\* the session fails, then the settings are treated as above.
SwitchMicrophoneFails(new) ==
  /\ Running
  /\ session \in Active /\ mic = "open"
  /\ file' = new
  /\ IF settings.route # new.route
     THEN settings' = new /\ UNCHANGED pending
     ELSE /\ settings' = [settings EXCEPT !.listening = new.listening]
          /\ pending' = new
  /\ mic' = "closed"
  /\ IF new.listening = "on"
     THEN /\ FailRuntime(session, "off")
          /\ gate' = (IF settings.route = new.route THEN gate ELSE "idle")
          /\ UNCHANGED <<vad, warmup, deferred, login>>
     ELSE /\ session' = "Disabled" /\ clocks' = {} /\ recovery' = "off"
          /\ vad' = Suspended /\ gate' = "idle"
          /\ warmup' = "none" /\ deferred' = "none"
          /\ error' = "none" /\ splash' = "none"
          /\ CleanupAsr
          /\ UNCHANGED login
  /\ Otherwise

StartLogin ==
  /\ Running
  /\ BeginLogin(Now)
  /\ UNCHANGED settingsVars /\ Otherwise

\* drain_login_events: a successful login resumes listening when it is wanted.
LoginSucceeds(micOk) ==
  /\ Running /\ login = "running"
  /\ IF settings.listening = "on" /\ session = "Disabled"
     THEN EnableListening([Now EXCEPT !.login = "none", !.error = "none",
                                      !.splash = "none"], micOk)
     ELSE /\ login' = "none" /\ error' = "none" /\ splash' = "none"
          /\ UNCHANGED <<sessionVars, micVars, asrVars, warmup, deferred>>
  /\ UNCHANGED settingsVars /\ Otherwise

LoginFails ==
  /\ Running /\ login = "running"
  /\ login' = "none" /\ error' = "temporary" /\ splash' = "none"
  /\ UNCHANGED <<sessionVars, micVars, asrVars, warmVars, settingsVars, backendVars,
                 ready, phase>>

\* logout: listening stops, and with the connection no longer usable its
\* transport is dropped too.
Logout(now) ==
  /\ Running
  /\ ready' = now
  /\ IF now = "Ready"
     THEN DisableListening(Now, "none")
     ELSE LET failed == session \in {"Connecting", "Streaming"} /\ SendFails
          IN  /\ session' = "Disabled" /\ CleanupAsr
              /\ recovery' = (IF failed \/ session = "Failed" THEN "off" ELSE recovery)
              /\ clocks' = (IF failed \/ session = "Failed" THEN {} ELSE NoConnectionClock)
              /\ mic' = "closed" /\ vad' = Suspended /\ gate' = "idle"
              /\ warmup' = "none" /\ deferred' = "none"
              /\ error' = "persistent" /\ splash' = "none"
              /\ UNCHANGED login
  /\ UNCHANGED <<settingsVars, retry, answer, backendVars, phase>>

\* A logout that fails only shows an error.
LogoutFails ==
  /\ Running
  /\ error' = "temporary" /\ splash' = "none"
  /\ UNCHANGED <<sessionVars, micVars, asrVars, warmVars, settingsVars, outsideVars>>

\* RefreshVoiceEnrollment: a warm-up in whatever state the session is.
RefreshVoiceEnrollment ==
  /\ Running
  /\ warmup = "none" /\ WarmupAllowed(settings)
  /\ warmup' = "running" /\ splash' = "none"
  /\ UNCHANGED <<sessionVars, micVars, asrVars, retry, answer, deferred, error,
                 settingsVars, outsideVars>>

\* Shutdown: request_shutdown, then cleanup_asr.  The loop has ended.
Shutdown ==
  /\ Running /\ phase' = "stopped"
  /\ session' = (IF session \in {"Connecting", "Streaming"} /\ SendFails
                 THEN "Disabled" ELSE Apply(session, "Disable"))
  /\ clocks' = {} /\ recovery' = "off"
  /\ mic' = "closed" /\ vad' = Suspended /\ gate' = "idle"
  /\ CleanupAsr
  /\ warmup' = "none" /\ deferred' = "none"
  /\ error' = "none" /\ splash' = "none"
  /\ login' = "none"
  /\ UNCHANGED <<settingsVars, retry, answer, backendVars, ready>>

-------------------------------------------------------------------------------
(***************************************************************************)
(* Speech.  A frame read from the VAD worker may open or close the gate;   *)
(* frames already queued may still arrive after the worker was suspended.  *)
(***************************************************************************)
FramesArrive == Running /\ vad # "reported" /\ ListeningEnabled(session)

\* start_asr, called right after the state machine accepted SpeechStarted.
StartAsr ==
  /\ session' = "Connecting"
  /\ clocks' = NoConnectionClock \cup {"connecting"}
  /\ link' = "dialing" /\ inbox' = <<>> /\ stop' = "unsent"
  /\ named' = "unasked"
  /\ error' = "none" /\ splash' = "none"
  /\ UNCHANGED recovery

\* The provider has no endpoint to connect to, or wants the user first.
StartFails ==
  /\ \E how \in {"auto", "off"} : FailRuntime("Connecting", how)
  /\ UNCHANGED named

\* warmup_is_due
WarmupIsDue == answer = "old" /\ WarmupAllowed(settings)

\* While a warm-up runs, what is spoken is kept for later.
SpeechDeferred ==
  /\ FramesArrive /\ gate = "idle"
  /\ warmup = "running" \/ (session = "Listening" /\ WarmupIsDue)
  /\ gate' = "speaking" /\ deferred' = "speaking"
  /\ warmup' = "running"
  /\ splash' = (IF warmup = "running" THEN splash ELSE "none")
  /\ UNCHANGED <<sessionVars, mic, vad, asrVars, retry, answer, error, settingsVars,
                 outsideVars>>

\* Speech in Listening connects, after the enrollment when the last answer is
\* old, which may ask for the user.
SpeechConnects ==
  /\ FramesArrive /\ gate = "idle"
  /\ warmup = "none" /\ session = "Listening" /\ ~WarmupIsDue
  /\ gate' = "speaking"
  /\ \/ StartAsr /\ UNCHANGED delayed
     \/ StartFails
     \/ answer = "old" /\ FailRuntime("Listening", "off") /\ UNCHANGED named
  /\ UNCHANGED <<mic, vad, warmVars, settingsVars, backend, ready, login, phase>>

\* Speech on an open or opening connection announces itself to the recogniser.
SpeechContinues ==
  /\ FramesArrive /\ gate = "idle"
  /\ warmup = "none" /\ session # "Listening"
  /\ gate' = "speaking"
  /\ \/ UNCHANGED <<sessionVars, asrVars, viewVars>>
     \/ /\ session \in {"Connecting", "Streaming"} /\ SendFails
        /\ FailRuntime(session, "auto")
  /\ UNCHANGED <<mic, vad, warmVars, settingsVars, outsideVars>>

\* The audio of a frame, sent to the recogniser.
AudioSendFails ==
  /\ FramesArrive /\ session = "Streaming" /\ SendFails
  /\ deferred = "none" /\ warmup = "none"
  /\ FailRuntime(session, "auto")
  /\ UNCHANGED <<micVars, warmVars, settingsVars, outsideVars>>

EndSeen(turn) == IF turn = "none" THEN "none" ELSE "ended"

\* The end of speech: noted for a turn that is held back, and otherwise told to
\* the recogniser by finish_current_speech.
SpeechEnded ==
  /\ FramesArrive /\ gate = "speaking"
  /\ gate' = "idle"
  /\ deferred' = EndSeen(deferred)
  /\ \/ /\ delayed' = EndSeen(delayed)
        /\ UNCHANGED <<sessionVars, link, inbox, stop, viewVars>>
     \/ /\ deferred = "none" /\ session \in {"Connecting", "Streaming"} /\ SendFails
        /\ FailRuntime(session, "auto")
  /\ UNCHANGED <<mic, vad, warmup, retry, answer, settingsVars, outsideVars>>

\* run_vad_thread: an error ends the worker.
VadWorkerDies ==
  /\ VadMayFail /\ vad = "running"
  /\ vad' = "dead"
  /\ UNCHANGED <<sessionVars, mic, gate, asrVars, warmVars, viewVars, settingsVars,
                 outsideVars>>

\* handle_vad_failure, once per run of the program.
VadFailureSeen ==
  /\ Running /\ vad = "dead"
  /\ vad' = "reported" /\ mic' = "closed"
  /\ FailRuntime(session, "auto")
  /\ UNCHANGED <<gate, warmVars, settingsVars, outsideVars>>

-------------------------------------------------------------------------------
(***************************************************************************)
(* The thread of the connection: run_session of the protocol client.  It   *)
(* connects, reports what the server answers, and reports its end once, in *)
(* one of a few ways, before it returns.                                   *)
(***************************************************************************)
LinkReports(events) ==
  /\ inbox' = inbox \o events
  /\ UNCHANGED <<sessionVars, micVars, stop, delayed, warmVars, viewVars, settingsVars,
                 outsideVars>>

LinkConnects ==
  /\ link = "dialing" /\ link' = "up"
  /\ LinkReports(<<"Connected">>)

LinkFailsToConnect ==
  /\ link = "dialing" /\ link' = "over"
  /\ \E event \in {"Fault", "Lost"} : LinkReports(<<event>>)

LinkAnswers ==
  /\ link = "up" /\ Len(inbox) < MaxInbox
  /\ \E event \in Answers : LinkReports(<<event>>)
  /\ UNCHANGED link

\* After Stop a close of the server is followed by Finished, before by an error.
LinkEnds ==
  /\ link = "up" /\ link' = "over"
  /\ \/ \E event \in {"Finished", "Fault", "Lost"} : LinkReports(<<event>>)
     \/ \E event \in Closes : LinkReports(<<event, "Lost">>)
     \/ stop = "sent" /\ \E event \in Closes : LinkReports(<<event, "Finished">>)

LinkReturns ==
  /\ link = "over" /\ link' = "gone"
  /\ LinkReports(<<>>)

-------------------------------------------------------------------------------
(***************************************************************************)
(* drain_asr_events and handle_asr_event, one event at a time.             *)
(***************************************************************************)
Takes(events) ==
  /\ Running /\ link # "none"
  /\ inbox # <<>> /\ Head(inbox) \in events

\* What a handled answer leaves behind: the queue is shorter, the service known
\* to be awake.
Answered == answer' = "recent" /\ inbox' = Tail(inbox)

\* What a handler of an event that keeps the connection leaves alone.
KeepsConnection ==
  UNCHANGED <<recovery, micVars, link, warmup, retry, deferred, settingsVars, ready,
              login, phase>>

\* The text of a finished segment goes out; the error shown before makes way,
\* or the failed output shows its own.
Committed == error' \in {error, "none", "temporary"}

ConnectedIgnored ==
  /\ Takes({"Connected"}) /\ session # "Connecting"
  /\ Answered
  /\ KeepsConnection /\ UNCHANGED <<session, clocks, stop, delayed, viewVars, backendVars>>

\* Every connection has to name its backend anew.
SlipRemembered == IF settings.route \in CheckedRoutes THEN
                    IF backend = "confirmed" THEN backend ELSE "awaited" ELSE "any"
ExpectedBackend == IF settings.route \in CheckedRoutes THEN "awaited" ELSE "any"

\* The audio kept so far is sent.  A turn held back by a warm-up stays marked
\* only when its speech has already ended.
ConnectedArrives ==
  /\ Takes({"Connected"}) /\ session = "Connecting"
  /\ answer' = "recent"
  /\ backend' = ExpectedBackend /\ named' = "no"
  /\ \/ /\ session' = "Streaming"
        /\ clocks' = clocks \ {"failed", "connecting"} /\ recovery' = "off"
        /\ delayed' = (IF delayed = "ended" THEN "ended" ELSE "none")
        /\ inbox' = Tail(inbox)
        /\ splash' = "none"
        /\ UNCHANGED <<link, stop, error>>
     \/ SendFails /\ FailRuntime("Streaming", "auto")
  /\ UNCHANGED <<micVars, warmup, retry, deferred, settingsVars, ready, login, phase>>

TextArrives ==
  /\ Takes({"Text"}) /\ backend # "awaited"
  /\ Answered
  /\ KeepsConnection /\ UNCHANGED <<session, clocks, stop, delayed, viewVars, backendVars>>

\* Text from a server that has not said which backend it uses, and a server
\* that uses another one than the selected.
BackendRefused ==
  /\ \/ Takes({"Text"}) /\ backend = "awaited"
     \/ Takes({"BackendWrong"}) /\ backend # "any"
  /\ answer' = "recent"
  /\ FailRuntime(session, "off")
  /\ UNCHANGED <<micVars, warmup, retry, deferred, settingsVars, outsideVars>>

BackendArrives ==
  /\ \/ /\ Takes({"BackendOk"}) /\ named' = "yes"
        /\ backend' = (IF backend = "any" THEN "any" ELSE "confirmed")
     \/ /\ Takes({"BackendWrong"}) /\ backend = "any"
        /\ UNCHANGED backendVars
  /\ Answered
  /\ KeepsConnection /\ UNCHANGED <<session, clocks, stop, delayed, viewVars>>

OtherArrives ==
  /\ Takes({"Other"})
  /\ Answered /\ Committed
  /\ KeepsConnection /\ UNCHANGED <<session, clocks, stop, delayed, splash, backendVars>>

\* close_delayed_session_after_response: the connection of a turn that a
\* warm-up held back serves this turn only.
ClosesDelayed(turns) == delayed \in turns /\ session = "Streaming" /\ gate = "idle"

\* Asked to finish, as by the idle close.
SlipNoDeadline ==
  /\ session' = "Closing" /\ stop' = "sent" /\ UNCHANGED clocks
  /\ error' = "none" /\ splash' = "none"
AskToFinish ==
  /\ session' = "Closing" /\ stop' = "sent" /\ clocks' = clocks \cup {"closing"}
  /\ error' = "none" /\ splash' = "none"

EndpointArrives ==
  /\ Takes({"Endpoint"})
  /\ Answered
  /\ IF ClosesDelayed({"ended"})
     THEN AskToFinish
     ELSE Committed /\ UNCHANGED <<session, stop, clocks, splash>>
  /\ KeepsConnection /\ UNCHANGED <<delayed, backendVars>>

NoticeArrives ==
  /\ Takes({"Notice"})
  /\ Answered
  /\ IF ClosesDelayed({"speaking", "ended"})
     THEN AskToFinish
     ELSE error' = "none" /\ splash' = "none" /\ UNCHANGED <<session, stop, clocks>>
  /\ delayed' \in {delayed, IF session \in {"Streaming", "Closing", "Stopping"}
                            THEN delayed ELSE "none"}
  /\ KeepsConnection /\ UNCHANGED backendVars

\* Finished: the end of a session that was asked to finish; unasked, it only
\* marks the connection as closing.
FinishedArrives(micOk) ==
  /\ Takes({"Finished"})
  /\ \/ /\ IsClosing(session)
        /\ answer' = "recent"
        /\ \E shown \in {error, "none", "temporary"} :
             EndSession(Apply(session, "Finished"), NoConnectionClock, recovery, shown, micOk)
     \/ /\ ~IsClosing(session)
        /\ Answered /\ Committed
        /\ stop' = "sent"
        /\ KeepsConnection /\ UNCHANGED <<session, clocks, delayed, splash, backendVars>>

\* The end was expected: finish_asr_shutdown.
EndExpected == stop = "sent" \/ IsClosing(session)
LinkSilent == Running /\ link = "gone" /\ inbox = <<>>

LinkShutDown(micOk) ==
  /\ EndExpected
  /\ Takes({"ClosedReason", "Closed", "Lost"}) \/ LinkSilent
  /\ LET target == IF Accepts(session, "Finished") THEN Apply(session, "Finished")
                   ELSE Apply(session, "Aborted")
     IN  EndSession(target, NoConnectionClock, recovery, "none", micOk)
  /\ UNCHANGED answer

\* abort_asr_session: the connection was lost, which is no failure.
LinkAborted(micOk) ==
  /\ ~EndExpected /\ Takes({"Closed", "Lost"})
  /\ EndSession(Apply(session, "Aborted"), NoConnectionClock, recovery, "none", micOk)
  /\ UNCHANGED answer

LinkFailed ==
  /\ \/ Takes({"Fault", "ClosedPolicy"})
     \/ ~EndExpected /\ (Takes({"ClosedReason"}) \/ LinkSilent)
  /\ FailRuntime(session, "auto")
  /\ UNCHANGED <<micVars, warmVars, settingsVars, outsideVars>>

\* drain_connection_control_events: another device took over, or the
\* connection cannot be confirmed.
ControlLost ==
  /\ Running /\ link # "none"
  /\ DisableListening(Now, "persistent")
  /\ UNCHANGED <<settingsVars, retry, answer, backendVars, ready, phase>>

-------------------------------------------------------------------------------
(***************************************************************************)
(* finish_enrollment_warmup, and the speech the warm-up held back.         *)
(***************************************************************************)
SlipHeldOnly ==
  /\ warmup' = "none"
  /\ IF deferred # "none" /\ session = "Listening"
     THEN deferred' = "none" /\ ((StartAsr /\ delayed' = deferred) \/ StartFails)
     ELSE UNCHANGED <<deferred, sessionVars, asrVars, viewVars, named>>
  /\ UNCHANGED <<backend, ready, login, phase>>
SlipAnyState ==
  /\ warmup' = "none" /\ deferred' = "none"
  /\ IF deferred # "none"
     THEN (StartAsr /\ delayed' = deferred) \/ StartFails
     ELSE UNCHANGED <<sessionVars, asrVars, viewVars, named>>
  /\ UNCHANGED <<backend, ready, login, phase>>
ResumeDeferred ==
  /\ warmup' = "none" /\ deferred' = "none"
  /\ IF deferred # "none" /\ session = "Listening"
     THEN (StartAsr /\ delayed' = deferred) \/ StartFails
     ELSE UNCHANGED <<sessionVars, asrVars, viewVars, named>>
  /\ UNCHANGED <<backend, ready, login, phase>>

WarmupReady ==
  /\ Running /\ warmup = "running"
  /\ answer' = "recent" /\ retry' = "due"
  /\ ResumeDeferred
  /\ UNCHANGED <<micVars, settingsVars>>

WarmupRetryable ==
  /\ Running /\ warmup = "running"
  /\ retry' = "held" /\ UNCHANGED answer
  /\ ResumeDeferred
  /\ UNCHANGED <<micVars, settingsVars>>

WarmupNeedsUser ==
  /\ Running /\ warmup = "running"
  /\ warmup' = "none" /\ retry' = "due" /\ deferred' = "none"
  /\ FailRuntime(session, "off")
  /\ UNCHANGED <<micVars, answer, settingsVars, outsideVars>>

-------------------------------------------------------------------------------
\* check_session_timeouts
SessionTimeout(micOk) ==
  /\ Running
  /\ \/ IsClosing(session) /\ "closing" \in clocks
     \/ session = "Connecting" /\ "connecting" \in clocks
  /\ EndSession(Apply(session, "Timeout"), NoConnectionClock, recovery, "none", micOk)
  /\ UNCHANGED answer

\* check_failed_recovery.  A failed session has no transport.
FailedRecovery(micOk) ==
  /\ Running /\ recovery = "auto" /\ "failed" \in clocks
  /\ Accepts(session, "Retry")
  /\ EndSession(Apply(session, "Retry"), NoConnectionClock \ {"failed"}, "off", "none", micOk)
  /\ UNCHANGED answer

\* An idle connection is asked to finish.
IdleClose ==
  /\ Running /\ session = "Streaming"
  /\ IF SendFails
     THEN FailRuntime(session, "auto")
     ELSE AskToFinish /\ UNCHANGED <<recovery, link, inbox, delayed>>
  /\ UNCHANGED <<micVars, warmVars, settingsVars, outsideVars>>

\* check_splash_timeout
SplashTimeout ==
  /\ Running /\ splash = "shown"
  /\ IF ready = "Ready"
     THEN /\ splash' = "none"
          /\ UNCHANGED <<sessionVars, micVars, asrVars, warmup, deferred, error, login>>
     ELSE RequireConnection(Now)
  /\ UNCHANGED <<settingsVars, retry, answer, backendVars, ready, phase>>

\* check_overlay_timeout
ErrorExpires ==
  /\ Running /\ error = "temporary" /\ error' = "none"
  /\ UNCHANGED <<sessionVars, micVars, asrVars, warmVars, splash, settingsVars, outsideVars>>

RetryHoldExpires ==
  /\ Running /\ retry = "held" /\ retry' = "due"
  /\ UNCHANGED <<sessionVars, micVars, asrVars, warmup, answer, deferred, viewVars,
                 settingsVars, outsideVars>>

AnswerAges ==
  /\ Running /\ answer = "recent" /\ answer' = "old"
  /\ UNCHANGED <<sessionVars, micVars, asrVars, warmup, retry, deferred, viewVars,
                 settingsVars, outsideVars>>

ReadinessChanges ==
  /\ Running /\ ready' \in ReadinessSeen \ {ready}
  /\ UNCHANGED <<sessionVars, micVars, asrVars, warmVars, viewVars, settingsVars,
                 backendVars, login, phase>>

-------------------------------------------------------------------------------
UserStep ==
  \/ \E micOk \in BOOLEAN : ToggleListening(micOk) \/ LoginSucceeds(micOk)
  \/ \E new \in SavedSettings, micOk \in BOOLEAN :
       \/ UpdateSettingsIdle(new, micOk)
       \/ UpdateSettingsRoute(new, micOk)
       \/ UpdateSettingsDeferred(new, micOk)
  \/ \E new \in SavedSettings : SwitchMicrophoneFails(new)
  \/ \E now \in ReadinessSeen : Logout(now)
  \/ StartLogin \/ LoginFails \/ LogoutFails
  \/ RefreshVoiceEnrollment \/ Shutdown

SpeechStep ==
  \/ SpeechDeferred \/ SpeechConnects \/ SpeechContinues
  \/ AudioSendFails \/ SpeechEnded
  \/ VadWorkerDies \/ VadFailureSeen

LinkStep ==
  \/ LinkConnects \/ LinkFailsToConnect \/ LinkAnswers \/ LinkEnds \/ LinkReturns

DrainStep ==
  \/ ConnectedIgnored \/ ConnectedArrives \/ TextArrives
  \/ BackendRefused \/ BackendArrives \/ OtherArrives
  \/ EndpointArrives \/ NoticeArrives
  \/ \E micOk \in BOOLEAN :
       FinishedArrives(micOk) \/ LinkShutDown(micOk) \/ LinkAborted(micOk)
  \/ LinkFailed \/ ControlLost

WarmupStep == WarmupReady \/ WarmupRetryable \/ WarmupNeedsUser

TimerStep ==
  \/ \E micOk \in BOOLEAN : SessionTimeout(micOk) \/ FailedRecovery(micOk)
  \/ IdleClose \/ SplashTimeout \/ ErrorExpires
  \/ RetryHoldExpires \/ AnswerAges \/ ReadinessChanges

Next ==
  \/ \E warned, micOk \in BOOLEAN : Startup(warned, micOk)
  \/ UserStep \/ SpeechStep \/ LinkStep \/ DrainStep \/ WarmupStep \/ TimerStep

Spec == Init /\ [][Next]_vars

\* What the program owes by itself.  The controller thread takes its turns (its loop
\* wakes at least every 10 ms and its select is fair between a command and the
\* tick), and an enrollment ends (its request has a timeout).  Whoever drops a
\* transport waits for its thread (cleanup_asr joins), so that the timeout of a
\* session is completed only once that thread is done with connecting.
Fairness ==
  /\ WF_vars(\E micOk \in BOOLEAN : link # "dialing" /\ SessionTimeout(micOk))
  /\ WF_vars(\E micOk \in BOOLEAN : FailedRecovery(micOk))
  /\ WF_vars(WarmupStep)

\* What is assumed of the network: an attempt to connect ends.  connect() has no time
\* limit of its own; the system's is that of TCP.  The server, the user and the VAD
\* worker owe nothing.
AttemptsEnd == WF_vars(LinkConnects \/ LinkFailsToConnect)

OwnSpec == Spec /\ Fairness
FairSpec == OwnSpec /\ AttemptsEnd

-------------------------------------------------------------------------------
(***************************************************************************)
(* What must hold whenever the loop of the controller looks around.        *)
(***************************************************************************)

Alive == phase # "stopped"

\* When listening was switched off, whatever else was going on, the microphone
\* is released and the VAD worker is told to pause (disable_listening and the
\* paths that end in Disabled without it: require_connection, fail_runtime).
OffMeansMicOff ==
  Alive /\ session \in {"Disabled", "Stopping"} => mic = "closed" /\ vad # "running"

\* There is a transport exactly while the session is connecting, open or
\* closing: no path forgets to drop it or drops it and stays in the session.
TransportOwned == Alive => (link # "none" <=> session \in Active)

\* A session that waits for a server has the clock set that ends the wait, and
\* one that closes has told the server: no state in which it would wait forever.
DeadlineArmed ==
  Alive =>
    /\ session = "Connecting" => "connecting" \in clocks
    /\ IsClosing(session) => "closing" \in clocks /\ stop = "sent"

\* Speech that is held back always has something that will release it: the
\* warm-up it waits for, then the connection it is sent on.
HeldSpeechOwned ==
  /\ deferred # "none" => warmup = "running"
  /\ delayed # "none" => link # "none"

\* A failed session has the clock running that its recovery waits for, however
\* it failed and whatever failed after it.
RecoveryArmed == session = "Failed" => "failed" \in clocks

\* The microphone is open only while the user wants to be listened to: not after
\* a retry, a late end of a session, a login or a timeout, and not because other
\* settings, saved before, take effect.
MicFollowsPreference == Alive /\ mic = "open" => settings.listening = "on"

\* The same, as long as the VAD worker has not failed, and for every state that
\* leads back to an open microphone without asking: a session in progress, and
\* a failure that will be retried.
OnlyWhenWanted ==
  Alive /\ vad # "reported"
        /\ \/ mic = "open"
           \/ session \in {"Listening", "Connecting", "Streaming", "Closing"}
           \/ session = "Failed" /\ recovery = "auto"
    => settings.listening = "on"

\* Code: ConnectedArrives sets the expectation anew.  Once the controller has taken the
\* Connected of a connection on a route that must announce its backend, it takes text of
\* it, whatever became of the session, only after it has announced its backend: what an
\* earlier connection announced does not count.
TextAfterName ==
  [][TextArrives /\ settings.route \in CheckedRoutes => named # "no"]_vars

\* Comments of controller.rs (699, 2282): not one character of a server that has not
\* announced its backend.  Not so on a connection whose Connected was ignored because
\* listening had been switched off meanwhile: what an earlier connection left behind
\* decides, and the audio kept so far is sent on it all the same.
TextOnlyFromNamedBackend ==
  [][TextArrives /\ settings.route \in CheckedRoutes => named = "yes"]_vars

\* The route in force is the one the user saved last.
RouteInForce == Alive => settings.route = file.route

\* Speech held back by a warm-up is sent when the warm-up is over, unless
\* listening stopped or failed meanwhile.
DeferredSpeechSent ==
  [][deferred # "none" /\ deferred' = "none" =>
       delayed' # "none" \/ session' \in {"Disabled", "Stopping", "Failed"}]_vars


\* A failure that can recover does, unless something else ends it.
FailureRecovers ==
  (Running /\ session = "Failed" /\ recovery = "auto") ~> ~(session = "Failed" /\ recovery = "auto")

\* Speech is not held back forever.
DeferredReleased == deferred # "none" ~> deferred = "none"

-------------------------------------------------------------------------------
(***************************************************************************)
(* The promise, and how this controller keeps it.                          *)
(***************************************************************************)
Stage ==
  IF phase = "stopped" THEN "off"
  ELSE CASE session = "Disabled" -> "off"
         [] session = "Listening" -> "armed"
         [] session \in {"Connecting", "Streaming"} -> "call"
         [] session = "Closing" -> "ending"
         [] session = "Stopping" -> "stopping"
         [] session = "Failed" -> "failed"

Line == IF link = "none" THEN "free" ELSE "held"

Promise == INSTANCE VoiceSession WITH stage <- Stage, line <- Line

\* Every handler, however it combines the calls it makes, is one step of the
\* promised session or none: no second transport beside the first, none taken
\* while listening is off, failed or ending, no microphone opened on the way.
KeepsPromise == Promise!Spec
===============================================================================

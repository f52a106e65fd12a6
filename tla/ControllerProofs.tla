--------------------------- MODULE ControllerProofs ---------------------------
(***************************************************************************)
(* Proofs about Controller, for all values of its constants: every state   *)
(* is well typed, the inductive invariant Safe holds, which says that each *)
(* resource of a voice session has its owner and each wait its clock;      *)
(* the controller implements VoiceSession; and a connection that was taken *)
(* up gives text only after it named its backend.                          *)
(***************************************************************************)
EXTENDS Controller, SequenceTheorems, TLAPS

-------------------------------------------------------------------------------
(***************************************************************************)
(* The state machine of a session.                                         *)
(***************************************************************************)

\* No input leads out of the table of states (Session::apply).
LEMMA ApplyType == \A s \in States, i \in Inputs : Apply(s, i) \in States
  BY DEF States, Inputs, Apply, Accepts, Moves

\* The table, input by input, as far as the proofs need it.
LEMMA ApplyTable ==
  ASSUME NEW s \in States
  PROVE  /\ Apply(s, "Enable") = (IF s = "Disabled" THEN "Listening"
                                  ELSE IF s = "Stopping" THEN "Closing" ELSE s)
         /\ Apply(s, "Disable") = (IF s \in {"Disabled", "Listening", "Failed"} THEN "Disabled"
                                   ELSE "Stopping")
         /\ Apply(s, "Finished") = (IF s = "Closing" THEN "Listening"
                                    ELSE IF s = "Stopping" THEN "Disabled" ELSE s)
         /\ Apply(s, "Timeout") = (IF s \in {"Connecting", "Closing"} THEN "Listening"
                                   ELSE IF s = "Stopping" THEN "Disabled" ELSE s)
         /\ Apply(s, "Aborted") = (IF s \in {"Connecting", "Streaming", "Closing"} THEN "Listening"
                                   ELSE IF s = "Stopping" THEN "Disabled" ELSE s)
         /\ Apply(s, "Failed") = (IF s = "Stopping" THEN "Disabled" ELSE "Failed")
         /\ Apply(s, "Retry") = (IF s = "Failed" THEN "Listening" ELSE s)
         /\ Accepts(s, "Finished") <=> s \in {"Closing", "Stopping"}
         /\ Accepts(s, "Retry") <=> s = "Failed"
  BY DEF States, Apply, Accepts, Moves

-------------------------------------------------------------------------------
(***************************************************************************)
(* Types.  TypeOK is split into what the nested calls assign and the rest; *)
(* one lemma for each call says that it assigns values of the right type.  *)
(***************************************************************************)
VoiceType ==
  /\ session \in States /\ clocks \in SUBSET Clocks /\ recovery \in {"off", "auto"}
  /\ mic \in {"closed", "open"} /\ vad \in {"suspended", "running", "dead", "reported"}
  /\ gate \in {"idle", "speaking"}
  /\ link \in {"none", "dialing", "up", "over", "gone"} /\ inbox \in Seq(Events)
  /\ stop \in {"unsent", "sent"} /\ delayed \in Speech
  /\ warmup \in {"none", "running"} /\ deferred \in Speech
  /\ error \in {"none", "temporary", "persistent"} /\ splash \in {"none", "shown"}
  /\ login \in {"none", "running"}

OtherType ==
  /\ phase \in {"starting", "running", "stopped"}
  /\ backend \in {"any", "awaited", "confirmed"} /\ named \in {"unasked", "no", "yes"}
  /\ retry \in {"due", "held"} /\ answer \in {"old", "recent"}
  /\ settings \in Settings /\ file \in Settings /\ pending \in Settings \cup {NoSettings}
  /\ ready \in ReadinessSeen

\* Splitting TypeOK loses nothing.
LEMMA TypeParts ==
  /\ TypeOK <=> VoiceType /\ OtherType
  /\ TypeOK' <=> VoiceType' /\ OtherType'
  BY DEF TypeOK, VoiceType, OtherType

\* The type of the state a nested call finds.
AtType(at) ==
  /\ at.session \in States
  /\ at.gate \in {"idle", "speaking"}
  /\ at.link \in {"none", "dialing", "up", "over", "gone"}
  /\ at.warmup \in {"none", "running"}
  /\ at.login \in {"none", "running"}
  /\ at.error \in {"none", "temporary", "persistent"}
  /\ at.splash \in {"none", "shown"}

\* cleanup_asr leaves no transport, and nothing of its turn.
LEMMA CleanupAsrType ==
  ASSUME CleanupAsr
  PROVE  /\ link' \in {"none", "dialing", "up", "over", "gone"} /\ inbox' \in Seq(Events)
         /\ stop' \in {"unsent", "sent"} /\ delayed' \in Speech
  BY DEF CleanupAsr, Speech

\* What is left of a transport a handler may have dropped.
LEMMA AsrAfterType ==
  ASSUME TypeOK, NEW at, AsrAfter(at)
  PROVE  /\ clocks' \in SUBSET Clocks
         /\ link' \in {"none", "dialing", "up", "over", "gone"} /\ inbox' \in Seq(Events)
         /\ stop' \in {"unsent", "sent"} /\ delayed' \in Speech
<1>1. CASE CleanupAsr /\ clocks' = NoConnectionClock
  BY <1>1, CleanupAsrType DEF TypeOK, NoConnectionClock
<1>2. CASE UNCHANGED <<asrVars, clocks>>
  BY <1>2 DEF TypeOK, asrVars
<1>. QED
  BY <1>1, <1>2 DEF AsrAfter

\* fail_runtime, in any state and with either kind of recovery.
LEMMA FailRuntimeType ==
  ASSUME TypeOK, NEW s \in States, NEW how \in {"off", "auto"}, FailRuntime(s, how)
  PROVE  /\ session' \in States /\ clocks' \in SUBSET Clocks /\ recovery' \in {"off", "auto"}
         /\ error' \in {"none", "temporary", "persistent"} /\ splash' \in {"none", "shown"}
         /\ link' \in {"none", "dialing", "up", "over", "gone"} /\ inbox' \in Seq(Events)
         /\ stop' \in {"unsent", "sent"} /\ delayed' \in Speech
  BY ApplyType, CleanupAsrType DEF TypeOK, FailRuntime, Inputs, Clocks

\* require_connection.
LEMMA RequireConnectionType ==
  ASSUME TypeOK, NEW at, AtType(at), RequireConnection(at)
  PROVE  VoiceType'
  BY CleanupAsrType
     DEF TypeOK, VoiceType, AtType, RequireConnection, NoConnectionClock, Suspended, Worker,
         States

\* The part of enable_listening that opens the microphone, or fails to.
LEMMA OpenMicrophoneType ==
  ASSUME TypeOK, NEW at, AtType(at), NEW micOk \in BOOLEAN, OpenMicrophone(at, micOk)
  PROVE  VoiceType'
<1>1. /\ recovery' \in {"off", "auto"} /\ gate' \in {"idle", "speaking"}
      /\ warmup' \in {"none", "running"} /\ deferred' \in Speech /\ login' \in {"none", "running"}
  BY DEF TypeOK, AtType, OpenMicrophone
<1>2. /\ link' \in {"none", "dialing", "up", "over", "gone"} /\ inbox' \in Seq(Events)
      /\ stop' \in {"unsent", "sent"} /\ delayed' \in Speech
  BY CleanupAsrType DEF OpenMicrophone
<1>3. /\ session' \in States /\ clocks' \in SUBSET Clocks
      /\ mic' \in {"closed", "open"} /\ vad' \in {"suspended", "running", "dead", "reported"}
      /\ error' \in {"none", "temporary", "persistent"} /\ splash' \in {"none", "shown"}
  BY DEF TypeOK, AtType, OpenMicrophone, NoConnectionClock, Suspended, Resumed, Worker,
         States, Clocks
<1>. QED
  BY <1>1, <1>2, <1>3 DEF VoiceType

\* enable_listening.
LEMMA EnableListeningType ==
  ASSUME TypeOK, NEW at, AtType(at), NEW micOk \in BOOLEAN, EnableListening(at, micOk)
  PROVE  VoiceType'
<1>1. CASE RequireConnection(at)
  BY <1>1, RequireConnectionType
<1>2. CASE OpenMicrophone(at, micOk)
  BY <1>2, OpenMicrophoneType
<1>3. CASE /\ session' = Apply(at.session, "Enable")
           /\ gate' = at.gate /\ warmup' = at.warmup /\ login' = at.login
           /\ error' = at.error /\ splash' = at.splash
           /\ AsrAfter(at)
           /\ UNCHANGED <<recovery, mic, vad, deferred>>
  BY <1>3, ApplyType, AsrAfterType DEF TypeOK, VoiceType, AtType, Inputs
<1>. QED
  BY <1>1, <1>2, <1>3 DEF EnableListening

\* disable_listening.
LEMMA DisableListeningType ==
  ASSUME TypeOK, NEW at, AtType(at), NEW shown \in {"none", "temporary", "persistent"},
         DisableListening(at, shown)
  PROVE  VoiceType'
<1>1. /\ warmup' \in {"none", "running"} /\ deferred' \in Speech /\ delayed' \in Speech
      /\ mic' \in {"closed", "open"} /\ vad' \in {"suspended", "running", "dead", "reported"}
      /\ gate' \in {"idle", "speaking"}
      /\ error' \in {"none", "temporary", "persistent"} /\ splash' \in {"none", "shown"}
      /\ login' \in {"none", "running"}
  BY DEF TypeOK, DisableListening, Suspended, Worker, Speech
<1>2. session' \in States /\ recovery' \in {"off", "auto"}
  BY ApplyType DEF TypeOK, AtType, DisableListening, States, Inputs
<1>3. /\ link' \in {"none", "dialing", "up", "over", "gone"} /\ inbox' \in Seq(Events)
      /\ stop' \in {"unsent", "sent"}
  <2>1. CASE link' = "none" /\ inbox' = <<>> /\ stop' = "unsent"
    BY <2>1
  <2>2. CASE UNCHANGED <<link, inbox>> /\ stop' \in {"sent", stop}
    BY <2>2 DEF TypeOK
  <2>. QED
    BY <2>1, <2>2 DEF DisableListening
<1>4. clocks' \in SUBSET Clocks
  BY DEF TypeOK, DisableListening, NoConnectionClock, Clocks
<1>. QED
  BY <1>1, <1>2, <1>3, <1>4 DEF VoiceType

\* start_login.
LEMMA BeginLoginType ==
  ASSUME TypeOK, NEW at, AtType(at), BeginLogin(at)
  PROVE  VoiceType'
  BY AsrAfterType DEF TypeOK, VoiceType, AtType, BeginLogin

\* apply_listening_setting.
LEMMA ApplyListeningSettingType ==
  ASSUME TypeOK, NEW at, AtType(at), NEW on \in {"on", "off"}, NEW micOk \in BOOLEAN,
         ApplyListeningSetting(at, on, micOk)
  PROVE  VoiceType'
  BY BeginLoginType, EnableListeningType, DisableListeningType DEF ApplyListeningSetting

\* The common end of a session: resume_after_finished, apply_pending_settings.
LEMMA EndSessionType ==
  ASSUME TypeOK, NEW target \in States, NEW left \in SUBSET Clocks,
         NEW how \in {"off", "auto"}, NEW shown \in {"none", "temporary", "persistent"},
         NEW micOk \in BOOLEAN, EndSession(target, left, how, shown, micOk),
         answer' \in {"old", "recent"}
  PROVE  TypeOK'
<1>1. /\ session' \in States /\ clocks' \in SUBSET Clocks /\ recovery' \in {"off", "auto"}
      /\ error' \in {"none", "temporary", "persistent"} /\ splash' \in {"none", "shown"}
  BY DEF TypeOK, EndSession, AppliedSettings, ListeningWithdrawn, States, Clocks
<1>2. /\ mic' \in {"closed", "open"} /\ vad' \in {"suspended", "running", "dead", "reported"}
      /\ gate' \in {"idle", "speaking"}
      /\ warmup' \in {"none", "running"} /\ deferred' \in Speech
  BY DEF TypeOK, EndSession, AppliedSettings, ListeningWithdrawn, Suspended, Resumed, Worker, Speech
<1>3. /\ link' \in {"none", "dialing", "up", "over", "gone"} /\ inbox' \in Seq(Events)
      /\ stop' \in {"unsent", "sent"} /\ delayed' \in Speech
  BY CleanupAsrType DEF EndSession, AppliedSettings, ListeningWithdrawn
<1>4. OtherType' /\ login' \in {"none", "running"}
  BY DEF TypeOK, OtherType, EndSession, AppliedSettings, ListeningWithdrawn, outsideVars, backendVars
<1>. QED
  BY <1>1, <1>2, <1>3, <1>4 DEF TypeOK, OtherType

\* start_asr, and its failure.
LEMMA StartAsrType ==
  ASSUME TypeOK, StartAsr
  PROVE  /\ session' \in States /\ clocks' \in SUBSET Clocks /\ recovery' \in {"off", "auto"}
         /\ error' \in {"none", "temporary", "persistent"} /\ splash' \in {"none", "shown"}
         /\ link' \in {"none", "dialing", "up", "over", "gone"} /\ inbox' \in Seq(Events)
         /\ stop' \in {"unsent", "sent"} /\ named' \in {"unasked", "no", "yes"}
  BY DEF TypeOK, StartAsr, States, Clocks, NoConnectionClock

LEMMA StartFailsType ==
  ASSUME TypeOK, StartFails
  PROVE  /\ session' \in States /\ clocks' \in SUBSET Clocks /\ recovery' \in {"off", "auto"}
         /\ error' \in {"none", "temporary", "persistent"} /\ splash' \in {"none", "shown"}
         /\ link' \in {"none", "dialing", "up", "over", "gone"} /\ inbox' \in Seq(Events)
         /\ stop' \in {"unsent", "sent"} /\ delayed' \in Speech /\ named' \in {"unasked", "no", "yes"}
  BY FailRuntimeType DEF TypeOK, StartFails, States

\* The speech a warm-up held back is sent, or dropped.
LEMMA ResumeDeferredType ==
  ASSUME TypeOK, ResumeDeferred, retry' \in {"due", "held"}, answer' \in {"old", "recent"},
         UNCHANGED <<micVars, settingsVars>>
  PROVE  TypeOK'
<1>1. /\ session' \in States /\ clocks' \in SUBSET Clocks /\ recovery' \in {"off", "auto"}
      /\ error' \in {"none", "temporary", "persistent"} /\ splash' \in {"none", "shown"}
      /\ link' \in {"none", "dialing", "up", "over", "gone"} /\ inbox' \in Seq(Events)
      /\ stop' \in {"unsent", "sent"} /\ delayed' \in Speech /\ named' \in {"unasked", "no", "yes"}
  <2>1. CASE StartAsr /\ delayed' = deferred
    BY <2>1, StartAsrType DEF TypeOK
  <2>2. CASE StartFails
    BY <2>2, StartFailsType
  <2>3. CASE UNCHANGED <<sessionVars, asrVars, viewVars, named>>
    BY <2>3 DEF TypeOK, sessionVars, asrVars, viewVars
  <2>. QED
    BY <2>1, <2>2, <2>3 DEF ResumeDeferred
<1>2. /\ warmup' \in {"none", "running"} /\ deferred' \in Speech
      /\ UNCHANGED <<backend, ready, login, phase>>
  BY DEF ResumeDeferred, Speech
<1>. QED
  BY <1>1, <1>2 DEF TypeOK, micVars, settingsVars

\* Committed and answered: the error shown and the queue of events.
LEMMA CommittedType ==
  ASSUME TypeOK, Committed
  PROVE  error' \in {"none", "temporary", "persistent"}
  BY DEF TypeOK, Committed

LEMMA AnsweredType ==
  ASSUME TypeOK, NEW events, Takes(events), Answered
  PROVE  answer' \in {"old", "recent"} /\ inbox' \in Seq(Events)
<1>1. inbox \in Seq(Events) /\ inbox # <<>>
  BY DEF TypeOK, Takes
<1>2. Tail(inbox) \in Seq(Events)
  BY <1>1
<1>. QED
  BY <1>2 DEF Answered

\* What the thread of the connection reports arrives in the queue.
LEMMA LinkReportsType ==
  ASSUME TypeOK, NEW events \in Seq(Events), LinkReports(events),
         link' \in {"none", "dialing", "up", "over", "gone"}
  PROVE  TypeOK'
<1>1. inbox' \in Seq(Events)
  BY DEF TypeOK, LinkReports
<1>. QED
  BY <1>1 DEF TypeOK, LinkReports, sessionVars, micVars, warmVars, viewVars, settingsVars,
      outsideVars, backendVars

\* Every step keeps the types.
LEMMA TypeStep ==
  ASSUME TypeOK, [Next]_vars
  PROVE  TypeOK'
<1>. USE ControllerAssumption
<1>0. \A new \in SavedSettings : new \in Settings /\ new.listening \in {"on", "off"}
  BY DEF ControllerAssumption, Settings
<1>1. ASSUME NEW warned \in BOOLEAN, NEW micOk \in BOOLEAN, Startup(warned, micOk)
      PROVE  TypeOK'
  <2>. DEFINE at == IF warned
                   THEN [Now EXCEPT !.error = "temporary", !.splash = "none"]
                   ELSE Now
  <2>1. AtType(at)
    BY DEF TypeOK, AtType, Now
  <2>2. OtherType'
    BY <1>1 DEF TypeOK, OtherType, Startup, settingsVars, backendVars
  <2>3. CASE EnableListening(at, micOk)
    BY <2>1, <2>2, <2>3, EnableListeningType, TypeParts
  <2>4. CASE /\ vad' = Suspended
             /\ error' = at.error /\ splash' = at.splash
             /\ UNCHANGED <<sessionVars, mic, gate, asrVars, warmup, deferred, login>>
    BY <2>1, <2>2, <2>4, TypeParts
       DEF TypeOK, VoiceType, AtType, Suspended, Worker, sessionVars, asrVars
  <2>. QED
    BY <1>1, <2>3, <2>4 DEF Startup
<1>2. ASSUME NEW micOk \in BOOLEAN, ToggleListening(micOk)
      PROVE  TypeOK'
  <2>1. AtType(Now) /\ Flip(settings.listening) \in {"on", "off"}
    BY DEF TypeOK, AtType, Now, Flip
  <2>2. settings' \in Settings /\ pending' \in Settings \cup {NoSettings} /\ file' \in Settings
    BY <2>1, <1>2 DEF TypeOK, ToggleListening, Settings
  <2>3. VoiceType'
    BY <2>1, <1>2, ApplyListeningSettingType DEF ToggleListening
  <2>. QED
    BY <2>2, <2>3, <1>2, TypeParts DEF TypeOK, OtherType, ToggleListening, Otherwise, backendVars
<1>3. ASSUME NEW new \in SavedSettings, NEW micOk \in BOOLEAN, UpdateSettingsIdle(new, micOk)
      PROVE  TypeOK'
  <2>. DEFINE moved == settings.route # new.route
              warm == IF moved THEN WarmupStarted(new) ELSE warmup
              at == [Now EXCEPT !.gate = "idle", !.warmup = warm,
                                !.link = IF moved THEN "none" ELSE link,
                                !.splash = IF warm = warmup THEN splash ELSE "none"]
  <2>1. AtType(at)
    BY DEF TypeOK, AtType, Now, WarmupStarted
  <2>2. OtherType'
    BY <1>3, <1>0 DEF TypeOK, OtherType, UpdateSettingsIdle, Otherwise, backendVars
  <2>3. CASE ApplyListeningSetting(at, new.listening, micOk)
    BY <2>1, <2>2, <2>3, ApplyListeningSettingType, TypeParts, <1>0
  <2>4. CASE /\ gate' = "idle" /\ warmup' = warm /\ splash' = at.splash
             /\ AsrAfter(at)
             /\ UNCHANGED <<session, recovery, mic, vad, deferred, error, login>>
    <3>1. warm \in {"none", "running"} /\ at.splash \in {"none", "shown"}
      BY DEF TypeOK, Now, WarmupStarted
    <3>. QED
      BY <3>1, <2>2, <2>4, AsrAfterType, TypeParts DEF TypeOK, VoiceType
  <2>. QED
    BY <1>3, <2>3, <2>4 DEF UpdateSettingsIdle
<1>4. ASSUME NEW new \in SavedSettings, NEW micOk \in BOOLEAN, UpdateSettingsRoute(new, micOk)
      PROVE  TypeOK'
  <2>. DEFINE at == [Now EXCEPT !.session = Apply(session, "Aborted"), !.gate = "idle",
                                !.warmup = WarmupStarted(new), !.link = "none",
                                !.splash = "none"]
  <2>1. AtType(at)
    BY ApplyType DEF TypeOK, AtType, Now, WarmupStarted, Inputs
  <2>2. OtherType'
    BY <1>4, <1>0 DEF TypeOK, OtherType, UpdateSettingsRoute, Otherwise, backendVars
  <2>3. CASE ApplyListeningSetting(at, new.listening, micOk)
    BY <2>1, <2>2, <2>3, ApplyListeningSettingType, TypeParts, <1>0
  <2>4. CASE /\ session' = at.session
             /\ gate' = "idle" /\ warmup' = at.warmup /\ splash' = "none"
             /\ AsrAfter(at)
             /\ UNCHANGED <<recovery, mic, vad, deferred, error, login>>
    BY <2>1, <2>2, <2>4, AsrAfterType, TypeParts DEF TypeOK, VoiceType, AtType
  <2>. QED
    BY <1>4, <2>3, <2>4 DEF UpdateSettingsRoute
<1>5. ASSUME NEW new \in SavedSettings, NEW micOk \in BOOLEAN, UpdateSettingsDeferred(new, micOk)
      PROVE  TypeOK'
  <2>1. AtType(Now)
    BY DEF TypeOK, AtType, Now
  <2>2. settings' \in Settings
    BY <1>5, <1>0 DEF TypeOK, UpdateSettingsDeferred, Settings
  <2>3. OtherType'
    BY <2>2, <1>5, <1>0 DEF TypeOK, OtherType, UpdateSettingsDeferred, Otherwise, backendVars
  <2>4. CASE ApplyListeningSetting(Now, new.listening, micOk)
    BY <2>1, <2>3, <2>4, ApplyListeningSettingType, TypeParts, <1>0
  <2>5. CASE UNCHANGED <<sessionVars, micVars, asrVars, warmup, deferred, viewVars, login>>
    BY <2>3, <2>5, TypeParts
       DEF TypeOK, VoiceType, sessionVars, micVars, asrVars, viewVars
  <2>. QED
    BY <1>5, <2>4, <2>5 DEF UpdateSettingsDeferred
<1>6. ASSUME NEW new \in SavedSettings, SwitchMicrophoneFails(new)
      PROVE  TypeOK'
  <2>1. settings' \in Settings /\ pending' \in Settings \cup {NoSettings}
    BY <1>6, <1>0 DEF TypeOK, SwitchMicrophoneFails, Settings
  <2>2. OtherType'
    BY <2>1, <1>6, <1>0 DEF TypeOK, OtherType, SwitchMicrophoneFails, Otherwise, backendVars
  <2>3. mic' = "closed"
    BY <1>6 DEF SwitchMicrophoneFails
  <2>4. CASE /\ FailRuntime(session, "off")
             /\ gate' = (IF settings.route = new.route THEN gate ELSE "idle")
             /\ UNCHANGED <<vad, warmup, deferred, login>>
    BY <2>2, <2>3, <2>4, FailRuntimeType, TypeParts DEF TypeOK, VoiceType
  <2>5. CASE /\ session' = "Disabled" /\ clocks' = {} /\ recovery' = "off"
             /\ vad' = Suspended /\ gate' = "idle"
             /\ warmup' = "none" /\ deferred' = "none"
             /\ error' = "none" /\ splash' = "none"
             /\ CleanupAsr
             /\ UNCHANGED login
    BY <2>2, <2>3, <2>5, CleanupAsrType, TypeParts
       DEF TypeOK, VoiceType, Suspended, Worker, States, Speech
  <2>. QED
    BY <1>6, <2>4, <2>5 DEF SwitchMicrophoneFails
<1>7. CASE StartLogin
  <2>1. AtType(Now)
    BY DEF TypeOK, AtType, Now
  <2>. QED
    BY <1>7, <2>1, BeginLoginType, TypeParts
       DEF TypeOK, OtherType, StartLogin, Otherwise, settingsVars, backendVars
<1>8. ASSUME NEW micOk \in BOOLEAN, LoginSucceeds(micOk)
      PROVE  TypeOK'
  <2>. DEFINE at == [Now EXCEPT !.login = "none", !.error = "none", !.splash = "none"]
  <2>1. AtType(at)
    BY DEF TypeOK, AtType, Now
  <2>2. OtherType'
    BY <1>8 DEF TypeOK, OtherType, LoginSucceeds, Otherwise, settingsVars, backendVars
  <2>3. CASE EnableListening(at, micOk)
    BY <2>1, <2>2, <2>3, EnableListeningType, TypeParts
  <2>4. CASE /\ login' = "none" /\ error' = "none" /\ splash' = "none"
             /\ UNCHANGED <<sessionVars, micVars, asrVars, warmup, deferred>>
    BY <2>2, <2>4, TypeParts DEF TypeOK, VoiceType, sessionVars, micVars, asrVars
  <2>. QED
    BY <1>8, <2>3, <2>4 DEF LoginSucceeds
<1>9. CASE LoginFails
  BY <1>9 DEF TypeOK, LoginFails, sessionVars, micVars, asrVars, warmVars,
     settingsVars, backendVars
<1>10. ASSUME NEW now \in ReadinessSeen, Logout(now)
      PROVE  TypeOK'
  <2>1. AtType(Now)
    BY DEF TypeOK, AtType, Now
  <2>2. OtherType'
    BY <1>10 DEF TypeOK, OtherType, Logout, settingsVars, backendVars
  <2>3. CASE DisableListening(Now, "none")
    BY <2>1, <2>2, <2>3, DisableListeningType, TypeParts
  <2>4. CASE now # "Ready"
    <3>1. /\ session' = "Disabled" /\ CleanupAsr
          /\ mic' = "closed" /\ vad' = Suspended /\ gate' = "idle"
          /\ warmup' = "none" /\ deferred' = "none"
          /\ error' = "persistent" /\ splash' = "none"
          /\ UNCHANGED login
      BY <1>10, <2>4 DEF Logout
    <3>2. recovery' \in {"off", "auto"} /\ clocks' \in SUBSET Clocks
      BY <1>10, <2>4 DEF TypeOK, Logout, NoConnectionClock
    <3>. QED
      BY <2>2, <3>1, <3>2, CleanupAsrType, TypeParts
         DEF TypeOK, VoiceType, Suspended, Worker, States, Speech
  <2>. QED
    BY <1>10, <2>3, <2>4 DEF Logout
<1>11. CASE LogoutFails
  BY <1>11 DEF TypeOK, LogoutFails, sessionVars, micVars, asrVars, warmVars,
     settingsVars, outsideVars, backendVars
<1>12. CASE RefreshVoiceEnrollment
  BY <1>12 DEF TypeOK, RefreshVoiceEnrollment, WarmupAllowed, sessionVars, micVars,
     asrVars, settingsVars, outsideVars, backendVars
<1>13. CASE Shutdown
  BY <1>13, CleanupAsrType, ApplyType DEF TypeOK, Shutdown, SendFails, Suspended,
     settingsVars, backendVars, Worker, Inputs, States, Speech
<1>14. CASE SpeechDeferred
  BY <1>14 DEF TypeOK, SpeechDeferred, FramesArrive, WarmupIsDue, sessionVars,
     asrVars, settingsVars, outsideVars, ListeningEnabled, WarmupAllowed,
     backendVars, Speech
<1>15. CASE SpeechConnects
  <2>1. /\ session' \in States /\ clocks' \in SUBSET Clocks /\ recovery' \in {"off", "auto"}
        /\ error' \in {"none", "temporary", "persistent"} /\ splash' \in {"none", "shown"}
        /\ link' \in {"none", "dialing", "up", "over", "gone"} /\ inbox' \in Seq(Events)
        /\ stop' \in {"unsent", "sent"} /\ delayed' \in Speech /\ named' \in {"unasked", "no", "yes"}
    <3>1. CASE StartAsr /\ UNCHANGED delayed
      BY <3>1, StartAsrType DEF TypeOK
    <3>2. CASE StartFails
      BY <3>2, StartFailsType
    <3>3. CASE FailRuntime("Listening", "off") /\ UNCHANGED named
      BY <3>3, FailRuntimeType DEF TypeOK, States
    <3>. QED
      BY <1>15, <3>1, <3>2, <3>3 DEF SpeechConnects
  <2>. QED
    BY <1>15, <2>1 DEF TypeOK, SpeechConnects, warmVars, settingsVars
<1>16. CASE SpeechContinues
  <2>1. CASE UNCHANGED <<sessionVars, asrVars, viewVars>>
    BY <1>16, <2>1 DEF TypeOK, SpeechContinues, sessionVars, asrVars, viewVars, warmVars,
       settingsVars, outsideVars, backendVars
  <2>2. CASE FailRuntime(session, "auto")
    BY <1>16, <2>2, FailRuntimeType DEF TypeOK, SpeechContinues, warmVars, settingsVars,
       outsideVars, backendVars
  <2>. QED
    BY <1>16, <2>1, <2>2 DEF SpeechContinues
<1>17. CASE AudioSendFails
  BY <1>17, FailRuntimeType
     DEF TypeOK, AudioSendFails, micVars, warmVars, settingsVars, outsideVars, backendVars, Speech
<1>18. CASE SpeechEnded
  <2>1. deferred' \in Speech /\ EndSeen(delayed) \in Speech
    BY <1>18 DEF TypeOK, SpeechEnded, EndSeen, Speech
  <2>2. CASE delayed' = EndSeen(delayed) /\ UNCHANGED <<sessionVars, link, inbox, stop, viewVars>>
    BY <1>18, <2>1, <2>2 DEF TypeOK, SpeechEnded, sessionVars, viewVars, settingsVars,
       outsideVars, backendVars
  <2>3. CASE FailRuntime(session, "auto")
    BY <1>18, <2>1, <2>3, FailRuntimeType DEF TypeOK, SpeechEnded, settingsVars,
       outsideVars, backendVars
  <2>. QED
    BY <1>18, <2>2, <2>3 DEF SpeechEnded
<1>19. CASE VadWorkerDies
  BY <1>19 DEF TypeOK, VadWorkerDies, sessionVars, asrVars, warmVars, viewVars,
     settingsVars, outsideVars, backendVars
<1>20. CASE VadFailureSeen
  BY <1>20, FailRuntimeType
     DEF TypeOK, VadFailureSeen, warmVars, settingsVars, outsideVars, backendVars, Speech
<1>21. CASE LinkConnects
  <2>1. <<"Connected">> \in Seq(Events)
    BY DEF Events
  <2>. QED
    BY <1>21, <2>1, LinkReportsType DEF LinkConnects
<1>22. CASE LinkFailsToConnect
  <2>1. \A event \in {"Fault", "Lost"} : <<event>> \in Seq(Events)
    BY DEF Events
  <2>. QED
    BY <1>22, <2>1, LinkReportsType DEF LinkFailsToConnect
<1>23. CASE LinkAnswers
  <2>1. \A event \in Answers : <<event>> \in Seq(Events)
    BY DEF Events
  <2>. QED
    BY <1>23, <2>1, LinkReportsType DEF TypeOK, LinkAnswers
<1>24. CASE LinkEnds
  <2>1. \A event \in {"Finished", "Fault", "Lost"} : <<event>> \in Seq(Events)
    BY DEF Events
  <2>2. \A event \in Closes : <<event, "Lost">> \in Seq(Events) /\ <<event, "Finished">> \in Seq(Events)
    BY DEF Events
  <2>. QED
    BY <1>24, <2>1, <2>2, LinkReportsType DEF LinkEnds
<1>25. CASE LinkReturns
  <2>1. <<>> \in Seq(Events)
    OBVIOUS
  <2>. QED
    BY <1>25, <2>1, LinkReportsType DEF LinkReturns
<1>26. CASE ConnectedIgnored
  BY <1>26, AnsweredType DEF TypeOK, ConnectedIgnored, KeepsConnection, viewVars,
     backendVars, micVars, settingsVars
<1>27. CASE ConnectedArrives
  <2>1. /\ backend' \in {"any", "awaited", "confirmed"} /\ answer' = "recent"
        /\ UNCHANGED <<micVars, warmup, retry, deferred, settingsVars, ready, login, phase>>
        /\ named' = "no"
    BY <1>27 DEF ConnectedArrives, ExpectedBackend
  <2>2. CASE FailRuntime("Streaming", "auto")
    BY <2>1, <2>2, FailRuntimeType DEF TypeOK, States, micVars, settingsVars
  <2>3. CASE session' = "Streaming" /\ inbox' = Tail(inbox)
    <3>1. inbox' \in Seq(Events)
      BY <1>27, <2>3 DEF TypeOK, ConnectedArrives, ExpectedBackend, Takes
    <3>2. /\ session' \in States /\ clocks' \in SUBSET Clocks /\ recovery' = "off"
          /\ delayed' \in Speech /\ splash' = "none" /\ UNCHANGED <<link, stop, error>>
      BY <1>27, <2>3, ApplyTable DEF TypeOK, ConnectedArrives, ExpectedBackend, FailRuntime, States, Speech
    <3>. QED
      BY <2>1, <3>1, <3>2 DEF TypeOK, micVars, settingsVars
  <2>. QED
    BY <1>27, <2>2, <2>3 DEF ConnectedArrives
<1>28. CASE TextArrives
  BY <1>28, AnsweredType DEF TypeOK, TextArrives, KeepsConnection, viewVars,
     backendVars, micVars, settingsVars
<1>29. CASE BackendRefused
  BY <1>29, FailRuntimeType
     DEF TypeOK, BackendRefused, micVars, settingsVars, outsideVars, backendVars, Speech
<1>30. CASE BackendArrives
  BY <1>30, AnsweredType DEF TypeOK, BackendArrives, backendVars, KeepsConnection,
     viewVars, micVars, settingsVars
<1>31. CASE OtherArrives
  BY <1>31, AnsweredType, CommittedType DEF TypeOK, OtherArrives, KeepsConnection,
     backendVars, micVars, settingsVars
<1>32. CASE EndpointArrives
  <2>1. answer' \in {"old", "recent"} /\ inbox' \in Seq(Events)
    BY <1>32, AnsweredType DEF EndpointArrives
  <2>2. /\ session' \in States /\ clocks' \in SUBSET Clocks /\ stop' \in {"unsent", "sent"}
        /\ error' \in {"none", "temporary", "persistent"} /\ splash' \in {"none", "shown"}
    <3>1. CASE AskToFinish
      BY <3>1 DEF TypeOK, AskToFinish, States, Clocks
    <3>2. CASE Committed /\ UNCHANGED <<session, stop, clocks, splash>>
      BY <3>2, CommittedType DEF TypeOK
    <3>. QED
      BY <1>32, <3>1, <3>2 DEF EndpointArrives
  <2>. QED
    BY <1>32, <2>1, <2>2 DEF TypeOK, EndpointArrives, KeepsConnection, micVars, settingsVars,
       backendVars
<1>33. CASE NoticeArrives
  <2>1. answer' \in {"old", "recent"} /\ inbox' \in Seq(Events)
    BY <1>33, AnsweredType DEF NoticeArrives
  <2>2. /\ session' \in States /\ clocks' \in SUBSET Clocks /\ stop' \in {"unsent", "sent"}
        /\ error' \in {"none", "temporary", "persistent"} /\ splash' \in {"none", "shown"}
    BY <1>33 DEF TypeOK, NoticeArrives, AskToFinish, States, Clocks
  <2>3. delayed' \in Speech
    BY <1>33 DEF TypeOK, NoticeArrives, Speech
  <2>. QED
    BY <1>33, <2>1, <2>2, <2>3 DEF TypeOK, NoticeArrives, KeepsConnection, micVars, settingsVars,
       backendVars
<1>34. ASSUME NEW micOk \in BOOLEAN, FinishedArrives(micOk)
      PROVE  TypeOK'
  <2>1. CASE /\ IsClosing(session) /\ answer' = "recent"
             /\ \E shown \in {error, "none", "temporary"} :
                  EndSession(Apply(session, "Finished"), NoConnectionClock, recovery, shown, micOk)
    <3>1. /\ error \in {"none", "temporary", "persistent"} /\ Apply(session, "Finished") \in States
          /\ NoConnectionClock \in SUBSET Clocks
        /\ recovery \in {"off", "auto"} /\ answer \in {"old", "recent"}
      BY ApplyType DEF TypeOK, Inputs, NoConnectionClock
    <3>. QED
      BY <2>1, <3>1, EndSessionType
  <2>2. CASE /\ Takes({"Finished"}) /\ Answered /\ Committed /\ stop' = "sent"
             /\ KeepsConnection /\ UNCHANGED <<session, clocks, delayed, splash, backendVars>>
    BY <2>2, AnsweredType, CommittedType
       DEF TypeOK, KeepsConnection, micVars, settingsVars, backendVars
  <2>. QED
    BY <1>34, <2>1, <2>2 DEF FinishedArrives
<1>35. ASSUME NEW micOk \in BOOLEAN, LinkShutDown(micOk)
      PROVE  TypeOK'
  <2>1. /\ Apply(session, "Finished") \in States /\ Apply(session, "Aborted") \in States
        /\ NoConnectionClock \in SUBSET Clocks
        /\ recovery \in {"off", "auto"} /\ answer \in {"old", "recent"}
    BY ApplyType DEF TypeOK, Inputs, NoConnectionClock
  <2>. QED
    BY <1>35, <2>1, EndSessionType DEF LinkShutDown
<1>36. ASSUME NEW micOk \in BOOLEAN, LinkAborted(micOk)
      PROVE  TypeOK'
  <2>1. /\ Apply(session, "Aborted") \in States /\ NoConnectionClock \in SUBSET Clocks
        /\ recovery \in {"off", "auto"} /\ answer \in {"old", "recent"}
    BY ApplyType DEF TypeOK, Inputs, NoConnectionClock
  <2>. QED
    BY <1>36, <2>1, EndSessionType DEF LinkAborted
<1>37. CASE LinkFailed
  BY <1>37, FailRuntimeType
     DEF TypeOK, LinkFailed, micVars, warmVars, settingsVars, outsideVars, backendVars, Speech
<1>38. CASE ControlLost
  <2>1. AtType(Now)
    BY DEF TypeOK, AtType, Now
  <2>. QED
    BY <1>38, <2>1, DisableListeningType, TypeParts
       DEF TypeOK, OtherType, ControlLost, settingsVars, backendVars
<1>39. CASE WarmupReady
  BY <1>39, ResumeDeferredType DEF TypeOK, WarmupReady
<1>40. CASE WarmupRetryable
  BY <1>40, ResumeDeferredType DEF TypeOK, WarmupRetryable
<1>41. CASE WarmupNeedsUser
  BY <1>41, FailRuntimeType
     DEF TypeOK, WarmupNeedsUser, micVars, settingsVars, outsideVars, backendVars, Speech
<1>42. ASSUME NEW micOk \in BOOLEAN, SessionTimeout(micOk)
      PROVE  TypeOK'
  <2>1. /\ Apply(session, "Timeout") \in States /\ NoConnectionClock \in SUBSET Clocks
        /\ recovery \in {"off", "auto"} /\ answer \in {"old", "recent"}
    BY ApplyType DEF TypeOK, Inputs, NoConnectionClock
  <2>. QED
    BY <1>42, <2>1, EndSessionType DEF SessionTimeout
<1>43. ASSUME NEW micOk \in BOOLEAN, FailedRecovery(micOk)
      PROVE  TypeOK'
  <2>1. /\ Apply(session, "Retry") \in States /\ NoConnectionClock \ {"failed"} \in SUBSET Clocks
        /\ answer \in {"old", "recent"}
    BY ApplyType DEF TypeOK, Inputs, NoConnectionClock
  <2>. QED
    BY <1>43, <2>1, EndSessionType DEF FailedRecovery
<1>44. CASE IdleClose
  <2>1. CASE FailRuntime(session, "auto")
    BY <1>44, <2>1, FailRuntimeType DEF TypeOK, IdleClose, micVars, warmVars, settingsVars,
       outsideVars, backendVars
  <2>2. CASE AskToFinish /\ UNCHANGED <<recovery, link, inbox, delayed>>
    BY <1>44, <2>2 DEF TypeOK, IdleClose, AskToFinish, States, Clocks, micVars, warmVars,
       settingsVars, outsideVars, backendVars
  <2>. QED
    BY <1>44, <2>1, <2>2 DEF IdleClose
<1>45. CASE SplashTimeout
  <2>1. AtType(Now)
    BY DEF TypeOK, AtType, Now
  <2>2. OtherType'
    BY <1>45 DEF TypeOK, OtherType, SplashTimeout, settingsVars, backendVars
  <2>3. CASE RequireConnection(Now)
    BY <2>1, <2>2, <2>3, RequireConnectionType, TypeParts
  <2>4. CASE /\ splash' = "none"
             /\ UNCHANGED <<sessionVars, micVars, asrVars, warmup, deferred, error, login>>
    BY <2>2, <2>4, TypeParts DEF TypeOK, VoiceType, sessionVars, micVars, asrVars
  <2>. QED
    BY <1>45, <2>3, <2>4 DEF SplashTimeout
<1>46. CASE ErrorExpires
  BY <1>46 DEF TypeOK, ErrorExpires, sessionVars, micVars, asrVars, warmVars,
     settingsVars, outsideVars, backendVars
<1>47. CASE RetryHoldExpires
  BY <1>47 DEF TypeOK, RetryHoldExpires, sessionVars, micVars, asrVars, viewVars,
     settingsVars, outsideVars, backendVars
<1>48. CASE AnswerAges
  BY <1>48 DEF TypeOK, AnswerAges, sessionVars, micVars, asrVars, viewVars,
     settingsVars, outsideVars, backendVars
<1>49. CASE ReadinessChanges
  BY <1>49 DEF TypeOK, ReadinessChanges, sessionVars, micVars, asrVars, warmVars,
     viewVars, settingsVars, backendVars
<1>50. CASE UNCHANGED vars
  BY <1>50 DEF TypeOK, vars, sessionVars, micVars, asrVars, warmVars, viewVars, settingsVars,
     outsideVars, backendVars
<1>. QED
  BY <1>1, <1>2, <1>3, <1>4, <1>5, <1>6, <1>7, <1>8, <1>9, <1>10, <1>11, <1>12,
     <1>13, <1>14, <1>15, <1>16, <1>17, <1>18, <1>19, <1>20, <1>21, <1>22, <1>23,
     <1>24, <1>25, <1>26, <1>27, <1>28, <1>29, <1>30, <1>31, <1>32, <1>33, <1>34,
     <1>35, <1>36, <1>37, <1>38, <1>39, <1>40, <1>41, <1>42, <1>43, <1>44, <1>45,
     <1>46, <1>47, <1>48, <1>49, <1>50 DEF Next, UserStep, SpeechStep, LinkStep,
     DrainStep, WarmupStep, TimerStep

\* Every reachable state is well typed, whatever the routes and settings are.
THEOREM TypeCorrect == Spec => []TypeOK
<1>1. Init => TypeOK
  BY ControllerAssumption DEF Init, TypeOK, States, Clocks, Speech
<1>. QED
  BY <1>1, TypeStep, PTL DEF Spec

-------------------------------------------------------------------------------
(***************************************************************************)
(* Safety.  Each part of Safe needs others: what a dropped transport leaves*)
(* depends on the clocks and the state of the session, and whether the     *)
(* microphone may be opened again on the settings that were in force when  *)
(* it was closed.                                                          *)
(***************************************************************************)
Safe ==
  /\ OffMeansMicOff
  /\ TransportOwned
  /\ DeadlineArmed
  /\ HeldSpeechOwned
  /\ RecoveryArmed
  /\ OnlyWhenWanted

\* How a handler may move the session and the microphone, whatever calls it
\* combines.
Legal ==
  /\ session' = "Stopping" => session \in Active
  /\ session' = "Closing" => session \in Active /\ mic' = mic
  /\ session' = "Streaming" => session \in {"Connecting", "Streaming"} /\ mic' = mic
  /\ session' = "Connecting" => session \in {"Listening", "Connecting"} /\ mic' = mic
  /\ session' = "Listening" =>
       /\ mic' \in {mic, "open"}
       /\ session \in {"Disabled", "Failed", "Stopping"} => mic' = "open"
       /\ session = "Listening" => mic' = mic
  /\ session' = "Failed" => mic' \in {mic, "closed"}

\* The state a nested call finds: the handler has left the transport alone, or
\* has dropped it together with the session that owned it.
AtReachable(at) ==
  /\ AtType(at)
  /\ at.link \in {link, "none"}
  /\ at.link # "none" <=> at.session \in Active
  /\ at.session \in {session, Apply(session, "Aborted")}
  /\ at.warmup \in {warmup, "running"}

\* A session that was not aborted is the one the handler found.
LEMMA AtReachableFacts ==
  ASSUME TypeOK, Safe, Alive, NEW at, AtReachable(at)
  PROVE  /\ at.session \in States
         /\ at.session \in Active => at.session = session /\ at.link = link
         /\ at.session = "Failed" => session = "Failed"
         /\ at.session = "Disabled" => session \in {"Disabled", "Stopping"}
         /\ at.session = "Listening" => session \notin {"Disabled", "Failed", "Stopping"}
  BY ApplyTable DEF TypeOK, AtReachable, AtType, Active, States

\* fail_runtime: a failure from any state has its clock, unless the session was
\* being switched off already.
LEMMA FailRuntimeSafe ==
  ASSUME TypeOK, Safe, NEW s \in States, NEW how \in {"off", "auto"}, FailRuntime(s, how),
         s = "Failed" => session = "Failed"
  PROVE  /\ session' = (IF s = "Stopping" THEN "Disabled" ELSE "Failed")
         /\ link' = "none" /\ delayed' = "none"
         /\ session' = "Failed" => recovery' = how
         /\ RecoveryArmed'
<1>1. session' = (IF s = "Stopping" THEN "Disabled" ELSE "Failed")
  BY ApplyTable DEF FailRuntime
<1>2. link' = "none" /\ delayed' = "none" /\ (session' = "Failed" => recovery' = how)
  BY DEF FailRuntime, CleanupAsr
<1>3. RecoveryArmed'
  BY <1>1 DEF FailRuntime, Safe, RecoveryArmed
<1>. QED
  BY <1>1, <1>2, <1>3

\* require_connection.
LEMMA RequireConnectionSafe ==
  ASSUME TypeOK, Safe, Alive, NEW at, AtReachable(at), RequireConnection(at)
  PROVE  Safe' /\ Legal
<1>1. session' = "Disabled" /\ link' = "none" /\ delayed' = "none"
  BY DEF RequireConnection, CleanupAsr
<1>2. mic' = "closed" /\ vad' # "running"
  BY AtReachableFacts DEF RequireConnection, Safe, OffMeansMicOff, Suspended, Worker
<1>3. deferred' # "none" => warmup' = "running"
  BY DEF RequireConnection, AtReachable, Safe, HeldSpeechOwned
<1>. QED
  BY <1>1, <1>2, <1>3
     DEF Safe, Legal, OffMeansMicOff, TransportOwned, DeadlineArmed, HeldSpeechOwned, RecoveryArmed,
         OnlyWhenWanted, Active, IsClosing

\* The microphone is opened, or the session fails for want of it.
LEMMA OpenMicrophoneSafe ==
  ASSUME TypeOK, Safe, Alive, NEW at, AtReachable(at), NEW micOk \in BOOLEAN,
         OpenMicrophone(at, micOk), settings'.listening = "on", at.session = "Disabled"
  PROVE  Safe' /\ Legal
<1>1. session' \in {"Listening", "Failed"} /\ link' = "none" /\ delayed' = "none"
  BY DEF OpenMicrophone, CleanupAsr
<1>2. session' = "Failed" => "failed" \in clocks'
  BY DEF OpenMicrophone
<1>3. deferred' # "none" => warmup' = "running"
  BY DEF OpenMicrophone, AtReachable, Safe, HeldSpeechOwned
<1>4. Legal
  BY <1>1, AtReachableFacts DEF OpenMicrophone, Legal
<1>. QED
  BY <1>1, <1>2, <1>3, <1>4
     DEF Safe, OffMeansMicOff, TransportOwned, DeadlineArmed, HeldSpeechOwned, RecoveryArmed,
         OnlyWhenWanted, Active, IsClosing

\* What is left of the transport, for a session the call has not moved out of
\* the states it belongs to.
LEMMA AsrAfterSafe ==
  ASSUME TypeOK, Safe, Alive, NEW at, AtReachable(at), AsrAfter(at),
         session' \in States, session' \in Active <=> at.session \in Active,
         session' = at.session \/ (at.session = "Stopping" /\ session' = "Closing")
  PROVE  /\ TransportOwned' /\ DeadlineArmed' /\ RecoveryArmed'
         /\ delayed' # "none" => link' # "none"
<1>1. CASE at.link = "none"
  <2>1. link' = "none" /\ delayed' = "none" /\ clocks' = NoConnectionClock
    BY <1>1 DEF AsrAfter, CleanupAsr
  <2>2. session' \notin Active
    BY <1>1 DEF AtReachable
  <2>3. RecoveryArmed'
    BY <2>1, AtReachableFacts DEF Safe, RecoveryArmed, NoConnectionClock
  <2>. QED
    BY <2>1, <2>2, <2>3 DEF TransportOwned, DeadlineArmed, Active, IsClosing
<1>2. CASE at.link # "none"
  <2>1. UNCHANGED <<link, delayed, stop, clocks>>
    BY <1>2 DEF AsrAfter, asrVars
  <2>2. at.session \in Active /\ session' \in Active /\ at.session = session /\ link = at.link
    BY <1>2, AtReachableFacts DEF AtReachable
  <2>3. DeadlineArmed'
    BY <2>1, <2>2 DEF Safe, DeadlineArmed, Alive, IsClosing
  <2>. QED
    BY <1>2, <2>1, <2>2, <2>3 DEF TransportOwned, RecoveryArmed, Active
<1>. QED
  BY <1>1, <1>2

\* enable_listening, called because the user wants to be listened to.
LEMMA EnableListeningSafe ==
  ASSUME TypeOK, Safe, Alive, NEW at, AtReachable(at), NEW micOk \in BOOLEAN,
         EnableListening(at, micOk), settings'.listening = "on"
  PROVE  Safe' /\ Legal
<1>1. CASE RequireConnection(at)
  BY <1>1, RequireConnectionSafe
<1>2. CASE at.session = "Disabled" /\ OpenMicrophone(at, micOk)
  BY <1>2, OpenMicrophoneSafe
<1>3. CASE /\ at.session # "Disabled"
           /\ session' = Apply(at.session, "Enable") /\ warmup' = at.warmup
           /\ AsrAfter(at) /\ UNCHANGED <<mic, vad, deferred>>
  <2>1. /\ session' \in States
        /\ session' = at.session \/ (at.session = "Stopping" /\ session' = "Closing")
        /\ session' \notin {"Disabled", "Stopping"}
    BY <1>3, ApplyTable DEF AtReachable, AtType, States
  <2>2. TransportOwned' /\ DeadlineArmed' /\ RecoveryArmed' /\ (delayed' # "none" => link' # "none")
    BY <1>3, <2>1, AsrAfterSafe DEF Active
  <2>3. deferred' # "none" => warmup' = "running"
    BY <1>3 DEF AtReachable, Safe, HeldSpeechOwned
  <2>4. Legal
    BY <1>3, <2>1, AtReachableFacts, ApplyTable DEF Legal, Active, States
  <2>. QED
    BY <2>1, <2>2, <2>3, <2>4 DEF Safe, OffMeansMicOff, HeldSpeechOwned, OnlyWhenWanted
<1>. QED
  BY <1>1, <1>2, <1>3 DEF EnableListening

\* disable_listening, from wherever it is called.
LEMMA DisableListeningSafe ==
  ASSUME TypeOK, Safe, Alive, NEW at, AtReachable(at), NEW shown, DisableListening(at, shown)
  PROVE  Safe' /\ Legal
<1>1. session' \in {"Disabled", "Stopping"} /\ (session' = "Stopping" => at.session \in Active)
  BY ApplyTable DEF AtReachable, AtType, DisableListening, Active, States
<1>2. mic' = "closed" /\ vad' # "running" /\ deferred' = "none" /\ delayed' = "none"
  BY DEF DisableListening, Suspended, Worker
<1>3. link' # "none" <=> session' = "Stopping"
  BY <1>1, AtReachableFacts, ApplyTable DEF DisableListening, AtReachable, Active, States
<1>4. session' = "Stopping" => "closing" \in clocks' /\ stop' = "sent"
  BY <1>1, AtReachableFacts, ApplyTable
     DEF DisableListening, AtReachable, Safe, DeadlineArmed, Alive, Active, IsClosing
<1>5. Legal
  BY <1>1, AtReachableFacts DEF Legal
<1>. QED
  BY <1>1, <1>2, <1>3, <1>4, <1>5
     DEF Safe, OffMeansMicOff, TransportOwned, DeadlineArmed, HeldSpeechOwned, RecoveryArmed,
         OnlyWhenWanted, Active, IsClosing

\* start_login, when listening is wanted already.
LEMMA BeginLoginSafe ==
  ASSUME TypeOK, Safe, Alive, NEW at, AtReachable(at), BeginLogin(at),
         settings'.listening = "on"
  PROVE  Safe' /\ Legal
<1>1. session' = at.session /\ warmup' = at.warmup /\ AsrAfter(at) /\ UNCHANGED <<mic, vad, deferred>>
  BY DEF BeginLogin
<1>2. TransportOwned' /\ DeadlineArmed' /\ RecoveryArmed' /\ (delayed' # "none" => link' # "none")
  BY <1>1, AsrAfterSafe DEF AtReachable, AtType
<1>3. OffMeansMicOff'
  BY <1>1, AtReachableFacts DEF Safe, OffMeansMicOff, Active
<1>4. deferred' # "none" => warmup' = "running"
  BY <1>1 DEF AtReachable, Safe, HeldSpeechOwned
<1>5. Legal
  BY <1>1, AtReachableFacts DEF Legal, Active
<1>. QED
  BY <1>2, <1>3, <1>4, <1>5 DEF Safe, HeldSpeechOwned, OnlyWhenWanted

\* apply_listening_setting obeys the preference just saved.
LEMMA ApplyListeningSettingSafe ==
  ASSUME TypeOK, Safe, Alive, NEW at, AtReachable(at), NEW on, NEW micOk \in BOOLEAN,
         ApplyListeningSetting(at, on, micOk), settings'.listening = on
  PROVE  Safe' /\ Legal
  BY BeginLoginSafe, EnableListeningSafe, DisableListeningSafe DEF ApplyListeningSetting

\* The common end of a session: its resources go with it, and the microphone is
\* open afterwards only if the settings then in force say so.
LEMMA EndSessionSafe ==
  ASSUME TypeOK, Safe, Running, NEW target \in {"Listening", "Disabled"}, NEW left, NEW shown,
         NEW how \in {"off", "auto"}, NEW micOk \in BOOLEAN,
         EndSession(target, left, how, shown, micOk),
         target = "Disabled" => session = "Stopping",
         target = "Listening" =>
           \/ session \in {"Connecting", "Streaming", "Closing"}
           \/ session = "Failed" /\ recovery = "auto"
  PROVE  Safe' /\ Legal
<1>. DEFINE broken == target = "Listening" /\ mic = "closed" /\ ~micOk
            off == pending # NoSettings /\ settings.listening = "on" /\ pending.listening = "off"
<1>1. /\ session' = (IF off THEN "Disabled" ELSE IF broken THEN "Failed" ELSE target)
      /\ mic' = (IF off THEN "closed"
                 ELSE IF target = "Listening" /\ ~broken THEN "open" ELSE mic)
      /\ vad' = (IF off \/ broken THEN Suspended
                 ELSE IF target = "Listening" THEN Resumed ELSE vad)
      /\ clocks' = (IF broken THEN (IF off THEN {} ELSE {"failed"}) ELSE left)
      /\ recovery' = (IF broken THEN "off" ELSE how)
      /\ warmup' = (IF off THEN "none" ELSE warmup)
      /\ deferred' = (IF off THEN "none" ELSE deferred)
      /\ settings' = (IF pending = NoSettings THEN settings ELSE pending)
  BY DEF EndSession, AppliedSettings, ListeningWithdrawn
<1>2. link' = "none" /\ delayed' = "none"
  BY DEF EndSession, AppliedSettings, ListeningWithdrawn, CleanupAsr
<1>3. OffMeansMicOff'
  BY <1>1 DEF Safe, OffMeansMicOff, Alive, Running, Suspended, Worker
<1>4. TransportOwned' /\ DeadlineArmed' /\ HeldSpeechOwned' /\ RecoveryArmed'
  BY <1>1, <1>2
     DEF Safe, TransportOwned, DeadlineArmed, HeldSpeechOwned, RecoveryArmed, Active, IsClosing
<1>5. OnlyWhenWanted'
  <2>1. CASE session' = "Listening" /\ vad' # "reported"
    <3>1. target = "Listening" /\ ~off /\ vad # "reported"
      BY <1>1, <2>1 DEF Suspended, Resumed, Worker
    <3>2. settings.listening = "on"
      BY <3>1 DEF Safe, OnlyWhenWanted, Alive, Running
    <3>3. pending # NoSettings => pending.listening = "on"
      BY <3>1, <3>2 DEF TypeOK, Settings
    <3>. QED
      BY <1>1, <3>2, <3>3 DEF OnlyWhenWanted
  <2>2. CASE session' = "Disabled"
    BY <2>2, <1>3 DEF OnlyWhenWanted, OffMeansMicOff
  <2>3. CASE session' = "Failed"
    <3>1. target = "Listening" /\ mic' = "closed" /\ recovery' = "off"
      BY <1>1, <2>3 DEF Safe
    <3>. QED
      BY <2>3, <3>1 DEF OnlyWhenWanted
  <2>4. CASE vad' = "reported"
    BY <2>4 DEF OnlyWhenWanted
  <2>. QED
    BY <1>1, <2>1, <2>2, <2>3, <2>4
<1>6. Legal
  BY <1>1 DEF Legal, TypeOK
<1>. QED
  BY <1>3, <1>4, <1>5, <1>6 DEF Safe

\* A failure the runtime reports, with everything else left alone: it cannot
\* open the microphone for someone who does not want it.
LEMMA FailureSafe ==
  ASSUME TypeOK, Safe, Running, NEW s \in States, NEW how \in {"off", "auto"},
         FailRuntime(s, how),
         s = "Failed" => session = "Failed",
         s = "Disabled" => session = "Disabled",
         s = "Stopping" => session = "Stopping",
         s = "Closing" => session = "Closing",
         s \in {"Connecting", "Streaming"} => session \in {"Listening", "Connecting", "Streaming"},
         s = "Listening" => session = "Listening",
         how = "auto" => session \in Active \cup {"Listening"},
         UNCHANGED <<mic, vad, settings>>,
         deferred' # "none" => warmup' = "running"
  PROVE  Safe' /\ Legal
<1>1. /\ session' = (IF s = "Stopping" THEN "Disabled" ELSE "Failed")
      /\ link' = "none" /\ delayed' = "none" /\ RecoveryArmed'
      /\ session' = "Failed" => recovery' = how
  BY FailRuntimeSafe
<1>2. session' = "Disabled" => mic = "closed" /\ vad # "running"
  BY <1>1 DEF Safe, OffMeansMicOff, Alive, Running
<1>3. session' = "Failed" /\ how = "auto" =>
        session \in {"Listening", "Connecting", "Streaming", "Closing"}
  BY <1>1 DEF Active, States
<1>4. OnlyWhenWanted'
  BY <1>1, <1>2, <1>3 DEF Safe, OnlyWhenWanted, Alive, Running
<1>. QED
  BY <1>1, <1>2, <1>4
     DEF Safe, Legal, OffMeansMicOff, TransportOwned, DeadlineArmed, HeldSpeechOwned, Active, IsClosing

\* A step that leaves alone the state of the session and all that it owns.
LEMMA UntouchedSafe ==
  ASSUME TypeOK, Safe, UNCHANGED <<phase, session, clocks, recovery, mic, vad, stop>>,
         link' # "none" <=> link # "none",
         settings'.listening = settings.listening,
         deferred' # "none" => warmup' = "running",
         delayed' # "none" => link # "none"
  PROVE  Safe' /\ Legal
  BY DEF Safe, Legal, TypeOK, States, Active, Alive, OffMeansMicOff, TransportOwned, DeadlineArmed, HeldSpeechOwned, RecoveryArmed,
     OnlyWhenWanted

\* A handler that has not touched the session yet makes its calls in the state
\* it found.
LEMMA NowReachable ==
  ASSUME TypeOK, Safe, Alive
  PROVE  AtReachable(Now)
  BY DEF TypeOK, Safe, TransportOwned, AtReachable, AtType, Now

\* start_asr.
LEMMA StartAsrSafe ==
  ASSUME TypeOK, Safe, Running, session = "Listening", StartAsr,
         UNCHANGED <<mic, vad, settings>>,
         deferred' # "none" => warmup' = "running"
  PROVE  Safe' /\ Legal
<1>1. session' = "Connecting" /\ link' = "dialing" /\ "connecting" \in clocks'
  BY DEF StartAsr
<1>2. vad # "reported" => settings.listening = "on"
  BY DEF Safe, OnlyWhenWanted, Alive, Running
<1>. QED
  BY <1>1, <1>2
     DEF Safe, Legal, OffMeansMicOff, TransportOwned, DeadlineArmed, HeldSpeechOwned, RecoveryArmed,
         OnlyWhenWanted, Active, IsClosing

\* The warm-up is over: its speech connects, or waits no longer.
LEMMA ResumeDeferredSafe ==
  ASSUME TypeOK, Safe, Running, ResumeDeferred, UNCHANGED <<micVars, settingsVars>>
  PROVE  Safe' /\ Legal
<1>1. deferred' = "none" /\ UNCHANGED <<mic, vad, settings, phase>>
  BY DEF ResumeDeferred, micVars, settingsVars
<1>2. CASE session = "Listening" /\ StartAsr
  BY <1>1, <1>2, StartAsrSafe
<1>3. CASE session = "Listening" /\ StartFails
  BY <1>1, <1>3, FailureSafe DEF StartFails, States
<1>4. CASE UNCHANGED <<sessionVars, asrVars, viewVars, named>>
  BY <1>1, <1>4, UntouchedSafe DEF sessionVars, asrVars, Safe, HeldSpeechOwned
<1>. QED
  BY <1>2, <1>3, <1>4 DEF ResumeDeferred

\* Every step keeps the resources of a session with their owners.
LEMMA SafeStep ==
  ASSUME TypeOK, Safe, [Next]_vars
  PROVE  Safe' /\ Legal
<1>1. ASSUME NEW warned \in BOOLEAN, NEW micOk \in BOOLEAN, Startup(warned, micOk)
      PROVE  Safe' /\ Legal
  <2>. DEFINE at == IF warned
                   THEN [Now EXCEPT !.error = "temporary", !.splash = "none"]
                   ELSE Now
  <2>1. Alive /\ AtReachable(at)
    BY <1>1, NowReachable DEF AtReachable, AtType, Now, Startup, Alive
  <2>2. CASE settings.listening = "on" /\ EnableListening(at, micOk)
    BY <1>1, <2>1, <2>2, EnableListeningSafe DEF Startup, settingsVars
  <2>3. CASE vad' = Suspended /\ UNCHANGED <<sessionVars, mic, gate, asrVars, warmup, deferred, login>>
    <3>1. vad' # "running" /\ (vad' = "reported" <=> vad = "reported")
      BY <2>3 DEF Suspended, Worker
    <3>. QED
      BY <1>1, <2>1, <2>3, <3>1
         DEF Startup, Active, Safe, Legal, Alive, OffMeansMicOff, TransportOwned, DeadlineArmed, HeldSpeechOwned,
             RecoveryArmed, OnlyWhenWanted, sessionVars, asrVars, settingsVars
  <2>. QED
    BY <1>1, <2>2, <2>3 DEF Startup
<1>2. ASSUME NEW micOk \in BOOLEAN, ToggleListening(micOk)
      PROVE  Safe' /\ Legal
  <2>1. Alive /\ AtReachable(Now)
    BY <1>2, NowReachable DEF ToggleListening, Running, Alive
  <2>2. settings'.listening = Flip(settings.listening)
    BY <1>2 DEF ToggleListening, TypeOK, Settings
  <2>. QED
    BY <1>2, <2>1, <2>2, ApplyListeningSettingSafe DEF ToggleListening
<1>3. ASSUME NEW new \in SavedSettings, NEW micOk \in BOOLEAN, UpdateSettingsIdle(new, micOk)
      PROVE  Safe' /\ Legal
  <2>. DEFINE moved == settings.route # new.route
              warm == IF moved THEN WarmupStarted(new) ELSE warmup
              at == [Now EXCEPT !.gate = "idle", !.warmup = warm,
                                !.link = IF moved THEN "none" ELSE link,
                                !.splash = IF warm = warmup THEN splash ELSE "none"]
  <2>1. Alive /\ session \notin Active /\ link = "none" /\ settings' = new
    BY <1>3 DEF UpdateSettingsIdle, Running, Alive, Safe, TransportOwned
  <2>2. warm \in {warmup, "running"}
    BY DEF WarmupStarted
  <2>3. AtReachable(at)
    BY <2>1, <2>2, NowReachable DEF AtReachable, AtType, Now, TypeOK
  <2>4. CASE ApplyListeningSetting(at, new.listening, micOk)
    BY <2>1, <2>3, <2>4, ApplyListeningSettingSafe
  <2>5. CASE /\ ~ListeningChanges(new) /\ warmup' = warm /\ AsrAfter(at)
             /\ UNCHANGED <<session, recovery, mic, vad, deferred>>
    <3>1. at.session = session
      BY DEF Now
    <3>2. TransportOwned' /\ DeadlineArmed' /\ RecoveryArmed' /\ (delayed' # "none" => link' # "none")
      BY <2>1, <2>3, <2>5, <3>1, AsrAfterSafe DEF TypeOK
    <3>3. OffMeansMicOff' /\ HeldSpeechOwned'
      BY <2>1, <2>2, <2>5, <3>2 DEF Safe, OffMeansMicOff, HeldSpeechOwned
    <3>4. OnlyWhenWanted'
      BY <2>1, <2>5 DEF ListeningChanges, ListeningEnabled, Safe, OffMeansMicOff, OnlyWhenWanted, Active
    <3>. QED
      BY <2>1, <2>5, <3>1, <3>2, <3>3, <3>4 DEF Safe, Legal, Active
  <2>. QED
    BY <1>3, <2>4, <2>5 DEF UpdateSettingsIdle
<1>4. ASSUME NEW new \in SavedSettings, NEW micOk \in BOOLEAN, UpdateSettingsRoute(new, micOk)
      PROVE  Safe' /\ Legal
  <2>. DEFINE at == [Now EXCEPT !.session = Apply(session, "Aborted"), !.gate = "idle",
                                !.warmup = WarmupStarted(new), !.link = "none",
                                !.splash = "none"]
  <2>1. Alive /\ settings' = new /\ session \in Active
    BY <1>4 DEF UpdateSettingsRoute, Running, Alive
  <2>2. at.session = (IF session = "Stopping" THEN "Disabled" ELSE "Listening")
    BY <2>1, ApplyTable DEF Now, Active, TypeOK
  <2>3. WarmupStarted(new) \in {warmup, "running"}
    BY DEF WarmupStarted
  <2>4. AtReachable(at)
    BY <2>1, <2>2, <2>3 DEF AtReachable, AtType, Now, TypeOK, Active, States
  <2>5. CASE ApplyListeningSetting(at, new.listening, micOk)
    BY <2>1, <2>4, <2>5, ApplyListeningSettingSafe
  <2>6. CASE /\ ~ListeningChanges(new) /\ session' = at.session /\ warmup' = at.warmup /\ AsrAfter(at)
             /\ UNCHANGED <<recovery, mic, vad, deferred>>
    <3>1. TransportOwned' /\ DeadlineArmed' /\ RecoveryArmed' /\ (delayed' # "none" => link' # "none")
      BY <2>1, <2>2, <2>4, <2>6, AsrAfterSafe DEF States
    <3>2. OffMeansMicOff'
      BY <2>1, <2>2, <2>6 DEF Safe, OffMeansMicOff
    <3>3. HeldSpeechOwned'
      BY <2>3, <2>6, <3>1 DEF Now, Safe, HeldSpeechOwned
    <3>4. OnlyWhenWanted'
      BY <2>1, <2>2, <2>6, <3>2
         DEF ListeningChanges, ListeningEnabled, OffMeansMicOff, OnlyWhenWanted, Active
    <3>. QED
      BY <2>1, <2>2, <2>6, <3>1, <3>2, <3>3, <3>4 DEF Safe, Legal, Active
  <2>. QED
    BY <1>4, <2>5, <2>6 DEF UpdateSettingsRoute
<1>5. ASSUME NEW new \in SavedSettings, NEW micOk \in BOOLEAN, UpdateSettingsDeferred(new, micOk)
      PROVE  Safe' /\ Legal
  <2>1. Alive /\ AtReachable(Now) /\ session \in Active
    BY <1>5, NowReachable DEF UpdateSettingsDeferred, Running, Alive
  <2>2. settings'.listening = new.listening
    BY <1>5 DEF UpdateSettingsDeferred, TypeOK, Settings
  <2>3. CASE ApplyListeningSetting(Now, new.listening, micOk)
    BY <2>1, <2>2, <2>3, ApplyListeningSettingSafe
  <2>4. CASE /\ ~ListeningChanges(new)
             /\ UNCHANGED <<sessionVars, micVars, asrVars, warmup, deferred, viewVars, login>>
    <3>1. OnlyWhenWanted'
      BY <2>1, <2>2, <2>4
         DEF ListeningChanges, ListeningEnabled, Safe, OffMeansMicOff, OnlyWhenWanted, Active, Alive,
             sessionVars, micVars
    <3>. QED
      BY <1>5, <2>4, <3>1
         DEF UpdateSettingsDeferred, Otherwise, Safe, Legal, Alive, OffMeansMicOff, TransportOwned, DeadlineArmed,
             HeldSpeechOwned, RecoveryArmed, sessionVars, micVars, asrVars
  <2>. QED
    BY <1>5, <2>3, <2>4 DEF UpdateSettingsDeferred
<1>6. ASSUME NEW new \in SavedSettings, SwitchMicrophoneFails(new)
      PROVE  Safe' /\ Legal
  <2>1. Running /\ session \in Active \ {"Stopping"} /\ mic' = "closed"
    BY <1>6 DEF SwitchMicrophoneFails, Running, Alive, Safe, OffMeansMicOff
  <2>2. CASE FailRuntime(session, "off") /\ UNCHANGED <<vad, warmup, deferred>>
    <3>1. session' = "Failed" /\ link' = "none" /\ delayed' = "none" /\ recovery' = "off" /\ RecoveryArmed'
      BY <2>1, <2>2, FailRuntimeSafe DEF TypeOK
    <3>. QED
      BY <2>1, <2>2, <3>1
         DEF Safe, Legal, OffMeansMicOff, TransportOwned, DeadlineArmed, HeldSpeechOwned, OnlyWhenWanted, Active, IsClosing
  <2>3. CASE session' = "Disabled" /\ vad' = Suspended /\ deferred' = "none" /\ CleanupAsr
    BY <2>1, <2>3
       DEF Safe, Legal, OffMeansMicOff, TransportOwned, DeadlineArmed, HeldSpeechOwned, RecoveryArmed, OnlyWhenWanted,
           Active, IsClosing, Suspended, Worker, CleanupAsr
  <2>. QED
    BY <1>6, <2>2, <2>3 DEF SwitchMicrophoneFails
<1>7. CASE StartLogin
  <2>1. Alive /\ AtReachable(Now) /\ AtReachable(Now)
    BY <1>7, NowReachable DEF StartLogin, Running, Alive
  <2>2. session' = session /\ warmup' = warmup /\ AsrAfter(Now) /\ UNCHANGED <<recovery, mic, vad, deferred>>
    BY <1>7 DEF StartLogin, BeginLogin, Now
  <2>3. TransportOwned' /\ DeadlineArmed' /\ RecoveryArmed' /\ (delayed' # "none" => link' # "none")
    BY <2>1, <2>2, AsrAfterSafe DEF Now, TypeOK
  <2>. QED
    BY <1>7, <2>1, <2>2, <2>3
       DEF StartLogin, Otherwise, settingsVars, Safe, Legal, Alive, Active, OffMeansMicOff, HeldSpeechOwned, OnlyWhenWanted
<1>8. ASSUME NEW micOk \in BOOLEAN, LoginSucceeds(micOk)
      PROVE  Safe' /\ Legal
  <2>. DEFINE at == [Now EXCEPT !.login = "none", !.error = "none", !.splash = "none"]
  <2>1. Alive /\ AtReachable(at)
    BY <1>8, NowReachable DEF AtReachable, AtType, Now, LoginSucceeds, Running, Alive
  <2>2. CASE settings.listening = "on" /\ EnableListening(at, micOk)
    BY <1>8, <2>1, <2>2, EnableListeningSafe DEF LoginSucceeds, settingsVars
  <2>3. CASE UNCHANGED <<sessionVars, micVars, asrVars, warmup, deferred>>
    BY <1>8, <2>3, UntouchedSafe
       DEF LoginSucceeds, Otherwise, settingsVars, sessionVars, micVars, asrVars, Safe, HeldSpeechOwned
  <2>. QED
    BY <1>8, <2>2, <2>3 DEF LoginSucceeds
<1>9. CASE LoginFails
  BY <1>9, UntouchedSafe DEF LoginFails, Safe, HeldSpeechOwned, sessionVars, micVars, asrVars,
     warmVars, settingsVars, outsideVars
<1>10. ASSUME NEW now \in ReadinessSeen, Logout(now)
      PROVE  Safe' /\ Legal
  <2>1. Alive /\ AtReachable(Now)
    BY <1>10, NowReachable DEF Logout, Running, Alive
  <2>2. CASE DisableListening(Now, "none")
    BY <2>1, <2>2, DisableListeningSafe
  <2>3. CASE session' = "Disabled" /\ CleanupAsr /\ mic' = "closed" /\ vad' = Suspended /\ deferred' = "none"
    BY <2>3
       DEF Safe, Legal, OffMeansMicOff, TransportOwned, DeadlineArmed, HeldSpeechOwned, RecoveryArmed, OnlyWhenWanted,
           Active, IsClosing, Suspended, Worker, CleanupAsr
  <2>. QED
    BY <1>10, <2>2, <2>3 DEF Logout
<1>11. CASE LogoutFails
  BY <1>11, UntouchedSafe DEF LogoutFails, Safe, HeldSpeechOwned, sessionVars, micVars, asrVars,
     warmVars, settingsVars, outsideVars
<1>12. CASE RefreshVoiceEnrollment
  BY <1>12, UntouchedSafe DEF RefreshVoiceEnrollment, Safe, HeldSpeechOwned, sessionVars, micVars, asrVars,
     warmVars, settingsVars, outsideVars
<1>13. CASE Shutdown
  BY <1>13, ApplyTable
     DEF Shutdown, CleanupAsr, Active, Safe, Legal, Alive, OffMeansMicOff, TransportOwned, DeadlineArmed, HeldSpeechOwned,
         RecoveryArmed, OnlyWhenWanted, TypeOK, States
<1>14. CASE SpeechDeferred
  BY <1>14, UntouchedSafe DEF SpeechDeferred, Safe, HeldSpeechOwned, sessionVars, asrVars,
     settingsVars, outsideVars
<1>15. CASE SpeechConnects
  <2>1. Running /\ session = "Listening" /\ UNCHANGED <<phase, mic, vad, warmup, deferred, settings>>
    BY <1>15 DEF SpeechConnects, FramesArrive, warmVars, settingsVars
  <2>2. CASE StartAsr /\ UNCHANGED delayed
    BY <2>1, <2>2, StartAsrSafe DEF Safe, TransportOwned, HeldSpeechOwned, Alive, Running, Active
  <2>3. CASE StartFails
    BY <2>1, <2>3, FailureSafe DEF StartFails, States, Safe, HeldSpeechOwned, Active
  <2>4. CASE FailRuntime("Listening", "off")
    BY <2>1, <2>4, FailureSafe DEF States, Safe, HeldSpeechOwned
  <2>. QED
    BY <1>15, <2>2, <2>3, <2>4 DEF SpeechConnects
<1>16. CASE SpeechContinues
  <2>1. Running /\ UNCHANGED <<phase, mic, vad, warmup, deferred, settings>>
    BY <1>16 DEF SpeechContinues, FramesArrive, warmVars, settingsVars, outsideVars
  <2>2. CASE UNCHANGED <<sessionVars, asrVars, viewVars>>
    BY <2>1, <2>2, UntouchedSafe DEF sessionVars, asrVars, Safe, HeldSpeechOwned
  <2>3. CASE session \in {"Connecting", "Streaming"} /\ FailRuntime(session, "auto")
    BY <2>1, <2>3, FailureSafe DEF States, Safe, HeldSpeechOwned, Active
  <2>. QED
    BY <1>16, <2>2, <2>3 DEF SpeechContinues
<1>17. CASE AudioSendFails
  <2>1. Running /\ session = "Streaming" /\ UNCHANGED <<phase, mic, vad, warmup, deferred, settings>>
    BY <1>17 DEF AudioSendFails, FramesArrive, micVars, warmVars, settingsVars, outsideVars
  <2>. QED
    BY <1>17, <2>1, FailureSafe DEF AudioSendFails, States, Safe, HeldSpeechOwned, Active
<1>18. CASE SpeechEnded
  <2>1. /\ Running /\ UNCHANGED <<phase, mic, vad, warmup, settings>>
        /\ deferred' # "none" => warmup' = "running"
    BY <1>18 DEF SpeechEnded, FramesArrive, settingsVars, outsideVars, EndSeen, Safe, HeldSpeechOwned
  <2>2. CASE delayed' = EndSeen(delayed) /\ UNCHANGED <<sessionVars, link, inbox, stop, viewVars>>
    BY <2>1, <2>2, UntouchedSafe DEF sessionVars, EndSeen, Safe, HeldSpeechOwned
  <2>3. CASE session \in {"Connecting", "Streaming"} /\ FailRuntime(session, "auto")
    BY <2>1, <2>3, FailureSafe DEF States, Active
  <2>. QED
    BY <1>18, <2>2, <2>3 DEF SpeechEnded
<1>19. CASE VadWorkerDies
  BY <1>19
     DEF VadWorkerDies, Active, Safe, Legal, Alive, OffMeansMicOff, TransportOwned, DeadlineArmed, HeldSpeechOwned,
         RecoveryArmed, OnlyWhenWanted, sessionVars, asrVars, warmVars, settingsVars, outsideVars
<1>20. CASE VadFailureSeen
  <2>1. /\ session' = (IF session = "Stopping" THEN "Disabled" ELSE "Failed")
        /\ link' = "none" /\ delayed' = "none" /\ RecoveryArmed'
    BY <1>20, FailRuntimeSafe DEF VadFailureSeen, TypeOK
  <2>. QED
    BY <1>20, <2>1
       DEF VadFailureSeen, Safe, Legal, OffMeansMicOff, TransportOwned, DeadlineArmed, HeldSpeechOwned,
           OnlyWhenWanted, Active, IsClosing, warmVars
<1>21. CASE LinkConnects
  BY <1>21, UntouchedSafe DEF LinkConnects, LinkReports, Safe, HeldSpeechOwned, sessionVars, micVars,
     warmVars, settingsVars, outsideVars
<1>22. CASE LinkFailsToConnect
  BY <1>22, UntouchedSafe DEF LinkFailsToConnect, LinkReports, Safe, HeldSpeechOwned, sessionVars, micVars,
     warmVars, settingsVars, outsideVars
<1>23. CASE LinkAnswers
  BY <1>23, UntouchedSafe DEF LinkAnswers, LinkReports, Safe, HeldSpeechOwned, sessionVars, micVars,
     warmVars, settingsVars, outsideVars
<1>24. CASE LinkEnds
  BY <1>24, UntouchedSafe DEF LinkEnds, LinkReports, Safe, HeldSpeechOwned, sessionVars, micVars,
     warmVars, settingsVars, outsideVars
<1>25. CASE LinkReturns
  BY <1>25, UntouchedSafe DEF LinkReturns, LinkReports, Safe, HeldSpeechOwned, sessionVars, micVars,
     warmVars, settingsVars, outsideVars
<1>26. CASE ConnectedIgnored
  BY <1>26, UntouchedSafe DEF ConnectedIgnored, KeepsConnection, Safe, HeldSpeechOwned, micVars, settingsVars
<1>27. CASE ConnectedArrives
  <2>1. Running /\ session = "Connecting" /\ UNCHANGED <<phase, mic, vad, warmup, deferred, settings>>
    BY <1>27 DEF ConnectedArrives, Takes, micVars, settingsVars
  <2>2. CASE FailRuntime("Streaming", "auto")
    BY <2>1, <2>2, FailureSafe DEF States, Safe, HeldSpeechOwned, Active
  <2>3. CASE session' = "Streaming" /\ UNCHANGED link
    BY <2>1, <2>3
       DEF Safe, Legal, Alive, OffMeansMicOff, TransportOwned, DeadlineArmed, HeldSpeechOwned, RecoveryArmed,
           OnlyWhenWanted, Active, Running, IsClosing
  <2>. QED
    BY <1>27, <2>2, <2>3 DEF ConnectedArrives
<1>28. CASE TextArrives
  BY <1>28, UntouchedSafe DEF TextArrives, KeepsConnection, Safe, HeldSpeechOwned, micVars, settingsVars
<1>29. CASE BackendRefused
  <2>1. /\ Running /\ session \in Active /\ FailRuntime(session, "off")
        /\ UNCHANGED <<phase, mic, vad, warmup, deferred, settings>>
    BY <1>29 DEF BackendRefused, Takes, Safe, TransportOwned, Alive, Running, micVars, settingsVars, outsideVars
  <2>. QED
    BY <2>1, FailureSafe DEF TypeOK, Safe, HeldSpeechOwned, Active
<1>30. CASE BackendArrives
  BY <1>30, UntouchedSafe DEF BackendArrives, KeepsConnection, Safe, HeldSpeechOwned, micVars, settingsVars
<1>31. CASE OtherArrives
  BY <1>31, UntouchedSafe DEF OtherArrives, KeepsConnection, Safe, HeldSpeechOwned, micVars, settingsVars
<1>32. CASE EndpointArrives
  <2>1. /\ Running /\ session \in Active /\ UNCHANGED <<phase, recovery, mic, vad, link, warmup, deferred, settings>>
    BY <1>32 DEF EndpointArrives, Takes, KeepsConnection, Safe, TransportOwned, Alive, Running, micVars, settingsVars
  <2>2. link # "none"
    BY <1>32 DEF EndpointArrives, Takes
  <2>3. CASE session = "Streaming" /\ AskToFinish
    BY <2>1, <2>2, <2>3
       DEF AskToFinish, Safe, Legal, Alive, OffMeansMicOff, TransportOwned, DeadlineArmed, HeldSpeechOwned,
           RecoveryArmed, OnlyWhenWanted, Active, Running, IsClosing
  <2>4. CASE UNCHANGED <<session, stop, clocks>>
    BY <2>1, <2>2, <2>4, UntouchedSafe DEF Safe, HeldSpeechOwned
  <2>. QED
    BY <1>32, <2>3, <2>4 DEF EndpointArrives, ClosesDelayed
<1>33. CASE NoticeArrives
  <2>1. /\ Running /\ session \in Active /\ UNCHANGED <<phase, recovery, mic, vad, link, warmup, deferred, settings>>
    BY <1>33 DEF NoticeArrives, Takes, KeepsConnection, Safe, TransportOwned, Alive, Running, micVars, settingsVars
  <2>2. link # "none"
    BY <1>33 DEF NoticeArrives, Takes
  <2>3. CASE session = "Streaming" /\ AskToFinish
    BY <2>1, <2>2, <2>3
       DEF AskToFinish, Safe, Legal, Alive, OffMeansMicOff, TransportOwned, DeadlineArmed, HeldSpeechOwned,
           RecoveryArmed, OnlyWhenWanted, Active, Running, IsClosing
  <2>4. CASE UNCHANGED <<session, stop, clocks>>
    BY <2>1, <2>2, <2>4, UntouchedSafe DEF Safe, HeldSpeechOwned
  <2>. QED
    BY <1>33, <2>3, <2>4 DEF NoticeArrives, ClosesDelayed
<1>34. ASSUME NEW micOk \in BOOLEAN, FinishedArrives(micOk)
      PROVE  Safe' /\ Legal
  <2>1. Running /\ session \in Active
    BY <1>34 DEF FinishedArrives, Takes, Safe, TransportOwned, Alive, Running
  <2>2. CASE /\ IsClosing(session)
             /\ \E shown \in {error, "none", "temporary"} :
                  EndSession(Apply(session, "Finished"), NoConnectionClock, recovery, shown, micOk)
    <3>1. /\ Apply(session, "Finished") = (IF session = "Closing" THEN "Listening" ELSE "Disabled")
          /\ session \in {"Closing", "Stopping"} /\ recovery \in {"off", "auto"}
      BY <2>2, ApplyTable DEF TypeOK, IsClosing
    <3>. QED
      BY <2>1, <2>2, <3>1, EndSessionSafe
  <2>3. CASE /\ ~IsClosing(session) /\ stop' = "sent"
             /\ KeepsConnection /\ UNCHANGED <<session, clocks, delayed>>
    BY <2>1, <2>3
       DEF KeepsConnection, micVars, settingsVars, Safe, Legal, Alive, OffMeansMicOff, TransportOwned, DeadlineArmed,
           HeldSpeechOwned, RecoveryArmed, OnlyWhenWanted
  <2>. QED
    BY <1>34, <2>2, <2>3 DEF FinishedArrives
<1>35. ASSUME NEW micOk \in BOOLEAN, LinkShutDown(micOk)
      PROVE  Safe' /\ Legal
  <2>. DEFINE target == IF Accepts(session, "Finished") THEN Apply(session, "Finished")
                       ELSE Apply(session, "Aborted")
  <2>1. Running /\ session \in Active
    BY <1>35 DEF LinkShutDown, Takes, LinkSilent, Safe, TransportOwned, Alive, Running
  <2>2. target = (IF session = "Stopping" THEN "Disabled" ELSE "Listening") /\ recovery \in {"off", "auto"}
    BY <2>1, ApplyTable DEF TypeOK, Active
  <2>3. EndSession(target, NoConnectionClock, recovery, "none", micOk)
    BY <1>35 DEF LinkShutDown
  <2>. HIDE DEF target
  <2>. QED
    BY <2>1, <2>2, <2>3, EndSessionSafe DEF Active
<1>36. ASSUME NEW micOk \in BOOLEAN, LinkAborted(micOk)
      PROVE  Safe' /\ Legal
  <2>1. Running /\ session \in Active
    BY <1>36 DEF LinkAborted, Takes, Safe, TransportOwned, Alive, Running
  <2>2. /\ Apply(session, "Aborted") = (IF session = "Stopping" THEN "Disabled" ELSE "Listening")
        /\ recovery \in {"off", "auto"}
    BY <2>1, ApplyTable DEF TypeOK, Active
  <2>. QED
    BY <1>36, <2>1, <2>2, EndSessionSafe DEF LinkAborted, Active
<1>37. CASE LinkFailed
  <2>1. /\ Running /\ session \in Active /\ FailRuntime(session, "auto")
        /\ UNCHANGED <<mic, vad, warmup, deferred, settings>>
    BY <1>37 DEF LinkFailed, Takes, LinkSilent, Safe, TransportOwned, Alive, Running, micVars, warmVars, settingsVars
  <2>. QED
    BY <2>1, FailureSafe DEF TypeOK, Safe, HeldSpeechOwned, Active
<1>38. CASE ControlLost
  <2>1. Alive /\ AtReachable(Now)
    BY <1>38, NowReachable DEF ControlLost, Running, Alive
  <2>. QED
    BY <1>38, <2>1, DisableListeningSafe DEF ControlLost
<1>39. CASE WarmupReady
  BY <1>39, ResumeDeferredSafe DEF WarmupReady
<1>40. CASE WarmupRetryable
  BY <1>40, ResumeDeferredSafe DEF WarmupRetryable
<1>41. CASE WarmupNeedsUser
  <2>1. Running /\ UNCHANGED <<mic, vad, settings>> /\ deferred' = "none" /\ FailRuntime(session, "off")
    BY <1>41 DEF WarmupNeedsUser, micVars, settingsVars
  <2>. QED
    BY <2>1, FailureSafe DEF TypeOK
<1>42. ASSUME NEW micOk \in BOOLEAN, SessionTimeout(micOk)
      PROVE  Safe' /\ Legal
  <2>1. /\ Running /\ session \in {"Connecting", "Closing", "Stopping"}
        /\ EndSession(Apply(session, "Timeout"), NoConnectionClock, recovery, "none", micOk)
    BY <1>42 DEF SessionTimeout, IsClosing
  <2>2. /\ Apply(session, "Timeout") = (IF session = "Stopping" THEN "Disabled" ELSE "Listening")
        /\ recovery \in {"off", "auto"}
    BY <2>1, ApplyTable DEF TypeOK
  <2>. QED
    BY <2>1, <2>2, EndSessionSafe
<1>43. ASSUME NEW micOk \in BOOLEAN, FailedRecovery(micOk)
      PROVE  Safe' /\ Legal
  <2>1. /\ Running /\ recovery = "auto" /\ session = "Failed"
        /\ EndSession("Listening", NoConnectionClock \ {"failed"}, "off", "none", micOk)
    BY <1>43, ApplyTable DEF FailedRecovery, TypeOK
  <2>. QED
    BY <2>1, EndSessionSafe
<1>44. CASE IdleClose
  <2>1. Running /\ session = "Streaming" /\ UNCHANGED <<phase, mic, vad, warmup, deferred, settings>>
    BY <1>44 DEF IdleClose, micVars, warmVars, settingsVars, outsideVars
  <2>2. CASE FailRuntime(session, "auto")
    BY <2>1, <2>2, FailureSafe DEF States, Safe, HeldSpeechOwned, Active
  <2>3. CASE AskToFinish /\ UNCHANGED <<recovery, link, inbox, delayed>>
    BY <2>1, <2>3
       DEF AskToFinish, Safe, Legal, Alive, OffMeansMicOff, TransportOwned, DeadlineArmed, HeldSpeechOwned,
           RecoveryArmed, OnlyWhenWanted, Active, Running, IsClosing
  <2>. QED
    BY <1>44, <2>2, <2>3 DEF IdleClose
<1>45. CASE SplashTimeout
  <2>1. Alive /\ AtReachable(Now)
    BY <1>45, NowReachable DEF SplashTimeout, Running, Alive
  <2>2. CASE RequireConnection(Now)
    BY <2>1, <2>2, RequireConnectionSafe
  <2>3. CASE UNCHANGED <<sessionVars, micVars, asrVars, warmup, deferred, error, login>>
    BY <1>45, <2>3, UntouchedSafe
       DEF SplashTimeout, sessionVars, micVars, asrVars, settingsVars, Safe, HeldSpeechOwned
  <2>. QED
    BY <1>45, <2>2, <2>3 DEF SplashTimeout
<1>46. CASE ErrorExpires
  BY <1>46, UntouchedSafe DEF ErrorExpires, Safe, HeldSpeechOwned, sessionVars, micVars, asrVars,
     warmVars, settingsVars, outsideVars
<1>47. CASE RetryHoldExpires
  BY <1>47, UntouchedSafe DEF RetryHoldExpires, Safe, HeldSpeechOwned, sessionVars, micVars, asrVars,
     warmVars, settingsVars, outsideVars
<1>48. CASE AnswerAges
  BY <1>48, UntouchedSafe DEF AnswerAges, Safe, HeldSpeechOwned, sessionVars, micVars, asrVars,
     warmVars, settingsVars, outsideVars
<1>49. CASE ReadinessChanges
  BY <1>49, UntouchedSafe DEF ReadinessChanges, Safe, HeldSpeechOwned, sessionVars, micVars, asrVars,
     warmVars, settingsVars, outsideVars
<1>50. CASE UNCHANGED vars
  BY <1>50, UntouchedSafe DEF vars, Safe, HeldSpeechOwned, sessionVars, micVars, asrVars,
     warmVars, settingsVars, outsideVars
<1>. QED
  BY <1>1, <1>2, <1>3, <1>4, <1>5, <1>6, <1>7, <1>8, <1>9, <1>10, <1>11, <1>12,
     <1>13, <1>14, <1>15, <1>16, <1>17, <1>18, <1>19, <1>20, <1>21, <1>22, <1>23,
     <1>24, <1>25, <1>26, <1>27, <1>28, <1>29, <1>30, <1>31, <1>32, <1>33, <1>34,
     <1>35, <1>36, <1>37, <1>38, <1>39, <1>40, <1>41, <1>42, <1>43, <1>44, <1>45,
     <1>46, <1>47, <1>48, <1>49, <1>50 DEF Next, UserStep, SpeechStep, LinkStep,
     DrainStep, WarmupStep, TimerStep

\* The initial state is safe: everything is off.
LEMMA SafeInit == Init => Safe
  BY DEF Init, Safe, Legal, OffMeansMicOff, TransportOwned, DeadlineArmed, HeldSpeechOwned, RecoveryArmed,
     OnlyWhenWanted, Active, IsClosing

\* In every reachable state, for all routes, settings and kinds of providers:
\* each resource of a voice session has its owner, each wait its clock.
THEOREM SafeCorrect == Spec => []Safe
<1>1. TypeOK /\ Safe /\ [Next]_vars => Safe'
  BY SafeStep
<1>. QED
  BY <1>1, SafeInit, TypeCorrect, PTL DEF Spec

\* Switched off means the microphone is released and the VAD worker paused.
THEOREM OffMeansMicOffHolds == Spec => []OffMeansMicOff
<1>1. Safe => OffMeansMicOff
  BY DEF Safe
<1>. QED
  BY <1>1, SafeCorrect, PTL

\* A transport exists exactly while the session has a use for it.
THEOREM TransportOwnedHolds == Spec => []TransportOwned
<1>1. Safe => TransportOwned
  BY DEF Safe
<1>. QED
  BY <1>1, SafeCorrect, PTL

\* No session waits for a server without a deadline.
THEOREM DeadlineArmedHolds == Spec => []DeadlineArmed
<1>1. Safe => DeadlineArmed
  BY DEF Safe
<1>. QED
  BY <1>1, SafeCorrect, PTL

\* A failed session has the clock that its recovery, or its end, waits for.
THEOREM RecoveryArmedHolds == Spec => []RecoveryArmed
<1>1. Safe => RecoveryArmed
  BY DEF Safe
<1>. QED
  BY <1>1, SafeCorrect, PTL

\* Speech that is held back has something that will release it.
THEOREM HeldSpeechOwnedHolds == Spec => []HeldSpeechOwned
<1>1. Safe => HeldSpeechOwned
  BY DEF Safe
<1>. QED
  BY <1>1, SafeCorrect, PTL

\* The microphone is open only while the settings ask for it, as long as the
\* VAD worker works.
THEOREM OnlyWhenWantedHolds == Spec => []OnlyWhenWanted
<1>1. Safe => OnlyWhenWanted
  BY DEF Safe
<1>. QED
  BY <1>1, SafeCorrect, PTL
-------------------------------------------------------------------------------
(***************************************************************************)
(* The promise of VoiceSession.  By Safe, the line is held exactly in the  *)
(* states with a transport and the microphone is closed when the session   *)
(* is off; by SafeStep, every handler moves the session and the microphone *)
(* in a legal way.                                                         *)
(***************************************************************************)
\* After its end the controller holds neither microphone nor transport.
Released == phase = "stopped" => mic = "closed" /\ link = "none"

\* A legal move of the session is one step of the promised session, or none.
LEMMA LegalKeepsPromise ==
  ASSUME TypeOK, Safe, TypeOK', Safe', Released', Legal, phase # "stopped"
  PROVE  [Promise!Next]_(Promise!vars)
<1>1. Line = (IF session \in Active THEN "held" ELSE "free")
  BY DEF Line, Safe, TransportOwned, Alive
<1>2. CASE phase' = "stopped"
  <2>1. Stage' = "off" /\ Line' = "free" /\ mic' = "closed"
    BY <1>2 DEF Stage, Line, Released
  <2>2. CASE session = "Disabled"
    <3>1. mic = "closed" /\ Stage = "off" /\ Line = "free"
      BY <1>1, <2>2 DEF Safe, OffMeansMicOff, Alive, Stage, Active
    <3>. QED
      BY <2>1, <3>1 DEF Promise!vars
  <2>3. CASE session \in {"Listening", "Failed"}
    <3>1. Stage \in {"armed", "failed"} /\ Line = "free"
      BY <1>1, <2>3 DEF Stage, Active
    <3>. QED
      BY <2>1, <3>1 DEF Promise!Next, Promise!Disarm
  <2>4. CASE session \in Active
    BY <1>1, <2>1, <2>4 DEF Promise!Next, Promise!HangUp
  <2>. QED
    BY <2>2, <2>3, <2>4 DEF TypeOK, States, Active
<1>3. CASE phase' # "stopped"
  <2>1. Line' = (IF session' \in Active THEN "held" ELSE "free")
    BY <1>3 DEF Line, Safe, TransportOwned, Alive
  <2>2. mic \in {"closed", "open"} /\ mic' \in {"closed", "open"} /\ session \in States
    BY DEF TypeOK
  <2>3. CASE session' = "Disabled"
    <3>1. Stage' = "off" /\ Line' = "free" /\ mic' = "closed"
      BY <1>3, <2>1, <2>3 DEF Stage, Active, Safe, OffMeansMicOff, Alive
    <3>2. CASE session = "Disabled"
      <4>1. mic = "closed" /\ Stage = "off" /\ Line = "free"
        BY <1>1, <3>2 DEF Safe, OffMeansMicOff, Alive, Stage, Active
      <4>. QED
        BY <3>1, <4>1 DEF Promise!vars
    <3>3. CASE session \in {"Listening", "Failed"}
      <4>1. Stage \in {"armed", "failed"} /\ Line = "free"
        BY <1>1, <3>3 DEF Stage, Active
      <4>. QED
        BY <3>1, <4>1 DEF Promise!Next, Promise!Disarm
    <3>4. CASE session \in Active
      BY <1>1, <3>1, <3>4 DEF Promise!Next, Promise!HangUp
    <3>. QED
      BY <2>2, <3>2, <3>3, <3>4 DEF States, Active
  <2>4. CASE session' = "Stopping"
    <3>1. Stage' = "stopping" /\ Line' = "held" /\ Line = "held" /\ mic' = "closed" /\ session \in Active
      BY <1>1, <1>3, <2>1, <2>4 DEF Legal, Stage, Active, Safe, OffMeansMicOff, Alive
    <3>2. CASE session = "Stopping"
      <4>1. mic = "closed" /\ Stage = "stopping"
        BY <3>2 DEF Safe, OffMeansMicOff, Alive, Stage
      <4>. QED
        BY <3>1, <4>1 DEF Promise!vars
    <3>3. CASE session # "Stopping"
      <4>1. Stage \in {"call", "ending"}
        BY <3>1, <3>3 DEF Stage, Active
      <4>. QED
        BY <3>1, <4>1 DEF Promise!Next, Promise!StopCall
    <3>. QED
      BY <3>2, <3>3
  <2>5. CASE session' = "Closing"
    <3>1. Stage' = "ending" /\ Line' = "held" /\ Line = "held" /\ mic' = mic
          /\ Stage \in {"call", "ending", "stopping"}
      BY <1>1, <1>3, <2>1, <2>5 DEF Legal, Stage, Active
    <3>. QED
      BY <3>1 DEF Promise!Next, Promise!Finish, Promise!KeepListening, Promise!vars
  <2>6. CASE session' \in {"Connecting", "Streaming"}
    <3>1. Stage' = "call" /\ Line' = "held" /\ mic' = mic
          /\ \/ Stage = "armed" /\ session = "Listening"
             \/ Stage = "call" /\ Line = "held"
      BY <1>1, <1>3, <2>1, <2>6 DEF Legal, Stage, Active
    <3>. QED
      BY <3>1 DEF Promise!Next, Promise!Call, Promise!vars
  <2>7. CASE session' = "Listening"
    <3>1. Stage' = "armed" /\ Line' = "free" /\ mic' \in {mic, "open"}
      BY <1>3, <2>1, <2>7 DEF Legal, Stage, Active
    <3>2. CASE session \in {"Disabled", "Failed"}
      <4>1. Stage \in {"off", "failed"} /\ Line = "free" /\ mic' = "open"
        BY <1>1, <2>7, <3>2 DEF Legal, Stage, Active
      <4>. QED
        BY <3>1, <4>1 DEF Promise!Next, Promise!Arm
    <3>3. CASE session = "Listening"
      <4>1. Stage = "armed" /\ Line = "free"
        BY <1>1, <3>3 DEF Stage, Active
      <4>2. mic' = mic
        BY <2>7, <3>3 DEF Legal
      <4>. QED
        BY <3>1, <4>1, <4>2 DEF Promise!vars
    <3>4. CASE session \in Active
      <4>1. Line = "held" /\ (Stage = "stopping" => mic' = "open")
        BY <1>1, <2>7, <3>4 DEF Legal, Stage, Active
      <4>. QED
        BY <3>1, <4>1 DEF Promise!Next, Promise!HangUp
    <3>. QED
      BY <2>2, <3>2, <3>3, <3>4 DEF States, Active
  <2>8. CASE session' = "Failed"
    <3>1. Stage' = "failed" /\ Line' = "free" /\ mic' \in {mic, "closed"}
      BY <1>3, <2>1, <2>8 DEF Legal, Stage, Active
    <3>2. CASE session \in Active
      BY <1>1, <3>1, <3>2 DEF Promise!Next, Promise!HangUp
    <3>3. CASE session \notin Active
      <4>1. Stage \in {"off", "armed", "failed"} /\ Line = "free"
        BY <1>1, <2>2, <3>3 DEF Stage, States, Active
      <4>. QED
        BY <3>1, <4>1 DEF Promise!Next, Promise!Break
    <3>. QED
      BY <3>2, <3>3
  <2>. QED
    BY <2>3, <2>4, <2>5, <2>6, <2>7, <2>8 DEF TypeOK, States
<1>. QED
  BY <1>2, <1>3

\* What the steps of the controller need to be running, and a thread needs a
\* transport to report to: nothing is opened after the end.
LEMMA ReleasedStep ==
  ASSUME Released, [Next]_vars
  PROVE  Released' /\ (phase = "stopped" => phase' = "stopped")
<1>1. CASE phase = "stopped"
  <2>1. mic = "closed" /\ link = "none"
    BY <1>1 DEF Released
  <2>2. ~UserStep
    BY <1>1 DEF UserStep, Running, ToggleListening, LoginSucceeds, UpdateSettingsIdle,
       UpdateSettingsRoute, UpdateSettingsDeferred, SwitchMicrophoneFails, Logout, StartLogin,
       LoginFails, LogoutFails, RefreshVoiceEnrollment, Shutdown
  <2>3. CASE SpeechStep
    BY <1>1, <2>1, <2>3
       DEF SpeechStep, Running, FramesArrive, SpeechDeferred, SpeechConnects, SpeechContinues,
           AudioSendFails, SpeechEnded, VadWorkerDies, VadFailureSeen, Released, asrVars, outsideVars
  <2>4. ~LinkStep
    BY <2>1 DEF LinkStep, LinkConnects, LinkFailsToConnect, LinkAnswers, LinkEnds, LinkReturns
  <2>5. ~DrainStep
    BY <1>1
       DEF DrainStep, Running, Takes, LinkSilent, ConnectedIgnored, ConnectedArrives, TextArrives,
           BackendRefused, BackendArrives, OtherArrives, EndpointArrives, NoticeArrives,
           FinishedArrives, LinkShutDown, LinkAborted, LinkFailed, ControlLost
  <2>6. ~WarmupStep
    BY <1>1 DEF WarmupStep, Running, WarmupReady, WarmupRetryable, WarmupNeedsUser
  <2>7. ~TimerStep
    BY <1>1 DEF TimerStep, Running, SessionTimeout, FailedRecovery, IdleClose, SplashTimeout,
       ErrorExpires, RetryHoldExpires, AnswerAges, ReadinessChanges
  <2>8. ~(\E warned, micOk \in BOOLEAN : Startup(warned, micOk))
    BY <1>1 DEF Startup
  <2>9. CASE UNCHANGED vars
    BY <2>1, <2>9 DEF vars, micVars, asrVars, outsideVars, Released
  <2>. QED
    BY <2>2, <2>3, <2>4, <2>5, <2>6, <2>7, <2>8, <2>9 DEF Next
<1>2. CASE phase # "stopped" /\ phase' = "stopped"
  <2>1. UserStep => Shutdown
    <3>1. \A micOk \in BOOLEAN : ToggleListening(micOk) \/ LoginSucceeds(micOk) => phase' = phase
      BY DEF ToggleListening, LoginSucceeds, Otherwise
    <3>2. \A new \in SavedSettings, micOk \in BOOLEAN :
            UpdateSettingsIdle(new, micOk) \/ UpdateSettingsRoute(new, micOk)
              \/ UpdateSettingsDeferred(new, micOk) => phase' = phase
      BY DEF UpdateSettingsIdle, UpdateSettingsRoute, UpdateSettingsDeferred, Otherwise
    <3>3. \A new \in SavedSettings : SwitchMicrophoneFails(new) => phase' = phase
      BY DEF SwitchMicrophoneFails, Otherwise
    <3>4. \A now \in ReadinessSeen : Logout(now) => phase' = phase
      BY DEF Logout
    <3>5. StartLogin \/ LoginFails \/ LogoutFails \/ RefreshVoiceEnrollment => phase' = phase
      BY DEF StartLogin, LoginFails, LogoutFails, RefreshVoiceEnrollment, Otherwise, outsideVars
    <3>. QED
      BY <1>2, <3>1, <3>2, <3>3, <3>4, <3>5 DEF UserStep
  <2>2. ~SpeechStep
    BY <1>2
       DEF SpeechStep, SpeechDeferred, SpeechConnects, SpeechContinues, AudioSendFails, SpeechEnded,
           VadWorkerDies, VadFailureSeen, outsideVars
  <2>3. ~LinkStep
    BY <1>2
       DEF LinkStep, LinkReports, LinkConnects, LinkFailsToConnect, LinkAnswers, LinkEnds,
           LinkReturns, outsideVars
  <2>4. ~DrainStep
    BY <1>2
       DEF DrainStep, KeepsConnection, EndSession, ConnectedIgnored, ConnectedArrives, TextArrives,
           BackendRefused, BackendArrives, OtherArrives, EndpointArrives, NoticeArrives,
           FinishedArrives, LinkShutDown, LinkAborted, LinkFailed, ControlLost, outsideVars
  <2>5. ~WarmupStep
    BY <1>2
       DEF WarmupStep, ResumeDeferred, WarmupReady, WarmupRetryable, WarmupNeedsUser, outsideVars
  <2>6. ~TimerStep
    BY <1>2
       DEF TimerStep, EndSession, SessionTimeout, FailedRecovery, IdleClose, SplashTimeout,
           ErrorExpires, RetryHoldExpires, AnswerAges, ReadinessChanges, outsideVars
  <2>7. ~(\E warned, micOk \in BOOLEAN : Startup(warned, micOk)) /\ ~UNCHANGED vars
    BY <1>2 DEF Startup, vars, outsideVars
  <2>8. Shutdown
    BY <2>1, <2>2, <2>3, <2>4, <2>5, <2>6, <2>7 DEF Next
  <2>. QED
    BY <2>8 DEF Shutdown, CleanupAsr, Released
<1>. QED
  BY <1>1, <1>2 DEF Released

\* The controller keeps the promise of VoiceSession, for all values of its
\* constants.
THEOREM KeepsPromiseHolds == Spec => KeepsPromise
<1>1. Init => Promise!Init /\ Released
  BY DEF Init, Promise!Init, Stage, Line, Released
<1>2. TypeOK /\ Safe /\ Released /\ TypeOK' /\ Safe' /\ Released' /\ [Next]_vars
        => [Promise!Next]_(Promise!vars)
  <2>. SUFFICES ASSUME TypeOK, Safe, Released, TypeOK', Safe', Released', [Next]_vars
                PROVE  [Promise!Next]_(Promise!vars)
    OBVIOUS
  <2>1. CASE phase # "stopped"
    BY <2>1, SafeStep, LegalKeepsPromise
  <2>2. CASE phase = "stopped"
    <3>1. phase' = "stopped"
      BY <2>2, ReleasedStep
    <3>. QED
      BY <2>2, <3>1 DEF Promise!vars, Stage, Line, Released
  <2>. QED
    BY <2>1, <2>2
<1>3. Released /\ [Next]_vars => Released'
  BY ReleasedStep
<1>. QED
  BY <1>1, <1>2, <1>3, TypeCorrect, SafeCorrect, PTL DEF Spec, KeepsPromise, Promise!Spec

-------------------------------------------------------------------------------
(***************************************************************************)
(* The backend.  What a connection says of its backend is remembered until *)
(* the Connected of the next one is taken; a transport whose Connected has *)
(* been taken is the one that is remembered, and its route does not change *)
(* while it is there.                                                      *)
(***************************************************************************)
BackendNamed ==
  link # "none" /\ named = "no" /\ settings.route \in CheckedRoutes => backend = "awaited"

\* A transport whose Connected was taken before the step is left as it was, on the same
\* route, or it is dropped.
SameLink ==
  link' # "none" /\ named' = "no" =>
    /\ link # "none" /\ settings'.route = settings.route /\ backend' = backend
    /\ named' = named

\* Such a step keeps the invariant.
LEMMA SameLinkNamed ==
  ASSUME BackendNamed, SameLink
  PROVE  BackendNamed'
  BY DEF BackendNamed, SameLink

\* What the nested calls do to the transport: they drop it, or leave the one they find.
LEMMA FailRuntimeDropsLink ==
  ASSUME NEW s, NEW how, FailRuntime(s, how)
  PROVE  link' = "none"
  BY DEF FailRuntime, CleanupAsr

LEMMA EndSessionDropsLink ==
  ASSUME NEW target, NEW left, NEW how, NEW shown, NEW micOk,
         EndSession(target, left, how, shown, micOk)
  PROVE  link' = "none"
  BY DEF EndSession, CleanupAsr

LEMMA AsrAfterKeepsLink ==
  ASSUME NEW at, AsrAfter(at), link' # "none"
  PROVE  link' = link /\ at.link # "none"
  BY DEF AsrAfter, CleanupAsr, asrVars

LEMMA EnableKeepsLink ==
  ASSUME NEW at, NEW micOk, EnableListening(at, micOk), link' # "none"
  PROVE  link' = link /\ at.link # "none"
  BY AsrAfterKeepsLink DEF EnableListening, OpenMicrophone, RequireConnection, CleanupAsr

LEMMA DisableKeepsLink ==
  ASSUME NEW at, NEW shown, DisableListening(at, shown), link' # "none"
  PROVE  link' = link /\ at.link # "none"
  BY DEF DisableListening

LEMMA SettingKeepsLink ==
  ASSUME NEW at, NEW on, NEW micOk, ApplyListeningSetting(at, on, micOk), link' # "none"
  PROVE  link' = link /\ at.link # "none"
  BY EnableKeepsLink, DisableKeepsLink, AsrAfterKeepsLink DEF ApplyListeningSetting, BeginLogin

\* What a step leaves of the transport.
LEMMA SameLinkStep ==
  ASSUME TypeOK, Next, ~ConnectedArrives, ~BackendArrives
  PROVE  SameLink
<1>1. ASSUME link' = link, UNCHANGED <<settings, backend, named>> PROVE SameLink
  BY <1>1 DEF SameLink
<1>2. ASSUME link' = "none" PROVE SameLink
  BY <1>2 DEF SameLink
<1>3. ASSUME NEW s, NEW how, FailRuntime(s, how) PROVE SameLink
  BY <1>2, <1>3, FailRuntimeDropsLink
<1>4. ASSUME link' # "none" => link' = link /\ settings'.route = settings.route,
             UNCHANGED <<backend, named>>
      PROVE  SameLink
  BY <1>4 DEF SameLink
<1>5. CASE \E warned, micOk \in BOOLEAN : Startup(warned, micOk)
  <2>. SUFFICES ASSUME NEW warned \in BOOLEAN, NEW micOk \in BOOLEAN, Startup(warned, micOk)
                PROVE  SameLink
    BY <1>5
  <2>. DEFINE at == IF warned THEN [Now EXCEPT !.error = "temporary", !.splash = "none"] ELSE Now
  <2>1. UNCHANGED <<settings, backend, named>>
    BY DEF Startup, settingsVars, backendVars
  <2>2. EnableListening(at, micOk) \/ link' = link
    BY DEF Startup, asrVars
  <2>. HIDE DEF at
  <2>. QED
    BY <1>4, <2>1, <2>2, EnableKeepsLink
<1>6. CASE UserStep
  <2>1. ASSUME NEW micOk \in BOOLEAN, ToggleListening(micOk) PROVE SameLink
    <3>1. /\ settings' = [settings EXCEPT !.listening = Flip(settings.listening)]
          /\ ApplyListeningSetting(Now, Flip(settings.listening), micOk)
          /\ UNCHANGED <<backend, named>>
      BY <2>1 DEF ToggleListening, Otherwise, backendVars
    <3>2. settings'.route = settings.route
      BY <3>1 DEF TypeOK, Settings
    <3>. QED
      BY <1>4, <3>1, <3>2, SettingKeepsLink
  <2>2. ASSUME NEW micOk \in BOOLEAN, LoginSucceeds(micOk) PROVE SameLink
    <3>1. UNCHANGED <<settings, backend, named>>
      BY <2>2 DEF LoginSucceeds, Otherwise, settingsVars, backendVars
    <3>2. (\E at : EnableListening(at, micOk)) \/ link' = link
      BY <2>2 DEF LoginSucceeds, asrVars
    <3>. QED
      BY <1>4, <3>1, <3>2, EnableKeepsLink
  <2>3. ASSUME NEW new \in SavedSettings, NEW micOk \in BOOLEAN, UpdateSettingsIdle(new, micOk)
        PROVE  SameLink
    <3>. DEFINE moved == settings.route # new.route
                warm == IF moved THEN WarmupStarted(new) ELSE warmup
                at == [Now EXCEPT !.gate = "idle", !.warmup = warm,
                                  !.link = IF moved THEN "none" ELSE link,
                                  !.splash = IF warm = warmup THEN splash ELSE "none"]
    <3>1. at.link = IF moved THEN "none" ELSE link
      BY DEF Now
    <3>2. /\ ApplyListeningSetting(at, new.listening, micOk) \/ AsrAfter(at)
          /\ settings' = new /\ UNCHANGED <<backend, named>>
      BY <2>3 DEF UpdateSettingsIdle, Otherwise, backendVars
    <3>. HIDE DEF at
    <3>3. link' # "none" => link' = link /\ at.link # "none"
      BY <3>2, SettingKeepsLink, AsrAfterKeepsLink
    <3>. QED
      BY <1>4, <3>1, <3>2, <3>3
  <2>4. ASSUME NEW new \in SavedSettings, NEW micOk \in BOOLEAN, UpdateSettingsRoute(new, micOk)
        PROVE  SameLink
    <3>. DEFINE at == [Now EXCEPT !.session = Apply(session, "Aborted"), !.gate = "idle",
                                  !.warmup = WarmupStarted(new), !.link = "none",
                                  !.splash = "none"]
    <3>1. at.link = "none"
      BY DEF Now
    <3>2. ApplyListeningSetting(at, new.listening, micOk) \/ AsrAfter(at)
      BY <2>4 DEF UpdateSettingsRoute
    <3>. HIDE DEF at
    <3>. QED
      BY <1>2, <3>1, <3>2, SettingKeepsLink, AsrAfterKeepsLink
  <2>5. ASSUME NEW new \in SavedSettings, NEW micOk \in BOOLEAN, UpdateSettingsDeferred(new, micOk)
        PROVE  SameLink
    <3>1. /\ settings' = [settings EXCEPT !.listening = new.listening]
          /\ ApplyListeningSetting(Now, new.listening, micOk) \/ link' = link
          /\ UNCHANGED <<backend, named>>
      BY <2>5 DEF UpdateSettingsDeferred, Otherwise, backendVars, asrVars
    <3>2. settings'.route = settings.route
      BY <3>1 DEF TypeOK, Settings
    <3>. QED
      BY <1>4, <3>1, <3>2, SettingKeepsLink
  <2>6. ASSUME NEW new \in SavedSettings, SwitchMicrophoneFails(new) PROVE SameLink
    BY <1>2, <1>3, <2>6 DEF SwitchMicrophoneFails, CleanupAsr
  <2>7. ASSUME NEW now \in ReadinessSeen, Logout(now) PROVE SameLink
    <3>1. DisableListening(Now, "none") \/ link' = "none"
      BY <2>7 DEF Logout, CleanupAsr
    <3>2. UNCHANGED <<settings, backend, named>>
      BY <2>7 DEF Logout, settingsVars, backendVars
    <3>. QED
      BY <1>4, <3>1, <3>2, DisableKeepsLink
  <2>8. CASE StartLogin
    <3>1. BeginLogin(Now) /\ UNCHANGED <<settings, backend, named>>
      BY <2>8 DEF StartLogin, settingsVars, Otherwise, backendVars
    <3>. QED
      BY <1>4, <3>1, AsrAfterKeepsLink DEF BeginLogin
  <2>9. CASE LoginFails \/ LogoutFails \/ RefreshVoiceEnrollment
    BY <1>1, <2>9 DEF LoginFails, LogoutFails, RefreshVoiceEnrollment, asrVars, settingsVars,
                      outsideVars, backendVars
  <2>10. CASE Shutdown
    BY <1>2, <2>10 DEF Shutdown, CleanupAsr
  <2>. QED
    BY <1>6, <2>1, <2>2, <2>3, <2>4, <2>5, <2>6, <2>7, <2>8, <2>9, <2>10 DEF UserStep
<1>7. CASE SpeechStep
  <2>1. CASE SpeechDeferred \/ VadWorkerDies
    BY <1>1, <2>1 DEF SpeechDeferred, VadWorkerDies, asrVars, settingsVars, outsideVars, backendVars
  <2>2. CASE SpeechConnects
    <3>1. StartAsr \/ (\E s, how : FailRuntime(s, how))
      BY <2>2 DEF SpeechConnects, StartFails
    <3>2. CASE StartAsr
      BY <3>2 DEF StartAsr, SameLink
    <3>. QED
      BY <1>3, <3>1, <3>2
  <2>3. CASE SpeechContinues
    <3>1. UNCHANGED <<settings, backend, named>>
      BY <2>3 DEF SpeechContinues, settingsVars, outsideVars, backendVars
    <3>2. link' = link \/ FailRuntime(session, "auto")
      BY <2>3 DEF SpeechContinues, asrVars
    <3>. QED
      BY <1>1, <1>3, <3>1, <3>2
  <2>4. CASE AudioSendFails \/ VadFailureSeen
    BY <1>3, <2>4 DEF AudioSendFails, VadFailureSeen
  <2>5. CASE SpeechEnded
    <3>1. UNCHANGED <<settings, backend, named>>
      BY <2>5 DEF SpeechEnded, settingsVars, outsideVars, backendVars
    <3>2. link' = link \/ FailRuntime(session, "auto")
      BY <2>5 DEF SpeechEnded
    <3>. QED
      BY <1>1, <1>3, <3>1, <3>2
  <2>. QED
    BY <1>7, <2>1, <2>2, <2>3, <2>4, <2>5 DEF SpeechStep
<1>8. CASE LinkStep
  <2>1. UNCHANGED <<settings, backend, named>> /\ link # "none"
    BY <1>8 DEF LinkStep, LinkConnects, LinkFailsToConnect, LinkAnswers, LinkEnds, LinkReturns,
                LinkReports, settingsVars, outsideVars, backendVars
  <2>. QED
    BY <2>1 DEF SameLink
<1>9. CASE DrainStep
  <2>1. CASE \/ ConnectedIgnored \/ TextArrives \/ OtherArrives \/ EndpointArrives
             \/ NoticeArrives
    BY <1>1, <2>1 DEF ConnectedIgnored, TextArrives, OtherArrives, EndpointArrives,
                      NoticeArrives, KeepsConnection, settingsVars, backendVars
  <2>2. CASE BackendRefused \/ LinkFailed
    BY <1>3, <2>2 DEF BackendRefused, LinkFailed
  <2>3. ASSUME NEW micOk \in BOOLEAN, FinishedArrives(micOk) PROVE SameLink
    <3>1. \/ \E target, left, how, shown : EndSession(target, left, how, shown, micOk)
          \/ KeepsConnection /\ UNCHANGED backendVars
      BY <2>3 DEF FinishedArrives
    <3>. QED
      BY <1>1, <1>2, <3>1, EndSessionDropsLink DEF KeepsConnection, settingsVars, backendVars
  <2>4. ASSUME NEW micOk \in BOOLEAN, LinkShutDown(micOk) \/ LinkAborted(micOk) PROVE SameLink
    <3>1. \E target, left, how, shown : EndSession(target, left, how, shown, micOk)
      BY <2>4 DEF LinkShutDown, LinkAborted
    <3>. QED
      BY <1>2, <3>1, EndSessionDropsLink
  <2>5. CASE ControlLost
    <3>1. DisableListening(Now, "persistent") /\ UNCHANGED <<settings, backend, named>>
      BY <2>5 DEF ControlLost, settingsVars, backendVars
    <3>. QED
      BY <1>4, <3>1, DisableKeepsLink
  <2>. QED
    BY <1>9, <2>1, <2>2, <2>3, <2>4, <2>5 DEF DrainStep
<1>10. CASE WarmupStep
  <2>1. CASE WarmupNeedsUser
    BY <1>3, <2>1 DEF WarmupNeedsUser
  <2>2. CASE WarmupReady \/ WarmupRetryable
    <3>1. ResumeDeferred /\ UNCHANGED <<settings, backend>>
      BY <2>2 DEF WarmupReady, WarmupRetryable, ResumeDeferred, settingsVars
    <3>2. StartAsr \/ StartFails \/ UNCHANGED <<link, named>>
      BY <3>1 DEF ResumeDeferred, asrVars
    <3>3. CASE StartAsr
      BY <3>3 DEF StartAsr, SameLink
    <3>. QED
      BY <1>1, <1>3, <3>1, <3>2, <3>3 DEF StartFails
  <2>. QED
    BY <1>10, <2>1, <2>2 DEF WarmupStep
<1>11. CASE TimerStep
  <2>1. ASSUME NEW micOk \in BOOLEAN, SessionTimeout(micOk) \/ FailedRecovery(micOk)
        PROVE  SameLink
    <3>1. \E target, left, how, shown : EndSession(target, left, how, shown, micOk)
      BY <2>1 DEF SessionTimeout, FailedRecovery
    <3>. QED
      BY <1>2, <3>1, EndSessionDropsLink
  <2>2. CASE IdleClose
    <3>1. FailRuntime(session, "auto") \/ link' = link
      BY <2>2 DEF IdleClose
    <3>2. UNCHANGED <<settings, backend, named>>
      BY <2>2 DEF IdleClose, settingsVars, outsideVars, backendVars
    <3>. QED
      BY <1>1, <1>3, <3>1, <3>2
  <2>3. CASE SplashTimeout
    <3>1. UNCHANGED <<settings, backend, named>>
      BY <2>3 DEF SplashTimeout, settingsVars, backendVars
    <3>2. link' = link \/ link' = "none"
      BY <2>3 DEF SplashTimeout, RequireConnection, CleanupAsr, asrVars
    <3>. QED
      BY <1>1, <1>2, <3>1, <3>2
  <2>4. CASE ErrorExpires \/ RetryHoldExpires \/ AnswerAges \/ ReadinessChanges
    BY <1>1, <2>4 DEF ErrorExpires, RetryHoldExpires, AnswerAges, ReadinessChanges, asrVars,
                      settingsVars, outsideVars, backendVars
  <2>. QED
    BY <1>11, <2>1, <2>2, <2>3, <2>4 DEF TimerStep
<1>. QED
  BY <1>5, <1>6, <1>7, <1>8, <1>9, <1>10, <1>11 DEF Next

\* Every step: a Connected that is taken awaits the name; what the server says names it.
LEMMA BackendNamedStep ==
  ASSUME TypeOK, BackendNamed, [Next]_vars
  PROVE  BackendNamed'
<1>1. CASE UNCHANGED vars
  BY <1>1 DEF vars, asrVars, settingsVars, outsideVars, backendVars, BackendNamed
<1>2. CASE ConnectedArrives
  <2>1. backend' = ExpectedBackend /\ settings' = settings
    BY <1>2 DEF ConnectedArrives, settingsVars
  <2>2. settings'.route \in CheckedRoutes => backend' = "awaited"
    BY <2>1 DEF ExpectedBackend
  <2>. QED
    BY <2>2 DEF BackendNamed
<1>3. CASE BackendArrives
  BY <1>3 DEF BackendArrives, KeepsConnection, settingsVars, backendVars, BackendNamed
<1>4. ASSUME Next, ~ConnectedArrives, ~BackendArrives PROVE BackendNamed'
  BY <1>4, SameLinkStep, SameLinkNamed
<1>. QED
  BY <1>1, <1>2, <1>3, <1>4

\* Text for a route that must announce its backend is taken from a connection whose
\* Connected the controller has taken only after that connection has announced it, in every
\* state of the session and whatever earlier connections said (handle_asr_event, FinalText).
\* A connection whose Connected was ignored is not promised anything.
THEOREM TextAfterNameHolds == Spec => TextAfterName
<1>1. Init => BackendNamed
  BY DEF Init, BackendNamed
<1>2. TypeOK /\ BackendNamed /\ [Next]_vars => BackendNamed'
  BY BackendNamedStep
<1>3. BackendNamed /\ [Next]_vars =>
        [TextArrives /\ settings.route \in CheckedRoutes => named # "no"]_vars
  BY DEF BackendNamed, TextArrives, Takes
<1>. QED
  BY <1>1, <1>2, <1>3, TypeCorrect, PTL DEF Spec, TextAfterName
===============================================================================

------------------------------ MODULE Preferences ------------------------------
(***************************************************************************)
(* The settings: the file (crates/app/src/settings_io.rs), the copy that   *)
(* is in force in the controller and the one that waits for the end of a   *)
(* session (controller.rs), the copy the user interface shows (ui/mod.rs), *)
(* the window that changes them (ui/settings_view.rs) and the tray, which  *)
(* says whether there is listening and switches it (ui/tray.rs).  Each may *)
(* be written by the user's click, while older messages are on their way.  *)
(* Listening may be wanted and yet not go on: the connection may want a    *)
(* login or a setup, another device may take over, the microphone may not  *)
(* open.  What a change of the route adds is in Controller.                *)
(*                                                                         *)
(* Settings are a microphone, the switch for listening and a number that   *)
(* is typed into a text field.                                             *)
(***************************************************************************)
EXTENDS Naturals, Sequences, Session

CONSTANTS
  Mics, Numbers,
  DefaultMic, DefaultNumber,
  Troubles,    \* what may happen: a "crash"; a "write" that does not work; a
               \* "session" that is cut off while settings wait for its end; a
               \* "worker" that dies while there is no listening; a "hurry", to
               \* switch or save while there are messages under way
  Readinesses, \* what the connection may be
  MaxSaves, MaxSwitches,  \* bounds: what the user does
  MaxEnds      \* bound: what happens to a session, a login or the connection

ASSUME PreferencesAssumption ==
  /\ Troubles \subseteq {"session", "worker", "write", "crash", "hurry"}
  /\ "Ready" \in Readinesses /\ Readinesses \subseteq {"Ready", "NeedsLogin", "NeedsSetup"}
  /\ DefaultMic \in Mics /\ DefaultNumber \in Numbers
  /\ \A n \in {MaxSaves, MaxSwitches, MaxEnds} : n \in Nat

Settings == [mic : Mics, listening : BOOLEAN, number : Numbers]
Nothing == [mic |-> "none"]
Torn == [mic |-> "torn"]
Missing == [mic |-> "missing"]
Default == [mic |-> DefaultMic, listening |-> TRUE, number |-> DefaultNumber]
Closed == [form |-> Nothing]
Entries == [mic : Mics, listening : BOOLEAN, text : Numbers \cup {"junk"}]
ASSUME Distinct == {"none", "torn", "missing"} \cap Mics = {}

VARIABLES
  file,       \* settings.json: settings, Torn or Missing
  up,         \* whether the application runs
  held,       \* the controller's settings
  pending,    \* those that wait for the end of the session, or Nothing
  session,    \* the state of Session
  capture,    \* the microphone that is open, or "none"
  recovers,   \* whether a session that failed is retried
  greeting,   \* whether the connection is still to be looked at after the start
  ready,      \* what the provider and the bundled server make of the connection
  login,      \* whether a login is under way
  putOff,     \* history: listening was stopped or put off by something else than the
              \* switch, and has not been switched since
  commands,   \* to the controller: a switch (Nothing), or settings
  updates,    \* to the user interface: settings, or what the tray is to say
  shown,      \* its copy
  tray,       \* whether the tray says that there is listening
  window,     \* the window's copy and its fields, or Closed
  saves, switches, ends  \* for the bounds

runtime == <<session, capture, recovers, greeting, putOff>>
control == <<held, pending, runtime, ready, login>>
interface == <<shown, tray, window>>
vars == <<file, up, control, commands, updates, interface, saves, switches, ends>>

Trouble(what) == what \in Troubles
Unhurried == Trouble("hurry") \/ (commands = <<>> /\ updates = <<>>)

\* settings_io::load: without a file there are the defaults, which are not written.
Read == IF file = Missing THEN Default ELSE file

\* settings_io::save truncates the file and writes it anew.
Write(s, well) == /\ well \/ Trouble("write")
                  /\ IF well THEN file' = s ELSE file' \in {file, Torn}

(***************************************************************************)
(* The user interface.                                                     *)
(***************************************************************************)
Opened(s) == [original |-> s,
              form |-> [mic |-> s.mic, listening |-> s.listening, text |-> s.number]]
OpensWindow ==
  /\ up /\ window = Closed /\ window' = Opened(shown)
  /\ UNCHANGED <<file, up, control, commands, updates, shown, tray, saves, switches, ends>>
Fills(entry) ==
  /\ window # Closed /\ saves < MaxSaves /\ window' = [window EXCEPT !.form = entry]
  /\ UNCHANGED <<file, up, control, commands, updates, shown, tray, saves, switches, ends>>
Dismisses ==
  /\ window # Closed /\ window' = Closed
  /\ UNCHANGED <<file, up, control, commands, updates, shown, tray, saves, switches, ends>>

\* parse_or: a field that is no number leaves what the window was opened with.
ParseOr(text, fallback) == IF text \in Numbers THEN text ELSE fallback
Filled == [mic |-> window.form.mic, listening |-> window.form.listening,
           number |-> ParseOr(window.form.text, window.original.number)]
Saves(well) ==
  /\ window # Closed /\ saves < MaxSaves /\ Unhurried
  /\ saves' = saves + 1 /\ Write(Filled, well)
  /\ IF well THEN shown' = Filled /\ commands' = Append(commands, Filled) /\ window' = Closed
     ELSE UNCHANGED <<shown, window, commands>>
  /\ UNCHANGED <<up, control, updates, tray, switches, ends>>

\* The overlay, or the tray.
Switches ==
  /\ up /\ switches < MaxSwitches /\ Unhurried
  /\ switches' = switches + 1 /\ commands' = Append(commands, Nothing)
  /\ UNCHANGED <<file, up, control, updates, interface, saves, ends>>

\* apply_ui_update: the copy of the settings, and the tray's label and icon.
Label(state) == [listening |-> ListeningEnabled(state)]
NewTray == Label("Disabled")
IsShown ==
  /\ updates # <<>> /\ Head(updates) \in Settings /\ shown' = Head(updates)
  /\ updates' = Tail(updates)
  /\ UNCHANGED <<file, up, control, commands, tray, window, saves, switches, ends>>
TrayTells ==
  /\ updates # <<>> /\ Head(updates) \notin Settings /\ tray' = Head(updates)
  /\ updates' = Tail(updates)
  /\ UNCHANGED <<file, up, control, commands, shown, window, saves, switches, ends>>

(***************************************************************************)
(* The controller.                                                         *)
(***************************************************************************)
Attention == ready # "Ready"
LoginRequired == ready = "NeedsLogin"

\* start_audio_capture: a microphone that is open stays so, another may not work.
Opening(mic, works) == IF capture # "none" THEN capture ELSE IF works THEN mic ELSE "none"

\* require_connection, in a state and after what has been told already: what waits for
\* the end of the session goes on waiting.
Requires(state, told) ==
  /\ session' = Apply(Apply(state, "Failed"), "Disable") /\ capture' = "none"
  /\ updates' = updates \o told \o <<Label("Disabled")>>
  /\ state # "Disabled" /\ pending' # Nothing => Trouble("session")
  /\ greeting' = FALSE /\ putOff' = TRUE /\ UNCHANGED recovers

\* enable_listening: without a microphone the session fails, and is not retried.
Enables(s, told, works) ==
  LET state == Apply(session, "Enable")
      fails == session = "Disabled" /\ Opening(s.mic, works) = "none"
  IN  IF Attention THEN Requires(session, told)
      ELSE /\ session' = IF fails THEN Apply(state, "Failed") ELSE state
           /\ capture' = IF session = "Disabled" THEN Opening(s.mic, works) ELSE capture
           /\ updates' = updates \o told
                           \o IF Accepts(session, "Enable") THEN <<Label(session')>> ELSE <<>>
           /\ recovers' = (recovers /\ session # "Disabled")
           /\ greeting' = (greeting /\ ~fails) /\ putOff' = FALSE

\* disable_listening: a session that is stopping is left alone.
Silenced == IF session \in {"Disabled", "Stopping"} THEN <<>>
            ELSE <<Label(Apply(session, "Disable"))>>
Silences(told, chosen) ==
  /\ session' = Apply(session, "Disable") /\ capture' = "none"
  /\ updates' = updates \o told \o Silenced
  /\ recovers' = (recovers /\ session # "Failed") /\ greeting' = FALSE /\ putOff' = ~chosen

\* start_login: unless one is under way, or the provider knows none.
StartsLogin == login' \in {login, TRUE} /\ greeting' = FALSE

\* apply_listening_setting, with the settings that are then in force.
Follows(s, told, works) ==
  \/ ~s.listening /\ Silences(told, TRUE) /\ UNCHANGED login
  \/ s.listening /\ ~LoginRequired /\ Enables(s, told, works) /\ UNCHANGED login
  \/ /\ s.listening /\ LoginRequired /\ StartsLogin /\ updates' = updates \o told
     /\ putOff' = TRUE /\ UNCHANGED <<session, capture, recovers>>

\* toggle_listening turns the settings that wait as well, and saves these.
SlipBoth(s) == pending

Both(s) == IF pending = Nothing THEN Nothing ELSE [pending EXCEPT !.listening = s.listening]
Toggles(well, works) ==
  /\ commands # <<>> /\ Head(commands) = Nothing
  /\ held' = [held EXCEPT !.listening = ~@]
  /\ pending' = Both(held')
  /\ LET kept == IF pending' = Nothing THEN held' ELSE pending' IN
       Write(kept, well) /\ Follows(held', <<kept>>, works)
  /\ commands' = Tail(commands)
  /\ UNCHANGED <<up, ready, interface, saves, switches, ends>>

\* update_settings: at once between sessions, else at the end of the session but
\* for the microphone and the switch.
AtOnce == session \in {"Disabled", "Listening", "Failed"}
Turned(s) == s.listening # ListeningEnabled(session)
TakesAtOnce(s, works) ==
  /\ AtOnce /\ held' = s /\ UNCHANGED pending
  /\ IF Turned(s) THEN Follows(s, <<>>, works) ELSE UNCHANGED <<runtime, login, updates>>
Reopens(s) == s.mic # held.mic /\ capture # "none"
TakesLater(s, works) ==
  /\ ~AtOnce /\ (Reopens(s) => works) /\ pending' = s
  /\ held' = [held EXCEPT !.mic = IF Reopens(s) THEN s.mic ELSE @, !.listening = s.listening]
  /\ IF Turned(s) THEN Follows(held', <<>>, works)
     ELSE /\ capture' = IF Reopens(s) THEN s.mic ELSE capture
          /\ UNCHANGED <<session, recovers, greeting, putOff, login, updates>>
\* The new microphone does not open: the session fails, and the settings wait for it.
LosesMicrophone(s) ==
  /\ ~AtOnce /\ Reopens(s) /\ Trouble("session") /\ pending' = s
  /\ held' = [held EXCEPT !.mic = s.mic, !.listening = s.listening]
  /\ session' = IF s.listening THEN "Failed" ELSE "Disabled"
  /\ updates' = updates \o <<Label("Failed")>>
                  \o IF s.listening THEN <<>> ELSE <<Label("Disabled")>>
  /\ capture' = "none" /\ recovers' = FALSE /\ greeting' = FALSE /\ UNCHANGED <<putOff, login>>
Updates(works) ==
  /\ commands # <<>> /\ Head(commands) # Nothing
  /\ LET s == Head(commands) IN
       TakesAtOnce(s, works) \/ TakesLater(s, works) \/ LosesMicrophone(s)
  /\ commands' = Tail(commands)
  /\ UNCHANGED <<file, up, ready, interface, saves, switches, ends>>

Goes ==
  /\ up /\ \E input \in {"SpeechStarted", "Connected", "IdleTimeout"} :
       /\ Accepts(session, input) /\ session' = Apply(session, input)
  /\ updates' = updates \o <<Label(session')>> /\ greeting' = FALSE
  /\ UNCHANGED <<file, up, held, pending, capture, recovers, putOff, ready, login, commands,
                 interface, saves, switches, ends>>

\* fail_runtime leaves the settings waiting; when the worker died (handle_vad_failure)
\* the microphone is closed before.
Fails ==
  /\ up /\ ends < MaxEnds /\ ends' = ends + 1
  /\ pending = Nothing \/ Trouble("session")
  /\ session # "Disabled" \/ Trouble("worker")
  /\ session' = Apply(session, "Failed") /\ updates' = updates \o <<Label(session')>>
  /\ capture' \in {capture, "none"} /\ recovers' \in {session' = "Failed", FALSE}
  /\ greeting' = FALSE
  /\ UNCHANGED <<file, up, held, pending, putOff, ready, login, commands, interface, saves,
                 switches>>

\* The end of a session, or of a failure that is retried: resume_after_finished, then
\* apply_pending_settings.
Ends(works) ==
  /\ up /\ ends < MaxEnds /\ ends' = ends + 1
  /\ \E input \in {"Finished", "Timeout", "Aborted", "Retry"} :
       LET state == Apply(session, input)
           opened == IF state = "Listening" THEN Opening(held.mic, works) ELSE capture
           fails == state = "Listening" /\ opened = "none"
           reached == IF fails THEN Apply(state, "Failed") ELSE state
           told == IF fails THEN <<Label(reached)>> ELSE <<>>
       IN /\ Accepts(session, input) /\ (input = "Retry" => recovers)
          /\ held' = IF pending = Nothing THEN held ELSE pending
          /\ IF held.listening /\ ~held'.listening
             THEN /\ session' = Apply(reached, "Disable") /\ capture' = "none"
                  /\ updates' = updates \o <<Label(state)>> \o told \o <<Label(session')>>
             ELSE /\ session' = reached /\ capture' = opened
                  /\ updates' = updates \o <<Label(state)>> \o told
  /\ pending' = Nothing /\ recovers' = FALSE /\ greeting' = FALSE
  /\ UNCHANGED <<file, up, putOff, ready, login, commands, interface, saves, switches>>

(***************************************************************************)
(* The connection.                                                         *)
(***************************************************************************)
\* A login, a logout, the settings or time may change what it wants: it is looked at
\* only by the handlers that follow.
ConnectionChanges ==
  /\ ends < MaxEnds /\ ends' = ends + 1 /\ ready' \in Readinesses \ {ready}
  /\ UNCHANGED <<file, up, held, pending, runtime, login, commands, updates, interface,
                 saves, switches>>

LogsIn ==
  /\ up /\ ends < MaxEnds /\ ends' = ends + 1 /\ StartsLogin
  /\ UNCHANGED <<file, up, held, pending, session, capture, recovers, putOff, ready,
                 commands, updates, interface, saves, switches>>

\* drain_login_events: listening that is wanted goes on, if there is no session.
LoginEnds(works) ==
  /\ login /\ login' = FALSE /\ UNCHANGED pending
  /\ \/ UNCHANGED <<runtime, updates>>
     \/ held.listening /\ session = "Disabled" /\ Enables(held, <<>>, works)
  /\ UNCHANGED <<file, up, held, ready, commands, interface, saves, switches, ends>>

\* logout leaves the switch as it is.
LogsOut ==
  /\ up /\ ends < MaxEnds /\ ends' = ends + 1 /\ UNCHANGED pending
  /\ IF Attention THEN Requires(Apply(session, "Disable"), Silenced)
     ELSE Silences(<<>>, FALSE)
  /\ UNCHANGED <<file, up, held, ready, login, commands, interface, saves, switches>>

\* Superseded and Unavailable, while there is a connection; the switch stays, too.
TakenOver ==
  /\ up /\ ends < MaxEnds /\ ends' = ends + 1
  /\ session \in {"Connecting", "Streaming", "Closing", "Stopping"} /\ Silences(<<>>, FALSE)
  /\ UNCHANGED <<file, up, held, pending, ready, login, commands, interface, saves, switches>>

\* check_splash_timeout.
SplashEnds ==
  /\ up /\ greeting /\ UNCHANGED pending
  /\ IF Attention THEN Requires(session, <<>>)
     ELSE greeting' = FALSE /\ UNCHANGED <<session, capture, recovers, putOff, updates>>
  /\ UNCHANGED <<file, up, held, ready, login, commands, interface, saves, switches, ends>>

(***************************************************************************)
(* Start and crash.                                                        *)
(***************************************************************************)
\* What cannot be read is not started with.
Starts(works) ==
  /\ ~up /\ file # Torn /\ up' = TRUE /\ UNCHANGED pending
  /\ held' = Read /\ shown' = Read /\ tray' = NewTray
  /\ IF Read.listening /\ ~Attention THEN Enables(Read, <<Label("Disabled")>>, works)
     ELSE /\ updates' = <<Label("Disabled")>> /\ putOff' = TRUE
          /\ UNCHANGED <<session, capture, recovers, greeting>>
  /\ UNCHANGED <<file, ready, login, commands, window, saves, switches, ends>>

\* The application may be writing as it crashes.
Crashes ==
  /\ up /\ Trouble("crash") /\ ends < MaxEnds /\ ends' = ends + 1 /\ up' = FALSE
  /\ \/ UNCHANGED file
     \/ file' = Torn /\ (window # Closed \/ commands # <<>>)
  /\ pending' = Nothing /\ session' = "Disabled" /\ capture' = "none" /\ recovers' = FALSE
  /\ greeting' = TRUE /\ login' = FALSE /\ putOff' = FALSE
  /\ commands' = <<>> /\ updates' = <<>> /\ window' = Closed
  /\ UNCHANGED <<held, ready, shown, tray, saves, switches>>

Init ==
  /\ file \in Settings \cup {Missing} /\ up = FALSE /\ held = Read /\ pending = Nothing
  /\ session = "Disabled" /\ capture = "none" /\ recovers = FALSE /\ greeting = TRUE
  /\ ready \in Readinesses /\ login = FALSE /\ putOff = FALSE
  /\ commands = <<>> /\ updates = <<>> /\ shown = Read /\ tray = NewTray /\ window = Closed
  /\ saves = 0 /\ switches = 0 /\ ends = 0

Next ==
  \/ OpensWindow \/ Dismisses \/ Switches \/ IsShown \/ TrayTells
  \/ \E entry \in Entries : Fills(entry)
  \/ \E well \in BOOLEAN : Saves(well)
  \/ \E well, works \in BOOLEAN : Toggles(well, works)
  \/ \E works \in BOOLEAN : Updates(works) \/ Ends(works) \/ LoginEnds(works) \/ Starts(works)
  \/ Goes \/ Fails \/ Crashes
  \/ ConnectionChanges \/ LogsIn \/ LogsOut \/ TakenOver \/ SplashEnds

Spec == Init /\ [][Next]_vars

(***************************************************************************)
(* Properties.                                                             *)
(***************************************************************************)
AtRest == up /\ commands = <<>> /\ updates = <<>> /\ pending = Nothing

\* Without a failing write, a hurry, a session that is cut off while settings wait or a
\* worker that dies while there is no listening: once everything has been dealt with, the
\* file, the settings in force and those the window will start from are the same, and the
\* tray says whether there is listening.  There is listening, and a microphone is open,
\* only if the settings say so; a session that hears has its microphone; and listening
\* that is wanted does not go on only where a login, the connection, a logout or another
\* device put it off, and it has not been switched since.  (update_settings,
\* toggle_listening and apply_pending_settings each write two or three of these copies,
\* and each way in and out of listening tells the tray.)
RestAgrees ==
  AtRest =>
    /\ held = Read /\ shown = Read /\ tray = Label(session)
    /\ ListeningEnabled(session) \/ capture # "none" => held.listening
    /\ session \in {"Listening", "Connecting", "Streaming"} => capture # "none"
    /\ held.listening /\ ~putOff => ListeningEnabled(session)

\* What was saved is in force and stays so: the window says "takes effect on
\* saving".
SavedIsInForce == AtRest /\ file # Torn => held = Read

\* The microphone that is listened to is the one that is chosen.
ChosenMicrophoneUsed == AtRest /\ capture # "none" => capture = held.mic
================================================================================

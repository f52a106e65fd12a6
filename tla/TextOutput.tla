------------------------------ MODULE TextOutput ------------------------------
(***************************************************************************)
(* How a recognised text reaches the window of another application:        *)
(* TextOutput in crates/platform/src/textout.rs, which the controller      *)
(* calls on its own thread.  Every external command is a step of its own,  *)
(* since the user and other applications may write the same selections     *)
(* between any two of them, and any of the commands may fail.              *)
(*                                                                         *)
(* Contents of a selection: 0 is nothing, 1 .. Emits are the texts put     *)
(* out, in order, and larger numbers are what others write; and the        *)
(* newlines that were added to them on the way.                            *)
(***************************************************************************)
EXTENDS Naturals, Sequences

CONSTANTS
  Systems,    \* some of "x11", "wayland", "desktop" (Windows and macOS)
  Toolsets,   \* the sets of commands that may be installed
  Shortcuts,  \* PasteShortcut, what configure_text_output may set
  Emits,      \* bound: texts put out
  MaxOthers,  \* bound: writes by others, to either selection
  MaxFaults   \* bound: commands that fail

ASSUME TextOutputAssumption ==
  /\ Systems \subseteq {"x11", "wayland", "desktop"}
  /\ \A tools \in Toolsets : tools \subseteq {"xclip", "xsel", "wl-copy", "wl-paste"}
  /\ Shortcuts \subseteq {"CtrlV", "CtrlShiftV", "ShiftInsert"}
  /\ {Emits, MaxFaults} \subseteq Nat /\ MaxOthers \in Nat \ {0}

VARIABLES
  system, tools,       \* where the program runs, and the commands it finds
  shortcut, restore,   \* paste_shortcut, restore_primary_selection
  prompt,              \* whether applications answer a paste before the next text, and before
                       \* PRIMARY is given back: assumed of them, not ensured by the code
  clipboard, primary,  \* what the two selections hold
  others, faults,      \* writes by others and failed commands so far
  stage,               \* how far emit is
  text,                \* the text emit is called with
  attempt,             \* of set_and_verify_xclip
  method,              \* PasteMethod
  previous,            \* previous_primary, Nothing for None
  clipOk, primaryOk,   \* clipboard_ok, primary_ok
  outcome,             \* what emit returned: Ok, Err, or None before the first
  keys,                \* keys held down by the program
  fingers,             \* modifiers held down by the user
  asked,               \* texts whose paste key an application has still to answer
  inserted,            \* <<text, selection>>: what was pasted for which text
  granted, dialogs,    \* macOS: the permission, and how often it was asked for
  enigo, enigoFailure, \* whether there is an Enigo, and whether making one failed
  clean,               \* history: nothing has failed or been overwritten since emit began
  had,                 \* history: what PRIMARY held when emit began
  meddled              \* history: whether the user held modifiers on Windows or macOS when
                       \* the paste key was sent

selections == <<clipboard, primary>>
env == <<system, tools, shortcut, restore, prompt>>
permission == <<granted, dialogs, enigo, enigoFailure>>
call == <<text, method, previous, clipOk, primaryOk, attempt>>
target == <<asked, inserted>>
notes == <<had, meddled>>
vars == <<env, selections, others, faults, stage, call, outcome, keys, fingers, target,
          permission, clean, notes>>

XclipAttempts == 4
Modifiers == {"ctrl", "shift", "alt", "super"}
Keys == Modifiers \cup {"key"}
Stages == {"idle", "clipboard", "verify", "primary", "press", "cleanup", "restore"}
Contents == 0 .. (Emits + MaxOthers)
Selections == [of : Contents, newlines : Nat]
Plain(c) == [of |-> c, newlines |-> 0]
WithNewline(s) == [s EXCEPT !.newlines = @ + 1]
Nothing == Plain(0)

Values ==
  /\ system \in Systems /\ tools \in Toolsets \cup {{}} /\ shortcut \in Shortcuts \cup {"CtrlV"}
  /\ {clipboard, primary, previous, had} \subseteq Selections
  /\ stage \in Stages /\ outcome \in {"None", "Ok", "Err"} /\ attempt \in 1..XclipAttempts
  /\ method \in {"ClipboardOnly", "ClipboardAndPaste"}
  /\ text \in 0..Emits /\ asked \subseteq 1..Emits
  /\ others \in 0..MaxOthers /\ faults \in 0..MaxFaults
  /\ keys \subseteq Keys /\ fingers \subseteq Modifiers
Flags ==
  /\ restore \in BOOLEAN /\ prompt \in BOOLEAN /\ clipOk \in BOOLEAN /\ primaryOk \in BOOLEAN
  /\ granted \in BOOLEAN /\ enigo \in BOOLEAN /\ enigoFailure \in BOOLEAN /\ clean \in BOOLEAN
  /\ meddled \in BOOLEAN
TypeOK == Values /\ Flags

Init ==
  /\ prompt \in BOOLEAN
  /\ \/ /\ system \in Systems \ {"desktop"} /\ tools \in Toolsets
        /\ shortcut \in Shortcuts /\ restore \in BOOLEAN /\ granted = TRUE
     \/ /\ system \in Systems \cap {"desktop"} /\ tools = {}
        /\ shortcut = "CtrlV" /\ restore = FALSE /\ granted \in BOOLEAN
  /\ clipboard = Nothing /\ primary \in {Nothing, Plain(Emits + 1)}
  /\ others = (IF primary = Nothing THEN 0 ELSE 1)
  /\ faults = 0 /\ stage = "idle" /\ text = 0 /\ attempt = 1 /\ method = "ClipboardAndPaste"
  /\ previous = Nothing /\ clipOk = FALSE /\ primaryOk = FALSE /\ outcome = "None"
  /\ keys = {} /\ fingers = {} /\ asked = {} /\ inserted = {}
  /\ dialogs = 0 /\ enigo = FALSE /\ enigoFailure = FALSE
  /\ clean = TRUE /\ had = Nothing /\ meddled = FALSE

-------------------------------------------------------------------------------
(* Helpers. *)

\* A command works, or fails, which the history remembers.  write_clipboard_bytes
\* may report failure although the selection was taken.
Works == UNCHANGED <<faults, clean>>
Fails == faults < MaxFaults /\ faults' = faults + 1 /\ clean' = FALSE
WriteWorks(new, selection) == new = selection /\ Works
WriteFails(new, old, selection) == new \in {old, selection} /\ Fails

Return(result) == stage' = "idle" /\ outcome' = result
Proceed(to) == stage' = to /\ UNCHANGED outcome

\* The commands that write and read PRIMARY.
Xtools == tools \cap {"xclip", "xsel"}
Selector == IF system = "x11" THEN Xtools # {} ELSE "wl-copy" \in tools
Reader == IF system = "x11" THEN Xtools # {} ELSE "wl-paste" \in tools

\* read_primary_selection, read_wayland_primary_selection.  wl-paste, which is called
\* without -n, ends what it prints with a newline.
ReadOut(s) ==
  IF system = "desktop" \/ ~Reader \/ s = Nothing THEN Nothing
  ELSE IF system = "wayland" THEN WithNewline(s) ELSE s
SlipReadsClipboard == ReadOut(clipboard)
PrimaryRead == ReadOut(primary)

\* What is left to do after the clipboard: on Windows and macOS nothing is
\* pasted that is not on the clipboard, on Linux the failure is only logged.
AfterClipboard(ok) ==
  /\ clipOk' = ok
  /\ IF method = "ClipboardOnly" \/ (system = "desktop" /\ ~ok)
       THEN Return(IF ok THEN "Ok" ELSE "Err")
       ELSE Proceed(IF system = "desktop" THEN "press" ELSE "primary")

\* And after the paste key: PRIMARY is given back where it was ours to take.
RestoreDue == restore /\ primaryOk /\ previous # Nothing
AfterPaste(ok) ==
  IF system # "desktop" /\ RestoreDue
    THEN stage' = "restore" /\ outcome' = IF ok THEN "Ok" ELSE "Err"
    ELSE Return(IF ok THEN "Ok" ELSE "Err")

-------------------------------------------------------------------------------
(* emit, one step per external command. *)

\* commit_segment calls emit, and PRIMARY is read first of all.  Between the beginning of
\* one call and of the next are 150 ms (wait_for_emit_interval), of which the commands of the
\* first take their part: that an application has answered by then is what prompt assumes.
EmitBegins ==
  /\ stage = "idle" /\ text < Emits
  /\ prompt => asked = {}
  /\ text' = text + 1 /\ method' \in {"ClipboardOnly", "ClipboardAndPaste"}
  /\ stage' = "clipboard" /\ attempt' = 1 /\ clipOk' = FALSE /\ primaryOk' = FALSE
  /\ \/ previous' = PrimaryRead /\ clean' = TRUE /\ UNCHANGED faults
     \/ PrimaryRead # Nothing /\ previous' = Nothing /\ Fails
  /\ had' = primary /\ meddled' = FALSE
  /\ UNCHANGED <<env, selections, others, outcome, keys, fingers, target, permission>>

\* set_and_verify_xclip: written and read back, four times at most.
UsesXclip == system = "x11" /\ "xclip" \in tools
XclipAgain ==
  IF attempt < XclipAttempts
    THEN attempt' = attempt + 1 /\ Proceed("clipboard") /\ UNCHANGED clipOk
    ELSE AfterClipboard(FALSE) /\ UNCHANGED attempt
XclipWrites ==
  /\ stage = "clipboard" /\ UsesXclip
  /\ \/ WriteWorks(clipboard', Plain(text)) /\ Proceed("verify") /\ UNCHANGED <<clipOk, attempt>>
     \/ WriteFails(clipboard', clipboard, Plain(text)) /\ XclipAgain
  /\ UNCHANGED <<env, primary, others, text, method, previous, primaryOk, keys, fingers,
                 target, permission, notes>>
XclipVerifies ==
  /\ stage = "verify"
  /\ \/ clipboard = Plain(text) /\ Works /\ AfterClipboard(TRUE) /\ UNCHANGED attempt
     \/ clipboard # Plain(text) /\ Works /\ XclipAgain
     \/ Fails /\ XclipAgain
  /\ UNCHANGED <<env, selections, others, text, method, previous, primaryOk, keys, fingers,
                 target, permission, notes>>

\* xsel, wl-copy and arboard are believed.
ClipboardWritten ==
  /\ stage = "clipboard" /\ ~UsesXclip
  /\ \/ WriteWorks(clipboard', Plain(text)) /\ AfterClipboard(TRUE)
     \/ WriteFails(clipboard', clipboard, Plain(text)) /\ AfterClipboard(FALSE)
  /\ UNCHANGED <<env, primary, others, text, method, previous, primaryOk, attempt, keys,
                 fingers, target, permission, notes>>

PrimaryWritten ==
  /\ stage = "primary" /\ Proceed("press")
  /\ \/ Selector /\ WriteWorks(primary', Plain(text)) /\ primaryOk' = TRUE
     \/ Selector /\ WriteFails(primary', primary, Plain(text)) /\ primaryOk' = FALSE
     \/ ~Selector /\ primaryOk' = FALSE /\ clean' = FALSE /\ UNCHANGED <<primary, faults>>
  /\ UNCHANGED <<env, clipboard, others, text, method, previous, clipOk, attempt, keys,
                 fingers, target, permission, notes>>

-------------------------------------------------------------------------------
(* The paste key. *)

\* "ctrl" is Command on macOS.
ShortcutModifiers ==
  IF shortcut = "ShiftInsert" THEN {"shift"}
  ELSE IF shortcut = "CtrlShiftV" THEN {"ctrl", "shift"} ELSE {"ctrl"}

\* What one call of xdotool does, in order: the modifiers are released, whoever
\* holds them, then come those of the shortcut, the key, and the modifiers again.
\* xdotool presses the letter of a shortcut and lets it go in two steps.
Step(does, key) == [does |-> does, key |-> key]
SlipNoReleases == <<>>
Releases == <<Step("up", "ctrl"), Step("up", "shift"), Step("up", "alt"), Step("up", "super")>>
Combination ==
  CASE shortcut = "ShiftInsert" -> <<Step("down", "shift"), Step("tap", "key"), Step("up", "shift")>>
    [] shortcut = "CtrlV" /\ system = "x11" ->
         <<Step("down", "ctrl"), Step("down", "key"), Step("up", "key"), Step("up", "ctrl")>>
    [] shortcut = "CtrlV" /\ system # "x11" ->
         <<Step("down", "ctrl"), Step("tap", "key"), Step("up", "ctrl")>>
    [] shortcut = "CtrlShiftV" /\ system = "x11" ->
         <<Step("down", "ctrl"), Step("down", "shift"), Step("down", "key"), Step("up", "key"),
           Step("up", "shift"), Step("up", "ctrl")>>
    [] shortcut = "CtrlShiftV" /\ system # "x11" ->
         <<Step("down", "ctrl"), Step("down", "shift"), Step("tap", "key"), Step("up", "shift"),
           Step("up", "ctrl")>>
Chain == IF system = "x11" THEN Releases \o Combination ELSE Combination

\* The keys that are down after the first n steps: those whose latest step presses
\* them, and those held before that no step is about.
Pressed(down, n) ==
  {k \in Keys : LET about == {i \in 1..n : Chain[i].key = k} IN
                  IF about = {} THEN k \in down
                  ELSE \E i \in about : /\ Chain[i].does = "down"
                                        /\ \A j \in about : j <= i}
Tap == CHOOSE i \in DOMAIN Chain : Chain[i].key = "key" /\ Chain[i].does # "up"

\* The first n steps of the chain reach the application, which takes the key for
\* a paste if the modifiers are exactly those of the shortcut (a letter that is still
\* down from a call that broke off is pressed again).  The virtual keyboard of wtype has
\* modifiers of its own, and is gone when wtype ends.
Sends(n) ==
  /\ keys' = IF system = "wayland" THEN {} ELSE Pressed(keys, n)
  /\ fingers' = fingers \ {Chain[i].key : i \in {j \in 1..n : system = "x11" /\ Chain[j].does = "up"}}
  /\ asked' = IF n >= Tap /\ (system = "wayland"
                               \/ Pressed(keys \cup fingers, Tap) \cap Modifiers = ShortcutModifiers)
                THEN asked \cup {text} ELSE asked

\* The modifiers the guard of xdotool releases.
SlipGuardsCtrlOnly == ShortcutModifiers \ {"shift"}
GuardModifiers == ShortcutModifiers

XdotoolPastes ==
  /\ stage = "press" /\ system = "x11"
  /\ \/ Sends(Len(Chain)) /\ Works /\ AfterPaste(TRUE)
     \/ \E n \in 0 .. (Len(Chain) - 1) : Sends(n) /\ Fails /\ Proceed("cleanup")
  /\ UNCHANGED <<env, selections, others, call, inserted, permission, notes>>

\* ModifierKeyupGuard is dropped while armed.
GuardReleases ==
  /\ stage = "cleanup" /\ AfterPaste(FALSE)
  /\ \/ keys' = keys \ GuardModifiers /\ fingers' = fingers \ GuardModifiers /\ Works
     \/ Fails /\ UNCHANGED <<keys, fingers>>
  /\ UNCHANGED <<env, selections, others, call, target, permission, notes>>

\* send_wayland_paste_shortcut: a wtype that fails is only logged.
WtypePastes ==
  /\ stage = "press" /\ system = "wayland" /\ AfterPaste(TRUE)
  /\ \/ Sends(Len(Chain)) /\ Works
     \/ \E n \in 0 .. (Len(Chain) - 1) : Sends(n) /\ Fails
  /\ UNCHANGED <<env, selections, others, call, inserted, permission, notes>>

PrimaryRestored ==
  /\ stage = "restore" /\ (prompt => asked = {}) /\ Proceed("idle")
  /\ \/ WriteWorks(primary', previous)
     \/ WriteFails(primary', primary, previous)
  /\ UNCHANGED <<env, clipboard, others, call, keys, fingers, target, permission, notes>>

-------------------------------------------------------------------------------
(* Windows and macOS: the permission to type, and the key. *)

\* Enigo::new asks for the permission where it is missing.  It may fail with it, too.
NewEnigo ==
  \/ granted /\ enigo' = TRUE /\ enigoFailure' = FALSE /\ UNCHANGED <<dialogs, faults>>
  \/ granted /\ faults < MaxFaults /\ faults' = faults + 1
     /\ enigo' = FALSE /\ enigoFailure' = TRUE /\ UNCHANGED dialogs
  \/ ~granted /\ enigo' = FALSE /\ enigoFailure' = TRUE /\ dialogs' = dialogs + 1
     /\ UNCHANGED faults

\* check_paste_permission, when the controller starts with auto_paste on.
PermissionChecked ==
  /\ system = "desktop" /\ stage = "idle" /\ text = 0 /\ ~enigo /\ ~enigoFailure
  /\ NewEnigo
  /\ UNCHANGED <<env, selections, others, stage, call, outcome, keys, fingers, target,
                 granted, clean, notes>>

\* send_paste_shortcut of these systems: an Enigo, and a reason not to have one,
\* are kept; accessibility_granted looks without asking.
MayTry == ~enigoFailure \/ granted
EnigoMissing ==
  /\ stage = "press" /\ system = "desktop" /\ ~MayTry
  /\ Return("Err") /\ clean' = FALSE
  /\ UNCHANGED <<env, selections, others, faults, call, keys, fingers, target, permission,
                 notes>>
EnigoMade ==
  /\ stage = "press" /\ system = "desktop" /\ MayTry /\ ~enigo
  /\ NewEnigo
  /\ IF enigo' THEN UNCHANGED <<stage, outcome, clean>> ELSE Return("Err") /\ clean' = FALSE
  /\ UNCHANGED <<env, selections, others, call, keys, fingers, target, granted, notes>>
\* A key that fails is returned with what was pressed before it still down.  The user's
\* modifiers are not released, and Ok is returned whatever the application takes the key
\* for.  Without the permission macOS swallows the events of an Enigo made when there was one.
EnigoPastes ==
  /\ stage = "press" /\ system = "desktop" /\ enigo /\ ~enigoFailure
  /\ meddled' = (fingers # {}) /\ UNCHANGED had
  /\ \/ granted /\ Sends(Len(Chain)) /\ AfterPaste(TRUE) /\ Works
     \/ granted /\ \E n \in 0 .. (Len(Chain) - 1) : Sends(n) /\ Fails /\ AfterPaste(FALSE)
     \/ ~granted /\ AfterPaste(TRUE) /\ clean' = FALSE /\ UNCHANGED <<faults, keys, fingers, asked>>
  /\ UNCHANGED <<env, selections, others, call, inserted, permission>>

-------------------------------------------------------------------------------
(* The others. *)

\* The application pastes: Shift+Insert is the clipboard for some and PRIMARY
\* for others.
Read ==
  {clipboard} \cup (IF shortcut = "ShiftInsert" /\ system # "desktop" THEN {primary} ELSE {})
ApplicationPastes ==
  /\ \E t \in asked, selection \in Read :
       asked' = asked \ {t} /\ inserted' = inserted \cup {<<t, selection>>}
  /\ UNCHANGED <<env, selections, others, faults, stage, call, outcome, keys, fingers,
                 permission, clean, notes>>

\* Another application copies, or the user selects.
SomebodyWrites ==
  /\ others < MaxOthers /\ others' = others + 1 /\ clean' = FALSE
  /\ \/ clipboard' = Plain(Emits + others') /\ UNCHANGED primary
     \/ primary' = Plain(Emits + others') /\ UNCHANGED clipboard
  /\ UNCHANGED <<env, faults, stage, call, outcome, keys, fingers, target, permission, notes>>

\* The user holds the modifiers of a hotkey, or lets them go.
UserPresses ==
  /\ fingers' \in {{}, {"ctrl", "alt"}} \ {fingers}
  /\ UNCHANGED <<env, selections, others, faults, stage, call, outcome, keys, target,
                 permission, clean, notes>>

\* The user gives the permission or takes it back, on macOS.
PermissionChanged ==
  /\ system = "desktop" /\ granted' = ~granted /\ dialogs' = 0
  /\ UNCHANGED <<env, selections, others, faults, stage, call, outcome, keys, fingers,
                 target, enigo, enigoFailure, clean, notes>>

Next ==
  \/ EmitBegins \/ XclipWrites \/ XclipVerifies \/ ClipboardWritten \/ PrimaryWritten
  \/ XdotoolPastes \/ GuardReleases \/ WtypePastes \/ PrimaryRestored
  \/ PermissionChecked \/ EnigoMissing \/ EnigoMade \/ EnigoPastes
  \/ ApplicationPastes \/ SomebodyWrites \/ UserPresses \/ PermissionChanged

Spec == Init /\ [][Next]_vars

-------------------------------------------------------------------------------
(* Properties. *)

Said ==
  /\ stage = "idle" /\ clean /\ outcome = "Ok"
  /\ text > 0 /\ method = "ClipboardAndPaste"
Inserted ==
  \/ text \in asked /\ Read = {Plain(text)}
  \/ /\ <<text, Plain(text)>> \in inserted
     /\ \A pasted \in inserted : pasted[1] = text => pasted[2] = Plain(text)

\* Code: emit_wayland, emit_x11 and the paste key.  Where nothing failed and nobody else
\* wrote a selection, a text that emit reports as pasted is what an application that answers
\* in time inserts, whichever selection it reads; on Linux whatever the user's fingers are on,
\* on Windows and macOS if they were on no modifier when the key was sent.
SaidIsInserted == Said /\ prompt /\ ~meddled => Inserted

\* Neither condition is ensured by the code: on Windows and macOS emit returns Ok for a key
\* that a modifier of the user's has turned into another one, and applications may be slow.
InsertedWhateverHeld == Said /\ prompt => Inserted
InsertedWhenever == Said /\ ~meddled => Inserted

\* Code: previous_primary and restore_primary_selection.  What the user had selected before
\* a text was put out is selected again afterwards, or was never touched; on Wayland it has
\* become one newline longer where it was given back.
TextGone == stage = "idle" /\ clean /\ text > 0 /\ previous # Nothing
SelectionGivenBack ==
  TextGone /\ (restore \/ method = "ClipboardOnly") =>
    primary = IF system = "wayland" /\ method = "ClipboardAndPaste" THEN WithNewline(had) ELSE had

\* The same to the letter, as the name of the setting has it.
SelectionSame == TextGone /\ (restore \/ method = "ClipboardOnly") => primary = had

\* Code: ModifierKeyupGuard.  No single failure, at whatever key it strikes,
\* leaves a modifier down after emit on Linux.
KeysReleased ==
  system # "desktop" /\ stage \in {"idle", "restore"} /\ faults < 2 => keys \cap Modifiers = {}

\* Code: enigo_failure and accessibility_granted.  While the permission is missing
\* it is asked for once, however many texts are put out.
AskedOnce == dialogs <= 1
===============================================================================

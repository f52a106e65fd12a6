--------------------------- MODULE TextOutputProofs ---------------------------
(***************************************************************************)
(* What holds of a text on its way into another application for any number *)
(* of texts, faults and writes by others, any set of commands installed    *)
(* and any of the paste shortcuts.                                         *)
(*                                                                         *)
(* The chains of key events are finite, so what they press is worked out   *)
(* once per chain; the three invariants then say, stage by stage of emit,  *)
(* which keys are down, where the selection of the user is and how far the *)
(* text has come.                                                          *)
(***************************************************************************)
EXTENDS TextOutput, SequenceTheorems, TLAPS

USE TextOutputAssumption

\* What the chains are made of.
Actions == [does : {"up", "down", "tap"}, key : {"ctrl", "shift", "alt", "super", "key"}]

\* Two chains, one after the other.
LEMMA Followed ==
  ASSUME NEW a \in Seq(Actions), NEW b \in Seq(Actions)
  PROVE  /\ a \o b \in Seq(Actions) /\ Len(a \o b) = Len(a) + Len(b)
         /\ Len(a) \in Nat /\ Len(b) \in Nat
         /\ \A i \in 1..Len(a) : (a \o b)[i] = a[i]
         /\ \A i \in 1..Len(b) : (a \o b)[Len(a) + i] = b[i]
<1>1. Len(a) \in Nat /\ Len(b) \in Nat
  BY LenProperties
<1>2. /\ a \o b \in Seq(Actions) /\ Len(a \o b) = Len(a) + Len(b)
      /\ \A i \in 1..(Len(a) + Len(b)) : (a \o b)[i] = IF i <= Len(a) THEN a[i] ELSE b[i - Len(a)]
  BY ConcatProperties
<1>3. \A i \in 1..Len(a) : (a \o b)[i] = a[i]
  BY <1>1, <1>2
<1>4. ASSUME NEW i \in 1..Len(b) PROVE (a \o b)[Len(a) + i] = b[i]
  <2>1. Len(a) + i \in 1..(Len(a) + Len(b)) /\ ~(Len(a) + i <= Len(a)) /\ (Len(a) + i) - Len(a) = i
    BY <1>1, <1>4
  <2>. QED
    BY <1>2, <2>1
<1>. QED
  BY <1>1, <1>2, <1>3, <1>4

\* Windows and macOS: a key that failed before has left at most ctrl down, and the
\* application sees the shortcut all the same.
LEMMA DesktopChain ==
  ASSUME system = "desktop", shortcut = "CtrlV"
  PROVE  /\ Len(Chain) = 3 /\ Tap = 2
         /\ \A n \in 0..3, down \in SUBSET {"ctrl"} : Pressed(down, n) \subseteq {"ctrl"}
         /\ \A down \in SUBSET {"ctrl"} : Pressed(down, 2) = {"ctrl"}
<1>. DEFINE chain == <<Step("down", "ctrl"), Step("tap", "key"), Step("up", "ctrl")>>
<1>1. Chain = chain
  BY DEF Chain, Combination
<1>2. /\ Len(chain) = 3 /\ DOMAIN chain = 1..3
      /\ chain[1].does = "down" /\ chain[1].key = "ctrl"
      /\ chain[2].does = "tap" /\ chain[2].key = "key"
      /\ chain[3].does = "up" /\ chain[3].key = "ctrl"
  BY DEF Step
<1>. HIDE DEF chain
<1>3. Tap = 2
  BY <1>1, <1>2 DEF Tap
<1>4. \A n \in 0..3, down \in SUBSET {"ctrl"} : Pressed(down, n) \subseteq {"ctrl"}
  BY <1>1, <1>2 DEF Pressed, Keys, Modifiers
<1>5. \A down \in SUBSET {"ctrl"} : Pressed(down, 2) = {"ctrl"}
  BY <1>1, <1>2 DEF Pressed, Keys, Modifiers
<1>. QED
  BY <1>1, <1>2, <1>3, <1>4, <1>5

\* wtype: the whole chain taps the key.
LEMMA WaylandChain ==
  ASSUME system = "wayland", shortcut \in {"CtrlV", "CtrlShiftV", "ShiftInsert"}
  PROVE  Len(Chain) \in Nat /\ Tap <= Len(Chain)
<1>. DEFINE held == IF shortcut = "CtrlV" THEN "ctrl" ELSE "shift"
            long == <<Step("down", "ctrl"), Step("down", "shift"), Step("tap", "key"),
                      Step("up", "shift"), Step("up", "ctrl")>>
            short == <<Step("down", held), Step("tap", "key"), Step("up", held)>>
<1>1. /\ Len(long) = 5 /\ DOMAIN long = 1..5 /\ long[3].does = "tap" /\ long[3].key = "key"
      /\ \A i \in {1, 2, 4, 5} : long[i].key # "key"
  BY DEF Step
<1>2. /\ Len(short) = 3 /\ DOMAIN short = 1..3 /\ short[2].does = "tap" /\ short[2].key = "key"
      /\ \A i \in {1, 3} : short[i].key # "key"
  BY DEF Step
<1>3. Chain = long \/ Chain = short
  BY DEF Chain, Combination
<1>. HIDE DEF long, short
<1>4. CASE Chain = long
  <2>1. Tap = 3
    BY <1>1, <1>4 DEF Tap
  <2>2. Len(Chain) = 5
    BY <1>1, <1>4
  <2>. QED
    BY <2>1, <2>2
<1>5. CASE Chain = short
  <2>1. Tap = 2
    BY <1>2, <1>5 DEF Tap
  <2>2. Len(Chain) = 3
    BY <1>2, <1>5
  <2>. QED
    BY <2>1, <2>2
<1>. QED
  BY <1>3, <1>4, <1>5

\* xdotool: the releases, and then the combination.
LEMMA X11Releases ==
  ASSUME system = "x11", NEW c \in Seq(Actions), Combination = c
  PROVE  /\ Len(Chain) = 4 + Len(c) /\ DOMAIN Chain = 1..(4 + Len(c)) /\ Len(c) \in Nat
         /\ Chain[1].does = "up" /\ Chain[1].key = "ctrl"
         /\ Chain[2].does = "up" /\ Chain[2].key = "shift"
         /\ Chain[3].does = "up" /\ Chain[3].key = "alt"
         /\ Chain[4].does = "up" /\ Chain[4].key = "super"
         /\ \A i \in 1..Len(c) : Chain[4 + i] = c[i]
<1>1. Chain = Releases \o c
  BY DEF Chain
<1>2. /\ Len(Releases) = 4 /\ Releases \in Seq(Actions)
      /\ Releases[1].does = "up" /\ Releases[1].key = "ctrl"
      /\ Releases[2].does = "up" /\ Releases[2].key = "shift"
      /\ Releases[3].does = "up" /\ Releases[3].key = "alt"
      /\ Releases[4].does = "up" /\ Releases[4].key = "super"
  BY DEF Releases, Step, Actions
<1>3. /\ Chain \in Seq(Actions) /\ Len(Chain) = 4 + Len(c) /\ Len(c) \in Nat
      /\ \A i \in 1..4 : Chain[i] = Releases[i]
      /\ \A i \in 1..Len(c) : Chain[4 + i] = c[i]
  <2>1. /\ Chain \in Seq(Actions) /\ Len(Chain) = Len(Releases) + Len(c) /\ Len(c) \in Nat
        /\ \A i \in 1..Len(Releases) : Chain[i] = Releases[i]
        /\ \A i \in 1..Len(c) : Chain[Len(Releases) + i] = c[i]
    <3>1. Releases \in Seq(Actions)
      BY <1>2
    <3>. QED
      BY <1>1, <3>1, Followed
  <2>. QED
    BY <1>2, <2>1
<1>4. DOMAIN Chain = 1..(4 + Len(c))
  BY <1>3, LenProperties
<1>5. \A i \in {1, 2, 3, 4} : Chain[i] = Releases[i]
  BY <1>3
<1>. QED
  BY <1>2, <1>3, <1>4, <1>5

\* What is to be shown of each chain of xdotool: whatever was down, the key is tapped under
\* the modifiers of the shortcut alone, none is down at the end, and a chain that breaks off
\* leaves only those of the shortcut down.
Sound(tap, length) ==
  /\ Len(Chain) = length /\ Tap = tap
  /\ \A down \in SUBSET Keys : Pressed(down, tap) \cap Modifiers = ShortcutModifiers
  /\ \A down \in SUBSET Keys : Pressed(down, length) \cap Modifiers = {}
  /\ \A n \in 0..length, down \in SUBSET Keys :
       down \cap Modifiers = {} => Pressed(down, n) \cap Modifiers \subseteq ShortcutModifiers

LEMMA X11Insert ==
  ASSUME system = "x11", shortcut = "ShiftInsert"
  PROVE  Sound(6, 7)
<1>. DEFINE c == <<Step("down", "shift"), Step("tap", "key"), Step("up", "shift")>>
<1>1. /\ Len(c) = 3 /\ c \in Seq(Actions)
      /\ c[1].does = "down" /\ c[1].key = "shift" /\ c[2].does = "tap" /\ c[2].key = "key"
      /\ c[3].does = "up" /\ c[3].key = "shift"
  BY DEF Step, Actions
<1>2. Combination = c
  BY DEF Combination
<1>. HIDE DEF c
<1>3. /\ Len(Chain) = 7 /\ DOMAIN Chain = 1..7
      /\ Chain[1].does = "up" /\ Chain[1].key = "ctrl"
      /\ Chain[2].does = "up" /\ Chain[2].key = "shift"
      /\ Chain[3].does = "up" /\ Chain[3].key = "alt"
      /\ Chain[4].does = "up" /\ Chain[4].key = "super"
      /\ Chain[5].does = "down" /\ Chain[5].key = "shift"
      /\ Chain[6].does = "tap" /\ Chain[6].key = "key"
      /\ Chain[7].does = "up" /\ Chain[7].key = "shift"
  <2>1. /\ Len(Chain) = 7 /\ DOMAIN Chain = 1..7
        /\ Chain[1].does = "up" /\ Chain[1].key = "ctrl"
        /\ Chain[2].does = "up" /\ Chain[2].key = "shift"
        /\ Chain[3].does = "up" /\ Chain[3].key = "alt"
        /\ Chain[4].does = "up" /\ Chain[4].key = "super"
        /\ \A i \in 1..3 : Chain[4 + i] = c[i]
    <3>1. c \in Seq(Actions) /\ Combination = c /\ Len(c) = 3
      BY <1>1, <1>2
    <3>2. /\ Len(Chain) = 4 + Len(c) /\ DOMAIN Chain = 1..(4 + Len(c))
          /\ Chain[1].does = "up" /\ Chain[1].key = "ctrl"
          /\ Chain[2].does = "up" /\ Chain[2].key = "shift"
          /\ Chain[3].does = "up" /\ Chain[3].key = "alt"
          /\ Chain[4].does = "up" /\ Chain[4].key = "super"
          /\ \A i \in 1..Len(c) : Chain[4 + i] = c[i]
      BY <3>1, X11Releases
    <3>. QED
      BY <3>1, <3>2
  <2>2. Chain[5] = c[1] /\ Chain[6] = c[2] /\ Chain[7] = c[3]
    BY <2>1
  <2>. QED
    BY <1>1, <2>1, <2>2
<1>4. Tap = 6
  BY <1>3 DEF Tap
<1>5. ShortcutModifiers = {"shift"}
  BY DEF ShortcutModifiers
<1>6. \A down \in SUBSET Keys : Pressed(down, 6) \cap Modifiers = {"shift"}
  BY <1>3 DEF Pressed, Keys, Modifiers
<1>7. \A down \in SUBSET Keys : Pressed(down, 7) \cap Modifiers = {}
  BY <1>3 DEF Pressed, Keys, Modifiers
<1>8. \A n \in 0..7, down \in SUBSET Keys :
        down \cap Modifiers = {} => Pressed(down, n) \cap Modifiers \subseteq {"shift"}
  BY <1>3 DEF Pressed, Keys, Modifiers
<1>. QED
  BY <1>3, <1>4, <1>5, <1>6, <1>7, <1>8 DEF Sound

LEMMA X11Ctrl ==
  ASSUME system = "x11", shortcut = "CtrlV"
  PROVE  Sound(6, 8)
<1>. DEFINE c == <<Step("down", "ctrl"), Step("down", "key"), Step("up", "key"), Step("up", "ctrl")>>
<1>1. /\ Len(c) = 4 /\ c \in Seq(Actions)
      /\ c[1].does = "down" /\ c[1].key = "ctrl" /\ c[2].does = "down" /\ c[2].key = "key"
      /\ c[3].does = "up" /\ c[3].key = "key" /\ c[4].does = "up" /\ c[4].key = "ctrl"
  BY DEF Step, Actions
<1>2. Combination = c
  BY DEF Combination
<1>. HIDE DEF c
<1>3. /\ Len(Chain) = 8 /\ DOMAIN Chain = 1..8
      /\ Chain[1].does = "up" /\ Chain[1].key = "ctrl"
      /\ Chain[2].does = "up" /\ Chain[2].key = "shift"
      /\ Chain[3].does = "up" /\ Chain[3].key = "alt"
      /\ Chain[4].does = "up" /\ Chain[4].key = "super"
      /\ Chain[5].does = "down" /\ Chain[5].key = "ctrl"
      /\ Chain[6].does = "down" /\ Chain[6].key = "key"
      /\ Chain[7].does = "up" /\ Chain[7].key = "key"
      /\ Chain[8].does = "up" /\ Chain[8].key = "ctrl"
  <2>1. /\ Len(Chain) = 8 /\ DOMAIN Chain = 1..8
        /\ Chain[1].does = "up" /\ Chain[1].key = "ctrl"
        /\ Chain[2].does = "up" /\ Chain[2].key = "shift"
        /\ Chain[3].does = "up" /\ Chain[3].key = "alt"
        /\ Chain[4].does = "up" /\ Chain[4].key = "super"
        /\ \A i \in 1..4 : Chain[4 + i] = c[i]
    <3>1. c \in Seq(Actions) /\ Combination = c /\ Len(c) = 4
      BY <1>1, <1>2
    <3>2. /\ Len(Chain) = 4 + Len(c) /\ DOMAIN Chain = 1..(4 + Len(c))
          /\ Chain[1].does = "up" /\ Chain[1].key = "ctrl"
          /\ Chain[2].does = "up" /\ Chain[2].key = "shift"
          /\ Chain[3].does = "up" /\ Chain[3].key = "alt"
          /\ Chain[4].does = "up" /\ Chain[4].key = "super"
          /\ \A i \in 1..Len(c) : Chain[4 + i] = c[i]
      BY <3>1, X11Releases
    <3>. QED
      BY <3>1, <3>2
  <2>2. Chain[5] = c[1] /\ Chain[6] = c[2] /\ Chain[7] = c[3] /\ Chain[8] = c[4]
    BY <2>1
  <2>. QED
    BY <1>1, <2>1, <2>2
<1>4. Tap = 6
  BY <1>3 DEF Tap
<1>5. ShortcutModifiers = {"ctrl"}
  BY DEF ShortcutModifiers
<1>6. \A down \in SUBSET Keys : Pressed(down, 6) \cap Modifiers = {"ctrl"}
  BY <1>3 DEF Pressed, Keys, Modifiers
<1>7. \A down \in SUBSET Keys : Pressed(down, 8) \cap Modifiers = {}
  BY <1>3 DEF Pressed, Keys, Modifiers
<1>8. \A n \in 0..8, down \in SUBSET Keys :
        down \cap Modifiers = {} => Pressed(down, n) \cap Modifiers \subseteq {"ctrl"}
  BY <1>3 DEF Pressed, Keys, Modifiers
<1>. QED
  BY <1>3, <1>4, <1>5, <1>6, <1>7, <1>8 DEF Sound

LEMMA X11CtrlShift ==
  ASSUME system = "x11", shortcut = "CtrlShiftV"
  PROVE  Sound(7, 10)
<1>. DEFINE c == <<Step("down", "ctrl"), Step("down", "shift"), Step("down", "key"),
                   Step("up", "key"), Step("up", "shift"), Step("up", "ctrl")>>
<1>1. /\ Len(c) = 6 /\ c \in Seq(Actions)
      /\ c[1].does = "down" /\ c[1].key = "ctrl" /\ c[2].does = "down" /\ c[2].key = "shift"
      /\ c[3].does = "down" /\ c[3].key = "key" /\ c[4].does = "up" /\ c[4].key = "key"
      /\ c[5].does = "up" /\ c[5].key = "shift" /\ c[6].does = "up" /\ c[6].key = "ctrl"
  BY DEF Step, Actions
<1>2. Combination = c
  BY DEF Combination
<1>. HIDE DEF c
<1>3. /\ Len(Chain) = 10 /\ DOMAIN Chain = 1..10
      /\ Chain[1].does = "up" /\ Chain[1].key = "ctrl"
      /\ Chain[2].does = "up" /\ Chain[2].key = "shift"
      /\ Chain[3].does = "up" /\ Chain[3].key = "alt"
      /\ Chain[4].does = "up" /\ Chain[4].key = "super"
      /\ Chain[5].does = "down" /\ Chain[5].key = "ctrl"
      /\ Chain[6].does = "down" /\ Chain[6].key = "shift"
      /\ Chain[7].does = "down" /\ Chain[7].key = "key"
      /\ Chain[8].does = "up" /\ Chain[8].key = "key"
      /\ Chain[9].does = "up" /\ Chain[9].key = "shift"
      /\ Chain[10].does = "up" /\ Chain[10].key = "ctrl"
  <2>1. /\ Len(Chain) = 10 /\ DOMAIN Chain = 1..10
        /\ Chain[1].does = "up" /\ Chain[1].key = "ctrl"
        /\ Chain[2].does = "up" /\ Chain[2].key = "shift"
        /\ Chain[3].does = "up" /\ Chain[3].key = "alt"
        /\ Chain[4].does = "up" /\ Chain[4].key = "super"
        /\ \A i \in 1..6 : Chain[4 + i] = c[i]
    <3>1. c \in Seq(Actions) /\ Combination = c /\ Len(c) = 6
      BY <1>1, <1>2
    <3>2. /\ Len(Chain) = 4 + Len(c) /\ DOMAIN Chain = 1..(4 + Len(c))
          /\ Chain[1].does = "up" /\ Chain[1].key = "ctrl"
          /\ Chain[2].does = "up" /\ Chain[2].key = "shift"
          /\ Chain[3].does = "up" /\ Chain[3].key = "alt"
          /\ Chain[4].does = "up" /\ Chain[4].key = "super"
          /\ \A i \in 1..Len(c) : Chain[4 + i] = c[i]
      BY <3>1, X11Releases
    <3>. QED
      BY <3>1, <3>2
  <2>2. /\ Chain[5] = c[1] /\ Chain[6] = c[2] /\ Chain[7] = c[3] /\ Chain[8] = c[4]
        /\ Chain[9] = c[5] /\ Chain[10] = c[6]
    BY <2>1
  <2>. QED
    BY <1>1, <2>1, <2>2
<1>4. Tap = 7
  BY <1>3 DEF Tap
<1>5. ShortcutModifiers = {"ctrl", "shift"}
  BY DEF ShortcutModifiers
<1>6. \A down \in SUBSET Keys : Pressed(down, 7) \cap Modifiers = {"ctrl", "shift"}
  BY <1>3 DEF Pressed, Keys, Modifiers
<1>7. \A down \in SUBSET Keys : Pressed(down, 10) \cap Modifiers = {}
  BY <1>3 DEF Pressed, Keys, Modifiers
<1>8. \A n \in 0..10, down \in SUBSET Keys :
        down \cap Modifiers = {} => Pressed(down, n) \cap Modifiers \subseteq {"ctrl", "shift"}
  BY <1>3 DEF Pressed, Keys, Modifiers
<1>. QED
  BY <1>3, <1>4, <1>5, <1>6, <1>7, <1>8 DEF Sound

\* Whatever the shortcut.
LEMMA X11Chain ==
  ASSUME system = "x11", shortcut \in {"CtrlV", "CtrlShiftV", "ShiftInsert"}
  PROVE  /\ Tap \in 1..Len(Chain) /\ Len(Chain) \in Nat
         /\ \A down \in SUBSET Keys : Pressed(down, Tap) \cap Modifiers = ShortcutModifiers
         /\ \A down \in SUBSET Keys : Pressed(down, Len(Chain)) \cap Modifiers = {}
         /\ \A n \in 0..Len(Chain), down \in SUBSET Keys :
              down \cap Modifiers = {} => Pressed(down, n) \cap Modifiers \subseteq ShortcutModifiers
<1>1. PICK tap \in Nat, length \in Nat : tap \in 1..length /\ Sound(tap, length)
  BY X11Insert, X11Ctrl, X11CtrlShift
<1>. QED
  BY <1>1 DEF Sound

-------------------------------------------------------------------------------
\* Which stages there are of which call on which system, and what is behind them.
Placed ==
  /\ system = "desktop" => shortcut = "CtrlV" /\ previous = Nothing
  /\ stage # "idle" => text > 0
  /\ stage \in {"primary", "press", "cleanup", "restore"} => method = "ClipboardAndPaste"
  /\ stage = "verify" => system = "x11"
  /\ stage \in {"primary", "restore"} => system # "desktop"
  /\ stage = "cleanup" => system = "x11" /\ faults > 0 /\ clean = FALSE
  /\ stage = "restore" => RestoreDue
  /\ inserted \subseteq (1..text) \X Selections /\ asked \subseteq 1..text

\* The modifiers that are down, and where: on X11 those of a chain that broke off,
\* until the guard has released them, and on Windows and macOS also afterwards.
KeysHeld ==
  /\ system = "wayland" => keys = {}
  /\ system = "x11" /\ faults < 2 =>
       keys \cap Modifiers \subseteq (IF stage = "cleanup" THEN ShortcutModifiers ELSE {})
  /\ system = "desktop" => keys \subseteq {"ctrl"}

\* How far what the user had selected has gone.
SelectionHeld ==
  clean = TRUE /\ previous # Nothing /\ text > 0 =>
    /\ previous = IF system = "wayland" THEN WithNewline(had) ELSE had
    /\ stage \in {"clipboard", "verify", "primary"} => primary = had
    /\ stage = "press" => primaryOk = TRUE
    /\ stage = "idle" /\ method = "ClipboardOnly" => primary = had
    /\ stage = "idle" /\ method = "ClipboardAndPaste" /\ restore = TRUE => primary = previous

\* How far the text has gone: nowhere near the application, waiting for it to paste,
\* or pasted.
Unasked == asked = {} /\ \A pasted \in inserted : pasted[1] # text
Awaited ==
  /\ asked = {text} /\ Read = {Plain(text)}
  /\ \A pasted \in inserted : pasted[1] # text
Arrived ==
  /\ asked = {} /\ <<text, Plain(text)>> \in inserted
  /\ \A pasted \in inserted : pasted[1] = text => pasted[2] = Plain(text)
WordsHeld ==
  clean = TRUE /\ prompt = TRUE /\ text > 0 =>
    /\ stage \notin {"idle", "restore"} => Unasked
    /\ stage \in {"verify", "primary", "press"} => clipboard = Plain(text)
    /\ stage = "press" /\ system # "desktop" => primary = Plain(text)
    /\ stage \in {"idle", "restore"} /\ outcome = "Ok" /\ method = "ClipboardAndPaste"
         /\ meddled = FALSE => Awaited \/ Arrived

\* What the proofs that follow assume of every state.
Typed == Values /\ Flags /\ Placed

\* What a call of the command that types leaves well typed, of keys and texts.
LEMMA SendsTyped ==
  ASSUME Typed, stage = "press", NEW n, Sends(n)
  PROVE  keys' \subseteq Keys /\ fingers' \subseteq Modifiers /\ asked' \subseteq 1..text
  BY DEF Typed, Values, Placed, Sends, Pressed

\* Every reachable state is well typed, and its stage is one the call can be in.
LEMMA TypedStep == Typed /\ [Next]_vars => Typed'
<1>. SUFFICES ASSUME Typed, [Next]_vars PROVE Typed'
  OBVIOUS
<1>. /\ \A c \in Nat : c <= Emits + MaxOthers => Plain(c) \in Selections
     /\ \A s \in Selections : ReadOut(s) \in Selections /\ WithNewline(s) \in Selections
     /\ Nothing \in Selections
  <2>1. \A c \in Nat : c <= Emits + MaxOthers => Plain(c) \in Selections
    BY DEF Plain, Selections, Contents
  <2>2. \A s \in Selections : WithNewline(s) \in Selections
    BY DEF WithNewline, Selections
  <2>3. Nothing \in Selections
    BY <2>1 DEF Nothing
  <2>. QED
    BY <2>1, <2>2, <2>3 DEF ReadOut
<1>. USE DEF Typed, Stages, XclipAttempts
<1>1. CASE UNCHANGED vars
  <2>. USE <1>1 DEF vars, env, selections, call, target, permission, notes, RestoreDue
  <2>1. Values'
    BY DEF Values, Flags, Placed
  <2>2. Flags'
    BY DEF Values, Flags, Placed
  <2>3. Placed'
    BY DEF Values, Flags, Placed
  <2>. QED
    BY <2>1, <2>2, <2>3
<1>2. CASE EmitBegins
  <2>. USE <1>2 DEF EmitBegins, env, selections, target, permission, notes, PrimaryRead, Fails,
         RestoreDue
  <2>1. Values'
    <3>1. previous' \in Selections /\ had' \in Selections
      <4>1. primary \in Selections
        BY DEF Values
      <4>. QED
        BY <4>1
    <3>2. text \in 0..Emits /\ text' = text + 1 /\ text' \in 0..Emits /\ asked' \subseteq 1..Emits
      BY DEF Values
    <3>3. faults' = faults \/ (faults < MaxFaults /\ faults' = faults + 1)
      OBVIOUS
    <3>4. /\ UNCHANGED <<system, tools, shortcut, clipboard, primary, others, outcome, keys, fingers>>
          /\ stage' \in Stages /\ attempt' \in 1..XclipAttempts
          /\ method' \in {"ClipboardOnly", "ClipboardAndPaste"}
      OBVIOUS
    <3>. QED
      BY <3>1, <3>2, <3>3, <3>4 DEF Values
  <2>2. Flags'
    BY DEF Values, Flags, Placed
  <2>3. Placed'
    <3>1. 1..text \subseteq 1..text' /\ text' > 0
      BY DEF Values
    <3>2. inserted' \subseteq (1..text') \X Selections /\ asked' \subseteq 1..text'
      BY <3>1 DEF Placed
    <3>3. system = "desktop" => previous' = Nothing
      BY DEF ReadOut
    <3>. QED
      BY <3>1, <3>2, <3>3 DEF Placed
  <2>. QED
    BY <2>1, <2>2, <2>3
<1>3. CASE XclipWrites
  <2>. USE <1>3 DEF XclipWrites, XclipAgain, AfterClipboard, UsesXclip, WriteWorks, WriteFails,
         Works, Fails, Return, Proceed, env, target, permission, notes
  <2>1. Values'
    BY DEF Values, Flags, Placed
  <2>2. Flags'
    BY DEF Values, Flags, Placed
  <2>3. Placed'
    BY DEF Values, Flags, Placed
  <2>. QED
    BY <2>1, <2>2, <2>3
<1>4. CASE XclipVerifies
  <2>. USE <1>4 DEF XclipVerifies, XclipAgain, AfterClipboard, Works, Fails, Return, Proceed,
         env, selections, target, permission, notes
  <2>1. Values'
    BY DEF Values, Flags, Placed
  <2>2. Flags'
    BY DEF Values, Flags, Placed
  <2>3. Placed'
    BY DEF Values, Flags, Placed
  <2>. QED
    BY <2>1, <2>2, <2>3
<1>5. CASE ClipboardWritten
  <2>. USE <1>5 DEF ClipboardWritten, AfterClipboard, WriteWorks, WriteFails, Works, Fails,
         Return, Proceed, env, target, permission, notes
  <2>1. Values'
    BY DEF Values, Flags, Placed
  <2>2. Flags'
    BY DEF Values, Flags, Placed
  <2>3. Placed'
    BY DEF Values, Flags, Placed
  <2>. QED
    BY <2>1, <2>2, <2>3
<1>6. CASE PrimaryWritten
  <2>. USE <1>6 DEF PrimaryWritten, WriteWorks, WriteFails, Works, Fails, Proceed, env, target,
         permission, notes
  <2>1. Values'
    BY DEF Values, Flags, Placed
  <2>2. Flags'
    BY DEF Values, Flags, Placed
  <2>3. Placed'
    BY DEF Values, Flags, Placed
  <2>. QED
    BY <2>1, <2>2, <2>3
<1>7. CASE XdotoolPastes
  <2>1. \E n : Sends(n)
    BY <1>7 DEF XdotoolPastes
  <2>2. keys' \subseteq Keys /\ fingers' \subseteq Modifiers /\ asked' \subseteq 1..text
    BY <1>7, <2>1, SendsTyped DEF XdotoolPastes
  <2>. QED
    <3>. USE <1>7, <2>2 DEF XdotoolPastes, AfterPaste, RestoreDue, Works, Fails, Return,
           Proceed, env, selections, call, permission, notes
    <3>1. Values'
      <4>1. UNCHANGED <<system, tools, shortcut, clipboard, primary, previous, had, attempt,
                        method, text, others>>
        OBVIOUS
      <4>2. /\ stage' \in {"idle", "restore", "cleanup"}
            /\ outcome' \in {outcome, "Ok", "Err"}
            /\ faults' = faults \/ (faults < MaxFaults /\ faults' = faults + 1)
        OBVIOUS
      <4>3. text \in 0..Emits /\ asked' \subseteq 1..text
        BY <2>2 DEF Values
      <4>. QED
        BY <2>2, <4>1, <4>2, <4>3 DEF Values
    <3>2. Flags'
      BY DEF Values, Flags, Placed
    <3>3. Placed'
      BY DEF Values, Flags, Placed
    <3>. QED
      BY <3>1, <3>2, <3>3
<1>8. CASE GuardReleases
  <2>. USE <1>8 DEF GuardReleases, AfterPaste, RestoreDue, Works, Fails, Return, env,
         selections, call, target, permission, notes
  <2>1. Values'
    BY DEF Values, Flags, Placed
  <2>2. Flags'
    BY DEF Values, Flags, Placed
  <2>3. Placed'
    BY DEF Values, Flags, Placed
  <2>. QED
    BY <2>1, <2>2, <2>3
<1>9. CASE WtypePastes
  <2>1. \E n : Sends(n)
    BY <1>9 DEF WtypePastes
  <2>2. keys' \subseteq Keys /\ fingers' \subseteq Modifiers /\ asked' \subseteq 1..text
    BY <1>9, <2>1, SendsTyped DEF WtypePastes
  <2>. QED
    <3>. USE <1>9, <2>2 DEF WtypePastes, AfterPaste, RestoreDue, Works, Fails, Return, env,
           selections, call, permission, notes
    <3>1. Values'
      <4>1. UNCHANGED <<system, tools, shortcut, clipboard, primary, previous, had, attempt,
                        method, text, others>>
        OBVIOUS
      <4>2. /\ stage' \in {"idle", "restore"}
            /\ outcome' \in {outcome, "Ok", "Err"}
            /\ faults' = faults \/ (faults < MaxFaults /\ faults' = faults + 1)
        OBVIOUS
      <4>3. text \in 0..Emits /\ asked' \subseteq 1..text
        BY <2>2 DEF Values
      <4>. QED
        BY <2>2, <4>1, <4>2, <4>3 DEF Values
    <3>2. Flags'
      BY DEF Values, Flags, Placed
    <3>3. Placed'
      BY DEF Values, Flags, Placed
    <3>. QED
      BY <3>1, <3>2, <3>3
<1>10. CASE PrimaryRestored
  <2>. USE <1>10 DEF PrimaryRestored, WriteWorks, WriteFails, Works, Fails, Proceed, env, call,
         target, permission, notes
  <2>1. Values'
    BY DEF Values, Flags, Placed
  <2>2. Flags'
    BY DEF Values, Flags, Placed
  <2>3. Placed'
    BY DEF Values, Flags, Placed
  <2>. QED
    BY <2>1, <2>2, <2>3
<1>11. CASE PermissionChecked \/ EnigoMissing \/ EnigoMade
  <2>. USE DEF PermissionChecked, EnigoMissing, EnigoMade, NewEnigo, Return, env, selections,
         call, target, permission, notes
  <2>1. Values'
    <3>1. /\ stage' \in {stage, "idle"} /\ outcome' \in {outcome, "Err"}
          /\ faults' = faults \/ (faults < MaxFaults /\ faults' = faults + 1)
      BY <1>11
    <3>2. UNCHANGED <<system, tools, shortcut, clipboard, primary, previous, had, attempt,
                      method, text, asked, others, keys, fingers>>
      BY <1>11
    <3>. QED
      BY <3>1, <3>2 DEF Values
  <2>2. UNCHANGED <<restore, prompt, clipOk, primaryOk, granted, meddled>> /\ clean' \in {clean, FALSE}
    BY <1>11
  <2>3. clean' \in BOOLEAN /\ enigo' \in BOOLEAN /\ enigoFailure' \in BOOLEAN
    BY <1>11, <2>2 DEF Flags
  <2>4. Flags'
    BY <2>2, <2>3 DEF Flags
  <2>5. Placed'
    BY <1>11 DEF Values, Flags, Placed
  <2>. QED
    BY <2>1, <2>4, <2>5
<1>12. CASE EnigoPastes
  <2>1. (\E n : Sends(n)) \/ UNCHANGED <<keys, fingers, asked>>
    BY <1>12 DEF EnigoPastes
  <2>2. keys' \subseteq Keys /\ fingers' \subseteq Modifiers /\ asked' \subseteq 1..text
    BY <1>12, <2>1, SendsTyped DEF EnigoPastes, Values, Placed
  <2>. QED
    <3>. USE <1>12, <2>2 DEF EnigoPastes, AfterPaste, Works, Fails, Return, env, selections,
           call, permission, notes
    <3>1. Values'
      <4>1. UNCHANGED <<system, tools, shortcut, clipboard, primary, previous, had, attempt,
                        method, text, others>>
        OBVIOUS
      <4>2. /\ stage' \in {"idle", "restore"}
            /\ outcome' \in {outcome, "Ok", "Err"}
            /\ faults' = faults \/ (faults < MaxFaults /\ faults' = faults + 1)
        OBVIOUS
      <4>3. text \in 0..Emits /\ asked' \subseteq 1..text
        BY <2>2 DEF Values
      <4>. QED
        BY <2>2, <4>1, <4>2, <4>3 DEF Values
    <3>2. Flags'
      BY DEF Values, Flags, Placed
    <3>3. Placed'
      BY DEF Values, Flags, Placed
    <3>. QED
      BY <3>1, <3>2, <3>3
<1>13. CASE ApplicationPastes
  <2>. USE <1>13 DEF ApplicationPastes, Read, RestoreDue, env, selections, call, permission, notes
  <2>1. Values'
    <3>1. asked \subseteq 1..Emits /\ asked' \subseteq asked
      BY DEF Values
    <3>2. UNCHANGED <<system, tools, shortcut, clipboard, primary, previous, had, attempt,
                      method, text, others, faults, stage, outcome, keys, fingers>>
      OBVIOUS
    <3>. QED
      BY <3>1, <3>2 DEF Values
  <2>2. Flags'
    BY DEF Values, Flags, Placed
  <2>3. Placed'
    BY DEF Values, Flags, Placed
  <2>. QED
    BY <2>1, <2>2, <2>3
<1>14. CASE SomebodyWrites
  <2>. USE <1>14 DEF SomebodyWrites, RestoreDue, env, call, target, permission, notes
  <2>1. Values'
    <3>1. others \in 0..MaxOthers /\ others' \in 0..MaxOthers /\ Emits + others' \in Nat
      BY DEF Values
    <3>2. Plain(Emits + others') \in Selections
      BY <3>1
    <3>. QED
      BY <3>1, <3>2 DEF Values
  <2>2. Flags'
    BY DEF Values, Flags, Placed
  <2>3. Placed'
    BY DEF Values, Flags, Placed
  <2>. QED
    BY <2>1, <2>2, <2>3
<1>15. CASE UserPresses \/ PermissionChanged
  <2>. USE DEF UserPresses, PermissionChanged, Modifiers, RestoreDue, env, selections, call, target,
         permission, notes
  <2>1. Values'
    <3>1. UNCHANGED <<system, tools, shortcut, clipboard, primary, previous, had, attempt,
                      method, text, others, faults, stage, outcome, asked, keys>>
      BY <1>15
    <3>2. CASE UNCHANGED fingers
      BY <3>1, <3>2 DEF Values
    <3>3. CASE fingers' \in {{}, {"ctrl", "alt"}}
      BY <3>1, <3>3 DEF Values
    <3>. QED
      BY <1>15, <3>2, <3>3
  <2>2. /\ UNCHANGED <<restore, prompt, clipOk, primaryOk, enigo, enigoFailure, clean, meddled>>
        /\ granted' = granted \/ granted' = ~granted
    BY <1>15
  <2>3. Flags'
    BY <2>2 DEF Flags
  <2>4. Placed'
    BY <1>15 DEF Placed
  <2>. QED
    BY <2>1, <2>3, <2>4
<1>. QED
  BY <1>1, <1>2, <1>3, <1>4, <1>5, <1>6, <1>7, <1>8, <1>9, <1>10, <1>11, <1>12, <1>13, <1>14,
     <1>15 DEF Next

-------------------------------------------------------------------------------
\* The actions that leave the keys of the program alone.
LEMMA KeysUntouched ==
  ASSUME Next PROVE XdotoolPastes \/ GuardReleases \/ WtypePastes \/ EnigoPastes \/ UNCHANGED keys
  BY DEF Next, EmitBegins, XclipWrites, XclipVerifies, ClipboardWritten, PrimaryWritten,
     PrimaryRestored, PermissionChecked, EnigoMissing, EnigoMade, ApplicationPastes, SomebodyWrites,
     UserPresses, PermissionChanged

\* No action changes the system or the shortcut, or uncounts a failure.
LEMMA EnvUntouched ==
  ASSUME Typed, Next
  PROVE  /\ UNCHANGED <<system, shortcut, restore, prompt, ShortcutModifiers>>
         /\ faults' \in {faults, faults + 1}
<1>1. UNCHANGED env
  BY DEF Next, EmitBegins, XclipWrites, XclipVerifies, ClipboardWritten, PrimaryWritten,
     XdotoolPastes, GuardReleases, WtypePastes, EnigoPastes, PrimaryRestored, PermissionChecked,
     EnigoMissing, EnigoMade, ApplicationPastes, SomebodyWrites, UserPresses, PermissionChanged
<1>2. faults' \in {faults, faults + 1}
  BY DEF Next, EmitBegins, XclipWrites, XclipVerifies, ClipboardWritten, PrimaryWritten,
     XdotoolPastes, GuardReleases, WtypePastes, EnigoPastes, PrimaryRestored, PermissionChecked,
     EnigoMissing, EnigoMade, ApplicationPastes, SomebodyWrites, UserPresses, PermissionChanged,
     NewEnigo, Works, Fails, WriteWorks, WriteFails
<1>. QED
  BY <1>1, <1>2 DEF env, ShortcutModifiers

\* A modifier is down only where a chain broke off.
LEMMA KeysStep == Typed /\ KeysHeld /\ [Next]_vars => KeysHeld'
<1>. SUFFICES ASSUME Typed, KeysHeld, [Next]_vars PROVE KeysHeld'
  OBVIOUS
<1>0. CASE UNCHANGED vars
  BY <1>0 DEF KeysHeld, ShortcutModifiers, vars, env
<1>. SUFFICES ASSUME Next PROVE KeysHeld'
  BY <1>0
<1>. /\ UNCHANGED <<system, ShortcutModifiers>> /\ faults' \in {faults, faults + 1}
     /\ faults \in Nat /\ keys \in SUBSET Keys
     /\ shortcut \in {"CtrlV", "CtrlShiftV", "ShiftInsert"}
  BY EnvUntouched DEF Typed, Values
<1>1. CASE XdotoolPastes
  <2>1. system = "x11" /\ stage = "press"
    BY <1>1 DEF XdotoolPastes
  <2>2. \/ keys' = Pressed(keys, Len(Chain)) /\ faults' = faults
        \/ /\ \E n \in 0..Len(Chain) : keys' = Pressed(keys, n)
           /\ faults' = faults + 1 /\ stage' = "cleanup"
    <3>1. Len(Chain) \in Nat
      BY <2>1, X11Chain
    <3>2. CASE Sends(Len(Chain)) /\ Works
      BY <2>1, <3>2 DEF Sends, Works
    <3>3. ASSUME NEW n \in 0..(Len(Chain) - 1), Sends(n), Fails, Proceed("cleanup")
          PROVE  /\ \E i \in 0..Len(Chain) : keys' = Pressed(keys, i)
                 /\ faults' = faults + 1 /\ stage' = "cleanup"
      <4>1. n \in 0..Len(Chain)
        BY <3>1
      <4>2. keys' = Pressed(keys, n)
        BY <2>1, <3>3 DEF Sends
      <4>. QED
        BY <3>3, <4>1, <4>2 DEF Fails, Proceed
    <3>. QED
      BY <1>1, <3>2, <3>3 DEF XdotoolPastes
  <2>3. faults < 2 => keys \cap Modifiers = {}
    BY <2>1 DEF KeysHeld
  <2>4. faults' < 2 /\ faults' = faults => keys' \cap Modifiers = {}
    BY <2>1, <2>2, X11Chain
  <2>5. faults' < 2 /\ faults' = faults + 1 =>
          keys' \cap Modifiers \subseteq ShortcutModifiers /\ stage' = "cleanup"
    <3>. SUFFICES ASSUME faults' < 2, faults' = faults + 1
                  PROVE  keys' \cap Modifiers \subseteq ShortcutModifiers /\ stage' = "cleanup"
      OBVIOUS
    <3>1. keys \cap Modifiers = {} /\ faults' # faults
      BY <2>3
    <3>2. PICK n \in 0..Len(Chain) : keys' = Pressed(keys, n) /\ stage' = "cleanup"
      BY <2>2, <3>1
    <3>3. Pressed(keys, n) \cap Modifiers \subseteq ShortcutModifiers
      BY <2>1, <3>1, X11Chain
    <3>. QED
      BY <3>2, <3>3
  <2>. QED
    BY <2>1, <2>4, <2>5 DEF KeysHeld
<1>2. CASE GuardReleases
  <2>1. system = "x11" /\ stage = "cleanup" /\ stage' # "cleanup" /\ faults > 0
    BY <1>2 DEF GuardReleases, AfterPaste, Return, Typed, Placed
  <2>2. (keys' = keys \ ShortcutModifiers /\ faults' = faults) \/ faults' = faults + 1
    BY <1>2 DEF GuardReleases, GuardModifiers, Works, Fails
  <2>. QED
    BY <2>1, <2>2 DEF KeysHeld
<1>3. CASE WtypePastes
  BY <1>3 DEF WtypePastes, Sends, KeysHeld
<1>4. CASE EnigoPastes
  <2>1. system = "desktop" /\ shortcut = "CtrlV" /\ keys \in SUBSET {"ctrl"}
    BY <1>4 DEF EnigoPastes, Typed, Placed, KeysHeld
  <2>2. UNCHANGED keys \/ \E n \in 0..Len(Chain) : keys' = Pressed(keys, n)
    <3>1. Len(Chain) = 3
      BY <2>1, DesktopChain
    <3>2. ASSUME NEW n \in 0..Len(Chain), Sends(n) PROVE keys' = Pressed(keys, n)
      BY <2>1, <3>2 DEF Sends
    <3>3. 0..(Len(Chain) - 1) \subseteq 0..Len(Chain) /\ Len(Chain) \in 0..Len(Chain)
      BY <3>1
    <3>. QED
      BY <1>4, <3>2, <3>3 DEF EnigoPastes
  <2>3. ASSUME NEW n \in 0..Len(Chain), keys' = Pressed(keys, n) PROVE keys' \subseteq {"ctrl"}
    <3>1. n \in 0..3
      BY <2>1, DesktopChain
    <3>2. Pressed(keys, n) \subseteq {"ctrl"}
      BY <2>1, <3>1, DesktopChain
    <3>. QED
      BY <2>3, <3>2
  <2>4. keys' \subseteq {"ctrl"}
    BY <2>1, <2>2, <2>3
  <2>. QED
    BY <2>1, <2>4 DEF KeysHeld
<1>5. CASE UNCHANGED keys
  <2>1. stage = "cleanup" => stage' = "cleanup" \/ GuardReleases
    BY DEF Next, EmitBegins, XclipWrites, XclipVerifies, ClipboardWritten, PrimaryWritten,
       XdotoolPastes, WtypePastes, EnigoPastes, PrimaryRestored, PermissionChecked,
       EnigoMissing, EnigoMade, ApplicationPastes, SomebodyWrites, UserPresses, PermissionChanged
  <2>. QED
    BY <1>2, <1>5, <2>1 DEF KeysHeld
<1>. QED
  BY <1>1, <1>2, <1>3, <1>4, <1>5, KeysUntouched

-------------------------------------------------------------------------------
\* What was selected stays, or is known and given back.
LEMMA SelectionStep == Typed /\ SelectionHeld /\ [Next]_vars => SelectionHeld'
<1>. SUFFICES ASSUME Typed, SelectionHeld, [Next]_vars PROVE SelectionHeld'
  OBVIOUS
<1>. /\ restore \in BOOLEAN /\ clean \in BOOLEAN /\ primaryOk \in BOOLEAN
     /\ stage \in Stages /\ method \in {"ClipboardOnly", "ClipboardAndPaste"}
     /\ system = "desktop" => previous = Nothing
     /\ stage \in {"primary", "press", "cleanup", "restore"} => method = "ClipboardAndPaste"
     /\ stage = "verify" => system = "x11"
     /\ stage \in {"primary", "restore"} => system # "desktop"
     /\ stage = "cleanup" => clean = FALSE
     /\ stage = "restore" => RestoreDue
  BY DEF Typed, Values, Flags, Placed
<1>. USE DEF SelectionHeld, Stages
<1>1. CASE UNCHANGED vars
  BY <1>1 DEF vars, env, selections, call, notes
<1>2. CASE EmitBegins
  BY <1>2 DEF EmitBegins, env, selections, PrimaryRead, ReadOut, Fails
<1>3. CASE XclipWrites
  BY <1>3 DEF XclipWrites, XclipAgain, AfterClipboard, WriteWorks, WriteFails, Works, Fails,
     Return, Proceed, env, notes, UsesXclip
<1>4. CASE XclipVerifies
  BY <1>4 DEF XclipVerifies, XclipAgain, AfterClipboard, Works, Fails, Return, Proceed, env,
     notes, selections
<1>5. CASE ClipboardWritten
  BY <1>5 DEF ClipboardWritten, AfterClipboard, WriteWorks, WriteFails, Works, Fails, Return,
     Proceed, env, notes
<1>6. CASE PrimaryWritten
  BY <1>6 DEF PrimaryWritten, WriteWorks, WriteFails, Works, Fails, Proceed, env, notes
<1>7. CASE XdotoolPastes \/ WtypePastes
  <2>1. (Works /\ AfterPaste(TRUE)) \/ Fails
    BY <1>7 DEF XdotoolPastes, WtypePastes
  <2>2. stage = "press" /\ UNCHANGED <<env, selections, call, notes>> /\ system # "desktop"
    BY <1>7 DEF XdotoolPastes, WtypePastes
  <2>. QED
    BY <2>1, <2>2 DEF AfterPaste, RestoreDue, Works, Fails, Return, env, selections, call, notes
<1>8. CASE GuardReleases
  <2>1. clean' = FALSE
    BY <1>8 DEF GuardReleases, Works, Fails
  <2>. QED
    BY <2>1
<1>9. CASE EnigoPastes \/ PermissionChecked \/ EnigoMissing \/ EnigoMade
  <2>1. previous' = Nothing
    BY <1>9 DEF EnigoPastes, PermissionChecked, EnigoMissing, EnigoMade, call
  <2>. QED
    BY <2>1
<1>10. CASE PrimaryRestored
  BY <1>10 DEF PrimaryRestored, WriteWorks, WriteFails, Works, Fails, Proceed, env, call, notes
<1>11. CASE ApplicationPastes \/ UserPresses \/ PermissionChanged
  <2>1. UNCHANGED <<env, selections, stage, call, clean, notes>>
    BY <1>11 DEF ApplicationPastes, UserPresses, PermissionChanged
  <2>. QED
    BY <2>1 DEF env, selections, call, notes
<1>12. CASE SomebodyWrites
  BY <1>12 DEF SomebodyWrites
<1>. QED
  BY <1>1, <1>2, <1>3, <1>4, <1>5, <1>6, <1>7, <1>8, <1>9, <1>10, <1>11, <1>12 DEF Next

\* The text is where the stage says it is.
LEMMA WordsStep == Typed /\ KeysHeld /\ WordsHeld /\ [Next]_vars => WordsHeld'
<1>. SUFFICES ASSUME Typed, KeysHeld, WordsHeld, [Next]_vars,
                     clean' = TRUE, prompt' = TRUE, text' > 0
              PROVE  WordsHeld'
  BY DEF WordsHeld
<1>. DEFINE Part1 == stage \notin {"idle", "restore"} => Unasked
            Part2 == stage \in {"verify", "primary", "press"} => clipboard = Plain(text)
            Part3 == stage = "press" /\ system # "desktop" => primary = Plain(text)
            Part4 == stage \in {"idle", "restore"} /\ outcome = "Ok"
                       /\ method = "ClipboardAndPaste" /\ meddled = FALSE => Awaited \/ Arrived
<1>. SUFFICES Part1' /\ Part2' /\ Part3' /\ Part4'
  BY DEF WordsHeld
<1>. /\ prompt \in BOOLEAN /\ clean \in BOOLEAN /\ text \in Nat /\ stage \in Stages
     /\ shortcut \in {"CtrlV", "CtrlShiftV", "ShiftInsert"}
     /\ method \in {"ClipboardOnly", "ClipboardAndPaste"}
     /\ stage # "idle" => text > 0
     /\ stage \in {"primary", "press", "cleanup", "restore"} => method = "ClipboardAndPaste"
     /\ stage = "verify" => system = "x11"
     /\ stage \in {"primary", "restore"} => system # "desktop"
     /\ stage = "cleanup" => clean = FALSE
     /\ inserted \subseteq (1..text) \X Selections /\ asked \subseteq 1..text
  BY DEF Typed, Values, Flags, Placed
<1>. USE DEF Stages
<1>1. CASE EmitBegins
  <2>1. asked = {} /\ text' = text + 1 /\ stage' = "clipboard" /\ UNCHANGED <<asked, inserted>>
    BY <1>1 DEF EmitBegins, env, target
  <2>2. \A s \in Selections : <<text', s>> \notin inserted
    BY <2>1
  <2>. QED
    BY <2>1, <2>2 DEF Unasked
<1>. SUFFICES ASSUME ~EmitBegins PROVE Part1' /\ Part2' /\ Part3' /\ Part4'
  BY <1>1
<1>2. /\ prompt = TRUE /\ UNCHANGED <<system, shortcut, prompt>>
      /\ clean = TRUE /\ UNCHANGED <<text, method>>
  <2>1. UNCHANGED <<system, shortcut, prompt>>
    BY EnvUntouched DEF vars, env
  <2>2. clean = TRUE /\ UNCHANGED <<text, method>>
    BY DEF Next, vars, call, XclipWrites, XclipVerifies, ClipboardWritten, PrimaryWritten,
       XdotoolPastes, GuardReleases, WtypePastes, EnigoPastes, PrimaryRestored, PermissionChecked,
       EnigoMissing, EnigoMade, ApplicationPastes, SomebodyWrites, UserPresses, PermissionChanged,
       Works, Fails, WriteWorks, WriteFails
  <2>. QED
    BY <2>1, <2>2
<1>3. text > 0 /\ Part1 /\ Part2 /\ Part3 /\ Part4
  BY <1>2 DEF WordsHeld
<1>. USE <1>2, <1>3
<1>4. CASE UNCHANGED vars
  BY <1>4 DEF vars, env, selections, call, target, notes, Unasked, Awaited, Arrived, Read
<1>5. CASE XclipWrites
  <2>1. UNCHANGED <<asked, inserted>> /\ stage = "clipboard" /\ stage' = "verify" /\ clipboard' = Plain(text)
    BY <1>5 DEF XclipWrites, target, WriteWorks, WriteFails, Fails, Proceed
  <2>. QED
    BY <2>1 DEF Unasked
<1>6. CASE XclipVerifies
  <2>1. UNCHANGED <<asked, inserted, clipboard>> /\ stage = "verify"
    BY <1>6 DEF XclipVerifies, target, selections
  <2>2. stage' = "primary" \/ (stage' = "idle" /\ method = "ClipboardOnly")
    BY <1>6, <2>1 DEF XclipVerifies, AfterClipboard, Fails, Return, Proceed
  <2>. QED
    BY <2>1, <2>2 DEF Unasked
<1>7. CASE ClipboardWritten
  <2>1. UNCHANGED <<asked, inserted>> /\ stage = "clipboard" /\ clipboard' = Plain(text)
    BY <1>7 DEF ClipboardWritten, target, WriteWorks, WriteFails, Fails
  <2>2. \/ stage' = "primary" \/ (stage' = "idle" /\ method = "ClipboardOnly")
        \/ (stage' = "press" /\ system = "desktop")
    BY <1>7 DEF ClipboardWritten, AfterClipboard, WriteWorks, WriteFails, Fails, Return, Proceed
  <2>. QED
    BY <2>1, <2>2 DEF Unasked
<1>8. CASE PrimaryWritten
  <2>1. /\ UNCHANGED <<asked, inserted, clipboard>> /\ stage = "primary" /\ stage' = "press"
        /\ primary' = Plain(text)
    BY <1>8 DEF PrimaryWritten, target, WriteWorks, WriteFails, Fails, Proceed
  <2>. QED
    BY <2>1 DEF Unasked
<1>9. ASSUME XdotoolPastes \/ WtypePastes \/ EnigoPastes PROVE Part1' /\ Part2' /\ Part3' /\ Part4'
  <2>1. /\ stage = "press" /\ UNCHANGED <<clipboard, primary, inserted>>
        /\ stage' \in {"idle", "restore"}
        /\ Sends(Len(Chain)) /\ (EnigoPastes => (meddled' = FALSE => fingers = {}))
    <3>1. (XdotoolPastes \/ WtypePastes) => Sends(Len(Chain)) /\ AfterPaste(TRUE)
      BY DEF XdotoolPastes, WtypePastes, Fails
    <3>2. EnigoPastes => Sends(Len(Chain)) /\ AfterPaste(TRUE) /\ (meddled' = FALSE => fingers = {})
      BY DEF EnigoPastes, Fails
    <3>3. stage = "press" /\ UNCHANGED <<clipboard, primary, inserted>>
      BY <1>9 DEF XdotoolPastes, WtypePastes, EnigoPastes, selections
    <3>. QED
      BY <1>9, <3>1, <3>2, <3>3 DEF AfterPaste, Return
  <2>2. meddled' = FALSE => asked' = asked \cup {text}
    <3>. /\ \A pressed \in SUBSET Keys : /\ pressed \cap Modifiers = pressed \ {"key"}
                                         /\ pressed \subseteq Keys
         /\ keys \in SUBSET Keys /\ fingers \in SUBSET Modifiers /\ Modifiers \in SUBSET Keys
      BY DEF Typed, Values, Keys, Modifiers
    <3>1. CASE XdotoolPastes
      <4>1. system = "x11" /\ keys \cup fingers \in SUBSET Keys
        BY <3>1 DEF XdotoolPastes
      <4>2. Pressed(keys \cup fingers, Tap) \cap Modifiers = ShortcutModifiers /\ Len(Chain) >= Tap
        BY <4>1, X11Chain
      <4>. QED
        BY <2>1, <4>1, <4>2 DEF Sends
    <3>2. CASE WtypePastes
      <4>1. system = "wayland" /\ Len(Chain) >= Tap
        BY <3>2, WaylandChain DEF WtypePastes
      <4>. QED
        BY <2>1, <4>1 DEF Sends
    <3>3. ASSUME EnigoPastes, meddled' = FALSE PROVE asked' = asked \cup {text}
      <4>1. system = "desktop" /\ shortcut = "CtrlV" /\ keys \cup fingers \in SUBSET {"ctrl"}
        BY <2>1, <3>3 DEF EnigoPastes, Typed, Placed, KeysHeld
      <4>2. Pressed(keys \cup fingers, Tap) \cap Modifiers = ShortcutModifiers /\ Len(Chain) >= Tap
        <5>1. Tap = 2 /\ Len(Chain) = 3 /\ ShortcutModifiers = {"ctrl"}
          BY <4>1, DesktopChain DEF ShortcutModifiers
        <5>2. Pressed(keys \cup fingers, 2) = {"ctrl"}
          BY <4>1, DesktopChain
        <5>3. Pressed(keys \cup fingers, Tap) = Pressed(keys \cup fingers, 2)
          BY <5>1, Zenon
        <5>4. Pressed(keys \cup fingers, Tap) = ShortcutModifiers
          BY <5>1, <5>2, <5>3, Zenon
        <5>5. Len(Chain) >= Tap
          BY <5>1
        <5>6. ShortcutModifiers \cap Modifiers = ShortcutModifiers
          BY <5>1 DEF Modifiers
        <5>. QED
          BY <5>4, <5>5, <5>6
      <4>. QED
        BY <2>1, <4>1, <4>2 DEF Sends
    <3>. QED
      BY <1>9, <3>1, <3>2, <3>3
  <2>3. Unasked /\ clipboard = Plain(text) /\ (system # "desktop" => primary = Plain(text))
    BY <2>1
  <2>4. meddled' = FALSE => Awaited'
    <3>1. Read = {Plain(text)} /\ Read' = Read
      BY <2>1, <2>3 DEF Read
    <3>. QED
      BY <2>1, <2>2, <2>3, <3>1 DEF Unasked, Awaited
  <2>. QED
    BY <2>1, <2>4
<1>10. CASE GuardReleases
  BY <1>10 DEF GuardReleases
<1>11. CASE PrimaryRestored
  <2>1. /\ asked = {} /\ stage = "restore" /\ stage' = "idle"
        /\ UNCHANGED <<asked, inserted, outcome, meddled>>
    BY <1>11 DEF PrimaryRestored, Proceed, target, notes
  <2>2. outcome = "Ok" /\ method = "ClipboardAndPaste" /\ meddled = FALSE => Arrived
    BY <2>1 DEF Awaited
  <2>. QED
    BY <2>1, <2>2 DEF Arrived
<1>12. CASE EnigoMade \/ UserPresses \/ PermissionChanged
  <2>1. UNCHANGED <<asked, inserted, clipboard, primary, stage, outcome, meddled>>
    BY <1>12 DEF EnigoMade, UserPresses, PermissionChanged, target, selections, notes
  <2>2. UNCHANGED Read
    BY <2>1 DEF Read
  <2>. QED
    BY <2>1, <2>2 DEF Unasked, Awaited, Arrived
<1>13. CASE PermissionChecked \/ EnigoMissing \/ SomebodyWrites
  BY <1>13 DEF PermissionChecked, EnigoMissing, SomebodyWrites
<1>14. CASE ApplicationPastes
  <2>1. PICK t \in asked, content \in Read :
             asked' = asked \ {t} /\ inserted' = inserted \cup {<<t, content>>}
    BY <1>14 DEF ApplicationPastes
  <2>2. UNCHANGED <<clipboard, primary, stage, outcome, meddled>>
    BY <1>14 DEF ApplicationPastes, selections, notes
  <2>3. stage \in {"idle", "restore"}
    BY <2>1 DEF Unasked
  <2>4. ASSUME outcome = "Ok", method = "ClipboardAndPaste", meddled = FALSE PROVE Arrived'
    <3>1. Awaited
      <4>1. Awaited \/ Arrived
        BY <2>3, <2>4
      <4>. QED
        BY <2>1, <4>1 DEF Arrived
    <3>2. t = text /\ content = Plain(text)
      BY <2>1, <3>1 DEF Awaited
    <3>. QED
      BY <2>1, <3>1, <3>2 DEF Awaited, Arrived
  <2>. QED
    BY <2>2, <2>3, <2>4
<1>. QED
  BY <1>4, <1>5, <1>6, <1>7, <1>8, <1>9, <1>10, <1>11, <1>12, <1>13, <1>14 DEF Next

-------------------------------------------------------------------------------
\* It all holds at the start.
LEMMA TextInit == Init => Typed /\ KeysHeld /\ SelectionHeld /\ WordsHeld
<1>. SUFFICES ASSUME Init PROVE Typed /\ KeysHeld /\ SelectionHeld /\ WordsHeld
  OBVIOUS
<1>1. Values
  <2>1. Nothing \in Selections /\ Plain(Emits + 1) \in Selections
    BY DEF Nothing, Plain, Selections, Contents
  <2>. QED
    BY <2>1 DEF Init, Values, Stages, Modifiers, XclipAttempts
<1>2. Flags
  BY DEF Init, Flags
<1>3. Placed
  BY DEF Init, Placed
<1>. QED
  BY <1>1, <1>2, <1>3 DEF Init, Typed, KeysHeld, SelectionHeld, WordsHeld

\* And after every step.
LEMMA TextInvariant == Spec => [](Typed /\ KeysHeld /\ SelectionHeld /\ WordsHeld)
<1>1. Typed /\ KeysHeld /\ SelectionHeld /\ WordsHeld /\ [Next]_vars
        => (Typed /\ KeysHeld /\ SelectionHeld /\ WordsHeld)'
  BY TypedStep, KeysStep, SelectionStep, WordsStep
<1>. QED
  BY <1>1, TextInit, PTL DEF Spec

\* Every reachable state is well typed.
THEOREM TypeCorrect == Spec => []TypeOK
<1>1. Typed => TypeOK
  BY DEF Typed, TypeOK
<1>. QED
  BY <1>1, TextInvariant, PTL

\* ModifierKeyupGuard: no single failure, wherever it strikes, leaves a modifier
\* down after emit on Linux.
THEOREM KeysReleasedHolds == Spec => []KeysReleased
<1>1. Typed /\ KeysHeld => KeysReleased
  BY DEF Typed, Values, KeysHeld, KeysReleased
<1>. QED
  BY <1>1, TextInvariant, PTL

\* restore_primary_selection: what the user had selected is selected again after a
\* text was put out without failure or interference, on Wayland one newline longer.
THEOREM SelectionGivenBackHolds == Spec => []SelectionGivenBack
<1>1. Typed /\ SelectionHeld => SelectionGivenBack
  BY DEF Typed, Values, Flags, Placed, SelectionHeld, SelectionGivenBack, TextGone
<1>. QED
  BY <1>1, TextInvariant, PTL

\* emit: a text it reports as pasted, without failure or interference, with an
\* application that answers in time and, on Windows and macOS, with no modifier held by
\* the user, is what the application inserts.
THEOREM SaidIsInsertedHolds == Spec => []SaidIsInserted
<1>1. Typed /\ WordsHeld => SaidIsInserted
  BY DEF Typed, Flags, WordsHeld, Awaited, Arrived, SaidIsInserted, Said, Inserted
<1>. QED
  BY <1>1, TextInvariant, PTL
=============================================================================

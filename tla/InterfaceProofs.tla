---------------------------- MODULE InterfaceProofs ----------------------------
(***************************************************************************)
(* What holds of what the user sees and sets, in two parts:                *)
(*                                                                         *)
(* - the copies of the settings (Preferences), whatever is switched,       *)
(*   saved, dismissed, ended or crashed, and whatever the connection wants *)
(*   and the microphones do, in any order and any number of times, while   *)
(*   every write works, nobody is in a hurry, no session is cut off while  *)
(*   settings wait for its end and no worker dies while there is no        *)
(*   listening;                                                            *)
(* - the ticker of the overlay (Ticker, Overlay), for any views in any     *)
(*   order, any number of them and any moment at which a tick strikes.     *)
(***************************************************************************)
EXTENDS Preferences, Ticker, SequenceTheorems, TLAPS

USE PreferencesAssumption, Distinct

(***************************************************************************)
(* The invariant.                                                          *)
(***************************************************************************)
Labels == [listening : BOOLEAN]
Update == Settings \cup Labels

Forms ==
  /\ file \in Settings \cup {Missing, Torn} /\ up \in BOOLEAN
  /\ held \in Settings /\ pending \in Settings \cup {Nothing}
  /\ session \in States /\ capture \in Mics \cup {"none"}
  /\ commands = <<>> \/ \E x \in Settings \cup {Nothing} : commands = <<x>>
  /\ updates \in Seq(Update) /\ shown \in Settings /\ tray \in Labels
  /\ window = Closed \/ window \in [original : Settings, form : Entries]
  /\ recovers \in BOOLEAN /\ greeting \in BOOLEAN /\ putOff \in BOOLEAN
  /\ ready \in Readinesses /\ login \in BOOLEAN

\* An application that does not run has nothing on its way, and starts with a file.
Down ==
  up = FALSE => /\ commands = <<>> /\ updates = <<>> /\ pending = Nothing /\ window = Closed
                /\ session = "Disabled" /\ capture = "none" /\ login = FALSE
Readable == up = TRUE => file # Torn

\* What is in force, or will be when the session ends and the command is carried out, is
\* what is in the file.
Kept == IF pending = Nothing THEN held ELSE pending
InFile ==
  up = TRUE =>
    IF commands # <<>> /\ Head(commands) # Nothing THEN Head(commands) = Read ELSE Kept = Read

During == {"Connecting", "Streaming", "Closing", "Stopping"}

\* Settings wait for a session only, and agree with those in force on the switch.
Waiting ==
  pending # Nothing =>
    session \in During /\
    pending.listening = held.listening
\* The session and the microphone; and the switch with them.
Heard(state, mic) ==
  /\ mic # "none" => ListeningEnabled(state)
  /\ state \in {"Listening", "Connecting", "Streaming"} => mic # "none"
Fits(listening, state, mic, off) ==
  /\ Heard(state, mic)
  /\ ListeningEnabled(state) => listening
  /\ listening /\ ~off => ListeningEnabled(state)
Switched == up = TRUE => Fits(held.listening, session, capture, putOff)

\* What the user interface has been told, or is about to be told last.
CopyIn(u) == \E i \in 1..Len(u) : u[i] \in Settings
LabelIn(u) == \E i \in 1..Len(u) : u[i] \notin Settings
Latest(u, i) == u[i] \notin Settings /\ \A j \in (i + 1)..Len(u) : u[j] \in Settings
Copied(u, s, r) == s = r \/ CopyIn(u)
Current(u, r) == \A i \in 1..Len(u) : u[i] \in Settings => u[i] = r
Told(u, t, l) ==
  /\ LabelIn(u) \/ t = l
  /\ \A i \in 1..Len(u) : Latest(u, i) => u[i] = l
\* No copy comes or goes, and none is hidden.
SameCopies(u, v) ==
  /\ CopyIn(v) <=> CopyIn(u)
  /\ \A s, r : Copied(u, s, r) => Copied(v, s, r)
  /\ \A r : Current(u, r) => Current(v, r)

Shown == up = TRUE => Copied(updates, shown, Read) /\ Current(updates, Read)
\* A copy on its way is the latest one, for what may change it has yet to be asked for.
Settled == commands # <<>> => ~CopyIn(updates)
TrayTold == up = TRUE => Told(updates, tray, Label(session))

Agree == Forms /\ Down /\ Readable /\ InFile /\ Waiting /\ Switched /\ Shown /\ Settled /\ TrayTold

(***************************************************************************)
(* The kinds of settings and of what is told.                              *)
(***************************************************************************)
\* The marks are no settings, and a label is none.
LEMMA Kinds ==
  /\ Nothing \notin Settings /\ Torn \notin Settings /\ Missing \notin Settings
  /\ Torn # Missing
  /\ \A l \in Labels : l \notin Settings
  /\ \A s \in States : Label(s) \in Labels
  /\ Default \in Settings
<1>1. Nothing \notin Settings /\ Torn \notin Settings /\ Missing \notin Settings
  BY DEF Nothing, Torn, Missing, Settings
<1>2. Torn # Missing
  <2>1. Torn.mic # Missing.mic
    BY DEF Torn, Missing
  <2>. QED
    BY <2>1
<1>3. ASSUME NEW l \in Labels PROVE l \notin Settings
  <2>1. DOMAIN l = {"listening"}
    BY DEF Labels
  <2>2. l \in Settings => "mic" \in DOMAIN l
    BY DEF Settings
  <2>. QED
    BY <2>1, <2>2
<1>4. \A s \in States : Label(s) \in Labels
  BY DEF Label, Labels, ListeningEnabled
<1>5. Default \in Settings
  BY DEF Default, Settings
<1>. QED
  BY <1>1, <1>2, <1>3, <1>4, <1>5

\* The settings of the window.
LEMMA WindowFilled ==
  /\ \A w \in [original : Settings, form : Entries] : w # Closed
  /\ \A s \in Settings : Opened(s) \in [original : Settings, form : Entries]
  /\ window \in [original : Settings, form : Entries] => Filled \in Settings
<1>1. ASSUME NEW w \in [original : Settings, form : Entries] PROVE w # Closed
  <2>1. w.form.mic \in Mics /\ Closed.form.mic = "none"
    BY DEF Entries, Closed, Nothing
  <2>. QED
    BY <2>1
<1>2. \A s \in Settings : Opened(s) \in [original : Settings, form : Entries]
  BY DEF Opened, Settings, Entries
<1>3. ASSUME window \in [original : Settings, form : Entries] PROVE Filled \in Settings
  BY <1>3 DEF Filled, ParseOr, Settings, Entries
<1>. QED
  BY <1>1, <1>2, <1>3

(***************************************************************************)
(* What is told.                                                           *)
(***************************************************************************)
\* One more piece of news.
LEMMA Added ==
  ASSUME NEW u \in Seq(Update), NEW x \in Update
  PROVE  /\ u \o <<x>> \in Seq(Update) /\ Len(u \o <<x>>) = Len(u) + 1 /\ Len(u) \in Nat
         /\ (u \o <<x>>)[Len(u) + 1] = x /\ \A i \in 1..Len(u) : (u \o <<x>>)[i] = u[i]
         /\ \A i : i \in 1..Len(u \o <<x>>) <=> i \in 1..Len(u) \/ i = Len(u) + 1
<1>1. u \o <<x>> = Append(u, x)
  BY AppendIsConcat
<1>2. /\ Append(u, x) \in Seq(Update) /\ Len(Append(u, x)) = Len(u) + 1 /\ Len(u) \in Nat
      /\ Append(u, x)[Len(u) + 1] = x /\ \A i \in 1..Len(u) : Append(u, x)[i] = u[i]
  BY AppendProperties, LenProperties
<1>. DEFINE v == Append(u, x)
<1>. HIDE DEF v
<1>3. \A i : i \in 1..Len(v) <=> i \in 1..Len(u) \/ i = Len(u) + 1
  BY <1>2 DEF v
<1>. QED
  BY <1>1, <1>2, <1>3 DEF v

\* A label is the latest one from then on, and hides no copy.
LEMMA LabelAdded ==
  ASSUME NEW u \in Seq(Update), NEW l \in Labels, NEW t
  PROVE  /\ u \o <<l>> \in Seq(Update) /\ Told(u \o <<l>>, t, l)
         /\ CopyIn(u \o <<l>>) <=> CopyIn(u)
         /\ \A s, r : Copied(u, s, r) => Copied(u \o <<l>>, s, r)
         /\ \A r : Current(u, r) => Current(u \o <<l>>, r)
<1>. DEFINE v == u \o <<l>>
            n == Len(u) + 1
<1>1. /\ v \in Seq(Update) /\ Len(v) = n /\ Len(u) \in Nat
      /\ v[n] = l /\ \A i \in 1..Len(u) : v[i] = u[i]
      /\ \A i : i \in 1..Len(v) <=> i \in 1..Len(u) \/ i = n
  BY Added DEF Update
<1>2. l \notin Settings
  BY Kinds
<1>. HIDE DEF v
<1>3. CopyIn(v) <=> CopyIn(u)
  BY <1>1, <1>2 DEF CopyIn
<1>4. \A s, r : Copied(u, s, r) => Copied(v, s, r)
  BY <1>3 DEF Copied
<1>5. \A r : Current(u, r) => Current(v, r)
  BY <1>1, <1>2 DEF Current
<1>6. LabelIn(v)
  BY <1>1, <1>2 DEF LabelIn
<1>7. ASSUME NEW i \in 1..Len(v), Latest(v, i) PROVE v[i] = l
  <2>1. i \in 1..Len(u) => n \in (i + 1)..Len(v)
    BY <1>1
  <2>2. i = n
    BY <1>1, <1>2, <1>7, <2>1 DEF Latest
  <2>. QED
    BY <1>1, <2>2
<1>8. Told(v, t, l)
  BY <1>6, <1>7 DEF Told
<1>. QED
  BY <1>1, <1>3, <1>4, <1>5, <1>8 DEF v

\* A copy is the latest one from then on, and hides no label.
LEMMA CopyAdded ==
  ASSUME NEW u \in Seq(Update), NEW c \in Settings, ~CopyIn(u)
  PROVE  /\ u \o <<c>> \in Seq(Update) /\ CopyIn(u \o <<c>>) /\ Current(u \o <<c>>, c)
         /\ \A t, l : Told(u, t, l) => Told(u \o <<c>>, t, l)
<1>. DEFINE v == u \o <<c>>
            n == Len(u) + 1
<1>1. /\ v \in Seq(Update) /\ Len(v) = n /\ Len(u) \in Nat
      /\ v[n] = c /\ \A i \in 1..Len(u) : v[i] = u[i]
      /\ \A i : i \in 1..Len(v) <=> i \in 1..Len(u) \/ i = n
  BY Added DEF Update
<1>. HIDE DEF v
<1>2. CopyIn(v)
  BY <1>1 DEF CopyIn
<1>3. Current(v, c)
  BY <1>1 DEF Current, CopyIn
<1>4. ASSUME NEW t, NEW l, Told(u, t, l) PROVE Told(v, t, l)
  <2>1. LabelIn(u) => LabelIn(v)
    BY <1>1 DEF LabelIn
  <2>2. ASSUME NEW i \in 1..Len(v), Latest(v, i) PROVE v[i] = l
    <3>1. i \in 1..Len(u) /\ v[i] = u[i]
      BY <1>1, <2>2 DEF Latest
    <3>2. \A j \in (i + 1)..Len(u) : j \in (i + 1)..Len(v) /\ j \in 1..Len(u)
      BY <1>1, <3>1
    <3>3. Latest(u, i)
      BY <1>1, <2>2, <3>1, <3>2 DEF Latest
    <3>. QED
      BY <1>4, <3>1, <3>3 DEF Told
  <2>. QED
    BY <1>4, <2>1, <2>2 DEF Told
<1>. QED
  BY <1>1, <1>2, <1>3, <1>4 DEF v

\* The interface takes the oldest piece of news.
LEMMA NewsTaken ==
  ASSUME NEW u \in Seq(Update), u # <<>>
  PROVE  /\ Head(u) \in Update /\ Tail(u) \in Seq(Update)
         /\ CopyIn(Tail(u)) => CopyIn(u)
         /\ \A r : Current(u, r) => Current(Tail(u), r)
         /\ \A s, r : Copied(u, s, r) /\ Current(u, r) =>
              Copied(Tail(u), IF Head(u) \in Settings THEN Head(u) ELSE s, r)
         /\ \A t, l : Told(u, t, l) =>
              Told(Tail(u), IF Head(u) \in Settings THEN t ELSE Head(u), l)
<1>. DEFINE v == Tail(u)
<1>1. /\ Head(u) \in Update /\ v \in Seq(Update) /\ Head(u) = u[1] /\ 1 \in 1..Len(u)
      /\ Len(u) \in Nat /\ Len(v) = Len(u) - 1 /\ \A i \in 1..Len(v) : v[i] = u[i + 1]
  BY HeadTailProperties, LenProperties, EmptySeq
<1>. HIDE DEF v
<1>2. /\ \A i \in 1..Len(v) : i + 1 \in 1..Len(u)
      /\ \A i \in 1..Len(u) : i = 1 \/ (i - 1 \in 1..Len(v) /\ v[i - 1] = u[i])
  BY <1>1
<1>3. CopyIn(v) => CopyIn(u)
  BY <1>1, <1>2 DEF CopyIn
<1>4. \A r : Current(u, r) => Current(v, r)
  BY <1>1, <1>2 DEF Current
<1>5. ASSUME NEW s, NEW r, Copied(u, s, r), Current(u, r)
      PROVE  Copied(v, IF Head(u) \in Settings THEN Head(u) ELSE s, r)
  <2>1. CASE Head(u) \in Settings
    BY <1>1, <1>5, <2>1 DEF Copied, Current
  <2>2. CASE Head(u) \notin Settings
    <3>1. CopyIn(u) => CopyIn(v)
      BY <1>1, <1>2, <2>2 DEF CopyIn
    <3>. QED
      BY <1>5, <2>2, <3>1 DEF Copied
  <2>. QED
    BY <2>1, <2>2
<1>6. ASSUME NEW t, NEW l, Told(u, t, l)
      PROVE  Told(v, IF Head(u) \in Settings THEN t ELSE Head(u), l)
  <2>1. ASSUME NEW i \in 1..Len(v), Latest(v, i) PROVE v[i] = l
    <3>1. i + 1 \in 1..Len(u) /\ v[i] = u[i + 1]
      BY <1>1, <1>2
    <3>2. ASSUME NEW j \in (i + 1 + 1)..Len(u) PROVE u[j] \in Settings
      <4>1. j - 1 \in (i + 1)..Len(v) /\ j \in 1..Len(u) /\ j # 1
        BY <1>1, <3>1
      <4>2. v[j - 1] = u[j]
        BY <1>2, <4>1
      <4>. QED
        BY <2>1, <4>1, <4>2 DEF Latest
    <3>3. Latest(u, i + 1)
      BY <2>1, <3>1, <3>2 DEF Latest
    <3>. QED
      BY <1>6, <3>1, <3>3 DEF Told
  <2>2. CASE LabelIn(v)
    BY <2>1, <2>2 DEF Told
  <2>3. CASE ~LabelIn(v)
    <3>1. \A i \in 1..Len(u) : i = 1 \/ u[i] \in Settings
      BY <1>2, <2>3 DEF LabelIn
    <3>2. CASE Head(u) \in Settings
      <4>1. ~LabelIn(u)
        BY <1>1, <3>1, <3>2 DEF LabelIn
      <4>. QED
        BY <1>6, <2>1, <3>2, <4>1 DEF Told
    <3>3. CASE Head(u) \notin Settings
      <4>1. \A j \in 2..Len(u) : j \in 1..Len(u) /\ j # 1
        BY <1>1
      <4>2. Latest(u, 1)
        BY <1>1, <3>1, <3>3, <4>1 DEF Latest
      <4>3. Head(u) = l
        BY <1>1, <1>6, <4>2 DEF Told
      <4>. QED
        BY <2>1, <3>3, <4>3 DEF Told
    <3>. QED
      BY <3>2, <3>3
  <2>. QED
    BY <2>2, <2>3
<1>. QED
  BY <1>1, <1>3, <1>4, <1>5, <1>6 DEF v

(***************************************************************************)
(* The session.                                                            *)
(***************************************************************************)
\* Where the inputs lead that the switch gives.
LEMMA SwitchTable ==
  ASSUME NEW s \in States
  PROVE  /\ Apply(s, "Enable") = (IF s = "Disabled" THEN "Listening"
                                  ELSE IF s = "Stopping" THEN "Closing" ELSE s)
         /\ Accepts(s, "Enable") <=> s \in {"Disabled", "Stopping", "Closing"}
         /\ Apply(s, "Disable") = (IF s \in {"Disabled", "Listening", "Failed"} THEN "Disabled"
                                   ELSE "Stopping")
  BY DEF States, Apply, Accepts, Moves

\* The ends of a session and the retry after a failure lead out of it, and keep the switch.
LEMMA EndTable ==
  ASSUME NEW s \in States, NEW input \in {"Finished", "Timeout", "Aborted", "Retry"},
         Accepts(s, input)
  PROVE  /\ Apply(s, input) = (IF ListeningEnabled(s) THEN "Listening" ELSE "Disabled")
         /\ Apply(s, input) \in States /\ Apply("Listening", "Failed") = "Failed"
         /\ s # "Disabled"
  BY DEF States, Apply, Accepts, Moves, ListeningEnabled

\* Other steps of a session stay in it, and keep the switch.
LEMMA GoesTable ==
  ASSUME NEW s \in States, NEW input \in {"SpeechStarted", "Connected", "IdleTimeout"},
         Accepts(s, input)
  PROVE  /\ Apply(s, input) \in {"Connecting", "Streaming", "Closing"}
         /\ s \in {"Listening", "Connecting", "Streaming"}
  BY DEF States, Apply, Accepts, Moves

\* A failure keeps the switch, where there was listening or a session to stop; and where
\* a failure and a stop lead.
LEMMA FailsTable ==
  ASSUME NEW s \in States
  PROVE  /\ s # "Disabled" => Apply(s, "Failed") = IF ListeningEnabled(s) THEN "Failed"
                                                   ELSE "Disabled"
         /\ Apply(s, "Failed") \in {"Failed", "Disabled"}
         /\ Apply(Apply(s, "Failed"), "Disable") = "Disabled"
  BY DEF States, Apply, Accepts, Moves, ListeningEnabled

\* What is told of a step is the state it leads to, and touches no copy.
LEMMA Tells ==
  ASSUME NEW u \in Seq(Update), NEW t, NEW a \in States, NEW b \in States,
         Told(u, t, Label(a)), NEW v,
         v = u \o <<Label(b)>> \/ (v = u \o <<>> /\ Label(b) = Label(a))
  PROVE  v \in Seq(Update) /\ Told(v, t, Label(b)) /\ SameCopies(u, v)
<1>1. CASE v = u \o <<Label(b)>>
  <2>. DEFINE l == Label(b)
  <2>1. l \in Labels
    BY Kinds
  <2>. HIDE DEF l
  <2>2. /\ u \o <<l>> \in Seq(Update) /\ Told(u \o <<l>>, t, l)
        /\ CopyIn(u \o <<l>>) <=> CopyIn(u)
        /\ \A s, r : Copied(u, s, r) => Copied(u \o <<l>>, s, r)
        /\ \A r : Current(u, r) => Current(u \o <<l>>, r)
    BY <2>1, LabelAdded
  <2>3. SameCopies(u, u \o <<l>>)
    BY <2>2 DEF SameCopies
  <2>4. v = u \o <<l>> /\ l = Label(b)
    BY <1>1 DEF l
  <2>. QED
    BY <2>2, <2>3, <2>4
<1>2. CASE v = u \o <<>> /\ Label(b) = Label(a)
  <2>1. v = u
    BY <1>2, ConcatEmptySeq
  <2>2. SameCopies(u, u)
    BY DEF SameCopies
  <2>. QED
    BY <1>2, <2>1, <2>2
<1>. QED
  BY <1>1, <1>2

LEMMA SameCopiesTwice ==
  ASSUME NEW u, NEW v, NEW w, SameCopies(u, v), SameCopies(v, w)
  PROVE  SameCopies(u, w)
  BY DEF SameCopies

\* What a step of the controller leaves behind that has told u, in a state s, and was to
\* listen or not.
Left(u, t, s, listening) ==
  /\ session' \in States /\ capture' \in Mics \cup {"none"}
  /\ recovers' \in BOOLEAN /\ greeting' \in BOOLEAN /\ putOff' \in BOOLEAN
  /\ Fits(listening, session', capture', putOff')
  /\ s \in During /\ pending' # Nothing => session' \in During
  /\ updates' \in Seq(Update) /\ Told(updates', t, Label(session')) /\ SameCopies(u, updates')

\* A connection that wants attention ends the session.
LEMMA Requiring ==
  ASSUME Forms, ~Trouble("session"), NEW s \in States, NEW told, NEW t,
         updates \o told \in Seq(Update), Told(updates \o told, t, Label(s)),
         Requires(s, told), NEW listening \in BOOLEAN
  PROVE  Left(updates \o told, t, s, listening)
<1>. DEFINE u == updates \o told
<1>1. /\ session' = "Disabled" /\ capture' = "none" /\ greeting' = FALSE /\ putOff' = TRUE
      /\ recovers' = recovers /\ updates' = u \o <<Label("Disabled")>>
      /\ s = "Disabled" \/ pending' = Nothing
  BY FailsTable DEF Requires
<1>. HIDE DEF u
<1>2. "Disabled" \in States
  BY DEF States
<1>3. updates' \in Seq(Update) /\ Told(updates', t, Label("Disabled")) /\ SameCopies(u, updates')
  <2>1. u \in Seq(Update) /\ Told(u, t, Label(s))
    BY DEF u
  <2>2. updates' = u \o <<Label("Disabled")>>
    BY <1>1
  <2>3. PICK b \in States : b = "Disabled"
    BY <1>2
  <2>4. updates' = u \o <<Label(b)>>
    BY <2>2, <2>3
  <2>5. updates' \in Seq(Update) /\ Told(updates', t, Label(b)) /\ SameCopies(u, updates')
    BY <2>1, <2>4, Tells
  <2>. QED
    BY <2>3, <2>5
<1>4. Fits(listening, session', capture', putOff')
  BY <1>1 DEF Fits, Heard, ListeningEnabled
<1>5. s \in During /\ pending' # Nothing => session' \in During
  BY <1>1 DEF During
<1>. QED
  BY <1>1, <1>2, <1>3, <1>4, <1>5 DEF Left, Forms, u

\* Listening that is wanted goes on, fails or is put off.
LEMMA Enabling ==
  ASSUME Forms, ~Trouble("session"), Heard(session, capture), NEW s \in Settings,
         s.listening, NEW told, NEW t, NEW works \in BOOLEAN,
         updates \o told \in Seq(Update), Told(updates \o told, t, Label(session)),
         Enables(s, told, works)
  PROVE  Left(updates \o told, t, session, TRUE)
<1>. DEFINE u == updates \o told
<1>1. session \in States /\ capture \in Mics \cup {"none"} /\ s.mic \in Mics /\ s.mic # "none"
  BY DEF Forms, Settings
<1>2. CASE Attention
  BY <1>1, <1>2, Requiring DEF Enables
<1>3. CASE ~Attention
  <2>. DEFINE fails == session = "Disabled" /\ Opening(s.mic, works) = "none"
  <2>1. /\ session' = IF fails THEN Apply(Apply(session, "Enable"), "Failed")
                      ELSE Apply(session, "Enable")
        /\ capture' = IF session = "Disabled" THEN Opening(s.mic, works) ELSE capture
        /\ updates' = u \o IF Accepts(session, "Enable") THEN <<Label(session')>> ELSE <<>>
        /\ recovers' = (recovers /\ session # "Disabled")
        /\ greeting' = (greeting /\ ~fails) /\ putOff' = FALSE
    BY <1>3 DEF Enables
  <2>2. Opening(s.mic, works) \in Mics \cup {"none"}
    BY <1>1 DEF Opening
  <2>. HIDE DEF u
  <2>3. Apply("Listening", "Failed") = "Failed"
    BY DEF Apply, Accepts, Moves
  <2>4. session' = (IF fails THEN "Failed" ELSE IF session = "Disabled" THEN "Listening"
                    ELSE IF session = "Stopping" THEN "Closing" ELSE session)
    BY <1>1, <2>1, <2>3, SwitchTable
  <2>5. session' \in States /\ ListeningEnabled(session') /\ capture' \in Mics \cup {"none"}
    BY <1>1, <2>1, <2>2, <2>4 DEF States, ListeningEnabled
  <2>6. session' \in {"Listening", "Connecting", "Streaming"} => capture' # "none"
    BY <1>1, <2>1, <2>4 DEF Heard
  <2>7. Fits(TRUE, session', capture', putOff')
    BY <2>5, <2>6 DEF Fits, Heard
  <2>8. session \in During => session' \in During
    BY <2>4 DEF During
  <2>9. \/ updates' = u \o <<Label(session')>>
        \/ updates' = u \o <<>> /\ Label(session') = Label(session)
    <3>1. CASE Accepts(session, "Enable")
      BY <2>1, <3>1
    <3>2. CASE ~Accepts(session, "Enable")
      <4>1. session' = session
        BY <1>1, <2>4, <3>2, SwitchTable
      <4>. QED
        BY <2>1, <3>2, <4>1
    <3>. QED
      BY <3>1, <3>2
  <2>10. u \in Seq(Update) /\ Told(u, t, Label(session))
    BY DEF u
  <2>11. /\ updates' \in Seq(Update) /\ Told(updates', t, Label(session'))
         /\ SameCopies(u, updates')
    BY <1>1, <2>5, <2>9, <2>10, Tells
  <2>12. recovers' \in BOOLEAN /\ greeting' \in BOOLEAN /\ putOff' \in BOOLEAN
    BY <2>1 DEF Forms
  <2>. QED
    BY <2>5, <2>7, <2>8, <2>11, <2>12 DEF Left, u
<1>. QED
  BY <1>2, <1>3

\* Listening is stopped.
LEMMA Silencing ==
  ASSUME Forms, NEW told, NEW t, NEW chosen \in BOOLEAN,
         updates \o told \in Seq(Update), Told(updates \o told, t, Label(session)),
         Silences(told, chosen), NEW listening \in BOOLEAN, listening => ~chosen
  PROVE  Left(updates \o told, t, session, listening)
<1>. DEFINE u == updates \o told
<1>1. /\ session' = Apply(session, "Disable") /\ capture' = "none"
      /\ updates' = u \o Silenced /\ putOff' = ~chosen
      /\ greeting' = FALSE /\ recovers' = (recovers /\ session # "Failed")
  BY DEF Silences
<1>. HIDE DEF u
<1>2. session \in States
  BY DEF Forms
<1>3. session' = (IF session \in {"Disabled", "Listening", "Failed"} THEN "Disabled"
                  ELSE "Stopping")
  BY <1>1, <1>2, SwitchTable
<1>4. session' \in States /\ ~ListeningEnabled(session')
      /\ (session \in During => session' \in During)
  BY <1>3 DEF States, ListeningEnabled, During
<1>5. Fits(listening, session', capture', putOff')
  <2>1. session' \notin {"Listening", "Connecting", "Streaming"} /\ capture' = "none"
    BY <1>1, <1>3
  <2>2. listening => putOff'
    BY <1>1
  <2>. QED
    BY <1>4, <2>1, <2>2 DEF Fits, Heard
<1>6. \/ updates' = u \o <<Label(session')>>
      \/ updates' = u \o <<>> /\ Label(session') = Label(session)
  <2>1. CASE session \in {"Disabled", "Stopping"}
    <3>1. session' = session
      BY <1>3, <2>1
    <3>. QED
      BY <1>1, <2>1, <3>1 DEF Silenced
  <2>2. CASE session \notin {"Disabled", "Stopping"}
    BY <1>1, <2>2 DEF Silenced
  <2>. QED
    BY <2>1, <2>2
<1>7. u \in Seq(Update) /\ Told(u, t, Label(session))
  BY DEF u
<1>8. updates' \in Seq(Update) /\ Told(updates', t, Label(session')) /\ SameCopies(u, updates')
  BY <1>2, <1>4, <1>6, <1>7, Tells
<1>9. recovers' \in BOOLEAN /\ greeting' \in BOOLEAN /\ putOff' \in BOOLEAN
  BY <1>1 DEF Forms
<1>. QED
  BY <1>1, <1>4, <1>5, <1>8, <1>9 DEF Left, u

\* The switch is obeyed, as far as the connection and the microphone let it: the session,
\* the microphone and the tray follow it.
LEMMA Following ==
  ASSUME Forms, ~Trouble("session"), Heard(session, capture), NEW s \in Settings, NEW told,
         NEW works \in BOOLEAN,
         updates \o told \in Seq(Update), Told(updates \o told, tray, Label(session)),
         Follows(s, told, works)
  PROVE  Left(updates \o told, tray, session, s.listening) /\ login' \in BOOLEAN
<1>. DEFINE u == updates \o told
<1>1. s.listening \in BOOLEAN /\ session \in States
  BY DEF Settings, Forms
<1>2. CASE ~s.listening /\ Silences(told, TRUE) /\ UNCHANGED login
  <2>1. s.listening = FALSE
    BY <1>1, <1>2
  <2>2. Left(u, tray, session, FALSE)
    BY <1>2, Silencing
  <2>. QED
    BY <1>2, <2>1, <2>2 DEF Forms
<1>3. CASE s.listening /\ Enables(s, told, works) /\ UNCHANGED login
  <2>1. Left(u, tray, session, TRUE)
    BY <1>3, Enabling
  <2>. QED
    BY <1>1, <1>3, <2>1 DEF Forms
<1>4. CASE /\ s.listening /\ StartsLogin /\ updates' = u
           /\ putOff' = TRUE /\ UNCHANGED <<session, capture, recovers>>
  <2>1. Fits(s.listening, session', capture', putOff')
    BY <1>4 DEF Fits
  <2>2. greeting' = FALSE /\ login' \in BOOLEAN
    BY <1>4 DEF StartsLogin, Forms
  <2>. HIDE DEF u
  <2>3. SameCopies(u, updates')
    BY <1>4 DEF SameCopies
  <2>4. Label(session') = Label(session)
    BY <1>4
  <2>5. updates' \in Seq(Update) /\ Told(updates', tray, Label(session'))
    BY <1>4, <2>4 DEF u
  <2>. QED
    BY <1>4, <2>1, <2>2, <2>3, <2>5 DEF Left, Forms, u
<1>. QED
  BY <1>2, <1>3, <1>4 DEF Follows

(***************************************************************************)
(* The steps of the user interface.                                        *)
(***************************************************************************)
\* Whatever is on its way, typed or waiting is of an application that runs.
LEMMA Running ==
  ASSUME Agree, commands # <<>> \/ updates # <<>> \/ window # Closed \/ pending # Nothing
  PROVE  up = TRUE
  BY DEF Agree, Down, Forms

\* A step of the window alone.
LEMMA WindowKeepsAgree ==
  ASSUME Agree,
         UNCHANGED <<file, up, control, commands, updates, shown, tray>>,
         window' = Closed \/ (up = TRUE /\ window' \in [original : Settings, form : Entries])
  PROVE  Agree'
<1>1. Forms'
  BY DEF Agree, Forms, control, runtime
<1>2. Down' /\ Readable' /\ InFile' /\ Waiting' /\ Switched'
  BY DEF Agree, Down, Readable, InFile, Kept, Read, Waiting, Switched, control, runtime
<1>3. Shown' /\ Settled' /\ TrayTold'
  BY DEF Agree, Shown, Settled, TrayTold, Read, control, runtime
<1>. QED
  BY <1>1, <1>2, <1>3 DEF Agree

LEMMA OpensWindowAgrees == Agree /\ OpensWindow => Agree'
<1>. SUFFICES ASSUME Agree, OpensWindow PROVE Agree'
  OBVIOUS
<1>1. up = TRUE /\ shown \in Settings
  BY DEF Agree, Forms, OpensWindow
<1>2. window' \in [original : Settings, form : Entries]
  BY <1>1, WindowFilled DEF OpensWindow
<1>. QED
  BY <1>1, <1>2, WindowKeepsAgree DEF OpensWindow

LEMMA FillsAgrees ==
  ASSUME Agree, NEW entry \in Entries, Fills(entry) PROVE Agree'
<1>1. up = TRUE /\ window \in [original : Settings, form : Entries]
  BY Running DEF Agree, Forms, Fills
<1>2. window' \in [original : Settings, form : Entries]
  BY <1>1 DEF Fills
<1>. QED
  BY <1>1, <1>2, WindowKeepsAgree DEF Fills

LEMMA DismissesAgrees == Agree /\ Dismisses => Agree'
  BY WindowKeepsAgree DEF Dismisses

\* What is saved is in the file, on its way to the controller and shown.
LEMMA SavesAgrees ==
  ASSUME Agree, ~Trouble("write"), ~Trouble("hurry"), NEW well \in BOOLEAN, Saves(well)
  PROVE  Agree'
<1>1. up = TRUE /\ window \in [original : Settings, form : Entries]
  BY Running DEF Agree, Forms, Saves
<1>. DEFINE s == Filled
<1>2. s \in Settings
  BY <1>1, WindowFilled
<1>. HIDE DEF s
<1>3. well = TRUE
  BY DEF Saves, Write
<1>4. file' = s /\ shown' = s /\ window' = Closed /\ commands = <<>> /\ updates = <<>>
  BY <1>3 DEF Saves, Write, Unhurried, s
<1>5. commands' = <<s>>
  BY <1>3, <1>4 DEF Saves, s
<1>6. UNCHANGED <<up, control, updates, tray>>
  BY DEF Saves
<1>7. Read' = s /\ Head(commands') = s /\ s # Nothing
  BY <1>2, <1>4, <1>5, Kinds DEF Read
<1>8. Forms'
  BY <1>2, <1>4, <1>5, <1>6 DEF Agree, Forms, control, runtime
<1>9. Down' /\ InFile' /\ Waiting' /\ Switched'
  BY <1>1, <1>5, <1>6, <1>7 DEF Agree, Down, InFile, Waiting, Switched, control, runtime
<1>10. Readable'
  BY <1>2, <1>4, Kinds DEF Readable
<1>11. updates' = <<>> /\ ~CopyIn(<<>>) /\ Current(<<>>, s)
  BY <1>4, <1>6 DEF CopyIn, Current
<1>12. Shown' /\ Settled'
  BY <1>4, <1>7, <1>11 DEF Shown, Copied, Settled
<1>13. TrayTold'
  BY <1>6 DEF Agree, TrayTold, control, runtime
<1>. QED
  BY <1>8, <1>9, <1>10, <1>12, <1>13 DEF Agree

\* A switch is asked for with nothing on its way.
LEMMA SwitchesAgrees ==
  ASSUME Agree, ~Trouble("hurry"), Switches
  PROVE  Agree'
<1>1. up = TRUE
  BY DEF Agree, Forms, Switches
<1>2. commands = <<>> /\ updates = <<>>
  BY DEF Switches, Unhurried
<1>3. commands' = <<Nothing>> /\ Head(commands') = Nothing
  BY <1>2 DEF Switches
<1>4. UNCHANGED <<file, up, control, updates, shown, tray, window>>
  BY DEF Switches, interface
<1>5. Forms'
  BY <1>3, <1>4 DEF Agree, Forms, control, runtime
<1>6. Down' /\ Readable' /\ Waiting' /\ Switched'
  BY <1>1, <1>4 DEF Agree, Down, Readable, Waiting, Switched, control, runtime
<1>7. InFile'
  BY <1>1, <1>2, <1>3, <1>4 DEF Agree, InFile, Kept, Read, control, runtime
<1>8. Shown' /\ TrayTold'
  BY <1>4 DEF Agree, Shown, TrayTold, Read, control, runtime
<1>9. Settled'
  BY <1>2, <1>4 DEF Settled, CopyIn
<1>. QED
  BY <1>5, <1>6, <1>7, <1>8, <1>9 DEF Agree

\* The oldest piece of news is taken: a copy, or what the tray is to say.
LEMMA NewsKeepsAgree ==
  ASSUME Agree, updates # <<>>, updates' = Tail(updates),
         UNCHANGED <<file, up, control, commands, window>>,
         shown' = IF Head(updates) \in Settings THEN Head(updates) ELSE shown,
         tray' = IF Head(updates) \in Settings THEN tray ELSE Head(updates)
  PROVE  Agree'
<1>1. up = TRUE /\ updates \in Seq(Update)
  BY Running DEF Agree, Forms
<1>2. /\ Head(updates) \in Update /\ Tail(updates) \in Seq(Update)
      /\ CopyIn(Tail(updates)) => CopyIn(updates)
      /\ \A r : Current(updates, r) => Current(Tail(updates), r)
      /\ \A s, r : Copied(updates, s, r) /\ Current(updates, r) =>
           Copied(Tail(updates), IF Head(updates) \in Settings THEN Head(updates) ELSE s, r)
      /\ \A t, l : Told(updates, t, l) =>
           Told(Tail(updates), IF Head(updates) \in Settings THEN t ELSE Head(updates), l)
  BY <1>1, NewsTaken
<1>3. Forms'
  BY <1>2 DEF Agree, Forms, Update, control, runtime
<1>4. Down' /\ Readable' /\ InFile' /\ Waiting' /\ Switched'
  BY <1>1 DEF Agree, Down, Readable, InFile, Kept, Read, Waiting, Switched, control, runtime
<1>5. Read' = Read /\ Label(session)' = Label(session)
  BY DEF Read, control, runtime, Label
<1>6. Shown'
  BY <1>1, <1>2, <1>5 DEF Agree, Shown
<1>7. Settled'
  BY <1>2 DEF Agree, Settled
<1>8. TrayTold'
  BY <1>1, <1>2, <1>5 DEF Agree, TrayTold
<1>. QED
  BY <1>3, <1>4, <1>6, <1>7, <1>8 DEF Agree

LEMMA NewsAgrees == Agree /\ (IsShown \/ TrayTells) => Agree'
<1>1. ASSUME Agree, IsShown PROVE Agree'
  BY <1>1, NewsKeepsAgree DEF IsShown
<1>2. ASSUME Agree, TrayTells PROVE Agree'
  BY <1>2, NewsKeepsAgree DEF TrayTells
<1>. QED
  BY <1>1, <1>2

(***************************************************************************)
(* The steps of the controller.                                            *)
(***************************************************************************)
\* What holds after a step that leaves behind what it should.
LEMMA LeftForms ==
  ASSUME Agree, UNCHANGED <<up, shown, tray, window>>, NEW u, Left(u, tray, session, held'.listening),
         file' \in Settings \cup {Missing, Torn}, held' \in Settings,
         pending' \in Settings \cup {Nothing}, commands' \in {<<>>, commands},
         ready' \in Readinesses, login' \in BOOLEAN
  PROVE  Forms' /\ Switched' /\ TrayTold'
<1>1. Forms'
  BY DEF Agree, Forms, Left
<1>2. Switched' /\ TrayTold'
  BY DEF Left, Switched, TrayTold
<1>. QED
  BY <1>1, <1>2

\* A step of the controller that leaves no settings on their way to it.
LEMMA ControllerKeepsAgree ==
  ASSUME Agree, up = TRUE, UNCHANGED <<up, shown, tray, window, ready>>, login' \in BOOLEAN,
         file' \in Settings \cup {Missing}, held' \in Settings,
         pending' \in Settings \cup {Nothing}, commands' = <<>>, Kept' = Read', Waiting',
         NEW u, Left(u, tray, session, held'.listening),
         Copied(u, shown, Read'), Current(u, Read')
  PROVE  Agree'
<1>1. Forms' /\ Switched' /\ TrayTold'
  BY LeftForms DEF Agree, Forms
<1>2. Down'
  BY DEF Down
<1>3. Readable'
  BY Kinds DEF Readable
<1>4. InFile'
  BY DEF InFile
<1>5. Copied(updates', shown, Read') /\ Current(updates', Read')
  BY DEF Left, SameCopies
<1>6. Shown' /\ Settled'
  BY <1>5 DEF Shown, Settled
<1>. QED
  BY <1>1, <1>2, <1>3, <1>4, <1>6 DEF Agree

\* A command that is there is the only one.
LEMMA Only ==
  ASSUME Agree, commands # <<>>
  PROVE  /\ up = TRUE /\ commands = <<Head(commands)>> /\ Tail(commands) = <<>>
         /\ Head(commands) \in Settings \cup {Nothing} /\ ~CopyIn(updates)
<1>1. PICK x \in Settings \cup {Nothing} : commands = <<x>>
  BY DEF Agree, Forms
<1>2. Head(commands) = x /\ Tail(commands) = <<>>
  BY <1>1
<1>. QED
  BY <1>1, <1>2, Running DEF Agree, Settled

\* A switch turns the settings in force and those that wait, and saves the latter, if any.
LEMMA TogglesAgrees ==
  ASSUME Agree, ~Trouble("write"), ~Trouble("session"), NEW well \in BOOLEAN,
         NEW works \in BOOLEAN, Toggles(well, works)
  PROVE  Agree'
<1>. DEFINE kept == IF pending' = Nothing THEN held' ELSE pending'
<1>1. /\ up = TRUE /\ commands' = <<>> /\ ~CopyIn(updates)
      /\ held \in Settings /\ pending \in Settings \cup {Nothing}
      /\ updates \in Seq(Update) /\ Heard(session, capture)
  BY Only DEF Toggles, Agree, Forms, Switched, Fits
<1>2. /\ held' = [held EXCEPT !.listening = ~@] /\ pending' = Both(held')
      /\ Write(kept, well) /\ Follows(held', <<kept>>, works)
      /\ UNCHANGED <<up, shown, tray, window, ready>>
  BY DEF Toggles, interface
<1>3. held' \in Settings
  BY <1>1, <1>2 DEF Settings
<1>4. /\ pending' \in Settings \cup {Nothing}
      /\ pending' # Nothing => pending # Nothing /\ pending'.listening = held'.listening
  <2>1. CASE pending = Nothing
    BY <1>2, <2>1 DEF Both
  <2>2. CASE pending # Nothing
    <3>1. pending' = [pending EXCEPT !.listening = held'.listening] /\ pending \in Settings
      BY <1>1, <1>2, <2>2 DEF Both
    <3>2. pending' \in Settings /\ pending'.listening = held'.listening
      BY <1>3, <3>1 DEF Settings
    <3>. QED
      BY <2>2, <3>2
  <2>. QED
    BY <2>1, <2>2
<1>5. kept \in Settings /\ kept = Kept'
  BY <1>3, <1>4 DEF Kept
<1>6. well = TRUE /\ file' = kept
  BY <1>2 DEF Write
<1>. HIDE DEF kept
<1>7. Read' = kept
  BY <1>5, <1>6, Kinds DEF Read
<1>8. Told(updates, tray, Label(session))
  BY <1>1 DEF Agree, TrayTold
<1>. DEFINE u == updates \o <<kept>>
<1>9. u \in Seq(Update) /\ CopyIn(u) /\ Current(u, kept) /\ Told(u, tray, Label(session))
  BY <1>1, <1>5, <1>8, CopyAdded
<1>10. Left(u, tray, session, held'.listening) /\ login' \in BOOLEAN
  BY <1>1, <1>2, <1>3, <1>9, Following DEF Agree
<1>. HIDE DEF u
<1>11. Waiting'
  BY <1>4, <1>10 DEF Agree, Waiting, Left
<1>12. Copied(u, shown, Read') /\ Current(u, Read')
  BY <1>7, <1>9 DEF Copied
<1>. QED
  BY <1>1, <1>2, <1>3, <1>4, <1>5, <1>6, <1>7, <1>10, <1>11, <1>12, ControllerKeepsAgree

\* What both ways of taking settings have in common.
LEMMA TakenAgrees ==
  ASSUME Agree, ~Trouble("session"), commands # <<>>, commands' = <<>>,
         UNCHANGED <<file, up, shown, tray, window, ready>>,
         NEW s \in Settings, s = Head(commands), NEW works \in BOOLEAN,
         held' \in Settings, held'.listening = s.listening,
         (pending' = Nothing /\ held' = s) \/ (pending' = s /\ session \in During),
         IF Turned(s) THEN Follows(held', <<>>, works)
         ELSE /\ UNCHANGED <<session, recovers, greeting, putOff, login, updates>>
              /\ capture' \in Mics \cup {"none"} /\ (capture' = "none" <=> capture = "none")
  PROVE  Agree'
<1>1. /\ up = TRUE /\ s # Nothing /\ updates \in Seq(Update) /\ session \in States
      /\ held \in Settings /\ held.listening \in BOOLEAN /\ s.listening \in BOOLEAN
  BY Only, Kinds DEF Agree, Forms, Settings
<1>2. /\ file \in Settings \cup {Missing} /\ s = Read /\ Read' = Read
      /\ Told(updates, tray, Label(session))
      /\ Copied(updates, shown, Read) /\ Current(updates, Read)
  BY <1>1 DEF Agree, Forms, Readable, InFile, Shown, TrayTold, Read
<1>3. Kept' = s /\ pending' \in Settings \cup {Nothing}
  BY <1>1 DEF Kept
<1>4. Left(updates, tray, session, held'.listening) /\ login' \in BOOLEAN
  <2>1. CASE Turned(s)
    <3>1. updates \o <<>> = updates
      BY <1>1, ConcatEmptySeq
    <3>2. /\ updates \o <<>> \in Seq(Update) /\ Told(updates \o <<>>, tray, Label(session))
          /\ Follows(held', <<>>, works) /\ Forms /\ Heard(session, capture)
      BY <1>1, <1>2, <2>1, <3>1 DEF Agree, Switched, Fits
    <3>3. Left(updates \o <<>>, tray, session, held'.listening) /\ login' \in BOOLEAN
      BY <3>2, Following
    <3>. QED
      BY <3>1, <3>3
  <2>2. CASE ~Turned(s)
    <3>1. /\ UNCHANGED <<session, updates, putOff>> /\ s.listening = ListeningEnabled(session)
          /\ capture' = "none" <=> capture = "none"
      BY <2>2 DEF Turned
    <3>2. Fits(held'.listening, session', capture', putOff')
      BY <1>1, <3>1 DEF Agree, Switched, Fits, Heard
    <3>3. SameCopies(updates, updates')
      BY <3>1 DEF SameCopies
    <3>4. Label(session') = Label(session)
      BY <3>1
    <3>. QED
      BY <1>1, <1>2, <2>2, <3>1, <3>2, <3>3, <3>4 DEF Left, Agree, Forms
  <2>. QED
    BY <2>1, <2>2
<1>5. Waiting'
  BY <1>4 DEF Waiting, Left
<1>. QED
  BY <1>1, <1>2, <1>3, <1>4, <1>5, ControllerKeepsAgree

LEMMA UpdatesAgrees ==
  ASSUME Agree, ~Trouble("session"), NEW works \in BOOLEAN, Updates(works) PROVE Agree'
<1>. DEFINE s == Head(commands)
<1>1. /\ commands # <<>> /\ commands' = <<>> /\ s \in Settings
      /\ UNCHANGED <<file, up, shown, tray, window, ready>>
      /\ held \in Settings /\ session \in States /\ capture \in Mics \cup {"none"}
  BY Only DEF Updates, interface, Agree, Forms
<1>2. TakesAtOnce(s, works) \/ TakesLater(s, works)
  BY DEF Updates, LosesMicrophone
<1>. HIDE DEF s
<1>3. CASE TakesAtOnce(s, works)
  <2>1. pending = Nothing
    BY <1>3 DEF TakesAtOnce, AtOnce, Agree, Waiting, During
  <2>2. pending' = Nothing /\ held' = s
    BY <1>3, <2>1 DEF TakesAtOnce
  <2>3. IF Turned(s) THEN Follows(held', <<>>, works)
        ELSE UNCHANGED <<session, recovers, greeting, putOff, login, updates, capture>>
    BY <1>3, <2>2 DEF TakesAtOnce, runtime
  <2>. QED
    BY <1>1, <2>2, <2>3, TakenAgrees DEF s
<1>4. CASE TakesLater(s, works)
  <2>1. session \in During /\ pending' = s
    BY <1>1, <1>4 DEF TakesLater, AtOnce, States, During
  <2>2. held' \in Settings /\ held'.listening = s.listening
    BY <1>1, <1>4 DEF TakesLater, Settings
  <2>3. IF Turned(s) THEN Follows(held', <<>>, works)
        ELSE /\ UNCHANGED <<session, recovers, greeting, putOff, login, updates>>
             /\ capture' \in Mics \cup {"none"} /\ (capture' = "none" <=> capture = "none")
    <3>1. s.mic \in Mics /\ s.mic # "none"
      BY <1>1 DEF Settings
    <3>. QED
      BY <1>1, <1>4, <3>1 DEF TakesLater, Reopens
  <2>. QED
    BY <1>1, <2>1, <2>2, <2>3, TakenAgrees DEF s
<1>. QED
  BY <1>2, <1>3, <1>4

\* A step of the session or of the connection, with or without the end of a wait for it.
LEMMA SessionKeepsAgree ==
  ASSUME Agree, up = TRUE, UNCHANGED <<file, up, commands, shown, tray, window>>,
         held' \in Settings, pending' \in Settings \cup {Nothing}, Kept' = Kept, Waiting',
         ready' \in Readinesses, login' \in BOOLEAN,
         Left(updates, tray, session, held'.listening)
  PROVE  Agree'
<1>1. Forms' /\ Switched' /\ TrayTold'
  BY LeftForms DEF Agree, Forms
<1>2. Down' /\ Readable'
  BY DEF Agree, Down, Readable
<1>3. Read' = Read
  BY DEF Read
<1>4. InFile'
  BY <1>3 DEF Agree, InFile
<1>5. Shown'
  BY <1>3 DEF Agree, Shown, Left, SameCopies
<1>6. Settled'
  BY DEF Agree, Settled, Left, SameCopies
<1>. QED
  BY <1>1, <1>2, <1>4, <1>5, <1>6 DEF Agree

\* One that leaves the settings alone.
LEMMA RuntimeKeepsAgree ==
  ASSUME Agree, up = TRUE, UNCHANGED <<file, up, held, pending, commands, shown, tray, window>>,
         ready' \in Readinesses, login' \in BOOLEAN,
         Left(updates, tray, session, held.listening)
  PROVE  Agree'
<1>1. held \in Settings /\ pending \in Settings \cup {Nothing}
  BY DEF Agree, Forms
<1>2. Kept' = Kept /\ Left(updates, tray, session, held'.listening)
  BY DEF Kept
<1>3. Waiting'
  BY DEF Agree, Waiting, Left
<1>. QED
  BY <1>1, <1>2, <1>3, SessionKeepsAgree

LEMMA GoesAgrees == Agree /\ Goes => Agree'
<1>. SUFFICES ASSUME Agree, Goes PROVE Agree'
  OBVIOUS
<1>1. PICK input \in {"SpeechStarted", "Connected", "IdleTimeout"} :
        Accepts(session, input) /\ session' = Apply(session, input)
  BY DEF Goes
<1>2. /\ up = TRUE /\ session \in States /\ updates \in Seq(Update)
      /\ ready \in Readinesses /\ login \in BOOLEAN
  BY DEF Goes, Agree, Forms
<1>3. /\ UNCHANGED <<file, up, held, pending, capture, recovers, putOff, ready, login, commands,
                     shown, tray, window>>
      /\ updates' = updates \o <<Label(session')>> /\ greeting' = FALSE
  BY DEF Goes, interface
<1>4. /\ session' \in {"Connecting", "Streaming", "Closing"}
      /\ session \in {"Listening", "Connecting", "Streaming"}
  BY <1>1, <1>2, GoesTable
<1>5. session' \in States /\ session' \in During /\ ListeningEnabled(session')
  BY <1>4 DEF States, During, ListeningEnabled
<1>6. Fits(held.listening, session', capture', putOff')
  BY <1>2, <1>3, <1>4, <1>5 DEF Agree, Switched, Fits, Heard, ListeningEnabled
<1>7. Told(updates, tray, Label(session))
  BY <1>2 DEF Agree, TrayTold
<1>8. /\ updates' \in Seq(Update) /\ Told(updates', tray, Label(session'))
      /\ SameCopies(updates, updates')
  BY <1>2, <1>3, <1>5, <1>7, Tells
<1>9. Left(updates, tray, session, held.listening)
  BY <1>3, <1>5, <1>6, <1>8 DEF Left, Agree, Forms
<1>. QED
  BY <1>2, <1>3, <1>9, RuntimeKeepsAgree

\* A session that fails leaves nothing waiting when nothing waited.
LEMMA FailsAgrees == Agree /\ ~Trouble("session") /\ ~Trouble("worker") /\ Fails => Agree'
<1>. SUFFICES ASSUME Agree, ~Trouble("session"), ~Trouble("worker"), Fails PROVE Agree'
  OBVIOUS
<1>1. /\ pending = Nothing /\ session # "Disabled" /\ session' = Apply(session, "Failed")
      /\ updates' = updates \o <<Label(session')>>
      /\ capture' \in {capture, "none"} /\ recovers' \in BOOLEAN /\ greeting' = FALSE
      /\ UNCHANGED <<file, up, held, pending, putOff, ready, login, commands, shown, tray, window>>
  BY DEF Fails, interface
<1>2. /\ up = TRUE /\ session \in States /\ updates \in Seq(Update)
      /\ ready \in Readinesses /\ login \in BOOLEAN
  BY DEF Fails, Agree, Forms
<1>3. session' = IF ListeningEnabled(session) THEN "Failed" ELSE "Disabled"
  BY <1>1, <1>2, FailsTable
<1>4. session' \in States /\ (ListeningEnabled(session') <=> ListeningEnabled(session))
  BY <1>3 DEF States, ListeningEnabled
<1>5. Fits(held.listening, session', capture', putOff')
  BY <1>1, <1>2, <1>3, <1>4 DEF Agree, Switched, Fits, Heard
<1>6. Told(updates, tray, Label(session))
  BY <1>2 DEF Agree, TrayTold
<1>7. /\ updates' \in Seq(Update) /\ Told(updates', tray, Label(session'))
      /\ SameCopies(updates, updates')
  BY <1>1, <1>2, <1>4, <1>6, Tells
<1>8. Left(updates, tray, session, held.listening)
  BY <1>1, <1>4, <1>5, <1>7 DEF Left, Agree, Forms
<1>. QED
  BY <1>1, <1>2, <1>8, RuntimeKeepsAgree

\* What waited for the end of the session is in force, and agrees on the switch: so the
\* session is not switched off, and the microphone is open or the session has failed.
LEMMA EndsAgrees == ASSUME Agree, NEW works \in BOOLEAN, Ends(works) PROVE Agree'
<1>1. /\ up = TRUE /\ session \in States /\ updates \in Seq(Update)
      /\ held \in Settings /\ pending \in Settings \cup {Nothing}
      /\ capture \in Mics \cup {"none"} /\ ready \in Readinesses /\ login \in BOOLEAN
      /\ UNCHANGED <<file, up, putOff, ready, login, commands, shown, tray, window>>
      /\ pending' = Nothing /\ held' = Kept /\ recovers' = FALSE /\ greeting' = FALSE
  BY DEF Ends, Agree, Forms, interface, Kept
<1>2. held' \in Settings /\ held'.listening = held.listening
  BY <1>1 DEF Kept, Agree, Waiting
<1>3. PICK input \in {"Finished", "Timeout", "Aborted", "Retry"} :
        LET state == Apply(session, input)
            opened == IF state = "Listening" THEN Opening(held.mic, works) ELSE capture
            fails == state = "Listening" /\ opened = "none"
            reached == IF fails THEN Apply(state, "Failed") ELSE state
            told == IF fails THEN <<Label(reached)>> ELSE <<>>
        IN /\ Accepts(session, input)
           /\ session' = reached /\ capture' = opened
           /\ updates' = updates \o <<Label(state)>> \o told
  BY <1>2 DEF Ends
<1>. DEFINE state == Apply(session, input)
            fails == state = "Listening" /\ capture' = "none"
<1>4. /\ state = (IF ListeningEnabled(session) THEN "Listening" ELSE "Disabled")
      /\ state \in States /\ session # "Disabled" /\ Apply("Listening", "Failed") = "Failed"
  BY <1>1, <1>3, EndTable
<1>5. session' = IF fails THEN "Failed" ELSE state
  BY <1>3, <1>4
<1>6. held.mic \in Mics /\ held.mic # "none"
  BY <1>1 DEF Settings
<1>7. capture' \in Mics \cup {"none"} /\ (state = "Disabled" => capture' = capture)
  BY <1>1, <1>3, <1>6 DEF Opening
<1>. DEFINE u == updates \o <<Label(state)>>
<1>8. updates' = u \o <<Label(session')>> \/ (updates' = u \o <<>> /\ session' = state)
  BY <1>3, <1>4
<1>. HIDE DEF state, u
<1>9. session' \in States /\ (ListeningEnabled(session') <=> ListeningEnabled(session))
  BY <1>4, <1>5 DEF States, ListeningEnabled
<1>10. Fits(held'.listening, session', capture', putOff')
  <2>1. capture' # "none" => ListeningEnabled(session')
    BY <1>1, <1>4, <1>7, <1>9 DEF Agree, Switched, Fits, Heard
  <2>2. session' \in {"Listening", "Connecting", "Streaming"} => capture' # "none"
    BY <1>4, <1>5
  <2>. QED
    BY <1>1, <1>2, <1>9, <2>1, <2>2 DEF Agree, Switched, Fits, Heard
<1>11. Told(updates, tray, Label(session))
  BY <1>1 DEF Agree, TrayTold
<1>12. u \in Seq(Update) /\ Told(u, tray, Label(state)) /\ SameCopies(updates, u)
  BY <1>1, <1>4, <1>11, Tells DEF u
<1>13. /\ updates' \in Seq(Update) /\ Told(updates', tray, Label(session'))
       /\ SameCopies(u, updates')
  <2>1. updates' = u \o <<Label(session')>>
        \/ (updates' = u \o <<>> /\ Label(session') = Label(state))
    BY <1>8
  <2>. QED
    BY <1>4, <1>9, <1>12, <2>1, Tells
<1>14. SameCopies(updates, updates')
  BY <1>12, <1>13, SameCopiesTwice
<1>15. Left(updates, tray, session, held'.listening)
  BY <1>1, <1>7, <1>9, <1>10, <1>13, <1>14 DEF Left, Agree, Forms
<1>16. Kept' = Kept /\ Waiting'
  BY <1>1 DEF Kept, Waiting
<1>. QED
  BY <1>1, <1>2, <1>15, <1>16, SessionKeepsAgree

(***************************************************************************)
(* The steps of the connection.                                            *)
(***************************************************************************)
\* What a step may start from: what is on its way, and the session with its microphone.
LEMMA Now ==
  ASSUME Agree, up = TRUE
  PROVE  /\ updates \in Seq(Update) /\ updates \o <<>> = updates /\ session \in States
         /\ Told(updates, tray, Label(session)) /\ Heard(session, capture)
         /\ held \in Settings /\ held.listening \in BOOLEAN
         /\ ready \in Readinesses /\ login \in BOOLEAN
<1>1. updates \in Seq(Update) /\ held \in Settings
  BY DEF Agree, Forms
<1>2. updates \o <<>> = updates
  BY <1>1, ConcatEmptySeq
<1>3. held.listening \in BOOLEAN
  BY <1>1 DEF Settings
<1>. QED
  BY <1>1, <1>2, <1>3 DEF Agree, Forms, Switched, Fits, TrayTold

\* A step that leaves the session alone, and what it has told.
LEMMA Staying ==
  ASSUME Agree, up = TRUE, UNCHANGED <<session, capture, recovers, putOff, updates>>,
         greeting' \in BOOLEAN
  PROVE  Left(updates, tray, session, held.listening)
<1>1. SameCopies(updates, updates')
  BY DEF SameCopies
<1>2. Label(session') = Label(session)
  OBVIOUS
<1>3. Fits(held.listening, session', capture', putOff')
  BY DEF Agree, Switched
<1>. QED
  BY <1>1, <1>2, <1>3, Now DEF Left, Agree, Forms

LEMMA ConnectionChangesAgrees == Agree /\ ConnectionChanges => Agree'
<1>. SUFFICES ASSUME Agree, ConnectionChanges PROVE Agree'
  OBVIOUS
<1>1. /\ UNCHANGED <<file, up, held, pending, session, capture, recovers, greeting, putOff, login,
                     commands, updates, shown, tray, window>>
      /\ ready' \in Readinesses
  BY DEF ConnectionChanges, runtime, interface
<1>2. Forms'
  BY <1>1 DEF Agree, Forms
<1>3. Down' /\ Readable' /\ InFile' /\ Waiting' /\ Switched'
  BY <1>1 DEF Agree, Down, Readable, InFile, Kept, Read, Waiting, Switched
<1>4. Shown' /\ Settled' /\ TrayTold'
  BY <1>1 DEF Agree, Shown, Settled, TrayTold, Read
<1>. QED
  BY <1>2, <1>3, <1>4 DEF Agree

LEMMA LogsInAgrees == Agree /\ LogsIn => Agree'
<1>. SUFFICES ASSUME Agree, LogsIn PROVE Agree'
  OBVIOUS
<1>1. /\ up = TRUE /\ greeting' = FALSE /\ login' \in {login, TRUE}
      /\ UNCHANGED <<file, up, held, pending, session, capture, recovers, putOff, ready,
                     commands, updates, shown, tray, window>>
  BY DEF LogsIn, StartsLogin, interface, Agree, Forms
<1>2. Left(updates, tray, session, held.listening)
  BY <1>1, Staying
<1>3. ready' \in Readinesses /\ login' \in BOOLEAN
  BY <1>1, Now
<1>. QED
  BY <1>1, <1>2, <1>3, RuntimeKeepsAgree

LEMMA LoginEndsAgrees ==
  ASSUME Agree, ~Trouble("session"), NEW works \in BOOLEAN, LoginEnds(works) PROVE Agree'
<1>1. /\ up = TRUE /\ login' = FALSE
      /\ UNCHANGED <<file, up, held, pending, ready, commands, shown, tray, window>>
  BY DEF LoginEnds, interface, Agree, Down, Forms
<1>2. Left(updates, tray, session, held.listening)
  <2>1. CASE UNCHANGED <<runtime, updates>>
    <3>1. UNCHANGED <<session, capture, recovers, putOff, updates, greeting>>
      BY <2>1 DEF runtime
    <3>2. greeting' \in BOOLEAN
      BY <3>1 DEF Agree, Forms
    <3>. QED
      BY <1>1, <3>1, <3>2, Staying
  <2>2. CASE held.listening /\ session = "Disabled" /\ Enables(held, <<>>, works)
    <3>1. Left(updates \o <<>>, tray, session, TRUE)
      BY <1>1, <2>2, Now, Enabling DEF Agree
    <3>2. held.listening = TRUE
      BY <1>1, <2>2, Now
    <3>. QED
      BY <1>1, <3>1, <3>2, Now
  <2>. QED
    BY <2>1, <2>2 DEF LoginEnds
<1>3. ready' \in Readinesses /\ login' \in BOOLEAN
  BY <1>1, Now
<1>. QED
  BY <1>1, <1>2, <1>3, RuntimeKeepsAgree

\* What is told of a stop is the state it leads to.
LEMMA SilencedTells ==
  ASSUME Agree, up = TRUE
  PROVE  /\ updates \o Silenced \in Seq(Update) /\ SameCopies(updates, updates \o Silenced)
         /\ Told(updates \o Silenced, tray, Label(Apply(session, "Disable")))
         /\ Apply(session, "Disable") \in States
         /\ session \in During => Apply(session, "Disable") \in During
<1>. DEFINE s == Apply(session, "Disable")
<1>1. s = (IF session \in {"Disabled", "Listening", "Failed"} THEN "Disabled" ELSE "Stopping")
  BY Now, SwitchTable
<1>2. s \in States /\ (session \in During => s \in During)
  BY <1>1 DEF States, During
<1>3. session \in {"Disabled", "Stopping"} => s = session
  BY <1>1
<1>4. \/ updates \o Silenced = updates \o <<Label(s)>>
      \/ updates \o Silenced = updates \o <<>> /\ Label(s) = Label(session)
  BY <1>3 DEF Silenced
<1>. HIDE DEF s
<1>5. /\ updates \o Silenced \in Seq(Update) /\ SameCopies(updates, updates \o Silenced)
      /\ Told(updates \o Silenced, tray, Label(s))
  BY <1>2, <1>4, Now, Tells
<1>. QED
  BY <1>2, <1>5 DEF s

LEMMA LogsOutAgrees == Agree /\ ~Trouble("session") /\ LogsOut => Agree'
<1>. SUFFICES ASSUME Agree, ~Trouble("session"), LogsOut PROVE Agree'
  OBVIOUS
<1>1. /\ up = TRUE
      /\ UNCHANGED <<file, up, held, pending, ready, login, commands, shown, tray, window>>
  BY DEF LogsOut, interface, Agree, Forms
<1>2. Left(updates, tray, session, held.listening)
  <2>1. CASE Requires(Apply(session, "Disable"), Silenced)
    <3>. DEFINE u == updates \o Silenced
                s == Apply(session, "Disable")
    <3>1. /\ u \in Seq(Update) /\ SameCopies(updates, u) /\ Told(u, tray, Label(s))
          /\ s \in States /\ (session \in During => s \in During)
      BY <1>1, SilencedTells
    <3>2. Left(u, tray, s, held.listening)
      BY <1>1, <2>1, <3>1, Now, Requiring DEF Agree
    <3>. HIDE DEF u, s
    <3>3. SameCopies(updates, updates')
      BY <3>1, <3>2, SameCopiesTwice DEF Left
    <3>. QED
      BY <3>1, <3>2, <3>3 DEF Left
  <2>2. CASE Silences(<<>>, FALSE)
    <3>1. Left(updates \o <<>>, tray, session, held.listening)
      BY <1>1, <2>2, Now, Silencing DEF Agree
    <3>. QED
      BY <1>1, <3>1, Now
  <2>. QED
    BY <2>1, <2>2 DEF LogsOut
<1>3. ready' \in Readinesses /\ login' \in BOOLEAN
  BY <1>1, Now
<1>. QED
  BY <1>1, <1>2, <1>3, RuntimeKeepsAgree

LEMMA TakenOverAgrees == Agree /\ TakenOver => Agree'
<1>. SUFFICES ASSUME Agree, TakenOver PROVE Agree'
  OBVIOUS
<1>1. /\ up = TRUE /\ Silences(<<>>, FALSE)
      /\ UNCHANGED <<file, up, held, pending, ready, login, commands, shown, tray, window>>
  BY DEF TakenOver, interface, Agree, Forms
<1>2. Left(updates \o <<>>, tray, session, held.listening)
  BY <1>1, Now, Silencing DEF Agree
<1>3. ready' \in Readinesses /\ login' \in BOOLEAN /\ updates \o <<>> = updates
  BY <1>1, Now
<1>. QED
  BY <1>1, <1>2, <1>3, RuntimeKeepsAgree

LEMMA SplashEndsAgrees == Agree /\ ~Trouble("session") /\ SplashEnds => Agree'
<1>. SUFFICES ASSUME Agree, ~Trouble("session"), SplashEnds PROVE Agree'
  OBVIOUS
<1>1. /\ up = TRUE
      /\ UNCHANGED <<file, up, held, pending, ready, login, commands, shown, tray, window>>
  BY DEF SplashEnds, interface, Agree, Forms
<1>2. Left(updates, tray, session, held.listening)
  <2>1. CASE Requires(session, <<>>)
    <3>1. /\ session \in States /\ updates \o <<>> \in Seq(Update) /\ held.listening \in BOOLEAN
          /\ Told(updates \o <<>>, tray, Label(session)) /\ Forms
      BY <1>1, Now DEF Agree
    <3>2. Left(updates \o <<>>, tray, session, held.listening)
      BY <2>1, <3>1, Requiring
    <3>. QED
      BY <1>1, <3>2, Now
  <2>2. CASE greeting' = FALSE /\ UNCHANGED <<session, capture, recovers, putOff, updates>>
    BY <1>1, <2>2, Staying
  <2>. QED
    BY <2>1, <2>2 DEF SplashEnds
<1>3. ready' \in Readinesses /\ login' \in BOOLEAN
  BY <1>1, Now
<1>. QED
  BY <1>1, <1>2, <1>3, RuntimeKeepsAgree

(***************************************************************************)
(* Start and crash.                                                        *)
(***************************************************************************)
LEMMA StartsAgrees ==
  ASSUME Agree, ~Trouble("session"), NEW works \in BOOLEAN, Starts(works) PROVE Agree'
<1>1. /\ file \in Settings \cup {Missing} /\ file' = file /\ Read' = Read
      /\ up' = TRUE /\ held' = Read /\ shown' = Read /\ tray' = Label("Disabled")
      /\ commands' = <<>> /\ pending' = Nothing /\ window' = Closed
      /\ session = "Disabled" /\ capture = "none" /\ updates = <<>>
      /\ ready' \in Readinesses /\ login' \in BOOLEAN
  BY DEF Starts, Agree, Forms, Down, Read, NewTray
<1>2. Read \in Settings /\ Read.listening \in BOOLEAN
  <2>1. Read \in Settings
    BY <1>1, Kinds DEF Read
  <2>. QED
    BY <2>1 DEF Settings
<1>3. Label("Disabled") \in Labels /\ "Disabled" \in States
  BY Kinds DEF States
<1>. DEFINE u == updates \o <<Label("Disabled")>>
<1>4. /\ u \in Seq(Update) /\ u = <<Label("Disabled")>> /\ Told(u, tray', Label("Disabled"))
      /\ ~CopyIn(u)
  <2>1. <<>> \in Seq(Update) /\ ~CopyIn(<<>>)
    BY EmptySeq DEF CopyIn
  <2>2. u \in Seq(Update) /\ Told(u, tray', Label("Disabled")) /\ ~CopyIn(u)
    BY <1>1, <1>3, <2>1, LabelAdded
  <2>. QED
    BY <1>1, <2>2
<1>5. Left(u, tray', session, Read.listening)
  <2>1. CASE Read.listening /\ Enables(Read, <<Label("Disabled")>>, works)
    <3>1. Heard(session, capture) /\ Label(session) = Label("Disabled")
      BY <1>1 DEF Heard
    <3>2. Left(u, tray', session, TRUE)
      BY <1>2, <1>4, <2>1, <3>1, Enabling DEF Agree
    <3>. QED
      BY <1>2, <2>1, <3>2
  <2>2. CASE /\ updates' = <<Label("Disabled")>> /\ putOff' = TRUE
             /\ UNCHANGED <<session, capture, recovers, greeting>>
    <3>1. Fits(Read.listening, session', capture', putOff')
      BY <1>1, <2>2 DEF Fits, Heard, ListeningEnabled
    <3>. HIDE DEF u
    <3>2. updates' = u /\ SameCopies(u, u)
      BY <1>4, <2>2 DEF SameCopies
    <3>. QED
      BY <1>1, <1>3, <1>4, <2>2, <3>1, <3>2 DEF Left, Agree, Forms, During
  <2>. QED
    BY <2>1, <2>2 DEF Starts
<1>. HIDE DEF u
<1>6. Current(updates', Read)
  BY <1>4, <1>5 DEF Left, SameCopies, CopyIn, Current
<1>7. Forms'
  BY <1>1, <1>2, <1>3, <1>5 DEF Forms, Left
<1>8. Down' /\ Readable' /\ InFile' /\ Waiting' /\ Switched'
  BY <1>1, <1>5, Kinds DEF Down, Readable, InFile, Kept, Waiting, Switched, Left
<1>9. Shown' /\ Settled' /\ TrayTold'
  BY <1>1, <1>5, <1>6 DEF Shown, Copied, Settled, TrayTold, Left
<1>. QED
  BY <1>7, <1>8, <1>9 DEF Agree

LEMMA CrashesAgrees == Agree /\ Crashes => Agree'
<1>. SUFFICES ASSUME Agree, Crashes PROVE Agree'
  OBVIOUS
<1>1. /\ up' = FALSE /\ pending' = Nothing /\ session' = "Disabled" /\ capture' = "none"
      /\ commands' = <<>> /\ updates' = <<>> /\ window' = Closed
      /\ UNCHANGED <<held, shown, tray, ready>> /\ file' \in {file, Torn}
      /\ recovers' = FALSE /\ greeting' = TRUE /\ login' = FALSE /\ putOff' = FALSE
  BY DEF Crashes
<1>2. updates' \in Seq(Update)
  BY <1>1, EmptySeq
<1>3. Forms'
  BY <1>1, <1>2 DEF Agree, Forms, States
<1>4. Down' /\ Readable' /\ InFile' /\ Waiting' /\ Switched' /\ Shown' /\ Settled' /\ TrayTold'
  BY <1>1 DEF Down, Readable, InFile, Waiting, Switched, Shown, Settled, TrayTold
<1>. QED
  BY <1>3, <1>4 DEF Agree

LEMMA InitAgrees == Init => Agree
<1>. SUFFICES ASSUME Init PROVE Agree
  OBVIOUS
<1>1. Read \in Settings
  BY Kinds DEF Init, Read
<1>2. tray \in Labels
  BY Kinds DEF Init, NewTray, States
<1>3. updates \in Seq(Update)
  BY EmptySeq DEF Init
<1>4. Forms
  BY <1>1, <1>2, <1>3 DEF Init, Forms, States
<1>5. Down /\ Readable /\ InFile /\ Waiting /\ Switched /\ Shown /\ Settled /\ TrayTold
  BY DEF Init, Down, Readable, InFile, Waiting, Switched, Shown, Settled, TrayTold
<1>. QED
  BY <1>4, <1>5 DEF Agree

LEMMA AtRestAgree == Agree => RestAgrees
<1>. SUFFICES ASSUME Agree, AtRest
              PROVE  /\ held = Read /\ shown = Read /\ tray = Label(session)
                     /\ Fits(held.listening, session, capture, putOff)
  BY DEF RestAgrees, Fits, Heard
<1>1. up = TRUE /\ commands = <<>> /\ updates = <<>> /\ pending = Nothing
  BY DEF AtRest, Agree, Forms
<1>2. held = Read
  BY <1>1 DEF Agree, InFile, Kept
<1>3. shown = Read
  BY <1>1 DEF Agree, Shown, Copied, CopyIn
<1>4. tray = Label(session)
  BY <1>1 DEF Agree, TrayTold, Told, LabelIn
<1>. QED
  BY <1>1, <1>2, <1>3, <1>4 DEF Agree, Switched

(***************************************************************************)
(* The theorem.                                                            *)
(***************************************************************************)
\* While writes work, nobody switches or saves while messages are under way, no session
\* is cut off while settings wait for its end and no worker dies while there is no
\* listening: once everything has been dealt with, the settings file, the settings in
\* force and the copy the window starts from are the same, and the tray says whether there
\* is listening; there is listening, and a microphone is open, only if the settings say so;
\* a session that hears has its microphone; and listening that is wanted goes on unless a
\* login, the connection, a logout or another device put it off and it has not been
\* switched since.  That is so after any number of saves, switches, sessions, failures of
\* sessions and microphones, logins, changes of the connection, crashes and starts
\* (settings_io.rs, update_settings, toggle_listening, enable_listening,
\* require_connection and apply_pending_settings of controller.rs, apply_ui_update of
\* ui/mod.rs).
THEOREM RestAgreesHolds ==
  {"session", "worker", "write", "hurry"} \cap Troubles = {} => (Spec => []RestAgrees)
<1>. SUFFICES ASSUME {"session", "worker", "write", "hurry"} \cap Troubles = {}
              PROVE  Spec => []RestAgrees
  OBVIOUS
<1>1. ~Trouble("session") /\ ~Trouble("worker") /\ ~Trouble("write") /\ ~Trouble("hurry")
  BY DEF Trouble
<1>2. Init => Agree
  BY InitAgrees
<1>3. Agree /\ [Next]_vars => Agree'
  <2>. SUFFICES ASSUME Agree, [Next]_vars PROVE Agree'
    OBVIOUS
  <2>1. CASE OpensWindow
    BY <2>1, OpensWindowAgrees
  <2>2. CASE Dismisses
    BY <2>2, DismissesAgrees
  <2>3. CASE \E entry \in Entries : Fills(entry)
    BY <2>3, FillsAgrees
  <2>4. CASE \E well \in BOOLEAN : Saves(well)
    BY <1>1, <2>4, SavesAgrees
  <2>5. CASE Switches
    BY <1>1, <2>5, SwitchesAgrees
  <2>6. CASE IsShown \/ TrayTells
    BY <2>6, NewsAgrees
  <2>7. CASE \E well, works \in BOOLEAN : Toggles(well, works)
    BY <1>1, <2>7, TogglesAgrees
  <2>8. CASE \E works \in BOOLEAN : Updates(works)
    BY <1>1, <2>8, UpdatesAgrees
  <2>9. CASE Goes
    BY <2>9, GoesAgrees
  <2>10. CASE Fails
    BY <1>1, <2>10, FailsAgrees
  <2>11. CASE \E works \in BOOLEAN : Ends(works)
    BY <2>11, EndsAgrees
  <2>12. CASE \E works \in BOOLEAN : Starts(works)
    BY <1>1, <2>12, StartsAgrees
  <2>13. CASE Crashes
    BY <2>13, CrashesAgrees
  <2>14. CASE ConnectionChanges \/ LogsIn \/ TakenOver
    BY <2>14, ConnectionChangesAgrees, LogsInAgrees, TakenOverAgrees
  <2>15. CASE \E works \in BOOLEAN : LoginEnds(works)
    BY <1>1, <2>15, LoginEndsAgrees
  <2>16. CASE LogsOut \/ SplashEnds
    BY <1>1, <2>16, LogsOutAgrees, SplashEndsAgrees
  <2>17. CASE UNCHANGED vars
    BY <2>17, WindowKeepsAgree, Running DEF vars, interface, Agree, Forms
  <2>. QED
    BY <2>1, <2>2, <2>3, <2>4, <2>5, <2>6, <2>7, <2>8, <2>9, <2>10, <2>11, <2>12, <2>13,
       <2>14, <2>15, <2>16, <2>17 DEF Next
<1>. QED
  BY <1>2, <1>3, AtRestAgree, PTL DEF Spec

-------------------------------------------------------------------------------
(***************************************************************************)
(* The overlay, which shares no state with the settings: whether motion is *)
(* to be reduced is a choice of its own.                                   *)
(***************************************************************************)
CONSTANT MaxEvents
VARIABLES facts, overlay, phase, splash, linked, views, events

Screen == INSTANCE Overlay WITH updates <- views

\* The ticker runs while something moves, and its tick alone is of this generation;
\* those of ended tickers are of earlier ones, so a new generation is new.
Ticking ==
  /\ running \in BOOLEAN /\ reduced \in BOOLEAN /\ appearing \in BOOLEAN
  /\ generation \in Nat /\ DOMAIN chains \subseteq 0..generation
  /\ running = (Motion /\ Needs(screen, reduced, appearing))
  /\ running => generation \in DOMAIN chains /\ chains[generation] = 1

\* motion_needs_ticker does not tell views of one kind apart.
LEMMA KindNeeds ==
  ASSUME NEW v, NEW w, Kind(v) = Kind(w), NEW less \in BOOLEAN, NEW scaled \in BOOLEAN
  PROVE  Needs(v, less, scaled) = Needs(w, less, scaled)
  BY DEF Kind, Needs

\* sync_motion_ticker starts and stops the ticker where that is called for.
LEMMA SyncedTicks ==
  ASSUME Ticking, Motion = TRUE, NEW v, NEW less \in BOOLEAN, NEW scaled \in BOOLEAN,
         Synced(v, less, scaled), screen' = v, reduced' = less, appearing' = scaled
  PROVE  Ticking'
<1>1. Needs(v, less, scaled) \in BOOLEAN
  BY DEF Needs
<1>2. CASE Needs(v, less, scaled) = running
  BY <1>2 DEF Synced, Ticking
<1>3. CASE Needs(v, less, scaled) # running
  <2>1. /\ running' = ~running /\ generation' = generation + 1
        /\ chains' = IF running THEN chains ELSE chains (+) SetToBag({generation'})
    BY <1>3 DEF Synced, NextGeneration
  <2>2. running' \in BOOLEAN /\ running' = Needs(v, less, scaled)
    BY <1>1, <1>3, <2>1 DEF Ticking
  <2>3. generation' \in Nat /\ generation' \notin DOMAIN chains /\ DOMAIN chains \subseteq 0..generation'
    BY <2>1 DEF Ticking
  <2>4. CASE running = TRUE
    BY <2>1, <2>2, <2>3, <2>4 DEF Ticking
  <2>5. CASE running = FALSE
    <3>1. chains' = chains (+) SetToBag({generation'})
      BY <2>1, <2>5
    <3>2. DOMAIN chains' = DOMAIN chains \cup {generation'} /\ chains'[generation'] = 1
      BY <2>3, <3>1 DEF (+), SetToBag
    <3>3. DOMAIN chains' \subseteq 0..generation'
      BY <2>3, <3>2
    <3>4. generation' \in DOMAIN chains'
      BY <3>2
    <3>5. running' = (Motion /\ Needs(screen', reduced', appearing'))
      BY <2>2
    <3>. QED
      BY <2>2, <2>3, <3>2, <3>3, <3>4, <3>5 DEF Ticking
  <2>. QED
    BY <2>4, <2>5 DEF Ticking
<1>. QED
  BY <1>2, <1>3

\* What the thread of the windows may do to them.
TickerMoves == (\E view : Appears(view)) \/ Reduces \/ Strikes \/ UNCHANGED uiVars

LEMMA TickingStep == Ticking /\ TickerMoves => Ticking'
<1>. SUFFICES ASSUME Ticking, TickerMoves PROVE Ticking'
  OBVIOUS
<1>1. CASE UNCHANGED uiVars
  BY <1>1 DEF uiVars, tickerVars, Ticking
<1>2. ASSUME NEW view, Appears(view) PROVE Ticking'
  <2>1. UNCHANGED reduced /\ screen' = view
    BY <1>2 DEF Appears
  <2>2. CASE Motion /\ Kind(view) # Kind(screen)
    <3>1. Moved(screen', reduced)
      BY <1>2, <2>1, <2>2 DEF Appears
    <3>2. appearing' \in BOOLEAN /\ Synced(screen', reduced, appearing')
      BY <3>1 DEF Moved
    <3>. QED
      BY <2>1, <2>2, <3>2, SyncedTicks DEF Ticking
  <2>3. CASE ~(Motion /\ Kind(view) # Kind(screen))
    <3>1. UNCHANGED tickerVars
      BY <1>2, <2>3 DEF Appears
    <3>2. Motion = TRUE => Needs(screen', reduced, appearing) = Needs(screen, reduced, appearing)
      BY <2>1, <2>3, KindNeeds DEF Ticking
    <3>. QED
      BY <2>1, <3>1, <3>2 DEF tickerVars, Ticking
  <2>. QED
    BY <2>2, <2>3
<1>3. CASE Reduces
  <2>1. Motion /\ Moved(screen, reduced') /\ UNCHANGED screen /\ reduced' \in BOOLEAN
    BY <1>3 DEF Reduces, Ticking
  <2>2. appearing' \in BOOLEAN /\ Synced(screen, reduced', appearing')
    BY <2>1 DEF Moved
  <2>. QED
    BY <2>1, <2>2, SyncedTicks
<1>4. CASE Strikes
  <2>. PICK g \in DOMAIN chains :
         LET rest == chains (-) SetToBag({g})
         IN  IF running /\ g = generation
             THEN /\ appearing' \in {appearing, FALSE}
                  /\ running' = Needs(screen, reduced, appearing')
                  /\ chains' = IF running' THEN chains ELSE rest
             ELSE chains' = rest /\ UNCHANGED <<appearing, running>>
    BY <1>4 DEF Strikes, BagToSet
  <2>. DEFINE rest == chains (-) SetToBag({g})
  <2>1. UNCHANGED <<screen, reduced, generation>>
    BY <1>4 DEF Strikes
  <2>2. DOMAIN rest \subseteq DOMAIN chains
    BY DEF (-), SetToBag
  <2>3. \A h \in DOMAIN chains \ {g} : chains[h] = 1 => h \in DOMAIN rest /\ rest[h] = 1
    BY DEF (-), SetToBag
  <2>. HIDE DEF rest
  <2>4. CASE running /\ g = generation
    <3>1. /\ appearing' \in BOOLEAN /\ running' = Needs(screen, reduced, appearing')
          /\ chains' = IF running' THEN chains ELSE rest
      BY <2>4 DEF Ticking, rest
    <3>2. running' \in BOOLEAN /\ Motion = TRUE
      BY <2>4, <3>1 DEF Needs, Ticking
    <3>3. DOMAIN chains' \subseteq 0..generation
      BY <2>2, <3>1 DEF Ticking
    <3>. QED
      BY <2>1, <2>4, <3>1, <3>2, <3>3 DEF Ticking
  <2>5. CASE ~(running /\ g = generation)
    <3>1. chains' = rest /\ UNCHANGED <<appearing, running>>
      BY <2>5 DEF rest
    <3>2. running => generation \in DOMAIN rest /\ rest[generation] = 1
      BY <2>3, <2>5 DEF Ticking
    <3>. QED
      BY <2>1, <2>2, <3>1, <3>2 DEF Ticking
  <2>. QED
    BY <2>4, <2>5
<1>. QED
  BY <1>1, <1>2, <1>3, <1>4 DEF TickerMoves

\* Whatever the controller and the windows do, nothing else happens to the ticker.
LEMMA ScreenMovesTicker == [Screen!Next]_(Screen!vars) => TickerMoves
<1>. SUFFICES ASSUME [Screen!Next]_(Screen!vars) PROVE TickerMoves
  OBVIOUS
<1>1. ASSUME Screen!Handler \/ Screen!Ending PROVE UNCHANGED uiVars
  BY <1>1 DEF Screen!Handler, Screen!Ending, Screen!uiVars, Screen!tickerVars, uiVars, tickerVars
<1>2. ASSUME Screen!Begin \/ Screen!Progress \/ Screen!Booted \/ Screen!Periodic \/ Screen!Ages
      PROVE  UNCHANGED uiVars
  BY <1>2 DEF Screen!Begin, Screen!Progress, Screen!Booted, Screen!Periodic, Screen!Tick,
     Screen!Ages, Screen!uiVars, Screen!tickerVars, uiVars, tickerVars
<1>3. ASSUME Screen!Applies PROVE \E view : Appears(view)
  BY <1>3 DEF Screen!Applies, Screen!Appears, Screen!Moved, Screen!Synced, Screen!Kind,
     Screen!Needs, Screen!NextGeneration, Screen!SetToBag, Screen!(+), Screen!tickerVars,
     Appears, Moved, Synced, Kind, Needs, NextGeneration, SetToBag, (+), tickerVars
<1>4. ASSUME Screen!ReduceMotion PROVE Reduces
  BY <1>4 DEF Screen!ReduceMotion, Screen!Reduces, Screen!Moved, Screen!Synced, Screen!Needs,
     Screen!NextGeneration, Screen!SetToBag, Screen!(+),
     Reduces, Moved, Synced, Needs, NextGeneration, SetToBag, (+)
<1>5. ASSUME Screen!Ticks PROVE Strikes
  BY <1>5 DEF Screen!Ticks, Screen!Strikes, Screen!Needs, Screen!BagToSet, Screen!SetToBag,
     Screen!(-), Strikes, Needs, BagToSet, SetToBag, (-)
<1>. QED
  BY <1>1, <1>2, <1>3, <1>4, <1>5 DEF TickerMoves, Screen!vars, Screen!uiVars,
     Screen!tickerVars, uiVars, tickerVars, Screen!Next, Screen!ShowsError, Screen!LoggedIn,
     Screen!Fails, Screen!RequiresConnection, Screen!ListeningOn, Screen!ListeningOff,
     Screen!RouteChanges, Screen!SpeechStarts, Screen!SpeechEnds, Screen!WarmUpEnds,
     Screen!Connected, Screen!FinalText, Screen!PartialText, Screen!ResponseEnds,
     Screen!SessionEnds, Screen!Notice

\* One chain of ticks is alive while something on the overlay moves, none while
\* nothing does: sync_motion_ticker and the generation a scheduled tick carries.
THEOREM OneTickerHolds == Screen!Spec => []OneTicker
<1>1. Screen!Init => Ticking
  <2>. SUFFICES ASSUME Screen!Init PROVE Ticking
    OBVIOUS
  <2>1. /\ screen = "splash" /\ reduced = FALSE /\ generation = 0
        /\ appearing = FALSE /\ running = FALSE
    BY DEF Screen!Init, Screen!TickerStarts
  <2>2. DOMAIN chains = {}
    BY DEF Screen!Init, Screen!TickerStarts, Screen!EmptyBag, Screen!SetToBag
  <2>3. Needs(screen, reduced, appearing) = FALSE
    BY <2>1 DEF Needs
  <2>. QED
    BY <2>1, <2>2, <2>3 DEF Ticking
<1>2. Ticking => OneTicker
  <2>. SUFFICES ASSUME Ticking PROVE OneTicker
    OBVIOUS
  <2>1. running <=> (Motion /\ Needs(screen, reduced, appearing))
    BY DEF Ticking
  <2>2. running => \E g \in {h \in DOMAIN chains : running /\ h = generation} : chains[g] = 1
    BY DEF Ticking
  <2>3. \A g \in DOMAIN chains : g <= generation
    BY DEF Ticking
  <2>. QED
    BY <2>1, <2>2, <2>3 DEF OneTicker, BagToSet
<1>. QED
  BY <1>1, <1>2, TickingStep, ScreenMovesTicker, PTL DEF Screen!Spec
===============================================================================

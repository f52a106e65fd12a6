-------------------------------- MODULE Overlay --------------------------------
(***************************************************************************)
(* What the user sees: the controller keeps Facts, derives from them the   *)
(* view of the overlay and sends it when it differs from the last one it   *)
(* sent (crates/app/src/controller.rs); the thread of the windows applies  *)
(* what arrives and keeps a ticker for the motion (ui/mod.rs, ui/overlay). *)
(*                                                                         *)
(* Handlers of the controller appear by what they do to the facts and by   *)
(* where they draw; many return early without drawing.  A text is only     *)
(* there or not, and time is the age of what has a deadline.               *)
(***************************************************************************)
EXTENDS SequencesExt, Ticker

CONSTANTS
  MaxEvents   \* bound: what begins with the user, the services and the settings

ASSUME OverlayAssumption == MaxEvents \in Nat

VARIABLES
  facts,       \* Facts of the controller, with the warm-up and the turn it delays
  overlay,     \* the view it sent last
  phase,       \* how far run is: new, boot or loop
  splash,      \* whether the timer of the splash runs
  linked,      \* whether there is a connection
  updates,     \* views on their way to the windows
  events

vars == <<facts, overlay, phase, splash, linked, updates, uiVars, events>>

Dated == {"none", "fresh", "due"}
Views == {"splash", "hidden", "preparing", "error", "login", "warming", "notice",
          "committed", "starting", "waiting", "words", "finalizing", "listening"}
Facts == [error : Dated \cup {"persistent", "login"}, warming : {"none", "job", "turn"},
          notice : Dated, commit : Dated, waiting : {"none", "new", "long", "longer"},
          partial : BOOLEAN, finalizing : BOOLEAN, speaking : BOOLEAN]

TypeOK ==
  /\ facts \in Facts /\ overlay \in Views /\ screen \in Views /\ updates \in Seq(Views)
  /\ phase \in {"new", "boot", "loop"} /\ splash \in BOOLEAN /\ linked \in BOOLEAN
  /\ reduced \in BOOLEAN /\ appearing \in BOOLEAN /\ running \in BOOLEAN
  /\ generation \in Nat /\ IsABag(chains) /\ events \in 0..MaxEvents

--------------------------------------------------------------------------------
(* The view of the facts, and how it is sent                                   *)

\* The first that holds; recognizing is the words, or listening while there are none.
View(f) ==
  IF f.error \in {"fresh", "persistent"} THEN "error"
  ELSE IF f.error = "login" THEN "login"
  ELSE IF f.warming # "none" THEN "warming"
  ELSE IF f.notice = "fresh" THEN "notice"
  ELSE IF f.commit = "fresh" THEN "committed"
  ELSE IF f.waiting = "longer" THEN "starting"
  ELSE IF f.waiting = "long" THEN "waiting"
  ELSE IF f.partial THEN "words"
  ELSE IF f.finalizing THEN "finalizing"
  ELSE IF f.speaking THEN "listening"
  ELSE "hidden"

\* set_overlay, once for each of the facts drawn in the course of a handler
Sends(drawn) ==
  LET sent[n \in 0..Len(drawn)] ==
        IF n = 0 THEN <<overlay>>
        ELSE IF View(drawn[n]) = Last(sent[n - 1]) THEN sent[n - 1]
        ELSE Append(sent[n - 1], View(drawn[n]))
  IN  sent[Len(drawn)]

Draws(drawn) ==
  LET sent == Sends(drawn)
  IN  overlay' = Last(sent) /\ updates' = updates \o Tail(sent)

--------------------------------------------------------------------------------
(* What the helpers of the controller do to the facts                          *)

Cleared(f) == [f EXCEPT !.error = "none", !.notice = "none", !.commit = "none"]
Erring(f) == [f EXCEPT !.error = "fresh", !.notice = "none"]
Persistent(f) == [f EXCEPT !.error = "persistent", !.notice = "none", !.waiting = "none"]
Noticed(f) == [f EXCEPT !.error = "none", !.commit = "none", !.notice = "fresh"]
Committed(f, held) ==
  IF held THEN [f EXCEPT !.error = "none", !.notice = "none", !.commit = "fresh"]
          ELSE [f EXCEPT !.commit = "none"]
Unnoticed(f) == [f EXCEPT !.notice = "none", !.commit = "none"]
Waits(f) == IF f.waiting = "none" THEN [f EXCEPT !.waiting = "new"] ELSE f
Answered(f) == [f EXCEPT !.waiting = "none"]
Silent(f) == [f EXCEPT !.speaking = FALSE]
Taken(f) == [f EXCEPT !.partial = FALSE]

\* cleanup_asr: the words of the connection stay
Unlinked(f) ==
  [f EXCEPT !.waiting = "none", !.finalizing = FALSE,
            !.warming = IF @ = "turn" THEN "none" ELSE @]

\* disable_listening
Off(f) == [Answered(Silent(Cleared(f))) EXCEPT !.warming = "none"]

Expired(f) ==
  [f EXCEPT !.error = IF @ = "due" THEN "none" ELSE @,
            !.notice = IF @ = "due" THEN "none" ELSE @,
            !.commit = IF @ = "due" THEN "none" ELSE @]

Attention(f) == {[Unlinked(f) EXCEPT !.error = kind] : kind \in {"login", "persistent"}}

--------------------------------------------------------------------------------
(* The start                                                                   *)

Init ==
  /\ facts = [error |-> "none", warming |-> "none", notice |-> "none", commit |-> "none",
              waiting |-> "none", partial |-> FALSE, finalizing |-> FALSE, speaking |-> FALSE]
  /\ overlay = "splash" /\ splash = TRUE /\ phase = "new" /\ linked = FALSE
  /\ updates = <<>> /\ events = 0 /\ TickerStarts

Begin ==
  /\ phase = "new" /\ phase' = "boot"
  /\ Draws(<<facts>>)
  /\ UNCHANGED <<facts, splash, linked, uiVars, events>>

\* The progress of a download goes to the windows past set_overlay.
Progress ==
  /\ phase = "boot" /\ events < MaxEvents
  /\ updates' = Append(updates, "preparing") /\ events' = events + 1
  /\ UNCHANGED <<facts, overlay, phase, splash, linked, uiVars>>

\* Paste permission is looked at once the server stands.
Booted ==
  /\ phase = "boot" /\ phase' = "loop"
  /\ \E f \in {facts, Erring(facts)} :
       /\ facts' = f /\ Draws(<<facts, f>>)
       /\ splash' = (splash /\ f = facts)
  /\ UNCHANGED <<linked, uiVars, events>>

--------------------------------------------------------------------------------
(* Handlers of the controller                                                  *)

Handler ==
  /\ phase = "loop" /\ events < MaxEvents /\ events' = events + 1
  /\ UNCHANGED <<phase, uiVars>>

\* What has to come once speech or a warm-up began is not counted.
Ending == phase = "loop" /\ UNCHANGED <<phase, uiVars, events>>

\* A handler that draws at the facts in drawn, and one that does not
Drawing(drawn) == facts' = Last(drawn) /\ Draws(drawn) /\ splash' = FALSE
Quiet(f) == facts' = f /\ UNCHANGED <<overlay, updates, splash>>

\* send_text_update: words that came too soon after others wait for the next draw.
NowAndThen(f, force) == Drawing(<<f>>) \/ (~force /\ Quiet(f))

\* Errors and the steps of a login; a success clears
ShowsError == Handler /\ Drawing(<<Erring(facts)>>) /\ UNCHANGED linked
LoggedIn == Handler /\ Drawing(<<Cleared(facts)>>) /\ UNCHANGED linked

\* fail_runtime_with_policy draws before it cleans up.
FailsAt(f) ==
  /\ splash' = FALSE /\ linked' = FALSE
  /\ \E failed \in {Erring(f), Persistent(f)} : Draws(<<failed>>) /\ facts' = Unlinked(failed)

Fails == Handler /\ FailsAt(facts)

RequiresConnection ==
  /\ Handler /\ linked' = FALSE
  /\ \E f \in Attention(facts) : Drawing(<<f>>)

ListeningOn ==
  /\ Handler /\ UNCHANGED linked
  /\ \/ Quiet(Silent(facts))
     \/ Drawing(<<Persistent(Silent(facts))>>)

\* Another device took over, or the polls of the connection failed, if a message follows.
ListeningOff ==
  /\ Handler /\ UNCHANGED linked
  /\ \/ Drawing(<<Off(facts)>>)
     \/ linked /\ Drawing(<<Off(facts), Persistent(Off(facts))>>)

CanWarmUp(f) == f.error # "persistent" /\ f.error # "login" /\ f.warming # "job"
WarmingUp(f) == [f EXCEPT !.warming = "job"]

\* What is under way is cut; a new warm-up draws, one that runs or is refused does not.
RouteChanges ==
  LET gone == Unlinked(Silent(facts))
  IN  /\ Handler /\ linked' = FALSE
      /\ \/ CanWarmUp(gone) /\ Drawing(<<WarmingUp(gone)>>)
         \/ Drawing(<<gone>>)
         \/ ~linked /\ Quiet(gone)

SpeechStarts ==
  LET heard == [Unnoticed(facts) EXCEPT !.speaking = TRUE]
  IN  /\ Handler /\ ~facts.speaking
      /\ \/ Quiet(heard) /\ UNCHANGED linked
         \/ facts.warming # "job" /\ linked /\ Drawing(<<heard>>) /\ UNCHANGED linked
         \/ facts.warming # "job" /\ FailsAt(heard)
         \/ /\ ~linked /\ CanWarmUp(heard) /\ Drawing(<<WarmingUp(heard)>>) /\ UNCHANGED linked
         \/ facts.warming # "job" /\ ~linked /\ Drawing(<<[heard EXCEPT !.error = "none"]>>) /\ linked' = TRUE

SpeechEnds ==
  /\ Ending /\ facts.speaking
  /\ \/ facts.warming = "job" /\ Quiet(Silent(facts)) /\ UNCHANGED linked
     \/ /\ facts.warming # "job" /\ UNCHANGED linked
        /\ \/ Drawing(<<Silent(facts)>>)
           \/ linked /\ Drawing(<<[Silent(facts) EXCEPT !.finalizing = TRUE]>>)
           \/ linked /\ Drawing(<<Waits(Silent(facts))>>)
     \/ facts.warming # "job" /\ linked /\ FailsAt(Silent(facts))

\* Speech that was held connects, where the session is still listening.
WarmUpEnds ==
  LET over == [facts EXCEPT !.warming = "none"]
  IN  /\ Ending /\ facts.warming = "job"
      /\ \/ Drawing(<<over>>) /\ UNCHANGED linked
         \/ Quiet(over) /\ UNCHANGED linked
         \/ /\ ~linked /\ linked' = TRUE
            /\ Drawing(<<[over EXCEPT !.warming = "turn", !.error = "none", !.notice = "none"]>>)
         \/ FailsAt(over)

Connected ==
  /\ Handler /\ linked /\ UNCHANGED linked
  /\ \/ Drawing(<<[facts EXCEPT !.warming = IF @ = "turn" THEN "none" ELSE @]>>)
     \/ facts.warming = "turn" /\ Drawing(<<[facts EXCEPT !.finalizing = TRUE]>>)

FinalText == Handler /\ linked /\ Drawing(<<Answered(facts)>>) /\ UNCHANGED linked

\* Late words are ignored after they ended the wait; the rest is drawn now and then.
PartialText ==
  /\ Handler /\ linked /\ UNCHANGED linked
  /\ \/ Quiet(Answered(facts))
     \/ \E some \in BOOLEAN :
          LET held == some /\ facts.commit # "none"
              f == [Answered(facts) EXCEPT !.partial = some, !.commit = IF some THEN "none" ELSE @]
          IN  NowAndThen(f, held)

\* commit_segment: the facts drawn where there is text to show
Commits(f) ==
  {<<>>} \cup {<<Committed(f, held)>> : held \in BOOLEAN}
         \cup {<<Committed(f, held), Erring(Committed(f, held))>> : held \in BOOLEAN}

After(f, shown) == Last(<<f>> \o shown)
Shows(f, if) == IF if THEN <<f>> ELSE <<>>

\* An endpoint clears where nothing is held; so does the close of a delayed session.
ResponseEnds ==
  LET ended == Taken([facts EXCEPT !.finalizing = FALSE])
  IN  /\ Handler /\ linked /\ UNCHANGED linked
      /\ \E f \in {ended, Answered(ended)} : \E shown \in Commits(f), endpoint \in BOOLEAN :
           LET g == After(f, shown)
               closes == endpoint /\ g.warming = "turn" /\ ~g.speaking
               clears == endpoint /\ g.commit = "none" /\ g.error = "none"
               last == IF closes \/ clears THEN Cleared(g) ELSE g
               drawn == shown \o Shows(last, closes \/ clears \/ (~endpoint /\ g.commit = "none"))
           IN  facts' = last /\ Draws(drawn) /\ splash' = (splash /\ drawn = <<>>)

\* Listening again or for good, the gate is reset.
Rests(f) == {f, Silent(f), Off(f)}

\* Finished with its last words; closed, or ended by a failure that counts as none
SessionEnds ==
  LET ended == Taken([Answered(facts) EXCEPT !.finalizing = FALSE])
  IN  /\ Handler /\ linked /\ linked' = FALSE
      /\ \/ \E shown \in Commits(ended) :
              LET g == After(ended, shown)
              IN  \E rest \in Rests(Unlinked(g)) :
                    Drawing(shown \o Shows(g, g.commit = "none") \o <<rest>>)
         \/ \E rest \in Rests(Cleared(Unlinked(ended))) : Drawing(<<rest>>)
         \/ Quiet(Unlinked(ended))

\* It says that the turn has no text, and closes the session of a delayed one.
Notice ==
  /\ Handler /\ linked /\ UNCHANGED linked
  /\ \E f \in {facts, Answered(facts)} :
       LET closes == f.warming = "turn" /\ ~f.speaking
       IN  Drawing(<<Noticed(f)>> \o Shows(Cleared(Noticed(f)), closes))

--------------------------------------------------------------------------------
(* The tick of 100 ms                                                          *)

\* Timeouts of the session, and its recovery from a failure; the words stay.
Lapsed == Rests(Cleared(Unlinked(facts)))

\* check_server_response_wait_overlay draws whether or not a deadline has passed.
SlipRendered(before, after) == Shows(after, after # before)
Rendered(before, after) == <<after>>

Idle(f) == ~f.speaking /\ f.waiting = "none" /\ ~f.finalizing

\* A tick in which a timer of the session lapses, that of the splash is over, or the
\* session is idle for long enough
Tick(lapses, over, idle) ==
  /\ phase = "loop"
  /\ \E f \in IF lapses THEN Lapsed ELSE {facts} :
     \E g \in {f} \cup IF splash /\ over /\ ~lapses THEN Attention(f) ELSE {} :
       LET last == IF idle THEN Cleared(Expired(g)) ELSE Expired(g)
       IN  /\ linked' = (linked /\ ~lapses /\ g = f)
           /\ idle => linked' /\ Idle(g)
           /\ Draws(Shows(f, lapses) \o Shows(g, g # f) \o Rendered(g, Expired(g))
                      \o Shows(last, idle))
           /\ facts' = last
           /\ splash' = (splash /\ ~over /\ ~lapses /\ ~idle)
  /\ UNCHANGED <<phase, uiVars, events>>

Periodic == \E lapses, over, idle \in BOOLEAN : Tick(lapses, over, idle)

\* Time passes for what has a deadline.
Ages ==
  /\ \/ \E field \in {"error", "notice", "commit"} :
          facts[field] = "fresh" /\ facts' = [facts EXCEPT ![field] = "due"]
     \/ facts.waiting = "new" /\ facts' = [facts EXCEPT !.waiting = "long"]
     \/ facts.waiting = "long" /\ facts' = [facts EXCEPT !.waiting = "longer"]
  /\ UNCHANGED <<overlay, phase, splash, linked, updates, uiVars, events>>

--------------------------------------------------------------------------------
(* The windows                                                                 *)

Applies ==
  /\ updates # <<>> /\ updates' = Tail(updates) /\ Appears(Head(updates))
  /\ UNCHANGED <<facts, overlay, phase, splash, linked, events>>

ReduceMotion ==
  /\ events < MaxEvents /\ events' = events + 1 /\ Reduces
  /\ UNCHANGED <<facts, overlay, phase, splash, linked, updates>>

Ticks ==
  /\ Strikes
  /\ UNCHANGED <<facts, overlay, phase, splash, linked, updates, events>>

--------------------------------------------------------------------------------
Next ==
  \/ Begin \/ Progress \/ Booted
  \/ ShowsError \/ LoggedIn \/ Fails \/ RequiresConnection \/ ListeningOn \/ ListeningOff
  \/ RouteChanges \/ SpeechStarts \/ SpeechEnds \/ WarmUpEnds \/ Connected
  \/ FinalText \/ PartialText \/ ResponseEnds \/ SessionEnds \/ Notice
  \/ Periodic \/ Ages \/ Applies \/ ReduceMotion \/ Ticks

Spec == Init /\ [][Next]_vars

\* The loops of the controller and of the windows go on, and so does time.  That a
\* timer lapses is not relied on: fair is the tick in which none does.
FairSpec ==
  /\ Spec
  /\ WF_vars(Begin \/ Booted \/ Tick(FALSE, FALSE, FALSE)) /\ WF_vars(Ages) /\ WF_vars(Applies)

--------------------------------------------------------------------------------
\* Whatever the handlers did and wherever they left early without drawing, the
\* screen comes to show what the facts say, with nothing on it past its deadline
\* (set_overlay, which sends a change alone, and the draw of every tick).  The progress
\* of a download is left out: ProgressLeaves is about it.
ScreenSettles ==
  <>[](/\ screen \in {View(facts), "preparing"}
       /\ \A field \in {"error", "notice", "commit"} : facts[field] \notin {"fresh", "due"})

\* The comment after the start of the bundled server says that the view the progress
\* of a download wrote over is brought back (bootstrap_bundled_server).
ProgressLeaves == <>[](screen # "preparing")

\* Words of a session leave the screen with it.  They do not after a failure or a
\* timeout: neither takes the transcript (fail_runtime, reset_after_session_timeout).
WordsLeave == [](screen = "words" => <>(linked \/ screen # "words"))

================================================================================

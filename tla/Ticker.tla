--------------------------------- MODULE Ticker ---------------------------------
(***************************************************************************)
(* What the thread of the windows keeps to show the overlay (crates/app/   *)
(* src/ui/mod.rs, ui/overlay): the view on the screen, the wish for less   *)
(* motion, and a ticker, a chain of ticks each of which schedules the      *)
(* next, for as long as something moves.  Overlay brings the views.        *)
(***************************************************************************)
EXTENDS Naturals, Sequences, Bags

CONSTANT Motion   \* whether the motion of the overlay is followed

ASSUME TickerAssumption == Motion \in BOOLEAN

VARIABLES
  screen,      \* what the overlay shows
  reduced,     \* whether motion is to be reduced
  appearing,   \* whether appear_scale is below one
  running,     \* ticker_running
  generation,  \* ticker_generation
  chains       \* the generations of the ticks that are scheduled

tickerVars == <<appearing, running, generation, chains>>
uiVars == <<screen, reduced, tickerVars>>

TickerStarts ==
  /\ screen = "splash" /\ reduced = FALSE
  /\ chains = EmptyBag /\ generation = 0 /\ appearing = FALSE /\ running = FALSE

\* motion_needs_ticker
Needs(view, less, scaled) ==
  \/ view \in {"words", "listening"}
  \/ view \in {"warming", "finalizing", "waiting", "starting"} /\ ~less
  \/ scaled

\* The words and the wait for them are one kind.
Kind(view) == IF view = "words" THEN "listening" ELSE view

SlipNextGeneration(g) == g
NextGeneration(g) == g + 1

\* sync_motion_ticker
Synced(view, less, scaled) ==
  IF Needs(view, less, scaled) = running
  THEN UNCHANGED <<running, generation, chains>>
  ELSE /\ running' = ~running /\ generation' = NextGeneration(generation)
       /\ chains' = IF running THEN chains ELSE chains (+) SetToBag({generation'})

\* The effect of the overlay, where its kind or the wish for less motion changes
Moved(view, less) ==
  /\ appearing' = (view \notin {"hidden", "splash"} /\ ~less)
  /\ Synced(view, less, appearing')

\* A view of another kind starts the effect anew.
Appears(view) ==
  /\ screen' = view /\ UNCHANGED reduced
  /\ IF Motion /\ Kind(view) # Kind(screen) THEN Moved(view, reduced) ELSE UNCHANGED tickerVars

Reduces ==
  /\ Motion /\ reduced' = ~reduced /\ Moved(screen, reduced') /\ UNCHANGED screen

\* A tick of a chain that was stopped ends it; the others go on while something moves.
Strikes ==
  /\ \E g \in BagToSet(chains) :
       LET rest == chains (-) SetToBag({g})
       IN  IF running /\ g = generation
           THEN /\ appearing' \in {appearing, FALSE}
                /\ running' = Needs(screen, reduced, appearing')
                /\ chains' = IF running' THEN chains ELSE rest
           ELSE chains' = rest /\ UNCHANGED <<appearing, running>>
  /\ UNCHANGED <<screen, reduced, generation>>

\* While something on the overlay moves one chain of ticks is alive, and none while
\* nothing does, however often it was stopped and started between two ticks
\* (sync_motion_ticker and the generation a scheduled tick carries).
OneTicker ==
  LET live == {g \in BagToSet(chains) : running /\ g = generation}
  IN  /\ running <=> (Motion /\ Needs(screen, reduced, appearing))
      /\ running => \E g \in live : chains[g] = 1
      /\ \A g \in BagToSet(chains) : g <= generation
=================================================================================

----------------------------- MODULE VoiceSession -----------------------------
(***************************************************************************)
(* What the controller promises about a voice session, whatever the order  *)
(* of user commands, speech, timers and the end of connections: there is   *)
(* one line to a recogniser at a time, taken only when the session is      *)
(* armed and given back at its end; a session that ends does not talk      *)
(* again; and the microphone is opened only by arming, and closed by       *)
(* switching off.  Controller implements this (see Stage there).           *)
(***************************************************************************)

VARIABLES
  stage,  \* off, armed, call, ending, stopping (ending because of the user), failed
  line,   \* free, held
  mic     \* closed, open

vars == <<stage, line, mic>>

Init == stage = "off" /\ line = "free" /\ mic = "closed"

\* Listening starts, for the first time or again after a failure.
Arm ==
  /\ stage \in {"off", "failed"} /\ stage' = "armed"
  /\ mic' = "open" /\ UNCHANGED line

\* Speech makes an armed session take the line.
Call ==
  /\ stage = "armed" /\ stage' = "call"
  /\ line' = "held" /\ UNCHANGED mic

\* The line is asked to finish.
Finish ==
  /\ stage = "call" /\ stage' = "ending"
  /\ UNCHANGED <<line, mic>>

\* The user switches listening off while the line is in use, and changes his
\* mind before the line is free.
StopCall ==
  /\ stage \in {"call", "ending"} /\ stage' = "stopping"
  /\ mic' = "closed" /\ UNCHANGED line
KeepListening ==
  /\ stage = "stopping" /\ stage' = "ending"
  /\ UNCHANGED <<line, mic>>

\* The line is given back.  A session the user is stopping is armed again only
\* by opening the microphone again.
HangUp ==
  /\ line = "held" /\ line' = "free"
  /\ \/ stage' = "off" /\ mic' = "closed"
     \/ stage' = "armed" /\ mic' \in {"open"} \cup (IF stage = "stopping" THEN {} ELSE {mic})
     \/ stage' = "failed" /\ mic' \in {mic, "closed"}

\* Listening is switched off.
Disarm ==
  /\ stage \in {"armed", "failed"} /\ stage' = "off"
  /\ mic' = "closed" /\ UNCHANGED line

\* Something breaks while no line is in use.
Break ==
  /\ stage \in {"off", "armed", "failed"} /\ stage' = "failed"
  /\ mic' \in {mic, "closed"} /\ UNCHANGED line

Next ==
  \/ Arm \/ Call \/ Finish \/ StopCall \/ KeepListening
  \/ HangUp \/ Disarm \/ Break

Spec == Init /\ [][Next]_vars
===============================================================================

-------------------------------- MODULE Session --------------------------------
(***************************************************************************)
(* The session state machine of crates/core/src/session.rs: which inputs a *)
(* state accepts and where they lead.  The controller applies an input at  *)
(* every point where the life of a voice session may change, and ignores   *)
(* the input when the table has no entry for it.                           *)
(***************************************************************************)

States == {"Disabled", "Listening", "Connecting", "Streaming",
           "Closing", "Stopping", "Failed"}

(* One row per input: the states that accept it and their successors.      *)
Moves ==
  [ Enable        |-> [Disabled |-> "Listening", Closing |-> "Closing",
                       Stopping |-> "Closing"],
    Disable       |-> [Listening |-> "Disabled", Connecting |-> "Stopping",
                       Streaming |-> "Stopping", Closing |-> "Stopping",
                       Stopping |-> "Stopping", Failed |-> "Disabled"],
    SpeechStarted |-> [Listening |-> "Connecting"],
    Connected     |-> [Connecting |-> "Streaming"],
    IdleTimeout   |-> [Streaming |-> "Closing"],
    Finished      |-> [Closing |-> "Listening", Stopping |-> "Disabled"],
    Timeout       |-> [Connecting |-> "Listening", Closing |-> "Listening",
                       Stopping |-> "Disabled"],
    Aborted       |-> [Connecting |-> "Listening", Streaming |-> "Listening",
                       Closing |-> "Listening", Stopping |-> "Disabled"],
    Failed        |-> [Disabled |-> "Failed", Listening |-> "Failed",
                       Connecting |-> "Failed", Streaming |-> "Failed",
                       Closing |-> "Failed", Stopping |-> "Disabled"],
    Retry         |-> [Failed |-> "Listening"] ]

Inputs == {"Enable", "Disable", "SpeechStarted", "Connected", "IdleTimeout",
           "Finished", "Timeout", "Aborted", "Failed", "Retry"}

(* What apply returns, and the state it leaves behind.                     *)
Accepts(state, input) == state \in DOMAIN Moves[input]
Apply(state, input) == IF Accepts(state, input) THEN Moves[input][state] ELSE state

ListeningEnabled(state) == state \notin {"Disabled", "Stopping"}
IsClosing(state) == state \in {"Closing", "Stopping"}
================================================================================

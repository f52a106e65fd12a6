-------------------------------- MODULE Startup --------------------------------
(***************************************************************************)
(* Several processes of the program start, stop and crash on one machine:  *)
(* the lock that lets only one of them be the application                  *)
(* (crates/platform/src/instance_lock.rs, run in crates/app/src/lib.rs),   *)
(* the request to open the settings that a second start leaves behind      *)
(* (activation.rs), the download of the recognition model                  *)
(* (model_download.rs) into the directory they all share, and the bundled  *)
(* server each may start (bundled_server.rs), on one port.                 *)
(*                                                                         *)
(* The files of the model are 1 .. Files, in the order of the plan; the    *)
(* last is the marker the search for a model looks at.  A file is the set  *)
(* of its pieces that hold what they should, and its length shows in its   *)
(* last piece alone.                                                       *)
(***************************************************************************)
EXTENDS Naturals, FiniteSets

CONSTANTS
  Processes,
  Modes,      \* how a process may be started: some of "app", "check", "serve"
  Locks,      \* whether the system has file locks: not on Windows
  Files,      \* files of the plan
  Pieces,     \* pieces a file is written in
  MaxStarts,  \* bound: processes started
  MaxFaults   \* bound: crashes and failing requests

ASSUME StartupAssumption ==
  /\ Modes \subseteq {"app", "check", "serve"} /\ Locks \in BOOLEAN
  /\ Files \in Nat \ {0} /\ Pieces \in Nat \ {0} /\ MaxStarts \in Nat /\ MaxFaults \in Nat

Nobody == "nobody"
ASSUME NobodyAssumption == Nobody \notin Processes

VARIABLES
  mode,      \* of a process, "off" when it does not run
  stage,     \* how far start_if_needed is in it
  owner,     \* who holds the instance lock
  final,     \* the files under their own names; none has no pieces
  part,      \* the files under the name with .part
  exists,    \* the .part files that exist
  at, got,   \* the file a process downloads, and the pieces it has written
  handle,    \* what its open file is: none, part, final, or replaced
  server,    \* its server thread: none, loading, up, dead
  port,      \* who listens on the port of the server
  quitting,  \* whether its windows are closed and it waits for the controller
  watching,  \* whether it watches for requests
  request,   \* whether the file of the request is there
  starts, faults

dirVars == <<final, part, exists>>
fetchVars == <<at, got, handle>>
deskVars == <<quitting, watching, request>>
vars == <<mode, stage, owner, dirVars, fetchVars, server, port, deskVars, starts, faults>>

Whole == 1..Pieces
RightSize(file) == Pieces \in file
SlipMarker == 1
Marker == Files
Starting == {"probe", "query", "fetch", "spawn", "wait"}

TypeOK ==
  /\ mode \in [Processes -> {"off"} \cup Modes]
  /\ stage \in [Processes -> {"off", "lock", "run", "serve"} \cup Starting]
  /\ owner \in Processes \cup {Nobody} /\ port \in Processes \cup {Nobody}
  /\ {final, part} \subseteq [1..Files -> SUBSET Whole] /\ exists \subseteq 1..Files
  /\ at \in [Processes -> 1..(Files + 1)] /\ got \in [Processes -> 0..Pieces]
  /\ handle \in [Processes -> {"none", "part", "final", "replaced"}]
  /\ server \in [Processes -> {"none", "loading", "up", "dead"}]
  /\ quitting \in [Processes -> BOOLEAN] /\ watching \in [Processes -> BOOLEAN]
  /\ request \in BOOLEAN

Init ==
  /\ mode = [p \in Processes |-> "off"] /\ stage = [p \in Processes |-> "off"]
  /\ owner = Nobody /\ port = Nobody
  /\ final = [f \in 1..Files |-> {}] /\ part = [f \in 1..Files |-> {}] /\ exists = {}
  /\ at = [p \in Processes |-> 1] /\ got = [p \in Processes |-> 0]
  /\ handle = [p \in Processes |-> "none"] /\ server = [p \in Processes |-> "none"]
  /\ quitting = [p \in Processes |-> FALSE] /\ watching = [p \in Processes |-> FALSE]
  /\ request \in BOOLEAN /\ starts = 0 /\ faults = 0

-------------------------------------------------------------------------------
(* Starting and ending. *)

\* --serve goes its own way before anything else.
Starts(p) ==
  /\ mode[p] = "off" /\ starts < MaxStarts /\ starts' = starts + 1
  /\ \E m \in Modes :
       /\ mode' = [mode EXCEPT ![p] = m]
       /\ stage' = [stage EXCEPT ![p] = IF m = "serve" THEN "serve" ELSE "lock"]
       /\ server' = [server EXCEPT ![p] = IF m = "serve" THEN "loading" ELSE "none"]
  /\ UNCHANGED <<owner, dirVars, fetchVars, port, deskVars, faults>>

\* All that is a process's own ends with it: its lock, its server, its open files.
Ends(p) ==
  /\ mode' = [mode EXCEPT ![p] = "off"] /\ stage' = [stage EXCEPT ![p] = "off"]
  /\ owner' = (IF owner = p THEN Nobody ELSE owner)
  /\ port' = (IF port = p THEN Nobody ELSE port)
  /\ server' = [server EXCEPT ![p] = "none"] /\ handle' = [handle EXCEPT ![p] = "none"]
  /\ at' = [at EXCEPT ![p] = 1] /\ got' = [got EXCEPT ![p] = 0]
  /\ quitting' = [quitting EXCEPT ![p] = FALSE] /\ watching' = [watching EXCEPT ![p] = FALSE]

\* acquire_instance_lock.  A start that finds it taken leaves a request and ends;
\* a connection check goes on without it.
Free == owner = Nobody \/ ~Locks
TakesLock(p) ==
  /\ stage[p] = "lock"
  /\ \/ Free /\ owner' = p /\ stage' = [stage EXCEPT ![p] = "probe"]
        /\ UNCHANGED <<mode, fetchVars, server, port, deskVars>>
     \/ ~Free /\ mode[p] = "check" /\ stage' = [stage EXCEPT ![p] = "probe"]
        /\ UNCHANGED <<mode, owner, fetchVars, server, port, deskVars>>
     \/ ~Free /\ mode[p] = "app" /\ Ends(p) /\ request' = TRUE
  /\ UNCHANGED <<dirVars, starts, faults>>

\* The user closes the application; it ends when the controller, which starts the
\* server before it reads any command, is done.
Quits(p) ==
  /\ mode[p] = "app" /\ stage[p] \in Starting \cup {"run"} /\ ~quitting[p]
  /\ quitting' = [quitting EXCEPT ![p] = TRUE]
  /\ UNCHANGED <<mode, stage, owner, dirVars, fetchVars, server, port, watching, request,
                 starts, faults>>
Leaves(p) ==
  /\ stage[p] = "run" /\ (quitting[p] \/ mode[p] = "check") /\ Ends(p)
  /\ UNCHANGED <<dirVars, request, starts, faults>>
Crashes(p) ==
  /\ mode[p] # "off" /\ faults < MaxFaults /\ faults' = faults + 1 /\ Ends(p)
  /\ UNCHANGED <<dirVars, request, starts>>

-------------------------------------------------------------------------------
(* The request to open the settings. *)

\* The user interface throws away what an earlier run may have left, then looks
\* every half second.
Watches(p) ==
  /\ mode[p] = "app" /\ stage[p] \notin {"off", "lock"} /\ ~watching[p]
  /\ watching' = [watching EXCEPT ![p] = TRUE] /\ request' = FALSE
  /\ UNCHANGED <<mode, stage, owner, dirVars, fetchVars, server, port, quitting, starts, faults>>
OpensSettings(p) ==
  /\ watching[p] /\ request /\ request' = FALSE
  /\ UNCHANGED <<mode, stage, owner, dirVars, fetchVars, server, port, quitting, watching,
                 starts, faults>>

-------------------------------------------------------------------------------
(* start_if_needed. *)

Goes(p, to) == stage' = [stage EXCEPT ![p] = to]
Keep == UNCHANGED <<mode, owner, deskVars, starts>>

\* A server of another machine needs nothing here, nor does a port somebody
\* listens on; otherwise the model is looked for by its marker.
Probes(p) ==
  /\ stage[p] = "probe"
  /\ \/ Goes(p, "run")
     \/ port = Nobody /\ Goes(p, IF final[Marker] # {} THEN "spawn" ELSE "query")
  /\ UNCHANGED <<dirVars, fetchVars, server, port, faults>> /\ Keep

\* model_download::ensure asks for all sizes before it downloads anything.  A
\* failure of any kind leaves the application without its server.
Fault == faults < MaxFaults /\ faults' = faults + 1
Queries(p) ==
  /\ stage[p] = "query" /\ at' = [at EXCEPT ![p] = 1]
  /\ \/ Goes(p, "fetch") /\ UNCHANGED faults
     \/ Goes(p, "run") /\ Fault
  /\ UNCHANGED <<dirVars, got, handle, server, port>> /\ Keep

\* A file of the right size is kept, any other downloaded to its .part, which is
\* emptied where it exists.
File(p) == at[p]
Fetching(p) == stage[p] = "fetch" /\ at[p] <= Files
Skips(p) ==
  /\ Fetching(p) /\ handle[p] = "none" /\ RightSize(final[File(p)])
  /\ at' = [at EXCEPT ![p] = @ + 1]
  /\ UNCHANGED <<stage, dirVars, got, handle, server, port, faults>> /\ Keep
Creates(p) ==
  /\ Fetching(p) /\ handle[p] = "none" /\ ~RightSize(final[File(p)])
  /\ part' = [part EXCEPT ![File(p)] = {}] /\ exists' = exists \cup {File(p)}
  /\ got' = [got EXCEPT ![p] = 0] /\ handle' = [handle EXCEPT ![p] = "part"]
  /\ UNCHANGED <<stage, final, at, server, port, faults>> /\ Keep

\* A piece arrives, and is written to whatever the open file is called by now.
Written(p, name, files) ==
  IF handle[p] = name THEN [files EXCEPT ![File(p)] = @ \cup {got[p] + 1}] ELSE files
Writes(p) ==
  /\ Fetching(p) /\ handle[p] # "none" /\ got[p] < Pieces
  /\ got' = [got EXCEPT ![p] = @ + 1]
  /\ part' = Written(p, "part", part) /\ final' = Written(p, "final", final)
  /\ UNCHANGED <<stage, exists, at, handle, server, port, faults>> /\ Keep

\* The request breaks off, which the client reports.
BreaksOff(p) ==
  /\ Fetching(p) /\ handle[p] # "none" /\ Fault
  /\ Goes(p, "run") /\ handle' = [handle EXCEPT ![p] = "none"]
  /\ UNCHANGED <<dirVars, at, got, server, port>> /\ Keep

\* The whole body has come: .part becomes the file.  Another process that has the
\* same .part open goes on writing to it under its new name.
Renamed(name) ==
  IF name = "part" THEN "final" ELSE IF name = "final" THEN "replaced" ELSE name
MayRename(p) == got[p] = Pieces
Renames(p) ==
  /\ Fetching(p) /\ handle[p] # "none" /\ MayRename(p)
  /\ IF File(p) \in exists
       THEN /\ final' = [final EXCEPT ![File(p)] = part[File(p)]]
            /\ part' = [part EXCEPT ![File(p)] = {}] /\ exists' = exists \ {File(p)}
            /\ at' = [at EXCEPT ![p] = @ + 1]
            /\ handle' = [q \in Processes |->
                 IF q = p THEN "none"
                 ELSE IF at[q] = at[p] THEN Renamed(handle[q]) ELSE handle[q]]
            /\ UNCHANGED stage
       ELSE /\ handle' = [handle EXCEPT ![p] = "none"] /\ Goes(p, "run")
            /\ UNCHANGED <<dirVars, at>>
  /\ UNCHANGED <<got, server, port, faults>> /\ Keep

\* The model is there: a thread is to load it and to serve.
Spawns(p) ==
  /\ stage[p] = "spawn" \/ (stage[p] = "fetch" /\ at[p] > Files)
  /\ Goes(p, "wait") /\ server' = [server EXCEPT ![p] = "loading"]
  /\ UNCHANGED <<dirVars, fetchVars, port, faults>> /\ Keep

\* wait_until_listening: the thread has returned, somebody listens, or 120 s are over.
SlipGivesUp == FALSE
GivesUp == TRUE
StopsWaiting(p) ==
  /\ stage[p] = "wait" /\ (server[p] = "dead" \/ port # Nobody \/ GivesUp)
  /\ Goes(p, "run")
  /\ UNCHANGED <<dirVars, fetchVars, server, port, faults>> /\ Keep

\* The server loads its model, which fails where a file is not what it should be, and
\* binds the port, which fails where it is taken.
ServerStarts(p) ==
  /\ server[p] = "loading"
  /\ \/ /\ \A f \in 1..Files : final[f] = Whole
        /\ port = Nobody /\ port' = p /\ server' = [server EXCEPT ![p] = "up"]
     \/ /\ port # Nobody \/ \E f \in 1..Files : final[f] # Whole
        /\ server' = [server EXCEPT ![p] = "dead"] /\ UNCHANGED port
  /\ UNCHANGED <<stage, dirVars, fetchVars, faults>> /\ Keep
\* A process that only serves ends with its server.
Served(p) ==
  /\ stage[p] = "serve" /\ server[p] = "dead" /\ Ends(p)
  /\ UNCHANGED <<dirVars, request, starts, faults>>

Bootstraps(p) ==
  Probes(p) \/ Queries(p) \/ Skips(p) \/ Creates(p) \/ Writes(p) \/ BreaksOff(p)
  \/ Renames(p) \/ Spawns(p) \/ StopsWaiting(p)

Next == \E p \in Processes :
  \/ Starts(p) \/ TakesLock(p) \/ Quits(p) \/ Leaves(p) \/ Crashes(p)
  \/ Watches(p) \/ OpensSettings(p) \/ Bootstraps(p) \/ ServerStarts(p) \/ Served(p)

Spec == Init /\ [][Next]_vars

\* The controller and the user interface go on, since every request ends: the HTTP
\* client has a limit of 30 s for each.  How long a model loads is not known.
FairSpec ==
  /\ Spec
  /\ \A p \in Processes :
       WF_vars(TakesLock(p)) /\ WF_vars(Bootstraps(p)) /\ WF_vars(Leaves(p))

-------------------------------------------------------------------------------
(* Properties. *)

\* Code: model_download::ensure and the search for the marker.  Whatever crashes,
\* breaks off and is started again, a file of the model that would not be
\* downloaded again is whole, and so is a model that would not be looked into.
ModelsWhole ==
  /\ \A f \in 1..Files : RightSize(final[f]) => final[f] = Whole
  /\ final[Marker] # {} => \A f \in 1..Files : final[f] = Whole

\* Code: start_if_needed, wait_until_listening and Runtime::shutdown.  A start comes
\* to an end even if the server never does, and so does an application that was
\* closed in the middle of it.
StartupEnds ==
  \A p \in Processes :
    /\ stage[p] \in Starting ~> stage[p] \notin Starting
    /\ quitting[p] ~> ~quitting[p]

\* Claimed: "中途半端なファイルが本名で残ることはない" (model_download.rs:77).  A file that
\* nobody is writing to is whole under its own name.
NoHalfFiles ==
  \A f \in 1..Files :
    final[f] # {} /\ (\A p \in Processes : handle[p] = "none") => final[f] = Whole
===============================================================================

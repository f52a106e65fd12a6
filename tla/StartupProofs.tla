----------------------------- MODULE StartupProofs -----------------------------
(***************************************************************************)
(* What holds of the files of the model for any number of processes, files *)
(* and pieces, however often they start, crash and break off, on a system  *)
(* with file locks and without a connection check beside the application.  *)
(***************************************************************************)
EXTENDS Startup, TLAPS

USE StartupAssumption, NobodyAssumption

\* The processes that got past the lock, and on to the controller.
Busy == Starting \cup {"run"}

\* Every reachable state is well typed: in particular no process downloads past the
\* last file or writes past the last piece.
LEMMA TypeStep == TypeOK /\ [Next]_vars => TypeOK'
<1>. SUFFICES ASSUME TypeOK, [Next]_vars PROVE TypeOK'
  OBVIOUS
<1>. USE DEF TypeOK, Starting
<1>1. CASE UNCHANGED vars
  BY <1>1 DEF vars, dirVars, fetchVars, deskVars
<1>2. ASSUME NEW p \in Processes, Ends(p), request' \in BOOLEAN, UNCHANGED dirVars
      PROVE  TypeOK'
  BY <1>2 DEF Ends, dirVars
<1>3. ASSUME NEW p \in Processes, Starts(p) PROVE TypeOK'
  BY <1>3 DEF Starts, dirVars, fetchVars, deskVars
<1>4. ASSUME NEW p \in Processes, TakesLock(p) PROVE TypeOK'
  <2>1. CASE Ends(p)
    <3>1. request' \in BOOLEAN /\ UNCHANGED dirVars
      BY <1>4 DEF TakesLock, deskVars
    <3>. QED
      BY <1>2, <2>1, <3>1
  <2>2. CASE /\ owner' \in {owner, p} /\ stage' = [stage EXCEPT ![p] = "probe"]
             /\ UNCHANGED <<mode, dirVars, fetchVars, server, port, deskVars>>
    BY <2>2 DEF dirVars, fetchVars, deskVars
  <2>. QED
    BY <1>4, <2>1, <2>2 DEF TakesLock
<1>5. ASSUME NEW p \in Processes, Quits(p) \/ Watches(p) \/ OpensSettings(p) PROVE TypeOK'
  <2>. UNCHANGED <<mode, stage, owner, dirVars, fetchVars, server, port>>
    BY <1>5 DEF Quits, Watches, OpensSettings
  <2>1. /\ quitting' \in [Processes -> BOOLEAN] /\ watching' \in [Processes -> BOOLEAN]
        /\ request' \in BOOLEAN
    BY <1>5 DEF Quits, Watches, OpensSettings
  <2>. QED
    BY <2>1 DEF dirVars, fetchVars
<1>6. ASSUME NEW p \in Processes, Leaves(p) \/ Crashes(p) \/ Served(p) PROVE TypeOK'
  BY <1>2, <1>6 DEF Leaves, Crashes, Served
<1>7. ASSUME NEW p \in Processes, Probes(p) \/ Queries(p) \/ BreaksOff(p) \/ Spawns(p)
                                  \/ StopsWaiting(p) \/ ServerStarts(p)
      PROVE  TypeOK'
  <2>. UNCHANGED <<mode, owner, dirVars, deskVars, got>>
    BY <1>7 DEF Probes, Queries, BreaksOff, Spawns, StopsWaiting, ServerStarts, Keep, fetchVars
  <2>1. stage' = stage \/ \E to \in Starting \cup {"run"} : stage' = [stage EXCEPT ![p] = to]
    BY <1>7 DEF Probes, Queries, BreaksOff, Spawns, StopsWaiting, ServerStarts, Goes
  <2>2. at' = at \/ at' = [at EXCEPT ![p] = 1]
    BY <1>7 DEF Probes, Queries, BreaksOff, Spawns, StopsWaiting, ServerStarts, fetchVars
  <2>3. handle' = handle \/ handle' = [handle EXCEPT ![p] = "none"]
    BY <1>7 DEF Probes, Queries, BreaksOff, Spawns, StopsWaiting, ServerStarts, fetchVars
  <2>4. server' = server \/ \E is \in {"loading", "up", "dead"} : server' = [server EXCEPT ![p] = is]
    BY <1>7 DEF Probes, Queries, BreaksOff, Spawns, StopsWaiting, ServerStarts
  <2>5. port' \in {port, p}
    BY <1>7 DEF Probes, Queries, BreaksOff, Spawns, StopsWaiting, ServerStarts
  <2>6. stage' \in [Processes -> {"off", "lock", "run", "serve"} \cup Starting]
    BY <2>1
  <2>7. server' \in [Processes -> {"none", "loading", "up", "dead"}]
    BY <2>4
  <2>8. at' \in [Processes -> 1..(Files + 1)]
    <3>1. 1 \in 1..(Files + 1)
      OBVIOUS
    <3>. QED
      BY <2>2, <3>1
  <2>9. handle' \in [Processes -> {"none", "part", "final", "replaced"}]
    BY <2>3
  <2>10. port' \in Processes \cup {Nobody}
    BY <2>5
  <2>. QED
    BY <2>6, <2>7, <2>8, <2>9, <2>10 DEF dirVars, deskVars
<1>8. ASSUME NEW p \in Processes, Skips(p) PROVE TypeOK'
  <2>1. at' \in [Processes -> 1..(Files + 1)]
    BY <1>8 DEF Skips, Fetching
  <2>. QED
    BY <1>8, <2>1 DEF Skips, Keep, dirVars, deskVars
<1>9. ASSUME NEW p \in Processes, Creates(p) PROVE TypeOK'
  <2>1. at[p] \in 1..Files
    BY <1>9 DEF Creates, Fetching
  <2>2. part' \in [1..Files -> SUBSET Whole] /\ exists' \subseteq 1..Files
    BY <1>9, <2>1 DEF Creates, File
  <2>3. got' \in [Processes -> 0..Pieces]
    BY <1>9 DEF Creates
  <2>. QED
    <3>1. UNCHANGED <<mode, owner, deskVars, stage, final, at, server, port>>
          /\ handle' = [handle EXCEPT ![p] = "part"]
      BY <1>9 DEF Creates, Keep
    <3>. QED
      BY <2>2, <2>3, <3>1 DEF deskVars
<1>10. ASSUME NEW p \in Processes, Writes(p) PROVE TypeOK'
  <2>1. at[p] \in 1..Files /\ got[p] + 1 \in Whole
    BY <1>10 DEF Writes, Fetching, Whole
  <2>2. part' \in [1..Files -> SUBSET Whole] /\ final' \in [1..Files -> SUBSET Whole]
    BY <1>10, <2>1 DEF Writes, Written, File
  <2>3. got' \in [Processes -> 0..Pieces]
    BY <1>10 DEF Writes
  <2>. QED
    BY <1>10, <2>2, <2>3 DEF Writes, Keep, deskVars
<1>11. ASSUME NEW p \in Processes, Renames(p) PROVE TypeOK'
  <2>1. at[p] \in 1..Files
    BY <1>11 DEF Renames, Fetching
  <2>2. /\ part' \in [1..Files -> SUBSET Whole] /\ final' \in [1..Files -> SUBSET Whole]
        /\ exists' \subseteq 1..Files
    <3>1. CASE at[p] \notin exists
      BY <1>11, <3>1 DEF Renames, File, dirVars
    <3>2. CASE at[p] \in exists
      <4>1. /\ final' = [final EXCEPT ![at[p]] = part[at[p]]]
            /\ part' = [part EXCEPT ![at[p]] = {}] /\ exists' = exists \ {at[p]}
        BY <1>11, <3>2 DEF Renames, File
      <4>2. part[at[p]] \in SUBSET Whole /\ {} \in SUBSET Whole
        BY <2>1
      <4>. QED
        BY <4>1, <4>2
    <3>. QED
      BY <3>1, <3>2
  <2>3. at' \in [Processes -> 1..(Files + 1)]
    <3>1. at' = at \/ at' = [at EXCEPT ![p] = @ + 1]
      BY <1>11 DEF Renames
    <3>2. at[p] + 1 \in 1..(Files + 1)
      BY <2>1
    <3>. QED
      BY <3>1, <3>2
  <2>4. handle' \in [Processes -> {"none", "part", "final", "replaced"}]
    <3>1. \A q \in Processes :
            {"none", handle[q], Renamed(handle[q])} \subseteq {"none", "part", "final", "replaced"}
      BY DEF Renamed
    <3>2. \/ handle' = [handle EXCEPT ![p] = "none"]
          \/ handle' = [q \in Processes |->
               IF q = p THEN "none"
               ELSE IF at[q] = at[p] THEN Renamed(handle[q]) ELSE handle[q]]
      BY <1>11 DEF Renames
    <3>. QED
      BY <3>1, <3>2
  <2>5. stage' \in [Processes -> {"off", "lock", "run", "serve"} \cup Starting]
    BY <1>11 DEF Renames, Goes
  <2>. QED
    <3>1. UNCHANGED <<mode, owner, deskVars, got, server, port>>
      BY <1>11 DEF Renames, Keep
    <3>. QED
      BY <2>2, <2>3, <2>4, <2>5, <3>1 DEF deskVars
<1>. QED
  BY <1>1, <1>3, <1>4, <1>5, <1>6, <1>7, <1>8, <1>9, <1>10, <1>11
  DEF Next, Bootstraps

\* Code: the bookkeeping of start_if_needed and download_file.  Every reachable state
\* is well typed.
THEOREM TypeCorrect == Spec => []TypeOK
<1>1. Init => TypeOK
  BY DEF Init, TypeOK, Whole
<1>. QED
  BY <1>1, TypeStep, PTL DEF Spec

--------------------------------------------------------------------------------
\* The parts of the invariant.  A process that does not run is nowhere.
OffIsOff == \A p \in Processes : mode[p] = "off" => stage[p] = "off"
\* The lock lets one process on: it owns it.
Owned == \A p \in Processes : stage[p] \in Busy => owner = p
\* An open file is the .part of the file that is downloaded, with the pieces so far.
OpenIsPart ==
  \A p \in Processes : handle[p] # "none" =>
    /\ stage[p] = "fetch" /\ at[p] <= Files
    /\ handle[p] = "part" /\ part[at[p]] = 1..got[p]
\* The files before the one that is downloaded are there.
DoneSoFar ==
  \A p \in Processes : stage[p] = "fetch" => \A f \in 1..Files : f < at[p] => final[f] = Whole
\* Under their own names files are whole, and the marker is the last.
AllOrNothing == \A f \in 1..Files : final[f] \in {{}, Whole}
MarkerIsLast == final[Marker] # {} => \A f \in 1..Files : final[f] = Whole

Safe == TypeOK /\ OffIsOff /\ Owned /\ OpenIsPart /\ DoneSoFar /\ AllOrNothing /\ MarkerIsLast

Alone == Locks /\ "check" \notin Modes

LEMMA OffStep == TypeOK /\ OffIsOff /\ [Next]_vars => OffIsOff'
<1>. SUFFICES ASSUME TypeOK, OffIsOff, [Next]_vars PROVE OffIsOff'
  OBVIOUS
<1>. USE DEF TypeOK, OffIsOff
<1>1. CASE UNCHANGED vars
  BY <1>1 DEF vars
<1>2. ASSUME NEW p \in Processes, Ends(p) PROVE OffIsOff'
  BY <1>2 DEF Ends
<1>3. ASSUME NEW p \in Processes, Starts(p) PROVE OffIsOff'
  <2>1. PICK m \in Modes : mode' = [mode EXCEPT ![p] = m]
    BY <1>3 DEF Starts
  <2>2. \A q \in Processes \ {p} : stage'[q] = stage[q]
    BY <1>3 DEF Starts
  <2>. QED
    BY <2>1, <2>2
<1>4. ASSUME NEW p \in Processes, stage[p] # "off", mode' = mode,
             \A q \in Processes \ {p} : stage'[q] = stage[q]
      PROVE  OffIsOff'
  BY <1>4
<1>5. ASSUME NEW p \in Processes, TakesLock(p) PROVE OffIsOff'
  <2>1. stage[p] = "lock"
    BY <1>5 DEF TakesLock
  <2>2. CASE Ends(p)
    BY <2>2, <1>2
  <2>3. CASE mode' = mode /\ stage' = [stage EXCEPT ![p] = "probe"]
    BY <2>1, <2>3, <1>4
  <2>. QED
    BY <1>5, <2>2, <2>3 DEF TakesLock
<1>6. ASSUME NEW p \in Processes, Leaves(p) \/ Crashes(p) \/ Served(p) PROVE OffIsOff'
  BY <1>2, <1>6 DEF Leaves, Crashes, Served
<1>7. ASSUME NEW p \in Processes,
             Quits(p) \/ Watches(p) \/ OpensSettings(p) \/ ServerStarts(p)
      PROVE  OffIsOff'
  BY <1>7 DEF Quits, Watches, OpensSettings, ServerStarts, Keep
<1>8. ASSUME NEW p \in Processes, Bootstraps(p) PROVE OffIsOff'
  <2>1. stage[p] # "off" /\ mode' = mode
    BY <1>8 DEF Bootstraps, Probes, Queries, Skips, Creates, Writes, BreaksOff, Renames,
                Spawns, StopsWaiting, Fetching, Keep
  <2>2. stage' = stage \/ \E to \in Starting \cup {"run"} : stage' = [stage EXCEPT ![p] = to]
    BY <1>8 DEF Bootstraps, Probes, Queries, Skips, Creates, Writes, BreaksOff, Renames,
                Spawns, StopsWaiting, Goes, Starting
  <2>3. \A q \in Processes \ {p} : stage'[q] = stage[q]
    BY <2>2
  <2>. QED
    BY <2>1, <2>3, <1>4
<1>. QED
  BY <1>1, <1>3, <1>5, <1>6, <1>7, <1>8 DEF Next

\* A process that ends takes its open file with it, and leaves the rest.
LEMMA EndsSafe ==
  ASSUME Safe, NEW p \in Processes, Ends(p), UNCHANGED dirVars
  PROVE  Owned' /\ OpenIsPart' /\ DoneSoFar' /\ AllOrNothing' /\ MarkerIsLast'
<1>. USE DEF Safe, TypeOK, Ends, dirVars
<1>1. Owned'
  BY DEF Owned, Busy, Starting
<1>2. OpenIsPart'
  BY DEF OpenIsPart
<1>3. DoneSoFar'
  BY DEF DoneSoFar
<1>4. AllOrNothing' /\ MarkerIsLast'
  BY DEF AllOrNothing, MarkerIsLast
<1>. QED
  BY <1>1, <1>2, <1>3, <1>4

\* Only the owner of the lock has a file open.
LEMMA NobodyElse ==
  ASSUME Safe, NEW p \in Processes, stage[p] \in Busy, NEW q \in Processes, q # p
  PROVE  handle[q] = "none" /\ stage[q] \notin Busy
BY DEF Safe, Owned, OpenIsPart, Busy, Starting

\* A step that neither opens nor writes a file, nor enters the download.
LEMMA ElsewhereSafe ==
  ASSUME Safe, UNCHANGED <<dirVars, fetchVars>>,
         \A p \in Processes : stage'[p] = "fetch" <=> stage[p] = "fetch"
  PROVE  OpenIsPart' /\ DoneSoFar' /\ AllOrNothing' /\ MarkerIsLast'
BY DEF Safe, OpenIsPart, DoneSoFar, AllOrNothing, MarkerIsLast, dirVars, fetchVars

LEMMA StartsSafe ==
  ASSUME Safe, Alone, NEW p \in Processes, Starts(p) \/ TakesLock(p)
  PROVE  Owned' /\ OpenIsPart' /\ DoneSoFar' /\ AllOrNothing' /\ MarkerIsLast'
<1>1. CASE Starts(p)
  <2>1. Owned'
    BY <1>1 DEF Safe, TypeOK, Starts, Owned, Busy, Starting
  <2>. QED
    <3>1. UNCHANGED <<dirVars, fetchVars>>
      BY <1>1 DEF Starts
    <3>2. \E to \in {"serve", "lock"} : stage[p] # "fetch" /\ stage' = [stage EXCEPT ![p] = to]
      <4>1. stage[p] # "fetch"
        BY <1>1 DEF Safe, Owned, OffIsOff, Starts
      <4>. QED
        BY <1>1, <4>1 DEF Starts
    <3>3. \A q \in Processes : stage'[q] = "fetch" <=> stage[q] = "fetch"
      BY <3>2 DEF Safe, TypeOK
    <3>. QED
      BY <2>1, <3>1, <3>3, ElsewhereSafe
<1>2. CASE Free /\ TakesLock(p)
  <2>1. owner = Nobody /\ owner' = p /\ stage' = [stage EXCEPT ![p] = "probe"]
    BY <1>2 DEF Free, TakesLock, Alone
  <2>2. Owned'
    BY <2>1 DEF Safe, TypeOK, Owned
  <2>. QED
    BY <1>2, <2>1, <2>2, ElsewhereSafe DEF Safe, TypeOK, TakesLock
<1>3. CASE ~Free /\ TakesLock(p)
  <2>1. Ends(p) /\ UNCHANGED dirVars
    BY <1>3 DEF Safe, TypeOK, TakesLock, Alone
  <2>. QED
    BY <2>1, EndsSafe
<1>. QED
  BY <1>1, <1>2, <1>3

LEMMA DownloadSafe ==
  ASSUME Safe, NEW p \in Processes, Skips(p) \/ Creates(p) \/ Writes(p) \/ Renames(p)
  PROVE  Owned' /\ OpenIsPart' /\ DoneSoFar' /\ AllOrNothing' /\ MarkerIsLast'
<1>. USE DEF Fetching, File, Keep, dirVars, fetchVars, Goes
<1>1. stage[p] = "fetch" /\ at[p] \in 1..Files /\ owner' = owner
  BY DEF Safe, TypeOK, Skips, Creates, Writes, Renames
<1>2. \A q \in Processes : q # p => handle[q] = "none" /\ stage[q] \notin Busy
  BY <1>1, NobodyElse DEF Busy, Starting
<1>3. Owned'
  BY DEF Safe, TypeOK, Owned, Skips, Creates, Writes, Renames, Busy, Starting
<1>4. CASE Skips(p)
  <2>1. final[at[p]] = Whole
    BY <1>1, <1>4 DEF Safe, AllOrNothing, Skips, RightSize
  <2>. QED
    BY <1>1, <1>3, <1>4, <2>1
    DEF Safe, TypeOK, Skips, OpenIsPart, DoneSoFar, AllOrNothing, MarkerIsLast
<1>5. CASE Creates(p)
  <2>1. OpenIsPart'
    BY <1>1, <1>2, <1>5 DEF Safe, TypeOK, Creates, OpenIsPart
  <2>. QED
    BY <1>3, <1>5, <2>1 DEF Safe, TypeOK, Creates, DoneSoFar, AllOrNothing, MarkerIsLast
<1>6. CASE Writes(p)
  <2>1. handle[p] = "part" /\ part[at[p]] = 1..got[p]
    BY <1>6 DEF Safe, OpenIsPart, Writes
  <2>2. final' = final /\ part' = [part EXCEPT ![at[p]] = @ \cup {got[p] + 1}]
    BY <1>6, <2>1 DEF Writes, Written
  <2>3. (1..got[p]) \cup {got[p] + 1} = 1..(got[p] + 1)
    BY DEF Safe, TypeOK
  <2>4. OpenIsPart'
    <3>1. UNCHANGED <<stage, at, handle>> /\ got' = [got EXCEPT ![p] = @ + 1]
      BY <1>6 DEF Writes
    <3>2. part'[at[p]] = 1..got'[p]
      BY <1>1, <2>1, <2>2, <2>3, <3>1 DEF Safe, TypeOK
    <3>3. \A q \in Processes : handle'[q] # "none" => q = p
      BY <1>2, <3>1
    <3>. QED
      BY <1>1, <2>1, <3>1, <3>2, <3>3 DEF Safe, TypeOK, OpenIsPart
  <2>. QED
    BY <1>3, <1>6, <2>2, <2>4 DEF Safe, Writes, DoneSoFar, AllOrNothing, MarkerIsLast
<1>7. CASE Renames(p) /\ at[p] \notin exists
  <2>1. /\ UNCHANGED <<dirVars, at>> /\ handle' = [handle EXCEPT ![p] = "none"]
        /\ stage' = [stage EXCEPT ![p] = "run"]
    BY <1>7 DEF Renames
  <2>2. \A q \in Processes : handle'[q] = "none"
    BY <1>2, <2>1 DEF Safe, TypeOK
  <2>3. DoneSoFar'
    BY <2>1 DEF Safe, TypeOK, DoneSoFar
  <2>4. AllOrNothing' /\ MarkerIsLast'
    BY <2>1 DEF Safe, AllOrNothing, MarkerIsLast
  <2>. QED
    BY <1>3, <2>2, <2>3, <2>4 DEF OpenIsPart
<1>8. CASE Renames(p) /\ at[p] \in exists
  <2>1. part[at[p]] = Whole
    BY <1>8 DEF Safe, OpenIsPart, Renames, MayRename, Whole
  <2>2. final' = [final EXCEPT ![at[p]] = Whole] /\ at' = [at EXCEPT ![p] = @ + 1]
        /\ stage' = stage
    BY <1>8, <2>1 DEF Renames
  <2>3. \A q \in Processes : handle'[q] = "none"
    BY <1>2, <1>8 DEF Renames, Renamed
  <2>4. DoneSoFar'
    BY <1>1, <1>2, <2>2 DEF Safe, TypeOK, DoneSoFar, Busy, Starting
  <2>5. AllOrNothing'
    BY <2>2 DEF Safe, TypeOK, AllOrNothing
  <2>6. MarkerIsLast'
    BY <1>1, <2>2 DEF Safe, TypeOK, DoneSoFar, MarkerIsLast, Marker
  <2>. QED
    BY <1>3, <2>3, <2>4, <2>5, <2>6 DEF OpenIsPart
<1>. QED
  BY <1>4, <1>5, <1>6, <1>7, <1>8

LEMMA SafeStep == Alone /\ Safe /\ [Next]_vars => Safe'
<1>. SUFFICES ASSUME Alone, Safe, [Next]_vars
              PROVE  Owned' /\ OpenIsPart' /\ DoneSoFar' /\ AllOrNothing' /\ MarkerIsLast'
  BY TypeStep, OffStep DEF Safe
<1>1. CASE UNCHANGED vars
  BY <1>1 DEF vars, dirVars, fetchVars, Safe, Owned, OpenIsPart, DoneSoFar, AllOrNothing,
              MarkerIsLast
<1>2. ASSUME NEW p \in Processes, Leaves(p) \/ Crashes(p) \/ Served(p)
      PROVE  Owned' /\ OpenIsPart' /\ DoneSoFar' /\ AllOrNothing' /\ MarkerIsLast'
  BY <1>2, EndsSafe DEF Leaves, Crashes, Served
<1>3. ASSUME NEW p \in Processes, Quits(p) \/ Watches(p) \/ OpensSettings(p) \/ ServerStarts(p)
      PROVE  Owned' /\ OpenIsPart' /\ DoneSoFar' /\ AllOrNothing' /\ MarkerIsLast'
  BY <1>3, ElsewhereSafe DEF Quits, Watches, OpensSettings, ServerStarts, Keep, Safe, Owned
<1>4. ASSUME NEW p \in Processes, Probes(p) \/ Spawns(p) \/ StopsWaiting(p)
      PROVE  Owned' /\ OpenIsPart' /\ DoneSoFar' /\ AllOrNothing' /\ MarkerIsLast'
  <2>1. Owned'
    BY <1>4 DEF Probes, Spawns, StopsWaiting, Goes, Keep, Safe, TypeOK, Owned, Busy, Starting
  <2>2. handle[p] = "none" /\ UNCHANGED <<dirVars, fetchVars>>
    BY <1>4 DEF Probes, Spawns, StopsWaiting, Safe, OpenIsPart, TypeOK
  <2>3. \E to \in {"run", "spawn", "query", "wait"} : stage' = [stage EXCEPT ![p] = to]
    BY <1>4 DEF Probes, Spawns, StopsWaiting, Goes
  <2>4. OpenIsPart'
    BY <2>2, <2>3 DEF Safe, TypeOK, OpenIsPart, dirVars, fetchVars
  <2>5. DoneSoFar'
    BY <2>2, <2>3 DEF Safe, TypeOK, DoneSoFar, dirVars, fetchVars
  <2>6. AllOrNothing' /\ MarkerIsLast'
    BY <2>2 DEF Safe, AllOrNothing, MarkerIsLast, dirVars
  <2>. QED
    BY <2>1, <2>4, <2>5, <2>6
<1>5. ASSUME NEW p \in Processes, Queries(p) \/ BreaksOff(p)
      PROVE  Owned' /\ OpenIsPart' /\ DoneSoFar' /\ AllOrNothing' /\ MarkerIsLast'
  <2>1. Owned'
    BY <1>5 DEF Queries, BreaksOff, Fetching, Goes, Keep, Safe, TypeOK, Owned, Busy, Starting
  <2>2. UNCHANGED <<dirVars, got>>
    BY <1>5 DEF Queries, BreaksOff
  <2>3. \/ /\ handle[p] = "none" /\ UNCHANGED handle /\ at' = [at EXCEPT ![p] = 1]
           /\ \E to \in {"fetch", "run"} : stage' = [stage EXCEPT ![p] = to]
        \/ /\ handle' = [handle EXCEPT ![p] = "none"] /\ UNCHANGED at
           /\ stage' = [stage EXCEPT ![p] = "run"]
    BY <1>5 DEF Queries, BreaksOff, Goes, Safe, OpenIsPart
  <2>4. handle'[p] = "none" /\ \A q \in Processes \ {p} :
          stage'[q] = stage[q] /\ handle'[q] = handle[q] /\ at'[q] = at[q]
    BY <2>3 DEF Safe, TypeOK
  <2>5. OpenIsPart'
    BY <2>2, <2>4 DEF Safe, OpenIsPart, dirVars
  <2>6. stage'[p] = "fetch" => at'[p] = 1
    BY <2>3 DEF Safe, TypeOK
  <2>7. DoneSoFar'
    BY <2>2, <2>4, <2>6 DEF Safe, DoneSoFar, dirVars
  <2>8. AllOrNothing' /\ MarkerIsLast'
    BY <2>2 DEF Safe, AllOrNothing, MarkerIsLast, dirVars
  <2>. QED
    BY <2>1, <2>5, <2>7, <2>8
<1>. QED
  BY <1>1, <1>2, <1>3, <1>4, <1>5, StartsSafe, DownloadSafe DEF Next, Bootstraps

\* Code: model_download::ensure, bundled_server::model_directory.  With file locks and
\* without a check beside the application a model that is taken for complete is whole,
\* whatever crashed, broke off and was started again.
THEOREM ModelsWholeHolds == Alone => (Spec => []ModelsWhole)
<1>1. Init => Safe
  <2>1. Init => TypeOK
    BY DEF Init, TypeOK, Whole
  <2>. QED
    BY <2>1 DEF Init, Safe, OffIsOff, Owned, OpenIsPart, DoneSoFar, AllOrNothing, MarkerIsLast, Busy,
                Starting, Marker
<1>2. Safe => ModelsWhole
  BY DEF Safe, ModelsWhole, AllOrNothing, MarkerIsLast, RightSize
<1>3. SUFFICES ASSUME Alone PROVE Spec => []ModelsWhole
  OBVIOUS
<1>4. Safe /\ [Next]_vars => Safe'
  BY <1>3, SafeStep
<1>. QED
  BY <1>1, <1>2, <1>4, PTL DEF Spec
================================================================================

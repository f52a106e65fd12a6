---------------------------- MODULE ConnectionProofs ----------------------------
(***************************************************************************)
(* What holds of a connection for any number of commands, connections and  *)
(* answers, and any size of a batch: when its completion is reported, what *)
(* a connection check that is passed has seen, and what a session thread   *)
(* has said and sent by its end.                                           *)
(***************************************************************************)
EXTENDS Connection, SequenceTheorems, TLAPS

\* The parts of the invariant.  A control thread that posts, or has, was told to stop;
\* one that is over has posted.
PostsAfterStop ==
  /\ attempts \in Nat
  /\ ctl = "post" \/ attempts > 0 => stop = "taken"
  /\ ctl = "over" => attempts > 0
\* It is told by the controller that lets the connection go, which gives it no audio
\* any more.
StopsWhenLetGo ==
  /\ stop # "none" => pc \in {"joinControl", "drop", "joinSession", "idle"}
  /\ listening => pc = "live"
\* Before the first connection, which may be the one of a check, nothing has happened.
ChecksBefore == opened \in Nat /\ (opened = 0 => stop = "none" /\ pc = "idle")

Reported == PostsAfterStop /\ StopsWhenLetGo /\ ChecksBefore

\* Every step keeps the first invariant.
LEMMA ReportedStep == Reported /\ [Next]_vars => Reported'
<1>. SUFFICES ASSUME Reported, [Next]_vars PROVE Reported'
  OBVIOUS
<1>. USE DEF Reported, PostsAfterStop, StopsWhenLetGo, ChecksBefore, ctlVars
<1>1. CASE UNCHANGED vars
  BY <1>1 DEF vars
<1>2. CASE Opens
  BY <1>2 DEF Opens
<1>3. CASE Gives \/ ControlLost
  BY <1>3 DEF Gives, ControlLost
<1>4. CASE LetsGo \/ StopsControl
  BY <1>4 DEF LetsGo, StopsControl
<1>5. CASE ControlJoined \/ SenderDropped \/ SessionJoined
  BY <1>5 DEF ControlJoined, SenderDropped, SessionJoined
<1>6. CASE SessionStep
  BY <1>6 DEF SessionStep, Connects, Sends, Disconnected, Reads, Read, Keeps, Rest
<1>7. CASE NotReady \/ Checks
  BY <1>7 DEF NotReady, Checks, Starting
<1>8. CASE ChecksEvent
  <2>1. UNCHANGED <<opened, listening, ctl, attempts, stop>> /\ pc = "checking"
    BY <1>8 DEF ChecksEvent
  <2>2. pc' \in {pc, "joinSession"}
    BY <1>8 DEF ChecksEvent, Says, GoesOn
  <2>. QED
    BY <2>1, <2>2
<1>9. CASE TimesOut
  BY <1>9 DEF TimesOut
<1>10. CASE Builds \/ Waits \/ Acknowledged
  BY <1>10 DEF Builds, Waits, Acknowledged, Untouched
<1>11. CASE Polls
  BY <1>11 DEF Polls, AfterNotice, Untouched
<1>12. CASE Posts
  BY <1>12 DEF Posts, Untouched
<1>13. CASE Superseded
  BY <1>13 DEF Superseded
<1>. QED
  BY <1>1, <1>2, <1>3, <1>4, <1>5, <1>6, <1>7, <1>8, <1>9, <1>10, <1>11, <1>12, <1>13
  DEF Next, ControllerStep, CheckStep, ControlStep

\* Code: complete_connection_control, cleanup_asr.  The server is told of the completion
\* only after the controller has stopped giving audio, and always by a control thread
\* that was told to stop.
THEOREM CompletionReportedHolds == Spec => []CompletionReported
<1>1. Init => Reported
  BY DEF Init, Reported, PostsAfterStop, StopsWhenLetGo, ChecksBefore
<1>2. Reported => CompletionReported
  BY DEF Reported, PostsAfterStop, StopsWhenLetGo, CompletionReported, Cleaning
<1>. QED
  BY <1>1, <1>2, ReportedStep, PTL DEF Spec

--------------------------------------------------------------------------------
\* The parts of the second invariant, about the one connection of a check.  Before it
\* is opened nothing is there.
Fresh ==
  /\ opened \in Nat /\ (pc = "checking" => verdict # "none")
  /\ opened = 0 =>
       /\ given = <<>> /\ queue = <<>> /\ wire = <<>> /\ events = <<>> /\ seen = 0
       /\ pc = "idle" /\ asr = "none" /\ stopping = FALSE /\ ~finished /\ ~failed
Sent == {"Audio", "Finalize", "Stop"}
Told == {"Connected", "Text", "Finished", "Failed", "Closed", "Rejected"}
\* What the server was sent and what waits make up the probe, and the end of the probe
\* is what stops.
ProbeSent ==
  /\ given \in {<<>>, Probe} /\ wire \in Seq(Sent) /\ queue \in Seq(Sent)
  /\ asr \notin {"none", "over"} => wire \o queue = given
  /\ given = <<>> => wire = <<>> /\ queue = <<>>
  /\ stopping \in BOOLEAN /\ (stopping => wire = Probe)
\* The connection is up once, before all else, and the probe waits for that.
UpFirst ==
  /\ events \in Seq(Told) /\ seen \in Nat /\ seen <= Len(events)
  /\ asr = "connect" => events = <<>>
  /\ \A i \in 1..Len(events) : events[i] = "Connected" => i = 1
  /\ seen = 0 => given = <<>>
\* An end is announced, follows Stop, or is made up when the check is done.
EndKnown ==
  /\ \A i \in 1..Len(events) : events[i] = "Finished" => finished \/ stopping \/ ~sender
  /\ pc \in {"idle", "checking", "joinSession"}
  /\ pc = "checking" => sender /\ verdict \in {"waits", "probed", "answered"}
\* The verdict goes by what was read.
ReadSoFar ==
  /\ verdict \in {"answered", "ok"} => \E i \in 1..seen : events[i] = "Text"
  /\ verdict \in {"waits", "probed", "answered", "ok"} =>
       \A i \in 1..seen : events[i] \notin {"Failed", "Rejected"}

Checked ==
  /\ Fresh
  /\ verdict # "none" =>
       ProbeSent /\ UpFirst /\ EndKnown /\ ReadSoFar /\ (verdict = "ok" => finished \/ wire = Probe)

\* The probe ends with Stop, which is nowhere else in it.
LEMMA ProbeShape ==
  /\ Probe \in Seq(Sent) /\ Len(Probe) = Silence + 2 /\ Silence \in Nat
  /\ \A i \in 1..Len(Probe) : Probe[i] = "Stop" <=> i = Len(Probe)
<1>. DEFINE quiet == [i \in 1..Silence |-> "Audio"]
            rest == <<"Finalize", "Stop">>
<1>1. Silence \in Nat
  BY ConnectionAssumption
<1>2. quiet \in Seq(Sent) /\ Len(quiet) = Silence
  BY <1>1 DEF Sent
<1>3. rest \in Seq(Sent) /\ Len(rest) = 2 /\ rest[1] = "Finalize" /\ rest[2] = "Stop"
  BY DEF Sent
<1>4. \A i \in 1..Silence : quiet[i] = "Audio"
  OBVIOUS
<1>. HIDE DEF quiet, rest
<1>5. /\ quiet \o rest \in Seq(Sent) /\ Len(quiet \o rest) = Silence + 2
      /\ \A i \in 1..(Silence + 2) :
           (quiet \o rest)[i] = IF i <= Silence THEN quiet[i] ELSE rest[i - Silence]
  <2>1. /\ quiet \o rest \in Seq(Sent) /\ Len(quiet \o rest) = Len(quiet) + Len(rest)
        /\ \A i \in 1..(Len(quiet) + Len(rest)) :
             (quiet \o rest)[i] = IF i <= Len(quiet) THEN quiet[i] ELSE rest[i - Len(quiet)]
    BY <1>2, <1>3, ConcatProperties
  <2>. QED
    BY <1>2, <1>3, <2>1
<1>6. Probe = quiet \o rest
  BY DEF Probe, quiet, rest
<1>7. ASSUME NEW i \in 1..(Silence + 2) PROVE Probe[i] = "Stop" <=> i = Silence + 2
  <2>1. CASE i <= Silence
    BY <1>1, <1>4, <1>5, <1>6, <2>1
  <2>2. CASE i = Silence + 1
    BY <1>1, <1>3, <1>5, <1>6, <2>2
  <2>3. CASE i = Silence + 2
    BY <1>1, <1>3, <1>5, <1>6, <2>3
  <2>. QED
    BY <1>1, <2>1, <2>2, <2>3
<1>. QED
  BY <1>1, <1>5, <1>6, <1>7

\* Of the probe nothing is left when it is sent, and Stop is the last to be.
LEMMA ProbeRest ==
  ASSUME NEW sent \in Seq(Sent), NEW left \in Seq(Sent), sent \o left = Probe
  PROVE  /\ sent = Probe => left = <<>>
         /\ left # <<>> /\ Head(left) = "Stop" => Append(sent, Head(left)) = Probe
         /\ left # <<>> =>
              Append(sent, Head(left)) \in Seq(Sent) /\ Append(sent, Head(left)) \o Tail(left) = Probe
<1>1. /\ Len(sent) \in Nat /\ Len(left) \in Nat /\ Len(sent) + Len(left) = Len(Probe)
      /\ \A i \in 1..Len(Probe) :
           Probe[i] = IF i <= Len(sent) THEN sent[i] ELSE left[i - Len(sent)]
  BY ConcatProperties, LenProperties
<1>2. sent = Probe => left = <<>>
  BY <1>1, EmptySeq
<1>3. ASSUME left # <<>>
      PROVE  /\ Append(sent, Head(left)) \in Seq(Sent)
             /\ Append(sent, Head(left)) \o Tail(left) = Probe
             /\ Head(left) = "Stop" => Append(sent, Head(left)) = Probe
  <2>. DEFINE more == Append(sent, Head(left))
  <2>1. /\ Len(left) > 0 /\ Head(left) = left[1] /\ Head(left) \in Sent
        /\ Tail(left) \in Seq(Sent) /\ Len(Tail(left)) = Len(left) - 1
        /\ \A i \in 1..Len(Tail(left)) : Tail(left)[i] = left[i + 1]
    BY <1>1, <1>3, EmptySeq, HeadTailProperties
  <2>2. /\ more \in Seq(Sent) /\ Len(more) = Len(sent) + 1
        /\ \A i \in 1..Len(sent) : more[i] = sent[i]
        /\ more[Len(sent) + 1] = left[1]
    BY <2>1, AppendProperties
  <2>. HIDE DEF more
  <2>3. /\ more \o Tail(left) \in Seq(Sent) /\ Len(more \o Tail(left)) = Len(Probe)
        /\ \A i \in 1..Len(Probe) : (more \o Tail(left))[i] =
             IF i <= Len(more) THEN more[i] ELSE Tail(left)[i - Len(more)]
    <3>1. Len(more) + Len(Tail(left)) = Len(Probe)
      BY <1>1, <2>1, <2>2
    <3>2. /\ more \o Tail(left) \in Seq(Sent)
          /\ Len(more \o Tail(left)) = Len(more) + Len(Tail(left))
          /\ \A i \in 1..(Len(more) + Len(Tail(left))) : (more \o Tail(left))[i] =
               IF i <= Len(more) THEN more[i] ELSE Tail(left)[i - Len(more)]
      BY <2>1, <2>2, ConcatProperties
    <3>. QED
      BY <3>1, <3>2
  <2>4. \A i \in 1..Len(Probe) : (more \o Tail(left))[i] = Probe[i]
    <3>1. ASSUME NEW i \in 1..Len(Probe) PROVE (more \o Tail(left))[i] = Probe[i]
      <4>1. CASE i <= Len(sent)
        BY <1>1, <2>2, <2>3, <4>1
      <4>2. CASE i = Len(sent) + 1
        BY <1>1, <2>2, <2>3, <4>2
      <4>3. CASE i > Len(sent) + 1
        <5>1. i - Len(more) \in 1..Len(Tail(left)) /\ i - Len(more) + 1 = i - Len(sent)
          BY <1>1, <2>1, <2>2, <4>3
        <5>. QED
          BY <1>1, <2>1, <2>2, <2>3, <4>3, <5>1
      <4>4. i \in Nat /\ Len(sent) \in Nat
        BY <1>1, ProbeShape
      <4>5. i <= Len(sent) \/ i = Len(sent) + 1 \/ i > Len(sent) + 1
        BY <4>4
      <4>. QED
        BY <4>1, <4>2, <4>3, <4>5
    <3>. QED
      BY <3>1
  <2>5. more \o Tail(left) = Probe
    BY <2>3, <2>4, ProbeShape, SeqEqual
  <2>6. ASSUME Head(left) = "Stop" PROVE more = Probe
    <3>1. Len(sent) + 1 \in 1..Len(Probe) /\ Probe[Len(sent) + 1] = "Stop"
      BY <1>1, <2>1, <2>6
    <3>2. Len(sent) + 1 = Len(Probe)
      BY <3>1, ProbeShape
    <3>3. Tail(left) = <<>>
      BY <1>1, <2>1, <3>2, EmptySeq
    <3>. QED
      BY <2>2, <2>5, <3>3, ConcatEmptySeq
  <2>. QED
    BY <2>2, <2>5, <2>6 DEF more
<1>. QED
  BY <1>2, <1>3

\* What the session thread does in a check: it sends on, or tells more.
LEMMA SessionChecked ==
  ASSUME Checked, verdict # "none", SessionStep
  PROVE  Checked'
<1>. USE DEF Checked, SessionStep, Rest, checkVars
<1>1. UNCHANGED <<opened, pc, given, sender, seen, verdict>> /\ asr # "none" /\ asr' # "none"
      /\ (finished => finished')
  BY DEF Connects, Sends, Disconnected, Reads, Read, Keeps, Fails
<1>2. Fresh'
  BY <1>1 DEF Fresh
<1>3. ProbeSent' /\ (wire = Probe => wire' = Probe)
  <2>1. CASE Connects \/ Disconnected \/ Reads \/ Read \/ Keeps
    <3>1. UNCHANGED <<queue, wire, stopping>> /\ asr # "over"
      BY <2>1 DEF Connects, Disconnected, Reads, Read, Keeps
    <3>. QED
      BY <1>1, <3>1 DEF ProbeSent
  <2>2. CASE Sends
    <3>1. /\ wire \o queue = given /\ queue # <<>> /\ queue' = Tail(queue)
          /\ given = Probe
      BY <1>1, <2>2 DEF Sends, ProbeSent
    <3>2. wire # Probe /\ ~stopping
      BY <3>1, ProbeRest DEF ProbeSent
    <3>3. CASE asr' = "over" /\ UNCHANGED <<wire, stopping>>
      BY <1>1, <3>1, <3>2, <3>3, ProbeShape DEF ProbeSent
    <3>4. CASE wire' = Append(wire, Head(queue)) /\ stopping' = (stopping \/ Head(queue) = "Stop")
      <4>1. wire' \in Seq(Sent) /\ queue' \in Seq(Sent) /\ wire' \o queue' = given
        BY <3>1, <3>4, ProbeRest, HeadTailProperties DEF ProbeSent
      <4>2. stopping' => wire' = Probe
        BY <3>1, <3>2, <3>4, ProbeRest DEF ProbeSent
      <4>3. stopping' \in BOOLEAN
        BY <3>2, <3>4
      <4>. QED
        BY <1>1, <3>1, <3>2, <4>1, <4>2, <4>3, ProbeShape DEF ProbeSent
    <3>. QED
      BY <2>2, <3>3, <3>4 DEF Sends, Fails
  <2>. QED
    BY <2>1, <2>2
<1>4. PICK more \in Seq(Told) :
        /\ events' = events \o more
        /\ \A i \in 1..Len(more) : more[i] = "Connected" => i = 1 /\ asr = "connect"
        /\ \A i \in 1..Len(more) : more[i] = "Finished" => finished' \/ stopping' \/ ~sender'
  <2>. DEFINE End == finished' \/ stopping' \/ ~sender'
              Goal == \E more \in Seq(Told) :
                /\ events' = events \o more
                /\ \A i \in 1..Len(more) : more[i] = "Connected" => i = 1 /\ asr = "connect"
                /\ \A i \in 1..Len(more) : more[i] = "Finished" => End
  <2>. SUFFICES Goal
    OBVIOUS
  <2>1. ASSUME events' = events PROVE Goal
    <3>1. <<>> \in Seq(Told) /\ Len(<<>>) = 0 /\ events \o <<>> = events
      BY EmptySeq, ConcatEmptySeq DEF UpFirst
    <3>. WITNESS <<>> \in Seq(Told)
    <3>. QED
      BY <2>1, <3>1
  <2>2. ASSUME NEW e \in Told, events' = Append(events, e),
               e = "Connected" => asr = "connect", e = "Finished" => End
        PROVE  Goal
    <3>1. <<e>> \in Seq(Told) /\ Len(<<e>>) = 1 /\ <<e>>[1] = e /\ events' = events \o <<e>>
      BY <2>2, AppendIsConcat DEF UpFirst
    <3>. WITNESS <<e>> \in Seq(Told)
    <3>. QED
      BY <2>2, <3>1
  <2>3. ASSUME NEW d \in Told, NEW e \in Told, events' = events \o <<d, e>>,
               "Connected" \notin {d, e}, "Finished" \in {d, e} => End
        PROVE  Goal
    <3>1. <<d, e>> \in Seq(Told) /\ Len(<<d, e>>) = 2 /\ <<d, e>>[1] = d /\ <<d, e>>[2] = e
      OBVIOUS
    <3>. WITNESS <<d, e>> \in Seq(Told)
    <3>. QED
      BY <2>3, <3>1
  <2>. HIDE DEF Goal
  <2>4. CASE Connects
    BY <2>2, <2>4 DEF Connects, Fails, Told
  <2>5. CASE Sends
    BY <2>1, <2>2, <2>5 DEF Sends, Fails, Told
  <2>6. CASE Disconnected
    BY <2>2, <2>6 DEF Disconnected, HasNoSender, Told
  <2>7. CASE Reads
    BY <2>1, <2>7 DEF Reads
  <2>8. CASE Read
    <3>1. CASE events' = events \o <<"Text", "Finished">> /\ finished' = TRUE
      BY <2>3, <3>1 DEF Told
    <3>2. CASE \E d \in {"Closed", "Rejected"} :
                 events' = events \o <<d, IF stopping THEN "Finished" ELSE "Failed">>
      <4>1. stopping' = stopping
        BY <2>8 DEF Read
      <4>. QED
        BY <2>3, <3>2, <4>1 DEF Told
    <3>. QED
      BY <2>1, <2>2, <2>8, <3>1, <3>2 DEF Read, Fails, Told
  <2>9. CASE Keeps
    BY <2>1, <2>2, <2>9 DEF Keeps, Fails, Told
  <2>. QED
    BY <2>4, <2>5, <2>6, <2>7, <2>8, <2>9 DEF Goal
<1>5. /\ events' \in Seq(Told) /\ Len(events') = Len(events) + Len(more)
      /\ \A i \in 1..Len(events) : events'[i] = events[i]
      /\ \A i \in 1..Len(events') : i > Len(events) =>
           i - Len(events) \in 1..Len(more) /\ events'[i] = more[i - Len(events)]
  BY <1>4, ConcatProperties, LenProperties DEF UpFirst
<1>6. UpFirst'
  <2>1. asr' # "connect"
    BY DEF Connects, Sends, Disconnected, Reads, Read, Keeps, Fails
  <2>2. \A i \in 1..Len(events') : events'[i] = "Connected" => i = 1
    BY <1>4, <1>5 DEF UpFirst
  <2>. QED
    BY <1>1, <1>5, <2>1, <2>2 DEF UpFirst
<1>7. EndKnown'
  <2>1. stopping => stopping'
    BY DEF Connects, Sends, Disconnected, Reads, Read, Keeps, ProbeSent
  <2>2. \A i \in 1..Len(events') :
          events'[i] = "Finished" => finished' \/ stopping' \/ ~sender'
    BY <1>1, <1>4, <1>5, <2>1 DEF EndKnown, UpFirst
  <2>. QED
    BY <1>1, <2>2 DEF EndKnown
<1>8. ReadSoFar'
  <2>1. \A i \in 1..seen : events'[i] = events[i]
    BY <1>5 DEF UpFirst
  <2>2. seen' = seen /\ verdict' = verdict
    BY <1>1
  <2>. QED
    BY <2>1, <2>2 DEF ReadSoFar
<1>. QED
  BY <1>1, <1>2, <1>3, <1>6, <1>7, <1>8

\* What the check itself does: it sends the probe when the connection is up, and decides.
LEMMA EventChecked ==
  ASSUME Checked, ChecksEvent
  PROVE  Checked'
<1>1. /\ pc = "checking" /\ verdict # "none" /\ opened # 0
      /\ ProbeSent /\ UpFirst /\ EndKnown /\ ReadSoFar
  BY DEF Checked, Fresh, ChecksEvent
<1>2. /\ seen' = seen + 1 /\ seen' \in 1..Len(events) /\ seen \in Nat
      /\ UNCHANGED <<opened, asr, wire, events, stopping, finished, failed>>
  BY <1>1 DEF ChecksEvent, UpFirst
<1>. DEFINE e == events[seen']
<1>3. \/ e = "Connected" /\ verdict' = "probed" /\ given' = Probe /\ queue' = Probe
         /\ UNCHANGED <<pc, sender>>
      \/ e = "Text" /\ verdict' = "answered" /\ UNCHANGED <<pc, sender, given, queue>>
      \/ e = "Closed" /\ verdict' = verdict /\ UNCHANGED <<pc, sender, given, queue>>
      \/ /\ pc' = "joinSession" /\ sender' = FALSE /\ UNCHANGED <<given, queue>>
         /\ \/ verdict' \in {"failed", "rejected", "serverError"}
            \/ e = "Finished" /\ verdict = "answered" /\ verdict' = "ok"
  <2>1. \/ e = "Connected" /\ verdict' = "probed" /\ given' = Probe /\ queue' = Probe
           /\ UNCHANGED <<pc, sender>>
        \/ e = "Connected" /\ Says("failed")
        \/ e = "Text" /\ GoesOn("answered")
        \/ e = "Closed" /\ GoesOn(verdict)
        \/ e = "Rejected" /\ Says("rejected")
        \/ e = "Finished" /\ verdict = "answered" /\ Says("ok")
        \/ e = "Finished" /\ Says("failed")
        \/ e = "Failed" /\ \E v \in {"serverError", "failed"} : Says(v)
    BY DEF ChecksEvent, HasAnswer
  <2>2. \A v : GoesOn(v) => verdict' = v /\ UNCHANGED <<pc, sender, given, queue>>
    BY DEF GoesOn
  <2>3. \A v : Says(v) =>
          verdict' = v /\ pc' = "joinSession" /\ sender' = FALSE /\ UNCHANGED <<given, queue>>
    BY DEF Says
  <2>4. CASE e = "Failed" /\ \E v \in {"serverError", "failed"} : Says(v)
    BY <2>3, <2>4
  <2>5. CASE Says("failed") \/ Says("rejected")
    BY <2>3, <2>5
  <2>6. CASE e = "Finished" /\ verdict = "answered" /\ Says("ok")
    BY <2>3, <2>6
  <2>7. CASE \/ e = "Text" /\ GoesOn("answered")
             \/ e = "Closed" /\ GoesOn(verdict)
    BY <2>2, <2>7
  <2>. QED
    BY <2>1, <2>4, <2>5, <2>6, <2>7
<1>4. verdict' # "none"
  BY <1>1, <1>3
<1>5. Fresh'
  BY <1>1, <1>2, <1>4 DEF Checked, Fresh
<1>6. ProbeSent'
  <2>1. CASE e = "Connected" /\ given' = Probe /\ queue' = Probe
    <3>1. wire = <<>>
      BY <1>1, <1>2, <2>1 DEF UpFirst, ProbeSent
    <3>2. Probe \in Seq(Sent) /\ <<>> \o Probe = Probe /\ Probe # <<>>
      BY ProbeShape, ConcatEmptySeq, EmptySeq
    <3>. QED
      BY <1>1, <1>2, <2>1, <3>1, <3>2 DEF ProbeSent
  <2>2. CASE UNCHANGED <<given, queue>>
    BY <1>1, <1>2, <2>2 DEF ProbeSent
  <2>. QED
    BY <1>3, <2>1, <2>2
<1>7. UpFirst'
  BY <1>1, <1>2 DEF UpFirst
<1>8. EndKnown'
  BY <1>1, <1>2, <1>3 DEF EndKnown
<1>9. ReadSoFar'
  <2>1. \A i \in 1..seen' : i \in 1..seen \/ i = seen'
    BY <1>2
  <2>2. 1..seen \subseteq 1..seen' /\ seen' \in 1..seen'
    BY <1>2
  <2>3. verdict' \in {"answered", "ok"} => \E i \in 1..seen' : events'[i] = "Text"
    BY <1>1, <1>2, <1>3, <2>2 DEF ReadSoFar
  <2>4. verdict' \in {"waits", "probed", "answered", "ok"} =>
          \A i \in 1..seen' : events'[i] \notin {"Failed", "Rejected"}
    <3>1. verdict' \in {"waits", "probed", "answered", "ok"} => e \notin {"Failed", "Rejected"}
      BY <1>3
    <3>2. \A i \in 1..seen : events[i] \notin {"Failed", "Rejected"}
      BY <1>1 DEF EndKnown, ReadSoFar
    <3>. QED
      BY <1>2, <2>1, <3>1, <3>2
  <2>. QED
    BY <2>3, <2>4 DEF ReadSoFar
<1>10. verdict' = "ok" => finished' \/ wire' = Probe
  BY <1>1, <1>2, <1>3 DEF EndKnown, ProbeSent
<1>. QED
  BY <1>5, <1>6, <1>7, <1>8, <1>9, <1>10 DEF Checked

\* Every step keeps the second invariant.
LEMMA CheckedStep == Checked /\ [Next]_vars => Checked'
<1>. SUFFICES ASSUME Checked, [Next]_vars PROVE Checked'
  OBVIOUS
<1>1. ASSUME UNCHANGED <<asrVars, pc, sender, given, opened, checkVars>> PROVE Checked'
  BY <1>1 DEF Checked, Fresh, ProbeSent, UpFirst, EndKnown, ReadSoFar, asrVars, checkVars
<1>2. CASE UNCHANGED vars
  BY <1>1, <1>2 DEF vars
<1>3. CASE Opens \/ Gives \/ ControlLost \/ LetsGo
  <2>1. verdict = "none" /\ verdict' = "none" /\ pc' # "checking" /\ opened' \in Nat /\ opened' # 0
    BY <1>3 DEF Opens, Gives, ControlLost, LetsGo, Checked, Fresh, EndKnown, checkVars
  <2>. QED
    BY <2>1 DEF Checked, Fresh
<1>4. CASE StopsControl \/ ControlJoined \/ SenderDropped \/ SessionJoined
  <2>1. opened # 0 /\ opened' = opened /\ pc' # "checking"
    BY <1>4 DEF StopsControl, ControlJoined, SenderDropped, SessionJoined, Checked, Fresh
  <2>2. CASE verdict = "none"
    BY <1>4, <2>1, <2>2 DEF StopsControl, ControlJoined, SenderDropped, SessionJoined, Checked,
       Fresh, checkVars
  <2>3. CASE verdict # "none"
    <3>1. SessionJoined
      BY <1>4, <2>3 DEF StopsControl, ControlJoined, SenderDropped, Checked, EndKnown
    <3>. QED
      BY <2>1, <3>1 DEF SessionJoined, Checked, Fresh, ProbeSent, UpFirst, EndKnown, ReadSoFar,
         asrVars, checkVars
  <2>. QED
    BY <2>2, <2>3
<1>5. CASE SessionStep
  <2>1. CASE verdict = "none"
    <3>1. opened # 0 /\ UNCHANGED <<opened, pc, verdict>>
      BY <1>5 DEF SessionStep, Connects, Sends, Disconnected, Reads, Read, Keeps, Rest, Checked,
         Fresh, checkVars
    <3>. QED
      BY <2>1, <3>1 DEF Checked, Fresh
  <2>. QED
    BY <1>5, <2>1, SessionChecked
<1>6. CASE NotReady \/ Checks
  <2>1. /\ opened = 0 /\ UNCHANGED <<given, queue, stopping, finished, failed, wire, events, seen>>
        /\ opened' \in Nat /\ verdict' \in {"notReady", "failed", "waits"}
        /\ \/ opened' = 0 /\ pc' = "idle" /\ asr' = "none" /\ verdict' # "waits"
           \/ opened' # 0 /\ pc' = "checking" /\ asr' = "connect" /\ sender' = TRUE
              /\ verdict' = "waits"
    BY <1>6 DEF NotReady, Checks, Starting, Checked, Fresh, asrVars
  <2>2. <<>> \o <<>> = <<>> /\ <<>> \in Seq(Sent) /\ <<>> \in Seq(Told) /\ Len(<<>>) = 0
    BY EmptySeq, ConcatEmptySeq
  <2>3. Fresh' /\ ProbeSent'
    BY <2>1, <2>2 DEF Checked, Fresh, ProbeSent
  <2>4. UpFirst' /\ EndKnown' /\ ReadSoFar'
    BY <2>1, <2>2 DEF Checked, Fresh, UpFirst, EndKnown, ReadSoFar
  <2>. QED
    BY <2>1, <2>3, <2>4 DEF Checked
<1>7. CASE ChecksEvent
  BY <1>7, EventChecked
<1>8. CASE TimesOut
  <2>1. /\ opened # 0 /\ verdict # "none" /\ verdict' = "timeout" /\ pc' = "idle" /\ asr' = "none"
        /\ sender' = FALSE
        /\ UNCHANGED <<opened, given, queue, stopping, finished, failed, wire, events, seen>>
    BY <1>8 DEF TimesOut, Checked, Fresh
  <2>. QED
    BY <2>1 DEF Checked, Fresh, ProbeSent, UpFirst, EndKnown, ReadSoFar
<1>9. CASE ControlStep \/ Superseded
  BY <1>1, <1>9 DEF ControlStep, Builds, Waits, Polls, Acknowledged, Posts, Untouched, Superseded
<1>. QED
  BY <1>2, <1>3, <1>4, <1>5, <1>6, <1>7, <1>8, <1>9
  DEF Next, ControllerStep, CheckStep

\* Code: check_connection.rs, run and wait_for_finished.  A check that is passed has read
\* an answer and no failure, and was told the end by the server or had sent its probe
\* whole, with a probe of any length.
THEOREM VerdictEarnedHolds == Spec => []VerdictEarned
<1>1. Init => Checked
  BY DEF Init, Checked, Fresh
<1>2. Checked => VerdictEarned
  BY DEF Checked, ReadSoFar, VerdictEarned
<1>. QED
  BY <1>1, <1>2, CheckedStep, PTL DEF Spec

--------------------------------------------------------------------------------
\* The parts of the third invariant, about any connection.  Whoever is to give it a
\* command has its sender.
SenderKept ==
  /\ opened \in Nat
  /\ opened = 0 => /\ asr = "none" /\ pc = "idle" /\ given = <<>> /\ queue = <<>> /\ wire = <<>>
                   /\ events = <<>> /\ stopping = FALSE /\ finished = FALSE /\ failed = FALSE
  /\ opened # 0 /\ sender = FALSE => pc \in {"joinSession", "idle"}
  /\ pc # "idle" => asr # "none"
Commands == Words \cup {"Start", "Audio", "Finalize", "Stop"}
\* What was sent and what waits is what was given, until sending fails.
NothingLost ==
  /\ wire \in Seq(Commands) /\ queue \in Seq(Commands) /\ given \in Seq(Commands)
  /\ stopping \in BOOLEAN /\ finished \in BOOLEAN /\ failed \in BOOLEAN
  /\ asr # "none" /\ failed = FALSE => wire \o queue = given
  /\ asr = "over" => \/ failed = TRUE \/ finished = TRUE \/ stopping = TRUE
                     \/ queue = <<>> /\ sender = FALSE
\* The end is said last, and a failure may follow it.
EndSaid ==
  /\ events \in Seq(Told)
  /\ asr \notin {"none", "over"} => failed = FALSE
  /\ asr \notin {"none", "over"} /\ finished = FALSE => Ends = {}
  /\ asr \notin {"none", "over"} /\ finished = TRUE =>
       asr = "keep" /\ Ends = {Len(events)} /\ events[Len(events)] = "Finished"
  /\ asr = "over" =>
       \/ Ends = {Len(events)}
       \/ /\ finished = TRUE /\ failed = TRUE /\ Ends = {Len(events) - 1, Len(events)}
          /\ events[Len(events) - 1] = "Finished" /\ events[Len(events)] = "Failed"
Accounted == SenderKept /\ NothingLost /\ EndSaid

\* A command that is sent goes from what waits to what was sent.
LEMMA MovedOn ==
  ASSUME NEW sent \in Seq(Commands), NEW left \in Seq(Commands), left # <<>>
  PROVE  /\ Append(sent, Head(left)) \in Seq(Commands) /\ Tail(left) \in Seq(Commands)
         /\ Append(sent, Head(left)) \o Tail(left) = sent \o left
<1>. DEFINE first == Head(left)
            more == Tail(left)
<1>1. first \in Commands /\ more \in Seq(Commands)
  BY HeadTailProperties
<1>2. left = <<first>> \o more
  <2>1. Len(left) \in Nat /\ Len(left) >= 1 /\ first = left[1] /\ more = SubSeq(left, 2, Len(left))
    BY LenProperties, EmptySeq, HeadTailProperties, TailIsSubSeq
  <2>2. left = SubSeq(left, 1, Len(left))
    BY SubSeqFull
  <2>3. SubSeq(left, 1, Len(left)) = <<left[1]>> \o SubSeq(left, 1 + 1, Len(left))
    BY <2>1, SubSeqRecursiveFirst
  <2>. QED
    BY <2>1, <2>2, <2>3
<1>. HIDE DEF first, more
<1>3. Append(sent, first) = sent \o <<first>> /\ Append(sent, first) \in Seq(Commands)
  BY <1>1, AppendIsConcat, AppendProperties
<1>4. (sent \o <<first>>) \o more = sent \o (<<first>> \o more)
  BY <1>1, ConcatAssociative
<1>. QED
  BY <1>1, <1>2, <1>3, <1>4 DEF first, more

\* A command that is given is given to what waits.
LEMMA GivenOn ==
  ASSUME NEW sent \in Seq(Commands), NEW left \in Seq(Commands), NEW c \in Commands
  PROVE  sent \o Append(left, c) = Append(sent \o left, c)
<1>1. <<c>> \in Seq(Commands) /\ sent \o left \in Seq(Commands)
  BY ConcatProperties
<1>2. Append(left, c) = left \o <<c>> /\ Append(sent \o left, c) = (sent \o left) \o <<c>>
  BY <1>1, AppendIsConcat
<1>. QED
  BY <1>1, <1>2, ConcatAssociative

\* An ending that is said is one more, at the end.
LEMMA SaidOne ==
  ASSUME events \in Seq(Told), NEW e \in Told, events' = Append(events, e)
  PROVE  /\ events' \in Seq(Told) /\ Len(events') = Len(events) + 1 /\ Len(events) \in Nat
         /\ \A i \in 1..Len(events) : events'[i] = events[i]
         /\ events'[Len(events')] = e
         /\ Ends' = IF e \in Endings THEN Ends \cup {Len(events')} ELSE Ends
<1>1. /\ events' \in Seq(Told) /\ Len(events') = Len(events) + 1 /\ Len(events) \in Nat
      /\ \A i \in 1..Len(events) : events'[i] = events[i]
      /\ events'[Len(events')] = e
  BY AppendProperties, LenProperties
<1>2. \A i : i \in 1..Len(events') <=> i \in 1..Len(events) \/ i = Len(events')
  BY <1>1
<1>. QED
  BY <1>1, <1>2 DEF Ends
\* Two events, the second an end.
LEMMA SaidTwo ==
  ASSUME events \in Seq(Told), NEW d \in Told \ Endings, NEW e \in Endings,
         events' = events \o <<d, e>>
  PROVE  /\ events' \in Seq(Told) /\ Len(events') \in Nat /\ events'[Len(events')] = e
         /\ Ends' = Ends \cup {Len(events')}
<1>1. <<d, e>> \in Seq(Told) /\ Len(<<d, e>>) = 2 /\ <<d, e>>[1] = d /\ <<d, e>>[2] = e
  BY DEF Endings, Told
<1>2. /\ events' \in Seq(Told) /\ Len(events') = Len(events) + 2 /\ Len(events) \in Nat
      /\ \A i \in 1..(Len(events) + 2) :
           events'[i] = IF i <= Len(events) THEN events[i] ELSE <<d, e>>[i - Len(events)]
  BY <1>1, ConcatProperties, LenProperties
<1>3. /\ \A i \in 1..Len(events) : events'[i] = events[i]
      /\ events'[Len(events) + 1] = d /\ events'[Len(events) + 2] = e
  BY <1>1, <1>2
<1>4. \A i : i \in 1..Len(events') <=>
           i \in 1..Len(events) \/ i = Len(events) + 1 \/ i = Len(events')
  BY <1>2
<1>. QED
  BY <1>2, <1>3, <1>4 DEF Ends

\* What the session thread does: it sends what waits, and says how it ended.
LEMMA SessionAccounted ==
  ASSUME Accounted, SessionStep
  PROVE  Accounted'
<1>. USE DEF Accounted
<1>1. UNCHANGED <<opened, pc, given, sender>> /\ asr \notin {"none", "over"} /\ asr' # "none"
  BY DEF SessionStep, Connects, Sends, Disconnected, Reads, Read, Keeps, Fails, Rest
<1>2. opened # 0 /\ SenderKept'
  BY <1>1 DEF SenderKept
<1>3. /\ wire \o queue = given /\ failed = FALSE
      /\ wire \in Seq(Commands) /\ queue \in Seq(Commands) /\ given \in Seq(Commands)
      /\ stopping \in BOOLEAN /\ finished \in BOOLEAN /\ events \in Seq(Told)
      /\ finished = FALSE => Ends = {}
      /\ finished = TRUE =>
           asr = "keep" /\ Ends = {Len(events)} /\ events[Len(events)] = "Finished"
  BY <1>1 DEF NothingLost, EndSaid
<1>4. NothingLost'
  <2>1. CASE Connects \/ Reads
    BY <1>1, <1>3, <2>1 DEF NothingLost, Connects, Reads, Fails
  <2>2. CASE Read \/ Keeps
    <3>1. UNCHANGED <<wire, queue, given, stopping>>
      BY <1>1, <2>2 DEF Read, Keeps
    <3>2. finished' \in BOOLEAN /\ failed' \in BOOLEAN
      BY <1>3, <2>2 DEF Read, Keeps, Fails
    <3>3. asr' = "over" => failed' = TRUE \/ finished' = TRUE \/ stopping' = TRUE
      BY <1>3, <2>2 DEF Read, Keeps, Fails
    <3>. QED
      BY <1>3, <3>1, <3>2, <3>3 DEF NothingLost
  <2>3. CASE Disconnected
    BY <1>1, <1>3, <2>3 DEF NothingLost, Disconnected, HasNoSender
  <2>4. CASE Sends
    <3>1. queue # <<>> /\ queue' = Tail(queue) /\ queue' \in Seq(Commands)
      BY <1>3, <2>4, MovedOn DEF Sends
    <3>2. CASE Fails /\ UNCHANGED <<wire, stopping, finished>>
      BY <1>1, <1>3, <3>1, <3>2 DEF NothingLost, Fails
    <3>3. CASE /\ wire' = Append(wire, Head(queue))
               /\ stopping' = (stopping \/ Head(queue) = "Stop")
               /\ UNCHANGED <<asr, failed, finished>>
      <4>1. wire' \in Seq(Commands) /\ wire' \o queue' = given
        BY <1>3, <3>1, <3>3, MovedOn
      <4>2. stopping' \in BOOLEAN
        BY <3>3
      <4>. QED
        BY <1>1, <1>3, <3>1, <3>3, <4>1, <4>2 DEF NothingLost
    <3>. QED
      BY <2>4, <3>2, <3>3 DEF Sends
  <2>. QED
    BY <2>1, <2>2, <2>3, <2>4 DEF SessionStep
<1>5. EndSaid'
  <2>1. CASE Fails /\ asr # "keep" /\ UNCHANGED finished
    <3>1. Ends' = {Len(events')} /\ events' \in Seq(Told)
      BY <1>3, <2>1, SaidOne DEF Fails, Told, Endings
    <3>. QED
      BY <2>1, <3>1 DEF EndSaid, Fails
  <2>2. CASE Connects
    <3>1. CASE asr' = "send" /\ events' = Append(events, "Connected") /\ UNCHANGED <<failed, finished>>
      <4>1. Ends' = {} /\ events' \in Seq(Told)
        BY <1>3, <2>2, <3>1, SaidOne DEF Told, Endings, Connects
      <4>. QED
        BY <1>3, <2>2, <3>1, <4>1 DEF EndSaid, Connects
    <3>. QED
      BY <2>1, <2>2, <3>1 DEF Connects
  <2>3. CASE Sends
    <3>1. CASE UNCHANGED <<asr, failed, finished, events>>
      BY <1>3, <2>3, <3>1 DEF EndSaid, Ends, Sends
    <3>. QED
      BY <2>1, <2>3, <3>1 DEF Sends
  <2>4. CASE Disconnected
    <3>1. Ends' = {Len(events')} /\ events' \in Seq(Told)
      BY <1>3, <2>4, SaidOne DEF Disconnected, Told, Endings
    <3>. QED
      BY <2>4, <3>1 DEF EndSaid, Disconnected
  <2>5. CASE Reads
    BY <1>3, <2>5 DEF EndSaid, Ends, Reads
  <2>6. CASE Read
    <3>. USE <2>6 DEF Read
    <3>1. finished = FALSE /\ Ends = {}
      BY <1>3
    <3>2. CASE asr' = "keep" /\ UNCHANGED <<events, finished, failed>>
      BY <1>3, <3>1, <3>2 DEF EndSaid, Ends
    <3>3. CASE asr' = "keep" /\ events' = Append(events, "Text") /\ UNCHANGED <<finished, failed>>
      <4>1. Ends' = {} /\ events' \in Seq(Told)
        BY <1>3, <3>1, <3>3, SaidOne DEF Told, Endings
      <4>. QED
        BY <1>3, <3>1, <3>3, <4>1 DEF EndSaid
    <3>4. CASE asr' = "keep" /\ finished' = TRUE /\ events' = events \o <<"Text", "Finished">>
               /\ UNCHANGED failed
      <4>1. Ends' = {Len(events')} /\ events' \in Seq(Told) /\ events'[Len(events')] = "Finished"
        BY <1>3, <3>1, <3>4, SaidTwo DEF Told, Endings
      <4>. QED
        BY <1>3, <3>4, <4>1 DEF EndSaid
    <3>5. CASE asr' = "over" /\ \E e \in {"Closed", "Rejected"} :
                 events' = events \o <<e, IF stopping THEN "Finished" ELSE "Failed">>
      <4>1. Ends' = {Len(events')} /\ events' \in Seq(Told)
        BY <1>3, <3>1, <3>5, SaidTwo DEF Told, Endings
      <4>. QED
        BY <3>5, <4>1 DEF EndSaid
    <3>. QED
      BY <2>1, <3>2, <3>3, <3>4, <3>5
  <2>7. CASE Keeps
    <3>. USE <2>7 DEF Keeps
    <3>1. CASE asr' = (IF finished THEN "over" ELSE "send") /\ UNCHANGED <<failed, events>>
      BY <1>3, <3>1 DEF EndSaid, Ends
    <3>2. CASE Fails
      <4>1. /\ events' \in Seq(Told) /\ Len(events') = Len(events) + 1 /\ Len(events) \in Nat
            /\ \A i \in 1..Len(events) : events'[i] = events[i]
            /\ events'[Len(events')] = "Failed" /\ Ends' = Ends \cup {Len(events')}
        BY <1>3, <3>2, SaidOne DEF Fails, Told, Endings
      <4>2. CASE finished = FALSE
        BY <1>3, <3>2, <4>1, <4>2 DEF EndSaid, Fails
      <4>3. CASE finished = TRUE
        <5>1. Len(events) \in 1..Len(events)
          BY <1>3, <4>3 DEF Ends
        <5>2. events[Len(events)] = "Finished" /\ Ends = {Len(events)}
          BY <1>3, <4>3
        <5>3. Len(events') - 1 = Len(events) /\ events'[Len(events') - 1] = "Finished"
          BY <4>1, <5>1, <5>2
        <5>4. Ends' = {Len(events') - 1, Len(events')}
          BY <4>1, <5>2, <5>3
        <5>. QED
          BY <3>2, <4>1, <4>3, <5>3, <5>4 DEF EndSaid, Fails
      <4>. QED
        BY <1>3, <4>2, <4>3
    <3>. QED
      BY <3>1, <3>2
  <2>. QED
    BY <2>2, <2>3, <2>4, <2>5, <2>6, <2>7 DEF SessionStep
<1>. QED
  BY <1>2, <1>4, <1>5

\* Every step keeps the third invariant.
LEMMA AccountedStep == Accounted /\ Checked /\ [Next]_vars => Accounted'
<1>. SUFFICES ASSUME Accounted, Checked, [Next]_vars PROVE Accounted'
  OBVIOUS
<1>. USE DEF Accounted
<1>1. ASSUME UNCHANGED <<asrVars, given>> PROVE SenderKept' /\ sender' \in {sender, FALSE} => Accounted'
  <2>1. EndSaid'
    BY <1>1 DEF EndSaid, Ends, asrVars
  <2>2. sender' \in {sender, FALSE} => NothingLost'
    BY <1>1 DEF NothingLost, asrVars
  <2>. QED
    BY <2>1, <2>2
<1>2. CASE UNCHANGED vars
  BY <1>1, <1>2 DEF vars, SenderKept, asrVars
<1>3. CASE Opens
  <2>. USE <1>3 DEF Opens
  <2>1. SenderKept'
    BY DEF SenderKept
  <2>2. <<"Start">> \in Seq(Commands) /\ <<>> \in Seq(Commands) /\ <<>> \o <<"Start">> = <<"Start">>
    BY ConcatEmptySeq, EmptySeq DEF Commands
  <2>3. NothingLost'
    BY <2>2 DEF NothingLost
  <2>4. events' = <<>> /\ Len(events') = 0 /\ Ends' = {} /\ events' \in Seq(Told)
    BY EmptySeq DEF Ends
  <2>5. EndSaid'
    BY <2>4 DEF EndSaid
  <2>. QED
    BY <2>1, <2>3, <2>5
<1>4. CASE Gives \/ ControlLost
  <2>1. /\ pc = "live" /\ UNCHANGED <<opened, pc, sender, asr, stopping, finished, failed, wire, events>>
        /\ \/ UNCHANGED <<given, queue>>
           \/ \E c \in Commands : given' = Append(given, c) /\ queue' = Append(queue, c)
    BY <1>4 DEF Gives, ControlLost, Commands
  <2>2. sender # FALSE /\ asr # "none"
    BY <2>1 DEF SenderKept
  <2>3. SenderKept'
    BY <2>1, <2>2 DEF SenderKept
  <2>4. EndSaid'
    BY <2>1 DEF EndSaid, Ends
  <2>5. NothingLost'
    <3>1. CASE UNCHANGED <<given, queue>>
      BY <2>1, <3>1 DEF NothingLost
    <3>2. ASSUME NEW c \in Commands, given' = Append(given, c), queue' = Append(queue, c)
          PROVE  NothingLost'
      <4>1. wire \o queue' = Append(wire \o queue, c)
        BY <3>2, GivenOn DEF NothingLost
      <4>2. queue' \in Seq(Commands) /\ given' \in Seq(Commands)
        BY <3>2, AppendProperties DEF NothingLost
      <4>. QED
        BY <2>1, <2>2, <3>2, <4>1, <4>2 DEF NothingLost
    <3>. QED
      BY <2>1, <3>1, <3>2
  <2>. QED
    BY <2>3, <2>4, <2>5
<1>5. CASE LetsGo \/ StopsControl \/ ControlJoined \/ SenderDropped \/ SessionJoined
  <2>1. SenderKept' /\ sender' \in {sender, FALSE}
    BY <1>5 DEF LetsGo, StopsControl, ControlJoined, SenderDropped, SessionJoined, SenderKept, asrVars
  <2>2. UNCHANGED <<asrVars, given>>
    BY <1>5 DEF LetsGo, StopsControl, ControlJoined, SenderDropped, SessionJoined
  <2>. QED
    BY <1>1, <2>1, <2>2
<1>6. CASE SessionStep
  BY <1>6, SessionAccounted
<1>7. CASE NotReady
  <2>1. SenderKept'
    BY <1>7 DEF NotReady, SenderKept, asrVars
  <2>. QED
    BY <1>1, <1>7, <2>1 DEF NotReady
<1>8. CASE Checks
  <2>1. /\ opened = 0 /\ opened' = 1 /\ pc' = "checking" /\ sender' = TRUE /\ asr' = "connect"
        /\ given = <<>> /\ queue = <<>> /\ wire = <<>> /\ events = <<>>
        /\ stopping = FALSE /\ finished = FALSE /\ failed = FALSE
        /\ UNCHANGED <<given, queue, wire, events, stopping, finished, failed>>
    BY <1>8 DEF Checks, Starting, SenderKept
  <2>2. <<>> \o <<>> = <<>> /\ <<>> \in Seq(Commands) /\ <<>> \in Seq(Told) /\ Len(<<>>) = 0
    BY EmptySeq, ConcatEmptySeq
  <2>3. SenderKept' /\ NothingLost'
    BY <2>1, <2>2 DEF SenderKept, NothingLost
  <2>4. Ends' = {}
    BY <2>1, <2>2 DEF Ends
  <2>5. EndSaid'
    BY <2>1, <2>2, <2>4 DEF EndSaid
  <2>. QED
    BY <2>3, <2>5
<1>9. CASE ChecksEvent
  <2>1. /\ pc = "checking" /\ opened # 0 /\ verdict # "none" /\ asr # "none" /\ sender # FALSE
        /\ UNCHANGED <<opened, asr, stopping, finished, failed, wire, events>>
    BY <1>9 DEF ChecksEvent, SenderKept, Checked, Fresh
  <2>2. EndSaid'
    BY <2>1 DEF EndSaid, Ends
  <2>3. CASE UNCHANGED <<given, queue>> /\ pc' \in {pc, "joinSession"}
             /\ (pc' = pc => UNCHANGED sender)
    <3>1. SenderKept'
      BY <2>1, <2>3 DEF SenderKept
    <3>2. NothingLost'
      BY <2>1, <2>3 DEF NothingLost
    <3>. QED
      BY <2>2, <3>1, <3>2
  <2>4. CASE events[seen'] = "Connected" /\ given' = Probe /\ queue' = Probe /\ UNCHANGED <<pc, sender>>
    <3>1. seen' = 1 /\ seen = 0
      BY <1>9, <2>1, <2>4 DEF ChecksEvent, Checked, UpFirst
    <3>2. wire = <<>>
      BY <2>1, <3>1 DEF Checked, UpFirst, ProbeSent
    <3>3. Probe \in Seq(Commands) /\ <<>> \o Probe = Probe
      <4>1. Seq(Sent) \subseteq Seq(Commands)
        BY DEF Sent, Commands
      <4>. QED
        BY <4>1, ProbeShape, ConcatEmptySeq
    <3>4. SenderKept'
      BY <2>1, <2>4 DEF SenderKept
    <3>5. NothingLost'
      BY <2>1, <2>4, <3>2, <3>3 DEF NothingLost
    <3>. QED
      BY <2>2, <3>4, <3>5
  <2>5. \A v : GoesOn(v) => UNCHANGED <<given, queue, pc, sender>>
    BY DEF GoesOn
  <2>6. \A v : Says(v) => UNCHANGED <<given, queue>> /\ pc' = "joinSession"
    BY DEF Says
  <2>7. pc # "joinSession"
    BY <2>1
  <2>. QED
    BY <1>9, <2>3, <2>4, <2>5, <2>6, <2>7 DEF ChecksEvent
<1>10. CASE TimesOut
  <2>1. /\ opened # 0 /\ pc' = "idle" /\ asr' = "none" /\ opened' = opened
        /\ UNCHANGED <<given, queue, stopping, finished, failed, wire, events>>
    BY <1>10 DEF TimesOut, SenderKept
  <2>2. SenderKept' /\ NothingLost'
    BY <2>1 DEF SenderKept, NothingLost
  <2>3. EndSaid'
    BY <2>1 DEF EndSaid
  <2>. QED
    BY <2>2, <2>3
<1>11. CASE ControlStep \/ Superseded
  <2>1. UNCHANGED <<asrVars, given, opened, pc, sender>>
    BY <1>11 DEF ControlStep, Builds, Waits, Polls, Acknowledged, Posts, Untouched, Superseded
  <2>2. SenderKept'
    BY <2>1 DEF SenderKept, asrVars
  <2>. QED
    BY <1>1, <2>1, <2>2
<1>. QED
  BY <1>2, <1>3, <1>4, <1>5, <1>6, <1>7, <1>8, <1>9, <1>10, <1>11
  DEF Next, ControllerStep, CheckStep

\* Code: run_session.  Whatever it is given and answered, and however many commands it
\* sends at once, a session thread that is over has said how it ended, once and last, and
\* one that was let go without a failure has sent all it was given.
THEOREM EndAccountedHolds == Spec => []EndAccounted
<1>1. Init => Accounted /\ Checked
  <2>. SUFFICES ASSUME Init PROVE Accounted /\ Checked
    OBVIOUS
  <2>. USE DEF Init
  <2>1. <<>> \in Seq(Commands) /\ <<>> \in Seq(Told)
    BY EmptySeq
  <2>2. SenderKept
    BY DEF SenderKept
  <2>3. NothingLost
    BY <2>1 DEF NothingLost
  <2>4. EndSaid
    BY <2>1 DEF EndSaid
  <2>5. Checked
    BY DEF Checked, Fresh
  <2>. QED
    BY <2>2, <2>3, <2>4, <2>5 DEF Accounted
<1>2. Accounted => EndAccounted
  <2>. SUFFICES ASSUME Accounted, asr = "over" PROVE EndAccounted
    BY DEF EndAccounted
  <2>. USE DEF Accounted
  <2>1. Len(events) \in Nat
    BY LenProperties DEF EndSaid
  <2>2. failed = FALSE /\ finished = FALSE /\ stopping = FALSE => wire = given
    BY ConcatEmptySeq DEF NothingLost
  <2>3. failed \in BOOLEAN /\ finished \in BOOLEAN /\ stopping \in BOOLEAN
    BY DEF NothingLost
  <2>4. CASE Ends = {Len(events)}
    BY <2>2, <2>3, <2>4 DEF EndAccounted
  <2>5. CASE /\ finished = TRUE /\ failed = TRUE /\ Ends = {Len(events) - 1, Len(events)}
             /\ events[Len(events) - 1] = "Finished" /\ events[Len(events)] = "Failed"
    BY <2>1, <2>5 DEF EndAccounted
  <2>. QED
    BY <2>4, <2>5 DEF EndSaid
<1>. QED
  BY <1>1, <1>2, AccountedStep, CheckedStep, PTL DEF Spec
===============================================================================

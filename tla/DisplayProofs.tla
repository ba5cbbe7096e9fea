--------------------------- MODULE DisplayProofs ---------------------------
(***************************************************************************)
(* What holds of the display task and its producers for any texts, any     *)
(* length of the queue and any number of requests.                         *)
(***************************************************************************)
EXTENDS Display, SequenceTheorems, TLAPS

-----------------------------------------------------------------------------
\* What is put into the queue is a command.
LEMMA CommandTypes ==
  /\ \A t \in AnyText : Show(t) \in Commands
  /\ \A t \in AnyText : \A op \in JobOps : Cmd(op, t) \in Commands
  /\ Stop \in Commands /\ NoCmd \in Commands /\ Cmd("boot", Blank) \in Commands
  /\ \A c \in Commands : c.text \in AnyText
BY DEF Commands, Cmd, Show, Stop, NoCmd, JobOps, AnyText

\* The queue with a command more, and with one less.
LEMMA QueueGrows ==
  ASSUME NEW S, queue \in Seq(S), NEW c \in S
  PROVE  Append(queue, c) \in Seq(S) /\ Len(Append(queue, c)) = Len(queue) + 1
OBVIOUS

LEMMA QueueShrinks ==
  ASSUME NEW S, queue \in Seq(S), queue # <<>>
  PROVE  /\ Head(queue) \in S
         /\ Tail(queue) \in Seq(S) /\ Len(Tail(queue)) = Len(queue) - 1
OBVIOUS

\* Whoever puts a command does so only when there is room for it.
LEMMA QueuePut ==
  ASSUME QueueType, NEW c \in Commands,
         queue' = queue \/ (Len(queue) < Depth /\ queue' = Append(queue, c))
  PROVE  QueueType'
BY QueueGrows, BoundsAreNaturals DEF QueueType

\* Content that is given to the wall is content.
WallRecs == [key : SUBSET (Modes \X AnyText), text : AnyText, pending : BOOLEAN]

LEMMA SubmittedType ==
  ASSUME wall \in WallRecs, NEW k \in Modes, NEW t \in AnyText
  PROVE  Submitted(k, t) \in WallRecs
BY DEF WallRecs, Submitted

-----------------------------------------------------------------------------
\* The queue holds commands, and never one too many.
LEMMA QueueTypeStep == TypeOK /\ [Next]_vars => QueueType'
<1> SUFFICES ASSUME TypeOK, [Next]_vars PROVE QueueType'
  OBVIOUS
<1> QueueType /\ DispType /\ WebType /\ PostType /\ WallType /\ ClockType
  BY DEF TypeOK
<1> USE BoundsAreNaturals DEF QueueType, DispType, WebType, PostType, WallType, ClockType
<1>1. CASE Takes
  BY <1>1, CommandTypes, QueueGrows, QueueShrinks DEF Takes, Applied, rest, producers,
     bounds
<1>2. CASE Drains
  BY <1>2, CommandTypes, QueueGrows, QueueShrinks DEF Drains, Keeps, rest, producers,
     bounds
<1>3. CASE SendsStopBack
  BY <1>3, CommandTypes, QueueGrows, QueueShrinks DEF SendsStopBack, board, rest,
     ghosts, producers, bounds
<1>4. CASE StopIsBack
  <2>1. Stop \in Commands
    BY CommandTypes DEF AnyText
  <2>2. queue' = queue \/ (Len(queue) < Depth /\ queue' = Append(queue, Stop))
    BY <1>4 DEF StopIsBack, Room, Enqueue, rest, ghosts, producers, bounds
  <2> QED
    BY <2>1, <2>2, QueuePut
<1>5. CASE WebQueuesStop
  <2>1. web.cmd \in Commands
    BY CommandTypes DEF AnyText
  <2>2. queue' = queue \/ (Len(queue) < Depth /\ queue' = Append(queue, web.cmd))
    BY <1>5 DEF WebQueuesStop, Room, Enqueue, NoHandler, netRest, dispVars
  <2> QED
    BY <2>1, <2>2, QueuePut
<1>6. CASE WebQueuesJob
  <2>1. web.cmd \in Commands
    BY CommandTypes DEF AnyText
  <2>2. queue' = queue \/ (Len(queue) < Depth /\ queue' = Append(queue, web.cmd))
    BY <1>6 DEF WebQueuesJob, Room, Enqueue, NoHandler, netRest, ghosts, dispVars
  <2> QED
    BY <2>1, <2>2, QueuePut
<1>7. CASE NetPuts
  <2>1. Show(net.text) \in Commands
    BY CommandTypes DEF AnyText
  <2>2. queue' = queue \/ (Len(queue) < Depth /\ queue' = Append(queue, Show(net.text)))
    BY <1>7 DEF NetPuts, Idle, Submitted, Room, Enqueue, webRest, ghosts, dispVars
  <2> QED
    BY <2>1, <2>2, QueuePut
<1>8. CASE MqttPuts
  <2>1. Show(mqtt.text) \in Commands
    BY CommandTypes DEF AnyText
  <2>2. queue' = queue \/ (Len(queue) < Depth /\ queue' = Append(queue, Show(mqtt.text)))
    BY <1>8 DEF MqttPuts, Submitted, Room, Enqueue, Idle, mqttRest, ghosts, dispVars
  <2> QED
    BY <2>1, <2>2, QueuePut
<1>9. CASE ClockPuts
  <2>1. Show(clock.text) \in Commands
    BY CommandTypes DEF AnyText
  <2>2. queue' = queue \/ (Len(queue) < Depth /\ queue' = Append(queue, Show(clock.text)))
    BY <1>9 DEF ClockPuts, Room, Submitted, Enqueue, clockRest, dispVars, bounds
  <2> QED
    BY <2>1, <2>2, QueuePut
<1>10. CASE LinkPuts
  <2>1. Show(link.text) \in Commands
    BY CommandTypes DEF AnyText
  <2>2. queue' = queue \/ (Len(queue) < Depth /\ queue' = Append(queue, Show(link.text)))
    BY <1>10 DEF LinkPuts, Idle, Room, Enqueue, linkRest, dispVars, bounds, ghosts
  <2> QED
    BY <2>1, <2>2, QueuePut
<1> QED
  BY <1>1, <1>2, <1>3, <1>4, <1>5, <1>6, <1>7, <1>8, <1>9, <1>10 DEF QueueType, Next,
     DisplayTask, UpdateJob, WebGoesOn, NetGoesOn, MqttTicks, ClockTicks, OwnRow,
     Requests, BootEnds, StopClearsAbort, FrameIsCut, FrameIsWhole, NothingToShow,
     RowIsQuiet, Flashes, UnitsAreDone, GateOpens, WebTakesFlagBack, WebBlanksWall,
     NetSeesGate, NetArmsNote, MqttArms, MqttCancels, MqttStarts, MqttEndsNote,
     ClockWaits, ClockDecides, LinkLooks, WebStops, WebAsksJob, MinuteTurns,
     NetDrainsMessage, NetDrainsNote, MqttTakesText, vars, board, dispVars, bounds,
     ghosts, rest, producers, netRest, webRest, mqttRest, clockRest, linkRest, Done

\* What the display task keeps.
LEMMA DispTypeStep == TypeOK /\ [Next]_vars => DispType'
<1> SUFFICES ASSUME TypeOK, [Next]_vars PROVE DispType'
  OBVIOUS
<1> DispType /\ QueueType /\ FlagType
  BY DEF TypeOK
<1> USE BoundsAreNaturals DEF DispType, QueueType, FlagType
<1>1. CASE BootEnds
  BY <1>1, CommandTypes, QueueShrinks DEF BootEnds, rest, ghosts, producers, bounds,
     AnyText, Places
<1>2. CASE Takes
  BY <1>2, CommandTypes, QueueShrinks DEF Takes, Applied, rest, producers, bounds,
     AnyText, Places
<1>3. CASE StopClearsAbort
  BY <1>3, CommandTypes, QueueShrinks DEF StopClearsAbort, rest, producers, bounds,
     AnyText, Places
<1>4. CASE FrameIsCut
  BY <1>4, CommandTypes, QueueShrinks DEF FrameIsCut, Done, DoneText, rest, producers,
     bounds, AnyText, Places
<1>5. CASE FrameIsWhole
  BY <1>5, CommandTypes, QueueShrinks DEF FrameIsWhole, Done, DoneText, rest,
     producers, bounds, AnyText, Places
<1>6. CASE NothingToShow
  BY <1>6, CommandTypes, QueueShrinks DEF NothingToShow, Done, DoneText, rest,
     producers, bounds, AnyText, Places
<1>7. CASE Drains
  BY <1>7, CommandTypes, QueueShrinks DEF Drains, Keeps, rest, producers, bounds,
     AnyText, Places
<1>8. CASE SendsStopBack
  BY <1>8, CommandTypes, QueueShrinks DEF SendsStopBack, board, rest, ghosts,
     producers, bounds, AnyText, Places
<1>9. CASE StopIsBack
  BY <1>9, CommandTypes, QueueShrinks DEF StopIsBack, Enqueue, rest, ghosts,
     producers, bounds, AnyText, Places
<1>10. CASE RowIsQuiet
  BY <1>10, CommandTypes, QueueShrinks DEF RowIsQuiet, board, rest, ghosts, producers,
     bounds, AnyText, Places
<1>11. CASE Flashes
  <2>1. disp' = disp \/ disp' = [disp EXCEPT !.at = "finish", !.cancelled = TRUE]
    BY <1>11 DEF Flashes
  <2> QED
    BY <2>1 DEF Places
<1>12. CASE UnitsAreDone
  BY <1>12, CommandTypes, QueueShrinks DEF UnitsAreDone, board, rest, ghosts,
     producers, bounds, AnyText, Places
<1>13. CASE GateOpens
  <2>1. CASE disp.cmd.op = "boot"
    BY <1>13, <2>1, CommandTypes DEF GateOpens, Places
  <2>2. CASE disp.cmd.op # "boot"
    BY <1>13, <2>2 DEF GateOpens, Places
  <2> QED
    BY <2>1, <2>2
<1> QED
  BY <1>1, <1>2, <1>3, <1>4, <1>5, <1>6, <1>7, <1>8, <1>9, <1>10, <1>11, <1>12, <1>13
     DEF DispType, Next, DisplayTask, UpdateJob, WebGoesOn, NetGoesOn, MqttTicks,
     ClockTicks, OwnRow, Requests, WebQueuesStop, WebTakesFlagBack, WebBlanksWall,
     WebQueuesJob, NetSeesGate, NetPuts, NetArmsNote, MqttPuts, MqttArms, MqttCancels,
     MqttStarts, MqttEndsNote, ClockWaits, ClockDecides, ClockPuts, LinkLooks,
     LinkPuts, WebStops, WebAsksJob, MinuteTurns, NetDrainsMessage, NetDrainsNote,
     MqttTakesText, vars, board, dispVars, bounds, ghosts, rest, producers, netRest,
     webRest, mqttRest, clockRest, linkRest

\* The drums and what is published of them.
LEMMA ShownTypeStep == TypeOK /\ [Next]_vars => ShownType'
<1> SUFFICES ASSUME TypeOK, [Next]_vars PROVE ShownType'
  OBVIOUS
<1> ShownType /\ DispType /\ QueueType
  BY DEF TypeOK
<1> USE BoundsAreNaturals DEF ShownType, DispType, QueueType
<1>1. CASE BootEnds
  <2>1. flaps' = flaps /\ (\/ snap' = [snap EXCEPT !.busy = FALSE]
                          \/ snap' = [snap EXCEPT !.gate = TRUE])
    BY <1>1 DEF BootEnds
  <2> QED
    BY <2>1
<1>2. CASE Takes
  BY <1>2, CommandTypes DEF Takes, Applied, rest, producers, bounds, AnyText
<1>3. CASE FrameIsCut
  BY <1>3, CommandTypes DEF FrameIsCut, Done, DoneText, rest, producers, bounds, AnyText
<1>4. CASE FrameIsWhole
  BY <1>4, CommandTypes DEF FrameIsWhole, Done, DoneText, rest, producers, bounds,
     AnyText
<1>5. CASE NothingToShow
  BY <1>5, CommandTypes DEF NothingToShow, Done, DoneText, rest, producers, bounds,
     AnyText
<1>6. CASE Flashes
  <2>1. flaps' \in {flaps, Mixed} /\ snap' = snap
    BY <1>6 DEF Flashes, board
  <2> QED
    BY <2>1
<1>7. CASE GateOpens
  <2>1. flaps' = flaps /\ (\/ snap' = [snap EXCEPT !.gate = FALSE]
                          \/ snap' = [snap EXCEPT !.gate = FALSE, !.busy = FALSE])
    BY <1>7 DEF GateOpens
  <2> QED
    BY <2>1
<1> QED
  BY <1>1, <1>2, <1>3, <1>4, <1>5, <1>6, <1>7 DEF ShownType, Next, DisplayTask,
     UpdateJob, WebGoesOn, NetGoesOn, MqttTicks, ClockTicks, OwnRow, Requests,
     StopClearsAbort, Drains, SendsStopBack, StopIsBack, RowIsQuiet, UnitsAreDone,
     WebQueuesStop, WebTakesFlagBack, WebBlanksWall, WebQueuesJob, NetSeesGate,
     NetPuts, NetArmsNote, MqttPuts, MqttArms, MqttCancels, MqttStarts, MqttEndsNote,
     ClockWaits, ClockDecides, ClockPuts, LinkLooks, LinkPuts, WebStops, WebAsksJob,
     MinuteTurns, NetDrainsMessage, NetDrainsNote, MqttTakesText, vars, board,
     dispVars, bounds, ghosts, rest, producers, netRest, webRest, mqttRest, clockRest,
     linkRest

\* The handler of a stop or a job.
LEMMA WebTypeStep == TypeOK /\ [Next]_vars => WebType'
<1> SUFFICES ASSUME TypeOK, [Next]_vars PROVE WebType'
  OBVIOUS
<1> WebType /\ ShownType
  BY DEF TypeOK
<1> USE BoundsAreNaturals DEF WebType, ShownType
<1>1. CASE WebQueuesStop
  BY <1>1, CommandTypes DEF WebQueuesStop, Room, Enqueue, NoHandler, netRest,
     dispVars, AnyText
<1>2. CASE WebTakesFlagBack
  BY <1>2, CommandTypes DEF WebTakesFlagBack, NoHandler, netRest, dispVars, AnyText
<1>3. CASE WebBlanksWall
  BY <1>3, CommandTypes DEF WebBlanksWall, NoHandler, board, netRest, ghosts,
     dispVars, AnyText
<1>4. CASE WebQueuesJob
  BY <1>4, CommandTypes DEF WebQueuesJob, Room, Enqueue, NoHandler, netRest, ghosts,
     dispVars, AnyText
<1>5. CASE WebStops
  BY <1>5, CommandTypes DEF WebStops, Asks, netRest, ghosts, dispVars, AnyText
<1>6. CASE WebAsksJob
  BY <1>6, CommandTypes DEF WebAsksJob, Asks, board, netRest, ghosts, dispVars, AnyText
<1> QED
  BY <1>1, <1>2, <1>3, <1>4, <1>5, <1>6 DEF WebType, Next, DisplayTask, UpdateJob,
     WebGoesOn, NetGoesOn, MqttTicks, ClockTicks, OwnRow, Requests, BootEnds, Takes,
     StopClearsAbort, FrameIsCut, FrameIsWhole, NothingToShow, Drains, SendsStopBack,
     StopIsBack, RowIsQuiet, Flashes, UnitsAreDone, GateOpens, NetSeesGate, NetPuts,
     NetArmsNote, MqttPuts, MqttArms, MqttCancels, MqttStarts, MqttEndsNote,
     ClockWaits, ClockDecides, ClockPuts, LinkLooks, LinkPuts, MinuteTurns,
     NetDrainsMessage, NetDrainsNote, MqttTakesText, vars, board, dispVars, bounds,
     ghosts, rest, producers, netRest, webRest, mqttRest, clockRest, linkRest, Done

\* The posts on their way.
LEMMA PostTypeStep == TypeOK /\ [Next]_vars => PostType'
<1> SUFFICES ASSUME TypeOK, [Next]_vars PROVE PostType'
  OBVIOUS
<1> PostType /\ FlagType
  BY DEF TypeOK
<1> USE BoundsAreNaturals DEF PostType, FlagType
<1>1. CASE NetSeesGate
  BY <1>1 DEF NetSeesGate, Idle, webRest, ghosts, dispVars, AnyText
<1>2. CASE NetPuts
  BY <1>2 DEF NetPuts, Idle, Submitted, Room, Enqueue, webRest, ghosts, dispVars,
     AnyText
<1>3. CASE NetArmsNote
  BY <1>3 DEF NetArmsNote, Idle, webRest, ghosts, dispVars, AnyText
<1>4. CASE MqttPuts
  BY <1>4 DEF MqttPuts, Submitted, Room, Enqueue, Idle, mqttRest, ghosts, dispVars,
     AnyText
<1>5. CASE MqttArms
  BY <1>5 DEF MqttArms, Idle, mqttRest, ghosts, dispVars, AnyText
<1>6. ASSUME NEW t \in Texts, NetDrainsMessage(t) PROVE PostType'
  BY <1>6 DEF NetDrainsMessage, Asks, webRest, ghosts, dispVars, AnyText
<1>7. ASSUME NEW t \in Texts, NetDrainsNote(t) PROVE PostType'
  BY <1>7 DEF NetDrainsNote, Asks, webRest, ghosts, dispVars, AnyText
<1>8. ASSUME NEW t \in Texts, MqttTakesText(t) PROVE PostType'
  BY <1>8 DEF MqttTakesText, Asks, mqttRest, ghosts, dispVars, AnyText
<1> QED
  BY <1>1, <1>2, <1>3, <1>4, <1>5, <1>6, <1>7, <1>8 DEF PostType, Next, DisplayTask,
     UpdateJob, WebGoesOn, NetGoesOn, MqttTicks, ClockTicks, OwnRow, Requests,
     BootEnds, Takes, StopClearsAbort, FrameIsCut, FrameIsWhole, NothingToShow,
     Drains, SendsStopBack, StopIsBack, RowIsQuiet, Flashes, UnitsAreDone, GateOpens,
     WebQueuesStop, WebTakesFlagBack, WebBlanksWall, WebQueuesJob, MqttCancels,
     MqttStarts, MqttEndsNote, ClockWaits, ClockDecides, ClockPuts, LinkLooks,
     LinkPuts, WebStops, WebAsksJob, MinuteTurns, vars, board, dispVars, bounds,
     ghosts, rest, producers, netRest, webRest, mqttRest, clockRest, linkRest, Done

\* The content of the wall.
LEMMA WallTypeStep == TypeOK /\ [Next]_vars => WallType'
<1> SUFFICES ASSUME TypeOK, [Next]_vars PROVE WallType'
  OBVIOUS
<1> WallType /\ PostType /\ ClockType /\ mode \in Modes
  BY DEF TypeOK, FlagType
<1> USE BoundsAreNaturals DEF WallType, PostType, ClockType
<1>1. CASE WebBlanksWall
  BY <1>1 DEF WebBlanksWall, NoHandler, board, netRest, ghosts, dispVars, AnyText
<1>2. CASE NetPuts
  <2>1. Submitted("text", net.text) \in WallRecs
    BY SubmittedType DEF WallRecs, Modes
  <2>2. wall' \in {wall, Submitted("text", net.text)} /\ link' = link
    BY <1>2 DEF NetPuts, Idle, Room, Enqueue, webRest, ghosts, dispVars
  <2> QED
    BY <2>1, <2>2 DEF WallRecs
<1>3. CASE MqttPuts
  <2>1. Submitted("text", mqtt.text) \in WallRecs
    BY SubmittedType DEF WallRecs, Modes
  <2>2. wall' \in {wall, Submitted("text", mqtt.text)} /\ link' = link
    BY <1>3 DEF MqttPuts, Room, Enqueue, Idle, mqttRest, ghosts, dispVars
  <2> QED
    BY <2>1, <2>2 DEF WallRecs
<1>4. CASE ClockPuts
  <2>1. Submitted(mode, clock.text) \in WallRecs
    BY SubmittedType DEF WallRecs
  <2>2. wall' \in {wall, Submitted(mode, clock.text)} /\ link' = link
    BY <1>4 DEF ClockPuts, Room, Enqueue, clockRest, dispVars, bounds
  <2> QED
    BY <2>1, <2>2 DEF WallRecs
<1>5. CASE LinkLooks
  BY <1>5 DEF LinkLooks, linkRest, dispVars, bounds, ghosts, AnyText
<1>6. CASE LinkPuts
  BY <1>6 DEF LinkPuts, Idle, Room, Enqueue, linkRest, dispVars, bounds, ghosts, AnyText
<1> QED
  BY <1>1, <1>2, <1>3, <1>4, <1>5, <1>6 DEF WallType, Next, DisplayTask, UpdateJob,
     WebGoesOn, NetGoesOn, MqttTicks, ClockTicks, OwnRow, Requests, BootEnds, Takes,
     StopClearsAbort, FrameIsCut, FrameIsWhole, NothingToShow, Drains, SendsStopBack,
     StopIsBack, RowIsQuiet, Flashes, UnitsAreDone, GateOpens, WebQueuesStop,
     WebTakesFlagBack, WebQueuesJob, NetSeesGate, NetArmsNote, MqttArms, MqttCancels,
     MqttStarts, MqttEndsNote, ClockWaits, ClockDecides, WebStops, WebAsksJob,
     MinuteTurns, NetDrainsMessage, NetDrainsNote, MqttTakesText, vars, board,
     dispVars, bounds, ghosts, rest, producers, netRest, webRest, mqttRest, clockRest,
     linkRest, Done

\* The ticker and what it shows.
LEMMA ClockTypeStep == TypeOK /\ [Next]_vars => ClockType'
<1> SUFFICES ASSUME TypeOK, [Next]_vars PROVE ClockType'
  OBVIOUS
<1> ClockType /\ PostType
  BY DEF TypeOK
<1> USE BoundsAreNaturals DEF ClockType, PostType
<1>1. CASE ClockWaits
  BY <1>1 DEF ClockWaits, Ticks, clockRest, ghosts, dispVars, bounds, AnyText
<1>2. CASE ClockDecides
  BY <1>2 DEF ClockDecides, Ticks, Marker, Wants, clockRest, dispVars, bounds, AnyText
<1>3. CASE ClockPuts
  BY <1>3 DEF ClockPuts, Room, Submitted, Enqueue, clockRest, dispVars, bounds, AnyText
<1>4. CASE MinuteTurns
  BY <1>4 DEF MinuteTurns, Asks, board, dispVars, ghosts, AnyText
<1>5. ASSUME NEW t \in Texts, NetDrainsMessage(t) PROVE ClockType'
  BY <1>5 DEF NetDrainsMessage, Asks, webRest, ghosts, dispVars, AnyText
<1> QED
  BY <1>1, <1>2, <1>3, <1>4, <1>5 DEF ClockType, Next, DisplayTask, UpdateJob,
     WebGoesOn, NetGoesOn, MqttTicks, ClockTicks, OwnRow, Requests, BootEnds, Takes,
     StopClearsAbort, FrameIsCut, FrameIsWhole, NothingToShow, Drains, SendsStopBack,
     StopIsBack, RowIsQuiet, Flashes, UnitsAreDone, GateOpens, WebQueuesStop,
     WebTakesFlagBack, WebBlanksWall, WebQueuesJob, NetSeesGate, NetPuts, NetArmsNote,
     MqttPuts, MqttArms, MqttCancels, MqttStarts, MqttEndsNote, LinkLooks, LinkPuts,
     WebStops, WebAsksJob, NetDrainsNote, MqttTakesText, vars, board, dispVars,
     bounds, ghosts, rest, producers, netRest, webRest, mqttRest, clockRest, linkRest,
     Done

\* The flags.
LEMMA FlagTypeStep == TypeOK /\ [Next]_vars => FlagType'
<1> SUFFICES ASSUME TypeOK, [Next]_vars PROVE FlagType'
  OBVIOUS
<1> FlagType
  BY DEF TypeOK
<1> USE BoundsAreNaturals DEF FlagType
<1>1. CASE Takes
  BY <1>1 DEF Takes, Applied, rest, producers, bounds
<1>2. CASE StopClearsAbort
  BY <1>2 DEF StopClearsAbort, rest, producers, bounds
<1>3. CASE FrameIsCut
  BY <1>3 DEF FrameIsCut, Done, DoneText, rest, producers, bounds
<1>4. CASE FrameIsWhole
  BY <1>4 DEF FrameIsWhole, Done, DoneText, rest, producers, bounds
<1>5. CASE NothingToShow
  BY <1>5 DEF NothingToShow, Done, DoneText, rest, producers, bounds
<1>6. CASE Drains
  BY <1>6 DEF Drains, Keeps, rest, ghosts, producers, bounds
<1>7. CASE WebTakesFlagBack
  BY <1>7 DEF WebTakesFlagBack, NoHandler, netRest, dispVars
<1>8. CASE NetArmsNote
  BY <1>8 DEF NetArmsNote, Idle, webRest, ghosts, dispVars
<1>9. CASE MqttArms
  BY <1>9 DEF MqttArms, Idle, mqttRest, ghosts, dispVars
<1>10. CASE MqttCancels
  BY <1>10 DEF MqttCancels, mqttRest, ghosts, dispVars
<1>11. CASE MqttStarts
  BY <1>11 DEF MqttStarts, mqttRest, ghosts, dispVars
<1>12. CASE MqttEndsNote
  BY <1>12 DEF MqttEndsNote, mqttRest, ghosts, dispVars
<1>13. CASE ClockDecides
  BY <1>13 DEF ClockDecides, Ticks, Marker, Wants, clockRest, ghosts, dispVars, bounds
<1>14. CASE ClockPuts
  BY <1>14 DEF ClockPuts, Room, Submitted, Enqueue, clockRest, ghosts, dispVars, bounds
<1>15. CASE WebStops
  BY <1>15 DEF WebStops, Asks, netRest, ghosts, dispVars
<1>16. ASSUME NEW t \in Texts, NetDrainsMessage(t) PROVE FlagType'
  BY <1>16 DEF NetDrainsMessage, Asks, webRest, ghosts, dispVars
<1> QED
  BY <1>1, <1>2, <1>3, <1>4, <1>5, <1>6, <1>7, <1>8, <1>9, <1>10, <1>11, <1>12, <1>13,
     <1>14, <1>15, <1>16 DEF FlagType, Next, DisplayTask, UpdateJob, WebGoesOn,
     NetGoesOn, MqttTicks, ClockTicks, OwnRow, Requests, BootEnds, SendsStopBack,
     StopIsBack, RowIsQuiet, Flashes, UnitsAreDone, GateOpens, WebQueuesStop,
     WebBlanksWall, WebQueuesJob, NetSeesGate, NetPuts, MqttPuts, ClockWaits,
     LinkLooks, LinkPuts, WebAsksJob, MinuteTurns, NetDrainsNote, MqttTakesText, vars,
     board, dispVars, bounds, ghosts, rest, producers, netRest, webRest, mqttRest,
     clockRest, linkRest

\* Requests are counted; a stop is asked for, then taken, then carried out.
LEMMA CountTypeStep == TypeOK /\ [Next]_vars => CountType'
<1> SUFFICES ASSUME TypeOK, [Next]_vars PROVE CountType'
  OBVIOUS
<1> CountType
  BY DEF TypeOK
<1> USE BoundsAreNaturals DEF CountType
<1>1. CASE StopClearsAbort
  BY <1>1 DEF StopClearsAbort, rest, producers, bounds
<1>2. CASE WebQueuesStop
  BY <1>2 DEF WebQueuesStop, Room, Enqueue, NoHandler, netRest, dispVars
<1>3. CASE WebStops
  BY <1>3 DEF WebStops, Asks, netRest, ghosts, dispVars
<1>4. CASE WebAsksJob
  BY <1>4 DEF WebAsksJob, Asks, board, netRest, ghosts, dispVars
<1>5. CASE MinuteTurns
  BY <1>5 DEF MinuteTurns, Asks, board, dispVars, ghosts
<1>6. ASSUME NEW t \in Texts, NetDrainsMessage(t) PROVE CountType'
  BY <1>6 DEF NetDrainsMessage, Asks, webRest, ghosts, dispVars
<1>7. ASSUME NEW t \in Texts, NetDrainsNote(t) PROVE CountType'
  BY <1>7 DEF NetDrainsNote, Asks, webRest, ghosts, dispVars
<1>8. ASSUME NEW t \in Texts, MqttTakesText(t) PROVE CountType'
  BY <1>8 DEF MqttTakesText, Asks, mqttRest, ghosts, dispVars
<1> QED
  BY <1>1, <1>2, <1>3, <1>4, <1>5, <1>6, <1>7, <1>8 DEF CountType, Next, DisplayTask,
     UpdateJob, WebGoesOn, NetGoesOn, MqttTicks, ClockTicks, OwnRow, Requests,
     BootEnds, Takes, FrameIsCut, FrameIsWhole, NothingToShow, Drains, SendsStopBack,
     StopIsBack, RowIsQuiet, Flashes, UnitsAreDone, GateOpens, WebTakesFlagBack,
     WebBlanksWall, WebQueuesJob, NetSeesGate, NetPuts, NetArmsNote, MqttPuts,
     MqttArms, MqttCancels, MqttStarts, MqttEndsNote, ClockWaits, ClockDecides,
     ClockPuts, LinkLooks, LinkPuts, vars, board, dispVars, bounds, ghosts, rest,
     producers, netRest, webRest, mqttRest, clockRest, linkRest, Done

-----------------------------------------------------------------------------
LEMMA TypesStart == Init => TypeOK
<1> SUFFICES ASSUME Init PROVE TypeOK
  OBVIOUS
<1> USE BoundsAreNaturals, CommandTypes DEF Init, AnyText
<1>1. QueueType /\ ShownType
  BY DEF QueueType, ShownType
<1>2. DispType
  BY DEF DispType, Places
<1>3. WebType
  BY DEF WebType, NoHandler
<1>4. PostType /\ WallType
  BY DEF PostType, WallType, Idle
<1>5. ClockType /\ FlagType
  BY DEF ClockType, FlagType
<1>6. CountType
  BY DEF CountType
<1> QED
  BY <1>1, <1>2, <1>3, <1>4, <1>5, <1>6 DEF TypeOK

LEMMA TypesStep == TypeOK /\ [Next]_vars => TypeOK'
BY QueueTypeStep, DispTypeStep, ShownTypeStep, WebTypeStep, PostTypeStep,
   WallTypeStep, ClockTypeStep, FlagTypeStep, CountTypeStep DEF TypeOK

\* What is shared and what each task keeps have their types (DisplayTask.cpp, WallShow.cpp,
\* WebEndpoints.cpp, MqttService.cpp, ClockTask.cpp).
THEOREM TypesHold == Spec => []TypeOK
<1>1. TypeOK => TypeOK
  BY DEF TypeOK
<1> QED
  BY <1>1, TypesStart, TypesStep, PTL DEF Spec

-----------------------------------------------------------------------------
\* What can be in the queue: the start-up job never is, and a stop shows nothing.
Asked == {c \in Commands : /\ c.op \in {"show", "stop"} \cup JobOps
                           /\ c.op = "stop" => c.text = Blank}

AskedInv == /\ queue \in Seq(Asked)
            /\ web.at = "stop" => web.cmd = Stop
            /\ web.at = "put" => web.cmd.op \in JobOps

UpdatePlaces == {"drain", "sendBack", "quiet", "flash", "finish"}

\* What the place of the display task says of its command.
TaskInv ==
  /\ disp.at \in {"boot", "idle"} => disp.cmd = NoCmd
  /\ disp.at \in UpdatePlaces => disp.cmd.op \in {"update", "boot"}
  /\ disp.at = "none" => disp.cmd.op = "update" /\ disp.cancelled
  /\ disp.at = "stop" => disp.cmd = Stop /\ disp.text = Blank
  /\ disp.at = "frame" => /\ disp.cmd.op \in {"show", "stop"} \cup JobOps /\ ~disp.cancelled
                          /\ disp.cmd.op \in {"show", "stop"} => disp.cmd.text = disp.text
  /\ disp.cancelled => disp.at \in {"finish", "none"}
  /\ disp.at = "boot" \/ disp.cmd.op = "boot" => flaps = Blank /\ disp.text = Blank

\* There is a stop in the queue.
HasStop(q) == \E i \in DOMAIN q : q[i].op = "stop"

\* The producers that have looked at the gate and go on to put something.
Carries(b) == IF b THEN 1 ELSE 0
OnTheWay == Carries(web.at = "put") + Carries(net.at \in {"put", "putNote"})
            + Carries(mqtt.at = "put") + Carries(clock.at = "put") + Carries(link.at = "put")

\* The queue that was drained behind the closed gate takes what is on the way, at most one
\* command of each of the five, until the stop is back; more are stops only.
RoomInv ==
  /\ disp.at \in {"drain", "sendBack"} => snap.gate
  /\ disp.at = "sendBack" => HasStop(queue) \/ Len(queue) + OnTheWay <= 5

\* Why the drums may show something else than the text.
Excuse == web.at \in {"stop", "refused"} \/ StopToCome \/ spoiled

TextInv ==
  /\ disp.at = "idle" => flaps = disp.text \/ Excuse
  /\ disp.cancelled => Excuse

\* Only the web server, the texts and the drain put something into the queue.
LEMMA AskedStep == TypeOK /\ AskedInv /\ [Next]_vars => AskedInv'
<1> SUFFICES ASSUME TypeOK, AskedInv, [Next]_vars PROVE AskedInv'
  OBVIOUS
<1> QueueType /\ WebType /\ PostType /\ WallType /\ ClockType
  BY DEF TypeOK
<1> USE DEF AskedInv
<1>0. /\ \A t \in AnyText : Show(t) \in Asked
      /\ Stop \in Asked /\ NoHandler.at = "idle"
      /\ \A c \in Commands : c.op \in JobOps => c \in Asked
  BY CommandTypes DEF Asked, Show, Stop, Cmd, JobOps, NoHandler
<1>1. CASE Takes
  <2>1. queue # <<>> /\ queue' = Tail(queue) /\ web' = web
    BY <1>1 DEF Takes, rest, producers
  <2> QED
    BY <2>1, QueueShrinks
<1>2. CASE Drains
  <2>1. queue # <<>> /\ queue' = Tail(queue) /\ web' = web
    BY <1>2 DEF Drains, rest, producers
  <2> QED
    BY <2>1, QueueShrinks
<1>3. CASE StopIsBack
  <2>1. Stop \in Asked
    BY <1>3, <1>0 DEF StopIsBack, AnyText, WebType, PostType, WallType, ClockType
  <2>2. queue' = queue \/ queue' = Append(queue, Stop)
    BY <1>3 DEF StopIsBack, Enqueue, rest, ghosts, producers, bounds
  <2>3. web' = web
    BY <1>3 DEF StopIsBack, Enqueue, rest, ghosts, producers, bounds
  <2> QED
    BY <2>1, <2>2, <2>3, <1>0, QueueGrows
<1>4. CASE WebQueuesStop
  <2>1. web.cmd \in Asked
    BY <1>4, <1>0 DEF WebQueuesStop, AnyText, WebType, PostType, WallType, ClockType
  <2>2. queue' = queue \/ queue' = Append(queue, web.cmd)
    BY <1>4 DEF WebQueuesStop, Room, Enqueue, NoHandler, netRest, dispVars
  <2>3. web'.at \notin {"stop", "put"}
    BY <1>4 DEF WebQueuesStop, Room, Enqueue, NoHandler, netRest, dispVars, WebType
  <2> QED
    BY <2>1, <2>2, <2>3, <1>0, QueueGrows
<1>5. CASE WebQueuesJob
  <2>1. web.cmd \in Asked
    BY <1>5, <1>0 DEF WebQueuesJob, AnyText, WebType, PostType, WallType, ClockType
  <2>2. queue' = queue \/ queue' = Append(queue, web.cmd)
    BY <1>5 DEF WebQueuesJob, Room, Enqueue, NoHandler, netRest, ghosts, dispVars
  <2>3. web' = NoHandler
    BY <1>5 DEF WebQueuesJob, Room, Enqueue, NoHandler, netRest, ghosts, dispVars
  <2> QED
    BY <2>1, <2>2, <2>3, <1>0, QueueGrows
<1>6. CASE NetPuts
  <2>1. Show(net.text) \in Asked
    BY <1>6, <1>0 DEF NetPuts, AnyText, WebType, PostType, WallType, ClockType
  <2>2. queue' = queue \/ queue' = Append(queue, Show(net.text))
    BY <1>6 DEF NetPuts, Idle, Room, Enqueue, webRest, ghosts, dispVars
  <2>3. web' = web
    BY <1>6 DEF NetPuts, Idle, Room, Enqueue, webRest, ghosts, dispVars
  <2> QED
    BY <2>1, <2>2, <2>3, <1>0, QueueGrows
<1>7. CASE MqttPuts
  <2>1. Show(mqtt.text) \in Asked
    BY <1>7, <1>0 DEF MqttPuts, AnyText, WebType, PostType, WallType, ClockType
  <2>2. queue' = queue \/ queue' = Append(queue, Show(mqtt.text))
    BY <1>7 DEF MqttPuts, Room, Enqueue, Idle, mqttRest, ghosts, dispVars
  <2>3. web' = web
    BY <1>7 DEF MqttPuts, Room, Enqueue, Idle, mqttRest, ghosts, dispVars
  <2> QED
    BY <2>1, <2>2, <2>3, <1>0, QueueGrows
<1>8. CASE ClockPuts
  <2>1. Show(clock.text) \in Asked
    BY <1>8, <1>0 DEF ClockPuts, AnyText, WebType, PostType, WallType, ClockType
  <2>2. queue' = queue \/ queue' = Append(queue, Show(clock.text))
    BY <1>8 DEF ClockPuts, Room, Enqueue, clockRest, dispVars, bounds
  <2>3. web' = web
    BY <1>8 DEF ClockPuts, Room, Enqueue, clockRest, dispVars, bounds
  <2> QED
    BY <2>1, <2>2, <2>3, <1>0, QueueGrows
<1>9. CASE LinkPuts
  <2>1. Show(link.text) \in Asked
    BY <1>9, <1>0 DEF LinkPuts, AnyText, WebType, PostType, WallType, ClockType
  <2>2. queue' = queue \/ queue' = Append(queue, Show(link.text))
    BY <1>9 DEF LinkPuts, Idle, Room, Enqueue, linkRest, dispVars, bounds, ghosts
  <2>3. web' = web
    BY <1>9 DEF LinkPuts, Idle, Room, Enqueue, linkRest, dispVars, bounds, ghosts
  <2> QED
    BY <2>1, <2>2, <2>3, <1>0, QueueGrows
<1>10. CASE WebStops
  BY <1>10, <1>0 DEF WebStops, Asks, netRest, ghosts, dispVars, board
<1>11. CASE WebAsksJob
  BY <1>11, <1>0 DEF WebAsksJob, Asks, board, netRest, ghosts, dispVars, Cmd, board
<1>12. CASE WebTakesFlagBack
  BY <1>12, <1>0 DEF WebTakesFlagBack, netRest, dispVars, board
<1>13. CASE WebBlanksWall
  BY <1>13, <1>0 DEF WebBlanksWall, board, netRest, ghosts, dispVars, board
<1> QED
  BY <1>1, <1>2, <1>3, <1>4, <1>5, <1>6, <1>7, <1>8, <1>9, <1>10, <1>11, <1>12, <1>13
     DEF AskedInv, Next, DisplayTask, UpdateJob, WebGoesOn, NetGoesOn, MqttTicks,
     ClockTicks, OwnRow, Requests, BootEnds, StopClearsAbort, FrameIsCut,
     FrameIsWhole, NothingToShow, SendsStopBack, RowIsQuiet, Flashes, UnitsAreDone,
     GateOpens, NetSeesGate, NetArmsNote, MqttArms, MqttCancels, MqttStarts,
     MqttEndsNote, ClockWaits, ClockDecides, LinkLooks, MinuteTurns, NetDrainsMessage,
     NetDrainsNote, MqttTakesText, vars, board, dispVars, bounds, ghosts, rest,
     producers, netRest, webRest, mqttRest, clockRest, linkRest, Done

\* The display task from place to place.
LEMMA TaskStep == TypeOK /\ AskedInv /\ TaskInv /\ [Next]_vars => TaskInv'
<1> SUFFICES ASSUME TypeOK, AskedInv, TaskInv, [Next]_vars PROVE TaskInv'
  OBVIOUS
<1> QueueType /\ DispType /\ ShownType
  BY DEF TypeOK
<1> USE DEF TaskInv, DispType, UpdatePlaces, Cmd, NoCmd, Stop, JobOps
<1>1. CASE BootEnds
  <2>1. disp.cmd = NoCmd /\ ~disp.cancelled /\ flaps = Blank /\ disp.text = Blank
    BY <1>1 DEF BootEnds
  <2>2. /\ flaps' = flaps
        /\ \/ disp' = [disp EXCEPT !.at = "idle"]
           \/ disp' = [disp EXCEPT !.at = "drain", !.cmd = Cmd("boot", Blank)]
    BY <1>1 DEF BootEnds
  <2>3. CASE disp' = [disp EXCEPT !.at = "idle"]
    BY <2>1, <2>2, <2>3
  <2>4. CASE disp' = [disp EXCEPT !.at = "drain", !.cmd = Cmd("boot", Blank)]
    <3>1. disp'.at = "drain" /\ disp'.cmd.op = "boot" /\ disp'.text = Blank /\ ~disp'.cancelled
      BY <2>1, <2>4
    <3> QED
      BY <3>1, <2>1, <2>2
  <2> QED
    BY <2>2, <2>3, <2>4
<1>2. CASE Takes
  <2>1. queue # <<>> /\ Head(queue) \in Asked
    BY <1>2, QueueShrinks DEF Takes, AskedInv
  <2> QED
    BY <1>2, <2>1 DEF Takes, Applied, Asked, Commands
<1>3. CASE StopClearsAbort
  BY <1>3 DEF StopClearsAbort, rest, producers, bounds, Places, AnyText, Commands
<1>4. CASE FrameIsCut
  BY <1>4 DEF FrameIsCut, Done, DoneText, rest, producers, bounds, Places, AnyText,
     Commands
<1>5. CASE FrameIsWhole
  BY <1>5 DEF FrameIsWhole, Done, DoneText, rest, producers, bounds, Places, AnyText,
     Commands
<1>6. CASE NothingToShow
  BY <1>6 DEF NothingToShow, Done, DoneText, rest, producers, bounds, Places, AnyText,
     Commands
<1>7. CASE Drains
  BY <1>7 DEF Drains, Keeps, rest, producers, bounds, Places, AnyText, Commands
<1>8. CASE SendsStopBack
  BY <1>8 DEF SendsStopBack, board, rest, ghosts, producers, bounds, Places, AnyText,
     Commands
<1>9. CASE StopIsBack
  BY <1>9 DEF StopIsBack, Enqueue, rest, ghosts, producers, bounds, Places, AnyText,
     Commands
<1>10. CASE RowIsQuiet
  BY <1>10 DEF RowIsQuiet, board, rest, ghosts, producers, bounds, Places, AnyText,
     Commands
<1>11. CASE Flashes
  BY <1>11 DEF Flashes, board, rest, ghosts, producers, bounds, Places, AnyText,
     Commands
<1>12. CASE UnitsAreDone
  BY <1>12 DEF UnitsAreDone, board, rest, ghosts, producers, bounds, Places, AnyText,
     Commands
<1>13. CASE GateOpens
  <2>1. CASE disp.cmd.op = "boot"
    <3>1. disp' = [disp EXCEPT !.at = "idle", !.cmd = NoCmd, !.cancelled = FALSE]
          /\ flaps' = flaps
      BY <1>13, <2>1 DEF GateOpens
    <3> QED
      BY <2>1, <3>1
  <2>2. CASE disp.cmd.op # "boot"
    <3>1. disp' = [disp EXCEPT !.at = IF disp.cancelled THEN "none" ELSE "frame"]
          /\ flaps' = flaps /\ disp.cmd.op = "update"
      BY <1>13, <2>2 DEF GateOpens
    <3> QED
      BY <2>2, <3>1
  <2> QED
    BY <2>1, <2>2
<1> QED
  BY <1>1, <1>2, <1>3, <1>4, <1>5, <1>6, <1>7, <1>8, <1>9, <1>10, <1>11, <1>12, <1>13
     DEF TaskInv, Next, DisplayTask, UpdateJob, WebGoesOn, NetGoesOn, MqttTicks,
     ClockTicks, OwnRow, Requests, WebQueuesStop, WebTakesFlagBack, WebBlanksWall,
     WebQueuesJob, NetSeesGate, NetPuts, NetArmsNote, MqttPuts, MqttArms, MqttCancels,
     MqttStarts, MqttEndsNote, ClockWaits, ClockDecides, ClockPuts, LinkLooks,
     LinkPuts, WebStops, WebAsksJob, MinuteTurns, NetDrainsMessage, NetDrainsNote,
     MqttTakesText, vars, board, dispVars, bounds, ghosts, rest, producers, netRest,
     webRest, mqttRest, clockRest, linkRest

-----------------------------------------------------------------------------
\* Where in the queue a stop is, when a command comes and when one goes.
LEMMA StopsInQueue ==
  ASSUME queue \in Seq(Commands)
  PROVE  /\ \A c \in Commands : HasStop(Append(queue, c)) <=> HasStop(queue) \/ c.op = "stop"
         /\ queue # <<>> /\ HasStop(queue) => Head(queue).op = "stop" \/ HasStop(Tail(queue))
<1>1. ASSUME NEW c \in Commands
      PROVE  HasStop(Append(queue, c)) <=> HasStop(queue) \/ c.op = "stop"
  <2>1. /\ DOMAIN queue = 1..Len(queue) /\ Len(queue) \in Nat
        /\ DOMAIN Append(queue, c) = 1..(Len(queue) + 1)
        /\ Append(queue, c)[Len(queue) + 1] = c
        /\ \A i \in 1..Len(queue) : Append(queue, c)[i] = queue[i]
    OBVIOUS
  <2> QED
    BY <2>1 DEF HasStop
<1>2. ASSUME queue # <<>>, HasStop(queue)
      PROVE  Head(queue).op = "stop" \/ HasStop(Tail(queue))
  <2>1. PICK i \in DOMAIN queue : queue[i].op = "stop"
    BY <1>2 DEF HasStop
  <2>2. CASE i = 1
    BY <2>1, <2>2, <1>2
  <2>3. CASE i # 1
    <3>1. i - 1 \in DOMAIN Tail(queue) /\ Tail(queue)[i - 1] = queue[i]
      BY <2>1, <2>3, <1>2
    <3> QED
      BY <3>1, <2>1 DEF HasStop
  <2> QED
    BY <2>2, <2>3
<1> QED
  BY <1>1, <1>2

\* A producer that puts its command is not on the way any more.
LEMMA RoomStep == TypeOK /\ AskedInv /\ RoomInv /\ [Next]_vars => RoomInv'
<1> SUFFICES ASSUME TypeOK, AskedInv, RoomInv, [Next]_vars PROVE RoomInv'
  OBVIOUS
<1> QueueType /\ DispType /\ ShownType /\ WebType /\ PostType /\ WallType /\ ClockType
  BY DEF TypeOK
<1>0. Len(queue) \in Nat
  BY DEF QueueType
<1>1. disp'.at \in {"drain", "sendBack"} => snap'.gate
  <2>1. CASE BootEnds
    BY <2>1 DEF BootEnds, DispType, ShownType
  <2>2. CASE Takes
    <3>1. Head(queue) \in Asked
      BY <2>2, QueueShrinks DEF Takes, AskedInv
    <3>2. snap'.gate = (Head(queue).op = "update")
      BY <2>2 DEF Takes, ShownType
    <3>3. disp'.at = "drain" \/ disp'.at \in {"stop", "frame"}
      BY <2>2 DEF Takes, DispType
    <3>4. disp'.at = "drain" => Head(queue).op = "update"
      BY <2>2, <3>1 DEF Takes, DispType
    <3> QED
      BY <3>2, <3>3, <3>4
  <2>3. CASE StopClearsAbort \/ FrameIsCut \/ FrameIsWhole \/ NothingToShow \/ RowIsQuiet
             \/ Flashes \/ UnitsAreDone \/ GateOpens
    BY <2>3 DEF StopClearsAbort, FrameIsCut, FrameIsWhole, NothingToShow, Done, RowIsQuiet,
       Flashes, UnitsAreDone, GateOpens, DispType
  <2>4. CASE Drains \/ SendsStopBack \/ StopIsBack
    BY <2>4 DEF Drains, SendsStopBack, StopIsBack, board, DispType, RoomInv
  <2>5. ASSUME disp' = disp, snap' = snap PROVE disp'.at \in {"drain", "sendBack"} => snap'.gate
    BY <2>5 DEF RoomInv
  <2> QED
    BY <2>1, <2>2, <2>3, <2>4, <2>5 DEF Next, DisplayTask, UpdateJob, WebGoesOn, NetGoesOn,
       MqttTicks, ClockTicks, OwnRow, Requests, WebQueuesStop, WebTakesFlagBack,
       WebBlanksWall, WebQueuesJob, NetSeesGate, NetPuts, NetArmsNote, MqttPuts, MqttArms,
       MqttCancels, MqttStarts, MqttEndsNote, ClockWaits, ClockDecides, ClockPuts,
       LinkLooks, LinkPuts, WebStops, WebAsksJob, MinuteTurns, NetDrainsMessage,
       NetDrainsNote, MqttTakesText, vars, board, dispVars, bounds, ghosts, rest, producers,
       netRest, webRest, mqttRest, clockRest, linkRest
<1>2. disp'.at = "sendBack" => HasStop(queue)' \/ Len(queue') + OnTheWay' <= 5
  <2> SUFFICES ASSUME disp'.at = "sendBack"
               PROVE  HasStop(queue)' \/ Len(queue') + OnTheWay' <= 5
    OBVIOUS
  <2>1. CASE SendsStopBack
    <3>1. Len(queue') = 0
      BY <2>1 DEF SendsStopBack, board
    <3> QED
      BY <3>1 DEF OnTheWay, Carries
  <2>2. ASSUME ~SendsStopBack PROVE disp.at = "sendBack" /\ disp' = disp
    BY <2>2 DEF Next, DisplayTask, UpdateJob, WebGoesOn, NetGoesOn, MqttTicks, ClockTicks,
       OwnRow, Requests, BootEnds, Takes, StopClearsAbort, FrameIsCut, FrameIsWhole,
       NothingToShow, Drains, StopIsBack, RowIsQuiet, Flashes, UnitsAreDone, GateOpens, Done,
       WebQueuesStop, WebTakesFlagBack, WebBlanksWall, WebQueuesJob, NetSeesGate, NetPuts,
       NetArmsNote, MqttPuts, MqttArms, MqttCancels, MqttStarts, MqttEndsNote, ClockWaits,
       ClockDecides, ClockPuts, LinkLooks, LinkPuts, WebStops, WebAsksJob, MinuteTurns,
       NetDrainsMessage, NetDrainsNote, MqttTakesText, vars, board, dispVars, bounds,
       ghosts, rest, producers, netRest, webRest, mqttRest, clockRest, linkRest, DispType
  <2>a. ASSUME ~SendsStopBack PROVE ~DisplayTask /\ ~UpdateJob
    BY <2>2, <2>a DEF DisplayTask, UpdateJob, BootEnds, Takes, StopClearsAbort, FrameIsCut,
       FrameIsWhole, NothingToShow, Drains, StopIsBack, RowIsQuiet, Flashes, UnitsAreDone,
       GateOpens, Done, DispType
  <2>b. ASSUME ~SendsStopBack, ~WebQueuesStop, ~WebQueuesJob, ~NetPuts, ~MqttPuts, ~ClockPuts,
               ~LinkPuts
        PROVE  queue' = queue
    BY <2>a, <2>b DEF Next, WebGoesOn, NetGoesOn, MqttTicks, ClockTicks, OwnRow, Requests,
       WebTakesFlagBack, WebBlanksWall, NetSeesGate, NetArmsNote, MqttArms, MqttCancels,
       MqttStarts, MqttEndsNote, ClockWaits, ClockDecides, LinkLooks, WebStops, WebAsksJob,
       MinuteTurns, NetDrainsMessage, NetDrainsNote, MqttTakesText, vars, board
  <2>3. ASSUME ~SendsStopBack, HasStop(queue) PROVE HasStop(queue)'
    <3>1. \A c \in Commands : HasStop(Append(queue, c))
      BY <2>3, StopsInQueue DEF QueueType
    <3>2. CASE WebQueuesStop \/ WebQueuesJob
      <4>1. queue' = queue \/ queue' = Append(queue, web.cmd)
        BY <3>2 DEF WebQueuesStop, WebQueuesJob, Enqueue
      <4> QED
        BY <2>3, <3>1, <4>1 DEF HasStop, WebType
    <3>3. CASE NetPuts \/ MqttPuts \/ ClockPuts \/ LinkPuts
      <4>1. \E t \in AnyText : queue' = queue \/ queue' = Append(queue, Show(t))
        BY <3>3 DEF NetPuts, MqttPuts, ClockPuts, LinkPuts, Enqueue, PostType, WallType,
           ClockType
      <4> QED
        BY <2>3, <3>1, <4>1, CommandTypes DEF HasStop
    <3>4. CASE queue' = queue
      BY <2>3, <3>4 DEF HasStop
    <3> QED
      BY <2>3, <2>b, <3>2, <3>3, <3>4
  <2>4. ASSUME ~SendsStopBack, ~HasStop(queue)
        PROVE  HasStop(queue)' \/ Len(queue') + OnTheWay' <= 5
    <3>1. snap.gate /\ Len(queue) + OnTheWay <= 5
      BY <2>2, <2>4 DEF RoomInv
    <3> USE DEF OnTheWay, Carries
    <3>2. CASE WebQueuesStop
      <4>1. CASE Room
        <5>1. queue' = Append(queue, Stop)
          BY <3>2, <4>1 DEF WebQueuesStop, Enqueue, AskedInv
        <5>2. HasStop(queue')
          BY <5>1, StopsInQueue, CommandTypes DEF QueueType, Stop, Cmd
        <5> QED
          BY <5>2 DEF HasStop
      <4>2. CASE ~Room
        BY <3>1, <3>2, <4>2 DEF WebQueuesStop, netRest, WebType
      <4> QED
        BY <4>1, <4>2
    <3>3. CASE WebQueuesJob
      <4>1. web.at = "put" /\ web'.at = "idle" /\ UNCHANGED <<net, mqtt, clock, link>>
        BY <3>3 DEF WebQueuesJob, NoHandler, netRest
      <4>2. Len(queue') <= Len(queue) + 1
        BY <1>0, <3>3 DEF WebQueuesJob, Enqueue, QueueType, WebType
      <4> QED
        BY <1>0, <3>1, <4>1, <4>2
    <3>4. CASE NetPuts
      <4>1. /\ net.at \in {"put", "putNote"} /\ net'.at \notin {"put", "putNote"}
            /\ UNCHANGED <<web, mqtt, clock, link>>
        BY <3>4 DEF NetPuts, Idle, webRest, PostType
      <4>2. Len(queue') <= Len(queue) + 1
        BY <1>0, <3>4 DEF NetPuts, Enqueue, QueueType
      <4> QED
        BY <1>0, <3>1, <4>1, <4>2
    <3>5. CASE MqttPuts
      <4>1. mqtt.at = "put" /\ mqtt'.at # "put" /\ UNCHANGED <<web, net, clock, link>>
        BY <3>5 DEF MqttPuts, Idle, mqttRest, PostType
      <4>2. Len(queue') <= Len(queue) + 1
        BY <1>0, <3>5 DEF MqttPuts, Enqueue, QueueType
      <4> QED
        BY <1>0, <3>1, <4>1, <4>2
    <3>6. CASE ClockPuts
      <4>1. clock.at = "put" /\ clock'.at # "put" /\ UNCHANGED <<web, net, mqtt, link>>
        BY <3>6 DEF ClockPuts, clockRest, ClockType
      <4>2. Len(queue') <= Len(queue) + 1
        BY <1>0, <3>6 DEF ClockPuts, Enqueue, QueueType
      <4> QED
        BY <1>0, <3>1, <4>1, <4>2
    <3>7. CASE LinkPuts
      <4>1. link.at = "put" /\ link'.at # "put" /\ UNCHANGED <<web, net, mqtt, clock>>
        BY <3>7 DEF LinkPuts, Idle, linkRest
      <4>2. Len(queue') <= Len(queue) + 1
        BY <1>0, <3>7 DEF LinkPuts, Enqueue, QueueType
      <4> QED
        BY <1>0, <3>1, <4>1, <4>2
    <3>8. ASSUME ~WebQueuesStop, ~WebQueuesJob, ~NetPuts, ~MqttPuts, ~ClockPuts, ~LinkPuts
          PROVE  /\ queue' = queue
                 /\ web'.at = "put" => web.at = "put"
                 /\ net'.at \in {"put", "putNote"} => net.at \in {"put", "putNote"}
                 /\ mqtt'.at = "put" => mqtt.at = "put"
                 /\ clock'.at = "put" => clock.at = "put"
                 /\ link'.at = "put" => link.at = "put"
      <4>1. queue' = queue
        BY <2>4, <2>b, <3>8
      <4>2. web'.at = "put" => web.at = "put"
        BY <2>a, <2>4, <3>1, <3>8 DEF Next, WebGoesOn, NetGoesOn,
           MqttTicks, ClockTicks, OwnRow, Requests, WebTakesFlagBack, WebBlanksWall, NoHandler,
           NetSeesGate, Idle, NetArmsNote, MqttArms, MqttCancels, MqttStarts, MqttEndsNote,
           Ticks, ClockWaits, ClockDecides, LinkLooks, WebStops, WebAsksJob, MinuteTurns,
           NetDrainsMessage, NetDrainsNote, MqttTakesText, vars, board, netRest, webRest,
           mqttRest, clockRest, linkRest, ClockType
      <4>3. net'.at \in {"put", "putNote"} => net.at \in {"put", "putNote"}
        BY <2>a, <2>4, <3>1, <3>8 DEF Next, WebGoesOn, NetGoesOn,
           MqttTicks, ClockTicks, OwnRow, Requests, WebTakesFlagBack, WebBlanksWall, NoHandler,
           NetSeesGate, Idle, NetArmsNote, MqttArms, MqttCancels, MqttStarts, MqttEndsNote,
           Ticks, ClockWaits, ClockDecides, LinkLooks, WebStops, WebAsksJob, MinuteTurns,
           NetDrainsMessage, NetDrainsNote, MqttTakesText, vars, board, netRest, webRest,
           mqttRest, clockRest, linkRest, ClockType
      <4>4. mqtt'.at = "put" => mqtt.at = "put"
        BY <2>a, <2>4, <3>1, <3>8 DEF Next, WebGoesOn, NetGoesOn,
           MqttTicks, ClockTicks, OwnRow, Requests, WebTakesFlagBack, WebBlanksWall, NoHandler,
           NetSeesGate, Idle, NetArmsNote, MqttArms, MqttCancels, MqttStarts, MqttEndsNote,
           Ticks, ClockWaits, ClockDecides, LinkLooks, WebStops, WebAsksJob, MinuteTurns,
           NetDrainsMessage, NetDrainsNote, MqttTakesText, vars, board, netRest, webRest,
           mqttRest, clockRest, linkRest, ClockType
      <4>5. clock'.at = "put" => clock.at = "put"
        BY <2>a, <2>4, <3>1, <3>8 DEF Next, WebGoesOn, NetGoesOn,
           MqttTicks, ClockTicks, OwnRow, Requests, WebTakesFlagBack, WebBlanksWall, NoHandler,
           NetSeesGate, Idle, NetArmsNote, MqttArms, MqttCancels, MqttStarts, MqttEndsNote,
           Ticks, ClockWaits, ClockDecides, LinkLooks, WebStops, WebAsksJob, MinuteTurns,
           NetDrainsMessage, NetDrainsNote, MqttTakesText, vars, board, netRest, webRest,
           mqttRest, clockRest, linkRest, ClockType
      <4>6. link'.at = "put" => link.at = "put"
        BY <2>a, <2>4, <3>1, <3>8 DEF Next, WebGoesOn, NetGoesOn,
           MqttTicks, ClockTicks, OwnRow, Requests, WebTakesFlagBack, WebBlanksWall, NoHandler,
           NetSeesGate, Idle, NetArmsNote, MqttArms, MqttCancels, MqttStarts, MqttEndsNote,
           Ticks, ClockWaits, ClockDecides, LinkLooks, WebStops, WebAsksJob, MinuteTurns,
           NetDrainsMessage, NetDrainsNote, MqttTakesText, vars, board, netRest, webRest,
           mqttRest, clockRest, linkRest, ClockType
      <4> QED
        BY <4>1, <4>2, <4>3, <4>4, <4>5, <4>6
    <3>9. CASE ~(WebQueuesStop \/ WebQueuesJob \/ NetPuts \/ MqttPuts \/ ClockPuts \/ LinkPuts)
      BY <1>0, <3>1, <3>8, <3>9
    <3> QED
      BY <3>2, <3>3, <3>4, <3>5, <3>6, <3>7, <3>9
  <2> QED
    BY <2>1, <2>3, <2>4
<1> QED
  BY <1>1, <1>2 DEF RoomInv, HasStop

\* In a queue with more than five places there is room for the stop that goes back, or a
\* later one is there already.
HasRoom == disp.at = "sendBack" => HasStop(queue) \/ Room

LEMMA RoomSuffices == TypeOK /\ RoomInv /\ Depth > 5 => HasRoom
BY BoundsAreNaturals DEF TypeOK, QueueType, RoomInv, HasRoom, Room, OnTheWay, Carries

\* A stop that is to come comes: only its own parking takes it away.
LEMMA StopStays ==
  TypeOK /\ HasRoom /\ StopToCome /\ [Next]_vars => StopToCome' \/ StopClearsAbort
<1> SUFFICES ASSUME TypeOK, HasRoom, StopToCome, [Next]_vars, ~StopClearsAbort PROVE StopToCome'
  OBVIOUS
<1> QueueType /\ DispType /\ WebType /\ PostType /\ WallType /\ ClockType
  BY DEF TypeOK
<1>0. StopToCome = (HasStop(queue) \/ disp.stop \/ disp.at = "stop")
  BY DEF StopToCome, HasStop
<1>a. StopToCome' = (HasStop(queue)' \/ disp'.stop \/ disp'.at = "stop")
  BY DEF StopToCome, HasStop
<1>1. CASE StopIsBack
  <2>1. CASE disp.stop /\ Room
    <3>1. queue' = Append(queue, Stop)
      BY <1>1, <2>1 DEF StopIsBack, Enqueue
    <3> QED
      BY <3>1, <1>a, StopsInQueue, CommandTypes DEF QueueType, Stop, Cmd, HasStop
  <2>2. CASE disp.stop /\ ~Room
    <3>1. HasStop(queue) /\ queue' = queue
      BY <1>1, <2>2 DEF StopIsBack, HasRoom
    <3> QED
      BY <3>1, <1>a DEF HasStop
  <2>3. CASE ~disp.stop
    BY <1>1, <2>3, <1>0, <1>a DEF StopIsBack, DispType, HasStop
  <2> QED
    BY <2>1, <2>2, <2>3
<1>2. CASE WebQueuesStop
  <2>1. web.cmd \in Commands
    BY CommandTypes DEF AnyText, WebType, PostType, WallType, ClockType
  <2>2. (queue' = queue \/ queue' = Append(queue, web.cmd)) /\ disp' = disp
    BY <1>2 DEF WebQueuesStop, Room, Enqueue, NoHandler, netRest, dispVars, vars, board,
       bounds, ghosts, rest, producers, webRest, mqttRest, clockRest, linkRest
  <2>3. HasStop(queue) => HasStop(queue')
    BY <2>1, <2>2, StopsInQueue DEF QueueType
  <2> QED
    BY <2>2, <2>3, <1>0, <1>a DEF HasStop
<1>3. CASE WebQueuesJob
  <2>1. web.cmd \in Commands
    BY CommandTypes DEF AnyText, WebType, PostType, WallType, ClockType
  <2>2. (queue' = queue \/ queue' = Append(queue, web.cmd)) /\ disp' = disp
    BY <1>3 DEF WebQueuesJob, Room, Enqueue, NoHandler, netRest, ghosts, dispVars, vars,
       board, bounds, rest, producers, webRest, mqttRest, clockRest, linkRest
  <2>3. HasStop(queue) => HasStop(queue')
    BY <2>1, <2>2, StopsInQueue DEF QueueType
  <2> QED
    BY <2>2, <2>3, <1>0, <1>a DEF HasStop
<1>4. CASE NetPuts
  <2>1. Show(net.text) \in Commands
    BY CommandTypes DEF AnyText, WebType, PostType, WallType, ClockType
  <2>2. (queue' = queue \/ queue' = Append(queue, Show(net.text))) /\ disp' = disp
    BY <1>4 DEF NetPuts, Idle, Room, Enqueue, webRest, ghosts, dispVars, vars, board,
       bounds, rest, producers, netRest, mqttRest, clockRest, linkRest
  <2>3. HasStop(queue) => HasStop(queue')
    BY <2>1, <2>2, StopsInQueue DEF QueueType
  <2> QED
    BY <2>2, <2>3, <1>0, <1>a DEF HasStop
<1>5. CASE MqttPuts
  <2>1. Show(mqtt.text) \in Commands
    BY CommandTypes DEF AnyText, WebType, PostType, WallType, ClockType
  <2>2. (queue' = queue \/ queue' = Append(queue, Show(mqtt.text))) /\ disp' = disp
    BY <1>5 DEF MqttPuts, Room, Enqueue, Idle, mqttRest, ghosts, dispVars, vars, board,
       bounds, rest, producers, netRest, webRest, clockRest, linkRest
  <2>3. HasStop(queue) => HasStop(queue')
    BY <2>1, <2>2, StopsInQueue DEF QueueType
  <2> QED
    BY <2>2, <2>3, <1>0, <1>a DEF HasStop
<1>6. CASE ClockPuts
  <2>1. Show(clock.text) \in Commands
    BY CommandTypes DEF AnyText, WebType, PostType, WallType, ClockType
  <2>2. (queue' = queue \/ queue' = Append(queue, Show(clock.text))) /\ disp' = disp
    BY <1>6 DEF ClockPuts, Room, Enqueue, clockRest, dispVars, bounds, vars, board, ghosts,
       rest, producers, netRest, webRest, mqttRest, linkRest
  <2>3. HasStop(queue) => HasStop(queue')
    BY <2>1, <2>2, StopsInQueue DEF QueueType
  <2> QED
    BY <2>2, <2>3, <1>0, <1>a DEF HasStop
<1>7. CASE LinkPuts
  <2>1. Show(link.text) \in Commands
    BY CommandTypes DEF AnyText, WebType, PostType, WallType, ClockType
  <2>2. (queue' = queue \/ queue' = Append(queue, Show(link.text))) /\ disp' = disp
    BY <1>7 DEF LinkPuts, Idle, Room, Enqueue, linkRest, dispVars, bounds, ghosts, vars,
       board, rest, producers, netRest, webRest, mqttRest, clockRest
  <2>3. HasStop(queue) => HasStop(queue')
    BY <2>1, <2>2, StopsInQueue DEF QueueType
  <2> QED
    BY <2>2, <2>3, <1>0, <1>a DEF HasStop
<1>8. CASE Takes
  <2>1. queue # <<>> /\ queue' = Tail(queue) /\ disp.at # "stop"
    BY <1>8 DEF Takes
  <2>2. Head(queue).op = "stop" => disp'.at = "stop"
    BY <1>8 DEF Takes, DispType
  <2>3. disp.stop => disp'.stop
    BY <1>8 DEF Takes, DispType
  <2> QED
    BY <2>1, <2>2, <2>3, <1>0, <1>a, StopsInQueue DEF QueueType, HasStop
<1>9. CASE Drains
  <2>1. queue # <<>> /\ queue' = Tail(queue) /\ disp.at # "stop"
    BY <1>9 DEF Drains
  <2>2. Head(queue).op = "stop" => disp'.stop
    BY <1>9 DEF Drains, DispType, Keeps
  <2>3. disp.stop => disp'.stop
    BY <1>9 DEF Drains, DispType, Keeps
  <2> QED
    BY <2>1, <2>2, <2>3, <1>0, <1>a, StopsInQueue DEF QueueType, HasStop
<1>10. CASE BootEnds
  BY <1>10, <1>0, <1>a DEF BootEnds, rest, ghosts, producers, bounds, DispType,
     HasStop, board
<1>11. CASE FrameIsCut
  BY <1>11, <1>0, <1>a DEF FrameIsCut, Done, DoneText, rest, producers, bounds,
     DispType, HasStop, board
<1>12. CASE FrameIsWhole
  BY <1>12, <1>0, <1>a DEF FrameIsWhole, Done, DoneText, rest, producers, bounds,
     DispType, HasStop, board
<1>13. CASE NothingToShow
  BY <1>13, <1>0, <1>a DEF NothingToShow, Done, DoneText, rest, producers, bounds,
     DispType, HasStop, board
<1>14. CASE SendsStopBack
  BY <1>14, <1>0, <1>a DEF SendsStopBack, board, rest, ghosts, producers, bounds,
     DispType, HasStop, board
<1>15. CASE RowIsQuiet
  BY <1>15, <1>0, <1>a DEF RowIsQuiet, board, rest, ghosts, producers, bounds,
     DispType, HasStop, board
<1>16. CASE Flashes
  BY <1>16, <1>0, <1>a DEF Flashes, board, rest, ghosts, producers, bounds, DispType,
     HasStop, board
<1>17. CASE UnitsAreDone
  BY <1>17, <1>0, <1>a DEF UnitsAreDone, board, rest, ghosts, producers, bounds,
     DispType, HasStop, board
<1>18. CASE GateOpens
  BY <1>18, <1>0, <1>a DEF GateOpens, rest, ghosts, producers, bounds, DispType,
     HasStop, board
<1> QED
  BY <1>0, <1>1, <1>2, <1>3, <1>4, <1>5, <1>6, <1>7, <1>8, <1>9, <1>10, <1>11, <1>12,
     <1>13, <1>14, <1>15, <1>16, <1>17, <1>18 DEF StopToCome, Next, DisplayTask,
     UpdateJob, WebGoesOn, NetGoesOn, MqttTicks, ClockTicks, OwnRow, Requests,
     WebTakesFlagBack, WebBlanksWall, NetSeesGate, NetArmsNote, MqttArms, MqttCancels,
     MqttStarts, MqttEndsNote, ClockWaits, ClockDecides, LinkLooks, WebStops,
     WebAsksJob, MinuteTurns, NetDrainsMessage, NetDrainsNote, MqttTakesText, vars,
     board, dispVars, bounds, ghosts, rest, producers, netRest, webRest, mqttRest,
     clockRest, linkRest

-----------------------------------------------------------------------------
\* DISPLAY_QUEUE_DEPTH is 16.
SafeInv == /\ Depth > 5 /\ TypeOK /\ AskedInv /\ TaskInv /\ RoomInv
           /\ AbortHasItsStop /\ StopIsKept /\ TextInv

\* The flag is set by a stop on its way, and cleared by the parking of one.
LEMMA AbortStep == SafeInv /\ [Next]_vars => AbortHasItsStop'
<1> SUFFICES ASSUME SafeInv, [Next]_vars, abort'
             PROVE  web'.at \in {"stop", "refused"} \/ StopToCome'
  BY DEF AbortHasItsStop
<1> TypeOK /\ HasRoom /\ WebType /\ QueueType /\ DispType /\ FlagType /\ AskedInv /\ AbortHasItsStop
  BY RoomSuffices DEF SafeInv, TypeOK
<1>1. CASE StopClearsAbort
  BY <1>1 DEF StopClearsAbort
<1>2. CASE WebStops
  BY <1>2 DEF WebStops
<1>3. CASE WebTakesFlagBack
  BY <1>3 DEF WebTakesFlagBack
<1>4. CASE WebQueuesStop
  <2>1. CASE Room
    <3>1. queue' = Append(queue, Stop)
      BY <1>4, <2>1 DEF WebQueuesStop, Enqueue, AskedInv
    <3>2. HasStop(queue')
      BY <3>1, StopsInQueue, CommandTypes DEF QueueType, Stop, Cmd
    <3> QED
      BY <3>2 DEF StopToCome, HasStop
  <2>2. CASE ~Room
    BY <1>4, <2>2 DEF WebQueuesStop, WebType
  <2> QED
    BY <2>1, <2>2
<1>5. ASSUME ~StopClearsAbort, ~WebStops, ~WebTakesFlagBack, ~WebQueuesStop
      PROVE  web'.at \in {"stop", "refused"} \/ StopToCome'
  <2>1. abort' = abort /\ (web.at \in {"stop", "refused"} => web' = web)
    BY <1>5 DEF Next, DisplayTask, UpdateJob, WebGoesOn, NetGoesOn, MqttTicks, ClockTicks,
       OwnRow, Requests, BootEnds, Takes, FrameIsCut, FrameIsWhole, NothingToShow, Drains,
       SendsStopBack, StopIsBack, RowIsQuiet, Flashes, UnitsAreDone, GateOpens,
       WebBlanksWall, WebQueuesJob, NetSeesGate, NetPuts, NetArmsNote, MqttPuts, MqttArms,
       MqttCancels, MqttStarts, MqttEndsNote, ClockWaits, ClockDecides, ClockPuts,
       LinkLooks, LinkPuts, WebAsksJob, MinuteTurns, NetDrainsMessage, NetDrainsNote,
       MqttTakesText, vars, board, dispVars, bounds, ghosts, rest, producers, netRest,
       webRest, mqttRest, clockRest, linkRest, Done
  <2> QED
    BY <1>5, <2>1, StopStays DEF AbortHasItsStop
<1> QED
  BY <1>1, <1>2, <1>3, <1>4, <1>5

\* A stop that was taken is to come until its parking begins.
LEMMA KeptStep == SafeInv /\ [Next]_vars => StopIsKept'
<1> SUFFICES ASSUME SafeInv, [Next]_vars, owed' > parked' PROVE StopToCome'
  BY DEF StopIsKept
<1> TypeOK /\ HasRoom /\ CountType /\ WebType /\ QueueType /\ AskedInv /\ StopIsKept
  BY RoomSuffices DEF SafeInv, TypeOK
<1>1. CASE StopClearsAbort
  BY <1>1 DEF StopClearsAbort, CountType
<1>2. ASSUME WebQueuesStop, ~StopClearsAbort PROVE StopToCome'
  <2>1. CASE Room
    <3>1. queue' = Append(queue, Stop)
      BY <1>2, <2>1 DEF WebQueuesStop, Enqueue, AskedInv
    <3>2. HasStop(queue')
      BY <3>1, StopsInQueue, CommandTypes DEF QueueType, Stop, Cmd
    <3> QED
      BY <3>2 DEF StopToCome, HasStop
  <2>2. CASE ~Room
    <3>1. owed' = owed /\ parked' = parked
      BY <1>2, <2>2 DEF WebQueuesStop
    <3> QED
      BY <1>2, <3>1, StopStays DEF StopIsKept
  <2> QED
    BY <2>1, <2>2
<1>3. ASSUME ~StopClearsAbort, ~WebQueuesStop PROVE StopToCome'
  <2>1. owed' = owed /\ parked' = parked
    BY <1>3 DEF Next, DisplayTask, UpdateJob, WebGoesOn, NetGoesOn, MqttTicks, ClockTicks,
       OwnRow, Requests, BootEnds, Takes, FrameIsCut, FrameIsWhole, NothingToShow, Drains,
       SendsStopBack, StopIsBack, RowIsQuiet, Flashes, UnitsAreDone, GateOpens,
       WebTakesFlagBack, WebBlanksWall, WebQueuesJob, NetSeesGate, NetPuts, NetArmsNote,
       MqttPuts, MqttArms, MqttCancels, MqttStarts, MqttEndsNote, ClockWaits, ClockDecides,
       ClockPuts, LinkLooks, LinkPuts, WebStops, WebAsksJob, MinuteTurns, NetDrainsMessage,
       NetDrainsNote, MqttTakesText, vars, board, dispVars, bounds, ghosts, rest, producers,
       netRest, webRest, mqttRest, clockRest, linkRest, Done
  <2> QED
    BY <1>3, <2>1, StopStays DEF StopIsKept
<1> QED
  BY <1>1, <1>2, <1>3

\* The excuse lasts until a frame is whole, or a parking begins.
LEMMA ExcuseStays ==
  SafeInv /\ Excuse /\ [Next]_vars => Excuse' \/ StopClearsAbort \/ FrameIsWhole
<1> SUFFICES ASSUME SafeInv, Excuse, [Next]_vars, ~StopClearsAbort, ~FrameIsWhole PROVE Excuse'
  OBVIOUS
<1> TypeOK /\ HasRoom /\ WebType /\ QueueType /\ DispType /\ FlagType /\ AskedInv /\ AbortHasItsStop
  BY RoomSuffices DEF SafeInv, TypeOK
<1>1. CASE StopToCome
  BY <1>1, StopStays DEF Excuse
<1>2. CASE web.at \in {"stop", "refused"}
  <2>1. CASE WebTakesFlagBack
    BY <2>1 DEF WebTakesFlagBack, Excuse
  <2>2. CASE WebQueuesStop
    <3>1. CASE Room
      <4>1. queue' = Append(queue, Stop)
        BY <2>2, <3>1 DEF WebQueuesStop, Enqueue, AskedInv
      <4>2. HasStop(queue')
        BY <4>1, StopsInQueue, CommandTypes DEF QueueType, Stop, Cmd
      <4> QED
        BY <4>2 DEF StopToCome, HasStop, Excuse
    <3>2. CASE ~Room
      BY <2>2, <3>2 DEF WebQueuesStop, WebType, Excuse
    <3> QED
      BY <3>1, <3>2
  <2>3. ASSUME ~WebTakesFlagBack, ~WebQueuesStop PROVE web' = web
    BY <1>2, <2>3 DEF Next, DisplayTask, UpdateJob, WebGoesOn, NetGoesOn, MqttTicks,
       ClockTicks, OwnRow, Requests, BootEnds, Takes, StopClearsAbort, FrameIsCut,
       FrameIsWhole, NothingToShow, Drains, SendsStopBack, StopIsBack, RowIsQuiet, Flashes,
       UnitsAreDone, GateOpens, WebBlanksWall, WebQueuesJob, NetSeesGate, NetPuts,
       NetArmsNote, MqttPuts, MqttArms, MqttCancels, MqttStarts, MqttEndsNote, ClockWaits,
       ClockDecides, ClockPuts, LinkLooks, LinkPuts, WebStops, WebAsksJob, MinuteTurns,
       NetDrainsMessage, NetDrainsNote, MqttTakesText, vars, board, dispVars, bounds,
       ghosts, rest, producers, netRest, webRest, mqttRest, clockRest, linkRest, Done
  <2> QED
    BY <1>2, <2>1, <2>2, <2>3 DEF Excuse
<1>3. CASE spoiled
  <2>1. spoiled'
    BY <1>3 DEF Next, DisplayTask, UpdateJob, WebGoesOn, NetGoesOn, MqttTicks, ClockTicks,
       OwnRow, Requests, BootEnds, Takes, FrameIsCut, NothingToShow, Drains, SendsStopBack,
       StopIsBack, RowIsQuiet, Flashes, UnitsAreDone, GateOpens, WebQueuesStop,
       WebTakesFlagBack, WebBlanksWall, WebQueuesJob, NetSeesGate, NetPuts, NetArmsNote,
       MqttPuts, MqttArms, MqttCancels, MqttStarts, MqttEndsNote, ClockWaits, ClockDecides,
       ClockPuts, LinkLooks, LinkPuts, WebStops, WebAsksJob, MinuteTurns, NetDrainsMessage,
       NetDrainsNote, MqttTakesText, vars, board, dispVars, bounds, ghosts, rest, producers,
       netRest, webRest, mqttRest, clockRest, linkRest, Done, StopClearsAbort
  <2> QED
    BY <2>1 DEF Excuse
<1> QED
  BY <1>1, <1>2, <1>3 DEF Excuse

\* What the drums show when a command is done.
LEMMA TextStep == SafeInv /\ [Next]_vars => TextInv'
<1> SUFFICES ASSUME SafeInv, [Next]_vars PROVE TextInv'
  OBVIOUS
<1> TypeOK /\ DispType /\ FlagType /\ TaskInv /\ TextInv /\ AbortHasItsStop
  BY DEF SafeInv, TypeOK
<1>1. CASE StopClearsAbort
  BY <1>1 DEF StopClearsAbort, TextInv, TaskInv, DispType
<1>2. CASE FrameIsWhole
  <2>1. disp'.at = "idle" /\ ~disp'.cancelled /\ disp'.text = DoneText /\ flaps' = disp.cmd.text
    BY <1>2 DEF FrameIsWhole, Done, DispType
  <2>2. DoneText = disp.cmd.text \/ spoiled'
    BY <1>2 DEF FrameIsWhole, DoneText, TaskInv, JobOps
  <2> QED
    BY <2>1, <2>2 DEF TextInv, Excuse
<1>3. ASSUME ~StopClearsAbort, ~FrameIsWhole, Excuse PROVE TextInv'
  BY <1>3, ExcuseStays DEF TextInv
<1>4. ASSUME ~StopClearsAbort, ~FrameIsWhole, ~Excuse PROVE TextInv'
  <2>1. ~abort /\ ~disp.cancelled /\ (disp.at = "idle" => flaps = disp.text)
    BY <1>4 DEF AbortHasItsStop, Excuse, TextInv
  <2>2. CASE BootEnds
    BY <2>1, <2>2 DEF BootEnds, TextInv, TaskInv, DispType
  <2>3. CASE GateOpens
    BY <2>1, <2>3 DEF GateOpens, TextInv, TaskInv, DispType, UpdatePlaces
  <2>4. CASE Takes
    BY <2>1, <2>4 DEF Takes, TextInv, DispType
  <2>5. CASE FrameIsCut \/ NothingToShow
    BY <2>1, <2>5 DEF FrameIsCut, NothingToShow, TaskInv
  <2>6. CASE Flashes \/ RowIsQuiet \/ UnitsAreDone \/ Drains \/ SendsStopBack \/ StopIsBack
    BY <2>1, <2>6 DEF Flashes, RowIsQuiet, UnitsAreDone, Drains, SendsStopBack, StopIsBack, Keeps,
       TextInv, DispType
  <2>7. ASSUME disp' = disp, flaps' = flaps PROVE TextInv'
    BY <2>1, <2>7 DEF TextInv
  <2> QED
    BY <1>4, <2>2, <2>3, <2>4, <2>5, <2>6, <2>7 DEF Next, DisplayTask, UpdateJob, WebGoesOn,
       NetGoesOn, MqttTicks, ClockTicks, OwnRow, Requests, WebQueuesStop, WebTakesFlagBack,
       WebBlanksWall, WebQueuesJob, NetSeesGate, NetPuts, NetArmsNote, MqttPuts, MqttArms,
       MqttCancels, MqttStarts, MqttEndsNote, ClockWaits, ClockDecides, ClockPuts,
       LinkLooks, LinkPuts, WebStops, WebAsksJob, MinuteTurns, NetDrainsMessage,
       NetDrainsNote, MqttTakesText, vars, board, dispVars, bounds, ghosts, rest, producers,
       netRest, webRest, mqttRest, clockRest, linkRest
<1> QED
  BY <1>1, <1>2, <1>3, <1>4

LEMMA SafeStart == Depth > 5 /\ Init => SafeInv
<1> SUFFICES ASSUME Depth > 5, Init PROVE SafeInv
  OBVIOUS
<1>1. TypeOK
  BY TypesStart
<1>2. AskedInv
  BY DEF Init, AskedInv, NoHandler
<1>3. TaskInv /\ TextInv /\ RoomInv
  BY DEF Init, TaskInv, TextInv, UpdatePlaces, RoomInv
<1>4. AbortHasItsStop /\ StopIsKept
  BY DEF Init, AbortHasItsStop, StopIsKept
<1> QED
  BY <1>1, <1>2, <1>3, <1>4 DEF SafeInv

LEMMA SafeStep == SafeInv /\ [Next]_vars => SafeInv'
BY TypesStep, AskedStep, TaskStep, RoomStep, AbortStep, KeptStep, TextStep DEF SafeInv

\* The abort flag of a stop is never left behind (webStopWall, execStop): frames and
\* waits are not cut short for ever.
THEOREM AbortAlwaysHasItsStop == Depth > 5 /\ Spec => []AbortHasItsStop
<1>1. SafeInv => AbortHasItsStop
  BY DEF SafeInv
<1> QED
  BY <1>1, SafeStart, SafeStep, PTL DEF Spec

\* A stop the queue took is not lost (runReflashJob's drain, displayTaskMain).
THEOREM StopIsAlwaysKept == Depth > 5 /\ Spec => []StopIsKept
<1>1. SafeInv => StopIsKept
  BY DEF SafeInv
<1> QED
  BY <1>1, SafeStart, SafeStep, PTL DEF Spec

\* The board says what its drums show (displayTaskMain, execReflashUnits, execStop).
THEOREM AlwaysSaysWhatItShows == Depth > 5 /\ Spec => []SaysWhatItShows
<1>1. SafeInv => SaysWhatItShows
  BY DEF SafeInv, TextInv, Excuse, SaysWhatItShows
<1> QED
  BY <1>1, SafeStart, SafeStep, PTL DEF Spec

=============================================================================

------------------------------- MODULE Display -------------------------------
(***************************************************************************)
(* The master's display task, the queue it is given commands through, and  *)
(* the five tasks that fill that queue (Master/DisplayTask.cpp,            *)
(* DisplayIpc.h, ClockTask.cpp, WallShow.cpp, WebEndpoints.cpp,            *)
(* WebWall.cpp, MqttService.cpp).                                          *)
(*                                                                         *)
(* The tasks share the queue, the abort flag of a stop, the published      *)
(* snapshot and the notification gate, each with a guard of its own; what  *)
(* a task read of one is old by the time it acts on another.  A step of    *)
(* this module is what a task does between two such accesses.              *)
(***************************************************************************)
EXTENDS Integers, Sequences

CONSTANTS
  Texts,    \* what can be shown
  Blank,    \* nothing: no text retained, or every drum at its blank
  Mixed,    \* what the drums show when a frame stopped half-way
  Depth,    \* DISPLAY_QUEUE_DEPTH
  MaxAsks   \* bound: texts, notes, stops and jobs asked for and minutes passed, in all

ASSUME BoundsAreNaturals == Depth \in Nat \ {0} /\ MaxAsks \in Nat
ASSUME BlanksAreNoTexts == Blank \notin Texts /\ Mixed \notin Texts \cup {Blank}

VARIABLES
  mode,   \* settings.deviceMode
  rows,   \* wallShowActive(): the wall has row boards
  queue,  \* displayQueue
  abort,  \* abortRequested: a stop cuts waits and frames short
  snap,   \* the published snapshot: busy, currentText, reflashInProgress()
  disp,   \* the display task: place, command, its own currentText, the stop it drained
  flaps,  \* what the drums show
  web,    \* the web server's handler: a stop or a job
  net,    \* netTask's drain of a post
  mqtt,   \* mqttTask's handler of a text
  notif,  \* the notification: gate, mqttTask's own state, what is staged for it
  clock,  \* the ticker: place, the snapshot it read, lastQueued, notifWasActive
  input,  \* currentInputText, or the clock's minute
  wall,   \* WallShow: its content key (none, or what was given), the own row's piece, ownPending
  link,   \* the link task's service of the own row
  asks,
  \* history
  stops,    \* stops asked for
  owed,     \* the latest stop that was taken into the queue
  parked,   \* of these, the latest whose parking has begun
  spoiled   \* the drums were left with other than the text, see SaysWhatItShows

board    == <<queue, abort, snap>>
dispVars == <<disp, flaps>>
bounds   == <<asks, stops>>
ghosts   == <<owed, parked, spoiled>>
vars     == <<mode, rows, board, dispVars, web, net, mqtt, notif, clock, input, wall, link,
              bounds, ghosts>>

-----------------------------------------------------------------------------
AnyText == Texts \cup {Blank}
Modes   == {"text", "clock"}

Cmd(op, t) == [op |-> op, text |-> t]
Show(t)    == Cmd("show", t)
Stop       == Cmd("stop", Blank)
NoCmd      == Cmd("none", Blank)

Idle      == [at |-> "idle", text |-> Blank]
NoHandler == [at |-> "idle", cmd |-> NoCmd]
Room == Len(queue) < Depth

Init ==
  /\ mode \in Modes /\ rows \in BOOLEAN
  /\ input \in IF mode = "clock" THEN Texts ELSE {Blank}
  /\ queue = <<>> /\ abort = FALSE
  /\ snap = [busy |-> TRUE, text |-> Blank, gate |-> FALSE]
  /\ disp = [at |-> "boot", cmd |-> NoCmd, text |-> Blank, stop |-> FALSE, cancelled |-> FALSE]
  /\ flaps = Blank
  /\ web = NoHandler /\ net = Idle /\ mqtt = Idle /\ link = Idle
  /\ notif = [active |-> FALSE, mine |-> FALSE, cancel |-> FALSE, start |-> FALSE]
  /\ clock = [at |-> "idle", text |-> Blank, last |-> Blank, was |-> FALSE]
  /\ wall = [key |-> {}, text |-> Blank, pending |-> FALSE]
  /\ asks = 0 /\ stops = 0 /\ owed = 0 /\ parked = 0
  /\ spoiled = FALSE

\* displayEnqueue: nothing is waited for, a full queue is the caller's to handle.
Enqueue(c) == queue' = Append(queue, c)

\* A request within the bound.
Asks == asks < MaxAsks /\ asks' = asks + 1

-----------------------------------------------------------------------------
(* The display task *)

producers == <<mode, rows, web, net, mqtt, notif, clock, input, wall, link>>
rest      == <<producers, bounds>>

\* displayTaskMain, before the command loop: a unit in its bootloader, or one with
\* an old program, starts an update job at power-on.
BootEnds ==
  /\ disp.at = "boot"
  /\ \/ disp' = [disp EXCEPT !.at = "idle"] /\ snap' = [snap EXCEPT !.busy = FALSE]
     \/ /\ disp' = [disp EXCEPT !.at = "drain", !.cmd = Cmd("boot", Blank)]
        /\ snap' = [snap EXCEPT !.gate = TRUE]
  /\ UNCHANGED <<queue, abort, flaps, rest, ghosts>>

\* Mutant: a stop retains what the drums happen to show.
StopKeepsDrums(c) == CASE c.op = "show" -> c.text
                       [] c.op = "stop" -> flaps
                       [] OTHER -> disp.text

\* displayApplyCommand: what the task's own currentText becomes.
Applied(c) == CASE c.op = "show" -> c.text
                [] c.op = "stop" -> Blank
                [] OTHER -> disp.text

\* displayTaskMain: one command, published as busy before it is applied.  The new
\* text is published when the command is done.
Takes ==
  /\ disp.at = "idle" /\ queue # <<>>
  /\ LET c == Head(queue) IN
     /\ queue' = Tail(queue)
     /\ snap' = [snap EXCEPT !.busy = TRUE, !.gate = c.op = "update"]
     /\ disp' = [disp EXCEPT !.cmd = c, !.text = Applied(c),
                   !.at = CASE c.op = "stop" -> "stop" [] c.op = "update" -> "drain"
                            [] OTHER -> "frame"]
     /\ spoiled' = (spoiled \/ (c.op = "homeAll" /\ c.text # disp.text))
  /\ UNCHANGED <<abort, flaps, rest, owed, parked>>

\* execStop: the flag is cleared before the row is parked, so that the park's own
\* waits run.
StopClearsAbort ==
  /\ disp.at = "stop"
  /\ abort' = FALSE /\ disp' = [disp EXCEPT !.at = "frame"]
  /\ parked' = owed
  /\ UNCHANGED <<queue, snap, flaps, rest, owed, spoiled>>

\* Mutant: the text of before the update is kept, whatever was shown again.
DoneTextOfBefore == disp.text

\* The text the command leaves behind: after an update the text it showed again.
DoneText == IF disp.cmd.op = "update" /\ ~disp.cancelled THEN disp.cmd.text ELSE disp.text

\* displayTaskMain: the command's end is published, its text with it.
Done ==
  /\ disp' = [disp EXCEPT !.at = "idle", !.cmd = NoCmd, !.text = DoneText,
                          !.cancelled = FALSE]
  /\ snap' = [snap EXCEPT !.busy = FALSE, !.text = DoneText]
  /\ UNCHANGED <<queue, abort, rest, owed, parked>>

\* unitBusShowFrame: no motion starts while a stop is pending, and one that is under
\* way is abandoned; a row of dashes and one of dots come before the text of a home of
\* all units.
FrameIsCut ==
  /\ disp.at = "frame" /\ abort
  /\ flaps' \in {flaps, Mixed}
  /\ Done /\ spoiled' = spoiled

\* The frame is complete, a stop set too late for it or not.
FrameIsWhole ==
  /\ disp.at = "frame"
  /\ flaps' = disp.cmd.text
  /\ Done /\ spoiled' = (disp.cmd.op = "homeAll" /\ disp.cmd.text # disp.text)

\* A cancelled update shows nothing again.
NothingToShow ==
  /\ disp.at = "none"
  /\ Done /\ UNCHANGED <<flaps, spoiled>>

-----------------------------------------------------------------------------
(* The display task: the unit update (runReflashJob) *)

\* Mutant: the drain drops a stop with the rest.
KeepsNothing(c) == FALSE

\* Of the stops that are drained one is kept: it stands for all of them.
Keeps(c) == disp.stop \/ c.op = "stop"

\* Mutant: the stop goes back into the queue while that is being drained.
DrainSendsBack ==
  /\ disp.at = "drain" /\ queue # <<>>
  /\ queue' = IF Head(queue).op = "stop" THEN Append(Tail(queue), Head(queue)) ELSE Tail(queue)
  /\ UNCHANGED <<abort, snap, dispVars, rest, ghosts>>

\* With the gate closed, what was queued before is dropped, but for a stop.
Drains ==
  /\ disp.at = "drain" /\ queue # <<>>
  /\ disp' = [disp EXCEPT !.stop = Keeps(Head(queue))]
  /\ queue' = Tail(queue)
  /\ UNCHANGED <<abort, snap, flaps, rest, ghosts>>

\* The queue is empty: the stop goes back into it, and the row comes to rest.
SendsStopBack ==
  /\ disp.at = "drain" /\ queue = <<>>
  /\ disp' = [disp EXCEPT !.at = "sendBack"]
  /\ UNCHANGED <<board, flaps, rest, ghosts>>

\* xQueueSend of the stop, its result not looked at: into a queue that is full again it
\* is lost.
StopIsBack ==
  /\ disp.at = "sendBack"
  /\ IF disp.stop /\ Room THEN Enqueue(Stop) ELSE queue' = queue
  /\ disp' = [disp EXCEPT !.at = "quiet", !.stop = FALSE]
  /\ UNCHANGED <<abort, snap, flaps, rest, ghosts>>

\* A stop during the wait ends the job before a unit is touched.
RowIsQuiet ==
  /\ disp.at = "quiet"
  /\ disp' = [disp EXCEPT !.at = IF abort THEN "finish" ELSE "flash", !.cancelled = abort]
  /\ UNCHANGED <<board, flaps, rest, ghosts>>

\* reflashRunTargets and the boot sections after it: a unit at a time, with a look for
\* a stop before each; what happens on the bus is module Reflash.  A unit that was
\* flashed homes to blank.
Flashes ==
  /\ disp.at = "flash"
  /\ IF abort THEN disp' = [disp EXCEPT !.at = "finish", !.cancelled = TRUE] /\ flaps' = flaps
     ELSE disp' = disp /\ flaps' = Mixed /\ flaps \notin {Blank, Mixed}
  /\ UNCHANGED <<board, rest, ghosts>>

\* No unit is left: the scan and the homes, without another look for a stop.
UnitsAreDone ==
  /\ disp.at = "flash"
  /\ disp' = [disp EXCEPT !.at = "finish"]
  /\ UNCHANGED <<board, flaps, rest, ghosts>>

\* The gate opens.  A job an operator asked for then shows its baked text again,
\* unless it was cancelled; execReflashUnits.
GateOpens ==
  /\ disp.at = "finish"
  /\ IF disp.cmd.op = "boot"
     THEN /\ disp' = [disp EXCEPT !.at = "idle", !.cmd = NoCmd, !.cancelled = FALSE]
          /\ snap' = [snap EXCEPT !.gate = FALSE, !.busy = FALSE]
     ELSE /\ disp' = [disp EXCEPT !.at = IF disp.cancelled THEN "none" ELSE "frame"]
          /\ snap' = [snap EXCEPT !.gate = FALSE]
  /\ UNCHANGED <<queue, abort, flaps, rest, ghosts>>

-----------------------------------------------------------------------------
(* The web server: a stop, and the jobs on the own row *)

netRest  == <<mode, rows, dispVars, mqtt, notif, clock, link>>

StopToCome ==
  \/ \E i \in DOMAIN queue : queue[i].op = "stop"
  \/ disp.stop \/ disp.at = "stop"

\* webStopWall: the flag first, so that the display task's stop finds it set.
WebStops ==
  /\ web.at = "idle" /\ Asks
  /\ abort' = TRUE /\ stops' = stops + 1
  /\ web' = [at |-> "stop", cmd |-> Stop]
  /\ UNCHANGED <<queue, snap, netRest, net, input, wall, ghosts>>

\* The stop into the queue.
WebQueuesStop ==
  /\ web.at = "stop"
  /\ IF Room THEN /\ Enqueue(web.cmd) /\ owed' = stops
                  /\ web' = IF rows THEN [web EXCEPT !.at = "blank"] ELSE NoHandler
             ELSE web' = [web EXCEPT !.at = "refused"] /\ UNCHANGED <<queue, owed>>
  /\ UNCHANGED <<abort, snap, netRest, asks, stops, net, input, wall, parked, spoiled>>

\* Mutant: a refused stop leaves the flag as it is.
FlagStays ==
  /\ web.at = "refused"
  /\ web' = NoHandler /\ spoiled' = TRUE
  /\ UNCHANGED <<board, netRest, asks, stops, net, input, wall, owed, parked>>

\* A full queue: the flag is taken back, and a frame it cut short stays cut.
WebTakesFlagBack ==
  /\ web.at = "refused"
  /\ abort' = FALSE /\ web' = NoHandler /\ spoiled' = TRUE
  /\ UNCHANGED <<queue, snap, netRest, asks, stops, net, input, wall, owed, parked>>

\* wallShowBlank: the key is kept, so the same content is not shown again.
WebBlanksWall ==
  /\ web.at = "blank"
  /\ web' = NoHandler
  /\ wall' = [wall EXCEPT !.text = Blank, !.pending = FALSE]
  /\ UNCHANGED <<board, netRest, asks, stops, net, input, ghosts>>

\* A job on the own row, one at a time (module WallJobs), and none while the gate is
\* closed.  The text a home of all units or an update shows at its end is the one
\* published when the command is made, baked into it.
JobOps  == {"homeAll", "update"}
JobIsOn == disp.cmd.op \in JobOps \/ \E i \in DOMAIN queue : queue[i].op \in JobOps

WebAsksJob ==
  /\ web.at = "idle" /\ ~snap.gate /\ ~JobIsOn /\ Asks
  /\ \E op \in JobOps : web' = [at |-> "put", cmd |-> Cmd(op, snap.text)]
  /\ UNCHANGED <<board, netRest, stops, net, input, wall, ghosts>>

WebQueuesJob ==
  /\ web.at = "put"
  /\ IF Room THEN Enqueue(web.cmd) ELSE queue' = queue
  /\ web' = NoHandler
  /\ UNCHANGED <<abort, snap, netRest, asks, stops, net, input, wall, ghosts>>

-----------------------------------------------------------------------------
(* The wall's content (WallShow) *)

\* submit: the same content again changes nothing; a text and a time are not the same.
Submitted(kind, t) ==
  IF wall.key = {<<kind, t>>} THEN wall
  ELSE [key |-> {<<kind, t>>}, text |-> t, pending |-> wall.pending \/ wall.text # t]

-----------------------------------------------------------------------------
(* netTask: the drain of a post, under the web state lock *)

webRest == <<mode, rows, abort, snap, dispVars, web, mqtt, clock, link, stops>>

\* A message: retained in text mode, and a notification is called off (in clock mode
\* that too).  A transient text: shown for a time, whatever the mode.
NetDrainsMessage(t) ==
  /\ net.at = "idle" /\ Asks
  /\ notif' = [notif EXCEPT !.cancel = TRUE]
  /\ IF mode = "text" THEN input' = t /\ net' = [at |-> "message", text |-> t]
                      ELSE UNCHANGED <<input, net>>
  /\ UNCHANGED <<webRest, queue, wall, ghosts>>

NetDrainsNote(t) ==
  /\ net.at = "idle" /\ Asks
  /\ net' = [at |-> "note", text |-> t]
  /\ UNCHANGED <<webRest, queue, notif, input, wall, ghosts>>

\* The gate again: the post may have waited for it.  A message is retained all the
\* same, a note is dropped.
NetSeesGate ==
  /\ net.at \in {"message", "note"}
  /\ net' = IF snap.gate THEN Idle
            ELSE [net EXCEPT !.at = IF @ = "note" THEN "putNote" ELSE "put"]
  /\ UNCHANGED <<webRest, asks, queue, notif, input, wall, ghosts>>

\* To the wall, or to the display: a full queue drops it.
NetPuts ==
  /\ net.at \in {"put", "putNote"}
  /\ LET armed == IF net.at = "putNote" THEN [net EXCEPT !.at = "arm"] ELSE Idle IN
     IF rows THEN wall' = Submitted("text", net.text) /\ net' = armed /\ queue' = queue
     ELSE /\ wall' = wall
          /\ IF Room THEN Enqueue(Show(net.text)) /\ net' = armed
                     ELSE queue' = queue /\ net' = Idle
  /\ UNCHANGED <<webRest, asks, notif, input, ghosts>>

\* mqttStartNotification: the gate from here, and the request to mqttTask.
NetArmsNote ==
  /\ net.at = "arm"
  /\ notif' = [notif EXCEPT !.active = TRUE, !.start = TRUE] /\ net' = Idle
  /\ UNCHANGED <<webRest, asks, queue, input, wall, ghosts>>

-----------------------------------------------------------------------------
(* mqttTask: texts from the broker, and the notification's life *)

mqttRest == <<mode, rows, abort, snap, dispVars, web, net, clock, link, stops, input>>

\* A text from the broker is always one shown for a time.
MqttTakesText(t) ==
  /\ mqtt.at = "idle" /\ ~snap.gate /\ Asks
  /\ mqtt' = [at |-> "put", text |-> t]
  /\ UNCHANGED <<mqttRest, queue, notif, wall, ghosts>>

MqttPuts ==
  /\ mqtt.at = "put"
  /\ IF rows THEN wall' = Submitted("text", mqtt.text) /\ queue' = queue
     ELSE wall' = wall /\ IF Room THEN Enqueue(Show(mqtt.text)) ELSE queue' = queue
  /\ mqtt' = IF rows \/ Room THEN [mqtt EXCEPT !.at = "arm"] ELSE Idle
  /\ UNCHANGED <<mqttRest, asks, notif, ghosts>>

\* startNotificationLocal.
MqttArms ==
  /\ mqtt.at = "arm"
  /\ notif' = [notif EXCEPT !.active = TRUE, !.mine = TRUE] /\ mqtt' = Idle
  /\ UNCHANGED <<mqttRest, asks, queue, wall, ghosts>>

\* mqttServiceTick: a cancel, a start, the end of the time, each mirrored into the
\* gate.  The tick takes the cancel first; one that comes just after that is left for
\* the next tick, with the start behind it taken in this one.
MqttCancels ==
  /\ mqtt.at = "idle" /\ notif.cancel
  /\ notif' = [notif EXCEPT !.cancel = FALSE, !.mine = FALSE, !.active = FALSE]
  /\ UNCHANGED <<mqttRest, mqtt, asks, queue, wall, ghosts>>

MqttStarts ==
  /\ mqtt.at = "idle" /\ notif.start
  /\ notif' = [notif EXCEPT !.start = FALSE, !.mine = TRUE, !.active = TRUE]
  /\ UNCHANGED <<mqttRest, mqtt, asks, queue, wall, ghosts>>

MqttEndsNote ==
  /\ mqtt.at = "idle" /\ notif.mine
  /\ notif' = [notif EXCEPT !.mine = FALSE, !.active = FALSE]
  /\ UNCHANGED <<mqttRest, mqtt, asks, queue, wall, ghosts>>

-----------------------------------------------------------------------------
(* clockTask: once a second, the active mode's text *)

clockRest == <<mode, rows, abort, snap, dispVars, web, net, mqtt, notif, input, link, bounds>>

\* What a tick sees of the display, before it acts on it; while a unit update runs the
\* tick is left out.
Ticks == clock.at = "idle" /\ ~snap.gate

\* A notification holds the display: nothing but that it was seen.
ClockWaits ==
  /\ Ticks /\ notif.active
  /\ clock' = [clock EXCEPT !.was = TRUE]
  /\ UNCHANGED <<clockRest, queue, wall, ghosts>>

\* Mutant: the marker outlives the notification.
MarkerStays == IF clock.last = snap.text THEN Blank ELSE clock.last

\* The marker of the text in flight: dropped at a notification's end, or once the
\* display shows that text (clockTickObserve).
Marker == IF clock.was \/ clock.last = snap.text THEN Blank ELSE clock.last

\* decideClockTick.
Wants(marker) == input # Blank /\ ~snap.busy /\ input \notin {snap.text, marker}

\* The content is read under the lock a drain of the web server holds throughout.
\* A wall with rows is given it as it is; after a notification a blank one too.
ClockDecides ==
  /\ Ticks /\ ~notif.active /\ net.at = "idle"
  /\ LET marker == IF rows THEN Blank ELSE Marker
         put    == IF rows THEN input # Blank \/ (mode = "text" /\ clock.was)
                           ELSE Wants(marker)
     IN clock' = [at |-> IF put THEN "put" ELSE "idle",
                  text |-> IF put THEN input ELSE Blank, last |-> marker, was |-> FALSE]
  /\ UNCHANGED <<clockRest, queue, wall, ghosts>>

\* A full queue leaves the marker, and the next tick tries again.
ClockPuts ==
  /\ clock.at = "put"
  /\ clock' = [clock EXCEPT !.at = "idle", !.text = Blank,
                            !.last = IF ~rows /\ Room THEN clock.text ELSE @]
  /\ IF rows THEN wall' = Submitted(mode, clock.text) /\ queue' = queue
     ELSE wall' = wall /\ IF Room THEN Enqueue(Show(clock.text)) ELSE queue' = queue
  /\ UNCHANGED <<clockRest, ghosts>>

\* The next minute.  The clock is set by then; before that the mode shows nothing.
MinuteTurns ==
  /\ mode = "clock" /\ Asks
  /\ input' \in Texts \ {input}
  /\ UNCHANGED <<mode, rows, board, dispVars, web, net, mqtt, notif, clock, wall, link, stops,
                 ghosts>>

-----------------------------------------------------------------------------
(* The link task: the own row of a wall (wallShowServiceOwnRow) *)

linkRest == <<mode, rows, abort, snap, dispVars, web, net, mqtt, notif, clock, input, bounds,
              ghosts>>

\* wallOwnRowAction, of the piece as it is now: text that is not queued yet, or the row
\* shows something else than its piece.
LinkLooks ==
  /\ rows /\ link.at = "idle" /\ ~snap.gate
  /\ wall.pending \/ (wall.text \notin {Blank, snap.text} /\ ~notif.active /\ ~snap.busy)
  /\ link' = [at |-> "put", text |-> wall.text]
  /\ UNCHANGED <<linkRest, queue, wall>>

\* Into the queue; it is marked as queued only when no newer text was given meanwhile.
LinkPuts ==
  /\ link.at = "put" /\ link' = Idle
  /\ IF Room THEN /\ Enqueue(Show(link.text))
                  /\ wall' = IF wall.text # link.text THEN wall
                             ELSE [wall EXCEPT !.pending = FALSE]
             ELSE UNCHANGED <<queue, wall>>
  /\ UNCHANGED linkRest

-----------------------------------------------------------------------------
DisplayTask == \/ BootEnds \/ Takes \/ StopClearsAbort \/ FrameIsCut \/ FrameIsWhole
               \/ NothingToShow
UpdateJob   == \/ Drains \/ SendsStopBack \/ StopIsBack \/ RowIsQuiet \/ Flashes \/ UnitsAreDone
               \/ GateOpens
WebGoesOn   == WebQueuesStop \/ WebTakesFlagBack \/ WebBlanksWall \/ WebQueuesJob
NetGoesOn   == NetSeesGate \/ NetPuts \/ NetArmsNote
MqttTicks   == MqttPuts \/ MqttArms \/ MqttCancels \/ MqttStarts
ClockTicks  == ClockWaits \/ ClockDecides \/ ClockPuts
OwnRow      == LinkLooks \/ LinkPuts
Requests    == \/ WebStops \/ WebAsksJob \/ MinuteTurns
               \/ \E t \in Texts : NetDrainsMessage(t) \/ NetDrainsNote(t) \/ MqttTakesText(t)

Next == \/ DisplayTask \/ UpdateJob \/ WebGoesOn \/ NetGoesOn \/ MqttTicks \/ MqttEndsNote
        \/ ClockTicks \/ OwnRow \/ Requests

Spec == Init /\ [][Next]_vars

\* Every task is scheduled, and what it has begun it goes on with; a notification
\* ends, a minute passes.  Nobody has to ask for anything.  An update ends because
\* the units of a row are finitely many.
Fairness ==
  /\ WF_vars(DisplayTask) /\ WF_vars(UpdateJob) /\ WF_vars(UnitsAreDone)
  /\ WF_vars(WebGoesOn) /\ WF_vars(NetGoesOn) /\ WF_vars(MqttTicks) /\ WF_vars(MqttEndsNote)
  /\ WF_vars(ClockTicks) /\ WF_vars(OwnRow)

FairSpec == Spec /\ Fairness

-----------------------------------------------------------------------------
Commands == [op : {"none", "show", "stop", "boot"} \cup JobOps, text : AnyText]
Places   == {"boot", "idle", "drain", "sendBack", "quiet", "flash", "finish", "stop", "frame",
             "none"}

QueueType == queue \in Seq(Commands) /\ Len(queue) <= Depth
DispType  == disp \in [at : Places, cmd : Commands, text : AnyText, stop : BOOLEAN,
                       cancelled : BOOLEAN]
ShownType == /\ flaps \in AnyText \cup {Mixed}
             /\ snap \in [busy : BOOLEAN, text : AnyText, gate : BOOLEAN]
WebType   == web \in [at : {"idle", "stop", "refused", "blank", "put"}, cmd : Commands]
PostType  == /\ net \in [at : {"idle", "message", "note", "put", "putNote", "arm"}, text : AnyText]
             /\ mqtt \in [at : {"idle", "put", "arm"}, text : AnyText]
WallType  == /\ wall \in [key : SUBSET (Modes \X AnyText), text : AnyText, pending : BOOLEAN]
             /\ link \in [at : {"idle", "put"}, text : AnyText]
ClockType == /\ clock \in [at : {"idle", "put"}, text : AnyText, last : AnyText, was : BOOLEAN]
             /\ input \in AnyText
FlagType  == /\ mode \in Modes /\ {rows, abort, spoiled} \subseteq BOOLEAN
             /\ notif \in [active : BOOLEAN, mine : BOOLEAN, cancel : BOOLEAN, start : BOOLEAN]
CountType == asks \in 0..MaxAsks /\ stops \in 0..asks /\ owed \in 0..stops /\ parked \in 0..owed

\* The shared state and what each task keeps of it have their types; the queue is
\* never longer than DISPLAY_QUEUE_DEPTH.
TypeOK == /\ QueueType /\ DispType /\ ShownType /\ WebType /\ PostType /\ WallType
          /\ ClockType /\ FlagType /\ CountType

\* The abort flag is never left set with nothing to clear it: that would cut every
\* frame from then on (webStopWall's order of flag and queue, execStop's clear).
AbortHasItsStop == abort => web.at \in {"stop", "refused"} \/ StopToCome

\* A stop the queue took is in the queue, or kept over the drain of a unit update,
\* or being carried out: no drain and no later stop loses it, and the send back
\* (runReflashJob, whose xQueueSend may fail) finds room for it.
StopIsKept == owed > parked => StopToCome

\* A stop the queue took is carried out, whatever job, drain or frame is running: its
\* parking begins, or that of a later one.
StopsTakeEffect == (owed > parked) ~> (owed = parked)

\* With no command running the drums show the text the board says it shows, unless
\* a stop is on its way, a stop was refused after it cut a frame short, or a home of
\* all units showed a text that was not the current one any more.
SaysWhatItShows ==
  disp.at = "idle" => \/ flaps = disp.text
                      \/ web.at \in {"stop", "refused"} \/ StopToCome
                      \/ spoiled

\* Once nothing more is asked for, the own row of a wall shows the content the wall was
\* given last, and that is the mode's text, or blank since a stop (WallShow, the link
\* task's look after the own row).
WallSettles ==
  <>[](/\ input = Blank \/ wall.text \in {input, Blank}
       /\ wall.text = Blank \/ snap.text = wall.text)

\* On a single board a notification the ticker saw gives way to the retained text, unless
\* another message or a unit update comes in between: the ticker forgets what it had
\* queued before the notification (clockTickObserve).
NoteGivesWay ==
  (mode = "text" /\ clock.was /\ input # Blank)
    ~> (snap.text = input \/ snap.gate \/ net.at = "message")

\* The text comes back from a notification, on a wall from everything.
TextComesBack == (rows => WallSettles) /\ (~rows => NoteGivesWay)

\* What ClockTask.cpp says of a tick that is left out because of a unit update:
\* "lastQueued stays untouched so the first post-job tick re-sends fresh content".  After
\* an update a single board in text mode shows the retained text again, unless there was
\* a stop.
UpdateGivesWay ==
  (~rows /\ mode = "text" /\ snap.gate /\ stops = 0)
    ~> (stops > 0 \/ input \in {Blank, snap.text})

=============================================================================

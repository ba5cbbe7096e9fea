# Formal models of the split-flap firmware (v2)

TLA+ modules of the parts of `src/firmware/v2` in which several boards, several tasks
of one board, or a power failure can do things in an order nobody wrote a test for;
TLC runs that check them on small instances; and TLAPS proofs of the results that
matter most, for every size of the wall.

    tlc -config WallLinkJobs.cfg MCWallLink      one run (its MC module is in PROJECT.json)
    tlapm WallLinkJobProofs.tla                  one proof module

`PROJECT.json` says which lines of the source every definition stands for (`map`), and
lists the runs, the mutants that show that each property can fail, the findings, the
hazards of the code and the theorems.

## The system

A wall of split-flap units is driven by one **master** (ESP32-S3), which has a row of
units of its own, and up to eight **row boards** (ESP-01) with a row each.  A board
talks to its **units** (Arduino Nanos) over I2C; a unit can be reflashed over the same
wires by its **bootloader** (twiboot), and its boot section can be rewritten by its
application.  Row boards dial the master over TCP (the **wall link**).

| Part | State | Operations | What makes it hard | What makes it correct |
|---|---|---|---|---|
| Wall link, master end (`WallLinkCore.h`, `WallLinkPolicy.h`, `WallLink.cpp`) | connections, one record per row: contact, text, job, settings said | accept, bytes, tick, close, reset; set text, setting, log; start job | connections break, are replaced, and come from strangers; sockets fill up; jobs end late or never; the master restarts | the two tables of connections agree; a job runs at most once, and never after it was given back; what is reported as shown is shown; settings arrive |
| Wall link, row end (`FollowerLink.cpp`, `FollowerUnitJobs.cpp`) | socket, welcome, the running job and its result | dial, handle a message, run and report a job, report status | the job outlives the connection; the row restarts | a job's end is reported, once |
| Job table (`WallOps.h`, `WallState.cpp`, `WallJobs.cpp`, `WebWall.cpp`, `WallPair.cpp`) | sixteen jobs, the rows table with its generation, one slot per row for a job, restarts asked for, the watch on the own job, one request | begin, stage, take, finish, fail a row's jobs, change the rows table | three tasks take one mutex again and again and use what they read before | no job is lost or goes to another board; an end stays |
| Row pairing and fallback (`ClusterMemberPhase.h`, `FollowerCluster.cpp`) | the phase and when the master was last heard | boot, join, contact, render, leave, tick | long jobs block the loop; timeouts against late messages | a paired row with a live master shows the master's text |
| Wall updates (`WallUpdatePolicy.h`, `FollowerImageStore.cpp`, `FollowerUpdate.cpp`) | the offer out, attempts and hold-offs per row | offer, answer, Hello, tick | a row restarts in the middle; rescue images; one row must not starve the others | every row that can be updated is; a row that cannot is given up |
| Boot section update (`BootUpdateAvr.h`, `UnitBootUpdate.ino`, `BootSectionClassify.h`, `BootUpdateOp.h`, `BootUpdatePlan.h`) | the pages of the boot section, the pending request, the published report; the op's step and what it read | two stages of page erases and writes, resume at boot; ask, poll, judge | power failure at any step, writes that come out wrong, reports that are old or lost | the unit still starts, except in two named windows; what is reported as done is done; an interrupted update can be finished |
| Unit reflash (`ReflashPlan.h`, `TwibootFlash.h`, `FollowerBusFlash.cpp`, `UnitBootloader/main.c`) | what the row takes each unit for, misses, rescues tried, the run with its targets, attempts and batch; in the unit the pages of its program, its bootloader's window, pin and crash record | scan, poll, heartbeat, rescue, flash a unit, settle a batch; order, page, read, exit | transactions that are lost, garbled or carried out without an answer; units that crash, restart and lose power; a restart of the row | a first page that belongs to an image has the whole image behind it; a unit counted as flashed is; every unit ends in a good image |
| Unit bus and maintenance (`UnitBusCore.h`, `MaintenancePolicy.h`, `UnitBus.cpp`) | bus schedule, unit health | scan, move, read | a unit that holds the bus | a dead unit does not stop the others |
| Records in flash (`EventRecordPolicy.h`, `FlashLogPolicy.h`, `UnitOdometer.h`) | staged entries, pages, sequence numbers | stage, write, rotate, read a page | a write torn by a power failure | what was stored is read back, in order, and nothing else |
| Restart of all units (`RestartUnits.cpp`, `RestartUnitsPlan.h`) | campaign: next unit, its job | start, tick, cancel | its jobs are jobs like any other's | every unit is restarted or counted as failed |
| Display task and its producers (`DisplayTask.cpp`, `DisplayIpc.h`, `ClockTask.cpp`, `WallShow.cpp`, `WebEndpoints.cpp`, `MqttService.cpp`) | the command queue, the abort flag, the published snapshot with the gate of a unit update; the retained text, the notification, the ticker's marker, the wall's content | take a command, show a frame, park, update the units; stop, post, note, tick, look after the own row | six tasks on two cores, and nothing that covers flag, queue, snapshot and gate together | a stop is carried out and leaves no flag behind; the board shows what it says; the mode's text comes back |
| Firmware of the master (`OtaService.cpp`, `BootGuard.cpp`, `SlotRecord.h`, `FactorySlot.cpp`, `WebFirmware.cpp`, `ReleaseUpdate.cpp`, `Rescue/`) | two OTA slots, the factory slot, otadata, the records of the slots, the crash count, uploads | boot, guard, confirm, record; upload, install a rescue image, update from a release; leave the rescue image | power losses and crashes between any two of these; three writers; images that crash before or after they were confirmed | the board always starts something, never an image that is half there, and does not crash for ever |
| Network, settings | see `PROJECT.json` | | | |

How they meet: the web server (AsyncTCP task), the worker, the link task, the network
and the MQTT task of the master run on one core and share the wall state under a
mutex; the display task runs on the other core and is given commands through a queue.
A row board is a single loop.  The link task and a row board talk through one TCP
connection, in messages of `wall_link.proto`.

## The modules

### WallLink: both ends of the wall link and the network between them

| State | Code |
|---|---|
| `conn`, `busy`, `knownBoot`, `text`, `job`, `told`, `logTold`, `logWanted` | `WallLinkRow` (`WallLinkCore.h:64-81`), one element per row |
| `nobodies`, `link[l].of`, `link[l].m` | `WallLinkConn.row`, `.open` |
| `wish` | `quiet`, `config`, `host` of the core |
| `nextId`, `result` | `WallOps.nextId` and how each job of the table ended |
| `boot`, `sock`, `welcomed`, `op`, `busySent`, `lastSeq`, `known`, `logOn`, `shows` | the row's `bootId`, `sock`, `welcomed`, `linkOp` with its result slot, `busySent`, the phase machine's last render, the settings, `logOn`, the text |
| `link` | a TCP connection: who holds which end, what is under way in each direction, whether the network has cut it |
| `ran`, `done`, `texts`, `changes`, `faults` | history and bounds |

One action per handler: `Accept`, `ReadHello`, `ReadStatus`, `ReadShown`,
`ReadOpState`, `SeesClosed`, `HelloTimeout`, `DropSilent`, and what `tick()` writes
(`TellSetting`, `TellLog`, `SendShow`, `SendOp`, `Ping`) with the guards that give its
order (settings before log before text before job).  `JobOverdue` is the time limit of
a job.  On the row: `Dial`, `RowWelcomed`, `RowTakesText`, `RowTakesSetting`,
`RowTakesLogCtl`, `RowTakesOp`, `UnitJobStarts`, `UnitJobEnds`, `RowReportsEnd`,
`RowIsHeardStatus`, `RowSeesClosed`, `RowGivesUp`, `RowRestarts`.  The network is
`Break`, which cuts a connection after any first part of what is under way, and
strangers that connect and say nothing.

What is abstracted:

* Time.  A timeout is an action that may happen whenever its other conditions hold.
  The deadlines of the code are therefore not checked against each other here.
* The socket of a row takes a message or not as a whole (`Room` messages a direction);
  `WallLink.cpp` keeps the tail of a message that went out in part, which comes to
  the same.  A write of the row that fails is one that succeeds followed by
  `RowGivesUp`, whose effects are those of `drop()`.
* `tellSettings` within `hello()` is the following `TellSetting` steps.
* A row may refuse any job (rescue mode, its plan, no memory).  Two results of
  `unitOpStage` and `opTick`, `Busy` with no job of the link and `Expired`, cannot be
  reached through the link and are left out, as is a second Hello on a connection,
  which no row says.
* `NoOlderHello`: a row that restarts takes seconds to dial again, a pass of the link
  task milliseconds; so a Hello of an older boot is read before one of a newer boot.
* A changed rows table (`RowsChanged`) is the same table written anew: the rows of the
  module are boards, not numbers.  What a change of numbers does is WallJobs.
* Images (`Update`, `UpdateState`), `Restart`, `Release`, events, log lines and unit
  documents are not in the module.

`UnitJob` is the abstract specification of one job as the operator sees it, and
`KeepsPromise` the refinement: master, network and row together implement it.

### WallJobs: the job table and the tasks that share it

A step of the module is what a task does from taking the mutex of the wall state once
to taking it again.  `web`, `worker` and `link` are the three tasks: each record has
the place in the handler (`at`) and the locals that are carried over from one critical
section to the next: the table and generation that `handleAction` read, the job begun,
the request being run, the generation and table of the pass, the next row number.
`core` is what the link's core knows of each row number; what a row does with a job is
WallLink's, here it answers at some time or not at all.

Row numbers mean different boards over time, which is the point: `meant` and `written`
remember the board a job was asked for and was written to.  A release of a board that
is no longer in the table fails (`NextTables`), as `runRelease` does.

Left out: the checks of a request that read nothing another task changes, firmware
updates of a row (which refuse a job), rescue mode, the Release handshake, update
retries, and the campaign that restarts every unit, a second producer of jobs.

### BootSection: a unit that replaces its own bootloader

| State | Code |
|---|---|
| `flash` | the eight pages from 0x7C00, each as the image it is a page of |
| `lock` | is the section locked, and can the application read the lock bits (some fielded units cannot) |
| `unit` | where the unit's program is: booting, in `loop()`, in a page write of stage 1, of the trampoline, of a middle page, of page 0, of the trampoline put back, or lost; between erase and write; the attempts made; resumed at boot or asked for |
| `drum` | `homed` and `currentlyrotating` |
| `pending` | `pendingBootUpdate`, `pendingBootUpdateStage` |
| `report` | what `refreshBootInfoReply` published: the state and `lastBootUpdateResult` |
| `op` | `bootUpdateRun`: its step, `info` and `resultBeforeSend` |
| `faults`, `bad` | bounds |

A page write is two steps, `Erase` and the write that belongs to the place
(`Stage1Writes`, `JumpWrites`, `MiddleWrites`, `Page0Writes`, `JumpRestores`), each with
the look at what came out and what the code does about it.  `PowerLoss` comes before,
between or during them; a page that is torn, or badly written, is `junk`.  A reset
starts page 0 (`Startable`): a bootloader that is all of one image, or the trampoline
and behind it the application, which goes on (`Start`) if it has the page-writing
routine.  Anything else is the end of the unit (`dead`).  Any other reset is a power
loss while nothing is written.

What is abstracted:

* A checksum is taken for the identity of an image, as the code takes it, and the three
  earlier images are one, `prev`; their last page is the routine's.
* Page contents are not modelled beyond whose they are.  `jump` is the trampoline page;
  the code checks its first two words only.
* The master's waits end at any time, with or without what they waited for; a read or a
  request can fail, and a request that failed may have been taken.
* A unit whose drum moves takes a request after the move, or refuses it as busy when the
  move is only held back (overheating, low supply).  The module allows both for both.
* The sweep over the units of a row calls `bootUpdateRun` for one after the other and
  is not in the module.

### FactorySlot and MasterBoot: which firmware the master starts

| State | Code |
|---|---|
| `slots`, `factory` | what the two OTA slots and the factory slot hold: an image, nothing that starts, or a mixture |
| `ota` | otadata: the entry in force and the one before it, each new, pending, valid or absent |
| `rec`, `recF` | `slotRec0`, `slotRec1` and the record of the factory slot in NVS |
| `crashes` | the boot guard's count in RTC memory |
| `cpu` | what runs and how far it is (guard, start, confirmed, up, rescue), or why there was a reset |
| `upload`, `install`, `web`, `rel` | the session that writes an OTA slot; the writer of the factory slot and its two clients, an upload and an update from a release, each with an offset of its own |
| `reboot`, `due`, `facts`, `pinned` | `pendingReboot`, `pendingRescueRecord`, the cached verdict on the factory slot, and what the rescue image found of the records at its start |
| `last`, `erasedBy` | history: the image that was up last, and who erased otadata |

FactorySlot is the one writer of the rescue image: the header sector is held back until
the rest is checked, a stall is taken over, a client that comes back meets another
stream; after an error (`install.error`, `lastError`), which another client's refused
start leaves too, it takes nothing more.  MasterBoot extends it with the OTA slots, the start-up (`Bootloader`, `Guard`,
`GuardRestarts`, `Confirms`, `EnsuresRecord`), crashes, updates, the order to start the
rescue image, and the rescue image with its way out.  A reset for any reason can come
between any two of these.

The bootloader is not in the repository; it is the one of ESP-IDF with rollback, which
the code relies on: a new entry is started once as pending; a pending one that is
started again is aborted; the newest entry that is left is taken; without one, or when
it does not verify, the factory slot and the other slots follow.  It is marked external
where no code of the repository stands for it.

Abstracted: a slot's image is one value, a write of an OTA slot is wiped, then whole.
The row image of an update from a release, its schedule, and what the rescue image does
about Wi-Fi are left out.  A count above the guard's limit makes no difference and is
not kept.

### Twiboot and Reflash: the programs of the units of a row

| State | Code |
|---|---|
| `unit[u]` | the pages of the program, each as the image it is of, `hold`, `blank` or `junk`; where the unit is (window, pinned, waiting, in its program, about to leave it); the crash record; the page write that a bare address repeats |
| `image` | is the new image good, mute (it runs and does not answer) or does it crash |
| `fact`, `misses`, `tried` | `unitFacts`, the heartbeats missed, `rescueStates[i].attempted` |
| `todo`, `at`, `work` | what `setup()` or the job of the loop has still to do, the step, and the locals of `reflashRunTargets` or of the scan |
| `faults`, `cycles`, `restarts` | bounds |
| `repeated`, `before` | history: units that a repeated page write hit; units that ran a program when the run began |

Twiboot is what one transaction, a reset, a window or a crash does to a unit
(`UnitBootloader/main.c`); Reflash is the row board: scans, polls, heartbeats, rescues
and the run over its targets, with the order to enter, the wait, the chip's identity, the
hold page, the pages from the second on and the first one last, the checks, the exit,
the wait for the program, the halt after failures in a row, and the settling of a batch.
A transaction is carried out and answered, lost, carried out with its answer lost, or
(a page) garbled.

Abstracted:

* A page write is one step: the bootloader's erase and write are not cut apart.
* A lost transaction stands for a burst of losses that outlasts the retries of the bus;
  the three heartbeats in a row of the code are `MissLimit`.
* The check of the boot sections at a run's end is module BootSection's, letters written
  to a unit in its bootloader's window are left out, and the time a scan keeps clear of
  that window is not modelled, which allows more than the code does.
* A unit with the old bootloader in its hold loop counts as in its window; it leaves its
  program late only together with a question that is lost.
* The heartbeat comes round to rows with nothing detected too, where it does nothing.
* The same plan on the master's own row (`DisplayTask.cpp`) is not in the module; how it
  meets the display's queue is Display's.

### Display: the display task of the master and the tasks that give it work

| State | Code |
|---|---|
| `queue`, `abort`, `snap` | `displayQueue`, `abortRequested`, the published snapshot: busy, the current text, and the gate (`reflashInProgress`) |
| `disp`, `flaps` | the display task: its place, its command, its own `currentText`, the stop it drained, cancelled or not; what the drums show |
| `web`, `net`, `mqtt`, `clock`, `link` | where each of the five producers is and what it read before: a stop or a job of the web server, a post in netTask, a text in mqttTask, the ticker with `lastQueued` and `notifWasActive`, the link task's look at the own row |
| `input`, `notif`, `wall` | the retained text or the minute; the notification's gate, mqttTask's own state and what is staged; WallShow's content key, own piece and `ownPending` |
| `asks`, `stops` | bounds |
| `owed`, `parked`, `spoiled` | history: the last stop that was taken and the last carried out; the drums were left with other than the text |

A step is what a task does between two accesses to what it shares.  `Takes`,
`StopClearsAbort`, `FrameIsCut` or `FrameIsWhole`, and `Done` are a command; `Drains`,
`SendsStopBack`, `StopIsBack`, `RowIsQuiet`, `Flashes`, `UnitsAreDone` and `GateOpens`
are `runReflashJob`.  `WebStops`, `WebQueuesStop` and `WebTakesFlagBack` are
`webStopWall`.

Abstracted:

* A tick of the ticker, and a look of the link task, read everything at one instant;
  only what they put comes later.
* Priorities and holds of texts, quiet, mode switches, a changed rows table, a clock
  that is not set and the refusals when a post arrives are left out.  So are unit jobs
  that leave the text alone and the heartbeat's repairs.
* The wall's own piece is the whole text; the rows' pieces are WallLink's.
* What an update does on the bus is Reflash's: here it leaves drums that show something
  else, and it ends.

The stop that goes back after a drain is lost when the queue is full by then
(`StopIsBack`): the code does not look at the result of that `xQueueSend`.  With sixteen
places it cannot be, see "What is proved".

## The runs

| Run | Question | Instance |
|---|---|---|
| WallLinkJobs | do two jobs keep what UnitJob promises? is what counts as said or busy what the row has and is? | 1 row, 2 connections, 2 jobs, 1 setting, 1 change, 2 faults |
| WallLinkRows | do the tables of rows and connections agree, and is no slot lost? | 2 rows, a stranger, 2 addresses, 2 slots, 3 connections, 2 faults, 2 lives of the master |
| WallLinkLive | does every row get back in, with its text, and does every job end? is what counts as shown what the row took? | 1 row, 2 addresses, 1 text, 1 job, 1 fault, fair |
| WallJobsTable | do jobs and restarts reach their board while numbers shift? is a job forgotten? | 2 boards, 2 jobs, 2 places, 1 change |
| WallJobsLive | does every job end, with a table that is full and the watch on the own job? does an end stay? | 1 board and one to pair, 2 jobs, 1 place, 1 change, fair |
| BootSection | does the unit always start again? is the routine there when it is called? is what is reported as done done? does a unit that is asked often enough end with the new bootloader? | 4 pages, 2 attempts, 3 losses, 3 bad writes, fair |
| MasterBoot | is there always something to start, never half an image? does the rescue image lead back to the newest image? does the board get out of a loop of crashes? | 3 images (sound, bad, flaky), 2 rescue images (one unsound), crash limit 2, 3 updates, 1 fault, fair |
| Reflash | what may losses, garbled pages, restarts and power cycles leave in a unit? does every unit end in a good image? | 2 units (one with the old bootloader), 2 pages, 2 attempts, 1 mishap, an image that is good, mute or crashes, fair |
| Display | does a stop take effect, and leave nothing behind? does the board show what it says? does the text come back from a notification, and on a wall from everything? | 2 texts, a queue of 3, any 2 requests, both modes, with and without row boards, fair |
| JobOutlivesRestart, NeverBootsCorrupted, UpdateGivesWay | the findings below | smallest instance |

The bounds: a fault is a cut, a restart of a row, a timeout, a row that gives up, a
stranger or a new table; one is enough to break every mutant of WallLinkLive; the jobs
and the setting, which must survive one in the middle of another, get two (2,362,794
states).  One text is sent anew after a break, with a number of its own, and one setting
changes while its old value, the log or a job is on the way; what holds of several
texts and settings is proved (`ShownTextIsTaken`, `SettingsArriveLast`).  Two connections
are what one row can have at a time (the one it lost and the one it dials); the third in
WallLinkRows is what makes somebody go.  `Room` is 2, which is enough for a reply and a report to be under way
together and for a socket to be full.  In WallJobs one place and two jobs
make a job lose its place; one change of the table shifts the numbers.

BootSection has four pages instead of eight: page 0, the routine's page, and two in the
middle, so that one can be written, the next one missing and a write between them torn.
Two attempts instead of three are the last one and one before it.  Three bad writes
exceed the attempts, so that page 0 can come out wrong for good.

MasterBoot has a crash limit of two instead of three, one crash that counts and one that
trips.  Three updates are the two slots or the rescue image and one of them again; the
images that crash by themselves crash any number of times, and one more fault hits a
sound image (1,182,768 states).

Reflash has two units, one of each generation, so that one waits while the other is
flashed and a run can halt with a unit untouched; two pages, the first and the one that
is written before it; two attempts and a failure limit of one, which the images that are
mute or crash reach; and one loss, garbled page, power cycle or restart, at any step.
The violation run has two.  With a threshold of two a first crash is not enough to hold a
unit and a second one is; the miss limit, three in the code, is one, so that a single
missed heartbeat loses a unit (1,284,189 states).

Display has a queue of three.  A shorter one loses a stop: after a drain two producers
fill two places before the stop is back.  Two requests make every pair of stop, home, update, message, note, broker text and
minute, on top of the ticker, the notification and the link task, which act by
themselves.  The texts are interchangeable, so a clock starts with the same one of the two
(484,136 states).

The proofs are for any of these numbers.

Symmetry is used for connection names only, in runs without liveness.

Fairness: the link task of the master and the loop of a row go round (watchdogs restart a
board whose loop hangs), so every handler whose input stays is taken in the end: weak
fairness per handler.  A job on the units ends (each bus operation has a timeout).
Requests, faults and strangers are never forced.  In WallJobs strong fairness stands
for time limits: a limit passes, and every pass judges it, so a job that is overdue
again and again is given up; and for the worker's loop, which looks at both its slots
in every round.

In BootSection the unit's program goes on, its drum stops and homes after a start
(`Unit.ino:973-994`), and the op goes on and is asked for again.  That the bus and the
drum work from some time on (`<>[][~Mishap]_vars`) is an assumption about the hardware,
without which no update of any design ends; power losses, moves of the unit's own and
bad writes are finitely many by the bounds.  The outcomes `EndsNew` leaves open are a
locked section, and page 0 lost in one of its windows or on every attempt.

In MasterBoot the board goes through its start-up, crashes if its image does, and reboots
when it said so: weak fairness of each of these, for the board is either running or
reset.  Updates and faults are never forced.

In Reflash the row's run and scan go on (weak fairness; its loop has a watchdog), and so
does each unit: a window ends, a crashing program crashes.  The heartbeat comes to every
unit again and again, and an operator asks for scans and runs again and again (strong
fairness: each of them needs a moment in which the loop is idle).  `EndsNew` is for an
image that is good, and leaves open a unit whose page was written once more by a bare
address.

In Display every task is scheduled and goes on with what it began, a notification ends,
and so does an update, for a row has finitely many units (weak fairness).  No request is
forced.

## What the runs found

Three runs expect a violation, each of a sentence in the code:

1. **A job that outlives the row's restart (`JobOutlivesRestart`).**  The Hello of a row
   that restarted fails its jobs, but not the one that is still on its way from the web
   server: it is handed to the row in the same pass and runs, reported as failed
   (against `WallLinkCore.h:374`).
2. **A mixture that starts (`NeverBootsCorrupted`).**  The first page comes out garbled,
   and the row restarts before it looks; the bootloader starts the program after its pin
   (against `TwibootFlash.h:382`).
3. **A text that does not come back (`UpdateGivesWay`).**  The drain of a unit update
   drops the text the ticker queued; the ticker still remembers it and, on a single board
   in text mode, never queues it again, so the board goes on showing what the job had
   baked in (against `ClockTask.cpp:37-39`, "lastQueued stays untouched so the first
   post-job tick re-sends fresh content", and `WebEndpoints.cpp:386-388`, "Dropping is
   self-healing").

Other things the modules show, and no run of their own stands for.  Where a sentence of
the code says otherwise it is quoted; the properties leave these cases out, as said
there, by a bound or a named excuse:

* Job ids start at 1 in every life of the master (`WallOps.h:35`), and a row keeps its
  job over the master's restart.  The end of the old job 1 is taken for that of the new
  job 1 (`wallJobAnswer` compares the id only); `AnswersAreTrue` is checked within a life.
* `opTick` forgets a job once the socket took its end.  If the connection breaks then,
  the end is never said again; the operator waits for the time limit.
* An arrangement carries the whole table as the web server read it and is stored without
  a look at its generation (`WebWall.cpp:522`): a board paired in between is dropped.
* The rescue image looks at the records once, at its start: "Slot contents can't change
  under rescue without a reboot — its own upload path reboots — so once is enough"
  (`RescueWeb.cpp:114-116`).  An upload of its own that fails does not reboot, and has
  taken away the image they are of; `ExitIsNewest` sets such pins aside.  After an install that failed
  the master's cached verdict on the factory slot is that of before.  The guard counts
  crashes without the slot they were in, and may erase otadata for an image that did not
  cause them.  A rescue image may be asked for, and rewritten in the 750 ms before the
  restart.
* An upload that stalled, and whose writer a release took over and has done with, meets
  no error at its own end, and records its rev for the image of the release
  (`WebFirmware.cpp:401-402`: "an install that ran and latched no error is complete").  A
  release that is refused because an upload is under way fails that upload
  (`beginInstall` says so in `lastError`, though "a second upload must not reclaim the
  in-flight one's cursor/digest", `FactorySlot.cpp:90-91`).
* `HeaderHeldBack` speaks of an install that is under way.  What was committed by a
  release, which checks the stream itself, may be a mixture with the pieces of an upload.
* An image that crashes and answers its address in between is not stopped by the halt
  after failures in a row (`ReflashPlan.h:31`: "A BAD IMAGE fails on every unit it
  touches. Two in a row is already conclusive, and the run stops").
* A page burst that is carried out, its answer lost, and then a call by the bare address
  writes the page once more, to the next page (`repeated` in Reflash).
* A home of all units shows the text of the moment it was asked for.  A text shown in
  the meantime stays `currentText` while the drums show the older one, which nothing
  puts right: `DisplayIpc.h:131` has the two equal "by construction" (`spoiled` in
  Display).
* With two stops the second one may find the abort flag cleared by the first: the
  comment at `WebEndpoints.cpp:594` says it always finds it set.  A stop that is refused
  has cut a frame short by then, and the frame stays cut.
* The marker of `UpdateGivesWay` also stays when a stop or another text replaces the
  ticker's within a second: `DisplayIpc.h:123-124` says a stop "makes the clock/event loop
  re-send fresh content instead of dedup-suppressing forever".  The property leaves
  stops out; `TextComesBack` asks of a single board only that a notification gives way.
* The link task may put an old text behind a stop: the own row shows it on a wall that
  was stopped, and the same text posted again after a stop is reported as shown and
  changes nothing.  A note that ends during a unit update leaves its text on a wall
  that has no other.

What was checked and is right, against first doubts: a job staged in the middle of the
link's pass cannot go to a board of another table (`takeJobs` checks the generation and
takes afterwards, without the mutex in between), because nothing can be staged for the
new table before the link itself has published a row of it as connected.

## What is proved

### The wall link

`WallLinkProofs`, `WallLinkJobProofs` and `WallLinkSaysProofs`, for any number of rows,
strangers, connections, jobs, texts, settings, faults and (where nothing else is said)
lives of the master.  The assumptions are those of `WallLink.tla`: the bounds are
natural numbers and the special names differ from rows, links and texts.

* Types and tables: `TypesHold` (`TypeOK`), `TablesStayInStep` (`TablesAgree`),
  `EndsStayInStep`.
* Jobs: `JobsKept`, `NotHandedNeverRuns` (`NotHandedNeverRan`), `RunsOnce`
  (`NoJobRunsTwice`), `EndsAreOfTheirId`, `AnswersOfALife` (`AnswersAreTrue`),
  `RestartEndsTheJob`, `PromiseIsKept` (the refinement `KeepsPromise`).
* What is said: `ShownTextIsTaken` (`ShownIsTrue`), `SettingsArriveLast`
  (`SettingsReach`), `EndsAgreeOnBusy` (`BusyAgrees`).

**Tables.**  `TablesAgree` is about the master only, and is not inductive: whether a Hello
may replace a connection depends on who sent it, and when.  `TableInv` adds
`EndsAgree`: a socket of a row is the connection it dialled, a Hello is the first message
on a connection and names its sender, and no Hello carries a boot older than the one
the master knows.  The last of these is where `NoOlderHello` is used.

**Jobs.**  A job is in one place.  It is with the master (`waiting`), then one Op
message on one connection, then with one row (`staged`), then in `ran`.  None of the
steps leaves a copy behind: `SendOp` moves it out of `waiting` in the step that writes
it, `RowTakesOp` reads the message it stages, `UnitJobStarts` leaves `staged`.  A job
that is reported as `notHandedOver` is given up while it is `waiting`, when it is
nowhere else; a refused one was read off the wire by the row that refused it.
`NotHandedNeverRan` and `NoJobRunsTwice` alone are not inductive: they say nothing of
the wire.  `JobsAreKept` adds that (`NowhereYet`, `InOnePlace`) and that ids are fresh
in a life of the master and old messages cannot reach a new one (`IdsAreFresh`), which
is why an answer "refused" is about the job it names.

An end that is reported travels the other way, and `EndsAreSaid` follows it: a report on
the wire, and the result the master makes of it, is about a job that was done under that
id, in this life of the master or an earlier one.  The wire carries the id alone and
every life counts from 1, so with several lives this is all that holds (see
"What the runs found"); `AnswersAreTrue` and `KeepsPromise`, which speak of the job and not
of its id, are proved with `MasterLives = 1`, as the runs check them.

`PromiseIsKept` goes through the actions and names for each the step of `UnitJob` it is, or
shows that it is none.  The step that needs an argument of its own is the start of a job
on the row: its result must still allow that.  It is not given up (`JobsAreKept`), not
ended (`EndsAreSaid`), and not failed by a restart: `OpenIsHere` says that an open job is
on the row's own connection, or with the row, in the very boot the master knows, so that
a Hello with another boot finds nothing left of it (`RestartedIsGone`).  The job of
`JobOutlivesRestart` is one that was still `waiting`.

**What is said.**  `ShownIsTrue`, `SettingsReach` and `BusyAgrees` are about moments in
which nothing is under way, and say nothing of all others.  `SaysInv` speaks of the queue
instead: of the messages of a kind on their way the last is what was said last, and
with none on its way the listener has it (`Upto`).  Every message that joins or leaves
the queue keeps this, and a connection that is lost takes the agreement with it: on a new
one the row says its state and the master every setting again.  That nothing else is
said before is `SilentYet` and `WelcomeFirst`: before the master has a row
for a connection only a Hello is on it, and before its Welcome a row says nothing else.
For texts (`TextHeard`) sequence numbers take the place of the order: nothing under way
shows a text past the latest one, nothing tells of one the row has not taken, and a row
that has taken the number has its body.

### The job table

`WallJobsProofs`, for any number of boards, jobs, places in the table, requests and
changes of the rows table, from the assumptions of `WallJobs.tla`:

* `TasksTyped` (`TypeOK`), `JobsReachTheirBoard` (`ReachTheirBoard`), `JobsAreCarried`
  (`NoJobIsForgotten`), `JobEndsStay` (`EndsStay`).

`TasksInv` says for each task and each place in its handler how what it holds relates to
what it will find.  Two parts carry the argument.  `WebKnowsItsRow`,
`SlotsAreOfTable` and `LinkIsOfItsTable`: a row number means the board of the table it
was read with, which is the table in force as long as the generation is the same.
`LatePassFindsNothing`: `takeJobs` and the restarts look at the generation once and go on
without the mutex, so the table may be replaced under a pass; then there is
nothing to take, for `wallStateSetRows` has cleared the slots, no row of the
new table counts as connected before the link's next pass, and the web server stages
nothing for a row that does not.  `NoJobIsForgotten` needs the places as well
(`PlacesAreKept`, `HeldAreBegun`, `NextAreUnborn`): a running job must not be the one
that `begin` puts out of the table.

### The other modules

`BootSectionProofs`, for a boot section of three pages or more, and any number of
attempts, losses and bad writes:

* `StagesHold`: `Spec => [](TypeOK /\ StageInv)`, and from it `TypesHold`.
* `StartsHold`: `Spec => []AlwaysStarts`, `RoutineHolds`: `Spec => []RoutineIsThere`.
* `OkHolds`: `Spec => []OkMeansNew`.

`AlwaysStarts` says what a reset would find and is not inductive: whether the next write
keeps it depends on the pages behind page 0.  `StageInv` says for every place of the
unit's program what those hold: the trampoline in page 0 while the middle pages change,
all of the middle pages new before page 0 is written, the routine in the last page
throughout, and the fielded core untouched in stage 1.  In `loop()` it also says that
the published state is that of the pages, which makes `OkMeansNew` follow: the op ends
well only on a report of the new image from a unit in `loop()`, and a section that is
new is written by no step (`NewStays`).  The attempts that remain are tied to the bad
writes so far, so page 0 is given up as junk only after that many.  The assumption is
`SizesAreNaturals`.

`MasterBootProofs`, for any images, any number of updates and faults, and any limit of
the guard:

* `TypesHold`, `HeaderHolds` (`HeaderHeldBack`), `BoardStarts` (`SomethingStarts`),
  `GuardHolds` (`GuardHasAWayOut`), `TrialsEnd` (`UpIsConfirmed`), `ExitHolds`
  (`ExitIsNewest`).

There are two invariants.  `Inv` is `TypeOK`, `HeaderInv` and `BootInv`: an install that
is under way in a touched slot leaves no image there; a reset always finds something to
start, the running slot holds an image, only a board that serves takes an upload, and the
guard erases otadata only when the rescue image verifies.  `RecordInv` stands on it: what is up
has `Passed` its trial, and the image that was last up is `Ranked` above the other by
their records, which is what the rescue image's way out follows.  The assumptions are
`RescuesAreNamed` and `BootIsConfigured`.

`ReflashProofs`, for any number of units, pages, attempts and mishaps:

* `TypesHold`, `FirstPageHolds` (`FirstPageVouches`), `CountedHolds` (`CountedIsNew`).
* `BadImageHolds` (`BadImageStops`).
* `CleanRunHolds`: `Threshold > 1 => (Spec => []CleanRunSucceeds)`.

`FirstPageVouches` says nothing about a unit between its pages.  `StreamInv` adds, for
the unit that is being flashed, how far the stream has come: after n pages have been
checked the pages from the second on are the image's, and the first is the hold page
until all of them are.  `PagesStay` is the lemma that makes the rest small: only a write,
or a repeated one, changes a page, and no other unit's.  A unit is counted only at the
end of a stream that was checked.

`BadImageStops` bounds a number, so its invariant has to say whom to charge.  `Charged`
says that the damaged units whose turn is over are no more than `work.fails`, and that
of the units still to come only the one whose turn it is can be damaged, once it was
written to.  A step adds that unit at most, the run ends at `MaxFailures`, and the count
is set back by a success only, which `MuteIsNoSuccess` excludes: the unit that is waited
for runs the whole image and does not answer.  That it does run is `Attentive`: while
no unit loses its power, a unit that is written to sits in its bootloader, because the
row never leaves it alone long enough to leave (`Attended`).

`CleanRunSucceeds` needs to know where every unit is: `Others` says that a unit runs a
whole program, waits with an empty flash or, in the batch, is on its way back from its
restart, and `AtTurn` says it for the unit whose turn it is, place by place.  The restart
that the row orders is a watchdog reset and counts as one, so a bootloader that took the
first for a crash loop would hold every unit; hence `Threshold > 1`
(`CRASH_REC_THRESHOLD` is 3, `UnitBootloader/main.c:45`).

`DisplayProofs`, for any texts and any number of requests:

* `TypesHold`, for any length of the queue.
* `AbortAlwaysHasItsStop` (`AbortHasItsStop`), `StopIsAlwaysKept` (`StopIsKept`),
  `AlwaysSaysWhatItShows` (`SaysWhatItShows`), for a queue of more than five places
  (`DISPLAY_QUEUE_DEPTH` is 16, `Tasks.cpp:129`).

A stop that is sent back needs a place.  `RoomInv` counts who can take one: behind the
closed gate only a producer that looked at it before still puts something, each of the
five one command (`OnTheWay`), or it is the web server with another stop, which then
stands for the one that is lost.  `SafeInv` adds what the commands in the queue and in the producers' hands can be (`AskedInv`), and at
which places the display task can hold which command (`TaskInv`): without it the text of
a command could be that of a stop, or a frame that is cut could be one that no stop
follows.  `TextInv` says that the drums of an idle display show its current text unless
there is an `Excuse` (a stop on its way, or `spoiled`), and that a cut frame has one.
Two lemmas carry the steps of the other tasks: `StopStays`, a stop on its way stays so
unless the display task begins it, and `ExcuseStays`.

### Only model-checked

Liveness (`RowsConnect`, `TextArrives`, `JobsEnd` of both modules, `EndsNew`,
`NeverStuck`, `StopsTakeEffect`, `TextComesBack`) is out of the provers' reach: it needs
fairness and ENABLED.  Every invariant of the runs is proved.

## Not modelled

`PROJECT.json` lists every component with its status.  Left out with a reason: the
framing of the wall link, settings and the web API (parsing and formatting, covered by
unit tests); motion and homing of a unit (timing against real hardware); Wi-Fi and
diagnostics (I/O around one loop).  Worth a module and not modelled yet: the pairing of
a row and its fallback, updates of row boards, the recovery of a row's bus, the network
of the master, and the records in flash.  The firmware of version 1 (`src/firmware/v1`),
the flasher tool, the tests and the generated code are not modelled: version 2 replaces
the first, and the others do not run on the wall.

## Plan

1. `WallLink`, `UnitJob` with proofs: done, but for images, Restart and Release.
2. `WallJobs` with proofs: done, but for the Release handshake and the restart of all
   units.
3. `BootSection`, `MasterBoot` with `FactorySlot`, `Reflash` with `Twiboot`, `Display`,
   all with proofs: done.  Left: the sweep over the units of a row, the plan on the
   master's own row, the update of the row boards from a release.
4. `RowPhase`, with time in ticks: the phase machine of a row against the master's
   pings and long jobs of the row.
5. `WallUpdate`: offers, hold-offs, attempts; no row starves, attempts are bounded.
6. `EventRecord`, `FlashLog`, odometer: records under torn writes.
7. `RestartUnits` as a second producer for WallJobs; bus recovery and escalation.

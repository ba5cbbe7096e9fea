------------------------------ MODULE Reflash ------------------------------
(***************************************************************************)
(* The row that keeps the programs of its units: it scans the bus, sends   *)
(* one unit after the other into its bootloader, streams the image page by *)
(* page (shared/ReflashPlan.h, TwibootFlash.h, UnitBusTwiboot.h), hears    *)
(* the heartbeats and looks after the units it lost (UnitRescuePolicy.h),  *)
(* on the follower board (FollowerEsp01/FollowerBusFlash.cpp).             *)
(*                                                                         *)
(* The bus loses transactions and their acknowledgements and garbles       *)
(* pages, units lose power, the row restarts, at any moment.               *)
(***************************************************************************)
EXTENDS Twiboot, FiniteSets, Sequences

CONSTANTS
  Size,          \* units of the row
  Fielded,       \* those with a bootloader of the first generation
  Attempts,      \* REFLASH_UNIT_ATTEMPTS
  WriteTries,    \* TWIBOOT_PAGE_WRITE_ATTEMPTS
  MaxFailures,   \* REFLASH_MAX_CONSECUTIVE_FAILURES
  Batch,         \* REFLASH_BATCH_SIZE
  MissLimit,     \* HEARTBEAT_MISS_THRESHOLD
  Behaviours,    \* what the new image may be like: "good", "mute", "crashes"
  MaxMishaps     \* bound: transactions that go wrong, power cycles, restarts of the row

Units == 1..Size

ASSUME RowSizes ==
  /\ Size \in Nat \ {0} /\ Fielded \subseteq Units
  /\ {Attempts, WriteTries, MaxFailures, Batch, MissLimit} \subseteq Nat \ {0}
  /\ Behaviours \subseteq {"good", "mute", "crashes"}
  /\ MaxMishaps \in Nat

VARIABLES
  unit,      \* the units
  image,     \* what the new image is like
  fact,      \* unitFacts: what the row takes each unit for
  misses,    \* heartbeats missed in a row, up to the limit
  tried,     \* rescueStates[i].attempted
  todo,      \* what setup() or the job of the loop still has to do
  at,        \* where the row is in it
  work,      \* the run of reflashRunTargets, or the scan
  faults, cycles, restarts,
  repeated,  \* history: units whose bare address call wrote a page once more
  before     \* history: units that ran a program when the run began

bounds == <<faults, cycles, restarts>>
Mishaps == faults + cycles + restarts
rowVars == <<fact, misses, tried, todo, at, work, before>>
vars == <<unit, image, rowVars, bounds, repeated>>

-----------------------------------------------------------------------------
Sketch == {"ours", "outdated", "unknown"}               \* state 1 and fwStatus
Facts  == Sketch \cup {"absent", "boot", "held"}        \* state 0; state 2, crashing

Errands == {"probe", "poll", "install", "update", "job"}
Places  == {"loop", "probe", "poll", "rescue", "ask", "order", "enter", "hand", "flash",
            "write", "check", "exit", "await", "again", "settle", "end"}
Works ==
  [left : SUBSET Units, attempt : 1..Attempts, write : 0..(LastPage + 1), try : 1..WriteTries,
   fails : 0..MaxFailures, batch : SUBSET Units, done : SUBSET Units, failed : BOOLEAN,
   only : Units \cup {0}, force : BOOLEAN]
Rest == [left |-> {}, attempt |-> 1, write |-> 0, try |-> 1, fails |-> 0, batch |-> {},
         done |-> {}, failed |-> FALSE, only |-> 0, force |-> FALSE]

\* The row works through its units in address order.
Cur == CHOOSE u \in work.left : \A v \in work.left : u <= v

\* The program of a unit.  A mixture of images, or a garbled page 0, may do anything.
RunsWell(u) ==
  /\ unit[u].at = "app"
  /\ IsWhole(unit[u], "old") \/ (IsWhole(unit[u], "new") /\ image = "good")
MayCrash(u) ==
  /\ unit[u].at = "app"
  /\ ~RunsWell(u)
  /\ ~(IsWhole(unit[u], "new") /\ image = "mute")
\* Whether the unit acknowledges its address.
Acks(u) ==
  IF unit[u].at # "app" \/ RunsWell(u) THEN {TRUE}
  ELSE IF IsWhole(unit[u], "new") THEN {image = "crashes"}
  ELSE BOOLEAN
\* What a version read finds.
Versions(u) ==
  IF RunsWell(u) THEN {IF IsWhole(unit[u], "new") THEN "ours" ELSE "outdated"}
  ELSE IF IsWhole(unit[u], "new") THEN {"unknown"} ELSE Sketch

-----------------------------------------------------------------------------
\* One transaction: heard, lost on its way, or carried out and not acknowledged.
Ways == {"ok", "lost", "unheard"}
Bus(way) ==
  /\ IF way = "ok" THEN faults' = faults ELSE Mishaps < MaxMishaps /\ faults' = faults + 1
  /\ UNCHANGED <<cycles, restarts>>
Unit(u, rec, way) == unit' = IF way = "lost" THEN unit ELSE [unit EXCEPT ![u] = rec]

\* twibootIsBootloader: a sketch ignores the question.
Asked(u) == IF Answering(unit[u]) THEN Commanded(unit[u]) ELSE unit[u]
Ask(u, way) == Unit(u, Asked(u), way) /\ Bus(way)
IsThere(u, way) == way = "ok" /\ Answering(unit[u])

Repeats(u, way) ==
  repeated' = IF way # "lost" /\ Answering(unit[u]) /\ unit[u].latch # NoLatch
              THEN repeated \cup {u} ELSE repeated

-----------------------------------------------------------------------------
\* The runs of the flash loop.

\* reflashPlanTargets: the sweep and the units that sit in their bootloader.
Sweep(errand) ==
  CASE errand = "install" -> {}
    [] errand = "update"  -> {u \in Units : fact[u] = "outdated"}
    [] work.force         -> {work.only}
    [] OTHER              -> {u \in Units : fact[u] \in {"outdated", "unknown"}}
\* Mutant: the units that sit in their bootloader are left out.
TargetsInSketch(errand) == Sweep(errand) \cap (IF work.only = 0 THEN Units ELSE {work.only})

Targets(errand) ==
  IF errand = "update" /\ Sweep(errand) = {} THEN {}
  ELSE {u \in Units : fact[u] \in {"boot", "held"} \/ u \in Sweep(errand)}
         \cap (IF work.only = 0 THEN Units ELSE {work.only})

Plans ==
  /\ at = "loop" /\ todo # <<>> /\ Head(todo) \in {"install", "update", "job"}
  /\ LET targets == Targets(Head(todo))
     IN  /\ work' = [Rest EXCEPT !.left = targets, !.only = work.only, !.force = work.force]
         /\ IF targets = {} THEN todo' = Tail(todo) /\ UNCHANGED at
            ELSE at' = "ask" /\ UNCHANGED todo
  /\ before' = {u \in Units : RunsWell(u)}
  /\ UNCHANGED <<unit, image, fact, misses, tried, bounds, repeated>>

\* How the turn of a unit ends.
Outcome(how) ==
  LET fails == CASE how = "flashed" -> 0 [] how = "failed" -> work.fails + 1 [] OTHER -> work.fails
      batch == IF how = "flashed" THEN work.batch \cup {Cur} ELSE work.batch
      left  == IF fails >= MaxFailures THEN {} ELSE work.left \ {Cur}
  IN  /\ work' = [work EXCEPT !.left = left, !.fails = fails, !.batch = batch,
                              !.attempt = 1, !.write = 0, !.try = 1,
                              !.done = IF how = "flashed" THEN @ \cup {Cur} ELSE @,
                              !.failed = @ \/ how # "flashed"]
      /\ fact' = IF how = "flashed" THEN [fact EXCEPT ![Cur] = "ours"] ELSE fact
      /\ at' = IF Cardinality(batch) >= Batch \/ (left = {} /\ batch # {}) THEN "settle"
               ELSE IF left = {} THEN "end" ELSE "ask"

\* The flash of a unit failed: once more, if it is still in its bootloader.
Fails ==
  IF work.attempt < Attempts THEN at' = "again" /\ UNCHANGED <<work, fact>> ELSE Outcome("failed")
NotEntered ==
  IF work.force THEN at' = "hand" /\ UNCHANGED <<work, fact>> ELSE Outcome("notEntered")
Goes(place) == at' = place /\ UNCHANGED <<work, fact>>

InRun == UNCHANGED <<image, misses, tried, todo, before>>

\* reflashEnterUnit: a unit that is there already gets no order.
AsksFirst ==
  /\ at = "ask"
  /\ \E way \in Ways :
       /\ Ask(Cur, way)
       /\ Goes(IF IsThere(Cur, way) THEN "flash" ELSE "order")
       /\ InRun /\ UNCHANGED repeated

Ordered(u) ==
  IF Answering(unit[u]) THEN Misaddressed(unit[u])
  ELSE IF unit[u].at = "leaving" THEN unit[u] ELSE Leaving(unit[u])
Orders ==
  /\ at = "order"
  /\ \E way \in Ways : \E ack \in Acks(Cur) :
       /\ Bus(way)
       /\ IF ack THEN Unit(Cur, Ordered(Cur), way) ELSE UNCHANGED unit
       /\ IF ack /\ way = "ok" THEN Goes("enter") ELSE NotEntered
       /\ InRun /\ UNCHANGED repeated

\* The questions after the order; all of them come too early for a unit that leaves
\* its sketch late.
Enters ==
  /\ at = "enter"
  /\ \E way \in Ways :
       /\ Ask(Cur, way)
       /\ way = "ok" => unit[Cur].at # "leaving"
       /\ IF IsThere(Cur, way) THEN Goes("flash") ELSE NotEntered
       /\ InRun /\ UNCHANGED repeated

\* reflashAwaitHandReset
HandReset ==
  /\ at = "hand" /\ Ask(Cur, "ok")
  /\ IF Answering(unit[Cur]) THEN Goes("flash") ELSE Outcome("notEntered")
  /\ InRun /\ UNCHANGED repeated

\* unitFlashImage: liveness and chip first.
ChecksChip ==
  /\ at = "flash"
  /\ \E way \in Ways :
       /\ Ask(Cur, way)
       /\ IF IsThere(Cur, way)
          THEN at' = "write" /\ work' = [work EXCEPT !.write = 0, !.try = 1] /\ UNCHANGED fact
          ELSE Fails
       /\ InRun /\ UNCHANGED repeated

\* The hold page to address 0, the pages after the first, the first page last.
\* Mutant: the last page is left out.
PageOfShort(write) == IF write >= LastPage THEN 0 ELSE write

PageOf(write) == IF write > LastPage THEN 0 ELSE write

\* Mutant: no hold page, the first page goes first.
WantedAtOnce(write) == "new"

Wanted(write) == IF write = 0 THEN "hold" ELSE "new"

Writes ==
  /\ at = "write"
  /\ \E way \in Ways \cup {"garbled"} :
       /\ Bus(way)
       /\ LET what == IF way = "garbled" THEN "junk" ELSE Wanted(work.write)
          IN  IF Answering(unit[Cur])
              THEN Unit(Cur, Written(unit[Cur], PageOf(work.write), what), way)
              ELSE UNCHANGED unit
       /\ IF Answering(unit[Cur]) /\ way \in {"ok", "garbled"} THEN Goes("check") ELSE Fails
       /\ InRun /\ UNCHANGED repeated

\* The read-back, and the next write.
Checks ==
  /\ at = "check"
  /\ \E way \in Ways :
       /\ Ask(Cur, way)
       /\ CASE ~IsThere(Cur, way) -> Fails
            [] IsThere(Cur, way) /\ unit[Cur].page[PageOf(work.write)] = Wanted(work.write) ->
                 /\ at' = IF work.write > LastPage THEN "exit" ELSE "write"
                 /\ work' = [work EXCEPT !.write = IF @ > LastPage THEN 0 ELSE @ + 1, !.try = 1]
                 /\ UNCHANGED fact
            [] OTHER ->
                 IF work.try < WriteTries
                 THEN at' = "write" /\ work' = [work EXCEPT !.try = @ + 1] /\ UNCHANGED fact
                 ELSE Fails
       /\ InRun /\ UNCHANGED repeated

Exits ==
  /\ at = "exit"
  /\ \E way \in Ways :
       /\ Bus(way)
       /\ IF Answering(unit[Cur]) THEN Unit(Cur, Switched(unit[Cur]), way) ELSE UNCHANGED unit
       /\ IF way = "ok" THEN Goes("await") ELSE Fails
       /\ InRun /\ UNCHANGED repeated

\* Mutant: nobody waits for the sketch.
AwaitsNothing ==
  /\ at = "await" /\ Outcome("flashed")
  /\ InRun /\ UNCHANGED <<unit, bounds, repeated>>

\* twibootAwaitSketch and the restart; that order is not asked about.
Awaits ==
  /\ at = "await"
  /\ \E way \in {"ok", "lost"} : \E ack \in Acks(Cur) :
       /\ Bus(way)
       /\ IF ack THEN Unit(Cur, Ordered(Cur), way) ELSE UNCHANGED unit
       /\ IF ack THEN Outcome("flashed") ELSE Fails
       /\ InRun /\ UNCHANGED repeated

AsksAgain ==
  /\ at = "again"
  /\ \E way \in Ways :
       /\ Ask(Cur, way)
       /\ IF IsThere(Cur, way)
          THEN at' = "flash" /\ work' = [work EXCEPT !.attempt = @ + 1, !.write = 0, !.try = 1]
               /\ UNCHANGED fact
          ELSE Outcome("failed")
       /\ InRun /\ UNCHANGED repeated

\* unitWaitBatchIdle: until the units of the batch are up, or REFLASH_BATCH_SETTLE_MS,
\* which is longer than a restart.
\* Mutant: nobody waits for the batch.
SettledAtOnce(u) == TRUE

Settled(u) == unit[u].at \notin {"leaving", "window"} \/ ~IsWhole(unit[u], "new") \/ image = "crashes"
Settles ==
  /\ at = "settle" /\ \A u \in work.batch : Settled(u)
  /\ work' = [work EXCEPT !.batch = {}]
  /\ at' = IF work.left = {} THEN "end" ELSE "ask"
  /\ InRun /\ UNCHANGED <<unit, fact, bounds, repeated>>

Ends ==
  /\ at = "end" /\ at' = "loop"
  /\ todo' = (IF work.done = {} THEN <<>> ELSE <<"probe">>) \o Tail(todo)
  /\ work' = [Rest EXCEPT !.done = work.done, !.failed = work.failed, !.only = work.only,
                          !.force = work.force]
  /\ UNCHANGED <<unit, image, fact, misses, tried, before, bounds, repeated>>

-----------------------------------------------------------------------------
\* Scans and polls.

Begins(errand) ==
  /\ at = "loop" /\ todo # <<>> /\ Head(todo) = errand
  /\ at' = errand /\ work' = [work EXCEPT !.left = Units]
  /\ UNCHANGED <<unit, image, fact, misses, tried, todo, before, bounds, repeated>>

\* The scan or poll of one more unit.
Next1 ==
  /\ work' = [work EXCEPT !.left = @ \ {Cur}]
  /\ IF work.left = {Cur} THEN at' = "loop" /\ todo' = Tail(todo) ELSE UNCHANGED <<at, todo>>

Identity(u) == IF Held(unit[u]) THEN "held" ELSE "boot"

\* busProbeQuiet: the bare address, then the question, then the identity or the version.
\* The version is asked of a unit that is in its bootloader too, when the question was
\* lost, and that starts its program.
Probes ==
  /\ at = "probe" /\ Next1
  /\ misses' = [misses EXCEPT ![Cur] = 0]
  /\ LET u == Cur IN
     \/ \E way \in Ways : \E ack \in Acks(u) :       \* not acknowledged
          /\ way # "ok" \/ ~ack
          /\ Bus(way) /\ Unit(u, Called(unit[u]), way) /\ Repeats(u, way)
          /\ fact' = [fact EXCEPT ![u] = "absent"]
     \/ /\ TRUE \in Acks(u) /\ Repeats(u, "ok")
        /\ \E way \in {"ok", "lost"} :
             /\ Bus(way)
             /\ IF Answering(unit[u])
                THEN \/ /\ unit' = [unit EXCEPT ![u] = Commanded(Called(@))]
                        /\ fact' = [fact EXCEPT ![u] = IF way = "ok" THEN Identity(u) ELSE "boot"]
                     \/ /\ way = "lost"
                        /\ unit' = [unit EXCEPT ![u] = Misaddressed(Called(@))]
                        /\ fact' = [fact EXCEPT ![u] = "unknown"]
                ELSE /\ UNCHANGED unit
                     /\ \E v \in IF way = "ok" THEN Versions(u) ELSE {"unknown"} :
                          fact' = [fact EXCEPT ![u] = v]
  /\ UNCHANGED <<image, tried, before>>

\* busPollHealthOne and heartbeatApply: a status read, of a unit taken for a sketch.
Polled(u) ==
  IF fact[u] \notin Sketch
  THEN misses' = [misses EXCEPT ![u] = 0] /\ UNCHANGED <<unit, bounds>>
  ELSE \E way \in Ways : \E ack \in Acks(u) :
         /\ Bus(way)
         /\ IF Answering(unit[u]) THEN Unit(u, Misaddressed(unit[u]), way) ELSE UNCHANGED unit
         /\ misses' = [misses EXCEPT
              ![u] = IF way = "ok" /\ ack /\ ~Answering(unit[u]) THEN 0
                     ELSE IF @ < MissLimit THEN @ + 1 ELSE @]

Polls ==
  /\ at = "poll" /\ Next1 /\ Polled(Cur)
  /\ UNCHANGED <<image, fact, tried, before, repeated>>

\* followerHeartbeatTick, and rescueTick behind it.
Heartbeat(u) ==
  /\ at = "loop" /\ todo = <<>> /\ Polled(u)
  /\ at' = "rescue" /\ work' = [Rest EXCEPT !.left = {u}]
  /\ UNCHANGED <<image, fact, tried, todo, before, repeated>>

Lost(u) == fact[u] \in Sketch /\ misses[u] = MissLimit

\* The rescue of a unit that was tried before waits UNIT_RESCUE_RETRY_MS: every shorter
\* time of the unit has run out by then.
Rested(u) ==
  /\ unit[u].at \notin {"window", "leaving"}
  /\ unit[u].at = "pinned" => unit[u].fielded

\* unitRescueProbe
Rescues(u) ==
  /\ Lost(u) /\ (tried[u] => Rested(u) \/ unit[u].fielded)
  /\ tried' = [tried EXCEPT ![u] = TRUE]
  /\ \/ \E way \in Ways : \E ack \in Acks(u) :                     \* NoAck
          /\ way # "ok" \/ ~ack
          /\ Bus(way) /\ Unit(u, Called(unit[u]), way) /\ Repeats(u, way)
          /\ UNCHANGED fact
     \/ /\ TRUE \in Acks(u) /\ Repeats(u, "ok")
        /\ \E way \in Ways :
             /\ Bus(way)
             /\ CASE ~Answering(unit[u]) -> UNCHANGED <<unit, fact>>   \* SketchSilent
                  [] Answering(unit[u]) /\ Held(unit[u]) ->            \* CrashHeld, or the question lost
                       /\ unit' = [unit EXCEPT ![u] = Commanded(Called(@))]
                       /\ fact' = IF way = "ok" THEN [fact EXCEPT ![u] = "held"] ELSE fact
                  [] OTHER ->                                          \* the order to start
                       /\ unit' = [unit EXCEPT ![u] = IF way = "lost" THEN Commanded(Called(@))
                                                     ELSE Switched(Called(@))]
                       /\ UNCHANGED fact
  /\ todo' = todo /\ misses' = IF fact'[u] = fact[u] THEN misses ELSE [misses EXCEPT ![u] = 0]

\* The look at a unit that is held: when it is gone, the row is scanned.
Rechecks(u) ==
  \E way \in Ways :
    /\ fact[u] = "held" /\ Ask(u, way)
    /\ todo' = IF IsThere(u, way) THEN todo ELSE <<"probe", "poll">>
    /\ UNCHANGED <<fact, misses, tried, repeated>>

RescueTick ==
  /\ at = "rescue" /\ at' = "loop" /\ work' = Rest
  /\ \/ Rescues(Cur) \/ Rechecks(Cur)
     \/ /\ tried' = IF misses[Cur] = 0 /\ fact[Cur] \in Sketch THEN [tried EXCEPT ![Cur] = FALSE] ELSE tried
        /\ UNCHANGED <<unit, fact, misses, todo, bounds, repeated>>
  /\ UNCHANGED <<image, before>>

-----------------------------------------------------------------------------
\* What people ask for, and the restarts of the row.

Asks(errands, only, force) ==
  /\ at = "loop" /\ todo = <<>>
  /\ todo' = errands /\ work' = [Rest EXCEPT !.only = only, !.force = force]
  /\ UNCHANGED <<unit, image, fact, misses, tried, at, before, bounds, repeated>>
Rescan == Asks(<<"probe", "poll">>, 0, FALSE)
Reflash == \E only \in Units \cup {0} : \E force \in BOOLEAN :
             (only = 0 => ~force) /\ Asks(<<"job", "poll">>, only, force)

\* setup(), with prefsReflashOnBoot or without.
BootErrands(on) ==
  IF on THEN <<"probe", "install", "probe", "install", "update", "poll">>
  ELSE <<"probe", "probe", "poll">>
Restart ==
  /\ Mishaps < MaxMishaps /\ restarts' = restarts + 1
  /\ \E on \in BOOLEAN : todo' = BootErrands(on)
  /\ fact' = [u \in Units |-> "absent"] /\ misses' = [u \in Units |-> 0]
  /\ tried' = [u \in Units |-> FALSE] /\ at' = "loop" /\ work' = Rest
  /\ UNCHANGED <<unit, image, before, faults, cycles, repeated>>

-----------------------------------------------------------------------------
\* The units by themselves.

UnitDoes(u, rec) == unit' = [unit EXCEPT ![u] = rec] /\ UNCHANGED <<image, rowVars, repeated>>

\* While the row is busy with a unit it never leaves it alone for the second of the
\* window, let alone for the pin.
Attended(u) ==
  /\ work.left # {} /\ u = Cur
  /\ \/ at \in {"enter", "hand", "flash", "write", "check", "exit"}
     \/ at = "again" /\ unit[u].at = "pinned"

WindowEnds(u) ==
  /\ unit[u].at = "window" \/ (unit[u].at = "pinned" /\ ~unit[u].fielded)
  /\ ~Attended(u)
  /\ UnitDoes(u, Jump(unit[u])) /\ UNCHANGED bounds
LeavesSketch(u) ==
  unit[u].at = "leaving" /\ UnitDoes(u, Reset(unit[u], TRUE)) /\ UNCHANGED bounds
Crashes(u) ==
  MayCrash(u) /\ UnitDoes(u, Reset(unit[u], TRUE)) /\ UNCHANGED bounds
\* crashRecordClear after 20 s
RunsOn(u) ==
  /\ RunsWell(u) /\ unit[u].crashes > 0
  /\ UnitDoes(u, [unit[u] EXCEPT !.crashes = 0]) /\ UNCHANGED bounds
PowerCycle(u) ==
  /\ Mishaps < MaxMishaps /\ cycles' = cycles + 1
  /\ UnitDoes(u, Reset(unit[u], FALSE)) /\ UNCHANGED <<faults, restarts>>

-----------------------------------------------------------------------------
Fresh(u, what) ==
  [page |-> [p \in Pages |-> what], at |-> IF what = "blank" THEN "waits" ELSE "app",
   crashes |-> 0, latch |-> NoLatch, fielded |-> u \in Fielded]

Init ==
  /\ unit \in {f \in [Units -> {Fresh(u, w) : u \in Units, w \in {"old", "blank"}}] :
                 \A u \in Units : f[u] \in {Fresh(u, "old"), Fresh(u, "blank")}}
  /\ image \in Behaviours
  /\ fact = [u \in Units |-> "absent"] /\ misses = [u \in Units |-> 0]
  /\ tried = [u \in Units |-> FALSE] /\ at = "loop" /\ work = Rest
  /\ todo \in {BootErrands(on) : on \in BOOLEAN}
  /\ faults = 0 /\ cycles = 0 /\ restarts = 0
  /\ repeated = {} /\ before = {}

Run == \/ Plans \/ AsksFirst \/ Orders \/ Enters \/ HandReset \/ ChecksChip \/ Writes
       \/ Checks \/ Exits \/ Awaits \/ AsksAgain \/ Settles \/ Ends
Scan == Begins("probe") \/ Begins("poll") \/ Probes \/ Polls
UnitStep == \E u \in Units : WindowEnds(u) \/ LeavesSketch(u) \/ Crashes(u) \/ RunsOn(u)

Next ==
  \/ Run \/ Scan \/ (\E u \in Units : Heartbeat(u)) \/ RescueTick
  \/ Rescan \/ Reflash \/ Restart \/ UnitStep \/ \E u \in Units : PowerCycle(u)

Spec == Init /\ [][Next]_vars

\* The row and the units go on by themselves.  The loop is idle again and again, and
\* then its heartbeat comes round to every unit, and people ask for scans and runs.
FairSpec ==
  /\ Spec /\ WF_vars(Run \/ Scan \/ RescueTick)
  /\ \A u \in Units : SF_vars(Heartbeat(u)) /\ WF_vars(WindowEnds(u) \/ LeavesSketch(u) \/ Crashes(u) \/ RunsOn(u))
  /\ SF_vars(Rescan) /\ SF_vars(Asks(<<"job", "poll">>, 0, FALSE))

-----------------------------------------------------------------------------
\* Type correctness of the units and of the row.
TypeOK ==
  /\ unit \in [Units -> UnitRecs] /\ image \in {"good", "mute", "crashes"}
  /\ fact \in [Units -> Facts] /\ misses \in [Units -> 0..MissLimit]
  /\ tried \in [Units -> BOOLEAN] /\ todo \in Seq(Errands) /\ at \in Places /\ work \in Works
  /\ {faults, cycles, restarts} \subseteq Nat /\ Mishaps <= MaxMishaps
  /\ repeated \subseteq Units /\ before \subseteq Units

\* What the page order is for: a first page that belongs to an image vouches for the
\* rest of the program, after any losses, restarts, garbled pages and power cycles; the
\* exception is a unit that was called by its bare address with a write still latched.
FirstPageVouches ==
  \A u \in Units \ repeated :
    unit[u].page[0] \in Images => IsWhole(unit[u], unit[u].page[0])

\* A unit that was counted as flashed holds the whole new image.
CountedIsNew ==
  \A u \in work.done \ repeated : IsWhole(unit[u], "new")

\* The stop on consecutive failures: an image that does not answer costs a run no more
\* than MaxFailures units their program.  (A unit that loses its power while its
\* sketch is waited for answers from its bootloader and passes for flashed.)
BadImageStops ==
  image = "mute" /\ cycles = 0 =>
    Cardinality({u \in before \ repeated : ~IsWhole(unit[u], "old")}) <= MaxFailures

\* A run in which nothing went wrong fails no unit, and the scan behind it finds the
\* flashed units in their new program.
CleanRunSucceeds ==
  (image = "good" /\ at = "loop" /\ todo = <<>> /\ Mishaps = 0) =>
    ~work.failed /\ \A u \in work.done : fact[u] = "ours"

\* However the flash of a unit went, in the end it runs the new image, if that is good.
EndsNew ==
  image = "good" => \A u \in Units :
    []<>(u \in repeated \/ (RunsWell(u) /\ IsWhole(unit[u], "new")))

\* TwibootFlash.h: on any failure the unit still sits in its bootloader "so it never
\* boots a corrupted sketch".
NeverBootsCorrupted ==
  \A u \in Units : unit[u].at = "app" =>
    \E i \in Images : IsWhole(unit[u], i)
=============================================================================

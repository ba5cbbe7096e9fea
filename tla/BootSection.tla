---------------------------- MODULE BootSection ----------------------------
(***************************************************************************)
(* A unit that replaces its own bootloader over the bus                    *)
(* (Unit/BootUpdateAvr.h, UnitBootUpdate.ino), page by page and with the   *)
(* power going at any moment, and the row master that drives it            *)
(* (shared/BootUpdateOp.h, BootUpdatePlan.h).                              *)
(*                                                                         *)
(* Every reset starts in page 0 of the boot section.  Only code in the     *)
(* boot section can write flash, so stage 1 has the old bootloader write   *)
(* the page-writing routine into its empty last page, and stage 2 rewrites *)
(* the other pages with that routine, with a jump to the application in    *)
(* page 0 while they are mixed.                                            *)
(***************************************************************************)
EXTENDS Integers

CONSTANTS
  LastPage,    \* the page of the page-writing routine, 7
  Attempts,    \* BOOT_PAGE0_WRITE_ATTEMPTS
  MaxFaults,   \* bound: power losses, other resets, moves of the unit's own
  MaxBad       \* bound: page writes that come out wrong

ASSUME SizesAreNaturals ==
  /\ LastPage \in Nat \ {0, 1} /\ Attempts \in Nat \ {0}
  /\ MaxFaults \in Nat /\ MaxBad \in Nat

VARIABLES
  flash,    \* what each page of the boot section holds
  lock,     \* the lock bits: is the section locked, can the application read them
  unit,     \* where the unit's program is
  drum,     \* homed and currentlyrotating; "moving" is a move or one that is held back
  pending,  \* pendingBootUpdateStage, 0 = none
  report,   \* the published boot report: state and last result
  op,       \* the master's bootUpdateRun
  faults, bad

unitVars == <<flash, unit, drum, pending, report, bad>>
vars     == <<unitVars, lock, op, faults>>

-----------------------------------------------------------------------------
Pages  == 0..LastPage
Core   == 0..(LastPage - 1)   \* the bootloader proper
Middle == 1..(LastPage - 1)

Contents == {"old", "prev", "new",   \* the page of an image
             "jump",                 \* a jump to the application, whatever follows it
             "blank", "junk"}        \* erased; half erased or badly written

Image(core, last) == [p \in Pages |-> IF p = LastPage THEN last ELSE core]
Fielded   == Image("old", "blank")
Installed == Image("old", "new")
Prev      == Image("prev", "new")
New       == Image("new", "new")

\* classifyBootSection
Classify(s) ==
  IF s = New THEN "new"
  ELSE IF s = Prev THEN "prevNew"
  ELSE IF s = Fielded THEN "old"
  ELSE IF s = Installed THEN "page7Installed"
  ELSE IF s[0] = "jump" THEN "trampoline"
  ELSE IF \A p \in Core : s[p] = "old" THEN "old"
  ELSE "unknown"

\* What a reset starts: a bootloader that is all of one image, or the application,
\* which can go on where stage 2 stopped because it has the page-writing routine.
Startable(s) ==
  \/ s[0] = "jump" /\ s[LastPage] = "new"
  \/ s[0] \in {"old", "prev", "new"} /\ \A p \in Core : s[p] = s[0]

States   == {"new", "prevNew", "old", "page7Installed", "trampoline", "unknown"}
Failures == {"refusedState", "refusedLock", "refusedBusy", "verifyFailed"}
Results  == Failures \cup {"none", "stage2Ok"}

Reports == [state : States, result : Results]
Units ==
  [at : {"start", "loop", "stage1", "jump", "middle", "page0", "restore", "dead"},
   erased : BOOLEAN, tries : 0..(Attempts - 1), page : {0} \cup Middle, resume : BOOLEAN]
Over == {"idle", "ok", "failed"}   \* the op has not begun, or has ended
Ops ==
  [at : Over \cup {"plan", "settle1", "settle2", "send1", "started", "home1", "check1",
                   "homed", "home2", "check2", "send2", "poll"},
   info : Reports, prior : Results]

At(place) == [at |-> place, erased |-> FALSE, tries |-> 0, page |-> 0, resume |-> FALSE]
OpIdle    == [at |-> "idle", info |-> [state |-> "unknown", result |-> "none"], prior |-> "none"]

Init ==
  /\ flash \in {Fielded, Prev}
  /\ lock \in [locked : BOOLEAN, readable : BOOLEAN]
  /\ unit = At("start") /\ drum = "unhomed" /\ pending = 0
  /\ report = [state |-> "unknown", result |-> "none"]
  /\ op = OpIdle /\ faults = 0 /\ bad = 0

-----------------------------------------------------------------------------
(* Writing a page: an erase, the fill and write, and the look at what came *)
(* out.  Interrupts are off: only a power loss comes between.              *)

Writing == unit.at \in {"stage1", "jump", "middle", "page0", "restore"}
Target  == IF unit.at = "stage1" THEN LastPage ELSE IF unit.at = "middle" THEN unit.page ELSE 0
Wanted  == IF unit.at \in {"jump", "restore"} THEN "jump" ELSE "new"

\* The first half of bootWritePageFromImage and bootWriteTrampolinePage.
Erase ==
  /\ Writing /\ ~unit.erased
  /\ flash' = IF lock.locked THEN flash ELSE [flash EXCEPT ![Target] = "blank"]
  /\ unit' = [unit EXCEPT !.erased = TRUE]
  /\ UNCHANGED <<lock, drum, pending, report, op, faults, bad>>

\* The second half; a locked section ignores it.
Programs ==
  /\ unit.erased
  /\ \/ flash' = (IF lock.locked THEN flash ELSE [flash EXCEPT ![Target] = Wanted])
        /\ UNCHANGED bad
     \/ /\ ~lock.locked /\ bad < MaxBad
        /\ flash' = [flash EXCEPT ![Target] = "junk"] /\ bad' = bad + 1

\* Every reset: the bootloader, if there is one, and then the application.
Resets(s) ==
  /\ unit' = At(IF Startable(s) THEN "start" ELSE "dead")
  /\ pending' = 0 /\ drum' = "unhomed"

\* The power goes; a page that is being erased or written is left undefined.
PowerLoss ==
  /\ unit.at # "dead" /\ faults < MaxFaults /\ faults' = faults + 1
  /\ \/ flash' = flash
     \/ Writing /\ ~lock.locked /\ flash' = [flash EXCEPT ![Target] = "junk"]
  /\ Resets(flash') /\ UNCHANGED <<lock, report, op, bad>>

-----------------------------------------------------------------------------
(* The unit *)

unitRest == <<lock, op, faults>>

\* runBootUpdate: the result to publish.  One that says only that the work is done
\* already does not hide that it was done well.
Kept(r) == IF r = "refusedState" /\ report.result = "stage2Ok" THEN "stage2Ok" ELSE r

\* The stage is over: the loop goes on, and the report is made anew.
Publishes(r) ==
  /\ unit' = At("loop")
  /\ report' = [state |-> Classify(flash'), result |-> IF unit.resume THEN r ELSE Kept(r)]

\* On to the first page after p that is not the image's yet, or else to page 0.
Missing(s, p) == {q \in Middle : q > p /\ s[q] # "new"}
GoesOnAfter(s, p, resume) ==
  \/ Missing(s, p) = {} /\ unit' = [At("page0") EXCEPT !.resume = resume]
  \/ \E q \in Missing(s, p) :
       /\ \A o \in Missing(s, p) : q <= o
       /\ unit' = [At("middle") EXCEPT !.page = q, !.resume = resume]

\* Mutant: the bootloader is rewritten in place.
Stage2InPlace(s, resume) == GoesOnAfter(s, 0, resume)

\* bootStage2Rewrite up to its first write: a trampoline that is there is kept.
Stage2(s, resume) == IF s[0] = "jump" THEN GoesOnAfter(s, 0, resume) ELSE unit' = At("jump")

\* setup: bootAutoResume goes on with a trampoline, and with nothing else.
Start ==
  /\ unit.at = "start"
  /\ IF Classify(flash) = "trampoline" /\ flash[LastPage] = "new"
     THEN Stage2(flash, TRUE) /\ UNCHANGED report
     ELSE /\ unit' = At("loop")
          /\ report' = [state |-> Classify(flash),
                        result |-> IF Classify(flash) = "trampoline" THEN "refusedState"
                                   ELSE "none"]
  /\ UNCHANGED <<unitRest, flash, drum, pending, bad>>

\* runBootUpdate and bootRunStage up to the first write.
LockPermits == lock.readable => ~lock.locked
Begins == /\ unit.at = "loop" /\ pending # 0 /\ pending' = 0
          /\ UNCHANGED <<unitRest, flash, drum, bad>>
\* Mutant: no stage 2 on a half-written section.
MayRunNotTrampoline(stage) == IF stage = 1 THEN Classify(flash) = "old"
                              ELSE Classify(flash) \in {"page7Installed", "prevNew"}
MayRun(stage) == IF stage = 1 THEN Classify(flash) = "old"
                 ELSE Classify(flash) \in {"page7Installed", "trampoline", "prevNew"}

\* Mutant: whatever the section holds.
RefusalWhenUnready(stage) ==
  IF drum # "homed" THEN "refusedBusy" ELSE IF ~LockPermits THEN "refusedLock" ELSE "none"
Refusal(stage) ==
  IF drum # "homed" THEN "refusedBusy"
  ELSE IF ~MayRun(stage) THEN "refusedState"
  ELSE IF ~LockPermits THEN "refusedLock"
  ELSE IF stage = 2 /\ flash[LastPage] # "new" THEN "refusedState"
  ELSE "none"

Refuses == Begins /\ Refusal(pending) # "none" /\ Publishes(Refusal(pending))
Stage1Starts == /\ Begins /\ pending = 1 /\ Refusal(1) = "none"
                /\ unit' = At("stage1") /\ UNCHANGED report
Stage2Starts == /\ Begins /\ pending = 2 /\ Refusal(2) = "none"
                /\ Stage2(flash, FALSE) /\ UNCHANGED report

\* Stage 1 runs in the old bootloader and ends in a reset, well or not.
Stage1Writes ==
  /\ unit.at = "stage1" /\ Programs /\ Resets(flash')
  /\ UNCHANGED <<unitRest, report>>

JumpWritten == flash'[0] = "jump"
TriesAgain  == unit' = [unit EXCEPT !.erased = FALSE, !.tries = @ + 1] /\ UNCHANGED report
\* Mutant: one attempt too many.
JumpTriesOnceMore ==
  /\ unit.at = "jump" /\ Programs
  /\ IF JumpWritten THEN GoesOnAfter(flash', 0, unit.resume) /\ UNCHANGED report
     ELSE IF unit.tries < Attempts THEN TriesAgain ELSE Publishes("verifyFailed")
  /\ UNCHANGED <<unitRest, drum, pending>>

\* bootWriteTrampolineVerified: so many attempts.
JumpWrites ==
  /\ unit.at = "jump" /\ Programs
  /\ IF JumpWritten THEN GoesOnAfter(flash', 0, unit.resume) /\ UNCHANGED report
     ELSE IF unit.tries + 1 < Attempts THEN TriesAgain ELSE Publishes("verifyFailed")
  /\ UNCHANGED <<unitRest, drum, pending>>

\* Page by page; one that does not read back ends it, with the trampoline in page 0.
MiddleWrites ==
  /\ unit.at = "middle" /\ Programs
  /\ IF flash'[unit.page] = "new"
     THEN GoesOnAfter(flash', unit.page, unit.resume) /\ UNCHANGED report
     ELSE Publishes("verifyFailed")
  /\ UNCHANGED <<unitRest, drum, pending>>

\* The last page to be written; if it does not read back the trampoline is written again.
Page0Writes ==
  /\ unit.at = "page0" /\ Programs
  /\ IF flash'[0] = "new"
     THEN Publishes(IF Classify(flash') = "new" THEN "stage2Ok" ELSE "verifyFailed")
     ELSE unit' = [At("restore") EXCEPT !.resume = unit.resume] /\ UNCHANGED report
  /\ UNCHANGED <<unitRest, drum, pending>>
JumpRestores ==
  /\ unit.at = "restore" /\ Programs
  /\ IF ~JumpWritten /\ unit.tries + 1 < Attempts THEN TriesAgain ELSE Publishes("verifyFailed")
  /\ UNCHANGED <<unitRest, drum, pending>>

\* A home after a start, of the unit's own or with its row ...
Rehomes ==
  /\ unit.at = "loop" /\ drum = "unhomed" /\ drum' = "moving"
  /\ UNCHANGED <<unitRest, flash, unit, pending, report, bad>>
\* ... and one the unit makes when it finds that it has drifted.
Drifts ==
  /\ unit.at = "loop" /\ drum = "homed" /\ drum' = "moving"
  /\ faults < MaxFaults /\ faults' = faults + 1
  /\ UNCHANGED <<lock, op, flash, unit, pending, report, bad>>
\* Only a unit that finds its mark is homed.
DrumStops ==
  /\ unit.at = "loop" /\ drum = "moving" /\ drum' \in {"homed", "unhomed"}
  /\ UNCHANGED <<unitRest, flash, unit, pending, report, bad>>

-----------------------------------------------------------------------------
(* The row master's bootUpdateRun.  A read or a request can fail at any    *)
(* time, and a wait can run into its limit.                                *)

Answers == unit.at = "loop"     \* the unit is on the bus
GoesOn(place) == op' = [op EXCEPT !.at = place]
\* The op ends; what it said to the operator stays.
Ends(outcome) == op' = [OpIdle EXCEPT !.at = outcome]
opOnly == UNCHANGED <<unitVars, lock, faults>>

Ask == op.at \in Over /\ op' = [OpIdle EXCEPT !.at = "plan"] /\ opOnly

\* Whatever fails ends the op, and it says so.
GivesUp == op.at \notin Over /\ Ends("failed") /\ opOnly

\* bootUpdateDecide
Plans ==
  /\ op.at = "plan" /\ Answers
  /\ IF report.state = "new" THEN Ends("ok")
     ELSE IF report.state = "unknown" \/ ~LockPermits THEN Ends("failed")
     ELSE op' = [op EXCEPT !.at = IF report.state = "old" THEN "settle1" ELSE "settle2",
                           !.info = report]
  /\ opOnly

Settles ==
  /\ op.at \in {"settle1", "settle2"} /\ Answers /\ drum # "moving"
  /\ GoesOn(IF op.at = "settle1" THEN "send1" ELSE "homed") /\ opOnly

\* sendStage: taken by the unit, and acknowledged or not.
Sends(stage, place) ==
  /\ Answers /\ pending' = stage
  /\ Ends("failed") \/ op' = [op EXCEPT !.at = place, !.prior = op.info.result]
  /\ UNCHANGED <<flash, unit, drum, report, bad, lock, faults>>
SendsStage1 == op.at = "send1" /\ Sends(1, "started")
SendsStage2 == op.at = "send2" /\ Sends(2, "poll")

\* bootStage1WentOffBus: two reads in a row have failed.
SeesItGone == op.at = "started" /\ GoesOn("home1") /\ opOnly
\* Only a home is waited for, and whether that or the home went well is not asked.  A drum
\* that has begun to move since counts as homed if it was.
IsHomed == op.at = "homed" /\ Answers /\ drum # "unhomed" /\ GoesOn("send2") /\ opOnly
IsNotHomed == op.at = "homed" /\ GoesOn("home2") /\ opOnly
After(place) == IF place = "home1" THEN "check1" ELSE "check2"
Homes ==
  /\ op.at \in {"home1", "home2"} /\ Answers /\ drum' = "moving" /\ GoesOn(After(op.at))
  /\ UNCHANGED <<flash, unit, pending, report, bad, lock, faults>>
HomesNot == op.at \in {"home1", "home2"} /\ GoesOn(After(op.at)) /\ opOnly

\* The report is read again: stage 1 must have worked.
Checks ==
  /\ op.at \in {"check1", "check2"} /\ Answers
  /\ IF op.at = "check1" /\ report.state # "page7Installed" THEN Ends("failed")
     ELSE op' = [op EXCEPT !.at = "send2", !.info = report]
  /\ opOnly

\* Mutant: a result other than before is taken for an end that is good.
PollsResult ==
  /\ op.at = "poll" /\ Answers /\ opOnly
  /\ IF report.result # op.prior THEN Ends("ok") ELSE UNCHANGED op

\* bootStage2Poll: the state decides, and a failure that is not the one of before.
Polls ==
  /\ op.at = "poll" /\ Answers /\ opOnly
  /\ IF report.state = "new" THEN Ends("ok")
     ELSE IF report.result \in Failures \ {op.prior} THEN Ends("failed") ELSE UNCHANGED op

-----------------------------------------------------------------------------
UnitStep ==
  \/ Start \/ Refuses \/ Stage1Starts \/ Stage2Starts \/ Erase \/ Stage1Writes
  \/ JumpWrites \/ MiddleWrites \/ Page0Writes \/ JumpRestores
DrumStep == Rehomes \/ Drifts \/ DrumStops
OpStep ==
  \/ Ask \/ GivesUp \/ Plans \/ Settles \/ SendsStage1 \/ SendsStage2 \/ SeesItGone
  \/ IsHomed \/ IsNotHomed \/ Homes \/ HomesNot \/ Checks \/ Polls
Next == UnitStep \/ DrumStep \/ OpStep \/ PowerLoss

Spec == Init /\ [][Next]_vars

\* There is nothing left to wait for.
InVain ==
  \/ unit.at = "dead" \/ report.state = "unknown" \/ ~LockPermits
  \/ Answers /\ pending = 0 /\ (op.at = "started" \/ (op.at = "poll" /\ report.state # "new"))
\* A read or a request that fails, a wait that runs into its limit, a drum that misses its mark.
Mishap ==
  \/ GivesUp /\ ~InVain
  \/ (SendsStage1 \/ SendsStage2) /\ op'.at = "failed"
  \/ SeesItGone /\ Answers
  \/ IsNotHomed /\ drum = "homed"
  \/ HomesNot \/ (Checks /\ drum = "moving")
  \/ DrumStops /\ drum' = "unhomed"

(* The unit's program goes on, it is asked again and again, and from some  *)
(* time on nothing goes wrong on the bus and with the drum.                *)
Fairness ==
  /\ WF_vars(UnitStep) /\ WF_vars(DrumStops) /\ WF_vars(Rehomes) /\ WF_vars(OpStep)
  /\ <>[][~Mishap]_vars

FairSpec == Spec /\ Fairness

-----------------------------------------------------------------------------
(* What must hold *)

\* The unit is where its handlers can be, and what it publishes is of the known kinds.
TypeOK ==
  /\ flash \in [Pages -> Contents] /\ lock \in [locked : BOOLEAN, readable : BOOLEAN]
  /\ unit \in Units /\ drum \in {"unhomed", "moving", "homed"} /\ pending \in 0..2
  /\ report \in Reports /\ op \in Ops
  /\ faults \in 0..MaxFaults /\ bad \in 0..MaxBad

\* Between an erase of page 0 and the write that reads back: "Brick window".
Page0IsOpen ==
  \/ unit.at \in {"jump", "page0"} /\ (unit.erased \/ unit.tries > 0)
  \/ unit.at = "restore"

\* bootStage2Rewrite: whenever the power goes the unit starts again, with a bootloader
\* that is whole or with the application that goes on; but for the two windows of page 0,
\* and for a page 0 that came out wrong on every attempt, which the unit then reports.
AlwaysStarts ==
  \/ Startable(flash) \/ Page0IsOpen \/ unit.at = "dead"
  \/ unit.at = "loop" /\ bad >= Attempts /\ report.state = "unknown"

\* bootPage7HoldsDoSpm: nothing is written with the routine in the last page unless the
\* routine is there: "calling into a blank or foreign page 7 executes garbage".
RoutineIsThere ==
  unit.at \in {"jump", "middle", "page0", "restore"} => flash[LastPage] = "new"

\* bootUpdateRun: what is reported as done is done, whatever the unit's reports were worth
\* when they were read, and stays done.
OkMeansNew == op.at = "ok" => flash = New

\* Page 0 came out wrong on every attempt, or the power went in one of the windows.
Lost == unit.at = "dead" \/ (unit.at = "loop" /\ ~Startable(flash))

\* bootRunStage, bootAutoResume, bootUpdateDecide: a unit that is asked often enough ends with
\* the new bootloader, wherever it was stopped before.
EndsNew == <>(flash = New \/ Lost \/ lock.locked)
=============================================================================

------------------------- MODULE BootSectionProofs -------------------------
(***************************************************************************)
(* What holds of a boot section of any size, with any number of attempts,  *)
(* resets and bad writes.                                                  *)
(***************************************************************************)
EXTENDS BootSection, TLAPS

\* What the pages look like at each place of the unit's program: the inductive invariant.
Half == /\ flash[LastPage] = "new" /\ \A p \in Middle : flash[p] = "new"
        /\ flash[0] # "new" /\ ~lock.locked
StageInv ==
  /\ lock.locked => flash \in {Fielded, Prev}
  /\ unit.at = "start" => Startable(flash)
  /\ unit.at = "loop" =>
       /\ Startable(flash) \/ (bad >= Attempts /\ flash[0] = "junk")
       /\ report.state = Classify(flash)
  /\ unit.at = "stage1" => \A p \in Core : flash[p] = "old"
  /\ unit.at = "jump" =>
       /\ flash[LastPage] = "new" /\ flash[0] # "new"
       /\ lock.locked \/ unit.tries <= bad
       /\ Startable(flash) \/ unit.erased \/ unit.tries > 0
  /\ unit.at = "middle" =>
       /\ flash[0] = "jump" /\ flash[LastPage] = "new"
       /\ unit.page \in Middle /\ \A p \in Middle : p < unit.page => flash[p] = "new"
  /\ unit.at = "page0" => Half /\ (unit.erased \/ flash[0] = "jump")
  /\ unit.at = "restore" => Half /\ unit.tries <= bad

\* How pages are numbered.
LEMMA PageNumbers ==
  /\ 0 \in Pages /\ LastPage \in Pages /\ 0 \in Core /\ LastPage # 0
  /\ Core \subseteq Pages /\ Middle \subseteq Pages /\ Middle \subseteq Core
  /\ \A p \in Pages : p = 0 \/ p = LastPage \/ p \in Middle
  /\ \A p \in Core : p # LastPage
  /\ 0 \notin Middle /\ LastPage \notin Middle
BY SizesAreNaturals DEF Pages, Core, Middle

\* The images, page by page.
LEMMA Images ==
  /\ New \in [Pages -> Contents] /\ Prev \in [Pages -> Contents]
  /\ Fielded \in [Pages -> Contents] /\ Installed \in [Pages -> Contents]
  /\ \A p \in Pages : New[p] = "new"
  /\ \A p \in Core : Prev[p] = "prev" /\ Fielded[p] = "old" /\ Installed[p] = "old"
  /\ Prev[LastPage] = "new" /\ Fielded[LastPage] = "blank" /\ Installed[LastPage] = "new"
BY PageNumbers DEF New, Prev, Fielded, Installed, Image, Contents

\* classifyBootSection: what each answer says of the pages.
LEMMA ClassifyFacts ==
  ASSUME NEW s \in [Pages -> Contents]
  PROVE  /\ Classify(s) \in States
         /\ Classify(s) = "new" <=> s = New
         /\ Classify(s) = "prevNew" => s = Prev
         /\ Classify(s) = "page7Installed" => s = Installed
         /\ Classify(s) = "old" => \A p \in Core : s[p] = "old"
         /\ Classify(s) = "trampoline" => s[0] = "jump"
         /\ s[0] = "junk" => Classify(s) = "unknown"
<1>1. s = New => s[0] = "new"
  BY PageNumbers, Images
<1>2. s = Prev => s[0] = "prev"
  BY PageNumbers, Images
<1>3. s = Installed => s[0] = "old"
  BY PageNumbers, Images
<1>4. (\A p \in Core : s[p] = "old") => s[0] = "old"
  BY PageNumbers
<1>5. s = Fielded => \A p \in Core : s[p] = "old"
  BY Images
<1> QED BY <1>1, <1>2, <1>3, <1>4, <1>5 DEF Classify, States

\* What a reset starts.
LEMMA StartableFacts ==
  ASSUME NEW s \in [Pages -> Contents]
  PROVE  /\ s \in {Fielded, Prev, Installed, New} => Startable(s)
         /\ (\A p \in Core : s[p] = "old") => Startable(s)
         /\ s[0] = "jump" /\ s[LastPage] = "new" => Startable(s)
<1>1. s \in {Fielded, Prev, Installed, New} =>
        s[0] \in {"old", "prev", "new"} /\ \A p \in Core : s[p] = s[0]
  BY PageNumbers, Images
<1>2. (\A p \in Core : s[p] = "old") => s[0] = "old"
  BY PageNumbers
<1> QED BY <1>1, <1>2 DEF Startable

\* A fielded unit, and one with an image of before, start with a bootloader that is whole.
LEMMA InitHolds == Init => TypeOK /\ StageInv
<1> SUFFICES ASSUME Init PROVE TypeOK /\ StageInv
  OBVIOUS
<1>1. flash \in [Pages -> Contents] /\ Startable(flash)
  BY Images, StartableFacts DEF Init
<1>2. TypeOK
  BY <1>1, SizesAreNaturals DEF Init, TypeOK, At, OpIdle, Over, States, Results, Reports, Units, Ops
<1>3. StageInv
  BY <1>1 DEF Init, StageInv, At
<1> QED BY <1>2, <1>3

\* The steps of the bus, the drum and the master leave the boot section and the unit's
\* program alone.
LEMMA OthersStay ==
  ASSUME TypeOK, StageInv, DrumStep \/ OpStep \/ UNCHANGED vars
  PROVE  TypeOK' /\ StageInv'
<1>1. UNCHANGED <<flash, lock, unit, report, bad>>
  BY DEF DrumStep, Rehomes, Drifts, DrumStops, OpStep, Ask, GivesUp, Plans, Settles,
         SendsStage1, SendsStage2, Sends, SeesItGone, IsHomed, IsNotHomed, Homes, HomesNot,
         Checks, Polls, opOnly, unitVars, unitRest, vars
<1>2. StageInv'
  BY <1>1 DEF StageInv, Half
<1>3. drum' \in {"unhomed", "moving", "homed"} /\ pending' \in 0..2 /\ faults' \in 0..MaxFaults
  BY SizesAreNaturals
     DEF TypeOK, DrumStep, Rehomes, Drifts, DrumStops, OpStep, Ask, GivesUp, Plans, Settles,
         SendsStage1, SendsStage2, Sends, SeesItGone, IsHomed, IsNotHomed, Homes, HomesNot,
         Checks, Polls, opOnly, unitVars, unitRest, vars
<1>4. op' \in Ops
  <2>1. CASE DrumStep \/ UNCHANGED vars
    BY <2>1 DEF TypeOK, DrumStep, Rehomes, Drifts, DrumStops, unitRest, vars
  <2>2. CASE OpStep
    <3> DEFINE Reported(place) == [op EXCEPT !.at = place, !.info = report]
    <3>1. OpIdle.info \in Reports /\ OpIdle.prior \in Results
      BY DEF OpIdle, States, Results, Reports
    <3>2. report \in Reports /\ op.info \in Reports /\ op.info.result \in Results
      BY DEF TypeOK, Ops, Reports
    <3>3. \A place \in {"ok", "failed", "plan"} : [OpIdle EXCEPT !.at = place] \in Ops
      BY <3>1 DEF OpIdle, Over, Ops
    <3>4. CASE Ask \/ GivesUp \/ Polls
      BY <3>3, <3>4 DEF TypeOK, Ask, GivesUp, Polls, Ends
    <3>5. CASE Settles \/ SeesItGone \/ IsHomed \/ IsNotHomed \/ Homes \/ HomesNot
      BY <3>5 DEF TypeOK, Settles, SeesItGone, IsHomed, IsNotHomed, Homes, HomesNot, GoesOn,
                  After, Ops
    <3>6. CASE Plans \/ Checks
      <4>1. \A place \in {"settle1", "settle2", "send2"} : Reported(place) \in Ops
        BY <3>2 DEF TypeOK, Ops
      <4>2. op' \in {[OpIdle EXCEPT !.at = "ok"], [OpIdle EXCEPT !.at = "failed"],
                     Reported("settle1"), Reported("settle2"), Reported("send2")}
        BY <3>6 DEF Plans, Checks, Ends
      <4> HIDE DEF Reported
      <4> QED BY <3>3, <4>1, <4>2
    <3>7. CASE SendsStage1 \/ SendsStage2
      BY <3>2, <3>3, <3>7 DEF TypeOK, SendsStage1, SendsStage2, Sends, Ends, Ops
    <3> QED BY <2>2, <3>4, <3>5, <3>6, <3>7 DEF OpStep
  <2> QED BY <2>1, <2>2 DEF vars
<1>5. TypeOK'
  BY <1>1, <1>3, <1>4 DEF TypeOK
<1> QED BY <1>2, <1>5

-----------------------------------------------------------------------------
(* What the parts of the unit's steps leave behind. *)

\* Erasing and writing change the page aimed at, and a locked section not at all.
LEMMA ProgramsFacts ==
  ASSUME TypeOK, Writing, Programs, Target \in Pages
  PROVE  /\ flash' \in [Pages -> Contents] /\ bad' \in 0..MaxBad /\ bad <= bad'
         /\ \A p \in Pages : p # Target => flash'[p] = flash[p]
         /\ lock.locked => flash' = flash
         /\ ~lock.locked => flash'[Target] \in {Wanted, "junk"}
         /\ ~lock.locked /\ flash'[Target] # Wanted => flash'[Target] = "junk" /\ bad' = bad + 1
BY SizesAreNaturals DEF TypeOK, Programs, Contents, Wanted

\* Every place of the unit's program can be entered.
LEMMA PlacesAreUnits ==
  /\ \A place \in {"start", "loop", "stage1", "jump", "dead"} : At(place) \in Units
  /\ \A resume \in BOOLEAN :
       /\ [At("page0") EXCEPT !.resume = resume] \in Units
       /\ [At("restore") EXCEPT !.resume = resume] \in Units
       /\ \A q \in Middle : [At("middle") EXCEPT !.page = q, !.resume = resume] \in Units
<1>1. 0 \in 0..(Attempts - 1)
  BY SizesAreNaturals
<1> QED BY <1>1 DEF Units, At

\* A reset.
LEMMA ResetsHold ==
  ASSUME flash' \in [Pages -> Contents], Resets(flash'),
         lock'.locked => flash' \in {Fielded, Prev}
  PROVE  /\ unit' \in Units /\ pending' \in 0..2 /\ drum' \in {"unhomed", "moving", "homed"}
         /\ StageInv'
<1>1. unit' \in {At("start"), At("dead")} /\ (unit'.at = "start" => Startable(flash'))
  BY DEF Resets, At
<1>2. unit' \in Units
  BY <1>1, PlacesAreUnits
<1>3. StageInv'
  BY <1>1 DEF StageInv, At, Startable
<1> QED BY <1>2, <1>3 DEF Resets

\* The end of a stage.
LEMMA PublishesHolds ==
  ASSUME TypeOK, flash' \in [Pages -> Contents], NEW r \in Results, Publishes(r),
         lock'.locked => flash' \in {Fielded, Prev},
         Startable(flash') \/ (bad' >= Attempts /\ flash'[0] = "junk")
  PROVE  unit' \in Units /\ report' \in Reports /\ StageInv'
<1>1. unit' = At("loop") /\ report'.state = Classify(flash')
  BY DEF Publishes
<1>2. unit' \in Units
  BY <1>1, PlacesAreUnits
<1>3. report' \in Reports
  <2>1. Classify(flash') \in States
    BY ClassifyFacts
  <2> QED BY <2>1 DEF Publishes, Kept, Reports, Results
<1>4. StageInv'
  BY <1>1 DEF StageInv, At, Startable, Classify
<1> QED BY <1>2, <1>3, <1>4

\* On to the next page, with the trampoline in page 0 and the pages up to p written.
LEMMA GoesOnHolds ==
  ASSUME NEW p \in Core, NEW resume \in BOOLEAN, ~lock'.locked,
         flash'[0] = "jump", flash'[LastPage] = "new",
         \A q \in Middle : q <= p => flash'[q] = "new",
         GoesOnAfter(flash', p, resume)
  PROVE  unit' \in Units /\ StageInv'
<1>1. CASE Missing(flash', p) = {} /\ unit' = [At("page0") EXCEPT !.resume = resume]
  <2>1. \A q \in Middle : flash'[q] = "new"
    BY <1>1 DEF Missing, Middle, Core
  <2>2. StageInv'
    BY <1>1, <2>1 DEF StageInv, Half, At
  <2> QED BY <1>1, <2>2, PlacesAreUnits
<1>2. ASSUME NEW q \in Missing(flash', p), \A o \in Missing(flash', p) : q <= o,
             unit' = [At("middle") EXCEPT !.page = q, !.resume = resume]
      PROVE  unit' \in Units /\ StageInv'
  <2>1. q \in Middle /\ \A o \in Middle : o < q => flash'[o] = "new"
    BY <1>2 DEF Missing, Middle, Core
  <2>2. StageInv'
    BY <1>2, <2>1 DEF StageInv, At
  <2> QED BY <1>2, <2>1, <2>2, PlacesAreUnits
<1> QED BY <1>1, <1>2 DEF GoesOnAfter

\* The first write of stage 2, or the first that is still missing.
LEMMA Stage2Holds ==
  ASSUME TypeOK, StageInv, flash' = flash, lock' = lock, bad' = bad, NEW resume \in BOOLEAN,
         flash[LastPage] = "new", flash[0] # "new", Startable(flash), Stage2(flash, resume)
  PROVE  unit' \in Units /\ StageInv'
<1>1. CASE flash[0] = "jump"
  <2>1. ~lock.locked
    BY <1>1, PageNumbers, Images DEF StageInv
  <2>2. GoesOnAfter(flash', 0, resume)
    BY <1>1 DEF Stage2
  <2>3. \A q \in Middle : q <= 0 => flash'[q] = "new"
    BY DEF Middle
  <2> QED BY <1>1, <2>1, <2>2, <2>3, PageNumbers, GoesOnHolds
<1>2. CASE flash[0] # "jump"
  <2>1. unit' = At("jump")
    BY <1>2 DEF Stage2
  <2>2. 0 <= bad /\ (lock.locked => flash \in {Fielded, Prev})
    BY SizesAreNaturals DEF TypeOK, StageInv
  <2>3. StageInv'
    BY <2>1, <2>2 DEF StageInv, At, Startable
  <2> QED BY <2>1, <2>3, PlacesAreUnits
<1> QED BY <1>1, <1>2

\* setup and the first half of a stage.
LEMMA BeginningsHold ==
  ASSUME TypeOK, StageInv, Start \/ Refuses \/ Stage1Starts \/ Stage2Starts
  PROVE  TypeOK' /\ StageInv'
<1>0. UNCHANGED <<unitRest, flash, drum, bad>> /\ pending' \in {0, pending}
  BY DEF Start, Refuses, Stage1Starts, Stage2Starts, Begins
<1>1. /\ flash' = flash /\ lock' = lock /\ op' = op /\ faults' = faults /\ bad' = bad
      /\ drum' = drum /\ pending' \in 0..2
  BY <1>0 DEF TypeOK, unitRest
<1>2. flash \in [Pages -> Contents] /\ (lock.locked => flash \in {Fielded, Prev})
  BY DEF TypeOK, StageInv
<1> SUFFICES unit' \in Units /\ report' \in Reports /\ StageInv'
  BY <1>1 DEF TypeOK
<1>3. CASE Start
  <2>1. unit.at = "start" /\ Startable(flash)
    BY <1>3 DEF Start, StageInv
  <2>2. CASE Classify(flash) = "trampoline" /\ flash[LastPage] = "new"
    <3>1. flash[0] = "jump"
      BY <1>2, <2>2, ClassifyFacts
    <3>2. Stage2(flash, TRUE) /\ report' = report
      BY <1>3, <2>2 DEF Start
    <3>3. unit' \in Units /\ StageInv'
      BY <1>1, <2>1, <2>2, <3>1, <3>2, Stage2Holds
    <3> QED BY <3>2, <3>3 DEF TypeOK
  <2>3. CASE ~(Classify(flash) = "trampoline" /\ flash[LastPage] = "new")
    <3>1. \E r \in {"refusedState", "none"} :
            unit' = At("loop") /\ report' = [state |-> Classify(flash), result |-> r]
      BY <1>3, <2>3 DEF Start
    <3>2. report' \in Reports
      BY <1>2, <3>1, ClassifyFacts DEF Reports, Results, Failures
    <3>3. StageInv'
      BY <1>1, <1>2, <2>1, <3>1 DEF StageInv, At, Startable, Classify
    <3> QED BY <3>1, <3>2, <3>3, PlacesAreUnits
  <2> QED BY <2>2, <2>3
<1>4. CASE Refuses
  <2>1. unit.at = "loop" /\ Publishes(Refusal(pending)) /\ Refusal(pending) \in Results
    BY <1>4 DEF Refuses, Begins, Refusal, Results, Failures
  <2>2. Startable(flash') \/ (bad' >= Attempts /\ flash'[0] = "junk")
    BY <1>1, <2>1 DEF StageInv, Startable
  <2> QED BY <1>1, <1>2, <2>1, <2>2, PublishesHolds
<1>5. CASE Stage1Starts
  <2>1. unit' = At("stage1") /\ report' = report /\ Classify(flash) = "old"
    BY <1>5 DEF Stage1Starts, Refusal, MayRun
  <2>2. \A p \in Core : flash[p] = "old"
    BY <1>2, <2>1, ClassifyFacts
  <2>3. StageInv'
    BY <1>1, <1>2, <2>1, <2>2 DEF StageInv, At
  <2> QED BY <2>1, <2>3, PlacesAreUnits DEF TypeOK
<1>6. CASE Stage2Starts
  <2>1. /\ Stage2(flash, FALSE) /\ report' = report /\ unit.at = "loop"
        /\ Classify(flash) \in {"page7Installed", "trampoline", "prevNew"}
        /\ flash[LastPage] = "new"
    <3>1. /\ Stage2(flash, FALSE) /\ report' = report /\ unit.at = "loop"
          /\ Refusal(2) = "none"
      BY <1>6 DEF Stage2Starts, Begins
    <3>2. MayRun(2) /\ flash[LastPage] = "new"
      BY <3>1 DEF Refusal
    <3>3. Classify(flash) \in {"page7Installed", "trampoline", "prevNew"}
      BY <3>2 DEF MayRun
    <3> QED BY <3>1, <3>2, <3>3
  <2>2. flash[0] \in {"old", "prev", "jump"}
    BY <1>2, <2>1, ClassifyFacts, Images, PageNumbers
  <2>3. Startable(flash)
    BY <2>1, <2>2 DEF StageInv
  <2>4. unit' \in Units /\ StageInv'
    BY <1>1, <2>1, <2>2, <2>3, Stage2Holds
  <2> QED BY <2>1, <2>4 DEF TypeOK
<1> QED BY <1>3, <1>4, <1>5, <1>6

\* The first half of a page write.
LEMMA EraseHolds ==
  ASSUME TypeOK, StageInv, Erase
  PROVE  TypeOK' /\ StageInv'
<1>1. /\ lock' = lock /\ report' = report /\ bad' = bad /\ Writing /\ ~unit.erased
      /\ unit' = [unit EXCEPT !.erased = TRUE]
      /\ flash' = IF lock.locked THEN flash ELSE [flash EXCEPT ![Target] = "blank"]
      /\ UNCHANGED <<drum, pending, op, faults>>
  BY DEF Erase
<1>2. TypeOK'
  BY <1>1 DEF TypeOK, Units, Contents
<1>3. StageInv'
  <2>1. CASE unit.at = "stage1"
    BY <1>1, <2>1, PageNumbers DEF TypeOK, StageInv, Units, Target
  <2>2. CASE unit.at = "jump"
    BY <1>1, <2>2, PageNumbers DEF TypeOK, StageInv, Units, Target
  <2>3. CASE unit.at = "middle"
    BY <1>1, <2>3, PageNumbers, Images DEF TypeOK, StageInv, Units, Target, Middle
  <2>4. CASE unit.at \in {"page0", "restore"}
    BY <1>1, <2>4, PageNumbers DEF TypeOK, StageInv, Half, Units, Target
  <2> QED BY <1>1, <2>1, <2>2, <2>3, <2>4 DEF Writing
<1> QED BY <1>2, <1>3

\* The page aimed at is one of the section.
LEMMA TargetIsPage == TypeOK => Target \in Pages
BY PageNumbers DEF TypeOK, Units, Target

\* Stage 1 touches only the last page, and then resets.
LEMMA Stage1Holds ==
  ASSUME TypeOK, StageInv, Stage1Writes
  PROVE  TypeOK' /\ StageInv'
<1>1. /\ unit.at = "stage1" /\ Programs /\ Resets(flash')
      /\ lock' = lock /\ op' = op /\ faults' = faults /\ report' = report
  BY DEF Stage1Writes, unitRest
<1>2. Writing
  BY <1>1 DEF Writing
<1>3. flash' \in [Pages -> Contents] /\ bad' \in 0..MaxBad /\ (lock.locked => flash' = flash)
  BY <1>1, <1>2, TargetIsPage, ProgramsFacts
<1>4. /\ unit' \in Units /\ pending' \in 0..2 /\ drum' \in {"unhomed", "moving", "homed"}
      /\ StageInv'
  BY <1>1, <1>3, ResetsHold DEF StageInv
<1> QED BY <1>1, <1>3, <1>4 DEF TypeOK

\* A trampoline that does not come out right is tried again, and then given up.
LEMMA JumpHolds ==
  ASSUME TypeOK, StageInv, JumpWrites
  PROVE  TypeOK' /\ StageInv'
<1>1. /\ unit.at = "jump" /\ Programs /\ lock' = lock /\ op' = op /\ faults' = faults
      /\ drum' = drum /\ pending' = pending
  BY DEF JumpWrites, unitRest
<1>2. Target = 0 /\ Wanted = "jump" /\ Writing
  BY <1>1 DEF Target, Wanted, Writing
<1>3. /\ flash' \in [Pages -> Contents] /\ bad' \in 0..MaxBad /\ bad <= bad'
      /\ \A p \in Pages : p # 0 => flash'[p] = flash[p]
      /\ lock.locked => flash' = flash
      /\ ~lock.locked => flash'[0] \in {"jump", "junk"}
      /\ ~lock.locked /\ flash'[0] # "jump" => flash'[0] = "junk" /\ bad' = bad + 1
  BY <1>1, <1>2, TargetIsPage, ProgramsFacts
<1>4. /\ flash[LastPage] = "new" /\ flash[0] # "new" /\ flash'[LastPage] = "new"
      /\ lock.locked => flash \in {Fielded, Prev} /\ flash[0] # "jump"
      /\ lock.locked \/ unit.tries <= bad
  BY <1>1, <1>3, PageNumbers, Images DEF StageInv
<1> SUFFICES unit' \in Units /\ report' \in Reports /\ StageInv'
  BY <1>1, <1>3 DEF TypeOK
<1>5. CASE JumpWritten
  <2>1. GoesOnAfter(flash', 0, unit.resume) /\ report' = report
    BY <1>1, <1>5 DEF JumpWrites
  <2>2. ~lock'.locked /\ flash'[0] = "jump"
    BY <1>1, <1>3, <1>4, <1>5 DEF JumpWritten
  <2>3. unit.resume \in BOOLEAN /\ \A q \in Middle : q <= 0 => flash'[q] = "new"
    BY DEF TypeOK, Units, Middle
  <2>4. unit' \in Units /\ StageInv'
    BY <1>4, <2>1, <2>2, <2>3, PageNumbers, GoesOnHolds
  <2> QED BY <2>1, <2>4 DEF TypeOK
<1>6. CASE ~JumpWritten /\ unit.tries + 1 < Attempts
  <2>1. unit' = [unit EXCEPT !.erased = FALSE, !.tries = @ + 1] /\ report' = report
    BY <1>1, <1>6 DEF JumpWrites, TriesAgain
  <2>2. unit.tries + 1 \in 0..(Attempts - 1)
    BY <1>6, SizesAreNaturals DEF TypeOK, Units
  <2>3. unit' \in Units
    BY <2>1, <2>2 DEF TypeOK, Units
  <2>4. /\ unit'.at = "jump" /\ unit'.tries = unit.tries + 1 /\ unit'.tries > 0
    BY <1>1, <2>1, <2>2 DEF TypeOK, Units
  <2>5. flash'[0] # "new" /\ (lock.locked \/ unit'.tries <= bad')
    <3>1. bad \in Nat /\ unit.tries \in Nat
      BY SizesAreNaturals DEF TypeOK, Units
    <3> QED BY <1>3, <1>4, <1>6, <2>4, <3>1 DEF JumpWritten
  <2>6. StageInv'
    BY <1>1, <1>3, <1>4, <2>4, <2>5 DEF StageInv
  <2> QED BY <2>1, <2>3, <2>6 DEF TypeOK
<1>7. CASE ~JumpWritten /\ ~(unit.tries + 1 < Attempts)
  <2>1. Publishes("verifyFailed")
    BY <1>1, <1>7 DEF JumpWrites
  <2>2. CASE lock.locked
    BY <1>1, <1>3, <1>4, <2>1, <2>2, StartableFacts, PublishesHolds DEF Results, Failures
  <2>3. CASE ~lock.locked
    <3>1. bad' >= Attempts /\ flash'[0] = "junk"
      BY <1>3, <1>4, <1>7, <2>3, SizesAreNaturals DEF JumpWritten, TypeOK, Units
    <3> QED BY <1>1, <1>3, <2>1, <2>3, <3>1, PublishesHolds DEF Results, Failures
  <2> QED BY <2>2, <2>3
<1> QED BY <1>5, <1>6, <1>7

\* Page by page behind a trampoline; one that comes out wrong leaves the trampoline.
LEMMA MiddleHolds ==
  ASSUME TypeOK, StageInv, MiddleWrites
  PROVE  TypeOK' /\ StageInv'
<1>1. /\ unit.at = "middle" /\ Programs /\ lock' = lock /\ op' = op /\ faults' = faults
      /\ drum' = drum /\ pending' = pending
  BY DEF MiddleWrites, unitRest
<1>2. Target = unit.page /\ unit.page \in Middle /\ Writing
  BY <1>1 DEF Target, Writing, StageInv
<1>3. /\ flash' \in [Pages -> Contents] /\ bad' \in 0..MaxBad
      /\ \A p \in Pages : p # unit.page => flash'[p] = flash[p]
  BY <1>1, <1>2, TargetIsPage, ProgramsFacts
<1>4. /\ ~lock.locked /\ flash'[0] = "jump" /\ flash'[LastPage] = "new"
      /\ \A p \in Middle : p < unit.page => flash'[p] = "new"
  BY <1>1, <1>2, <1>3, PageNumbers, Images DEF StageInv, Middle
<1> SUFFICES unit' \in Units /\ report' \in Reports /\ StageInv'
  BY <1>1, <1>3 DEF TypeOK
<1>5. CASE flash'[unit.page] = "new"
  <2>1. GoesOnAfter(flash', unit.page, unit.resume) /\ report' = report
    BY <1>1, <1>5 DEF MiddleWrites
  <2>2. unit.page \in Core /\ \A q \in Middle : q <= unit.page => flash'[q] = "new"
    BY <1>2, <1>4, <1>5, PageNumbers DEF Middle
  <2>3. unit' \in Units /\ StageInv'
    <3>1. unit.resume \in BOOLEAN /\ ~lock'.locked
      BY <1>1, <1>4 DEF TypeOK, Units
    <3> QED BY <1>4, <2>1, <2>2, <3>1, GoesOnHolds
  <2> QED BY <2>1, <2>3 DEF TypeOK
<1>6. CASE flash'[unit.page] # "new"
  <2>1. Publishes("verifyFailed")
    BY <1>1, <1>6 DEF MiddleWrites
  <2> QED BY <1>1, <1>3, <1>4, <2>1, StartableFacts, PublishesHolds DEF Results, Failures
<1> QED BY <1>5, <1>6

\* The write of page 0 ends the job, or the trampoline is to be written again.
LEMMA Page0Holds ==
  ASSUME TypeOK, StageInv, Page0Writes
  PROVE  TypeOK' /\ StageInv'
<1>1. /\ unit.at = "page0" /\ Programs /\ lock' = lock /\ op' = op /\ faults' = faults
      /\ drum' = drum /\ pending' = pending
  BY DEF Page0Writes, unitRest
<1>2. Target = 0 /\ Writing /\ Half
  BY <1>1 DEF Target, Writing, StageInv
<1>3. /\ flash' \in [Pages -> Contents] /\ bad' \in 0..MaxBad
      /\ \A p \in Pages : p # 0 => flash'[p] = flash[p]
  BY <1>1, <1>2, TargetIsPage, ProgramsFacts
<1>4. \A p \in Pages : p # 0 => flash'[p] = "new"
  BY <1>2, <1>3, PageNumbers DEF Half
<1> SUFFICES unit' \in Units /\ report' \in Reports /\ StageInv'
  BY <1>1, <1>3 DEF TypeOK
<1>5. CASE flash'[0] = "new"
  <2>1. Startable(flash')
    BY <1>4, <1>5, PageNumbers DEF Startable
  <2>2. \E r \in {"stage2Ok", "verifyFailed"} : Publishes(r)
    BY <1>1, <1>5 DEF Page0Writes
  <2>3. {"stage2Ok", "verifyFailed"} \subseteq Results /\ ~lock'.locked
    BY <1>1, <1>2 DEF Results, Failures, Half
  <2> QED BY <1>1, <1>3, <2>1, <2>2, <2>3, PublishesHolds
<1>6. CASE flash'[0] # "new"
  <2>1. unit' = [At("restore") EXCEPT !.resume = unit.resume] /\ report' = report
    BY <1>1, <1>6 DEF Page0Writes
  <2>2. unit.resume \in BOOLEAN
    BY DEF TypeOK, Units
  <2>3. Half' /\ 0 <= bad'
    BY <1>1, <1>2, <1>3, <1>4, <1>6, PageNumbers, SizesAreNaturals DEF Half
  <2>4. StageInv'
    BY <1>1, <2>1, <2>3 DEF StageInv, Half, At
  <2> QED BY <2>1, <2>2, <2>4, PlacesAreUnits DEF TypeOK
<1> QED BY <1>5, <1>6

\* The trampoline written again after a page 0 that came out wrong.
LEMMA RestoreHolds ==
  ASSUME TypeOK, StageInv, JumpRestores
  PROVE  TypeOK' /\ StageInv'
<1>1. /\ unit.at = "restore" /\ Programs /\ lock' = lock /\ op' = op /\ faults' = faults
      /\ drum' = drum /\ pending' = pending
  BY DEF JumpRestores, unitRest
<1>2. Target = 0 /\ Wanted = "jump" /\ Writing /\ Half /\ unit.tries <= bad
  BY <1>1 DEF Target, Wanted, Writing, StageInv
<1>3. /\ flash' \in [Pages -> Contents] /\ bad' \in 0..MaxBad
      /\ \A p \in Pages : p # 0 => flash'[p] = flash[p]
      /\ flash'[0] \in {"jump", "junk"}
      /\ flash'[0] # "jump" => bad' = bad + 1
  BY <1>1, <1>2, TargetIsPage, ProgramsFacts DEF Half
<1>4. Half'
  BY <1>1, <1>2, <1>3, PageNumbers DEF Half
<1> SUFFICES unit' \in Units /\ report' \in Reports /\ StageInv'
  BY <1>1, <1>3 DEF TypeOK
<1>5. CASE ~JumpWritten /\ unit.tries + 1 < Attempts
  <2>1. unit' = [unit EXCEPT !.erased = FALSE, !.tries = @ + 1] /\ report' = report
    BY <1>1, <1>5 DEF JumpRestores, TriesAgain
  <2>2. unit.tries + 1 \in 0..(Attempts - 1)
    BY <1>5, SizesAreNaturals DEF TypeOK, Units
  <2>3. unit' \in Units
    BY <2>1, <2>2 DEF TypeOK, Units
  <2>4. unit'.at = "restore" /\ unit'.tries = unit.tries + 1
    BY <1>1, <2>1 DEF TypeOK, Units
  <2>5. unit'.tries <= bad'
    BY <1>2, <1>3, <1>5, <2>4, SizesAreNaturals DEF JumpWritten, TypeOK, Units
  <2>6. StageInv'
    BY <1>1, <1>2, <1>4, <2>4, <2>5 DEF StageInv, Half
  <2> QED BY <2>1, <2>3, <2>6 DEF TypeOK
<1>6. CASE JumpWritten \/ ~(unit.tries + 1 < Attempts)
  <2>1. Publishes("verifyFailed") /\ ~lock'.locked
    BY <1>1, <1>2, <1>6 DEF JumpRestores, Half
  <2>2. CASE JumpWritten
    BY <1>3, <1>4, <2>1, <2>2, StartableFacts, PublishesHolds
       DEF JumpWritten, Half, Results, Failures
  <2>3. CASE ~JumpWritten
    <3>1. bad' >= Attempts /\ flash'[0] = "junk"
      BY <1>2, <1>3, <1>6, <2>3, SizesAreNaturals DEF JumpWritten, TypeOK, Units
    <3> QED BY <1>3, <2>1, <3>1, PublishesHolds DEF Results, Failures
  <2> QED BY <2>2, <2>3
<1> QED BY <1>5, <1>6

\* Power lost at any point.
LEMMA PowerLossHolds ==
  ASSUME TypeOK, StageInv, PowerLoss
  PROVE  TypeOK' /\ StageInv'
<1>1. /\ Resets(flash') /\ lock' = lock /\ op' = op /\ report' = report /\ bad' = bad
      /\ faults' = faults + 1 /\ faults < MaxFaults
      /\ flash' = flash \/ (~lock.locked /\ flash' = [flash EXCEPT ![Target] = "junk"])
  BY DEF PowerLoss
<1>2. flash' \in [Pages -> Contents] /\ faults' \in 0..MaxFaults
  BY <1>1, TargetIsPage, SizesAreNaturals DEF TypeOK, Contents
<1>3. lock'.locked => flash' \in {Fielded, Prev}
  BY <1>1 DEF StageInv
<1>4. /\ unit' \in Units /\ pending' \in 0..2 /\ drum' \in {"unhomed", "moving", "homed"}
      /\ StageInv'
  BY <1>1, <1>2, <1>3, ResetsHold
<1> QED BY <1>1, <1>2, <1>4 DEF TypeOK

-----------------------------------------------------------------------------
(* What holds of every run. *)

\* Every step of the unit, of the bus and of the master keeps the invariant.
LEMMA StepHolds == TypeOK /\ StageInv /\ [Next]_vars => TypeOK' /\ StageInv'
<1> SUFFICES ASSUME TypeOK, StageInv, [Next]_vars PROVE TypeOK' /\ StageInv'
  OBVIOUS
<1>1. CASE DrumStep \/ OpStep \/ UNCHANGED vars
  BY <1>1, OthersStay
<1>2. CASE Start \/ Refuses \/ Stage1Starts \/ Stage2Starts
  BY <1>2, BeginningsHold
<1>3. CASE Erase \/ Stage1Writes
  BY <1>3, EraseHolds, Stage1Holds
<1>4. CASE JumpWrites \/ MiddleWrites \/ Page0Writes \/ JumpRestores
  BY <1>4, JumpHolds, MiddleHolds, Page0Holds, RestoreHolds
<1>5. CASE PowerLoss
  BY <1>5, PowerLossHolds
<1> QED BY <1>1, <1>2, <1>3, <1>4, <1>5 DEF Next, UnitStep

\* bootRunStage and its callees: the pages are, at every place of the program and after every
\* reset, what the next write counts on.
THEOREM StagesHold == Spec => [](TypeOK /\ StageInv)
BY InitHolds, StepHolds, PTL DEF Spec

\* The values of every variable, for a section of any size.
THEOREM TypesHold == Spec => []TypeOK
BY StagesHold, PTL

\* bootPage7HoldsDoSpm: no page is written with a routine that is not there.
THEOREM RoutineHolds == Spec => []RoutineIsThere
<1>1. TypeOK /\ StageInv => RoutineIsThere
  BY DEF StageInv, Half, RoutineIsThere
<1> QED BY <1>1, StagesHold, PTL

\* bootStage2Rewrite: outside the two windows of page 0 a power loss costs nothing that a
\* later try does not mend.
THEOREM StartsHold == Spec => []AlwaysStarts
<1>1. TypeOK /\ StageInv => AlwaysStarts
  <2> SUFFICES ASSUME TypeOK, StageInv PROVE AlwaysStarts
    OBVIOUS
  <2>1. flash \in [Pages -> Contents]
    BY DEF TypeOK
  <2>2. CASE unit.at = "loop"
    BY <2>1, <2>2, ClassifyFacts DEF StageInv, AlwaysStarts
  <2>3. CASE unit.at \in {"start", "dead"}
    BY <2>3 DEF StageInv, AlwaysStarts
  <2>4. CASE unit.at = "stage1"
    BY <2>1, <2>4, StartableFacts DEF StageInv, AlwaysStarts
  <2>5. CASE unit.at \in {"jump", "middle", "page0", "restore"}
    BY <2>1, <2>5, StartableFacts DEF StageInv, Half, AlwaysStarts, Page0IsOpen
  <2> QED BY <2>2, <2>3, <2>4, <2>5 DEF TypeOK, Units
<1> QED BY <1>1, StagesHold, PTL

\* A section that holds the new bootloader is not written again.
LEMMA NewStays == TypeOK /\ StageInv /\ flash = New /\ [Next]_vars => flash' = New
<1> SUFFICES ASSUME TypeOK, StageInv, flash = New, [Next]_vars PROVE flash' = flash
  OBVIOUS
<1>1. flash[0] = "new" /\ 0 \in Core
  BY Images, PageNumbers
<1>2. ~Writing
  BY <1>1 DEF StageInv, Half, Writing
<1>3. CASE UnitStep
  BY <1>2, <1>3 DEF UnitStep, Start, Refuses, Stage1Starts, Stage2Starts, Begins, Erase, Writing,
       Stage1Writes, JumpWrites, MiddleWrites, Page0Writes, JumpRestores
<1>4. CASE DrumStep \/ UNCHANGED vars
  BY <1>4 DEF DrumStep, Rehomes, Drifts, DrumStops, vars, unitVars
<1>5. CASE OpStep
  BY <1>5 DEF OpStep, Ask, GivesUp, Plans, Settles, SendsStage1, SendsStage2, Sends, SeesItGone,
       IsHomed, IsNotHomed, Homes, HomesNot, Checks, Polls, opOnly, unitVars
<1>6. CASE PowerLoss
  BY <1>2, <1>6 DEF PowerLoss
<1> QED BY <1>3, <1>4, <1>5, <1>6 DEF Next

\* bootUpdateRun: an update that is reported as done is done, and stays done.
THEOREM OkHolds == Spec => []OkMeansNew
<1>1. Init => OkMeansNew
  BY DEF Init, OpIdle, OkMeansNew
<1>2. TypeOK /\ StageInv /\ OkMeansNew /\ [Next]_vars => OkMeansNew'
  <2> SUFFICES ASSUME TypeOK, StageInv, OkMeansNew, [Next]_vars, op'.at = "ok"
               PROVE  flash' = New
    BY DEF OkMeansNew
  <2>1. CASE op.at = "ok"
    BY <2>1, NewStays DEF OkMeansNew
  <2>2. CASE op.at # "ok"
    <3>1. ~(UnitStep \/ DrumStep \/ PowerLoss \/ UNCHANGED vars)
      BY <2>2 DEF UnitStep, Start, Refuses, Stage1Starts, Stage2Starts, Begins, Erase,
           Stage1Writes, JumpWrites, MiddleWrites, Page0Writes, JumpRestores, unitRest,
           DrumStep, Rehomes, Drifts, DrumStops, PowerLoss, vars
    <3>2. ~(Ask \/ GivesUp \/ SendsStage1 \/ SendsStage2)
      BY DEF Ask, GivesUp, SendsStage1, SendsStage2, Sends, Ends, OpIdle, TypeOK, Ops
    <3>3. ~(Settles \/ SeesItGone \/ IsHomed \/ IsNotHomed \/ Homes \/ HomesNot \/ Checks)
      BY DEF Settles, SeesItGone, IsHomed, IsNotHomed, Homes, HomesNot, Checks, GoesOn, After,
           Ends, OpIdle, TypeOK, Ops
    <3>4. Plans \/ Polls
      BY <3>1, <3>2, <3>3 DEF Next, OpStep
    <3>5. unit.at = "loop" /\ report.state = "new" /\ flash' = flash
      BY <2>2, <3>4 DEF Plans, Polls, Answers, Ends, OpIdle, opOnly, unitVars, TypeOK, Ops
    <3> QED BY <3>5, ClassifyFacts DEF TypeOK, StageInv
  <2> QED BY <2>1, <2>2
<1> QED BY <1>1, <1>2, StagesHold, PTL DEF Spec
=============================================================================

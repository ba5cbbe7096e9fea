--------------------------- MODULE ReflashProofs ---------------------------
(***************************************************************************)
(* What holds of a row of any size, with any mixture of bootloaders, any   *)
(* image and any number of mishaps: no half written program looks whole,   *)
(* an image that does not answer costs few units, and a run in which       *)
(* nothing goes wrong fails none.                                          *)
(***************************************************************************)
EXTENDS Reflash, TLAPS, WellFoundedInduction, NaturalsInduction, FiniteSetTheorems

Streaming == {"write", "check"}
Written1  == {"exit", "await"}
Busy      == {"ask", "order", "enter", "hand", "flash", "again"} \cup Streaming \cup Written1
Resting   == {"loop", "probe", "poll", "rescue"}

\* A write is latched only in a bootloader.
Calm(rec) == rec.at \notin InBoot => rec.latch = NoLatch
UnitsOK == unit \in [Units -> UnitRecs] /\ \A u \in Units : Calm(unit[u])

RowOK ==
  /\ image \in {"good", "mute", "crashes"}
  /\ fact \in [Units -> Facts] /\ misses \in [Units -> 0..MissLimit]
  /\ tried \in [Units -> BOOLEAN] /\ todo \in Seq(Errands) /\ at \in Places
BoundsOK == {faults, cycles, restarts} \subseteq Nat /\ Mishaps <= MaxMishaps
HistoryOK == repeated \subseteq Units /\ before \subseteq Units

\* The run: whose turn it is, and what is left of it.
WorkInv ==
  /\ work \in Works
  /\ at \in Busy \cup {"probe", "poll", "rescue"} => work.left # {}
  /\ at \notin {"loop", "rescue"} => todo # <<>>
  /\ at \in Resting => work.fails = 0
  /\ work.left # {} => work.fails < MaxFailures
  /\ at = "again" => work.attempt < Attempts
  /\ at \notin Resting => work.left \cap work.done = {}

\* How far the stream has come in the pages of the unit.
StreamInv ==
  /\ at \in Streaming =>
       /\ \A p \in Pages : 0 < p /\ p < work.write => unit[Cur].page[p] = "new"
       /\ work.write \in 1..LastPage => unit[Cur].page[0] \notin Images
  /\ at \in Written1 => IsWhole(unit[Cur], "new")

Inv == /\ UnitsOK /\ RowOK /\ BoundsOK /\ HistoryOK /\ WorkInv
       /\ StreamInv /\ FirstPageVouches /\ CountedIsNew

\* Nothing but a page that was written once more changes, and that only between the runs.
Again(u)  == u \in repeated' /\ at \in Resting
PagesStay == \A u \in Units : unit'[u].page = unit[u].page \/ Again(u)

-----------------------------------------------------------------------------
\* The row works through its units in address order: there is always a first one.
LEMMA FirstOfSome == \A T \in SUBSET Nat : T # {} => \E x \in T : \A y \in T : x <= y
<1> SUFFICES ASSUME NEW T \in SUBSET Nat, T # {}
             PROVE  \E x \in T : \A y \in T : x <= y
  OBVIOUS
<1> DEFINE Less == {ss \in Nat \X Nat : ss[1] < ss[2]}
<1>1. IsWellFoundedOn(Less, Nat)
  BY NatLessThanWellFounded DEF OpToRel
<1>2. \A x, y \in Nat : <<y, x>> \in Less <=> y < x
  OBVIOUS
<1> HIDE DEF Less
<1>3. PICK x \in T : \A y \in T : ~(<<y, x>> \in Less)
  BY <1>1, WFMin
<1>4. \A y \in T : ~(y < x)
  BY <1>2, <1>3
<1> QED
  BY <1>4

LEMMA CurIsLeft == ASSUME WorkInv, work.left # {} PROVE Cur \in work.left /\ Cur \in Units
<1>1. work.left \in SUBSET Nat /\ work.left \subseteq Units
  BY DEF WorkInv, Works, Units
<1>2. \E u \in work.left : \A v \in work.left : u <= v
  BY <1>1, FirstOfSome
<1> QED
  BY <1>1, <1>2 DEF Cur

LEMMA CurStays == ASSUME work'.left = work.left PROVE Cur' = Cur
BY DEF Cur

-----------------------------------------------------------------------------
\* What transactions and resets do to a unit: all of them keep its type, and none but
\* a write, and the call of a unit that has one latched, its pages.
LEMMA ResetUnit ==
  ASSUME NEW rec \in UnitRecs, NEW dog \in BOOLEAN
  PROVE  Reset(rec, dog) \in UnitRecs /\ Calm(Reset(rec, dog)) /\ Reset(rec, dog).page = rec.page
<1> DEFINE count == IF rec.fielded \/ ~dog THEN 0
                    ELSE IF rec.crashes < Threshold THEN rec.crashes + 1 ELSE Threshold
<1>1. count \in 0..Threshold
  BY ImageHasPages DEF UnitRecs
<1>2. NoLatch \in Latches
  BY ImageHasPages DEF NoLatch, Latches, Pages, Contents
<1> HIDE DEF count
<1> DEFINE place == IF rec.page[0] = "blank" \/ count >= Threshold THEN "waits" ELSE "window"
<1>3. place \in InBoot
  BY DEF InBoot
<1>4. Reset(rec, dog) = [rec EXCEPT !.crashes = count, !.latch = NoLatch, !.at = place]
  BY DEF Reset, count
<1> HIDE DEF place
<1> QED
  BY <1>1, <1>2, <1>3, <1>4 DEF UnitRecs, Calm

LEMMA JumpUnit ==
  ASSUME NEW rec \in UnitRecs
  PROVE  Jump(rec) \in UnitRecs /\ Calm(Jump(rec)) /\ Jump(rec).page = rec.page
<1>1. NoLatch \in Latches
  BY ImageHasPages DEF NoLatch, Latches, Pages, Contents
<1>2. CASE rec.page[0] = "blank"
  <2>1. Jump(rec) = [rec EXCEPT !.at = "waits", !.crashes = 0, !.latch = NoLatch]
    BY <1>2 DEF Jump
  <2>2. 0 \in 0..Threshold
    BY ImageHasPages
  <2> QED
    BY <1>1, <2>1, <2>2 DEF UnitRecs, Calm, InBoot
<1>3. CASE rec.page[0] = "hold"
  BY <1>3, ResetUnit DEF Jump
<1>4. CASE rec.page[0] \notin {"blank", "hold"}
  BY <1>1, <1>4 DEF Jump, UnitRecs, Calm, InBoot
<1> QED
  BY <1>2, <1>3, <1>4

LEMMA CommandedUnit ==
  ASSUME NEW rec \in UnitRecs
  PROVE  /\ Commanded(rec) \in UnitRecs /\ Commanded(rec).page = rec.page
         /\ Calm(Commanded(rec)) /\ Commanded(rec).latch = NoLatch
<1>1. NoLatch \in Latches
  BY ImageHasPages DEF NoLatch, Latches, Pages, Contents
<1> QED
  BY <1>1 DEF Commanded, UnitRecs, Calm, InBoot

LEMMA SwitchedUnit ==
  ASSUME NEW rec \in UnitRecs
  PROVE  Switched(rec) \in UnitRecs /\ Calm(Switched(rec)) /\ Switched(rec).page = rec.page
<1> DEFINE fresh == [rec EXCEPT !.crashes = 0]
<1>1. fresh \in UnitRecs /\ fresh.page = rec.page
  BY ImageHasPages DEF UnitRecs
<1>2. Switched(rec) = Jump(fresh)
  BY DEF Switched
<1> HIDE DEF fresh
<1> QED
  BY <1>1, <1>2, JumpUnit

LEMMA LeavingUnit ==
  ASSUME NEW rec \in UnitRecs, rec.latch = NoLatch
  PROVE  Leaving(rec) \in UnitRecs /\ Calm(Leaving(rec)) /\ Leaving(rec).page = rec.page
<1>1. 0 \in 0..Threshold
  BY ImageHasPages
<1> QED
  BY <1>1 DEF Leaving, UnitRecs, Calm, InBoot

LEMMA CalledUnit ==
  ASSUME NEW rec \in UnitRecs, Calm(rec)
  PROVE  /\ Called(rec) \in UnitRecs /\ Calm(Called(rec))
         /\ rec.latch = NoLatch => Called(rec) = rec
<1>1. CASE rec.latch = NoLatch
  BY <1>1 DEF Called
<1>2. CASE rec.latch # NoLatch
  <2>1. rec.latch.to \in Pages /\ rec.latch.what \in Contents /\ NoLatch \in Latches
    BY ImageHasPages DEF UnitRecs, Latches, NoLatch, Pages, Contents
  <2> DEFINE next == IF rec.latch.to < LastPage THEN [rec.latch EXCEPT !.to = @ + 1] ELSE NoLatch
  <2>2. next \in Latches
    BY <2>1, ImageHasPages DEF UnitRecs, Latches, Pages
  <2>3. Called(rec) = [rec EXCEPT !.page[rec.latch.to] = rec.latch.what, !.latch = next]
    BY <1>2 DEF Called
  <2>4. [rec.page EXCEPT ![rec.latch.to] = rec.latch.what] \in [Pages -> Contents]
    BY <2>1 DEF UnitRecs
  <2> HIDE DEF next
  <2> QED
    BY <1>2, <2>2, <2>3, <2>4 DEF UnitRecs, Calm
<1> QED
  BY <1>1, <1>2

LEMMA WrittenUnit ==
  ASSUME NEW rec \in UnitRecs, NEW p \in Pages, NEW what \in Contents, rec.at \in InBoot
  PROVE  /\ Written(rec, p, what) \in UnitRecs /\ Calm(Written(rec, p, what))
         /\ Written(rec, p, what).page = [rec.page EXCEPT ![p] = what]
<1> DEFINE next == IF p < LastPage THEN [to |-> p + 1, what |-> what] ELSE NoLatch
<1>1. next \in Latches
  BY ImageHasPages DEF Latches, Pages, NoLatch, Contents
<1>2. Commanded(rec) \in UnitRecs /\ Commanded(rec).page = rec.page /\ Commanded(rec).at \in InBoot
  BY CommandedUnit DEF Commanded, UnitRecs, InBoot
<1>3. Written(rec, p, what) = [Commanded(rec) EXCEPT !.page[p] = what, !.latch = next]
  BY DEF Written
<1> DEFINE c == Commanded(rec)
<1> HIDE DEF next, c
<1>4. c \in UnitRecs /\ c.page = rec.page /\ c.at \in InBoot
  BY <1>2 DEF c
<1>5. Written(rec, p, what) = [c EXCEPT !.page[p] = what, !.latch = next]
  BY <1>3 DEF c
<1> QED
  BY <1>1, <1>4, <1>5 DEF UnitRecs, Calm

-----------------------------------------------------------------------------
\* One unit takes a transaction, or does something by itself.
LEMMA OneUnit ==
  ASSUME UnitsOK, NEW u \in Units, NEW rec \in UnitRecs, Calm(rec),
         unit' \in {unit, [unit EXCEPT ![u] = rec]},
         rec.page = unit[u].page \/ Again(u)
  PROVE  UnitsOK' /\ PagesStay
<1>1. CASE unit' = unit
  BY <1>1 DEF UnitsOK, PagesStay, Calm
<1>2. CASE unit' = [unit EXCEPT ![u] = rec]
  <2>1. unit' \in [Units -> UnitRecs]
    BY <1>2 DEF UnitsOK
  <2>2. \A v \in Units : unit'[v] = IF v = u THEN rec ELSE unit[v]
    BY <1>2 DEF UnitsOK
  <2>3. \A v \in Units : Calm(unit'[v])
    BY <2>2 DEF UnitsOK
  <2> QED
    BY <2>1, <2>2, <2>3 DEF UnitsOK, PagesStay, Calm
<1> QED
  BY <1>1, <1>2

LEMMA UnitIs == ASSUME UnitsOK, NEW u \in Units PROVE unit[u] \in UnitRecs /\ Calm(unit[u])
BY DEF UnitsOK

\* The question, in a run and in a look at a held unit.
LEMMA AskUnit ==
  ASSUME UnitsOK, NEW u \in Units, NEW way, Ask(u, way)
  PROVE  UnitsOK' /\ PagesStay
<1>1. Asked(u) \in UnitRecs /\ Calm(Asked(u)) /\ Asked(u).page = unit[u].page
  BY UnitIs, CommandedUnit DEF Asked
<1>2. unit' \in {unit, [unit EXCEPT ![u] = Asked(u)]}
  BY DEF Ask, Unit
<1> HIDE DEF Asked, Ask
<1> QED
  BY <1>1, <1>2, OneUnit

\* The order to restart.
LEMMA OrderedUnit ==
  ASSUME UnitsOK, NEW u \in Units
  PROVE  Ordered(u) \in UnitRecs /\ Calm(Ordered(u)) /\ Ordered(u).page = unit[u].page
<1>1. unit[u] \in UnitRecs /\ Calm(unit[u])
  BY UnitIs
<1>2. CASE Answering(unit[u])
  BY <1>1, <1>2, JumpUnit DEF Ordered, Misaddressed
<1>3. CASE ~Answering(unit[u])
  <2>1. unit[u].latch = NoLatch
    BY <1>1, <1>3 DEF Calm, Answering
  <2> QED
    BY <1>1, <1>3, <2>1, LeavingUnit DEF Ordered
<1> QED
  BY <1>2, <1>3

\* The bare address, and what is said after it.
LEMMA CalledUnits ==
  ASSUME UnitsOK, at \in Resting, NEW u \in Units, NEW way, way # "lost", Repeats(u, way)
  PROVE  /\ Called(unit[u]) \in UnitRecs /\ Calm(Called(unit[u]))
         /\ Called(unit[u]).page = unit[u].page \/ Again(u)
         /\ ~Answering(unit[u]) => Called(unit[u]) = unit[u]
<1>1. unit[u] \in UnitRecs /\ Calm(unit[u])
  BY UnitIs
<1>2. CASE unit[u].latch = NoLatch
  BY <1>1, <1>2, CalledUnit
<1>3. CASE unit[u].latch # NoLatch
  <2>1. Answering(unit[u])
    BY <1>1, <1>3 DEF Calm, Answering
  <2>2. Again(u)
    BY <1>3, <2>1 DEF Repeats, Again
  <2> QED
    BY <1>1, <2>1, <2>2, CalledUnit
<1> QED
  BY <1>2, <1>3

LEMMA CalledStep ==
  ASSUME UnitsOK, at \in Resting, NEW u \in Units, NEW way, Repeats(u, way),
         Unit(u, Called(unit[u]), way)
  PROVE  UnitsOK' /\ PagesStay
<1>1. CASE way = "lost"
  <2>1. unit' = unit
    BY <1>1 DEF Unit
  <2> QED
    BY <2>1 DEF UnitsOK, PagesStay, Calm
<1>2. CASE way # "lost"
  <2>1. unit' = [unit EXCEPT ![u] = Called(unit[u])]
    BY <1>2 DEF Unit
  <2>2. /\ Called(unit[u]) \in UnitRecs /\ Calm(Called(unit[u]))
        /\ Called(unit[u]).page = unit[u].page \/ Again(u)
    BY <1>2, CalledUnits
  <2> QED
    BY <2>1, <2>2, OneUnit
<1> QED
  BY <1>1, <1>2

\* Something said after the bare address that leaves the pages as they are.
LEMMA CalledThen ==
  ASSUME UnitsOK, at \in Resting, NEW u \in Units, Repeats(u, "ok"), NEW rec,
         unit' = [unit EXCEPT ![u] = rec],
         rec \in {Called(unit[u]), Commanded(Called(unit[u])), Misaddressed(Called(unit[u])),
                  Switched(Called(unit[u]))}
  PROVE  UnitsOK' /\ PagesStay
<1> DEFINE c == Called(unit[u])
<1>1. c \in UnitRecs /\ Calm(c) /\ (c.page = unit[u].page \/ Again(u))
  BY CalledUnits
<1> HIDE DEF c
<1>2. rec \in {c, Commanded(c), Misaddressed(c), Switched(c)}
  BY DEF c
<1>3. rec \in UnitRecs /\ Calm(rec) /\ rec.page = c.page
  BY <1>1, <1>2, CommandedUnit, JumpUnit, SwitchedUnit DEF Misaddressed
<1> QED
  BY <1>1, <1>3, OneUnit

-----------------------------------------------------------------------------
\* Whose turn it is, at the places where somebody's turn it is.
LEMMA CurIsUnit ==
  ASSUME Inv, at \in Busy \cup {"probe", "poll", "rescue"}
  PROVE  Cur \in Units /\ Cur \in work.left
BY CurIsLeft DEF Inv, WorkInv

LEMMA NoUnitChanges ==
  ASSUME UnitsOK, unit' = unit
  PROVE  UnitsOK' /\ PagesStay
BY DEF UnitsOK, PagesStay, Calm

\* The steps of a run, but for the writes.
LEMMA RunUnits ==
  ASSUME Inv, Run, ~Writes
  PROVE  UnitsOK' /\ PagesStay
<1> USE DEF Inv
<1>1. CASE Plans \/ Settles \/ Ends
  BY <1>1, NoUnitChanges DEF Plans, Settles, Ends
<1>2. CASE AsksFirst \/ Enters \/ HandReset \/ ChecksChip \/ Checks \/ AsksAgain
  <2>1. Cur \in Units
    BY <1>2, CurIsUnit DEF AsksFirst, Enters, HandReset, ChecksChip, Checks, AsksAgain, Busy, Streaming
  <2>2. \E way \in Ways : Ask(Cur, way)
    BY <1>2 DEF AsksFirst, Enters, HandReset, ChecksChip, Checks, AsksAgain, Ways
  <2> QED
    BY <2>1, <2>2, AskUnit
<1>3. CASE Orders \/ Awaits
  <2>1. Cur \in Units
    BY <1>3, CurIsUnit DEF Orders, Awaits, Busy, Written1
  <2>2. unit' \in {unit, [unit EXCEPT ![Cur] = Ordered(Cur)]}
    BY <1>3 DEF Orders, Awaits, Unit
  <2> QED
    BY <2>1, <2>2, OrderedUnit, OneUnit
<1>4. CASE Exits
  <2>1. Cur \in Units
    BY <1>4, CurIsUnit DEF Exits, Busy, Written1
  <2>2. unit' \in {unit, [unit EXCEPT ![Cur] = Switched(unit[Cur])]}
    BY <1>4 DEF Exits, Unit
  <2> QED
    BY <2>1, <2>2, UnitIs, SwitchedUnit, OneUnit
<1> QED
  BY <1>1, <1>2, <1>3, <1>4 DEF Run

\* Scans, polls and the rescue of a unit.
LEMMA ProbesUnits ==
  ASSUME Inv, Probes
  PROVE  UnitsOK' /\ PagesStay
<1>1. UnitsOK /\ Cur \in Units /\ at \in Resting
  BY CurIsUnit DEF Inv, Probes, Resting
<1>2. CASE \E way \in Ways : Unit(Cur, Called(unit[Cur]), way) /\ Repeats(Cur, way)
  BY <1>1, <1>2, CalledStep
<1>3. CASE Repeats(Cur, "ok") /\ (unit' = unit \/
             \E rec \in {Commanded(Called(unit[Cur])), Misaddressed(Called(unit[Cur]))} :
               unit' = [unit EXCEPT ![Cur] = rec])
  BY <1>1, <1>3, CalledThen, NoUnitChanges
<1> QED
  BY <1>2, <1>3 DEF Probes

LEMMA PolledUnits ==
  ASSUME UnitsOK, NEW u \in Units, Polled(u)
  PROVE  UnitsOK' /\ PagesStay
<1>1. unit' \in {unit, [unit EXCEPT ![u] = Misaddressed(unit[u])]}
  BY DEF Polled, Unit
<1> QED
  BY <1>1, UnitIs, JumpUnit, OneUnit DEF Misaddressed

LEMMA RescueUnits ==
  ASSUME Inv, RescueTick
  PROVE  UnitsOK' /\ PagesStay
<1>1. UnitsOK /\ Cur \in Units /\ at \in Resting
  BY CurIsUnit DEF Inv, RescueTick, Resting
<1>2. CASE Rescues(Cur)
  <2>1. CASE \E way \in Ways : Unit(Cur, Called(unit[Cur]), way) /\ Repeats(Cur, way)
    BY <1>1, <2>1, CalledStep
  <2>2. CASE Repeats(Cur, "ok") /\ (unit' = unit \/
               \E rec \in {Commanded(Called(unit[Cur])), Switched(Called(unit[Cur]))} :
                 unit' = [unit EXCEPT ![Cur] = rec])
    BY <1>1, <2>2, CalledThen, NoUnitChanges
  <2> QED
    BY <1>2, <2>1, <2>2 DEF Rescues
<1>3. CASE Rechecks(Cur)
  BY <1>1, <1>3, AskUnit DEF Rechecks
<1>4. CASE unit' = unit
  BY <1>1, <1>4, NoUnitChanges
<1> QED
  BY <1>2, <1>3, <1>4 DEF RescueTick

\* What the units do by themselves.
LEMMA AloneUnits ==
  ASSUME UnitsOK, NEW u \in Units,
         WindowEnds(u) \/ LeavesSketch(u) \/ Crashes(u) \/ RunsOn(u) \/ PowerCycle(u)
  PROVE  UnitsOK' /\ PagesStay
<1>1. unit[u] \in UnitRecs /\ Calm(unit[u])
  BY UnitIs
<1> DEFINE zero == [unit[u] EXCEPT !.crashes = 0]
<1>2. 0 \in 0..Threshold
  BY ImageHasPages
<1>3. zero \in UnitRecs /\ Calm(zero) /\ zero.page = unit[u].page
  BY <1>1, <1>2 DEF UnitRecs, Calm
<1>4. \E rec \in {Jump(unit[u]), Reset(unit[u], TRUE), Reset(unit[u], FALSE), zero} :
        unit' = [unit EXCEPT ![u] = rec]
  BY DEF WindowEnds, LeavesSketch, Crashes, RunsOn, PowerCycle, UnitDoes
<1> HIDE DEF zero
<1>5. \A rec \in {Jump(unit[u]), Reset(unit[u], TRUE), Reset(unit[u], FALSE), zero} :
        rec \in UnitRecs /\ Calm(rec) /\ rec.page = unit[u].page
  BY <1>1, <1>3, JumpUnit, ResetUnit
<1> QED
  BY <1>4, <1>5, OneUnit

\* All the steps but the writes.
LEMMA UnitsStep ==
  ASSUME Inv, [Next]_vars, ~Writes
  PROVE  UnitsOK' /\ PagesStay
<1>1. UnitsOK
  BY DEF Inv
<1>2. CASE Run
  BY <1>2, RunUnits
<1>3. CASE Scan
  <2>1. CASE Begins("probe") \/ Begins("poll")
    BY <1>1, <2>1, NoUnitChanges DEF Begins
  <2>2. CASE Probes
    BY <2>2, ProbesUnits
  <2>3. CASE Polls
    BY <1>1, <2>3, CurIsUnit, PolledUnits DEF Polls
  <2> QED
    BY <1>3, <2>1, <2>2, <2>3 DEF Scan
<1>4. CASE \E u \in Units : Heartbeat(u)
  BY <1>1, <1>4, PolledUnits DEF Heartbeat
<1>5. CASE RescueTick
  BY <1>5, RescueUnits
<1>6. CASE Rescan \/ Reflash \/ Restart
  BY <1>1, <1>6, NoUnitChanges DEF Rescan, Reflash, Asks, Restart
<1>7. CASE UnitStep \/ \E u \in Units : PowerCycle(u)
  BY <1>1, <1>7, AloneUnits DEF UnitStep
<1>8. CASE UNCHANGED vars
  BY <1>1, <1>8, NoUnitChanges DEF vars
<1> QED
  BY <1>2, <1>3, <1>4, <1>5, <1>6, <1>7, <1>8 DEF Next

-----------------------------------------------------------------------------
\* How the turn of a unit ends: with the next unit, or with the batch, or with the run.
LEMMA OutcomeWork ==
  ASSUME Inv, at \in Busy, NEW how \in {"flashed", "failed", "notEntered"},
         Outcome(how), todo' = todo
  PROVE  /\ WorkInv' /\ at' \in {"settle", "end", "ask"}
         /\ fact' \in [Units -> Facts]
         /\ work'.done = IF how = "flashed" THEN work.done \cup {Cur} ELSE work.done
<1>1. /\ work \in Works /\ work.fails < MaxFailures /\ work.left \cap work.done = {}
      /\ todo # <<>> /\ Cur \in Units /\ Cur \in work.left /\ fact \in [Units -> Facts]
  BY CurIsUnit DEF Inv, RowOK, WorkInv, Busy, Streaming, Written1, Resting
<1>2. /\ 1 \in 1..Attempts /\ 1 \in 1..WriteTries /\ 0 \in 0..(LastPage + 1)
      /\ MaxFailures \in Nat /\ 0 \in 0..MaxFailures /\ 0 < MaxFailures
  BY RowSizes, ImageHasPages
<1> DEFINE fails == CASE how = "flashed" -> 0 [] how = "failed" -> work.fails + 1 [] OTHER -> work.fails
           batch == IF how = "flashed" THEN work.batch \cup {Cur} ELSE work.batch
           left  == IF fails >= MaxFailures THEN {} ELSE work.left \ {Cur}
           done  == IF how = "flashed" THEN work.done \cup {Cur} ELSE work.done
           failed == work.failed \/ how # "flashed"
<1>3. fails \in 0..MaxFailures
  BY <1>1, <1>2 DEF Works
<1>4. left # {} => fails < MaxFailures
  BY <1>2, <1>3
<1>5. left \subseteq work.left \ {Cur} /\ done \subseteq work.done \cup {Cur}
  OBVIOUS
<1>6. left \cap done = {}
  BY <1>1, <1>5
<1>7. batch \in SUBSET Units /\ left \in SUBSET Units /\ done \in SUBSET Units /\ failed \in BOOLEAN
  BY <1>1, <1>5 DEF Works
<1>8. /\ work' = [work EXCEPT !.left = left, !.fails = fails, !.batch = batch,
                              !.attempt = 1, !.write = 0, !.try = 1,
                              !.done = done, !.failed = failed]
      /\ fact' = IF how = "flashed" THEN [fact EXCEPT ![Cur] = "ours"] ELSE fact
      /\ at' = IF Cardinality(batch) >= Batch \/ (left = {} /\ batch # {}) THEN "settle"
               ELSE IF left = {} THEN "end" ELSE "ask"
  <2>1. work.done = work.done /\ work.failed = work.failed
    OBVIOUS
  <2> QED
    BY <1>1, Zenon DEF Outcome, Works
<1> HIDE DEF fails, batch, left, failed
<1>9. work' \in Works /\ work'.left = left /\ work'.fails = fails /\ work'.done = done
  BY <1>1, <1>2, <1>3, <1>7, <1>8 DEF Works
<1>10. at' \in {"settle", "end", "ask"} /\ (at' = "ask" => left # {})
  BY <1>8
<1>11. fact' \in [Units -> Facts]
  BY <1>1, <1>8 DEF Facts, Sketch
<1> QED
  BY <1>1, <1>4, <1>6, <1>9, <1>10, <1>11 DEF WorkInv, Busy, Streaming, Written1, Resting

LEMMA GoesWork ==
  ASSUME Inv, at \in Busy, NEW place \in Busy \cup {"hand"}, Goes(place), todo' = todo,
         place = "again" => work.attempt < Attempts
  PROVE  WorkInv' /\ at' \in Busy /\ fact' \in [Units -> Facts] /\ work' = work
BY DEF Goes, Inv, RowOK, WorkInv, Busy, Streaming, Written1, Resting

\* The next page or write, or the next attempt: the same units are left.
SameUnits == work'.left = work.left /\ work'.done = work.done /\ work'.fails = work.fails

LEMMA NextWrite ==
  ASSUME Inv, at \in Busy, work' \in Works, SameUnits, at' \in Busy \ {"again"}, todo' = todo
  PROVE  WorkInv'
BY DEF SameUnits, Inv, WorkInv, Busy, Streaming, Written1, Resting

\* A flash that failed, and a unit that did not enter.
LEMMA FailsWork ==
  ASSUME Inv, at \in Busy, Fails, todo' = todo
  PROVE  /\ WorkInv' /\ at' \in {"again", "settle", "end", "ask"} /\ fact' \in [Units -> Facts]
         /\ work'.done = work.done
<1>1. CASE work.attempt < Attempts
  BY <1>1, GoesWork DEF Fails, Goes, Busy
<1>2. CASE ~(work.attempt < Attempts)
  BY <1>2, OutcomeWork DEF Fails
<1> QED
  BY <1>1, <1>2

LEMMA NotEnteredWork ==
  ASSUME Inv, at \in Busy, NotEntered, todo' = todo
  PROVE  /\ WorkInv' /\ at' \in {"hand", "settle", "end", "ask"} /\ fact' \in [Units -> Facts]
         /\ work'.done = work.done
<1>1. CASE work.force
  BY <1>1, GoesWork DEF NotEntered, Goes, Busy
<1>2. CASE ~work.force
  BY <1>2, OutcomeWork DEF NotEntered
<1> QED
  BY <1>1, <1>2

\* What a step of a unit's turn may do to the run.
Turn == /\ WorkInv' /\ at' \in Places /\ fact' \in [Units -> Facts]
        /\ at' \notin Resting

LEMMA TurnWork ==
  ASSUME Inv, \/ AsksFirst \/ Orders \/ Enters \/ HandReset \/ ChecksChip \/ Writes
              \/ Checks \/ Exits \/ Awaits \/ AsksAgain
  PROVE  Turn
<1>1. /\ work \in Works /\ fact \in [Units -> Facts] /\ Busy \cup {"settle", "end"} \subseteq Places
      /\ (Busy \cup {"settle", "end"}) \cap Resting = {}
  BY DEF Inv, RowOK, WorkInv, Busy, Streaming, Written1, Resting, Places
<1>2. CASE AsksFirst
  BY <1>1, <1>2, GoesWork DEF AsksFirst, InRun, Turn, Busy
<1>3. CASE Orders
  BY <1>1, <1>3, GoesWork, NotEnteredWork DEF Orders, InRun, Turn, Busy
<1>4. CASE Enters
  BY <1>1, <1>4, GoesWork, NotEnteredWork DEF Enters, InRun, Turn, Busy
<1>5. CASE HandReset
  BY <1>1, <1>5, GoesWork, OutcomeWork DEF HandReset, InRun, Turn, Busy
<1>6. CASE ChecksChip
  <2>1. at = "flash" /\ at \in Busy /\ todo' = todo
    BY <1>6 DEF ChecksChip, InRun, Busy
  <2>2. CASE at' = "write" /\ work' = [work EXCEPT !.write = 0, !.try = 1] /\ fact' = fact
    <3>1. 0 \in 0..(LastPage + 1) /\ 1 \in 1..WriteTries
      BY RowSizes, ImageHasPages
    <3>2. work' \in Works /\ SameUnits
      BY <1>1, <2>2, <3>1 DEF Works, SameUnits
    <3> QED
      BY <1>1, <2>1, <2>2, <3>2, NextWrite DEF Turn, Busy, Streaming
  <2>3. CASE Fails
    BY <1>1, <2>1, <2>3, FailsWork DEF Turn, Busy
  <2> QED
    BY <1>6, <2>2, <2>3 DEF ChecksChip
<1>7. CASE Writes
  BY <1>1, <1>7, GoesWork, FailsWork DEF Writes, InRun, Turn, Busy, Streaming
<1>8. CASE Checks
  <2>1. at = "check" /\ at \in Busy /\ todo' = todo
    BY <1>8 DEF Checks, InRun, Busy, Streaming
  <2>2. CASE /\ at' = IF work.write > LastPage THEN "exit" ELSE "write"
             /\ work' = [work EXCEPT !.write = IF @ > LastPage THEN 0 ELSE @ + 1, !.try = 1]
             /\ fact' = fact
    <3> DEFINE w == IF work.write > LastPage THEN 0 ELSE work.write + 1
    <3>1. w \in 0..(LastPage + 1) /\ 1 \in 1..WriteTries
      BY <1>1, RowSizes, ImageHasPages DEF Works
    <3>3. work' = [work EXCEPT !.write = w, !.try = 1]
      BY <1>1, <2>2 DEF Works
    <3> HIDE DEF w
    <3>2. work' \in Works /\ SameUnits
      BY <1>1, <3>3, <3>1 DEF Works, SameUnits
    <3> QED
      BY <1>1, <2>1, <2>2, <3>2, NextWrite DEF Turn, Busy, Streaming, Written1
  <2>3. CASE /\ work.try < WriteTries
             /\ at' = "write" /\ work' = [work EXCEPT !.try = @ + 1] /\ fact' = fact
    <3>1. work.try + 1 \in 1..WriteTries
      BY <1>1, <2>3, RowSizes DEF Works
    <3>2. work' \in Works /\ SameUnits
      BY <1>1, <2>3, <3>1 DEF Works, SameUnits
    <3> QED
      BY <1>1, <2>1, <2>3, <3>2, NextWrite DEF Turn, Busy, Streaming
  <2>4. CASE Fails
    BY <1>1, <2>1, <2>4, FailsWork DEF Turn, Busy
  <2> QED
    BY <1>8, <2>2, <2>3, <2>4 DEF Checks
<1>9. CASE Exits
  BY <1>1, <1>9, GoesWork, FailsWork DEF Exits, InRun, Turn, Busy, Written1
<1>10. CASE Awaits
  BY <1>1, <1>10, OutcomeWork, FailsWork DEF Awaits, InRun, Turn, Busy, Written1
<1>11. CASE AsksAgain
  <2>1. at = "again" /\ at \in Busy /\ todo' = todo /\ work.attempt < Attempts
    BY <1>11 DEF AsksAgain, InRun, Busy, Inv, WorkInv
  <2>2. CASE at' = "flash" /\ work' = [work EXCEPT !.attempt = @ + 1, !.write = 0, !.try = 1] /\ fact' = fact
    <3>1. 0 \in 0..(LastPage + 1) /\ 1 \in 1..WriteTries /\ work.attempt + 1 \in 1..Attempts
      BY <1>1, <2>1, RowSizes, ImageHasPages DEF Works
    <3>2. work' \in Works /\ SameUnits
      BY <1>1, <2>2, <3>1 DEF Works, SameUnits
    <3> QED
      BY <1>1, <2>1, <2>2, <3>2, NextWrite DEF Turn, Busy
  <2>3. CASE Outcome("failed")
    BY <1>1, <2>1, <2>3, OutcomeWork DEF Turn, Busy
  <2> QED
    BY <1>11, <2>2, <2>3 DEF AsksAgain
<1> QED
  BY <1>2, <1>3, <1>4, <1>5, <1>6, <1>7, <1>8, <1>9, <1>10, <1>11

-----------------------------------------------------------------------------
\* The write itself: one page of the unit whose turn it is, and no other unit.
WrittenPage ==
  \/ unit'[Cur].page = unit[Cur].page
  \/ \E what \in {"junk", Wanted(work.write)} :
       unit'[Cur].page = [unit[Cur].page EXCEPT ![PageOf(work.write)] = what]

LEMMA WritesUnits ==
  ASSUME Inv, Writes
  PROVE  /\ UnitsOK' /\ WrittenPage
         /\ \A u \in Units \ {Cur} : unit'[u].page = unit[u].page
<1>1. UnitsOK /\ Cur \in Units /\ work \in Works
  BY CurIsUnit DEF Inv, WorkInv, Writes, Busy, Streaming
<1>2. unit[Cur] \in UnitRecs /\ Calm(unit[Cur])
  BY <1>1, UnitIs
<1>3. CASE unit' = unit
  BY <1>1, <1>3 DEF UnitsOK, Calm, WrittenPage
<1>4. CASE unit' # unit
  <2>1. PICK way \in Ways \cup {"garbled"} :
          LET what == IF way = "garbled" THEN "junk" ELSE Wanted(work.write)
          IN  /\ Answering(unit[Cur])
              /\ Unit(Cur, Written(unit[Cur], PageOf(work.write), what), way)
    BY <1>4 DEF Writes
  <2> DEFINE what == IF way = "garbled" THEN "junk" ELSE Wanted(work.write)
             page == PageOf(work.write)
             rec == Written(unit[Cur], page, what)
  <2>2. what \in Contents /\ what \in {"junk", Wanted(work.write)}
    BY DEF Wanted, Contents, Images
  <2>3. page \in Pages
    BY <1>1, ImageHasPages DEF PageOf, Pages, Works
  <2>4. unit[Cur].at \in InBoot
    BY <2>1 DEF Answering
  <2>5. unit' = [unit EXCEPT ![Cur] = rec]
    BY <1>4, <2>1 DEF Unit
  <2> HIDE DEF what
  <2>6. rec \in UnitRecs /\ Calm(rec) /\ rec.page = [unit[Cur].page EXCEPT ![page] = what]
    BY <1>2, <2>2, <2>3, <2>4, WrittenUnit
  <2> HIDE DEF rec, page
  <2>7. \A u \in Units : unit'[u] = IF u = Cur THEN rec ELSE unit[u]
    BY <1>1, <2>5 DEF UnitsOK
  <2>8. unit' \in [Units -> UnitRecs]
    BY <1>1, <2>5, <2>6 DEF UnitsOK
  <2>9. \A u \in Units : Calm(unit'[u])
    BY <1>1, <2>6, <2>7 DEF UnitsOK
  <2>10. UnitsOK'
    BY <2>8, <2>9 DEF UnitsOK, Calm
  <2>11. WrittenPage
    BY <1>1, <2>2, <2>6, <2>7 DEF WrittenPage, page
  <2> QED
    BY <1>1, <2>7, <2>10, <2>11
<1> QED
  BY <1>3, <1>4

\* The order of the pages: while the rest is written the first page belongs to no image.
LEMMA WritesKeep ==
  ASSUME Inv, Writes
  PROVE  FirstPageVouches' /\ CountedIsNew' /\ StreamInv'
<1>1. /\ Cur \in Units /\ Cur \in work.left /\ work \in Works /\ at = "write"
      /\ unit[Cur].page \in [Pages -> Contents] /\ work.left \cap work.done = {}
      /\ unit \in [Units -> UnitRecs]
  BY CurIsUnit DEF Inv, UnitsOK, UnitRecs, WorkInv, Writes, Busy, Streaming, Resting
<1>2. /\ WrittenPage /\ \A u \in Units \ {Cur} : unit'[u].page = unit[u].page
      /\ repeated' = repeated /\ FirstPageVouches /\ CountedIsNew /\ StreamInv
  BY WritesUnits DEF Inv, Writes
<1>3. work'.done = work.done
  BY FailsWork DEF Writes, Goes, InRun, Busy, Streaming
<1>4. work'.done \subseteq Units \ {Cur}
  BY <1>1, <1>3 DEF Works
<1>5. CountedIsNew'
  BY <1>2, <1>3, <1>4 DEF CountedIsNew, IsWhole
<1> DEFINE w == work.write
<1>6. w \in 0..(LastPage + 1) /\ LastPage \in Nat \ {0}
  BY <1>1, ImageHasPages DEF Works
<1>7. /\ \A p \in Pages : 0 < p /\ p < w => unit'[Cur].page[p] = "new"
      /\ w \in 1..LastPage => unit'[Cur].page[0] \notin Images
      /\ Cur \notin repeated /\ unit'[Cur].page[0] \in Images =>
           IsWhole(unit'[Cur], unit'[Cur].page[0])
  <2>1. /\ \A p \in Pages : 0 < p /\ p < w => unit[Cur].page[p] = "new"
        /\ w \in 1..LastPage => unit[Cur].page[0] \notin Images
    BY <1>1, <1>2 DEF StreamInv, Streaming
  <2>2. CASE unit'[Cur].page = unit[Cur].page
    BY <1>1, <1>2, <2>1, <2>2 DEF FirstPageVouches, IsWhole
  <2>3. ASSUME NEW what \in {"junk", Wanted(w)},
               unit'[Cur].page = [unit[Cur].page EXCEPT ![PageOf(w)] = what]
        PROVE  /\ \A p \in Pages : 0 < p /\ p < w => unit'[Cur].page[p] = "new"
               /\ w \in 1..LastPage => unit'[Cur].page[0] \notin Images
               /\ Cur \notin repeated /\ unit'[Cur].page[0] \in Images =>
                    IsWhole(unit'[Cur], unit'[Cur].page[0])
    <3>1. CASE w = 0
      <4>1. PageOf(w) = 0 /\ what \notin Images /\ 0 \in Pages
        BY <1>6, <3>1 DEF PageOf, Wanted, Images, Pages
      <4>2. unit'[Cur].page[0] = what
        BY <1>1, <2>3, <4>1
      <4> QED
        BY <3>1, <4>1, <4>2, <1>6 DEF Pages
    <3>2. CASE w \in 1..LastPage
      <4>1. PageOf(w) = w /\ w # 0 /\ 0 \in Pages
        BY <1>6, <3>2 DEF PageOf, Pages
      <4>2. \A p \in Pages : p # w => unit'[Cur].page[p] = unit[Cur].page[p]
        BY <1>1, <2>3, <4>1
      <4> QED
        BY <2>1, <3>2, <4>1, <4>2, <1>6 DEF Pages
    <3>3. CASE w = LastPage + 1
      <4>1. PageOf(w) = 0 /\ Wanted(w) = "new" /\ 0 \in Pages
        BY <1>6, <3>3 DEF PageOf, Wanted, Pages
      <4>2. \A p \in Pages : unit'[Cur].page[p] = IF p = 0 THEN what ELSE unit[Cur].page[p]
        BY <1>1, <2>3, <4>1
      <4>3. \A p \in Pages : p # 0 => unit'[Cur].page[p] = "new"
        BY <2>1, <3>3, <4>2, <1>6 DEF Pages
      <4>4. what \in {"junk", "new"}
        BY <4>1
      <4> QED
        BY <3>3, <4>1, <4>2, <4>3, <4>4, <1>6 DEF Pages, Images, IsWhole
    <3> QED
      BY <1>6, <3>1, <3>2, <3>3
  <2> QED
    BY <1>2, <2>2, <2>3 DEF WrittenPage
<1>8. FirstPageVouches'
  BY <1>2, <1>7 DEF FirstPageVouches, IsWhole
<1>9. at' \in Streaming \cup Written1 => at' = "check" /\ work' = work
  BY FailsWork DEF Writes, Goes, InRun, Busy, Streaming, Written1
<1>10. StreamInv'
  <2>1. CASE at' \in Streaming \cup Written1
    <3>1. at' = "check" /\ work' = work /\ Cur' = Cur
      BY <1>9, <2>1 DEF Cur
    <3> QED
      BY <1>2, <1>7, <3>1 DEF StreamInv, Written1
  <2>2. CASE at' \notin Streaming \cup Written1
    BY <2>2 DEF StreamInv
  <2> QED
    BY <2>1, <2>2
<1> QED
  BY <1>5, <1>8, <1>10

-----------------------------------------------------------------------------
\* The stream is where it was, or it is over; a unit that has run the new image for a
\* moment keeps it.
LEMMA SameStream ==
  ASSUME Inv, PagesStay, repeated \subseteq repeated',
         at' \in Streaming \cup Written1 => at' = at /\ work' = work
  PROVE  StreamInv'
<1>1. CASE at' \in Streaming \cup Written1
  <2>1. at' = at /\ work' = work /\ Cur' = Cur
    BY <1>1 DEF Cur
  <2>2. Cur \in Units
    BY <1>1, <2>1, CurIsUnit DEF Busy
  <2>3. unit'[Cur].page = unit[Cur].page
    BY <1>1, <2>1, <2>2 DEF PagesStay, Again, Streaming, Written1, Resting
  <2> QED
    BY <1>1, <2>1, <2>3 DEF Inv, StreamInv, IsWhole
<1>2. CASE at' \notin Streaming \cup Written1
  BY <1>2 DEF StreamInv
<1> QED
  BY <1>1, <1>2

LEMMA PagesVouch ==
  ASSUME Inv, PagesStay, repeated \subseteq repeated'
  PROVE  FirstPageVouches'
BY DEF Inv, PagesStay, Again, FirstPageVouches, IsWhole

LEMMA CountedStays ==
  ASSUME Inv, PagesStay, repeated \subseteq repeated', work'.done \subseteq work.done
  PROVE  CountedIsNew'
<1>1. work.done \subseteq Units
  BY DEF Inv, WorkInv, Works
<1> QED
  BY <1>1 DEF Inv, PagesStay, Again, CountedIsNew, IsWhole

\* The other steps of a unit's turn: the checks lead the stream on page by page.
LEMMA TurnStream ==
  ASSUME Inv, PagesStay, repeated' = repeated,
         \/ AsksFirst \/ Orders \/ Enters \/ HandReset \/ ChecksChip
         \/ Checks \/ Exits \/ Awaits \/ AsksAgain
  PROVE  StreamInv' /\ CountedIsNew'
<1>0. /\ at \in Busy /\ Cur \in Units /\ Cur \in work.left /\ work \in Works /\ todo' = todo
      /\ StreamInv /\ CountedIsNew
  BY CurIsUnit DEF Inv, WorkInv, AsksFirst, Orders, Enters, HandReset, ChecksChip, Checks, Exits,
                   Awaits, AsksAgain, InRun, Busy, Streaming, Written1
<1>1. /\ at \in Busy /\ Cur \in Units /\ Cur \in work.left /\ work \in Works /\ todo' = todo
      /\ StreamInv /\ CountedIsNew /\ \A u \in Units : unit'[u].page = unit[u].page
  BY <1>0 DEF PagesStay, Again, Busy, Streaming, Written1, Resting
<1>2. CASE AsksFirst \/ Enters \/ Orders \/ HandReset
  <2>1. at' \notin Streaming \cup Written1 /\ work'.done = work.done
    BY <1>1, <1>2, OutcomeWork, NotEnteredWork
    DEF AsksFirst, Enters, Orders, HandReset, Goes, Streaming, Written1
  <2> QED
    BY <1>1, <2>1, SameStream, CountedStays
<1>3. CASE ChecksChip
  <2>1. CASE at' = "write" /\ work' = [work EXCEPT !.write = 0, !.try = 1]
    <3>1. work'.write = 0 /\ work'.done = work.done
      BY <1>1, <2>1 DEF Works
    <3>2. StreamInv'
      BY <2>1, <3>1, ImageHasPages DEF StreamInv, Streaming, Written1, Pages
    <3> QED
      BY <3>1, <3>2, CountedStays
  <2>2. CASE Fails
    <3>1. at' \notin Streaming \cup Written1 /\ work'.done = work.done
      BY <1>1, <2>2, FailsWork DEF Streaming, Written1
    <3> QED
      BY <3>1, SameStream, CountedStays
  <2> QED
    BY <1>3, <2>1, <2>2 DEF ChecksChip
<1>4. CASE Checks
  <2>1. CASE /\ unit[Cur].page[PageOf(work.write)] = Wanted(work.write)
             /\ at' = IF work.write > LastPage THEN "exit" ELSE "write"
             /\ work' = [work EXCEPT !.write = IF @ > LastPage THEN 0 ELSE @ + 1, !.try = 1]
    <3>1. /\ work'.write = IF work.write > LastPage THEN 0 ELSE work.write + 1
          /\ work'.left = work.left /\ work'.done = work.done
      BY <1>1, <2>1 DEF Works
    <3>2. Cur' = Cur
      BY <3>1 DEF Cur
    <3> DEFINE w == work.write
    <3>3. w \in 0..(LastPage + 1) /\ LastPage \in Nat \ {0} /\ at = "check"
      BY <1>1, <1>4, ImageHasPages DEF Works, Checks
    <3>4. /\ at' \in Streaming =>
               /\ \A p \in Pages : 0 < p /\ p < work'.write => unit'[Cur].page[p] = "new"
               /\ work'.write \in 1..LastPage => unit'[Cur].page[0] \notin Images
          /\ at' \in Written1 => IsWhole(unit'[Cur], "new")
      <4>1. unit'[Cur].page = unit[Cur].page
        BY <1>1
      <4>2. /\ \A p \in Pages : 0 < p /\ p < w => unit[Cur].page[p] = "new"
            /\ w \in 1..LastPage => unit[Cur].page[0] \notin Images
        BY <1>1, <3>3 DEF StreamInv, Streaming
      <4>3. unit[Cur].page[PageOf(w)] = Wanted(w)
        BY <2>1
      <4>4. CASE w = 0
        <5>1. unit[Cur].page[0] = "hold" /\ work'.write = 1 /\ at' = "write"
          BY <2>1, <3>1, <3>3, <4>3, <4>4 DEF PageOf, Wanted
        <5> QED
          BY <4>1, <5>1 DEF Images, Pages, Written1
      <4>5. CASE w \in 1..LastPage
        <5>1. unit[Cur].page[w] = "new" /\ work'.write = w + 1 /\ at' = "write"
          BY <2>1, <3>1, <3>3, <4>3, <4>5 DEF PageOf, Wanted
        <5> QED
          BY <3>3, <4>1, <4>2, <4>5, <5>1 DEF Pages, Written1
      <4>6. CASE w = LastPage + 1
        <5>1. unit[Cur].page[0] = "new" /\ at' = "exit"
          BY <2>1, <3>3, <4>3, <4>6 DEF PageOf, Wanted
        <5>2. \A p \in Pages : unit[Cur].page[p] = "new"
          BY <3>3, <4>2, <4>6, <5>1 DEF Pages
        <5> QED
          BY <4>1, <5>1, <5>2 DEF IsWhole, Streaming
      <4> QED
        BY <3>3, <4>4, <4>5, <4>6
    <3>5. StreamInv'
      BY <3>2, <3>4 DEF StreamInv
    <3> QED
      BY <3>1, <3>5, CountedStays
  <2>2. CASE at' = "write" /\ work' = [work EXCEPT !.try = @ + 1]
    <3>1. work'.write = work.write /\ work'.left = work.left /\ work'.done = work.done
      BY <1>1, <2>2 DEF Works
    <3>2. Cur' = Cur /\ at = "check"
      BY <1>4, <3>1 DEF Cur, Checks
    <3>3. unit'[Cur].page = unit[Cur].page
      BY <1>1
    <3>4. StreamInv'
      BY <1>1, <2>2, <3>1, <3>2, <3>3 DEF StreamInv, Streaming, Written1
    <3> QED
      BY <3>1, <3>4, CountedStays
  <2>3. CASE Fails
    <3>1. at' \notin Streaming \cup Written1 /\ work'.done = work.done
      BY <1>1, <2>3, FailsWork DEF Streaming, Written1
    <3> QED
      BY <3>1, SameStream, CountedStays
  <2> QED
    BY <1>4, <2>1, <2>2, <2>3 DEF Checks
<1>5. CASE Exits
  <2>1. CASE Goes("await")
    <3>1. at = "exit" /\ at' = "await" /\ work' = work /\ Cur' = Cur
      BY <1>5, <2>1 DEF Exits, Goes, Cur
    <3>2. unit'[Cur].page = unit[Cur].page
      BY <1>1
    <3>3. StreamInv'
      BY <1>1, <3>1, <3>2 DEF StreamInv, Streaming, Written1, IsWhole
    <3> QED
      BY <3>1, <3>3, CountedStays
  <2>2. CASE Fails
    <3>1. at' \notin Streaming \cup Written1 /\ work'.done = work.done
      BY <1>1, <2>2, FailsWork DEF Streaming, Written1
    <3> QED
      BY <3>1, SameStream, CountedStays
  <2> QED
    BY <1>5, <2>1, <2>2 DEF Exits
<1>6. CASE Awaits
  <2>1. CASE Outcome("flashed")
    <3>1. /\ at' \notin Streaming \cup Written1 /\ work'.done = work.done \cup {Cur}
          /\ at = "await"
      BY <1>1, <1>6, <2>1, OutcomeWork DEF Streaming, Written1, Awaits
    <3>2. IsWhole(unit[Cur], "new")
      BY <1>1, <3>1 DEF StreamInv, Written1
    <3>3. \A u \in work.done \cup {Cur} : u \in Units
      BY <1>1 DEF Works
    <3>4. CountedIsNew'
      BY <1>1, <3>1, <3>2, <3>3 DEF CountedIsNew, IsWhole
    <3> QED
      BY <3>1, <3>4, SameStream
  <2>2. CASE Fails
    <3>1. at' \notin Streaming \cup Written1 /\ work'.done = work.done
      BY <1>1, <2>2, FailsWork DEF Streaming, Written1
    <3> QED
      BY <3>1, SameStream, CountedStays
  <2> QED
    BY <1>6, <2>1, <2>2 DEF Awaits
<1>7. CASE AsksAgain
  <2>1. at' \notin Streaming \cup Written1 /\ work'.done = work.done
    <3>1. CASE at' = "flash" /\ work' = [work EXCEPT !.attempt = @ + 1, !.write = 0, !.try = 1]
      BY <1>1, <3>1 DEF Works, Streaming, Written1
    <3>2. CASE Outcome("failed")
      BY <1>1, <3>2, OutcomeWork DEF Streaming, Written1
    <3> QED
      BY <1>7, <3>1, <3>2 DEF AsksAgain
  <2> QED
    BY <2>1, SameStream, CountedStays
<1> QED
  BY <1>2, <1>3, <1>4, <1>5, <1>6, <1>7

-----------------------------------------------------------------------------
\* The counts of what went wrong, and the histories.
LEMMA BusBounds == ASSUME BoundsOK, NEW way, Bus(way) PROVE BoundsOK'
<1>1. faults \in Nat /\ cycles \in Nat /\ restarts \in Nat /\ MaxMishaps \in Nat
  BY RowSizes DEF BoundsOK
<1>2. faults' \in {faults, faults + 1} /\ cycles' = cycles /\ restarts' = restarts
  BY DEF Bus
<1>3. faults' # faults => faults + cycles + restarts < MaxMishaps
  BY DEF Bus, Mishaps
<1>4. {faults', cycles', restarts'} \subseteq Nat
  BY <1>1, <1>2
<1>5. faults + cycles + restarts <= MaxMishaps
  BY DEF BoundsOK, Mishaps
<1>6. CASE faults' = faults
  BY <1>2, <1>4, <1>5, <1>6 DEF BoundsOK, Mishaps
<1>7. CASE faults' = faults + 1
  <2>1. faults + 1 + cycles + restarts <= MaxMishaps
    BY <1>1, <1>3, <1>7
  <2> QED
    BY <1>2, <1>4, <1>7, <2>1 DEF BoundsOK, Mishaps
<1> QED
  BY <1>2, <1>6, <1>7

LEMMA NoBounds == ASSUME BoundsOK, UNCHANGED bounds PROVE BoundsOK'
BY DEF BoundsOK, bounds, Mishaps

LEMMA OneMore ==
  ASSUME BoundsOK, Mishaps < MaxMishaps, faults' = faults,
         \/ cycles' = cycles + 1 /\ restarts' = restarts
         \/ cycles' = cycles /\ restarts' = restarts + 1
  PROVE  BoundsOK'
<1>1. faults \in Nat /\ cycles \in Nat /\ restarts \in Nat /\ MaxMishaps \in Nat
  BY RowSizes DEF BoundsOK
<1>2. {faults', cycles', restarts'} \subseteq Nat
  BY <1>1
<1>3. faults' + cycles' + restarts' <= MaxMishaps
  BY <1>1 DEF Mishaps
<1> QED
  BY <1>2, <1>3 DEF BoundsOK, Mishaps

LEMMA RepeatsHistory ==
  ASSUME HistoryOK, NEW u \in Units, NEW way, Repeats(u, way), before' = before
  PROVE  HistoryOK' /\ repeated \subseteq repeated'
BY DEF HistoryOK, Repeats

\* The rest of the bookkeeping of a turn's step.
LEMMA TurnRest ==
  ASSUME Inv, \/ AsksFirst \/ Orders \/ Enters \/ HandReset \/ ChecksChip \/ Writes
              \/ Checks \/ Exits \/ Awaits \/ AsksAgain
  PROVE  WorkInv' /\ RowOK' /\ BoundsOK' /\ HistoryOK' /\ repeated' = repeated
<1>1. Turn
  BY TurnWork
<1>2. InRun /\ repeated' = repeated
  BY DEF AsksFirst, Orders, Enters, HandReset, ChecksChip, Writes, Checks, Exits, Awaits, AsksAgain
<1>3. \E way : Bus(way)
  BY DEF AsksFirst, Orders, Enters, HandReset, ChecksChip, Writes, Checks, Exits, Awaits, AsksAgain, Ask
<1> QED
  BY <1>1, <1>2, <1>3, BusBounds DEF Inv, Turn, InRun, RowOK, HistoryOK

-----------------------------------------------------------------------------
\* The steps between the turns of the units, and those of the idle loop.
\* What they do to the run and to what the row knows.
Between == /\ WorkInv' /\ RowOK' /\ BoundsOK' /\ HistoryOK' /\ repeated \subseteq repeated'
           /\ work'.done \subseteq work.done
           /\ (at' \in Streaming \cup Written1 => at' = at /\ work' = work)

LEMMA ErrandSeqs ==
  /\ <<"probe">> \in Seq(Errands) /\ <<"probe", "poll">> \in Seq(Errands)
  /\ <<"job", "poll">> \in Seq(Errands) /\ \A on \in BOOLEAN : BootErrands(on) \in Seq(Errands)
<1>1. <<"probe">> \in Seq(Errands) /\ <<"probe", "poll">> \in Seq(Errands)
      /\ <<"job", "poll">> \in Seq(Errands)
  BY DEF Errands
<1>2. <<"probe", "probe", "poll">> \in Seq(Errands)
  BY DEF Errands
<1>3. <<"probe", "install", "probe", "install", "update", "poll">> \in Seq(Errands)
  BY DEF Errands
<1> QED
  BY <1>1, <1>2, <1>3 DEF BootErrands

LEMMA RestWork ==
  /\ Rest \in Works /\ Rest.left = {} /\ Rest.fails = 0 /\ Rest.done = {}
  /\ \A left \in SUBSET Units, done \in SUBSET Units, failed \in BOOLEAN, only \in Units \cup {0},
        force \in BOOLEAN :
       [Rest EXCEPT !.left = left, !.done = done, !.failed = failed, !.only = only, !.force = force]
         \in Works
<1>1. /\ 1 \in 1..Attempts /\ 1 \in 1..WriteTries /\ 0 \in 0..(LastPage + 1)
      /\ 0 \in 0..MaxFailures
  BY RowSizes, ImageHasPages
<1> QED
  BY <1>1 DEF Rest, Works

LEMMA Fits ==
  /\ Resting \subseteq Places /\ Busy \subseteq Places /\ {"settle", "end"} \subseteq Places
  /\ Resting \cap (Busy \cup Streaming \cup Written1 \cup {"settle", "end"}) = {}
  /\ 0 < MaxFailures /\ "absent" \in Facts /\ 0 \in 0..MissLimit
BY RowSizes DEF Resting, Busy, Streaming, Written1, Places, Facts

LEMMA PlansStep == ASSUME Inv, Plans PROVE Between
<1>1. /\ at = "loop" /\ todo # <<>> /\ work \in Works /\ todo \in Seq(Errands) /\ repeated' = repeated
      /\ UNCHANGED <<image, fact, misses, tried, bounds>>
  BY DEF Plans, Inv, WorkInv, RowOK
<1> DEFINE targets == Targets(Head(todo))
<1>2. /\ work' = [Rest EXCEPT !.left = targets, !.only = work.only, !.force = work.force]
      /\ IF targets = {} THEN todo' = Tail(todo) /\ at' = at ELSE at' = "ask" /\ todo' = todo
      /\ before' \subseteq Units
  BY DEF Plans
<1>3. targets \in SUBSET Units
  BY DEF Targets
<1> HIDE DEF targets
<1>4. /\ work' \in Works /\ work'.left = targets /\ work'.done = {} /\ work'.fails = 0
  <2>1. work.only \in Units \cup {0} /\ work.force \in BOOLEAN /\ {} \in SUBSET Units
    BY <1>1 DEF Works
  <2>2. work' = [left |-> targets, attempt |-> 1, write |-> 0, try |-> 1, fails |-> 0,
                 batch |-> {}, done |-> {}, failed |-> FALSE, only |-> work.only,
                 force |-> work.force]
    BY <1>2 DEF Rest
  <2>3. /\ 1 \in 1..Attempts /\ 1 \in 1..WriteTries /\ 0 \in 0..(LastPage + 1)
        /\ 0 \in 0..MaxFailures
    BY RowSizes, ImageHasPages
  <2> QED BY <1>3, <2>1, <2>2, <2>3 DEF Works
<1>5. Tail(todo) \in Seq(Errands)
  BY <1>1
<1>6. todo' \in Seq(Errands) /\ at' \in Places
  BY <1>1, <1>2, <1>5 DEF Places
<1>7. WorkInv'
  BY <1>1, <1>2, <1>4, Fits DEF WorkInv, Busy, Streaming, Written1, Resting
<1>8. RowOK' /\ HistoryOK' /\ BoundsOK'
  BY <1>1, <1>2, <1>6, NoBounds DEF Inv, RowOK, HistoryOK
<1> QED
  BY <1>1, <1>2, <1>4, <1>7, <1>8 DEF Between, Streaming, Written1

LEMMA SettlesStep == ASSUME Inv, Settles PROVE Between
<1>1. /\ at = "settle" /\ work \in Works /\ todo' = todo /\ repeated' = repeated
      /\ UNCHANGED <<image, fact, misses, tried, bounds, before>>
      /\ work' = [work EXCEPT !.batch = {}]
      /\ at' = IF work.left = {} THEN "end" ELSE "ask"
  BY DEF Settles, InRun, Inv, WorkInv
<1>2. /\ work' \in Works /\ work'.left = work.left /\ work'.done = work.done
      /\ work'.fails = work.fails
  BY <1>1 DEF Works
<1>3. WorkInv'
  BY <1>1, <1>2 DEF Inv, WorkInv, Busy, Streaming, Written1, Resting
<1>4. RowOK' /\ HistoryOK' /\ BoundsOK'
  BY <1>1, NoBounds DEF Inv, RowOK, HistoryOK, Places
<1> QED
  BY <1>1, <1>2, <1>3, <1>4 DEF Between, Streaming, Written1

LEMMA EndsStep == ASSUME Inv, Ends PROVE Between
<1>1. /\ at = "end" /\ at' = "loop" /\ work \in Works /\ repeated' = repeated
      /\ UNCHANGED <<image, fact, misses, tried, bounds, before>>
      /\ work' = [Rest EXCEPT !.done = work.done, !.failed = work.failed, !.only = work.only,
                              !.force = work.force]
      /\ todo' = (IF work.done = {} THEN <<>> ELSE <<"probe">>) \o Tail(todo)
      /\ todo \in Seq(Errands) /\ todo # <<>>
  BY DEF Ends, Inv, WorkInv, RowOK, Resting
<1>2. work' \in Works /\ work'.left = {} /\ work'.done = work.done /\ work'.fails = 0
  BY <1>1, RestWork DEF Works, Rest
<1>3. todo' \in Seq(Errands)
  <2>1. Tail(todo) \in Seq(Errands) /\ <<>> \in Seq(Errands) /\ <<"probe">> \in Seq(Errands)
    BY <1>1, ErrandSeqs
  <2> QED
    BY <1>1, <2>1
<1>4. WorkInv'
  BY <1>1, <1>2 DEF WorkInv, Busy, Streaming, Written1, Resting
<1>5. RowOK' /\ HistoryOK' /\ BoundsOK'
  BY <1>1, <1>3, NoBounds DEF Inv, RowOK, HistoryOK, Places
<1> QED
  BY <1>1, <1>2, <1>4, <1>5 DEF Between, Streaming, Written1

LEMMA BeginsStep ==
  ASSUME Inv, NEW errand \in {"probe", "poll"}, Begins(errand)
  PROVE  Between
<1>1. /\ at = "loop" /\ at' = errand /\ todo # <<>> /\ work \in Works /\ repeated' = repeated
      /\ UNCHANGED <<image, fact, misses, tried, bounds, before, todo>>
      /\ work' = [work EXCEPT !.left = Units] /\ work.fails = 0
  BY DEF Begins, Inv, WorkInv, Resting
<1>2. work' \in Works /\ work'.left = Units /\ work'.done = work.done /\ work'.fails = 0
  BY <1>1 DEF Works
<1>3. Units # {}
  BY RowSizes DEF Units
<1>4. WorkInv'
  BY <1>1, <1>2, <1>3, Fits DEF WorkInv, Busy, Streaming, Written1, Resting
<1>5. RowOK' /\ HistoryOK' /\ BoundsOK'
  BY <1>1, NoBounds DEF Inv, RowOK, HistoryOK, Places
<1> QED
  BY <1>1, <1>2, <1>4, <1>5 DEF Between, Streaming, Written1

\* One unit of a scan or a poll is done.
LEMMA NextOne ==
  ASSUME Inv, at \in {"probe", "poll"}, Next1
  PROVE  /\ WorkInv' /\ todo' \in Seq(Errands) /\ at' \in {at, "loop"} /\ work'.done = work.done
<1>1. /\ work \in Works /\ todo \in Seq(Errands) /\ todo # <<>> /\ work.fails = 0
      /\ Cur \in work.left /\ Tail(todo) \in Seq(Errands)
  BY CurIsUnit DEF Inv, WorkInv, RowOK, Resting
<1>2. /\ work' = [work EXCEPT !.left = @ \ {Cur}]
      /\ IF work.left = {Cur} THEN at' = "loop" /\ todo' = Tail(todo) ELSE at' = at /\ todo' = todo
  BY DEF Next1
<1>3. /\ work' \in Works /\ work'.left = work.left \ {Cur} /\ work'.done = work.done
      /\ work'.fails = 0
  BY <1>1, <1>2 DEF Works
<1>4. at' # "loop" => work'.left # {}
  BY <1>1, <1>2, <1>3
<1>5. WorkInv'
  BY <1>1, <1>2, <1>3, <1>4, Fits DEF WorkInv, Busy, Streaming, Written1, Resting
<1> QED
  BY <1>1, <1>2, <1>3, <1>5

LEMMA ProbesStep == ASSUME Inv, Probes PROVE Between
<1>1. /\ at = "probe" /\ Next1 /\ Cur \in Units /\ UNCHANGED <<image, tried, before>>
      /\ misses' = [misses EXCEPT ![Cur] = 0] /\ fact \in [Units -> Facts]
      /\ misses \in [Units -> 0..MissLimit]
  BY CurIsUnit DEF Probes, Inv, RowOK
<1>2. \E way \in Ways : Bus(way)
  BY DEF Probes, Ways
<1>3. \E way \in Ways : Repeats(Cur, way)
  BY DEF Probes, Ways
<1>4. \E f \in Facts : fact' = [fact EXCEPT ![Cur] = f]
  <2>1. \A way \in Ways : \A v \in IF way = "ok" THEN Versions(Cur) ELSE {"unknown"} : v \in Facts
    BY DEF Versions, Facts, Sketch
  <2>2. \A way \in {"ok", "lost"} : way \in Ways
    BY DEF Ways
  <2>3. {"absent", "boot", "held", "unknown", Identity(Cur)} \subseteq Facts
    BY DEF Identity, Facts, Sketch
  <2>4. \E f : f \in Facts /\ fact' = [fact EXCEPT ![Cur] = f]
    BY <2>1, <2>2, <2>3 DEF Probes
  <2> QED
    BY <2>4
<1>5. fact' \in [Units -> Facts] /\ misses' \in [Units -> 0..MissLimit]
  BY <1>1, <1>4, Fits
<1>6. WorkInv' /\ todo' \in Seq(Errands) /\ at' \in {at, "loop"} /\ work'.done = work.done
  BY <1>1, NextOne
<1>7. RowOK' /\ HistoryOK' /\ BoundsOK' /\ repeated \subseteq repeated'
  BY <1>1, <1>2, <1>3, <1>5, <1>6, BusBounds, RepeatsHistory DEF Inv, RowOK, Places
<1> QED
  BY <1>1, <1>6, <1>7 DEF Between, Streaming, Written1

LEMMA PolledStep ==
  ASSUME Inv, NEW u \in Units, Polled(u)
  PROVE  misses' \in [Units -> 0..MissLimit] /\ BoundsOK'
<1>1. misses \in [Units -> 0..MissLimit] /\ BoundsOK /\ MissLimit \in Nat
  BY RowSizes DEF Inv, RowOK
<1>2. BoundsOK'
  BY <1>1, BusBounds, NoBounds DEF Polled
<1>3. \E m \in 0..MissLimit : misses' = [misses EXCEPT ![u] = m]
  <2>1. CASE misses' = [misses EXCEPT ![u] = 0]
    BY <1>1, <2>1, Fits
  <2>2. ASSUME NEW way, NEW ack,
               misses' = [misses EXCEPT
                 ![u] = IF way = "ok" /\ ack /\ ~Answering(unit[u]) THEN 0
                        ELSE IF @ < MissLimit THEN @ + 1 ELSE @]
        PROVE  \E m \in 0..MissLimit : misses' = [misses EXCEPT ![u] = m]
    <3> DEFINE m == IF way = "ok" /\ ack /\ ~Answering(unit[u]) THEN 0
                    ELSE IF misses[u] < MissLimit THEN misses[u] + 1 ELSE misses[u]
    <3>1. m \in 0..MissLimit
      BY <1>1
    <3>2. misses' = [misses EXCEPT ![u] = m]
      BY <1>1, <2>2
    <3> QED
      BY <3>1, <3>2
  <2> QED
    BY <2>1, <2>2 DEF Polled
<1> QED
  BY <1>1, <1>2, <1>3

LEMMA PollsStep == ASSUME Inv, Polls PROVE Between
<1>1. /\ at = "poll" /\ Next1 /\ Cur \in Units /\ UNCHANGED <<image, fact, tried, before, repeated>>
      /\ Polled(Cur)
  BY CurIsUnit DEF Polls
<1>2. WorkInv' /\ todo' \in Seq(Errands) /\ at' \in {at, "loop"} /\ work'.done = work.done
  BY <1>1, NextOne
<1>3. RowOK' /\ HistoryOK' /\ BoundsOK'
  BY <1>1, <1>2, PolledStep DEF Inv, RowOK, HistoryOK, Places
<1> QED
  BY <1>1, <1>2, <1>3 DEF Between, Streaming, Written1

LEMMA HeartbeatStep == ASSUME Inv, NEW u \in Units, Heartbeat(u) PROVE Between
<1>1. /\ at' = "rescue" /\ work' = [Rest EXCEPT !.left = {u}] /\ Polled(u)
      /\ UNCHANGED <<image, fact, tried, todo, before, repeated>>
  BY DEF Heartbeat
<1>2. work' \in Works /\ work'.left = {u} /\ work'.done = {} /\ work'.fails = 0
  <2>1. /\ work'.left = {u} /\ work'.done = {} /\ work'.fails = 0
    BY <1>1 DEF Rest
  <2>2. Rest \in Works /\ {u} \in SUBSET Units
    BY RestWork
  <2>3. work' \in Works
    BY <1>1, <2>2 DEF Works
  <2> QED
    BY <2>1, <2>3
<1>3. WorkInv'
  BY <1>1, <1>2, Fits DEF WorkInv, Busy, Streaming, Written1, Resting
<1>4. RowOK' /\ HistoryOK' /\ BoundsOK'
  BY <1>1, PolledStep DEF Inv, RowOK, HistoryOK, Places
<1> QED
  BY <1>1, <1>2, <1>3, <1>4 DEF Between, Streaming, Written1

LEMMA RescueStep == ASSUME Inv, RescueTick PROVE Between
<1>1. /\ at' = "loop" /\ work' = Rest /\ UNCHANGED <<image, before>> /\ Cur \in Units
      /\ fact \in [Units -> Facts] /\ misses \in [Units -> 0..MissLimit]
      /\ tried \in [Units -> BOOLEAN] /\ todo \in Seq(Errands) /\ HistoryOK /\ BoundsOK
  BY CurIsUnit DEF RescueTick, Inv, RowOK
<1>2. /\ fact' \in [Units -> Facts] /\ misses' \in [Units -> 0..MissLimit]
      /\ tried' \in [Units -> BOOLEAN] /\ todo' \in Seq(Errands)
      /\ HistoryOK' /\ BoundsOK' /\ repeated \subseteq repeated'
  <2>1. CASE Rescues(Cur)
    <3>1. \E way \in Ways : Bus(way)
      BY <2>1 DEF Rescues
    <3>2. \E way \in Ways : Repeats(Cur, way)
      BY <2>1 DEF Rescues, Ways
    <3>3. fact' \in {fact, [fact EXCEPT ![Cur] = "held"]}
      BY <2>1 DEF Rescues
    <3>4. misses' \in {misses, [misses EXCEPT ![Cur] = 0]}
      BY <2>1 DEF Rescues
    <3>5. tried' = [tried EXCEPT ![Cur] = TRUE] /\ todo' = todo
      BY <2>1 DEF Rescues
    <3>6. "held" \in Facts
      BY DEF Facts
    <3>7. fact' \in [Units -> Facts]
      BY <1>1, <3>3, <3>6
    <3>8. misses' \in [Units -> 0..MissLimit]
      BY <1>1, <3>4, Fits
    <3> QED
      BY <1>1, <3>1, <3>2, <3>5, <3>7, <3>8, BusBounds, RepeatsHistory
  <2>2. CASE Rechecks(Cur)
    BY <1>1, <2>2, BusBounds, ErrandSeqs DEF Rechecks, Ask, HistoryOK
  <2>3. CASE /\ tried' \in {tried, [tried EXCEPT ![Cur] = FALSE]}
             /\ UNCHANGED <<unit, fact, misses, todo, bounds, repeated>>
    BY <1>1, <2>3, NoBounds DEF HistoryOK
  <2> QED
    BY <2>1, <2>2, <2>3 DEF RescueTick
<1>3. WorkInv'
  BY <1>1, RestWork, Fits DEF WorkInv, Busy, Streaming, Written1, Resting
<1>4. RowOK'
  BY <1>1, <1>2 DEF Inv, RowOK, Places
<1> QED
  BY <1>1, <1>2, <1>3, <1>4, RestWork DEF Between, Streaming, Written1

LEMMA AsksStep == ASSUME Inv, Rescan \/ Reflash PROVE Between
<1>1. PICK only \in Units \cup {0}, force \in BOOLEAN,
           errands \in {<<"probe", "poll">>, <<"job", "poll">>} : Asks(errands, only, force)
  BY DEF Rescan, Reflash
<1>2. /\ at = "loop" /\ at' = at /\ todo' = errands
      /\ work' = [Rest EXCEPT !.only = only, !.force = force]
      /\ UNCHANGED <<image, fact, misses, tried, before, bounds, repeated>>
  BY <1>1 DEF Asks
<1>3. work' \in Works /\ work'.left = {} /\ work'.done = {} /\ work'.fails = 0
  BY <1>2, RestWork DEF Works, Rest
<1>4. WorkInv'
  BY <1>2, <1>3, Fits DEF WorkInv, Busy, Streaming, Written1, Resting
<1>5. RowOK' /\ HistoryOK' /\ BoundsOK'
  BY <1>2, NoBounds, ErrandSeqs DEF Inv, RowOK, HistoryOK
<1> QED
  BY <1>2, <1>3, <1>4, <1>5 DEF Between, Streaming, Written1

LEMMA RestartStep == ASSUME Inv, Restart PROVE Between
<1>1. /\ at' = "loop" /\ work' = Rest /\ UNCHANGED <<image, before, repeated>>
      /\ fact' = [u \in Units |-> "absent"] /\ misses' = [u \in Units |-> 0]
      /\ tried' = [u \in Units |-> FALSE] /\ \E on \in BOOLEAN : todo' = BootErrands(on)
      /\ Mishaps < MaxMishaps /\ restarts' = restarts + 1 /\ faults' = faults /\ cycles' = cycles
  BY DEF Restart
<1>2. WorkInv'
  BY <1>1, RestWork, Fits DEF WorkInv, Busy, Streaming, Written1, Resting
<1>3. RowOK'
  BY <1>1, ErrandSeqs, Fits DEF Inv, RowOK, Places
<1>4. HistoryOK' /\ BoundsOK'
  BY <1>1, OneMore DEF Inv, HistoryOK
<1> QED
  BY <1>1, <1>2, <1>3, <1>4, RestWork DEF Between, Streaming, Written1

LEMMA AloneStep ==
  ASSUME Inv, NEW u \in Units,
         WindowEnds(u) \/ LeavesSketch(u) \/ Crashes(u) \/ RunsOn(u) \/ PowerCycle(u)
  PROVE  Between
<1>1. UNCHANGED <<image, rowVars, repeated>>
  BY DEF WindowEnds, LeavesSketch, Crashes, RunsOn, PowerCycle, UnitDoes
<1>2. BoundsOK'
  BY NoBounds, OneMore DEF Inv, WindowEnds, LeavesSketch, Crashes, RunsOn, PowerCycle
<1> QED
  BY <1>1, <1>2 DEF Inv, Between, rowVars, WorkInv, RowOK, HistoryOK

-----------------------------------------------------------------------------
\* The invariant holds at first.
LEMMA InvInit == Init => Inv
<1> SUFFICES ASSUME Init PROVE Inv
  OBVIOUS
<1>1. \A u \in Units, w \in {"old", "blank"} :
        Fresh(u, w) \in UnitRecs /\ Calm(Fresh(u, w)) /\ IsWhole(Fresh(u, w), w)
  <2> SUFFICES ASSUME NEW u \in Units, NEW w \in {"old", "blank"}
               PROVE  Fresh(u, w) \in UnitRecs /\ Calm(Fresh(u, w)) /\ IsWhole(Fresh(u, w), w)
    OBVIOUS
  <2>1. NoLatch \in Latches /\ 0 \in 0..Threshold
    BY ImageHasPages DEF NoLatch, Latches, Pages, Contents
  <2>2. w \in Contents
    BY DEF Contents, Images
  <2> QED
    BY <2>1, <2>2 DEF Fresh, UnitRecs, Calm, InBoot, IsWhole
<1>2. \A u \in Units : \E w \in {"old", "blank"} : unit[u] = Fresh(u, w)
  BY DEF Init
<1>3. unit \in [Units -> UnitRecs]
  BY <1>1 DEF Init
<1>4. UnitsOK
  BY <1>1, <1>2, <1>3 DEF UnitsOK
<1>5. \A u \in Units : unit[u].page[0] \in Images => IsWhole(unit[u], unit[u].page[0])
  BY <1>1, <1>2, ImageHasPages DEF IsWhole, Pages
<1>6. FirstPageVouches
  BY <1>5 DEF FirstPageVouches
<1>7. RowOK
  BY RowSizes, Fits, ErrandSeqs DEF Init, RowOK, Places
<1>8. BoundsOK /\ HistoryOK
  BY RowSizes DEF Init, BoundsOK, Mishaps, HistoryOK
<1>9. WorkInv /\ StreamInv /\ CountedIsNew
  BY RestWork, Fits DEF Init, WorkInv, StreamInv, CountedIsNew, Busy, Streaming, Written1, Resting
<1> QED
  BY <1>4, <1>6, <1>7, <1>8, <1>9 DEF Inv

\* Every step keeps it.
LEMMA BetweenKeeps == ASSUME Inv, Between, UnitsOK', PagesStay PROVE Inv'
BY SameStream, PagesVouch, CountedStays DEF Inv, Between

LEMMA InvNext == Inv /\ [Next]_vars => Inv'
<1> SUFFICES ASSUME Inv, [Next]_vars PROVE Inv'
  OBVIOUS
<1>1. CASE Writes
  BY <1>1, TurnRest, WritesUnits, WritesKeep DEF Inv
<1>2. CASE ~Writes
  <2>1. UnitsOK' /\ PagesStay
    BY <1>2, UnitsStep
  <2>2. CASE \/ AsksFirst \/ Orders \/ Enters \/ HandReset \/ ChecksChip
             \/ Checks \/ Exits \/ Awaits \/ AsksAgain
    BY <2>1, <2>2, TurnRest, TurnStream, PagesVouch DEF Inv
  <2>3. CASE Plans \/ Settles \/ Ends
    BY <2>1, <2>3, PlansStep, SettlesStep, EndsStep, BetweenKeeps
  <2>4. CASE Scan
    BY <2>1, <2>4, BeginsStep, ProbesStep, PollsStep, BetweenKeeps DEF Scan
  <2>5. CASE (\E u \in Units : Heartbeat(u)) \/ RescueTick
    BY <2>1, <2>5, HeartbeatStep, RescueStep, BetweenKeeps
  <2>6. CASE Rescan \/ Reflash \/ Restart
    BY <2>1, <2>6, AsksStep, RestartStep, BetweenKeeps
  <2>7. CASE UnitStep \/ \E u \in Units : PowerCycle(u)
    BY <2>1, <2>7, AloneStep, BetweenKeeps DEF UnitStep
  <2>8. CASE UNCHANGED vars
    BY <2>8 DEF vars, rowVars, bounds, Inv, UnitsOK, Calm, RowOK, BoundsOK, Mishaps, HistoryOK,
                WorkInv, StreamInv, Cur, FirstPageVouches, CountedIsNew, IsWhole
  <2> QED
    BY <1>2, <2>2, <2>3, <2>4, <2>5, <2>6, <2>7, <2>8 DEF Next, Run
<1> QED
  BY <1>1, <1>2

\* The invariant holds in every state of a row of any size.
THEOREM InvHolds == Spec => []Inv
<1> QED
  BY InvInit, InvNext, PTL DEF Spec

\* The units and the row have their types, and no more goes wrong than MaxMishaps.
THEOREM TypesHold == Spec => []TypeOK
<1>1. Inv => TypeOK
  BY DEF Inv, UnitsOK, RowOK, BoundsOK, HistoryOK, WorkInv, TypeOK
<1> QED
  BY <1>1, InvHolds, PTL

\* The order of the page writes: a first page that belongs to an image has the whole
\* image behind it, whatever was lost, garbled or cut short on the way there.
THEOREM FirstPageHolds == Spec => []FirstPageVouches
<1>1. Inv => FirstPageVouches
  BY DEF Inv
<1> QED
  BY <1>1, InvHolds, PTL

\* A unit that the row counts as flashed holds every page of the new image.
THEOREM CountedHolds == Spec => []CountedIsNew
<1>1. Inv => CountedIsNew
  BY DEF Inv
<1> QED
  BY <1>1, InvHolds, PTL

-----------------------------------------------------------------------------
(* Who is listening *)

Listening == {"pinned", "waits"}
Heeded    == {"flash", "write", "check", "exit"}

\* While no unit loses its power, the unit that is written to sits in its bootloader, and
\* the one that is waited for runs what was written, if that runs at all.
Attentive ==
  cycles = 0 =>
    /\ at \in Heeded => unit[Cur].at \in Listening
    /\ at = "await" /\ image # "crashes" => unit[Cur].at = "app"

\* What the end of a turn leaves of the run.
Left(fails) == IF fails >= MaxFailures THEN {} ELSE work.left \ {Cur}
LEMMA OutcomeShape ==
  ASSUME Inv, NEW how \in {"flashed", "failed", "notEntered"}, Outcome(how)
  PROVE  /\ how = "flashed" => work'.fails = 0
         /\ how = "failed" => work'.fails = work.fails + 1
         /\ how = "notEntered" => work'.fails = work.fails
         /\ work'.left = Left(work'.fails)
         /\ work'.batch = IF how = "flashed" THEN work.batch \cup {Cur} ELSE work.batch
         /\ work'.done = IF how = "flashed" THEN work.done \cup {Cur} ELSE work.done
         /\ work'.failed = (work.failed \/ how # "flashed")
         /\ fact' = IF how = "flashed" THEN [fact EXCEPT ![Cur] = "ours"] ELSE fact
         /\ at' \in {"settle", "end", "ask"}
         /\ at' = "end" => work'.left = {}
         /\ at' = "end" => work'.batch = {}
<1> DEFINE fails == CASE how = "flashed" -> 0 [] how = "failed" -> work.fails + 1 [] OTHER -> work.fails
           batch == IF how = "flashed" THEN work.batch \cup {Cur} ELSE work.batch
           left  == IF fails >= MaxFailures THEN {} ELSE work.left \ {Cur}
           done  == IF how = "flashed" THEN work.done \cup {Cur} ELSE work.done
           failed == work.failed \/ how # "flashed"
<1>1. work \in Works
  BY DEF Inv, WorkInv
<1>2. /\ work' = [work EXCEPT !.left = left, !.fails = fails, !.batch = batch,
                              !.attempt = 1, !.write = 0, !.try = 1,
                              !.done = done, !.failed = failed]
      /\ fact' = IF how = "flashed" THEN [fact EXCEPT ![Cur] = "ours"] ELSE fact
      /\ at' = IF Cardinality(batch) >= Batch \/ (left = {} /\ batch # {}) THEN "settle"
               ELSE IF left = {} THEN "end" ELSE "ask"
  BY <1>1, Zenon DEF Outcome, Works
<1>3. /\ how = "flashed" => fails = 0
      /\ how = "failed" => fails = work.fails + 1
      /\ how = "notEntered" => fails = work.fails
  OBVIOUS
<1>4. left = Left(fails)
  BY DEF Left
<1> HIDE DEF fails, batch, left, done, failed
<1>5. /\ work'.left = left /\ work'.fails = fails /\ work'.batch = batch /\ work'.done = done
      /\ work'.failed = failed
  BY <1>1, <1>2 DEF Works
<1>6. at' \in {"settle", "end", "ask"} /\ (at' = "end" => left = {} /\ batch = {})
  BY <1>2
<1>7. batch = IF how = "flashed" THEN work.batch \cup {Cur} ELSE work.batch
  BY DEF batch
<1>8. done = IF how = "flashed" THEN work.done \cup {Cur} ELSE work.done
  BY DEF done
<1>9. failed = (work.failed \/ how # "flashed")
  BY DEF failed
<1> QED BY <1>2, <1>3, <1>4, <1>5, <1>6, <1>7, <1>8, <1>9

\* The steps outside a unit's turn.
Aside == \/ Plans \/ Settles \/ Ends \/ Scan \/ (\E u \in Units : Heartbeat(u)) \/ RescueTick
         \/ Rescan \/ Reflash \/ Restart
OfTurn == \/ AsksFirst \/ Orders \/ Enters \/ HandReset \/ ChecksChip \/ Writes
          \/ Checks \/ Exits \/ Awaits \/ AsksAgain

LEMMA NextSplit == Next <=> Aside \/ OfTurn \/ UnitStep \/ (\E u \in Units : PowerCycle(u))
BY DEF Next, Run, Aside, OfTurn

LEMMA AsideGoes ==
  ASSUME Inv, Aside
  PROVE  at' \in Resting \cup {"ask", "end"} /\ image' = image /\ cycles' = cycles
<1>1. CASE Plans \/ Settles \/ Ends
  BY <1>1 DEF Plans, Settles, Ends, Resting, InRun, bounds
<1>2. CASE Begins("probe") \/ Begins("poll")
  BY <1>2 DEF Begins, Resting, bounds
<1>3. CASE Probes \/ Polls
  <2>1. at' \in Resting
    BY <1>3 DEF Probes, Polls, Next1, Resting
  <2>2. image' = image /\ cycles' = cycles
    BY <1>3 DEF Probes, Polls, Polled, Bus, bounds
  <2> QED BY <2>1, <2>2
<1>4. CASE \E u \in Units : Heartbeat(u)
  BY <1>4 DEF Heartbeat, Polled, Bus, bounds, Resting
<1>5. CASE RescueTick
  <2>1. cycles' = cycles
    BY <1>5 DEF RescueTick, Rescues, Rechecks, Ask, Bus, bounds
  <2> QED BY <1>5, <2>1 DEF RescueTick, Resting
<1>6. CASE Rescan \/ Reflash \/ Restart
  BY <1>6 DEF Rescan, Reflash, Asks, Restart, bounds, Resting
<1> QED BY <1>1, <1>2, <1>3, <1>4, <1>5, <1>6 DEF Aside, Scan

LEMMA TurnGoes ==
  ASSUME Inv, OfTurn
  PROVE  /\ at \in Busy /\ Cur \in Units /\ Cur \in work.left /\ todo' = todo
         /\ image' = image /\ before' = before /\ repeated' = repeated
         /\ cycles' = cycles /\ restarts' = restarts
<1>1. at \in Busy
  BY DEF OfTurn, AsksFirst, Orders, Enters, HandReset, ChecksChip, Writes, Checks, Exits, Awaits,
         AsksAgain, Busy, Streaming, Written1
<1>2. InRun /\ repeated' = repeated
  BY DEF OfTurn, AsksFirst, Orders, Enters, HandReset, ChecksChip, Writes, Checks, Exits, Awaits,
         AsksAgain
<1>3. \E way : Bus(way)
  BY DEF OfTurn, AsksFirst, Orders, Enters, HandReset, ChecksChip, Writes, Checks, Exits, Awaits,
         AsksAgain, Ask
<1> QED BY <1>1, <1>2, <1>3, CurIsUnit DEF InRun, Bus

\* A question that is answered was heard, and the window is over.
LEMMA Heard ==
  ASSUME UnitsOK, NEW u \in Units, NEW way, Ask(u, way), IsThere(u, way)
  PROVE  /\ unit' = [unit EXCEPT ![u] = Commanded(unit[u])]
         /\ unit'[u].at \in Listening /\ unit'[u].latch = NoLatch /\ unit'[u].page = unit[u].page
<1>1. way = "ok" /\ Answering(unit[u]) /\ unit[u] \in UnitRecs
  BY UnitIs DEF IsThere
<1>2. unit' = [unit EXCEPT ![u] = Commanded(unit[u])]
  BY <1>1 DEF Ask, Unit, Asked
<1>3. unit'[u] = Commanded(unit[u])
  BY <1>2 DEF UnitsOK
<1>4. Commanded(unit[u]).at \in Listening /\ Commanded(unit[u]).latch = NoLatch
  BY <1>1 DEF Commanded, Answering, InBoot, Listening, UnitRecs
<1>5. Commanded(unit[u]).page = unit[u].page
  BY <1>1, CommandedUnit
<1> QED BY <1>2, <1>3, <1>4, <1>5

\* A unit with the whole image starts it on the last order of the flash.
LEMMA SwitchStarts ==
  ASSUME NEW rec \in UnitRecs, NEW i \in Images, IsWhole(rec, i)
  PROVE  /\ Switched(rec).at = "app" /\ Switched(rec).latch = NoLatch
         /\ Switched(rec).page = rec.page
<1>1. rec.page[0] = i
  BY ImageHasPages DEF IsWhole, Pages
<1>2. [rec EXCEPT !.crashes = 0].page = rec.page
  BY DEF UnitRecs
<1>3. Switched(rec) = [[rec EXCEPT !.crashes = 0] EXCEPT !.at = "app", !.latch = NoLatch]
  BY <1>1, <1>2 DEF Switched, Jump, Images
<1> QED BY <1>3 DEF UnitRecs

\* A step of a turn that ends it, or leads to the next attempt, is of no matter here.
LEMMA NotHeeded ==
  ASSUME Inv, at \in Busy, todo' = todo,
         \/ Fails \/ NotEntered
         \/ \E how \in {"flashed", "failed", "notEntered"} : Outcome(how)
  PROVE  at' \in {"again", "hand", "settle", "end", "ask"}
BY FailsWork, NotEnteredWork, OutcomeShape

LEMMA TurnAttends ==
  ASSUME Inv, Attentive, OfTurn, cycles = 0
  PROVE  /\ at' \in Heeded => unit'[Cur'].at \in Listening
         /\ at' = "await" => unit'[Cur'].at = "app"
<1>1. /\ at \in Busy /\ Cur \in Units /\ todo' = todo /\ UnitsOK /\ work \in Works
      /\ unit[Cur] \in UnitRecs
  BY TurnGoes DEF Inv, WorkInv, UnitsOK
<1>2. CASE at' \notin Heeded \cup {"await"}
  BY <1>2
<1>3. CASE at' \in Heeded \cup {"await"}
  <2>1. ~Fails /\ ~NotEntered /\ \A how \in {"flashed", "failed", "notEntered"} : ~Outcome(how)
    BY <1>1, <1>3, NotHeeded DEF Heeded
  <2>2. work'.left = work.left
    BY <1>1, <1>3, <2>1 DEF OfTurn, AsksFirst, Orders, Enters, HandReset, ChecksChip, Writes, Checks,
                            Exits, Awaits, AsksAgain, Goes, Works
  <2>3. Cur' = Cur
    BY <2>2, CurStays
  <2>4. CASE AsksFirst \/ Enters \/ ChecksChip \/ Checks \/ AsksAgain
    <3>1. \E way \in Ways : Ask(Cur, way) /\ IsThere(Cur, way)
      BY <1>3, <2>1, <2>4
      DEF AsksFirst, Enters, ChecksChip, Checks, AsksAgain, Goes, Heeded
    <3>2. at' # "await"
      BY <2>1, <2>4 DEF AsksFirst, Enters, ChecksChip, Checks, AsksAgain, Goes
    <3> QED BY <1>1, <2>3, <3>1, <3>2, Heard
  <2>5. CASE HandReset
    <3>1. Ask(Cur, "ok") /\ IsThere(Cur, "ok") /\ at' = "flash"
      BY <2>1, <2>5 DEF HandReset, IsThere, Goes
    <3> QED BY <1>1, <2>3, <3>1, Heard
  <2>6. CASE Writes
    <3>1. at = "write" /\ at' = "check" /\ unit[Cur].at \in Listening
      BY <2>1, <2>6 DEF Writes, Goes, Attentive, Heeded
    <3>2. PICK way \in Ways \cup {"garbled"} :
            LET what == IF way = "garbled" THEN "junk" ELSE Wanted(work.write)
            IN  IF Answering(unit[Cur])
                THEN Unit(Cur, Written(unit[Cur], PageOf(work.write), what), way)
                ELSE UNCHANGED unit
      BY <2>6 DEF Writes
    <3> DEFINE what == IF way = "garbled" THEN "junk" ELSE Wanted(work.write)
    <3>3. unit' \in {unit, [unit EXCEPT ![Cur] = Written(unit[Cur], PageOf(work.write), what)]}
      BY <3>2 DEF Unit
    <3> HIDE DEF what
    <3>4. Written(unit[Cur], PageOf(work.write), what).at = unit[Cur].at
      BY <1>1, <3>1 DEF Written, Commanded, Listening, UnitRecs
    <3>5. unit'[Cur].at = unit[Cur].at
      BY <1>1, <3>3, <3>4 DEF UnitsOK
    <3> QED BY <2>3, <3>1, <3>5
  <2>7. CASE Exits
    <3>1. at = "exit" /\ at' = "await" /\ unit[Cur].at \in Listening
      BY <2>1, <2>7 DEF Exits, Goes, Attentive, Heeded
    <3>2. unit' = [unit EXCEPT ![Cur] = Switched(unit[Cur])]
      BY <2>1, <2>7, <3>1 DEF Exits, Unit, Answering, Listening, InBoot
    <3>3. IsWhole(unit[Cur], "new")
      BY <3>1 DEF Inv, StreamInv, Written1
    <3>4. Switched(unit[Cur]).at = "app"
      BY <1>1, <3>3, SwitchStarts DEF Images
    <3> QED BY <1>1, <2>3, <3>1, <3>2, <3>4 DEF UnitsOK, Heeded
  <2>8. CASE Orders \/ Awaits
    BY <1>3, <2>1, <2>8 DEF Orders, Awaits, Goes, Heeded
  <2> QED BY <2>4, <2>5, <2>6, <2>7, <2>8 DEF OfTurn
<1> QED BY <1>2, <1>3

\* What a unit does by itself while the row is busy with it.
LEMMA AloneAttends ==
  ASSUME Inv, Attentive, NEW u \in Units,
         WindowEnds(u) \/ LeavesSketch(u) \/ Crashes(u) \/ RunsOn(u), cycles = 0
  PROVE  /\ at' \in Heeded => unit'[Cur'].at \in Listening
         /\ at' = "await" /\ image' # "crashes" => unit'[Cur'].at = "app"
<1>1. at' = at /\ work' = work /\ image' = image
  BY DEF WindowEnds, LeavesSketch, Crashes, RunsOn, UnitDoes, rowVars
<1>2. Cur' = Cur
  BY <1>1 DEF Cur
<1>3. CASE at \notin Heeded \cup {"await"}
  BY <1>1, <1>3
<1>4. CASE at \in Heeded \cup {"await"}
  <2>1. Cur \in Units /\ work.left # {} /\ UnitsOK
    BY <1>4, CurIsUnit DEF Heeded, Busy, Streaming, Written1, Inv
  <2>2. CASE u # Cur
    <3>1. unit'[Cur] = unit[Cur]
      BY <2>1, <2>2 DEF WindowEnds, LeavesSketch, Crashes, RunsOn, UnitDoes, UnitsOK
    <3> QED BY <1>1, <1>2, <3>1 DEF Attentive
  <2>3. CASE u = Cur /\ at \in Heeded
    <3>1. unit[u].at \in Listening /\ Attended(u)
      BY <2>1, <2>3 DEF Attentive, Attended, Heeded
    <3> QED BY <3>1 DEF WindowEnds, LeavesSketch, Crashes, RunsOn, MayCrash, RunsWell, Listening
  <2>4. CASE u = Cur /\ at = "await" /\ image # "crashes"
    <3>1. unit[u].at = "app" /\ IsWhole(unit[u], "new")
      BY <2>4 DEF Attentive, Inv, StreamInv, Written1
    <3>2. ~MayCrash(u)
      BY <2>4, <3>1 DEF MayCrash, RunsWell, Inv, RowOK
    <3>3. unit' = [unit EXCEPT ![u] = [unit[u] EXCEPT !.crashes = 0]]
      BY <3>1, <3>2 DEF WindowEnds, LeavesSketch, Crashes, RunsOn, UnitDoes
    <3>4. unit'[u].at = "app"
      BY <2>1, <3>1, <3>3 DEF UnitsOK, UnitRecs
    <3> QED BY <1>1, <1>2, <2>4, <3>4 DEF Heeded
  <2> QED BY <1>1, <1>4, <2>2, <2>3, <2>4 DEF Heeded
<1> QED BY <1>3, <1>4

LEMMA CyclesOnly ==
  ASSUME Inv, [Next]_vars, cycles' = 0
  PROVE  cycles = 0 /\ image' = image /\ \A u \in Units : ~PowerCycle(u)
<1>1. cycles \in Nat
  BY DEF Inv, BoundsOK
<1>2. \A u \in Units : PowerCycle(u) => cycles' = cycles + 1
  BY DEF PowerCycle
<1>3. CASE Aside
  BY <1>1, <1>2, <1>3, AsideGoes
<1>4. CASE OfTurn
  BY <1>1, <1>2, <1>4, TurnGoes
<1>5. CASE UnitStep
  <2>1. image' = image /\ cycles' = cycles
    BY <1>5 DEF UnitStep, WindowEnds, LeavesSketch, Crashes, RunsOn, UnitDoes, bounds
  <2> QED BY <1>1, <1>2, <2>1
<1>6. CASE UNCHANGED vars
  BY <1>1, <1>2, <1>6 DEF vars, bounds
<1> QED BY <1>1, <1>2, <1>3, <1>4, <1>5, <1>6, NextSplit

LEMMA AttentiveNext ==
  ASSUME Inv, Attentive, [Next]_vars
  PROVE  Attentive'
<1> SUFFICES ASSUME cycles' = 0
             PROVE  /\ at' \in Heeded => unit'[Cur'].at \in Listening
                    /\ at' = "await" /\ image' # "crashes" => unit'[Cur'].at = "app"
  BY DEF Attentive
<1>1. cycles = 0 /\ \A u \in Units : ~PowerCycle(u)
  BY CyclesOnly
<1>2. CASE Aside
  BY <1>2, AsideGoes DEF Resting, Heeded
<1>3. CASE OfTurn
  BY <1>1, <1>3, TurnAttends
<1>4. CASE UnitStep
  BY <1>1, <1>4, AloneAttends DEF UnitStep
<1>5. CASE UNCHANGED vars
  BY <1>1, <1>5 DEF vars, rowVars, Cur, Attentive
<1> QED BY <1>1, <1>2, <1>3, <1>4, <1>5, NextSplit

-----------------------------------------------------------------------------
(* An image that does not answer *)

\* The units that ran when the run began and have lost their program.
Damaged == {u \in before \ repeated : ~IsWhole(unit[u], "old")}
Early   == {"ask", "order", "enter", "hand", "settle"}

\* Of the units still to come only the one whose turn it is can be damaged, and that only
\* when it was written to; each of the others has been counted as a failure.
Charged ==
  at \in Busy \cup {"settle"} /\ work.left # {} =>
    /\ Damaged \cap work.left \subseteq {Cur}
    /\ at \in Early => Damaged \cap work.left = {}
    /\ Cardinality(Damaged \ work.left) <= work.fails
BadInv == image = "mute" /\ cycles = 0 => Cardinality(Damaged) <= MaxFailures /\ Charged

\* Fewer units are no more units.
LEMMA NoMore ==
  ASSUME NEW T \in SUBSET Units, NEW S \in SUBSET T
  PROVE  /\ Cardinality(S) \in Nat /\ Cardinality(T) \in Nat /\ Cardinality(S) <= Cardinality(T)
<1>1. IsFiniteSet(Units)
  BY RowSizes, FS_Interval DEF Units
<1>2. IsFiniteSet(T)
  BY <1>1, FS_Subset
<1> QED BY <1>2, FS_Subset, FS_CardinalityType

LEMMA OneMoreUnit ==
  ASSUME NEW T \in SUBSET Units, NEW x \in Units, NEW S \in SUBSET (T \cup {x})
  PROVE  Cardinality(S) <= Cardinality(T) + 1
<1>1. IsFiniteSet(Units)
  BY RowSizes, FS_Interval DEF Units
<1>2. IsFiniteSet(T)
  BY <1>1, FS_Subset
<1>3. Cardinality(T) \in Nat /\ Cardinality(T \cup {x}) \in {Cardinality(T), Cardinality(T) + 1}
  BY <1>2, FS_AddElement, FS_CardinalityType
<1>4. Cardinality(S) \in Nat /\ Cardinality(T \cup {x}) \in Nat
      /\ Cardinality(S) <= Cardinality(T \cup {x})
  BY NoMore
<1> QED BY <1>3, <1>4

\* Nothing but a write damages a unit.
LEMMA NoDamage ==
  ASSUME Inv, PagesStay, repeated \subseteq repeated', before' = before
  PROVE  Damaged' \subseteq Damaged
<1> SUFFICES ASSUME NEW u \in Damaged' PROVE u \in Damaged
  OBVIOUS
<1>1. u \in before \ repeated' /\ u \in Units /\ ~IsWhole(unit[u], "old")'
  BY DEF Damaged, Inv, HistoryOK
<1>2. unit'[u].page = unit[u].page
  BY <1>1 DEF PagesStay, Again
<1> QED BY <1>1, <1>2 DEF Damaged, IsWhole

LEMMA WriteDamage ==
  ASSUME Inv, Writes
  PROVE  Damaged' \subseteq Damaged \cup {Cur}
<1> SUFFICES ASSUME NEW u \in Damaged', u # Cur PROVE u \in Damaged
  OBVIOUS
<1>1. repeated' = repeated /\ before' = before
  BY DEF Writes, InRun
<1>2. u \in before \ repeated /\ u \in Units /\ ~IsWhole(unit[u], "old")'
  BY <1>1 DEF Damaged, Inv, HistoryOK
<1>3. unit'[u].page = unit[u].page
  BY <1>2, WritesUnits
<1> QED BY <1>2, <1>3 DEF Damaged, IsWhole

\* How a step of a unit's turn may end: the turn goes on, or it has one of three outcomes.
SameTurn == /\ work'.left = work.left /\ work'.fails = work.fails /\ at' \in Busy
            /\ at' \in Early => at \in Early /\ ~Writes
TurnEnds == \/ Outcome("failed")
            \/ Outcome("notEntered") /\ at \in Early /\ ~Writes
            \/ Outcome("flashed") /\ at = "await" /\ TRUE \in Acks(Cur)

LEMMA TurnSplit ==
  ASSUME Inv, OfTurn
  PROVE  SameTurn \/ TurnEnds
<1>1. work \in Works
  BY DEF Inv, WorkInv
<1>2. ASSUME Fails, at \notin Early PROVE SameTurn \/ TurnEnds
  BY <1>2 DEF Fails, SameTurn, TurnEnds, Busy, Early
<1>3. ASSUME NotEntered, at \in Early, ~Writes PROVE SameTurn \/ TurnEnds
  BY <1>3 DEF NotEntered, SameTurn, TurnEnds, Busy, Early
<1>4. CASE AsksFirst \/ Orders \/ Enters \/ HandReset
  <2>1. ~Writes /\ at \in Early
    BY <1>4 DEF AsksFirst, Orders, Enters, HandReset, Writes, Early
  <2>2. \/ \E p \in {"flash", "order", "enter"} : Goes(p)
        \/ NotEntered \/ Outcome("notEntered")
    BY <1>4 DEF AsksFirst, Orders, Enters, HandReset
  <2> QED BY <1>3, <2>1, <2>2 DEF Goes, SameTurn, TurnEnds, Busy, Streaming
<1>5. CASE ChecksChip \/ Writes \/ Checks \/ Exits
  <2>1. at \notin Early
    BY <1>5 DEF ChecksChip, Writes, Checks, Exits, Early
  <2>2. \/ Fails
        \/ /\ at' \in {"write", "check", "exit", "await"}
           /\ work'.left = work.left /\ work'.fails = work.fails
    BY <1>1, <1>5 DEF ChecksChip, Writes, Checks, Exits, Goes, Works
  <2> QED BY <1>2, <2>1, <2>2 DEF SameTurn, Busy, Streaming, Written1, Early
<1>6. CASE Awaits
  <2>1. at = "await" /\ ((TRUE \in Acks(Cur) /\ Outcome("flashed")) \/ Fails)
    BY <1>6 DEF Awaits, Acks
  <2> QED BY <1>2, <2>1 DEF TurnEnds, Early
<1>7. CASE AsksAgain
  <2>1. \/ at' = "flash" /\ work'.left = work.left /\ work'.fails = work.fails
        \/ Outcome("failed")
    BY <1>1, <1>7 DEF AsksAgain, Works
  <2> QED BY <2>1 DEF SameTurn, TurnEnds, Busy, Early
<1> QED BY <1>4, <1>5, <1>6, <1>7 DEF OfTurn

\* An image that does not answer is never taken for a success: the unit that is waited for
\* runs it, whole.
LEMMA MuteIsNoSuccess ==
  ASSUME Inv, Attentive, image = "mute", cycles = 0, at = "await"
  PROVE  TRUE \notin Acks(Cur)
<1>1. unit[Cur].at = "app" /\ IsWhole(unit[Cur], "new")
  BY DEF Attentive, Inv, StreamInv, Written1
<1>2. ~IsWhole(unit[Cur], "old")
  BY <1>1, ImageHasPages DEF IsWhole, Pages
<1> QED BY <1>1, <1>2 DEF Acks, RunsWell

\* In a unit's turn no other unit is damaged, and its own damage is charged to the run.
LEMMA TurnCharged ==
  ASSUME Inv, Inv', Attentive, BadInv, OfTurn, image = "mute", cycles = 0
  PROVE  Cardinality(Damaged') <= MaxFailures /\ Charged'
<1> DEFINE gone == Damaged \ work.left
<1>1. /\ at \in Busy /\ Cur \in Units /\ Cur \in work.left /\ before' = before
      /\ repeated' = repeated /\ work \in Works /\ work' \in Works /\ work.fails < MaxFailures
      /\ work.fails \in Nat /\ MaxFailures \in Nat
  BY TurnGoes, RowSizes DEF Inv, WorkInv, Works
<1>2. /\ Damaged \cap work.left \subseteq {Cur} /\ (at \in Early => Damaged \cap work.left = {})
      /\ Cardinality(gone) <= work.fails
  BY <1>1 DEF BadInv, Charged
<1>3. Damaged \subseteq Units /\ Damaged' \subseteq Units
  BY DEF Damaged, Inv, HistoryOK
<1>5. ~Writes => Damaged' \subseteq Damaged
  BY <1>1, UnitsStep, NoDamage, NextSplit
<1>6. Damaged' \subseteq gone \cup {Cur}
  BY <1>1, <1>2, <1>5, WriteDamage
<1>7. at \in Early /\ ~Writes => Damaged' \subseteq gone
  BY <1>2, <1>5
<1>8. gone \in SUBSET Units /\ Damaged' \in SUBSET (gone \cup {Cur})
  BY <1>3, <1>6
<1> HIDE DEF gone
<1>9. /\ Cardinality(Damaged') \in Nat /\ Cardinality(gone) \in Nat
      /\ Cardinality(Damaged') <= Cardinality(gone) + 1
  BY <1>1, <1>3, <1>8, NoMore, OneMoreUnit
<1>10. Cardinality(Damaged') <= work.fails + 1 /\ Cardinality(Damaged') <= MaxFailures
  BY <1>1, <1>2, <1>9
<1>11. CASE SameTurn
  <2>1. Cur' = Cur /\ work'.left = work.left /\ work'.fails = work.fails
    BY <1>11, CurStays DEF SameTurn
  <2>2. Damaged' \ work'.left \in SUBSET gone
    BY <1>1, <1>6, <2>1
  <2>3. Cardinality(Damaged' \ work'.left) <= work'.fails
    <3>1. Cardinality(Damaged' \ work'.left) \in Nat
          /\ Cardinality(Damaged' \ work'.left) <= Cardinality(gone)
      BY <1>8, <2>2, NoMore
    <3> QED BY <1>1, <1>2, <1>9, <2>1, <3>1
  <2>4. Damaged' \cap work'.left \subseteq {Cur'}
    BY <1>6, <2>1 DEF gone
  <2>5. at' \in Early => Damaged' \cap work'.left = {}
    BY <1>7, <1>11, <2>1 DEF SameTurn, gone
  <2> QED BY <1>10, <2>3, <2>4, <2>5 DEF Charged
<1>12. CASE Outcome("failed")
  <2>1. work'.fails = work.fails + 1 /\ work'.left \subseteq work.left \ {Cur}
    BY <1>12, OutcomeShape DEF Left
  <2>2. Damaged' \cap work'.left = {}
    BY <1>6, <2>1 DEF gone
  <2>3. Damaged' \ work'.left = Damaged'
    BY <2>2
  <2> QED BY <1>10, <2>1, <2>2, <2>3 DEF Charged
<1>13. CASE Outcome("notEntered") /\ at \in Early /\ ~Writes
  <2>1. work'.fails = work.fails /\ work'.left \subseteq work.left \ {Cur}
    BY <1>13, OutcomeShape DEF Left
  <2>2. Damaged' \subseteq gone
    BY <1>7, <1>13
  <2>3. Damaged' \cap work'.left = {} /\ Damaged' \ work'.left = Damaged'
    BY <2>1, <2>2 DEF gone
  <2>4. Cardinality(Damaged') <= work.fails
    <3>1. Cardinality(Damaged') <= Cardinality(gone)
      BY <1>8, <2>2, NoMore
    <3> QED BY <1>1, <1>2, <1>9, <3>1
  <2> QED BY <1>10, <2>1, <2>3, <2>4 DEF Charged
<1> QED BY <1>11, <1>12, <1>13, TurnSplit, MuteIsNoSuccess DEF TurnEnds

\* The steps outside the turns.
LEMMA AsideBetween == ASSUME Inv, Aside PROVE Between
BY PlansStep, SettlesStep, EndsStep, BeginsStep, ProbesStep, PollsStep, HeartbeatStep, RescueStep,
   AsksStep, RestartStep DEF Aside, Scan

LEMMA AsideStays == ASSUME Inv, Aside PROVE UnitsOK' /\ PagesStay
<1>1. CASE Restart
  BY <1>1, NoUnitChanges DEF Restart, Inv
<1>2. CASE ~Restart
  <2>1. ~Writes
    BY <1>2 DEF Aside, Plans, Settles, Ends, Scan, Begins, Probes, Polls, Heartbeat, RescueTick,
                Rescan, Reflash, Asks, Writes
  <2> QED BY <2>1, UnitsStep, NextSplit
<1> QED BY <1>1, <1>2

LEMMA AsideCharged ==
  ASSUME Inv, Inv', BadInv, Aside, image = "mute", cycles = 0
  PROVE  Cardinality(Damaged') <= MaxFailures /\ Charged'
<1>1. /\ Damaged \in SUBSET Units /\ MaxFailures \in Nat /\ Cardinality(Damaged) <= MaxFailures
      /\ work' \in Works /\ work'.fails \in Nat
  BY RowSizes DEF Damaged, Inv, HistoryOK, BadInv, WorkInv, Works
<1>2. CASE Plans
  <2>1. before' = {u \in Units : RunsWell(u)} /\ unit' = unit
    BY <1>2 DEF Plans
  <2>2. \A u \in before' : IsWhole(unit[u], "old")'
    BY <2>1 DEF RunsWell, IsWhole
  <2>3. Damaged' = {}
    BY <2>2 DEF Damaged
  <2>4. Cardinality(Damaged') = 0 /\ Cardinality(Damaged' \ work'.left) = 0
    BY <2>3, FS_EmptySet
  <2> QED BY <1>1, <2>3, <2>4 DEF Charged
<1>3. CASE ~Plans
  <2>1. before' = before
    BY <1>3 DEF Aside, Settles, Ends, Scan, Begins, Probes, Polls, Heartbeat, RescueTick, Rescan,
                Reflash, Asks, Restart, InRun
  <2>2. Damaged' \in SUBSET Damaged
    <3> QED BY <2>1, AsideStays, AsideBetween, NoDamage DEF Between
  <2>3. Cardinality(Damaged') <= MaxFailures
    <3>1. /\ Cardinality(Damaged') \in Nat /\ Cardinality(Damaged) \in Nat
          /\ Cardinality(Damaged') <= Cardinality(Damaged)
      BY <1>1, <2>2, NoMore
    <3> QED BY <1>1, <3>1
  <2>4. CASE at' \in Resting \cup {"end"}
    BY <2>3, <2>4 DEF Charged, Resting, Busy, Streaming, Written1
  <2>5. CASE Settles
    <3>1. /\ at = "settle" /\ work'.left = work.left /\ work'.fails = work.fails
          /\ at' \in {"ask", "end"} /\ (work.left # {} => at' = "ask")
      BY <2>5 DEF Settles, Inv, WorkInv, Works
    <3>2. /\ work.left # {} => /\ Damaged \cap work.left = {}
                               /\ Cardinality(Damaged \ work.left) <= work.fails
      BY <3>1 DEF BadInv, Charged, Early
    <3>3. Damaged' \ work'.left \in SUBSET (Damaged \ work.left)
          /\ Damaged \ work.left \in SUBSET Units
      BY <1>1, <2>2, <3>1
    <3>4. /\ Cardinality(Damaged' \ work'.left) \in Nat /\ Cardinality(Damaged \ work.left) \in Nat
          /\ Cardinality(Damaged' \ work'.left) <= Cardinality(Damaged \ work.left)
      BY <3>3, NoMore
    <3>5. work.left # {} => Cardinality(Damaged' \ work'.left) <= work'.fails
      BY <1>1, <3>1, <3>2, <3>4
    <3> QED BY <2>2, <2>3, <3>1, <3>2, <3>5 DEF Charged
  <2>6. Settles \/ at' \in Resting \cup {"end"}
    BY <1>3 DEF Aside, Ends, Scan, Begins, Probes, Polls, Next1, Heartbeat, RescueTick, Rescan,
                Reflash, Asks, Restart, Resting
  <2> QED BY <2>4, <2>5, <2>6
<1> QED BY <1>2, <1>3

\* What a unit does by itself leaves its program as it is.
LEMMA AloneCharged ==
  ASSUME Inv, Inv', BadInv, NEW u \in Units,
         WindowEnds(u) \/ LeavesSketch(u) \/ Crashes(u) \/ RunsOn(u), image = "mute", cycles = 0
  PROVE  Cardinality(Damaged') <= MaxFailures /\ Charged'
<1>1. UNCHANGED <<rowVars, repeated>> /\ UnitsOK' /\ PagesStay
  BY AloneUnits DEF WindowEnds, LeavesSketch, Crashes, RunsOn, UnitDoes, Inv
<1>2. Damaged' \in SUBSET Damaged /\ Damaged \in SUBSET Units
  BY <1>1, NoDamage DEF rowVars, Damaged, Inv, HistoryOK
<1>3. at' = at /\ work' = work /\ Cur' = Cur
  BY <1>1 DEF rowVars, Cur
<1>4. /\ Cardinality(Damaged') \in Nat /\ Cardinality(Damaged) \in Nat
      /\ Cardinality(Damaged') <= Cardinality(Damaged)
  BY <1>2, NoMore
<1>5. Damaged' \ work.left \in SUBSET (Damaged \ work.left) /\ Damaged \ work.left \in SUBSET Units
  BY <1>2
<1>6. /\ Cardinality(Damaged' \ work.left) \in Nat /\ Cardinality(Damaged \ work.left) \in Nat
      /\ Cardinality(Damaged' \ work.left) <= Cardinality(Damaged \ work.left)
  BY <1>5, NoMore
<1>7. MaxFailures \in Nat /\ work.fails \in Nat
  BY RowSizes DEF Inv, WorkInv, Works
<1>8. Cardinality(Damaged') <= MaxFailures
  BY <1>4, <1>7 DEF BadInv
<1>9. Charged /\ (Cardinality(Damaged \ work.left) <= work.fails =>
                  Cardinality(Damaged' \ work.left) <= work.fails)
  BY <1>6, <1>7 DEF BadInv
<1>10. Charged'
  BY <1>2, <1>3, <1>9 DEF Charged
<1> QED BY <1>8, <1>10

LEMMA BadNext ==
  ASSUME Inv, Inv', Attentive, BadInv, [Next]_vars
  PROVE  BadInv'
<1> SUFFICES ASSUME image' = "mute", cycles' = 0
             PROVE  Cardinality(Damaged') <= MaxFailures /\ Charged'
  BY DEF BadInv
<1>1. image = "mute" /\ cycles = 0 /\ \A u \in Units : ~PowerCycle(u)
  BY CyclesOnly
<1>2. CASE Aside
  BY <1>1, <1>2, AsideCharged
<1>3. CASE OfTurn
  BY <1>1, <1>3, TurnCharged
<1>4. CASE UnitStep
  BY <1>1, <1>4, AloneCharged DEF UnitStep
<1>5. CASE UNCHANGED vars
  BY <1>1, <1>5 DEF vars, rowVars, Cur, Damaged, IsWhole, Charged, BadInv
<1> QED BY <1>1, <1>2, <1>3, <1>4, <1>5, NextSplit

\* An image that does not answer costs a run no more than MaxFailures units of any row
\* their program, as long as no unit loses its power, after any number of lost or garbled
\* transactions and restarts of the row.
THEOREM BadImageHolds == Spec => []BadImageStops
<1>1. Init => Inv /\ Attentive /\ BadInv
  <2> SUFFICES ASSUME Init PROVE Attentive /\ BadInv
    BY InvInit
  <2>1. Damaged = {} /\ at = "loop" /\ MaxFailures \in Nat
    BY RowSizes DEF Init, Damaged
  <2>2. Attentive /\ Charged
    BY <2>1 DEF Attentive, Heeded, Charged, Busy, Streaming, Written1
  <2>3. Cardinality(Damaged) = 0
    BY <2>1, FS_EmptySet
  <2> QED BY <2>1, <2>2, <2>3 DEF BadInv
<1>2. Inv /\ Attentive /\ BadInv /\ [Next]_vars => (Inv /\ Attentive /\ BadInv)'
  BY InvNext, AttentiveNext, BadNext
<1>3. Inv /\ Attentive /\ BadInv => BadImageStops
  BY DEF BadInv, Damaged, BadImageStops
<1> QED BY <1>1, <1>2, <1>3, PTL DEF Spec

-----------------------------------------------------------------------------
(* A run in which nothing goes wrong *)

\* A unit runs its program, waits with an empty flash, or is on its way back from an
\* ordered restart.
WholeRec(rec) == IsWhole(rec, "old") \/ IsWhole(rec, "new")
Well(rec)  == rec.at = "app" /\ WholeRec(rec)
Blank(rec) == rec.at = "waits" /\ rec.page[0] = "blank" /\ rec.crashes = 0 /\ rec.latch = NoLatch
Away(rec)  == /\ rec.at \in {"leaving", "window"} /\ WholeRec(rec) /\ rec.latch = NoLatch
              /\ rec.at = "leaving" => rec.crashes = 0

\* The unit whose turn it is, at each place of the turn.
AtTurn ==
  /\ at \in {"order", "await"} => Well(unit[Cur])
  /\ at = "enter" => Away(unit[Cur])
  /\ at \in Heeded => unit[Cur].at \in Listening
  /\ at = "check" => unit[Cur].page[PageOf(work.write)] = Wanted(work.write)
IsTurnOf(u) == at \in Busy \ {"ask"} /\ u = Cur
Others == \A u \in Units :
  /\ u \in work.batch => Well(unit[u]) \/ Away(unit[u])
  /\ u \notin work.batch /\ ~IsTurnOf(u) => Well(unit[u]) \/ Blank(unit[u])

\* The row: no attempt has failed, and every unit that was flashed is known to be new.
CleanRow ==
  /\ ~work.failed /\ repeated = {} /\ at \notin {"hand", "again"}
  /\ work.batch \subseteq work.done /\ (at \in Resting \cup {"end"} => work.batch = {})
  /\ \A u \in work.done : fact[u] = "ours" /\ IsWhole(unit[u], "new")
Clean == CleanRow /\ Others /\ AtTurn
CleanInv == image = "good" /\ Mishaps = 0 => Clean

LEMMA BusOk == ASSUME BoundsOK, faults' = faults, NEW way, Bus(way) PROVE way = "ok"
BY DEF Bus, BoundsOK

\* What the steps do to such units.
LEMMA WellUnit ==
  ASSUME UnitsOK, image = "good", NEW u \in Units, Well(unit[u])
  PROVE  /\ RunsWell(u) /\ ~MayCrash(u) /\ Acks(u) = {TRUE} /\ ~Answering(unit[u])
         /\ unit[u].latch = NoLatch /\ Asked(u) = unit[u]
         /\ IsWhole(unit[u], "new") => Versions(u) = {"ours"}
BY UnitIs DEF Well, WholeRec, RunsWell, MayCrash, Acks, Answering, InBoot, Calm, Asked, Versions

LEMMA BlankUnit ==
  ASSUME UnitsOK, NEW u \in Units, Blank(unit[u])
  PROVE  /\ Acks(u) = {TRUE} /\ Answering(unit[u]) /\ ~Held(unit[u]) /\ ~IsWhole(unit[u], "new")
         /\ Called(unit[u]) = unit[u] /\ Commanded(unit[u]) = unit[u] /\ Asked(u) = unit[u]
         /\ Blank(Misaddressed(unit[u])) /\ Blank(Switched(unit[u]))
<1>1. unit[u] \in UnitRecs
  BY UnitIs
<1>2. Acks(u) = {TRUE} /\ Answering(unit[u])
  BY DEF Blank, Acks, Answering, InBoot
<1>3. ~Held(unit[u]) /\ ~IsWhole(unit[u], "new")
  BY ImageHasPages DEF Blank, Held, IsWhole, Pages
<1>4. Called(unit[u]) = unit[u]
  BY DEF Blank, Called
<1>5. Commanded(unit[u]) = unit[u]
  BY <1>1 DEF Blank, Commanded, UnitRecs
<1>6. Misaddressed(unit[u]) = [unit[u] EXCEPT !.at = "waits", !.crashes = 0, !.latch = NoLatch]
  BY DEF Blank, Misaddressed, Jump
<1>7. Switched(unit[u]) = [[unit[u] EXCEPT !.crashes = 0] EXCEPT !.at = "waits", !.crashes = 0,
                                                               !.latch = NoLatch]
  BY <1>1 DEF Blank, Switched, Jump, UnitRecs
<1>8. Blank(Misaddressed(unit[u])) /\ Blank(Switched(unit[u]))
  BY <1>1, <1>6, <1>7 DEF Blank, UnitRecs
<1> QED BY <1>2, <1>3, <1>4, <1>5, <1>8 DEF Asked

\* An order to restart takes a unit from its program.
LEMMA OrderedAway ==
  ASSUME UnitsOK, NEW u \in Units, Well(unit[u])
  PROVE  Away(Ordered(u)) /\ Ordered(u).page = unit[u].page
<1>1. unit[u] \in UnitRecs /\ unit[u].latch = NoLatch /\ unit[u].at = "app"
  BY UnitIs DEF Well, Calm, InBoot
<1>2. Ordered(u) = [unit[u] EXCEPT !.at = "leaving", !.crashes = 0]
  BY <1>1 DEF Ordered, Answering, InBoot, Leaving
<1> QED BY <1>1, <1>2 DEF Away, Well, WholeRec, IsWhole, UnitRecs

\* It comes back through the window of its bootloader: one watchdog reset is no crash loop.
LEMMA AwayUnit ==
  ASSUME Threshold > 1, NEW rec \in UnitRecs, Away(rec)
  PROVE  /\ rec.at = "leaving" => Away(Reset(rec, TRUE))
         /\ rec.at = "window" => Well(Jump(rec))
<1>1. rec.page[0] \in Images /\ WholeRec(rec)
  BY ImageHasPages DEF Away, WholeRec, IsWhole, Pages, Images
<1>2. ASSUME rec.at = "leaving" PROVE Away(Reset(rec, TRUE))
  <2> DEFINE count == IF rec.fielded \/ ~TRUE THEN 0
                      ELSE IF rec.crashes < Threshold THEN rec.crashes + 1 ELSE Threshold
             place == IF rec.page[0] = "blank" \/ count >= Threshold THEN "waits" ELSE "window"
  <2>1. Reset(rec, TRUE) = [rec EXCEPT !.crashes = count, !.latch = NoLatch, !.at = place]
    BY DEF Reset
  <2>2. count < Threshold /\ count \in Nat /\ Threshold \in Nat
    BY <1>2, ImageHasPages DEF Away
  <2> HIDE DEF count
  <2>3. place = "window"
    BY <1>1, <2>2 DEF Images
  <2> HIDE DEF place
  <2> QED BY <1>1, <2>1, <2>3 DEF Away, WholeRec, IsWhole, UnitRecs
<1>3. ASSUME rec.at = "window" PROVE Well(Jump(rec))
  <2>1. Jump(rec) = [rec EXCEPT !.at = "app", !.latch = NoLatch]
    BY <1>1 DEF Jump, Images
  <2> QED BY <1>1, <2>1 DEF Well, WholeRec, IsWhole, UnitRecs
<1> QED BY <1>2, <1>3

\* A step of the turn that is neither lost nor the last one.
LEMMA TurnGoesOn ==
  ASSUME Inv, CleanRow, Others, OfTurn, fact' = fact, AtTurn', unit' \in [Units -> UnitRecs],
         at' \in Busy \ {"ask", "hand", "again"},
         work'.left = work.left, work'.batch = work.batch, work'.done = work.done,
         work'.failed = work.failed, \A v \in Units \ {Cur} : unit'[v] = unit[v]
  PROVE  Clean'
<1>1. /\ Cur' = Cur /\ repeated' = repeated /\ Cur \notin work.done /\ at \in Busy
      /\ at' \notin Resting \cup {"end"} /\ work.done \subseteq Units
  <2>1. at \in Busy /\ Cur \in work.left /\ repeated' = repeated
    BY TurnGoes
  <2>2. at' \notin Resting \cup {"end"} /\ at \notin Resting
    BY <2>1 DEF Busy, Resting, Streaming, Written1
  <2>3. work.left \cap work.done = {} /\ work.done \subseteq Units
    BY <2>2 DEF Inv, WorkInv, Works
  <2> QED BY <2>1, <2>2, <2>3, CurStays
<1>2. CleanRow'
  BY <1>1 DEF CleanRow, IsWhole
<1>3. Others'
  BY <1>1 DEF Others, CleanRow, IsTurnOf
<1> QED BY <1>2, <1>3 DEF Clean

\* The clean steps of a unit's turn.
LEMMA TurnClean ==
  ASSUME Inv, Inv', Clean, OfTurn, image = "good", faults' = faults
  PROVE  Clean'
<1>1. /\ at \in Busy /\ Cur \in Units /\ Cur \in work.left /\ work \in Works /\ todo' = todo
      /\ UnitsOK /\ unit \in [Units -> UnitRecs] /\ unit' \in [Units -> UnitRecs] /\ BoundsOK
      /\ unit[Cur] \in UnitRecs /\ Calm(unit[Cur]) /\ repeated' = repeated /\ repeated = {}
      /\ work.done \subseteq Units
  BY TurnGoes DEF Inv, WorkInv, UnitsOK, Works, Clean, CleanRow
<1>2. Cur \notin work.done /\ Cur \notin work.batch
  BY <1>1 DEF Inv, WorkInv, Clean, CleanRow, Busy, Streaming, Written1, Resting
<1>3. CleanRow /\ Others /\ AtTurn /\ at \notin {"hand", "again"}
  BY DEF Clean, CleanRow
<1>4. CASE AsksFirst
  <2>1. at = "ask" /\ Ask(Cur, "ok") /\ Goes(IF Answering(unit[Cur]) THEN "flash" ELSE "order")
    BY <1>1, <1>4, BusOk DEF AsksFirst, Ask, IsThere
  <2>2. unit' = [unit EXCEPT ![Cur] = Asked(Cur)] /\ (Well(unit[Cur]) \/ Blank(unit[Cur]))
    BY <1>1, <1>2, <1>3, <2>1 DEF Ask, Unit, Others, IsTurnOf
  <2>3. unit' = unit
    BY <1>1, <2>2, WellUnit, BlankUnit
  <2>4. work' = work /\ fact' = fact /\ Cur' = Cur
    BY <2>1 DEF Goes, Cur
  <2>5. /\ Well(unit[Cur]) => at' = "order"
        /\ Blank(unit[Cur]) => at' = "flash"
    BY <1>1, <2>1, WellUnit, BlankUnit DEF Goes
  <2>6. AtTurn' /\ at' \in {"order", "flash"}
    BY <2>2, <2>3, <2>4, <2>5 DEF AtTurn, Heeded, Blank, Listening
  <2> QED BY <1>1, <1>3, <1>4, <2>3, <2>4, <2>6, TurnGoesOn DEF OfTurn, Busy
<1>5. CASE Orders
  <2>1. at = "order" /\ Well(unit[Cur]) /\ Acks(Cur) = {TRUE}
    BY <1>1, <1>3, <1>5, WellUnit DEF Orders, AtTurn
  <2>2. unit' = [unit EXCEPT ![Cur] = Ordered(Cur)] /\ Goes("enter")
    BY <1>1, <1>5, <2>1, BusOk DEF Orders, Unit
  <2>3. work' = work /\ fact' = fact /\ Cur' = Cur /\ at' = "enter"
    BY <2>2 DEF Goes, Cur
  <2>4. AtTurn'
    BY <1>1, <2>1, <2>2, <2>3, OrderedAway DEF AtTurn, Heeded
  <2> QED BY <1>1, <1>3, <1>5, <2>2, <2>3, <2>4, TurnGoesOn DEF OfTurn, Busy
<1>6. CASE Enters \/ ChecksChip \/ Checks
  <2>1. /\ at \in {"enter", "flash", "check"} /\ Ask(Cur, "ok")
        /\ at = "enter" => unit[Cur].at # "leaving"
    BY <1>1, <1>6, BusOk DEF Enters, ChecksChip, Checks, Ask
  <2>2. IsThere(Cur, "ok")
    BY <1>3, <2>1 DEF IsThere, Answering, InBoot, AtTurn, Away, Heeded, Listening
  <2>3. /\ unit' = [unit EXCEPT ![Cur] = Commanded(unit[Cur])] /\ unit'[Cur].at \in Listening
    BY <1>1, <2>1, <2>2, Heard
  <2>4. CASE Enters
    <3>1. Goes("flash")
      BY <1>1, <2>2, <2>4, BusOk DEF Enters, Ask
    <3>2. work' = work /\ fact' = fact /\ Cur' = Cur /\ at' = "flash"
      BY <3>1 DEF Goes, Cur
    <3>3. AtTurn'
      BY <2>3, <3>2 DEF AtTurn
    <3> QED BY <1>1, <1>3, <2>3, <2>4, <3>2, <3>3, TurnGoesOn DEF OfTurn, Busy
  <2>5. CASE ChecksChip
    <3>1. at' = "write" /\ work' = [work EXCEPT !.write = 0, !.try = 1] /\ fact' = fact
      BY <1>1, <2>2, <2>5, BusOk DEF ChecksChip, Ask
    <3>2. /\ work'.left = work.left /\ work'.batch = work.batch /\ work'.done = work.done
          /\ work'.failed = work.failed
      BY <1>1, <3>1 DEF Works
    <3>3. AtTurn'
      BY <2>3, <3>1, <3>2, CurStays DEF AtTurn
    <3> QED BY <1>1, <1>3, <2>3, <2>5, <3>1, <3>2, <3>3, TurnGoesOn DEF OfTurn, Busy, Streaming
  <2>6. CASE Checks
    <3>1. unit[Cur].page[PageOf(work.write)] = Wanted(work.write)
      BY <1>3, <2>6 DEF Checks, AtTurn
    <3>2. /\ at' = IF work.write > LastPage THEN "exit" ELSE "write"
          /\ work' = [work EXCEPT !.write = IF @ > LastPage THEN 0 ELSE @ + 1, !.try = 1]
          /\ fact' = fact
      BY <1>1, <2>2, <2>6, <3>1, BusOk DEF Checks, Ask
    <3>3. /\ work'.left = work.left /\ work'.batch = work.batch /\ work'.done = work.done
          /\ work'.failed = work.failed
      BY <1>1, <3>2 DEF Works
    <3>4. AtTurn' /\ at' \in {"exit", "write"}
      BY <2>3, <3>2, <3>3, CurStays DEF AtTurn
    <3> QED BY <1>1, <1>3, <2>3, <2>6, <3>2, <3>3, <3>4, TurnGoesOn
            DEF OfTurn, Busy, Streaming, Written1
  <2> QED BY <1>6, <2>4, <2>5, <2>6
<1>7. CASE Writes
  <2>1. at = "write" /\ Answering(unit[Cur])
    BY <1>3, <1>7 DEF Writes, AtTurn, Heeded, Listening, Answering, InBoot
  <2> DEFINE p == PageOf(work.write)
  <2>2. unit' = [unit EXCEPT ![Cur] = Written(unit[Cur], p, Wanted(work.write))] /\ Goes("check")
    BY <1>1, <1>7, <2>1, BusOk DEF Writes, Unit
  <2>3. work' = work /\ fact' = fact /\ Cur' = Cur /\ at' = "check"
    BY <2>2 DEF Goes, Cur
  <2>4. p \in Pages /\ Wanted(work.write) \in Contents /\ unit[Cur].at \in InBoot
    BY <1>1, <2>1, ImageHasPages
    DEF PageOf, Wanted, Pages, Contents, Images, Works, Answering
  <2>5. Written(unit[Cur], p, Wanted(work.write)).page
          = [unit[Cur].page EXCEPT ![p] = Wanted(work.write)]
    BY <1>1, <2>4, WrittenUnit
  <2>6. Written(unit[Cur], p, Wanted(work.write)).at \in Listening
    <3>1. unit[Cur].at \in Listening
      BY <1>3, <2>1 DEF AtTurn, Heeded
    <3> QED BY <1>1, <3>1 DEF Written, Commanded, Listening, UnitRecs
  <2> HIDE DEF p
  <2>7. unit'[Cur].at \in Listening /\ unit'[Cur].page[p] = Wanted(work.write)
    BY <1>1, <2>2, <2>4, <2>5, <2>6 DEF UnitRecs
  <2>8. AtTurn'
    BY <2>3, <2>7 DEF AtTurn, p, PageOf, Wanted
  <2> QED BY <1>1, <1>3, <1>7, <2>2, <2>3, <2>8, TurnGoesOn DEF OfTurn, Busy, Streaming
<1>8. CASE Exits
  <2>1. at = "exit" /\ Answering(unit[Cur]) /\ IsWhole(unit[Cur], "new")
    BY <1>3, <1>8
    DEF Exits, AtTurn, Heeded, Listening, Answering, InBoot, Inv, StreamInv, Written1
  <2>2. unit' = [unit EXCEPT ![Cur] = Switched(unit[Cur])] /\ Goes("await")
    BY <1>1, <1>8, <2>1, BusOk DEF Exits, Unit
  <2>3. work' = work /\ fact' = fact /\ Cur' = Cur /\ at' = "await"
    BY <2>2 DEF Goes, Cur
  <2>4. Well(Switched(unit[Cur]))
    BY <1>1, <2>1, SwitchStarts DEF Images, Well, WholeRec, IsWhole
  <2>5. AtTurn'
    BY <1>1, <2>2, <2>3, <2>4 DEF AtTurn, Heeded
  <2> QED BY <1>1, <1>3, <1>8, <2>2, <2>3, <2>5, TurnGoesOn DEF OfTurn, Busy, Written1
<1>9. CASE Awaits
  <2>1. at = "await" /\ Well(unit[Cur]) /\ Acks(Cur) = {TRUE} /\ IsWhole(unit[Cur], "new")
    BY <1>1, <1>3, <1>9, WellUnit DEF Awaits, AtTurn, Inv, StreamInv, Written1
  <2>2. unit' = [unit EXCEPT ![Cur] = Ordered(Cur)] /\ Outcome("flashed")
    BY <1>1, <1>9, <2>1, BusOk DEF Awaits, Unit
  <2>3. /\ work'.batch = work.batch \cup {Cur} /\ work'.done = work.done \cup {Cur}
        /\ work'.failed = work.failed /\ fact' = [fact EXCEPT ![Cur] = "ours"]
        /\ at' \in {"settle", "end", "ask"} /\ (at' = "end" => work'.batch = {})
    BY <1>1, <2>2, OutcomeShape DEF Works
  <2>4. at' \in {"settle", "ask"}
    BY <2>3
  <2>5. /\ \A v \in Units \ {Cur} : unit'[v] = unit[v]
        /\ Away(unit'[Cur]) /\ IsWhole(unit'[Cur], "new")
    BY <1>1, <2>1, <2>2, OrderedAway DEF IsWhole
  <2>6. Others'
    BY <1>3, <2>3, <2>4, <2>5 DEF Others, IsTurnOf, Busy, Streaming, Written1
  <2>7. AtTurn'
    BY <2>4 DEF AtTurn, Heeded
  <2>8. fact \in [Units -> Facts]
    BY DEF Inv, RowOK
  <2>9. \A u \in work'.done : fact'[u] = "ours" /\ IsWhole(unit'[u], "new")
    BY <1>1, <1>3, <2>3, <2>5, <2>8 DEF CleanRow
  <2>10. CleanRow'
    BY <1>1, <1>3, <2>3, <2>4, <2>9 DEF CleanRow, Resting, IsWhole
  <2> QED BY <2>6, <2>7, <2>10 DEF Clean
<1> QED BY <1>3, <1>4, <1>5, <1>6, <1>7, <1>8, <1>9 DEF OfTurn, HandReset, AsksAgain

\* Between the turns the units stay as they are, and the flashed ones known to be new.
Kept == \A v \in Units : /\ Well(unit[v]) => unit'[v] = unit[v]
                         /\ Blank(unit[v]) => Blank(unit'[v])
OneKept(u) == \/ unit' = unit
              \/ Blank(unit[u]) /\ \E rec : Blank(rec) /\ unit' = [unit EXCEPT ![u] = rec]
Idle == /\ at' \in Resting /\ repeated' = {} /\ work'.batch = {} /\ ~work'.failed
        /\ \A v \in work'.done : v \in work.done /\ fact'[v] = "ours"

LEMMA KeptOne == ASSUME UnitsOK, NEW u \in Units, OneKept(u) PROVE Kept
<1>1. \A v \in Units : ~(Well(unit[v]) /\ Blank(unit[v]))
  BY DEF Well, Blank
<1> QED BY <1>1 DEF OneKept, Kept, UnitsOK

LEMMA IdleClean ==
  ASSUME Inv, Clean, at \in Resting, Idle, Kept
  PROVE  Clean'
<1>1. work.batch = {} /\ \A v \in Units : Well(unit[v]) \/ Blank(unit[v])
  BY DEF Clean, CleanRow, Others, IsTurnOf, Resting, Busy, Streaming, Written1
<1>2. \A v \in work.done : v \in Units /\ IsWhole(unit[v], "new")
  BY DEF Clean, CleanRow, Inv, WorkInv, Works
<1>3. \A v \in work.done : Well(unit[v]) /\ unit'[v] = unit[v]
  BY <1>1, <1>2, ImageHasPages DEF Blank, IsWhole, Pages, Kept
<1>4. CleanRow'
  BY <1>2, <1>3 DEF Idle, CleanRow, Resting, IsWhole
<1>5. Others'
  BY <1>1 DEF Idle, Kept, Others, IsTurnOf
<1>6. AtTurn'
  BY DEF Idle, AtTurn, Resting, Heeded
<1> QED BY <1>4, <1>5, <1>6 DEF Clean

\* A unit that is called by its bare address has no write latched.
LEMMA NoRepeat ==
  ASSUME NEW u \in Units, Well(unit[u]) \/ Blank(unit[u]), UnitsOK, repeated = {},
         NEW way, Repeats(u, way)
  PROVE  repeated' = {}
<1>1. unit[u].latch = NoLatch
  BY UnitIs DEF Well, Blank, Calm, InBoot
<1> QED BY <1>1 DEF Repeats

LEMMA RestingUnits ==
  ASSUME Inv, Clean, at \in Resting
  PROVE  /\ UnitsOK /\ BoundsOK /\ repeated = {} /\ work.batch = {} /\ ~work.failed
         /\ work \in Works
         /\ \A v \in Units : Well(unit[v]) \/ Blank(unit[v])
         /\ \A v \in work.done : v \in Units /\ fact[v] = "ours" /\ IsWhole(unit[v], "new")
         /\ fact \in [Units -> Facts]
BY DEF Clean, CleanRow, Others, IsTurnOf, Resting, Busy, Streaming, Written1, Inv, WorkInv, Works,
       RowOK

LEMMA ProbesClean ==
  ASSUME Inv, Clean, Probes, image = "good", faults' = faults
  PROVE  Clean'
<1>1. at = "probe" /\ at \in Resting /\ Cur \in Units /\ Next1
  BY CurIsUnit DEF Probes, Resting
<1>2. /\ UnitsOK /\ BoundsOK /\ repeated = {} /\ work.batch = {} /\ ~work.failed /\ work \in Works
      /\ (Well(unit[Cur]) \/ Blank(unit[Cur])) /\ fact \in [Units -> Facts]
      /\ \A v \in work.done : v \in Units /\ fact[v] = "ours" /\ IsWhole(unit[v], "new")
  BY <1>1, RestingUnits
<1>3. /\ work'.done = work.done /\ work'.batch = {} /\ ~work'.failed /\ at' \in Resting
  BY <1>1, <1>2 DEF Next1, Works, Resting
<1>4. Acks(Cur) = {TRUE}
  BY <1>1, <1>2, WellUnit, BlankUnit
<1>5. /\ Repeats(Cur, "ok")
      /\ IF Answering(unit[Cur])
         THEN /\ unit' = [unit EXCEPT ![Cur] = Commanded(Called(unit[Cur]))]
              /\ fact' = [fact EXCEPT ![Cur] = Identity(Cur)]
         ELSE /\ unit' = unit
              /\ \E v \in Versions(Cur) : fact' = [fact EXCEPT ![Cur] = v]
  <2>1. \A way \in Ways, ack \in Acks(Cur) : ~((way # "ok" \/ ~ack) /\ Bus(way))
    BY <1>2, <1>4, BusOk
  <2>2. \A way \in {"lost"} : ~Bus(way)
    BY <1>2, BusOk
  <2> QED BY <2>1, <2>2 DEF Probes
<1>6. repeated' = {}
  BY <1>1, <1>2, <1>5, NoRepeat
<1>7. CASE Well(unit[Cur])
  <2>1. unit' = unit /\ \E v \in Versions(Cur) : fact' = [fact EXCEPT ![Cur] = v]
    BY <1>1, <1>2, <1>5, <1>7, WellUnit
  <2>2. IsWhole(unit[Cur], "new") => Versions(Cur) = {"ours"}
    BY <1>1, <1>2, <1>7, WellUnit
  <2>3. \A v \in work.done : fact'[v] = "ours"
    BY <1>2, <2>1, <2>2
  <2>4. OneKept(Cur)
    BY <2>1 DEF OneKept
  <2>5. Idle
    BY <1>3, <1>6, <2>3 DEF Idle
  <2> QED BY <1>1, <1>2, <2>4, <2>5, KeptOne, IdleClean
<1>8. CASE Blank(unit[Cur])
  <2>1. /\ unit' = [unit EXCEPT ![Cur] = unit[Cur]] /\ ~IsWhole(unit[Cur], "new")
        /\ fact' = [fact EXCEPT ![Cur] = Identity(Cur)]
    BY <1>1, <1>2, <1>5, <1>8, BlankUnit
  <2>2. \A v \in work.done : fact'[v] = "ours"
    BY <1>2, <2>1
  <2>3. OneKept(Cur)
    BY <1>8, <2>1 DEF OneKept
  <2>4. Idle
    BY <1>3, <1>6, <2>2 DEF Idle
  <2> QED BY <1>1, <1>2, <2>3, <2>4, KeptOne, IdleClean
<1> QED BY <1>2, <1>7, <1>8

\* A status read starts the program of a unit that waits, and that of an empty one leads
\* nowhere.
LEMMA PolledKept ==
  ASSUME UnitsOK, BoundsOK, faults' = faults, NEW u \in Units, Polled(u), image = "good",
         Well(unit[u]) \/ Blank(unit[u])
  PROVE  OneKept(u)
<1>1. CASE unit' = unit
  BY <1>1 DEF OneKept
<1>2. CASE unit' # unit
  <2>1. Answering(unit[u]) /\ \E way \in Ways : Bus(way) /\ Unit(u, Misaddressed(unit[u]), way)
    BY <1>2 DEF Polled
  <2>2. Blank(unit[u]) /\ unit' = [unit EXCEPT ![u] = Misaddressed(unit[u])]
    BY <1>2, <2>1, WellUnit DEF Unit
  <2> QED BY <2>2, BlankUnit DEF OneKept
<1> QED BY <1>1, <1>2

LEMMA PollsClean ==
  ASSUME Inv, Clean, Polls \/ \E u \in Units : Heartbeat(u), image = "good", faults' = faults
  PROVE  Clean'
<1>1. at \in Resting
  BY DEF Polls, Heartbeat, Resting
<1>2. /\ UnitsOK /\ BoundsOK /\ repeated = {} /\ work.batch = {} /\ ~work.failed /\ work \in Works
      /\ \A v \in Units : Well(unit[v]) \/ Blank(unit[v])
      /\ \A v \in work.done : fact[v] = "ours"
  BY <1>1, RestingUnits
<1>3. Kept
  <2>1. \E u \in Units : Polled(u)
    BY CurIsUnit DEF Polls, Heartbeat
  <2> QED BY <1>2, <2>1, PolledKept, KeptOne
<1>4. fact' = fact /\ repeated' = repeated /\ at' \in Resting
  BY DEF Polls, Heartbeat, Next1, Resting
<1>5. CASE Polls
  <2>1. work'.done = work.done /\ work'.batch = work.batch /\ work'.failed = work.failed
    BY <1>2, <1>5 DEF Polls, Next1, Works
  <2>2. Idle
    BY <1>2, <1>4, <2>1 DEF Idle
  <2> QED BY <1>1, <1>3, <2>2, IdleClean
<1>6. CASE \E u \in Units : Heartbeat(u)
  <2>1. work'.done = {} /\ work'.batch = {} /\ ~work'.failed
    BY <1>6 DEF Heartbeat, Rest
  <2>2. Idle
    BY <1>2, <1>4, <2>1 DEF Idle
  <2> QED BY <1>1, <1>3, <2>2, IdleClean
<1> QED BY <1>5, <1>6

LEMMA RescueClean ==
  ASSUME Inv, Clean, RescueTick, image = "good", faults' = faults
  PROVE  Clean'
<1>1. at = "rescue" /\ at \in Resting /\ Cur \in Units /\ at' = "loop" /\ work' = Rest
  BY CurIsUnit DEF RescueTick, Resting
<1>2. /\ UnitsOK /\ BoundsOK /\ repeated = {} /\ (Well(unit[Cur]) \/ Blank(unit[Cur]))
  BY <1>1, RestingUnits
<1>3. OneKept(Cur) /\ repeated' = {}
  <2>1. CASE Rescues(Cur)
    <3>1. Acks(Cur) = {TRUE}
      BY <1>1, <1>2, WellUnit, BlankUnit
    <3>2. \A way \in Ways, ack \in Acks(Cur) : ~((way # "ok" \/ ~ack) /\ Bus(way))
      BY <1>2, <3>1, BusOk
    <3>3. /\ Repeats(Cur, "ok")
          /\ CASE ~Answering(unit[Cur]) -> unit' = unit
               [] Answering(unit[Cur]) /\ Held(unit[Cur]) ->
                    unit' = [unit EXCEPT ![Cur] = Commanded(Called(unit[Cur]))]
               [] OTHER ->
                    unit' = [unit EXCEPT ![Cur] = Switched(Called(unit[Cur]))]
      <4>1. \A way \in Ways : Bus(way) => way = "ok"
        BY <1>2, BusOk
      <4>2. PICK way \in Ways :
              /\ Bus(way) /\ Repeats(Cur, "ok")
              /\ CASE ~Answering(unit[Cur]) -> unit' = unit
                   [] Answering(unit[Cur]) /\ Held(unit[Cur]) ->
                        unit' = [unit EXCEPT ![Cur] = Commanded(Called(unit[Cur]))]
                   [] OTHER ->
                        unit' = [unit EXCEPT ![Cur] = IF way = "lost"
                                                      THEN Commanded(Called(unit[Cur]))
                                                      ELSE Switched(Called(unit[Cur]))]
        BY <2>1, <3>2 DEF Rescues
      <4>3. way = "ok"
        BY <4>1, <4>2
      <4> QED BY <4>2, <4>3
    <3>4. repeated' = {}
      BY <1>1, <1>2, <3>3, NoRepeat
    <3>5. CASE Well(unit[Cur])
      <4>1. unit' = unit
        BY <1>1, <1>2, <3>3, <3>5, WellUnit
      <4> QED BY <3>4, <4>1 DEF OneKept
    <3>6. CASE Blank(unit[Cur])
      <4>1. unit' = [unit EXCEPT ![Cur] = Switched(unit[Cur])] /\ Blank(Switched(unit[Cur]))
        BY <1>1, <1>2, <3>3, <3>6, BlankUnit
      <4> QED BY <3>4, <3>6, <4>1 DEF OneKept
    <3> QED BY <1>2, <3>5, <3>6
  <2>2. CASE Rechecks(Cur)
    <3>1. Ask(Cur, "ok") /\ repeated' = repeated
      BY <1>2, <2>2, BusOk DEF Rechecks, Ask
    <3>2. unit' = [unit EXCEPT ![Cur] = unit[Cur]]
      BY <1>1, <1>2, <3>1, WellUnit, BlankUnit DEF Ask, Unit
    <3>3. unit' = unit
      BY <1>1, <1>2, <3>2 DEF UnitsOK
    <3> QED BY <1>2, <3>1, <3>3 DEF OneKept
  <2>3. CASE unit' = unit /\ repeated' = repeated
    BY <1>2, <2>3 DEF OneKept
  <2> QED BY <2>1, <2>2, <2>3 DEF RescueTick
<1>4. Idle
  BY <1>1, <1>3 DEF Idle, Rest, Resting
<1> QED BY <1>1, <1>2, <1>3, <1>4, KeptOne, IdleClean

\* The bookkeeping between the turns.
LEMMA PlansClean ==
  ASSUME Inv, Inv', Clean, \/ Plans \/ Begins("probe") \/ Begins("poll") \/ Rescan \/ Reflash
  PROVE  Clean'
<1>1. at \in Resting /\ unit' = unit /\ fact' = fact /\ repeated' = repeated
      /\ at' \in Resting \cup {"ask"}
  BY DEF Plans, Begins, Rescan, Reflash, Asks, Resting
<1>2. /\ repeated = {} /\ work.batch = {} /\ ~work.failed /\ work \in Works
      /\ \A v \in Units : Well(unit[v]) \/ Blank(unit[v])
      /\ \A v \in work.done : v \in Units /\ fact[v] = "ours" /\ IsWhole(unit[v], "new")
  BY <1>1, RestingUnits
<1>3. work'.batch = {} /\ ~work'.failed /\ work'.done \in {{}, work.done}
  <2>1. CASE Plans \/ Rescan \/ Reflash
    BY <2>1 DEF Plans, Rescan, Reflash, Asks, Rest
  <2>2. CASE Begins("probe") \/ Begins("poll")
    BY <1>2, <2>2 DEF Begins, Works
  <2> QED BY <2>1, <2>2
<1>4. CleanRow'
  BY <1>1, <1>2, <1>3 DEF CleanRow, Resting, IsWhole
<1>5. Others'
  BY <1>1, <1>2, <1>3 DEF Others, IsTurnOf, Resting, Busy, Streaming, Written1
<1>6. AtTurn'
  BY <1>1 DEF AtTurn, Heeded, Resting
<1> QED BY <1>4, <1>5, <1>6 DEF Clean

LEMMA SettlesClean ==
  ASSUME Inv, Clean, Settles \/ Ends, image = "good"
  PROVE  Clean'
<1>1. /\ at \in {"settle", "end"} /\ unit' = unit /\ fact' = fact /\ repeated' = repeated
      /\ at' \in {"ask", "end", "loop"}
  BY DEF Settles, Ends, InRun
<1>2. CleanRow /\ Others /\ work \in Works
  BY DEF Clean, Inv, WorkInv
<1>3. work'.batch = {} /\ work'.failed = work.failed /\ work'.done = work.done
  <2>1. CASE Settles
    BY <1>2, <2>1 DEF Settles, Works
  <2>2. CASE Ends
    BY <2>2 DEF Ends, Rest
  <2> QED BY <2>1, <2>2
<1>4. \A v \in Units : Well(unit[v]) \/ Blank(unit[v])
  <2>1. \A v \in work.batch : Well(unit[v])
    <3>1. CASE Settles
      <4> SUFFICES ASSUME NEW v \in work.batch PROVE Well(unit[v])
        OBVIOUS
      <4>1. v \in Units /\ IsWhole(unit[v], "new") /\ (Well(unit[v]) \/ Away(unit[v]))
        BY <1>2 DEF CleanRow, Others, Works
      <4>2. unit[v].at \notin {"leaving", "window"}
        BY <3>1, <4>1 DEF Settles, Settled
      <4> QED BY <4>1, <4>2 DEF Away
    <3>2. CASE Ends
      BY <1>2, <3>2 DEF Ends, CleanRow
    <3> QED BY <3>1, <3>2
  <2>2. \A v \in Units : ~IsTurnOf(v)
    BY <1>1 DEF IsTurnOf, Busy, Streaming, Written1
  <2> QED BY <1>2, <2>1, <2>2 DEF Others
<1>5. CleanRow'
  BY <1>1, <1>2, <1>3 DEF CleanRow, Resting, IsWhole
<1>6. Others'
  BY <1>1, <1>3, <1>4 DEF Others, IsTurnOf
<1>7. AtTurn'
  BY <1>1 DEF AtTurn, Heeded
<1> QED BY <1>5, <1>6, <1>7 DEF Clean

\* What a unit does by itself: it comes back from the restart that was ordered.
LEMMA AloneClean ==
  ASSUME Inv, Clean, image = "good", Threshold > 1, NEW u \in Units,
         WindowEnds(u) \/ LeavesSketch(u) \/ Crashes(u) \/ RunsOn(u)
  PROVE  Clean'
<1>1. /\ fact' = fact /\ work' = work /\ at' = at /\ repeated' = repeated /\ Cur' = Cur
  BY DEF WindowEnds, LeavesSketch, Crashes, RunsOn, UnitDoes, rowVars, Cur
<1>2. /\ UnitsOK /\ unit[u] \in UnitRecs /\ Calm(unit[u]) /\ CleanRow /\ Others /\ AtTurn
      /\ work \in Works /\ repeated = {}
  BY UnitIs DEF Inv, WorkInv, Clean, CleanRow
<1>3. /\ \A v \in Units \ {u} : unit'[v] = unit[v]
      /\ \A v \in Units : unit'[v].page = unit[v].page
  <2>1. PagesStay
    BY <1>2, AloneUnits
  <2>2. \A v \in Units \ {u} : unit'[v] = unit[v]
    BY <1>2 DEF WindowEnds, LeavesSketch, Crashes, RunsOn, UnitDoes, UnitsOK
  <2> QED BY <1>1, <1>2, <2>1, <2>2 DEF PagesStay, Again
<1>4. CleanRow'
  BY <1>1, <1>2, <1>3 DEF CleanRow, IsWhole, Works
<1>5. Well(unit[u]) => Well(unit'[u])
  <2> SUFFICES ASSUME Well(unit[u]) PROVE Well(unit'[u])
    OBVIOUS
  <2>1. ~MayCrash(u) /\ unit[u].at = "app"
    BY <1>2, WellUnit DEF Well
  <2>2. unit' = [unit EXCEPT ![u] = [unit[u] EXCEPT !.crashes = 0]]
    BY <2>1 DEF WindowEnds, LeavesSketch, Crashes, RunsOn, UnitDoes
  <2>3. unit'[u].at = "app"
    BY <1>2, <2>1, <2>2 DEF UnitsOK, UnitRecs
  <2> QED BY <1>3, <2>3 DEF Well, WholeRec, IsWhole
<1>6. ~Blank(unit[u])
  BY DEF Blank, WindowEnds, LeavesSketch, Crashes, MayCrash, RunsOn, RunsWell
<1>7. Away(unit[u]) => \/ Away(unit'[u])
                       \/ Well(unit'[u]) /\ ~Attended(u)
  <2> SUFFICES ASSUME Away(unit[u])
               PROVE  Away(unit'[u]) \/ (Well(unit'[u]) /\ ~Attended(u))
    OBVIOUS
  <2>1. CASE unit[u].at = "leaving"
    <3>1. unit' = [unit EXCEPT ![u] = Reset(unit[u], TRUE)]
      BY <2>1 DEF WindowEnds, LeavesSketch, Crashes, MayCrash, RunsOn, RunsWell, UnitDoes
    <3> QED BY <1>2, <2>1, <3>1, AwayUnit DEF UnitsOK
  <2>2. CASE unit[u].at = "window"
    <3>1. unit' = [unit EXCEPT ![u] = Jump(unit[u])] /\ ~Attended(u)
      BY <2>2 DEF WindowEnds, LeavesSketch, Crashes, MayCrash, RunsOn, RunsWell, UnitDoes
    <3> QED BY <1>2, <2>2, <3>1, AwayUnit DEF UnitsOK
  <2> QED BY <2>1, <2>2 DEF Away
<1>8. Others'
  BY <1>1, <1>2, <1>3, <1>5, <1>6, <1>7 DEF Others, IsTurnOf
<1>9. AtTurn'
  <2>1. CASE at \notin {"order", "await", "enter"} \cup Heeded
    BY <1>1, <2>1 DEF AtTurn, Heeded
  <2>2. CASE at \in {"order", "await", "enter"} \cup Heeded
    <3>1. Cur \in Units /\ work.left # {}
      BY <2>2, CurIsUnit DEF Heeded, Busy, Streaming, Written1
    <3>2. CASE u # Cur
      BY <1>1, <1>2, <1>3, <3>1, <3>2 DEF AtTurn
    <3>3. CASE u = Cur /\ at \in {"order", "await"}
      BY <1>1, <1>2, <1>5, <3>3 DEF AtTurn, Heeded
    <3>4. CASE u = Cur /\ at = "enter"
      BY <1>1, <1>2, <1>7, <3>1, <3>4 DEF AtTurn, Heeded, Attended
    <3>5. CASE u = Cur /\ at \in Heeded
      <4>1. unit[u].at \in Listening /\ Attended(u)
        BY <1>2, <3>1, <3>5 DEF AtTurn, Attended, Heeded
      <4> QED BY <4>1 DEF WindowEnds, LeavesSketch, Crashes, RunsOn, MayCrash, RunsWell, Listening
    <3> QED BY <2>2, <3>2, <3>3, <3>4, <3>5
  <2> QED BY <2>1, <2>2
<1> QED BY <1>4, <1>8, <1>9 DEF Clean

\* Nothing that went wrong is forgotten.
LEMMA MishapsOnly ==
  ASSUME Inv, Inv', [Next]_vars, Mishaps' = 0
  PROVE  Mishaps = 0 /\ faults' = faults /\ image' = image /\ ~Restart
         /\ \A u \in Units : ~PowerCycle(u)
<1>1. /\ faults \in Nat /\ cycles \in Nat /\ restarts \in Nat
      /\ faults' \in Nat /\ cycles' \in Nat /\ restarts' \in Nat
  BY DEF Inv, BoundsOK
<1>2. faults' = 0 /\ cycles' = 0 /\ restarts' = 0
  <2>1. \A a, b, c \in Nat : a + b + c = 0 => a = 0 /\ b = 0 /\ c = 0
    OBVIOUS
  <2>2. faults' + cycles' + restarts' = 0
    BY DEF Mishaps
  <2> QED BY <1>1, <2>1, <2>2
<1>3. cycles = 0 /\ image' = image /\ \A u \in Units : ~PowerCycle(u)
  BY <1>2, CyclesOnly
<1>4. ~Restart
  BY <1>1, <1>2 DEF Restart
<1>5. faults' \in {faults, faults + 1} /\ restarts' = restarts
  <2>1. CASE OfTurn
    <3>1. \E way : Bus(way)
      BY <2>1 DEF OfTurn, AsksFirst, Orders, Enters, HandReset, ChecksChip, Writes, Checks, Exits,
                  Awaits, AsksAgain, Ask
    <3> QED BY <3>1 DEF Bus
  <2>2. CASE Plans \/ Settles \/ Ends \/ Begins("probe") \/ Begins("poll") \/ Rescan \/ Reflash
    BY <2>2 DEF Plans, Settles, Ends, Begins, Rescan, Reflash, Asks, bounds
  <2>3. CASE Probes \/ Polls \/ (\E u \in Units : Heartbeat(u)) \/ RescueTick
    <3>1. (\E way : Bus(way)) \/ UNCHANGED bounds
      BY <2>3 DEF Probes, Polls, Heartbeat, Polled, RescueTick, Rescues, Rechecks, Ask
    <3> QED BY <3>1 DEF Bus, bounds
  <2>4. CASE UnitStep
    BY <2>4 DEF UnitStep, WindowEnds, LeavesSketch, Crashes, RunsOn, bounds
  <2>5. CASE UNCHANGED vars
    BY <2>5 DEF vars, bounds
  <2> QED BY <1>3, <1>4, <2>1, <2>2, <2>3, <2>4, <2>5, NextSplit DEF Aside, Scan
<1>6. faults = 0 /\ restarts = 0
  BY <1>1, <1>2, <1>5
<1> QED BY <1>2, <1>3, <1>4, <1>6 DEF Mishaps

LEMMA CleanNext ==
  ASSUME Inv, Inv', CleanInv, [Next]_vars, Threshold > 1
  PROVE  CleanInv'
<1> SUFFICES ASSUME image' = "good", Mishaps' = 0 PROVE Clean'
  BY DEF CleanInv
<1>1. image = "good" /\ faults' = faults /\ Clean /\ ~Restart /\ \A u \in Units : ~PowerCycle(u)
  BY MishapsOnly DEF CleanInv
<1>2. CASE Aside
  BY <1>1, <1>2, PlansClean, SettlesClean, ProbesClean, PollsClean, RescueClean DEF Aside, Scan
<1>3. CASE OfTurn
  BY <1>1, <1>3, TurnClean
<1>4. CASE UnitStep
  BY <1>1, <1>4, AloneClean DEF UnitStep
<1>5. CASE UNCHANGED vars
  BY <1>1, <1>5 DEF vars, rowVars, Cur, Clean, CleanRow, Others, IsTurnOf, AtTurn, IsWhole
<1> QED BY <1>1, <1>2, <1>3, <1>4, <1>5, NextSplit

\* A run in which nothing goes wrong fails no unit of any row, and the scan behind it finds
\* the flashed units in their new program; one watchdog reset, that of an ordered restart,
\* must be less than CRASH_REC_THRESHOLD of them (UnitBootloader/main.c).
THEOREM CleanRunHolds == Threshold > 1 => (Spec => []CleanRunSucceeds)
<1> SUFFICES ASSUME Threshold > 1 PROVE Spec => []CleanRunSucceeds
  OBVIOUS
<1>1. Init => Inv /\ CleanInv
  <2> SUFFICES ASSUME Init PROVE Clean
    BY InvInit DEF CleanInv
  <2>1. /\ \A u \in Units : unit[u] \in {Fresh(u, "old"), Fresh(u, "blank")}
        /\ work = Rest /\ at = "loop" /\ repeated = {}
    BY DEF Init
  <2>2. CleanRow /\ AtTurn /\ \A u \in Units : ~IsTurnOf(u)
    BY <2>1 DEF CleanRow, AtTurn, IsTurnOf, Rest, Resting, Heeded, Busy, Streaming, Written1
  <2>3. \A u \in Units : Well(Fresh(u, "old")) /\ Blank(Fresh(u, "blank"))
    BY ImageHasPages DEF Fresh, Well, WholeRec, IsWhole, Blank, Pages
  <2>4. Others
    BY <2>1, <2>3 DEF Others, Rest
  <2> QED BY <2>2, <2>4 DEF Clean
<1>2. Inv /\ CleanInv /\ [Next]_vars => (Inv /\ CleanInv)'
  BY InvNext, CleanNext
<1>3. Inv /\ CleanInv => CleanRunSucceeds
  BY DEF CleanInv, Clean, CleanRow, CleanRunSucceeds
<1> QED BY <1>1, <1>2, <1>3, PTL DEF Spec
=============================================================================

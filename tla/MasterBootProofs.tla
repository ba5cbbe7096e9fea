-------------------------- MODULE MasterBootProofs --------------------------
(***************************************************************************)
(* What holds of the master's slots for any images, any number of updates  *)
(* and faults, and any limit of the boot guard.                            *)
(***************************************************************************)
EXTENDS MasterBoot, TLAPS

USE DEF Last

\* A stream into the factory slot that has begun to write has taken the header away.
HeaderInv == install.open /\ (install.erased \/ install.cursor > 0) => factory = "none"

\* The writer of the factory slot: its type, and what of the header.
LEMMA AcceptsKeeps ==
  ASSUME SlotTypeOK, HeaderInv, NEW i \in Rescues, NEW p \in 0..Last, p < Last, Accepts(i, p)
  PROVE  install' \in Installs /\ factory' \in Held /\ HeaderInv'
<1>1. install \in Installs /\ factory \in Held
  BY DEF SlotTypeOK
<1>2. install' \in Installs
  <2> DEFINE h == IF p = 0 THEN i ELSE install.head
             b == IF p = 0 THEN install.body ELSE i
             c == p + 1
  <2>1. h \in Held /\ b \in Held /\ c \in 0..Last
    BY <1>1 DEF Installs, Held
  <2>2. install' = [install EXCEPT !.cursor = c, !.stale = FALSE, !.erased = TRUE,
                                   !.head = h, !.body = b]
    BY DEF Accepts
  <2> HIDE DEF h, b, c
  <2> QED BY <1>1, <2>1, <2>2 DEF Installs
<1>3. factory' \in Held /\ factory' = "none"
  BY <1>1 DEF Accepts, Takes, Held, HeaderInv
<1> QED BY <1>2, <1>3 DEF HeaderInv

LEMMA FailsKeeps ==
  ASSUME SlotTypeOK, Rejects \/ Ignores
  PROVE  install' \in Installs /\ factory' \in Held /\ (HeaderInv => HeaderInv')
BY DEF SlotTypeOK, Rejects, Ignores, Takes, Fails, Installs, Held, HeaderInv

LEMMA CommitsKeeps ==
  ASSUME SlotTypeOK, Commits
  PROVE  install' \in Installs /\ factory' \in Held /\ HeaderInv'
BY DEF SlotTypeOK, Commits, Takes, Installs, Held, HeaderInv

LEMMA BeginsKeeps ==
  ASSUME NEW c \in BOOLEAN, Begins(c)
  PROVE  install' \in Installs /\ HeaderInv'
<1>1. NoInstall \in Installs
  BY DEF NoInstall, Installs, Held
<1>2. install' = [NoInstall EXCEPT !.open = TRUE, !.checks = c]
  BY DEF Begins
<1>3. install' \in Installs
  BY <1>1, <1>2 DEF Installs
<1>4. ~install'.erased /\ install'.cursor = 0
  BY <1>2 DEF NoInstall
<1> QED BY <1>3, <1>4 DEF HeaderInv

LEMMA FactsTyped ==
  ASSUME NEW h \in Held, NEW r \in Records
  PROVE  FactsOf(h, r) \in Facts
BY DEF FactsOf, Facts, Records

LEMMA NothingYet ==
  /\ NoInstall \in Installs /\ NoWeb \in Webs /\ NoRel \in Rels /\ NoRecord \in Records
  /\ \A at \in {"look", "rescue", "master", "done"} : [at |-> at, pos |-> 0] \in Rels
BY RescuesAreNamed DEF NoInstall, NoWeb, NoRel, NoRecord, Installs, Webs, Rels, Records, Held

LEMMA SlotForgetsKeeps ==
  ASSUME SlotTypeOK, SlotForgets
  PROVE  SlotTypeOK' /\ HeaderInv'
<1>1. facts' \in Facts
  BY NothingYet, FactsTyped DEF SlotForgets, Held
<1>2. HeaderInv'
  BY DEF SlotForgets, HeaderInv, NoInstall
<1> QED BY <1>1, <1>2, NothingYet DEF SlotTypeOK, SlotForgets

\* The steps of the slot, one by one.
LEMMA WebWritesKeeps ==
  ASSUME SlotTypeOK, HeaderInv, WebWrites
  PROVE  SlotTypeOK' /\ HeaderInv'
<1>1. web \in Webs /\ web.image \in Rescues /\ web.pos \in 0..Last /\ web.pos < Last
  BY DEF SlotTypeOK, WebWrites, Webs
<1>2. web' \in Webs
  <2>1. PICK b \in BOOLEAN : web' = [web EXCEPT !.pos = @ + 1, !.took = b]
    BY DEF WebWrites
  <2>2. web.pos + 1 \in 0..Last
    BY <1>1
  <2> QED BY <1>1, <2>1, <2>2 DEF Webs
<1>3. install' \in Installs /\ factory' \in Held /\ HeaderInv'
  BY <1>1, AcceptsKeeps, FailsKeeps DEF WebWrites
<1> QED BY <1>2, <1>3 DEF SlotTypeOK, WebWrites

LEMMA WebEndsKeeps ==
  ASSUME SlotTypeOK, HeaderInv, WebEnds
  PROVE  SlotTypeOK' /\ HeaderInv'
<1>1. web \in Webs /\ web.image \in Rescues
  BY DEF SlotTypeOK, Webs
<1>2. install' \in Installs /\ factory' \in Held /\ HeaderInv'
  BY CommitsKeeps, FailsKeeps DEF WebEnds, SlotTypeOK, HeaderInv
<1>3. due' \in Rescues \cup {"none", "unnamed"}
  <2>1. due' \in {due, web.image, "unnamed"} /\ due \in Rescues \cup {"none", "unnamed"}
    BY DEF WebEnds, SlotTypeOK
  <2> QED BY <1>1, <2>1
<1> QED BY <1>2, <1>3, NothingYet DEF SlotTypeOK, WebEnds

LEMMA ReleaseKeeps ==
  ASSUME SlotTypeOK, HeaderInv,
         ReleaseStartsRescue \/ ReleaseSkipsRescue \/ ReleaseWrites \/ ReleaseCommits \/ LookFails
  PROVE  SlotTypeOK' /\ HeaderInv'
<1>0. rel \in Rels /\ rel.pos \in 0..Last
  BY DEF SlotTypeOK, Rels
<1>1. CASE ReleaseStartsRescue
  <2>1. install' \in Installs /\ HeaderInv'
    <3>1. CASE Begins(TRUE)
      BY <1>1, <3>1, BeginsKeeps DEF ReleaseStartsRescue
    <3>2. CASE install' = [install EXCEPT !.error = TRUE]
      BY <1>1, <3>2 DEF ReleaseStartsRescue, SlotTypeOK, HeaderInv, Installs
    <3> QED BY <1>1, <3>1, <3>2 DEF ReleaseStartsRescue
  <2>2. rel' \in Rels
    BY <1>1, NothingYet DEF ReleaseStartsRescue
  <2> QED BY <1>1, <2>1, <2>2 DEF ReleaseStartsRescue, SlotTypeOK, relRest
<1>2. CASE ReleaseSkipsRescue
  <2>1. rel' \in Rels
    BY <1>0, <1>2 DEF ReleaseSkipsRescue, Rels
  <2> QED BY <1>2, <2>1 DEF ReleaseSkipsRescue, SlotTypeOK, relRest, HeaderInv
<1>3. CASE ReleaseWrites
  <2>1. install' \in Installs /\ factory' \in Held /\ HeaderInv'
    BY <1>0, <1>3, AcceptsKeeps, FailsKeeps, RescuesAreNamed DEF ReleaseWrites
  <2>2. rel' \in Rels
    <3>1. CASE rel' = NoRel
      BY <3>1, NothingYet
    <3>2. CASE rel' = [rel EXCEPT !.pos = @ + 1]
      <4>1. rel.pos + 1 \in 0..Last
        BY <1>0, <1>3 DEF ReleaseWrites
      <4> QED BY <1>0, <3>2, <4>1 DEF Rels
    <3> QED BY <1>3, <3>1, <3>2 DEF ReleaseWrites
  <2> QED BY <1>3, <2>1, <2>2 DEF ReleaseWrites, SlotTypeOK, relRest
<1>4. CASE ReleaseCommits
  <2>1. install' \in Installs /\ factory' \in Held /\ HeaderInv'
    BY <1>4, CommitsKeeps, FailsKeeps DEF ReleaseCommits
  <2>2. rel' \in Rels /\ due' \in Rescues \cup {"none", "unnamed"}
    BY <1>4, NothingYet, RescuesAreNamed DEF ReleaseCommits, SlotTypeOK
  <2> QED BY <1>4, <2>1, <2>2 DEF ReleaseCommits, SlotTypeOK, relRest
<1>5. CASE LookFails
  BY <1>5, NothingYet DEF LookFails, SlotTypeOK, relRest, HeaderInv
<1> QED BY <1>1, <1>2, <1>3, <1>4, <1>5

LEMMA RecordsInstallKeeps ==
  ASSUME SlotTypeOK, HeaderInv, RecordsInstall
  PROVE  SlotTypeOK' /\ HeaderInv'
<1>1. recF' \in Records
  <2>1. CASE ~Verified
    BY <2>1 DEF RecordsInstall, SlotTypeOK
  <2>2. CASE Verified /\ due = "unnamed"
    BY <2>2, NothingYet DEF RecordsInstall
  <2>3. CASE Verified /\ due # "unnamed"
    BY <2>3 DEF RecordsInstall, SlotTypeOK, Records
  <2> QED BY <2>1, <2>2, <2>3
<1>2. facts' \in Facts
  BY <1>1, FactsTyped DEF RecordsInstall, SlotTypeOK
<1> QED BY <1>1, <1>2 DEF RecordsInstall, SlotTypeOK, HeaderInv

LEMMA SlotStepKeeps ==
  ASSUME SlotTypeOK, HeaderInv, SlotStep
  PROVE  SlotTypeOK' /\ HeaderInv'
<1>1. CASE WebGone
  BY <1>1, NothingYet DEF WebGone, SlotTypeOK, HeaderInv
<1>2. CASE Stalls
  <2>1. install' \in Installs
    BY <1>2 DEF Stalls, SlotTypeOK, Installs
  <2> QED BY <1>2, <2>1 DEF Stalls, SlotTypeOK, HeaderInv, Installs
<1> QED BY <1>1, <1>2, WebWritesKeeps, WebEndsKeeps, ReleaseKeeps, RecordsInstallKeeps DEF SlotStep

LEMMA ComesKeeps ==
  ASSUME SlotTypeOK, HeaderInv, WebBegins \/ ReleaseAsked
  PROVE  SlotTypeOK' /\ HeaderInv'
<1>1. CASE WebBegins
  <2>1. install' \in Installs /\ HeaderInv'
    BY <1>1, BeginsKeeps DEF WebBegins
  <2>2. web' \in Webs
    BY <1>1, NothingYet DEF WebBegins, Webs
  <2> QED BY <1>1, <2>1, <2>2 DEF WebBegins, SlotTypeOK
<1>2. CASE ReleaseAsked
  <2>1. rel' \in Rels
    BY <1>2, NothingYet DEF ReleaseAsked, Rels
  <2> QED BY <1>2, <2>1 DEF ReleaseAsked, SlotTypeOK, HeaderInv
<1> QED BY <1>1, <1>2

-----------------------------------------------------------------------------
(* The board *)

Way == Verified \/ \E s \in Slots : slots[s] # "none"

\* What there is to start at each place of the board's life.  While the master runs its own
\* slot is not written; while the rescue image runs the factory slot is not; and what the
\* guard erased is as it was until something is armed.
BootInv ==
  /\ cpu.at # "nothing"
  /\ upload.at # "none" => Serves
  /\ InMaster => slots[cpu.slot] # "none"
  /\ cpu.at = "rescue" => Verified
  /\ cpu.at = "reset" => Way
  /\ erasedBy = "guard" =>
       /\ Verified /\ ota.now.state = "none" /\ ota.before.state = "none"
       /\ cpu.at \in {"tripped", "reset", "rescue"}

Inv == TypeOK /\ HeaderInv /\ BootInv

\* The records of the model, and what a step does to them.
LEMMA CpuFields ==
  /\ \A c \in Cpus : c.at \in {"reset", "guard", "tripped", "init", "record", "up", "rescue",
                             "nothing"} /\ c.slot \in Slots
  /\ \A c \in Cpus, a \in {"reset", "guard", "tripped", "init", "record", "up", "rescue",
                         "nothing"} : [c EXCEPT !.at = a] \in Cpus
  /\ \A c \in Cpus, w \in {"power", "brownout", "crash", "restart"} :
       [c EXCEPT !.at = "reset", !.why = w] \in Cpus
  /\ \A c \in Cpus, s \in Slots, a \in {"guard", "rescue", "nothing"} :
       [c EXCEPT !.slot = s, !.at = a] \in Cpus
BY DEF Cpus

LEMMA UploadFields ==
  /\ NoUpload \in Uploads
  /\ \A i \in Images, b \in {"web", "rel"} : [at |-> "open", image |-> i, by |-> b] \in Uploads
  /\ \A u \in Uploads : u.image \in Held2
  /\ \A u \in Uploads, a \in {"none", "open", "wiped", "whole"} : [u EXCEPT !.at = a] \in Uploads
BY DEF NoUpload, Uploads, Held2

LEMMA OtaFields ==
  /\ Absent \in Entries /\ [now |-> Absent, before |-> Absent] \in Otas
  /\ \A o \in Otas : o.now \in Entries /\ o.before \in Entries /\ o.now.slot \in Slots
  /\ \A a, b \in Entries : [now |-> a, before |-> b] \in Otas
  /\ \A e \in Entries : Kept(e) \in Entries /\ Trial(e) \in Entries
BY DEF Absent, Entries, Otas, Kept, Trial, Slots

LEMMA SettledTyped == ASSUME NEW o \in Otas PROVE Settled(o) \in Otas
<1>1. Kept(o.now) \in Entries /\ Kept(o.before) \in Entries
  BY OtaFields
<1>2. Trial(Kept(o.now)) \in Entries /\ Trial(Kept(o.before)) \in Entries /\ Absent \in Entries
  BY <1>1, OtaFields
<1> QED BY <1>1, <1>2, OtaFields DEF Settled

LEMMA ArmedTyped == ASSUME NEW t \in Slots, ota \in Otas PROVE Armed(t) \in Otas
<1>1. [slot |-> t, state |-> "new"] \in Entries
  BY DEF Entries
<1>2. (IF ota.now.state = "none" THEN Absent ELSE ota.now) \in Entries
  BY OtaFields
<1> QED BY <1>1, <1>2, OtaFields DEF Armed

\* The bootloader finds what there is.
LEMMA StartedStarts ==
  ASSUME Way, NEW o \in Otas
  PROVE  /\ Started(o) \in {0, 1, Rescue}
         /\ Started(o) = Rescue => Verified
         /\ Started(o) \in Slots => slots[Started(o)] # "none"
<1>1. \/ Order(o) = <<Rescue, 0, 1>> \/ Order(o) = <<0, Rescue, 1>> \/ Order(o) = <<1, 0, Rescue>>
  BY DEF Order
<1>2. Starts(Rescue) = Verified /\ \A s \in Slots : Starts(s) = (slots[s] # "none")
  BY DEF Starts, Rescue, Slots
<1>3. Starts(0) \/ Starts(1) \/ Starts(Rescue)
  BY <1>2 DEF Way, Slots
<1>4. Started(o) \in {0, 1, Rescue} /\ Starts(Started(o))
  BY <1>1, <1>3 DEF Started
<1> QED BY <1>2, <1>4 DEF Slots, Rescue

LEMMA ResetKeeps ==
  ASSUME Inv, NEW w \in {"power", "brownout", "crash", "restart"}, Resets(w),
         cpu.at # "reset" \/ Way, UNCHANGED <<slots, ota, erasedBy>>
  PROVE  /\ cpu' \in Cpus /\ upload' \in Uploads /\ reboot' \in BOOLEAN
         /\ SlotTypeOK' /\ HeaderInv' /\ BootInv'
<1>1. SlotTypeOK' /\ HeaderInv' /\ factory' = factory
  BY SlotForgetsKeeps DEF Inv, TypeOK, Resets, SlotForgets
<1>2. cpu' \in Cpus /\ upload' \in Uploads /\ reboot' \in BOOLEAN /\ cpu'.at = "reset"
      /\ upload'.at = "none"
  <2>1. cpu \in Cpus /\ cpu' = [cpu EXCEPT !.at = "reset", !.why = w]
    BY DEF Inv, TypeOK, Resets
  <2>2. cpu' \in Cpus
    BY <2>1, CpuFields
  <2>3. cpu'.at = "reset"
    BY <2>1 DEF Cpus
  <2>4. upload' = NoUpload /\ reboot' = FALSE
    BY DEF Resets
  <2>5. upload'.at = "none"
    BY <2>4 DEF NoUpload
  <2> QED BY <2>2, <2>3, <2>4, <2>5, UploadFields
<1>3. Way
  <2>1. cpu.at \in {"reset", "guard", "tripped", "init", "record", "up", "rescue", "nothing"}
        /\ cpu.slot \in Slots
    BY CpuFields DEF Inv, TypeOK
  <2> QED BY <2>1 DEF Inv, BootInv, Way, InMaster
<1>4. Way' /\ (Verified <=> Verified')
  BY <1>1, <1>3 DEF Way, Verified
<1> QED BY <1>1, <1>2, <1>4 DEF Inv, BootInv, InMaster, Serves

\* What does not touch the factory slot.
LEMMA SlotStays == ASSUME TypeOK, HeaderInv, UNCHANGED slotVars PROVE SlotTypeOK' /\ HeaderInv'
BY DEF TypeOK, SlotTypeOK, HeaderInv, slotVars

LEMMA BootloaderKeeps == ASSUME Inv, Bootloader PROVE Inv'
<1>0. TypeOK /\ HeaderInv /\ BootInv /\ cpu \in Cpus /\ ota \in Otas /\ Way
  BY DEF Inv, TypeOK, BootInv, Bootloader
<1>1. SlotTypeOK' /\ HeaderInv' /\ factory' = factory
  BY <1>0, SlotStays DEF Bootloader, slotVars
<1>2. ota' \in Otas
  BY <1>0, SettledTyped DEF Bootloader
<1> DEFINE s == Started(ota')
<1>3. /\ s \in {0, 1, Rescue}
      /\ s = Rescue => Verified
      /\ s \in Slots => slots[s] # "none"
  BY <1>0, <1>2, StartedStarts
<1>4. cpu' = [cpu EXCEPT !.slot = IF s \in Slots THEN s ELSE cpu.slot,
                         !.at = IF s \in Slots THEN "guard" ELSE IF s = Rescue THEN "rescue"
                                ELSE "nothing"]
  BY DEF Bootloader
<1>5. pinned' \in [Slots -> Held2]
  <2>1. pinned' = [t \in Slots |-> IF s = Rescue /\ rec[t].image = slots[t] THEN slots[t]
                                   ELSE "none"]
    BY DEF Bootloader
  <2>2. \A t \in Slots : slots[t] \in Held2
    BY <1>0 DEF TypeOK
  <2> QED BY <2>1, <2>2 DEF Held2
<1>6. erasedBy = "guard" => s = Rescue /\ ota'.now.state = "none" /\ ota'.before.state = "none"
  <2>1. HAVE erasedBy = "guard"
  <2>2. Verified /\ ota.now.state = "none" /\ ota.before.state = "none"
    BY <1>0, <2>1 DEF BootInv
  <2>3. Kept(ota.now) = ota.now /\ Kept(ota.before) = ota.before
        /\ Trial(ota.before) = ota.before
    BY <2>2 DEF Kept, Trial
  <2>4. ota' = [now |-> ota.before, before |-> Absent]
    BY <2>2, <2>3 DEF Bootloader, Settled
  <2>5. ota'.now.state = "none" /\ ota'.before.state = "none"
    BY <2>2, <2>4 DEF Absent
  <2>6. Order(ota') = <<Rescue, 0, 1>> /\ Starts(Rescue)
    BY <2>2, <2>5 DEF Order, Starts
  <2>7. s = Rescue
    BY <2>6 DEF Started
  <2> QED BY <2>5, <2>7
<1> HIDE DEF s
<1>7. /\ cpu' \in Cpus /\ cpu'.at \in {"guard", "rescue"}
      /\ cpu'.at = "rescue" <=> s = Rescue
      /\ cpu'.at = "guard" => s \in Slots /\ cpu'.slot = s
  <2>1. CASE s \in Slots
    <3>1. cpu' = [cpu EXCEPT !.slot = s, !.at = "guard"] /\ s # Rescue
      BY <1>4, <2>1 DEF Slots, Rescue
    <3>2. cpu'.at = "guard" /\ cpu'.slot = s
      BY <1>0, <3>1 DEF Cpus
    <3> QED BY <1>0, <2>1, <3>1, <3>2, CpuFields
  <2>2. CASE s = Rescue
    <3>1. cpu' = [cpu EXCEPT !.slot = cpu.slot, !.at = "rescue"]
      BY <1>4, <2>2 DEF Slots, Rescue
    <3>2. cpu'.at = "rescue"
      BY <1>0, <3>1 DEF Cpus
    <3> QED BY <1>0, <2>2, <3>1, <3>2, CpuFields
  <2> QED BY <1>3, <2>1, <2>2 DEF Slots
<1>8. upload.at = "none"
  BY <1>0 DEF BootInv, Serves, Bootloader
<1>9. TypeOK'
  BY <1>0, <1>1, <1>2, <1>5, <1>7 DEF TypeOK, Bootloader, counters
<1>10. BootInv'
  BY <1>0, <1>1, <1>3, <1>6, <1>7, <1>8 DEF BootInv, Bootloader, InMaster, Serves, Verified
<1> QED BY <1>1, <1>9, <1>10 DEF Inv

\* A step of the master that leaves the slots and the factory slot alone.
LEMMA MasterGoesOn ==
  ASSUME Inv, UNCHANGED <<slots, upload, slotVars>>, InMaster, upload.at = "none", cpu' \in Cpus,
         cpu'.at \in {"tripped", "init", "record", "up"}, cpu'.slot = cpu.slot,
         erasedBy' = "guard" =>
            /\ Verified /\ ota'.now.state = "none" /\ ota'.before.state = "none"
            /\ cpu'.at = "tripped"
  PROVE  SlotTypeOK' /\ HeaderInv' /\ BootInv'
<1>1. SlotTypeOK' /\ HeaderInv' /\ factory' = factory
  BY SlotStays DEF Inv, slotVars
<1> QED BY <1>1 DEF Inv, BootInv, InMaster, Serves, Verified

LEMMA GuardKeeps == ASSUME Inv, Guard PROVE Inv'
<1>0. TypeOK /\ BootInv /\ cpu \in Cpus /\ cpu.slot \in Slots /\ InMaster /\ upload.at = "none"
  BY CpuFields DEF Inv, TypeOK, BootInv, Guard, InMaster, Serves
<1>1. crashes' \in 0..Limit
  BY <1>0, BootIsConfigured DEF Guard, Count, Least, TypeOK
<1>2. ota' \in Otas /\ erasedBy' \in {"nobody", "asked", "guard"}
  BY <1>0, OtaFields DEF Guard, ErasesOtadata, TypeOK
<1>3. /\ cpu' \in Cpus /\ cpu'.at \in {"tripped", "init"} /\ cpu'.slot = cpu.slot
  <2>1. PICK a \in {"tripped", "init"} : cpu' = [cpu EXCEPT !.at = a]
    BY DEF Guard
  <2>2. cpu'.at = a /\ cpu'.slot = cpu.slot
    BY <1>0, <2>1 DEF Cpus
  <2> QED BY <1>0, <2>1, <2>2, CpuFields
<1>4. erasedBy' = "guard" =>
        /\ Verified /\ ota'.now.state = "none" /\ ota'.before.state = "none"
        /\ cpu'.at = "tripped"
  <2>1. CASE crashes' >= Limit /\ Verified
    <3>1. ota' = [now |-> Absent, before |-> Absent] /\ cpu' = [cpu EXCEPT !.at = "tripped"]
      BY <2>1 DEF Guard, ErasesOtadata
    <3>2. cpu'.at = "tripped"
      BY <1>0, <3>1 DEF Cpus
    <3> QED BY <2>1, <3>1, <3>2 DEF Absent
  <2>2. CASE ~(crashes' >= Limit /\ Verified)
    BY <1>0, <2>2 DEF Guard, BootInv
  <2> QED BY <2>1, <2>2
<1>5. SlotTypeOK' /\ HeaderInv' /\ BootInv'
  BY <1>0, <1>3, <1>4, MasterGoesOn DEF Guard
<1>6. TypeOK'
  BY <1>0, <1>1, <1>2, <1>3, <1>5 DEF TypeOK, Guard, counters
<1> QED BY <1>5, <1>6 DEF Inv

LEMMA ConfirmsKeeps == ASSUME Inv, Confirms PROVE Inv'
<1>0. TypeOK /\ BootInv /\ cpu \in Cpus /\ ota \in Otas /\ InMaster /\ upload.at = "none"
      /\ erasedBy # "guard"
  BY DEF Inv, TypeOK, BootInv, Confirms, InMaster, Serves
<1>1. ota' \in Otas
  BY <1>0 DEF Confirms, Otas, Entries
<1>2. cpu' \in Cpus /\ cpu'.at = "record" /\ cpu'.slot = cpu.slot
  <2>1. cpu' = [cpu EXCEPT !.at = "record"]
    BY DEF Confirms
  <2>2. cpu'.at = "record" /\ cpu'.slot = cpu.slot
    BY <1>0, <2>1 DEF Cpus
  <2> QED BY <1>0, <2>1, <2>2, CpuFields
<1>3. SlotTypeOK' /\ HeaderInv' /\ BootInv'
  BY <1>0, <1>2, MasterGoesOn DEF Confirms
<1>4. TypeOK'
  BY <1>0, <1>1, <1>2, <1>3 DEF TypeOK, Confirms, counters
<1> QED BY <1>3, <1>4 DEF Inv

LEMMA EnsuresRecordKeeps == ASSUME Inv, EnsuresRecord PROVE Inv'
<1>0. TypeOK /\ BootInv /\ cpu \in Cpus /\ cpu.slot \in Slots /\ upload.at = "none"
      /\ erasedBy # "guard" /\ slots[cpu.slot] # "none" /\ slots[cpu.slot] \in Held2
  BY CpuFields DEF Inv, TypeOK, BootInv, EnsuresRecord, InMaster, Serves
<1>1. rec' \in [Slots -> SlotRecs]
  <2>1. NextSeq \in Nat
    BY <1>0 DEF NextSeq, TypeOK, SlotRecs, Slots
  <2>2. [seq |-> NextSeq, image |-> slots[cpu.slot]] \in SlotRecs
    BY <1>0, <2>1 DEF SlotRecs
  <2> QED BY <1>0, <2>2 DEF EnsuresRecord, TypeOK
<1>2. last' \in Lasts
  BY <1>0 DEF EnsuresRecord, Lasts
<1>3. cpu' \in Cpus /\ cpu'.at = "up" /\ cpu'.slot = cpu.slot
  <2>1. cpu' = [cpu EXCEPT !.at = "up"]
    BY DEF EnsuresRecord
  <2>2. cpu'.at = "up" /\ cpu'.slot = cpu.slot
    BY <1>0, <2>1 DEF Cpus
  <2> QED BY <1>0, <2>1, <2>2, CpuFields
<1>4. SlotTypeOK' /\ HeaderInv'
  <2>1. facts' \in Facts
    BY <1>0, FactsTyped DEF EnsuresRecord, SlotRefreshes, TypeOK, SlotTypeOK
  <2> QED BY <1>0, <2>1 DEF EnsuresRecord, SlotRefreshes, Inv, TypeOK, SlotTypeOK, HeaderInv
<1>5. BootInv'
  BY <1>0, <1>3 DEF BootInv, EnsuresRecord, InMaster, Serves
<1>6. TypeOK'
  BY <1>0, <1>1, <1>2, <1>3, <1>4 DEF TypeOK, EnsuresRecord, counters
<1> QED BY <1>4, <1>5, <1>6 DEF Inv

LEMMA ForgivesKeeps == ASSUME Inv, Forgives PROVE Inv'
<1>1. SlotTypeOK' /\ HeaderInv' /\ factory' = factory
  BY SlotStays DEF Inv, Forgives, slotVars
<1>2. BootInv'
  BY <1>1 DEF Inv, BootInv, Forgives, InMaster, Serves, Way, Verified
<1>3. TypeOK'
  BY <1>1, BootIsConfigured DEF Inv, TypeOK, Forgives, counters
<1> QED BY <1>1, <1>2, <1>3 DEF Inv

\* Resets of any kind.
LEMMA ResetsKeep ==
  ASSUME Inv, GuardRestarts \/ Crash \/ Stumble \/ PowerGoes \/ Reboots
  PROVE  Inv'
<1>0. TypeOK /\ cpu.slot \in Slots /\ crashes \in 0..Limit
  BY CpuFields DEF Inv, TypeOK
<1>1. PICK w \in {"power", "brownout", "crash", "restart"} :
        Resets(w) /\ UNCHANGED <<slots, ota, erasedBy>>
  BY DEF GuardRestarts, Crash, Stumble, PowerGoes, Reboots
<1>2. cpu.at # "reset" \/ Way
  BY DEF Inv, BootInv
<1>3. /\ cpu' \in Cpus /\ upload' \in Uploads /\ reboot' \in BOOLEAN
      /\ SlotTypeOK' /\ HeaderInv' /\ BootInv'
  BY <1>1, <1>2, ResetKeeps
<1>4. faults' \in 0..MaxFaults /\ updates' \in 0..MaxUpdates
  BY <1>0, BootIsConfigured DEF TypeOK, GuardRestarts, Crash, Stumble, PowerGoes, Reboots, counters
<1>5. crashes' \in 0..Limit
  BY <1>0, BootIsConfigured DEF TypeOK, GuardRestarts, Crash, Stumble, PowerGoes, Reboots
<1>6. UNCHANGED <<rec, pinned, last>>
  BY DEF GuardRestarts, Crash, Stumble, PowerGoes, Reboots
<1> QED BY <1>0, <1>1, <1>3, <1>4, <1>5, <1>6 DEF Inv, TypeOK

LEMMA PinHeldKeeps == ASSUME Inv, PinHeld PROVE Inv'
<1>1. SlotTypeOK' /\ HeaderInv' /\ factory' = factory
  BY SlotStays DEF Inv, PinHeld, slotVars
<1>2. ota' \in Otas /\ erasedBy' = "asked"
  BY OtaFields DEF PinHeld, ErasesOtadata
<1>3. BootInv'
  BY <1>1, <1>2 DEF Inv, BootInv, PinHeld, InMaster, Serves, Way, Verified
<1>4. faults' \in 0..MaxFaults
  BY BootIsConfigured DEF Inv, TypeOK, PinHeld
<1>5. TypeOK'
  BY <1>1, <1>2, <1>4 DEF Inv, TypeOK, PinHeld
<1> QED BY <1>1, <1>3, <1>5 DEF Inv

\* A write goes to the slot that is not needed.
LEMMA WritesElsewhere ==
  ASSUME Inv, Serves, UNCHANGED <<cpu, slotVars, ota, erasedBy>>, upload' \in Uploads,
         NEW v \in Held2, slots' = slots \/ slots' = [slots EXCEPT ![Target] = v]
  PROVE  SlotTypeOK' /\ HeaderInv' /\ BootInv' /\ slots' \in [Slots -> Held2]
<1>1. SlotTypeOK' /\ HeaderInv' /\ factory' = factory
  BY SlotStays DEF Inv, slotVars
<1>2. cpu.slot \in Slots /\ slots \in [Slots -> Held2]
  BY CpuFields DEF Inv, TypeOK
<1>3. slots' \in [Slots -> Held2]
  BY <1>2
<1>4. InMaster => slots'[cpu.slot] = slots[cpu.slot]
  BY <1>2 DEF InMaster, Serves, Target, Other, Slots
<1> QED BY <1>1, <1>3, <1>4 DEF Inv, BootInv, InMaster, Serves, Verified

LEMMA StreamKeeps ==
  ASSUME Inv, UploadBegins \/ ReleaseBegins \/ UploadWipes \/ UploadWhole
  PROVE  Inv'
<1>0. TypeOK /\ Serves /\ "none" \in Held2 /\ upload \in Uploads
  BY DEF Inv, TypeOK, BootInv, UploadBegins, ReleaseBegins, UploadWipes, UploadWhole, Serves, Held2
<1>1. upload' \in Uploads
  BY <1>0, UploadFields DEF UploadBegins, ReleaseBegins, UploadWipes, UploadWhole
<1>2. PICK v \in Held2 : slots' = slots \/ slots' = [slots EXCEPT ![Target] = v]
  BY <1>0, UploadFields DEF UploadBegins, ReleaseBegins, UploadWipes, UploadWhole
<1>3. UNCHANGED <<cpu, slotVars, ota, erasedBy, rec, crashes, pinned, last, faults, reboot>>
  BY DEF UploadBegins, ReleaseBegins, UploadWipes, UploadWhole, otherBoot
<1>4. SlotTypeOK' /\ HeaderInv' /\ BootInv' /\ slots' \in [Slots -> Held2]
  BY <1>0, <1>1, <1>2, <1>3, WritesElsewhere
<1>5. updates' \in 0..MaxUpdates
  BY <1>0, BootIsConfigured DEF UploadBegins, ReleaseBegins, UploadWipes, UploadWhole, TypeOK
<1> QED BY <1>0, <1>1, <1>3, <1>4, <1>5 DEF Inv, TypeOK

\* The end of a stream, however it ends, and the way out of the rescue image.
LEMMA EndKeeps == ASSUME Inv, UploadArms \/ UploadFails PROVE Inv'
<1>0. TypeOK /\ Serves /\ ota \in Otas /\ cpu.slot \in Slots /\ rel \in Rels
  BY CpuFields DEF Inv, TypeOK, BootInv, UploadArms, UploadFails, Serves, SlotTypeOK
<1>1. Target \in Slots
  BY <1>0 DEF Target, Other, Slots
<1>2. /\ ota' \in Otas /\ erasedBy' \in {"nobody", "asked", "guard"} /\ reboot' \in BOOLEAN
      /\ erasedBy' = "guard" => erasedBy = "guard" /\ ota' = ota
  BY <1>0, <1>1, ArmedTyped DEF UploadArms, UploadFails, Arms, TypeOK, otherBoot
<1>3. rel' \in Rels
  BY <1>0, NothingYet DEF UploadArms, UploadFails, Rels
<1>4. /\ upload' = NoUpload
      /\ UNCHANGED <<slots, rec, crashes, cpu, pinned, last, updates, faults, factory,
                     install, web, recF, facts, due>>
  BY DEF UploadArms, UploadFails, otherBoot
<1>5. SlotTypeOK' /\ HeaderInv'
  BY <1>3, <1>4 DEF Inv, TypeOK, SlotTypeOK, HeaderInv
<1>6. BootInv'
  BY <1>0, <1>2, <1>4 DEF Inv, BootInv, InMaster, Serves, Verified, Way
<1>7. upload' \in Uploads
  BY <1>4, UploadFields
<1> QED BY <1>0, <1>2, <1>4, <1>5, <1>6, <1>7 DEF Inv, TypeOK

LEMMA RescueExitKeeps == ASSUME Inv, RescueExit PROVE Inv'
<1>1. SlotTypeOK' /\ HeaderInv' /\ factory' = factory
  BY SlotStays DEF Inv, RescueExit, slotVars
<1>2. Exits \subseteq Slots
  BY DEF Exits, Slots
<1>3. ota' \in Otas /\ erasedBy' = "nobody" /\ reboot' = TRUE
  BY <1>2, ArmedTyped DEF RescueExit, Arms, Inv, TypeOK
<1>4. BootInv'
  BY <1>1, <1>3 DEF Inv, BootInv, RescueExit, restOfBoot, InMaster, Serves, Verified, Way
<1> QED BY <1>1, <1>3, <1>4 DEF Inv, TypeOK, RescueExit, restOfBoot, counters

LEMMA RescueBootKeeps == ASSUME Inv, RescueBoot PROVE Inv'
<1>1. SlotTypeOK' /\ HeaderInv' /\ factory' = factory
  BY SlotStays DEF Inv, RescueBoot, slotVars
<1>2. ota' \in Otas /\ erasedBy' = "asked" /\ reboot' = TRUE
  BY OtaFields DEF RescueBoot, ErasesOtadata
<1>3. BootInv'
  BY <1>1, <1>2 DEF Inv, BootInv, RescueBoot, restOfBoot, InMaster, Serves, Verified, Way
<1> QED BY <1>1, <1>2, <1>3 DEF Inv, TypeOK, RescueBoot, restOfBoot, counters

\* The factory slot is written while the master runs, which does not need it.
LEMMA FactoryKeeps == ASSUME Inv, RescueComes \/ RescueGoesOn PROVE Inv'
<1>1. SlotTypeOK' /\ HeaderInv'
  BY SlotStepKeeps, ComesKeeps DEF Inv, TypeOK, RescueComes, RescueGoesOn
<1>2. cpu.at = "up" /\ UNCHANGED <<slots, ota, rec, crashes, cpu, upload, reboot, pinned, last,
                                   erasedBy, faults>>
  BY DEF RescueComes, RescueGoesOn, bootVars, counters
<1>3. updates' \in 0..MaxUpdates
  BY BootIsConfigured DEF Inv, TypeOK, RescueComes, RescueGoesOn, bootVars, counters
<1>4. BootInv'
  BY <1>2 DEF Inv, BootInv, InMaster, Serves
<1> QED BY <1>1, <1>2, <1>3, <1>4 DEF Inv, TypeOK

-----------------------------------------------------------------------------
LEMMA InitHolds == Init => Inv
<1> SUFFICES ASSUME Init PROVE Inv
  OBVIOUS
<1>1. SlotTypeOK /\ HeaderInv
  <2>1. facts \in Facts
    BY NothingYet, FactsTyped DEF Init, Held
  <2>2. factory \in Held
    BY DEF Init, Held
  <2>3. HeaderInv
    BY DEF Init, HeaderInv, NoInstall
  <2> QED BY <2>1, <2>2, <2>3, NothingYet DEF Init, SlotTypeOK
<1>2. PICK i \in Images \ (Bad \cup Flaky) : slots = [s \in Slots |-> IF s = 0 THEN i ELSE "none"]
  BY DEF Init
<1>3. slots \in [Slots -> Held2] /\ slots[0] # "none"
  BY <1>2, BootIsConfigured DEF Slots, Held2
<1>4. ota \in Otas
  BY OtaFields DEF Init, Entries, Otas, Slots
<1>5. cpu \in Cpus /\ cpu.at = "reset"
  BY DEF Init, Cpus, Slots
<1>6. rec \in [Slots -> SlotRecs] /\ pinned \in [Slots -> Held2] /\ last \in Lasts
  BY DEF Init, NoRec, SlotRecs, Held2, Lasts, Slots
<1>7. upload \in Uploads /\ upload.at = "none"
  BY UploadFields DEF Init, NoUpload
<1>8. TypeOK
  <2>1. crashes \in 0..Limit /\ updates \in 0..MaxUpdates /\ faults \in 0..MaxFaults
    BY BootIsConfigured DEF Init
  <2>2. reboot \in BOOLEAN /\ erasedBy \in {"nobody", "asked", "guard"}
    BY DEF Init
  <2> QED BY <1>1, <1>3, <1>4, <1>5, <1>6, <1>7, <2>1, <2>2 DEF TypeOK
<1>9. BootInv
  BY <1>3, <1>5, <1>7 DEF Init, BootInv, InMaster, Serves, Way, Slots
<1> QED BY <1>1, <1>8, <1>9 DEF Inv

LEMMA StepHolds == Inv /\ [Next]_vars => Inv'
<1> SUFFICES ASSUME Inv, [Next]_vars PROVE Inv'
  OBVIOUS
<1>1. CASE UNCHANGED vars
  <2>1. SlotTypeOK' /\ HeaderInv' /\ factory' = factory
    BY <1>1, SlotStays DEF Inv, vars, slotVars
  <2>2. UNCHANGED <<slots, ota, rec, crashes, cpu, upload, reboot, pinned, last, 
                   erasedBy, updates, faults>>
    BY <1>1 DEF vars, bootVars, counters
  <2> QED BY <2>1, <2>2 DEF Inv, TypeOK, BootInv, InMaster, Serves, Way, Verified
<1>2. CASE Next
  BY <1>2, BootloaderKeeps, GuardKeeps, ResetsKeep, ConfirmsKeeps, EnsuresRecordKeeps,
     ForgivesKeeps, PinHeldKeeps, StreamKeeps, EndKeeps, RescueBootKeeps, FactoryKeeps,
     RescueExitKeeps DEF Next
<1> QED BY <1>1, <1>2

THEOREM InvHolds == Spec => []Inv
<1>1. Init => Inv
  BY InitHolds
<1>2. Inv /\ [Next]_vars => Inv'
  BY StepHolds
<1> QED BY <1>1, <1>2, PTL DEF Spec

\* The variables are what they are said to be.
THEOREM TypesHold == Spec => []TypeOK
<1>1. Inv => TypeOK
  BY DEF Inv
<1> QED BY <1>1, InvHolds, PTL

\* The factory slot holds nothing that could be taken for an image while it is written,
\* however the writers take turns (FactorySlot.h).
THEOREM HeaderHolds == Spec => []HeaderHeldBack
<1>1. Inv => HeaderHeldBack
  BY DEF Inv, HeaderInv, HeaderHeldBack
<1> QED BY <1>1, InvHolds, PTL

\* No sequence of updates, rescue images, trips of the guard, pin resets and losses of power
\* leaves the board with nothing to start (the bootloader and the writers of the slots).
THEOREM BoardStarts == Spec => []SomethingStarts
<1>1. Inv => SomethingStarts
  BY DEF Inv, BootInv, SomethingStarts, Way
<1> QED BY <1>1, InvHolds, PTL

\* What the boot guard erased otadata for is there (bootGuardBoot).
THEOREM GuardHolds == Spec => []GuardHasAWayOut
<1>1. Inv => GuardHasAWayOut
  BY DEF Inv, BootInv, GuardHasAWayOut
<1> QED BY <1>1, InvHolds, PTL
-----------------------------------------------------------------------------
(* The trial of an image and the records of the slots *)

Passed == cpu.at \in {"record", "up"} /\ ota.now.slot = cpu.slot => ota.now.state # "pending"
\* The record of the image that was up last is the newest, and says what it is of.
Ranked ==
  /\ \A s \in Slots : rec[s].seq = 0 => rec[s].image = "none"
  /\ last.image # "none" =>
       Stands(rec[last.slot], rec[Other(last.slot)], last.image)
  /\ cpu.at = "rescue" => \A s \in Slots : pinned[s] # "none" => rec[s].image = pinned[s]
RecordInv == Passed /\ Ranked

\* What leaves records and places alone.
LEMMA RecordsStay ==
  ASSUME RecordInv, UNCHANGED <<rec, last, pinned>>, cpu'.at # "rescue" \/ cpu.at = "rescue",
         cpu'.at \in {"record", "up"} => UNCHANGED <<cpu, ota>>
  PROVE  RecordInv'
BY DEF RecordInv, Passed, Ranked, Stands, Other

LEMMA BootloaderRanks == ASSUME Inv, RecordInv, Bootloader PROVE RecordInv'
<1>1. cpu \in Cpus /\ rec \in [Slots -> SlotRecs] /\ slots \in [Slots -> Held2]
  BY DEF Inv, TypeOK
<1>2. cpu'.at \notin {"record", "up"}
  <2> DEFINE x == IF Started(ota') \in Slots THEN Started(ota') ELSE cpu.slot
             a == IF Started(ota') \in Slots THEN "guard"
                  ELSE IF Started(ota') = Rescue THEN "rescue" ELSE "nothing"
  <2>1. cpu' = [cpu EXCEPT !.slot = x, !.at = a] /\ a \in {"guard", "rescue", "nothing"}
    BY DEF Bootloader
  <2> HIDE DEF x, a
  <2> QED BY <1>1, <2>1 DEF Cpus
<1>3. UNCHANGED <<rec, last>>
  BY DEF Bootloader
<1>4. \A s \in Slots : pinned'[s] # "none" => rec[s].image = pinned'[s]
  BY DEF Bootloader
<1> QED BY <1>2, <1>3, <1>4 DEF RecordInv, Passed, Ranked, Stands, Other

LEMMA ConfirmsPasses == ASSUME Inv, RecordInv, Confirms PROVE RecordInv'
<1>1. cpu \in Cpus /\ ota \in Otas
  BY DEF Inv, TypeOK
<1>2. cpu'.at = "record" /\ cpu'.slot = cpu.slot
  BY <1>1 DEF Confirms, Cpus
<1>3. Passed'
  <2>1. CASE OnTrial
    <3>1. ota'.now.state = "valid"
      BY <1>1, <2>1 DEF Confirms, Otas, Entries
    <3> QED BY <3>1 DEF Passed
  <2>2. CASE ~OnTrial
    BY <1>2, <2>2 DEF Confirms, Passed, OnTrial
  <2> QED BY <2>1, <2>2
<1> QED BY <1>2, <1>3 DEF RecordInv, Ranked, Stands, Other, Confirms

LEMMA EnsuresRecordRanks == ASSUME Inv, RecordInv, EnsuresRecord PROVE RecordInv'
<1>1. /\ cpu \in Cpus /\ cpu.slot \in Slots /\ rec \in [Slots -> SlotRecs]
      /\ slots[cpu.slot] # "none" /\ slots[cpu.slot] \in Held2
  BY CpuFields DEF Inv, TypeOK, BootInv, EnsuresRecord, InMaster
<1>2. cpu'.at = "up" /\ cpu'.slot = cpu.slot
  BY <1>1 DEF EnsuresRecord, Cpus
<1>3. Passed'
  BY <1>2 DEF Passed, RecordInv, EnsuresRecord
<1>4. /\ rec[0].seq \in Nat /\ rec[1].seq \in Nat /\ NextSeq \in Nat /\ NextSeq > 0
      /\ NextSeq > rec[0].seq /\ NextSeq > rec[1].seq
  BY <1>1 DEF NextSeq, Slots, SlotRecs
<1>5. last'.slot = cpu.slot /\ last'.image = slots[cpu.slot] /\ Other(cpu.slot) \in Slots
      /\ Other(cpu.slot) # cpu.slot
  BY <1>1 DEF EnsuresRecord, Other, Slots
<1>6. CASE Stands(rec[cpu.slot], rec[Other(cpu.slot)], slots[cpu.slot])
  BY <1>2, <1>3, <1>5, <1>6 DEF EnsuresRecord, RecordInv, Ranked, Stands, Other
<1>7. CASE ~Stands(rec[cpu.slot], rec[Other(cpu.slot)], slots[cpu.slot])
  <2>1. /\ rec' = [rec EXCEPT ![cpu.slot] = [seq |-> NextSeq, image |-> slots[cpu.slot]]]
    BY <1>7 DEF EnsuresRecord
  <2>2. rec'[cpu.slot].seq = NextSeq /\ rec'[cpu.slot].image = slots[cpu.slot]
    BY <1>1, <2>1
  <2>3. \A s \in Slots : s # cpu.slot => rec'[s] = rec[s]
    BY <1>1, <2>1
  <2>4. rec'[Other(cpu.slot)].seq < NextSeq
    BY <1>4, <1>5, <2>3 DEF Slots
  <2>5. Stands(rec'[cpu.slot], rec'[Other(cpu.slot)], slots[cpu.slot])
    BY <2>2, <2>4 DEF Stands
  <2>6. \A s \in Slots : rec'[s].seq = 0 => rec'[s].image = "none"
    BY <1>4, <2>2, <2>3 DEF RecordInv, Ranked
  <2>7. Stands(rec'[last'.slot], rec'[Other(last'.slot)], last'.image)
    BY <1>5, <2>5
  <2> QED BY <1>2, <1>3, <2>6, <2>7 DEF RecordInv, Ranked, Stands, Other
<1> QED BY <1>6, <1>7

LEMMA ArmingPasses ==
  ASSUME Inv, RecordInv, UploadArms \/ RescueExit \/ RescueBoot \/ UploadFails
  PROVE  RecordInv'
<1>1. UNCHANGED <<rec, last, pinned, cpu>>
  BY DEF UploadArms, RescueExit, RescueBoot, UploadFails, restOfBoot, otherBoot
<1>2. ota'.now.state \in {"new", "none"} \/ ota' = ota
  BY DEF UploadArms, RescueExit, RescueBoot, UploadFails, Arms, Armed, ErasesOtadata, Absent,
         otherBoot
<1> QED BY <1>1, <1>2 DEF RecordInv, Passed, Ranked, Stands, Other

LEMMA RecordsHold == Inv /\ RecordInv /\ [Next]_vars => RecordInv'
<1> SUFFICES ASSUME Inv, RecordInv, [Next]_vars PROVE RecordInv'
  OBVIOUS
<1>0. cpu \in Cpus
  BY DEF Inv, TypeOK
<1>1. CASE UNCHANGED vars \/ Forgives \/ UploadBegins \/ ReleaseBegins \/ UploadWipes \/ UploadWhole
           \/ RescueComes \/ RescueGoesOn
  <2>1. UNCHANGED <<rec, last, pinned, cpu, ota>>
    BY <1>1 DEF vars, bootVars, Forgives, UploadBegins, ReleaseBegins, UploadWipes, UploadWhole,
                RescueComes, RescueGoesOn, otherBoot
  <2> QED BY <2>1, RecordsStay
<1>2. CASE GuardRestarts \/ Crash \/ Stumble \/ PowerGoes \/ Reboots
  <2>1. UNCHANGED <<rec, last, pinned>> /\ \E w : Resets(w)
    BY <1>2 DEF GuardRestarts, Crash, Stumble, PowerGoes, Reboots
  <2>2. cpu'.at = "reset"
    BY <1>0, <2>1 DEF Resets, Cpus
  <2> QED BY <2>1, <2>2, RecordsStay
<1>3. CASE Guard
  <2>1. cpu'.at \in {"tripped", "init"} /\ UNCHANGED <<rec, last, pinned>>
    BY <1>0, <1>3 DEF Guard, Cpus
  <2> QED BY <2>1, RecordsStay
<1>4. CASE PinHeld
  <2>1. cpu'.at = "reset" /\ UNCHANGED <<rec, last, pinned>>
    BY <1>4 DEF PinHeld
  <2> QED BY <2>1, RecordsStay
<1> QED BY <1>1, <1>2, <1>3, <1>4, BootloaderRanks, ConfirmsPasses, EnsuresRecordRanks,
           ArmingPasses DEF Next

LEMMA InitRanks == Init => RecordInv
BY DEF Init, RecordInv, Passed, Ranked, NoRec

LEMMA NewestIsPicked == Inv /\ RecordInv => ExitIsNewest
<1> SUFFICES ASSUME Inv, RecordInv, cpu.at = "rescue", last.image # "none",
                    slots[last.slot] = last.image, pinned[last.slot] = last.image,
                    \A s \in Slots : pinned[s] \in {slots[s], "none"}
             PROVE  Exits = {last.slot}
  BY DEF ExitIsNewest
<1> DEFINE l == last.slot
           o == Other(last.slot)
<1>1. last \in Lasts /\ rec \in [Slots -> SlotRecs]
  BY DEF Inv, TypeOK
<1>2. l \in Slots /\ o \in Slots /\ l # o /\ Slots = {l, o} /\ Slots = {0, 1}
  BY <1>1 DEF Lasts, Slots, Other
<1>3. Confirmed(l)
  BY DEF Confirmed
<1>4. rec[o].seq = 0 \/ rec[l].seq > rec[o].seq
  BY DEF RecordInv, Ranked, Stands
<1>5. Confirmed(o) => rec[l].seq > rec[o].seq
  BY <1>2, <1>4 DEF Confirmed, RecordInv, Ranked
<1>6. rec[l].seq \in Nat /\ rec[o].seq \in Nat
  BY <1>1, <1>2 DEF SlotRecs
<1>7. CASE slots[o] = "none"
  BY <1>2, <1>7 DEF Exits
<1>8. CASE slots[o] # "none" /\ ~Confirmed(o)
  BY <1>2, <1>3, <1>8 DEF Exits, Confirmed
<1>9. CASE slots[o] # "none" /\ Confirmed(o)
  <2>1. (IF rec[1].seq > rec[0].seq THEN 1 ELSE 0) = l
    BY <1>2, <1>5, <1>6, <1>9
  <2> QED BY <1>2, <1>3, <1>9, <2>1 DEF Exits, Confirmed
<1> QED BY <1>7, <1>8, <1>9

\* What is up has passed its trial (otaHealthConfirm).
THEOREM TrialsEnd == Spec => []UpIsConfirmed
<1>1. Init => Inv /\ RecordInv
  BY InitHolds, InitRanks
<1>2. Inv /\ RecordInv /\ [Next]_vars => (Inv /\ RecordInv)'
  BY StepHolds, RecordsHold
<1>3. Inv /\ RecordInv => UpIsConfirmed
  BY DEF RecordInv, Passed, UpIsConfirmed
<1> QED BY <1>1, <1>2, <1>3, PTL DEF Spec

\* The way out of the rescue image leads to what was up last (ensureSlotRecord, pickExitSlot).
THEOREM ExitHolds == Spec => []ExitIsNewest
<1>1. Init => Inv /\ RecordInv
  BY InitHolds, InitRanks
<1>2. Inv /\ RecordInv /\ [Next]_vars => (Inv /\ RecordInv)'
  BY StepHolds, RecordsHold
<1>3. Inv /\ RecordInv => ExitIsNewest
  BY NewestIsPicked
<1> QED BY <1>1, <1>2, <1>3, PTL DEF Spec
=============================================================================

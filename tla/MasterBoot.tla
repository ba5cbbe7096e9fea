----------------------------- MODULE MasterBoot -----------------------------
(***************************************************************************)
(* Which firmware the master starts: two OTA slots and the factory slot    *)
(* with the rescue image, the otadata that chooses between them            *)
(* (the bootloader of ESP-IDF with rollback), the confirmation of a new    *)
(* image (Master/OtaService.cpp), the boot guard that counts crashes       *)
(* (BootGuard.cpp), updates over the network, and the rescue image with    *)
(* its way out (Rescue/RescueWeb.cpp).                                     *)
(***************************************************************************)
EXTENDS FactorySlot

CONSTANTS
  Images,      \* firmware of the master
  Bad,         \* images that crash before they are confirmed
  Flaky,       \* images that crash afterwards, before they have run for 30 minutes
  Limit,       \* BOOT_GUARD_CRASH_LIMIT
  MaxUpdates,  \* bound: writes of an OTA slot, installs of a rescue image, releases
  MaxFaults    \* bound: power losses, brownouts, crashes of a sound image

ASSUME BootIsConfigured ==
  /\ Images \cap {"none"} = {} /\ Bad \subseteq Images /\ Flaky \subseteq Images \ Bad
  /\ Limit \in Nat \ {0} /\ MaxUpdates \in Nat /\ MaxFaults \in Nat

VARIABLES
  slots,    \* what app0 and app1 hold
  ota,      \* otadata: the entry in force and the one before it
  rec,      \* slotRec0 and slotRec1 in NVS: a sequence number and the image it is of
  crashes,  \* guardRecord
  cpu,      \* what runs and where it is, or why there was a reset
  upload,   \* the session that writes an OTA slot
  reboot,   \* pendingReboot
  pinned,   \* slotRecMatches: the images that the rescue image took the records for
  last,     \* history: the image that last was up, and its slot
  erasedBy, \* history: who erased otadata, until something is armed
  updates, faults

counters == <<updates, faults>>
bootVars == <<slots, ota, rec, crashes, cpu, upload, reboot, pinned, last,
              erasedBy, counters>>
vars == <<bootVars, slotVars>>

Slots   == {0, 1}
Rescue  == 2      \* the factory slot, among what the bootloader may start
Nothing == 3
Absent  == [slot |-> 0, state |-> "none"]
Entries == [slot : Slots, state : {"new", "pending", "valid", "none"}]
NoRec   == [seq |-> 0, image |-> "none"]
Other(s) == 1 - s
NoUpload == [at |-> "none", image |-> "none", by |-> "web"]

Init ==
  /\ slots \in {[s \in Slots |-> IF s = 0 THEN i ELSE "none"] : i \in Images \ (Bad \cup Flaky)}
  /\ ota = [now |-> [slot |-> 0, state |-> "valid"], before |-> Absent]
  /\ rec = [s \in Slots |-> NoRec] /\ crashes = 0
  /\ cpu = [at |-> "reset", slot |-> 0, why |-> "power"]
  /\ upload = NoUpload /\ reboot = FALSE
  /\ pinned = [s \in Slots |-> "none"]
  /\ last = [slot |-> 0, image |-> "none"]
  /\ erasedBy = "nobody"
  /\ updates = 0 /\ faults = 0
  /\ factory \in Rescues \cup {"none"} /\ install = NoInstall /\ web = NoWeb /\ rel = NoRel
  /\ recF = NoRecord /\ facts = FactsOf("none", NoRecord) /\ due = "none"

-----------------------------------------------------------------------------
(* The bootloader *)

Kept(e)  == IF e.state = "pending" THEN Absent ELSE e     \* a trial that was not confirmed
Trial(e) == IF e.state = "new" THEN [e EXCEPT !.state = "pending"] ELSE e
\* What it makes of otadata: the entry of before counts when the one in force does not.
Settled(o) ==
  IF Kept(o.now).state # "none"
  THEN [now |-> Trial(Kept(o.now)), before |-> Kept(o.before)]
  ELSE [now |-> Trial(Kept(o.before)), before |-> Absent]

Starts(s) == IF s = Rescue THEN Verified ELSE slots[s] # "none"
\* The one that is chosen, or else down to the factory slot and then up.
Order(o) ==
  IF o.now.state = "none" THEN <<Rescue, 0, 1>>
  ELSE IF o.now.slot = 0 THEN <<0, Rescue, 1>> ELSE <<1, 0, Rescue>>
Started(o) ==
  LET order == Order(o) IN
  IF Starts(order[1]) THEN order[1]
  ELSE IF Starts(order[2]) THEN order[2]
  ELSE IF Starts(order[3]) THEN order[3] ELSE Nothing

Resets(why) ==
  /\ cpu' = [cpu EXCEPT !.at = "reset", !.why = why]
  /\ upload' = NoUpload /\ reboot' = FALSE /\ SlotForgets

Bootloader ==
  /\ cpu.at = "reset" /\ ota' = Settled(ota)
  /\ LET s == Started(ota') IN
       /\ cpu' = [cpu EXCEPT !.slot = IF s \in Slots THEN s ELSE @,
                    !.at = IF s \in Slots THEN "guard" ELSE IF s = Rescue THEN "rescue"
                           ELSE "nothing"]
       /\ pinned' = [t \in Slots |-> IF s = Rescue /\ rec[t].image = slots[t] THEN slots[t]
                                    ELSE "none"]
  /\ UNCHANGED <<slots, rec, crashes, upload, reboot, last, erasedBy, counters,
                 slotVars>>

-----------------------------------------------------------------------------
(* The start of the master *)

Least(a, b) == IF a < b THEN a ELSE b
\* Mutant: the count is not capped.
CountOn(n, why) == IF why = "power" THEN 0 ELSE IF why = "crash" THEN n + 1 ELSE n
\* bootGuardStep.  Above the limit the count makes no difference.
Count(n, why) ==
  IF why = "power" THEN 0 ELSE IF why = "crash" THEN Least(n + 1, Limit) ELSE n

ErasesOtadata(who) == ota' = [now |-> Absent, before |-> Absent] /\ erasedBy' = who

\* Mutant: the descriptor is enough.
GuardDescriptor ==
  /\ cpu.at = "guard" /\ crashes' = Count(crashes, cpu.why)
  /\ IF crashes' >= Limit /\ Valid
     THEN ErasesOtadata("guard") /\ cpu' = [cpu EXCEPT !.at = "tripped"]
     ELSE cpu' = [cpu EXCEPT !.at = "init"] /\ UNCHANGED <<ota, erasedBy>>
  /\ UNCHANGED <<slots, rec, upload, reboot, pinned, last, counters, slotVars>>
\* bootGuardBoot: at the limit otadata is erased, if the rescue image starts.
Guard ==
  /\ cpu.at = "guard" /\ crashes' = Count(crashes, cpu.why)
  /\ IF crashes' >= Limit /\ Verified
     THEN ErasesOtadata("guard") /\ cpu' = [cpu EXCEPT !.at = "tripped"]
     ELSE cpu' = [cpu EXCEPT !.at = "init"] /\ UNCHANGED <<ota, erasedBy>>
  /\ UNCHANGED <<slots, rec, upload, reboot, pinned, last, counters, slotVars>>

GuardRestarts ==
  /\ cpu.at = "tripped" /\ crashes' = 0 /\ Resets("restart")
  /\ UNCHANGED <<slots, ota, rec, pinned, last, erasedBy, counters>>

\* otaHealthConfirm, first the entry of the image that is on trial ...
OnTrial == ota.now.slot = cpu.slot /\ ota.now.state = "pending"
Confirms ==
  /\ cpu.at = "init" /\ slots[cpu.slot] \notin Bad
  /\ ota' = IF OnTrial THEN [ota EXCEPT !.now.state = "valid"] ELSE ota
  /\ cpu' = [cpu EXCEPT !.at = "record"]
  /\ UNCHANGED <<slots, rec, crashes, upload, reboot, pinned, last, erasedBy,
                 counters, slotVars>>

\* Mutant: a record of this image stands, whatever came after it.
StandsAlone(mine, other, image) == mine.image = image
\* ... then ensureSlotRecord; setup goes on to rescueSlotRefresh and the network.
Stands(mine, other, image) == mine.image = image /\ (other.seq = 0 \/ mine.seq > other.seq)
NextSeq == 1 + IF rec[0].seq > rec[1].seq THEN rec[0].seq ELSE rec[1].seq
EnsuresRecord ==
  /\ cpu.at = "record" /\ cpu' = [cpu EXCEPT !.at = "up"]
  /\ rec' = IF Stands(rec[cpu.slot], rec[Other(cpu.slot)], slots[cpu.slot]) THEN rec
            ELSE [rec EXCEPT ![cpu.slot] = [seq |-> NextSeq, image |-> slots[cpu.slot]]]
  /\ last' = [slot |-> cpu.slot, image |-> slots[cpu.slot]]
  /\ UNCHANGED <<slots, ota, crashes, upload, reboot, pinned, erasedBy, counters>>
  /\ SlotRefreshes

\* Mutant: whatever comes up is forgiven.
ForgivesAtOnce ==
  /\ cpu.at = "up" /\ crashes # 0 /\ crashes' = 0
  /\ UNCHANGED <<slots, ota, rec, cpu, upload, reboot, pinned, last, erasedBy, counters,
                 slotVars>>
\* bootGuardTick: 30 minutes without a crash.
Forgives ==
  /\ cpu.at = "up" /\ slots[cpu.slot] \notin Flaky /\ crashes # 0
  /\ crashes' = 0
  /\ UNCHANGED <<slots, ota, rec, cpu, upload, reboot, pinned, last, erasedBy, counters,
                 slotVars>>

InMaster == cpu.at \in {"guard", "tripped", "init", "record", "up"}
Crashing == \/ cpu.at = "init" /\ slots[cpu.slot] \in Bad
            \/ cpu.at = "up" /\ slots[cpu.slot] \in Flaky
Crash ==
  /\ Crashing /\ Resets("crash")
  /\ UNCHANGED <<slots, ota, rec, crashes, pinned, last, erasedBy, counters>>

\* A sound image crashes once in a while, too.
Stumble ==
  /\ InMaster /\ ~Crashing /\ faults < MaxFaults /\ faults' = faults + 1
  /\ Resets("crash")
  /\ UNCHANGED <<slots, ota, rec, crashes, pinned, last, erasedBy, updates>>

\* A brownout, or the plug: RTC memory holds garbage afterwards.
PowerGoes ==
  /\ cpu.at \notin {"reset", "nothing"} /\ faults < MaxFaults /\ faults' = faults + 1
  /\ \/ Resets("brownout") /\ UNCHANGED crashes
     \/ Resets("power") /\ crashes' = 0
  /\ UNCHANGED <<slots, ota, rec, pinned, last, erasedBy, updates>>

\* GPIO 4 held through a reset: the bootloader erases otadata.
PinHeld ==
  /\ cpu.at = "reset" /\ faults < MaxFaults /\ faults' = faults + 1
  /\ ErasesOtadata("asked")
  /\ UNCHANGED <<slots, rec, crashes, cpu, upload, reboot, pinned, last, updates,
                 slotVars>>

\* The drain: 750 ms after what asked for it.
Reboots ==
  /\ reboot /\ Resets("restart")
  /\ UNCHANGED <<slots, ota, rec, crashes, pinned, last, erasedBy, counters>>

-----------------------------------------------------------------------------
(* Writing an OTA slot: one Update session, of an upload or of a release.  *)

Serves == cpu.at \in {"up", "rescue"}
\* Mutant: always the first slot.
TargetFirst == 0
\* esp_ota_get_next_update_partition.
Target == IF cpu.at = "rescue" THEN 0 ELSE Other(cpu.slot)
\* esp_ota_set_boot_partition.
Armed(t) == [now    |-> [slot |-> t, state |-> "new"],
             before |-> IF ota.now.state = "none" THEN Absent ELSE ota.now]
Arms(t) == ota' = Armed(t) /\ erasedBy' = "nobody" /\ reboot' = TRUE

otherBoot == <<rec, crashes, cpu, pinned, last, erasedBy, faults>>

\* Refused while a release is installed; a release is refused while an upload runs.
UploadBegins ==
  /\ Serves /\ ~ReleaseRunning /\ upload.at = "none" /\ updates < MaxUpdates
  /\ updates' = updates + 1
  /\ \E i \in Images : upload' = [at |-> "open", image |-> i, by |-> "web"]
  /\ UNCHANGED <<otherBoot, slots, ota, reboot, slotVars>>
ReleaseBegins ==
  /\ cpu.at = "up" /\ rel.at = "master" /\ upload.at = "none" /\ updates < MaxUpdates
  /\ updates' = updates + 1
  /\ \E i \in Images : upload' = [at |-> "open", image |-> i, by |-> "rel"]
  /\ UNCHANGED <<otherBoot, slots, ota, reboot, slotVars>>
\* The first piece; the header of the image is held back until the end.
UploadWipes ==
  /\ upload.at = "open" /\ upload' = [upload EXCEPT !.at = "wiped"]
  /\ slots' = [slots EXCEPT ![Target] = "none"]
  /\ UNCHANGED <<otherBoot, ota, reboot, updates, slotVars>>
\* Update.end: the image is checked and written whole.
UploadWhole ==
  /\ upload.at = "wiped" /\ upload' = [upload EXCEPT !.at = "whole"]
  /\ slots' = [slots EXCEPT ![Target] = upload.image]
  /\ UNCHANGED <<otherBoot, ota, reboot, updates, slotVars>>
UploadArms ==
  /\ upload.at = "whole" /\ Arms(Target) /\ upload' = NoUpload
  /\ rel' = IF upload.by = "rel" THEN [rel EXCEPT !.at = "done"] ELSE rel
  /\ UNCHANGED <<rec, crashes, cpu, pinned, last, faults, slots, updates, factory,
                 install, web, recF, facts, due>>
\* A bad piece, a stall of 30 s, a client that is gone, a download that breaks off.
UploadFails ==
  /\ upload.at \in {"open", "wiped"} /\ upload' = NoUpload
  /\ rel' = IF upload.by = "rel" THEN NoRel ELSE rel
  /\ UNCHANGED <<otherBoot, slots, ota, reboot, updates, factory, install, web, recF, facts,
                 due>>

-----------------------------------------------------------------------------
(* The rescue image: how it is put in place, entered and left *)

restOfBoot == <<slots, rec, crashes, cpu, pinned, last, counters, upload>>

\* POST /firmware/rescue-boot; the descriptor is enough here.
RescueBoot ==
  /\ cpu.at = "up" /\ ~InProgress /\ ~ReleaseRunning /\ Valid
  /\ ErasesOtadata("asked") /\ reboot' = TRUE
  /\ UNCHANGED <<restOfBoot, slotVars>>

RescueComes ==
  /\ cpu.at = "up" /\ updates < MaxUpdates /\ updates' = updates + 1
  /\ WebBegins \/ (ReleaseAsked /\ upload.at = "none")
  /\ UNCHANGED <<slots, ota, rec, crashes, cpu, upload, reboot, pinned, last,
                 erasedBy, faults>>
\* A stream is not done within the time that a restart that is asked for takes.
RescueGoesOn == cpu.at = "up" /\ SlotStep /\ (reboot => web.pos < Last /\ rel.pos < Last)
                /\ UNCHANGED bootVars

\* pickExitSlot; slots without a record are ranked by a stamp that may say either.
Confirmed(s) == slots[s] # "none" /\ pinned[s] # "none"
Exits ==
  IF slots[0] # "none" /\ slots[1] # "none"
  THEN IF Confirmed(0) /\ Confirmed(1) THEN {IF rec[1].seq > rec[0].seq THEN 1 ELSE 0}
       ELSE IF Confirmed(0) \/ Confirmed(1) THEN {s \in Slots : Confirmed(s)} ELSE Slots
  ELSE {s \in Slots : slots[s] # "none"}
RescueExit ==
  /\ cpu.at = "rescue" /\ upload.at = "none" /\ \E s \in Exits : Arms(s)
  /\ UNCHANGED <<restOfBoot, slotVars>>

-----------------------------------------------------------------------------
Next ==
  \/ Bootloader \/ Guard \/ GuardRestarts \/ Confirms \/ EnsuresRecord \/ Forgives
  \/ Crash \/ Stumble \/ PowerGoes \/ PinHeld \/ Reboots
  \/ UploadBegins \/ ReleaseBegins \/ UploadWipes \/ UploadWhole \/ UploadArms
  \/ UploadFails \/ RescueBoot \/ RescueComes \/ RescueGoesOn \/ RescueExit

Spec == Init /\ [][Next]_vars

\* The board starts, checks, crashes and restarts by itself; people need not come.
FairSpec ==
  /\ Spec /\ WF_vars(Bootloader) /\ WF_vars(Guard) /\ WF_vars(GuardRestarts)
  /\ WF_vars(Confirms) /\ WF_vars(EnsuresRecord) /\ WF_vars(Crash) /\ WF_vars(Reboots)

-----------------------------------------------------------------------------
Held2 == Images \cup {"none"}
Cpus == [at : {"reset", "guard", "tripped", "init", "record", "up", "rescue", "nothing"},
         slot : Slots, why : {"power", "brownout", "crash", "restart"}]
Otas == [now : Entries, before : Entries]
Uploads == [at : {"none", "open", "wiped", "whole"}, image : Held2, by : {"web", "rel"}]
SlotRecs == [seq : Nat, image : Held2]
Lasts == [slot : Slots, image : Held2]

\* What the variables are.
TypeOK ==
  /\ slots \in [Slots -> Held2] /\ ota \in Otas /\ rec \in [Slots -> SlotRecs]
  /\ crashes \in 0..Limit /\ cpu \in Cpus /\ upload \in Uploads /\ reboot \in BOOLEAN
  /\ pinned \in [Slots -> Held2] /\ last \in Lasts
  /\ erasedBy \in {"nobody", "asked", "guard"}
  /\ updates \in 0..MaxUpdates /\ faults \in 0..MaxFaults
  /\ SlotTypeOK

\* While a stream is written to the factory slot nothing there can be taken for an image,
\* whoever writes and wherever it is cut off (FactorySlot.h: a torn or in-flight image
\* reads invalid).
HeaderHeldBack == install.open /\ install.erased => factory = "none"

\* An update, however it ends, a trial, a rescue image installed or entered and a guard
\* that trips leave the board something that it starts.
SomethingStarts ==
  /\ cpu.at # "nothing"
  /\ cpu.at = "reset" => Verified \/ \E s \in Slots : slots[s] # "none"

\* From the guard's erase of otadata until something else is armed there is a rescue image
\* that starts instead, through any resets (BootGuard.cpp: a slot that would not start is
\* no way out).
GuardHasAWayOut == erasedBy = "guard" => Verified

\* The way out of the rescue image leads to the image that was up last, if it is still in
\* its slot and its record was found current at the start (#586).
ExitIsNewest ==
  /\ cpu.at = "rescue" /\ last.image # "none"
  /\ slots[last.slot] = last.image /\ pinned[last.slot] = last.image
  /\ \A s \in Slots : pinned[s] \in {slots[s], "none"}
  => Exits = {last.slot}

\* What is up is not on trial any more: the next reset comes back to it.
UpIsConfirmed == cpu.at = "up" /\ ota.now.slot = cpu.slot => ota.now.state # "pending"

\* A board that has a rescue image that starts does not crash for ever: again and again it
\* runs an image that does not crash, or the rescue image that can replace it.
NeverStuck ==
  []<>(\/ cpu.at = "rescue" \/ ~Verified
       \/ cpu.at = "up" /\ slots[cpu.slot] \notin Flaky)
=============================================================================

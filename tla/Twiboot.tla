------------------------------ MODULE Twiboot ------------------------------
(***************************************************************************)
(* One unit of a row as the bus sees it (UnitBootloader/main.c and the     *)
(* resets of Unit/Unit.ino): the pages of its program, its bootloader with *)
(* the window after a reset, the pin of a command and the crash record,    *)
(* and what each transaction does to it.  The unit's record is part of the *)
(* state of the module that uses this one.                                 *)
(*                                                                         *)
(* "fielded" is the bootloader of the first generation: it keeps no crash  *)
(* record and a command pins it for ever.  The second generation leaves    *)
(* the pin after SF_PIN_TIMEOUT_MS and waits for good after Threshold      *)
(* watchdog resets in a row.                                               *)
(***************************************************************************)
EXTENDS Naturals

CONSTANTS
  LastPage,   \* the image has the pages 0 .. LastPage
  Threshold   \* CRASH_REC_THRESHOLD

ASSUME ImageHasPages == LastPage \in Nat \ {0} /\ Threshold \in Nat \ {0}

Pages    == 0..LastPage
Images   == {"old", "new"}
Contents == Images \cup {"hold",    \* twibootFillHoldPage: it makes a watchdog reset
                         "blank",   \* erased
                         "junk"}    \* garbled on its way

\* The page write that the bootloader does once more, to the next page, when it is
\* called by its bare address: cmd and addr outlive a write.
Latches == [to : Pages, what : Contents]
NoLatch == [to |-> 0, what |-> "blank"]   \* no write goes on to page 0

InBoot == {"window",   \* the second after a reset
           "pinned",   \* a command was heard
           "waits"}    \* app_installed = 0: it never starts the program by itself

UnitRecs == [page : [Pages -> Contents], at : InBoot \cup {"app", "leaving"},
             crashes : 0..Threshold, latch : Latches, fielded : BOOLEAN]

-----------------------------------------------------------------------------
IsWhole(u, image) == \A p \in Pages : u.page[p] = image

Answering(u) == u.at \in InBoot
Held(u) == ~u.fielded /\ u.crashes >= Threshold

\* Mutant: the count of watchdog resets does not stop at the threshold.
ResetUncapped(u, byWatchdog) ==
  LET count == IF u.fielded \/ ~byWatchdog THEN 0 ELSE u.crashes + 1
  IN  [u EXCEPT !.crashes = count, !.latch = NoLatch,
                !.at = IF u.page[0] = "blank" \/ count >= Threshold THEN "waits" ELSE "window"]

\* A reset enters the bootloader; only a watchdog reset carries the crash count on.
Reset(u, byWatchdog) ==
  LET count == IF u.fielded \/ ~byWatchdog THEN 0
               ELSE IF u.crashes < Threshold THEN u.crashes + 1 ELSE Threshold
  IN  [u EXCEPT !.crashes = count, !.latch = NoLatch,
                !.at = IF u.page[0] = "blank" \/ count >= Threshold THEN "waits" ELSE "window"]

\* The jump to address 0.  Erased flash runs on into the bootloader, and the hold page
\* is back there by the watchdog after 16 ms.
Jump(u) ==
  CASE u.page[0] = "blank" -> [u EXCEPT !.at = "waits", !.crashes = 0, !.latch = NoLatch]
    [] u.page[0] = "hold"  -> Reset(u, TRUE)
    [] OTHER               -> [u EXCEPT !.at = "app", !.latch = NoLatch]

\* The bare address with no byte after it: nothing but a latched page write.
Called(u) ==
  IF u.latch = NoLatch THEN u
  ELSE [u EXCEPT !.page[u.latch.to] = u.latch.what,
                 !.latch = IF u.latch.to < LastPage THEN [u.latch EXCEPT !.to = @ + 1] ELSE NoLatch]

\* A transaction that begins with a command of the bootloader, read or not.
Commanded(u) ==
  [u EXCEPT !.at = IF @ = "window" THEN "pinned" ELSE @, !.latch = NoLatch]

\* A transaction that begins with any other byte, an opcode of the sketch for one:
\* "boot app now".
Misaddressed(u) == Jump(u)

Written(u, p, what) ==
  [Commanded(u) EXCEPT !.page[p] = what,
                       !.latch = IF p < LastPage THEN [to |-> p + 1, what |-> what] ELSE NoLatch]

\* SWITCH_APPLICATION: the crash record is invalidated first.
Switched(u) == Jump([u EXCEPT !.crashes = 0])

\* The sketch took the order to restart: it clears the crash record and waits for
\* the watchdog.
Leaving(u) == [u EXCEPT !.at = "leaving", !.crashes = 0]
=============================================================================

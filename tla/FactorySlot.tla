---------------------------- MODULE FactorySlot ----------------------------
(***************************************************************************)
(* The rescue image in the factory slot of the master (Master/             *)
(* FactorySlot.cpp): the one writer that an upload and an update from a    *)
(* release share, and what the master keeps of what the slot holds.        *)
(*                                                                         *)
(* A stream has two pieces, the one with the header sector and the rest.   *)
(* The header is held back until the stream has been checked.              *)
(***************************************************************************)
EXTENDS Integers

CONSTANTS
  Rescues,        \* rescue images
  Unsound,        \* those that have a descriptor and do not verify
  ReleaseRescue   \* the one of the release

ASSUME RescuesAreNamed ==
  /\ Unsound \subseteq Rescues /\ ReleaseRescue \in Rescues \ Unsound
  /\ Rescues \cap {"none", "mix", "unnamed"} = {}

VARIABLES
  factory,  \* what the slot holds: an image, nothing that starts, or a mixture
  install,  \* the writer: target, lastError, cursor, callerChecks, what it was given so far
  web,      \* the request that uploads: rescueOwnerRequest and its own offset
  rel,      \* the update from a release: its step and its own offset
  recF,     \* the record of the slot in NVS: the image it is of and the rev it says
  facts,    \* rescueFacts, the cached verdict: is there an image, and its rev
  due       \* pendingRescueRecord with its pendingRescueRev, which may be "unnamed"

slotVars == <<factory, install, web, rel, recF, facts, due>>

Held == Rescues \cup {"none", "mix"}
Last == 2   \* the length of a stream

Installs == [open : BOOLEAN, error : BOOLEAN, stale : BOOLEAN, checks : BOOLEAN, erased : BOOLEAN,
             cursor : 0..Last, head : Held, body : Held]
Webs     == [on : BOOLEAN, pos : 0..Last, took : BOOLEAN, image : Rescues]
Rels     == [at : {"idle", "look", "rescue", "master", "done"}, pos : 0..Last]
Records  == [of : Held, rev : Rescues \cup {"none"}]
Facts    == [valid : BOOLEAN, rev : Rescues \cup {"none"}]

NoInstall == [open |-> FALSE, error |-> FALSE, stale |-> FALSE, checks |-> FALSE, erased |-> FALSE,
              cursor |-> 0, head |-> "none", body |-> "none"]
NoWeb     == [on |-> FALSE, pos |-> 0, took |-> FALSE, image |-> ReleaseRescue]
NoRel     == [at |-> "idle", pos |-> 0]
NoRecord  == [of |-> "none", rev |-> "none"]

-----------------------------------------------------------------------------
Verified == factory \in Rescues \ Unsound     \* factorySlotImageVerified
Valid    == factory # "none"                  \* factorySlotImageValid: its descriptor
InProgress     == install.open /\ ~install.stale
ReleaseRunning == rel.at # "idle"

\* computeRescueSlotFacts, on what the slot and the record are by then.
FactsOf(held, record) ==
  [valid |-> held # "none",
   rev   |-> IF held # "none" /\ record.of = held THEN record.rev ELSE "none"]

\* A reset: only the slot and the record stay.
SlotForgets ==
  /\ install' = NoInstall /\ web' = NoWeb /\ rel' = NoRel /\ due' = "none"
  /\ facts' = FactsOf("none", NoRecord) /\ UNCHANGED <<factory, recF>>
\* rescueSlotRefresh in setup.
SlotRefreshes ==
  facts' = FactsOf(factory, recF) /\ UNCHANGED <<factory, install, web, rel, recF, due>>

Begins(checks) == install' = [NoInstall EXCEPT !.open = TRUE, !.checks = checks]

\* fail: what was touched is left without a header.
Fails == /\ install' = [install EXCEPT !.open = FALSE, !.error = TRUE]
         /\ factory' = IF install.erased THEN "none" ELSE factory

\* After an error nothing is taken, be the install open or not.
Takes == install.open /\ ~install.error

\* Mutant: the header is written as it comes.
AcceptsAtOnce(image, pos) ==
  /\ Takes /\ pos = install.cursor
  /\ factory' = IF pos = 0 THEN "mix" ELSE factory
  /\ install' = [install EXCEPT !.cursor = pos + 1, !.stale = FALSE, !.erased = TRUE,
                   !.head = IF pos = 0 THEN image ELSE @,
                   !.body = IF pos = 0 THEN @ ELSE image]
\* factoryWriteChunk, by whoever comes with a piece of its stream.  A piece that is out of
\* place fails the install; so does a file that is no image, or a flash error.
Accepts(image, pos) ==
  /\ Takes /\ pos = install.cursor
  /\ factory' = IF pos = 0 THEN "none" ELSE factory
  /\ install' = [install EXCEPT !.cursor = pos + 1, !.stale = FALSE, !.erased = TRUE,
                   !.head = IF pos = 0 THEN image ELSE @,
                   !.body = IF pos = 0 THEN @ ELSE image]
Rejects == Takes /\ Fails
Ignores == ~Takes /\ UNCHANGED <<factory, install>>

\* factoryWriteEnd: the digest is that of every piece that was taken.
Whole == install.cursor = Last /\ install.head = install.body
Commits ==
  /\ Takes /\ install.cursor > 0 /\ (install.checks \/ Whole)
  /\ factory' = IF Whole THEN install.head ELSE "mix"
  /\ install' = [install EXCEPT !.open = FALSE]

-----------------------------------------------------------------------------
(* An upload *)

WebBegins ==
  /\ ~InProgress /\ ~ReleaseRunning
  /\ \E r \in Rescues : web' = [NoWeb EXCEPT !.on = TRUE, !.image = r]
  /\ Begins(FALSE) /\ UNCHANGED <<factory, rel, recF, facts, due>>

WebWrites ==
  /\ web.on /\ web.pos < Last
  /\ \/ Accepts(web.image, web.pos) /\ web' = [web EXCEPT !.pos = @ + 1, !.took = TRUE]
     \/ (Rejects \/ Ignores) /\ web' = [web EXCEPT !.pos = @ + 1, !.took = FALSE]
  /\ UNCHANGED <<rel, recF, facts, due>>

\* The last piece is followed by factoryWriteEnd, if it was taken, and the answer.  When
\* the writer has no error by then, whosever stream it took, the record is asked for, with
\* the rev the request named or with none, unless the client is gone.
WebEnds ==
  /\ web.on /\ web.pos = Last /\ web' = NoWeb
  /\ IF web.took THEN Commits \/ Rejects \/ Ignores ELSE UNCHANGED <<factory, install>>
  /\ due' \in IF install'.error THEN {due} ELSE {web.image, "unnamed", due}
  /\ UNCHANGED <<rel, recF, facts>>

WebGone ==
  /\ web.on /\ web' = NoWeb /\ UNCHANGED <<factory, install, rel, recF, facts, due>>

\* INSTALL_STALE_MS without a piece.
Stalls ==
  /\ InProgress /\ install' = [install EXCEPT !.stale = TRUE]
  /\ UNCHANGED <<factory, web, rel, recF, facts, due>>

-----------------------------------------------------------------------------
(* The worker: an update from a release, up to its rescue image *)

relRest == <<web, recF, facts>>

\* webStartRelease, as far as it looks at the rescue slot.
ReleaseAsked ==
  /\ rel.at = "idle" /\ ~InProgress
  /\ rel' = [NoRel EXCEPT !.at = "look"]
  /\ UNCHANGED <<factory, install, web, recF, facts, due>>

\* beginInstall refuses a second install, and leaves its refusal in lastError: the one
\* that is under way takes nothing from then on.
ReleaseStartsRescue ==
  /\ rel.at = "look" /\ facts.rev # ReleaseRescue
  /\ \/ ~InProgress /\ Begins(TRUE) /\ rel' = [at |-> "rescue", pos |-> 0]
     \/ InProgress /\ rel' = NoRel /\ install' = [install EXCEPT !.error = TRUE]
  /\ UNCHANGED <<relRest, factory, due>>
ReleaseSkipsRescue ==
  /\ rel.at = "look" /\ facts.rev = ReleaseRescue /\ rel' = [rel EXCEPT !.at = "master"]
  /\ UNCHANGED <<relRest, factory, install, due>>

\* A piece is downloaded and written, or the download breaks off; then the writer is
\* given up, by fail or by factoryWriteAbort.
ReleaseWrites ==
  /\ rel.at = "rescue" /\ rel.pos < Last
  /\ \/ Accepts(ReleaseRescue, rel.pos) /\ rel' = [rel EXCEPT !.pos = @ + 1]
     \/ (Rejects \/ Ignores) /\ rel' = NoRel
  /\ UNCHANGED <<relRest, due>>
ReleaseCommits ==
  /\ rel.at = "rescue" /\ rel.pos = Last
  /\ \/ Commits /\ due' = ReleaseRescue /\ rel' = [at |-> "master", pos |-> 0]
     \/ (Rejects \/ Ignores) /\ rel' = NoRel /\ UNCHANGED due
  /\ UNCHANGED relRest
\* The look fails, or there is nothing newer.
LookFails ==
  /\ rel.at = "look" /\ rel' = NoRel /\ UNCHANGED <<relRest, factory, install, due>>

-----------------------------------------------------------------------------
\* The drain of webEndpointsLoop: rescueSlotRecordInstall; there is no digest of what does
\* not verify, and no record of what has no name.
RecordsInstall ==
  /\ due # "none" /\ due' = "none"
  /\ IF ~Verified THEN recF' = recF
     ELSE recF' = IF due = "unnamed" THEN NoRecord ELSE [of |-> factory, rev |-> due]
  /\ facts' = FactsOf(factory, recF')
  /\ UNCHANGED <<factory, install, web, rel>>

(* The steps that go on by themselves; what begins them is asked for.      *)
SlotStep ==
  \/ WebWrites \/ WebEnds \/ WebGone \/ Stalls
  \/ ReleaseStartsRescue \/ ReleaseSkipsRescue \/ ReleaseWrites
  \/ ReleaseCommits \/ LookFails \/ RecordsInstall

SlotTypeOK ==
  /\ factory \in Held /\ install \in Installs /\ web \in Webs /\ rel \in Rels
  /\ recF \in Records /\ facts \in Facts /\ due \in Rescues \cup {"none", "unnamed"}
=============================================================================

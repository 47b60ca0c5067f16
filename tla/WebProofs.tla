----------------------------- MODULE WebProofs ------------------------------
(***************************************************************************)
(* Theorems about Web, for every set of uploads and every size of the       *)
(* buffers: whatever fails and whenever the power goes, the device keeps a  *)
(* firmware it can start, and no way out of an update leaves its lock or    *)
(* its handle behind; the total of the store is that of its pages; and      *)
(* however an upload is cut into chunks, the decoder follows the format of  *)
(* the stream and what is flashed is what was sent.                         *)
(***************************************************************************)
EXTENDS Web, FiniteSetTheorems, SequenceTheorems, WellFoundedInduction, TLAPS

Firmware == {u.firmware : u \in Upload} \cup {"none", "works"}
Image == [firmware : Firmware, whole : BOOLEAN,
          state : {"none", "valid", "new", "pending", "aborted"}]

\* A slot whose firmware has confirmed itself.
Confirmed(s) == slot[s].whole /\ slot[s].state = "valid" /\ slot[s].firmware = "works"

SlotsOK ==
  /\ slot \in [0 .. 1 -> Image] /\ {boot, running} \subseteq 0 .. 1
  /\ upload.firmware \in Firmware

\* The running firmware has confirmed itself, or it is on its one trial and
\* the other one has.
RunningOK ==
  \/ Confirmed(running)
  \/ /\ slot[running].whole /\ slot[running].state = "pending"
     /\ Confirmed(Other(running))

\* The boot data select the running slot, but between the end of an update and
\* the restart, when they select the new firmware, which is whole.
BootOK ==
  \/ boot = running
  \/ /\ pc = "restart" /\ Confirmed(running)
     /\ boot = Other(running) /\ slot[boot].whole /\ slot[boot].state = "new"

\* An update writes beside a confirmed firmware (esp_ota_begin refuses otherwise).
Working == {"feed", "write", "read", "end"}
UpdateOK ==
  /\ pc \in Working \cup {"setBoot"} => Confirmed(running)
  /\ pc = "setBoot" => slot[Other(running)].whole

\* Where no handle is open.
HandleOK == pc \in {"idle", "magic", "setBoot", "restart"} => flash = Closed

LockOK == pc = "idle" => ~otaLock

Inv == SlotsOK /\ RunningOK /\ BootOK /\ UpdateOK /\ HandleOK /\ LockOK
-----------------------------------------------------------------------------
(* What the steps of a handler come to.                                    *)

\* Nothing of the slots changes.
Proceed ==
  /\ pc \in Working /\ pc' \in Working
  /\ UNCHANGED <<upload, otaLock, bootVars>>

LEMMA Slots == 0 .. 1 = {0, 1} /\ Other(0) = 1 /\ Other(1) = 0
BY DEF Other

LEMMA InvInit == Init => Inv
<1>. SUFFICES ASSUME Init PROVE Inv
  OBVIOUS
<1>. USE Slots DEF Init, OtaInit
<1>1. SlotsOK /\ Confirmed(0) /\ running = 0 /\ boot = 0
  BY DEF SlotsOK, Confirmed, Image, Firmware, NoUpload
<1>. QED
  BY <1>1 DEF Inv, RunningOK, BootOK, UpdateOK, HandleOK, LockOK, Working

\* Every error path that leaves the handle closed.
LEMMA ReturnKeepsInv ==
  ASSUME Inv, pc # "restart", Return, UNCHANGED bootVars, flash' = Closed
  PROVE  Inv'
<1>1. SlotsOK'
  BY DEF Inv, SlotsOK, Return, bootVars, NoUpload, Firmware
<1>2. RunningOK'
  BY DEF Inv, RunningOK, Confirmed, bootVars
<1>3. BootOK' /\ UpdateOK' /\ HandleOK' /\ LockOK'
  BY DEF Inv, BootOK, UpdateOK, HandleOK, LockOK, Return, bootVars, Working
<1>. QED
  BY <1>1, <1>2, <1>3 DEF Inv

LEMMA AbortKeepsInv ==
  ASSUME Inv, pc # "restart", Abort
  PROVE  Inv'
BY ReturnKeepsInv DEF Abort

LEMMA ProceedKeepsInv ==
  ASSUME Inv, Proceed
  PROVE  Inv'
<1>1. SlotsOK' /\ RunningOK'
  BY DEF Inv, SlotsOK, RunningOK, Confirmed, Proceed, bootVars
<1>2. BootOK' /\ UpdateOK' /\ HandleOK' /\ LockOK'
  BY DEF Inv, BootOK, UpdateOK, HandleOK, LockOK, Confirmed, Proceed, bootVars, Working
<1>. QED
  BY <1>1, <1>2 DEF Inv
-----------------------------------------------------------------------------
(* The steps one by one.                                                   *)

LEMMA FeedStepMoves == FeedStep => Abort \/ Proceed
<1>. SUFFICES ASSUME FeedStep, ~Abort PROVE Proceed
  OBVIOUS
<1>. QED
  BY DEF FeedStep, Proceed, Working

LEMMA WriteStepMoves == WriteStep => Abort \/ Proceed
BY DEF WriteStep, Proceed, Working, handlerVars

LEMMA ReadStepMoves == ReadStep => Abort \/ Proceed
<1>1. pc = "read" /\ ReadChunk => Proceed
  BY DEF ReadChunk, Proceed, Working
<1>2. pc = "read" /\ Finish => Abort \/ Proceed
  BY DEF Finish, Proceed, Working, handlerVars
<1>. QED
  BY <1>1, <1>2 DEF ReadStep, ReadFails

LEMMA PostKeepsInv ==
  ASSUME Inv, NEW u \in Upload, Post(u)
  PROVE  Inv'
<1>1. SlotsOK' /\ RunningOK'
  BY DEF Inv, SlotsOK, RunningOK, Confirmed, Firmware, Post, bootVars
<1>2. BootOK' /\ UpdateOK' /\ HandleOK' /\ LockOK'
  BY DEF Inv, BootOK, UpdateOK, HandleOK, LockOK, Confirmed, Post, bootVars, Working
<1>. QED
  BY <1>1, <1>2 DEF Inv

LEMMA RefuseKeepsInv ==
  ASSUME Inv, Refuse
  PROVE  Inv'
<1>1. pc # "restart" /\ flash' = Closed /\ Return /\ UNCHANGED bootVars
  BY DEF Inv, HandleOK, Refuse
<1>. QED
  BY <1>1, ReturnKeepsInv

\* The slot that is erased is not the running one, which has confirmed itself.
LEMMA BeginKeepsInv ==
  ASSUME Inv, Begin
  PROVE  Inv'
<1>. DEFINE erased == [firmware |-> upload.firmware, whole |-> FALSE, state |-> "none"]
<1>1. /\ pc = "magic" /\ pc' \in Working /\ slot[running].state # "pending"
      /\ slot' = [slot EXCEPT ![Other(running)] = erased]
      /\ UNCHANGED <<upload, otaLock, boot, running>>
  BY DEF Begin, Working
<1>2. erased \in Image
  BY DEF Inv, SlotsOK, Image
<1>3. Other(running) \in 0 .. 1 /\ Other(running) # running /\ running \in 0 .. 1
  BY Slots DEF Inv, SlotsOK
<1>4. SlotsOK' /\ slot'[running] = slot[running]
  <2>. HIDE DEF erased
  <2>. QED
    BY <1>1, <1>2, <1>3 DEF Inv, SlotsOK
<1>5. Confirmed(running) /\ boot = running
  BY <1>1 DEF Inv, RunningOK, BootOK
<1>6. Confirmed(running)'
  BY <1>1, <1>4, <1>5 DEF Confirmed
<1>. QED
  BY <1>1, <1>4, <1>5, <1>6
     DEF Inv, RunningOK, BootOK, UpdateOK, HandleOK, LockOK, Working

LEMMA FeedEndsMoves == FeedEnds => Proceed
BY DEF FeedEnds, Proceed, Working, handlerVars

\* esp_ota_end: the other slot is whole, or everything is as it was.
LEMMA EndStepKeepsInv ==
  ASSUME Inv, EndStep
  PROVE  Inv'
<1>1. pc = "end" /\ flash' = Closed
  BY DEF EndStep
<1>2. CASE Return /\ UNCHANGED bootVars
  BY <1>1, <1>2, ReturnKeepsInv
<1>3. CASE /\ slot' = [slot EXCEPT ![Other(running)].whole = TRUE]
           /\ pc' = "setBoot" /\ UNCHANGED <<handlerVars, otaLock, boot, running>>
  <2>1. Other(running) \in 0 .. 1 /\ Other(running) # running /\ running \in 0 .. 1
    BY Slots DEF Inv, SlotsOK
  <2>2. /\ slot' \in [0 .. 1 -> Image] /\ slot'[running] = slot[running]
        /\ slot'[Other(running)].whole
    BY <1>3, <2>1 DEF Inv, SlotsOK, Image
  <2>3. Confirmed(running) /\ boot = running
    BY <1>1 DEF Inv, UpdateOK, BootOK, Working
  <2>4. Confirmed(running)' /\ SlotsOK' /\ (slot[Other(running)].whole)'
    BY <1>3, <2>2, <2>3 DEF Confirmed, Inv, SlotsOK, handlerVars
  <2>. QED
    BY <1>1, <1>3, <2>3, <2>4
       DEF Inv, RunningOK, BootOK, UpdateOK, HandleOK, LockOK, Working
<1>. QED
  BY <1>2, <1>3 DEF EndStep

LEMMA SetBootKeepsInv ==
  ASSUME Inv, SetBoot
  PROVE  Inv'
<1>1. pc = "setBoot" /\ flash = Closed /\ Confirmed(running) /\ slot[Other(running)].whole
  BY DEF SetBoot, Inv, HandleOK, UpdateOK
<1>2. CASE Return /\ UNCHANGED <<flash, bootVars>>
  BY <1>1, <1>2, ReturnKeepsInv
<1>3. CASE /\ boot' = Other(running) /\ slot' = [slot EXCEPT ![Other(running)].state = "new"]
           /\ pc' = "restart" /\ UNCHANGED <<handlerVars, flash, otaLock, running>>
  <2>1. Other(running) \in 0 .. 1 /\ Other(running) # running /\ running \in 0 .. 1
    BY Slots DEF Inv, SlotsOK
  <2>2. /\ slot' \in [0 .. 1 -> Image] /\ slot'[running] = slot[running]
        /\ slot'[Other(running)].whole /\ slot'[Other(running)].state = "new"
    BY <1>1, <1>3, <2>1 DEF Inv, SlotsOK, Image
  <2>3. Confirmed(running)' /\ SlotsOK' /\ BootOK'
    BY <1>1, <1>3, <2>1, <2>2 DEF Confirmed, Inv, SlotsOK, BootOK, handlerVars
  <2>. QED
    BY <1>1, <1>3, <2>3 DEF Inv, RunningOK, UpdateOK, HandleOK, LockOK, Working
<1>. QED
  BY <1>2, <1>3 DEF SetBoot

\* The firmware that confirms itself was on trial, so no update is under way.
LEMMA MarkValidKeepsInv ==
  ASSUME Inv, MarkValid
  PROVE  Inv'
<1>1. ~Confirmed(running) /\ boot = running /\ pc \notin Working \cup {"setBoot"}
  BY DEF Inv, MarkValid, Confirmed, BootOK, UpdateOK
<1>2. running \in 0 .. 1 /\ slot[running].whole
  BY <1>1 DEF Inv, SlotsOK, RunningOK
<1>3. /\ slot' \in [0 .. 1 -> Image]
      /\ slot'[running].whole /\ slot'[running].state = "valid"
      /\ slot'[running].firmware = "works"
  BY <1>2 DEF Inv, SlotsOK, MarkValid, Image
<1>4. SlotsOK' /\ Confirmed(running)'
  BY <1>3 DEF SlotsOK, Confirmed, MarkValid, Inv, handlerVars
<1>. QED
  BY <1>1, <1>4 DEF Inv, RunningOK, BootOK, UpdateOK, HandleOK, LockOK, MarkValid, handlerVars

\* The bootloader: a firmware on trial that did not confirm itself is left, a new
\* one gets its trial.
LEMMA RebootKeepsInv ==
  ASSUME Inv, Reboot
  PROVE  Inv'
<1>1. /\ running' = BootSlot /\ boot' = BootSlot /\ pc' = "idle" /\ flash' = Closed
      /\ ~otaLock' /\ upload' = NoUpload
  BY DEF Reboot, Return
<1>2. BootSlot \in 0 .. 1 /\ Other(BootSlot) \in 0 .. 1 /\ Other(BootSlot) # BootSlot
  BY Slots DEF BootSlot, Inv, SlotsOK
<1>3. /\ slot' \in [0 .. 1 -> Image]
      /\ \A s \in 0 .. 1 :
           slot'[s].whole = slot[s].whole /\ slot'[s].firmware = slot[s].firmware
  BY DEF Reboot, Inv, SlotsOK, Image
<1>4. /\ slot[BootSlot].state = "new" => slot'[BootSlot].state = "pending"
      /\ slot[BootSlot].state = "valid" => slot'[BootSlot].state = "valid"
      /\ slot[Other(BootSlot)].state = "valid" => slot'[Other(BootSlot)].state = "valid"
  BY <1>2 DEF Reboot, Inv, SlotsOK, Image
<1>5. \/ Confirmed(BootSlot)
      \/ slot[BootSlot].whole /\ slot[BootSlot].state = "new" /\ Confirmed(Other(BootSlot))
  <2>1. CASE boot = running /\ Confirmed(running)
    BY <2>1 DEF BootSlot, Confirmed
  <2>2. CASE boot = running /\ slot[running].state = "pending" /\ Confirmed(Other(running))
    BY <2>2 DEF BootSlot
  <2>3. CASE /\ Confirmed(running) /\ boot = Other(running)
             /\ slot[boot].whole /\ slot[boot].state = "new"
    BY <2>3, Slots DEF BootSlot, Inv, SlotsOK
  <2>. QED
    BY <2>1, <2>2, <2>3 DEF Inv, RunningOK, BootOK
<1>6. SlotsOK'
  BY <1>1, <1>2, <1>3 DEF SlotsOK, NoUpload, Firmware
<1>7. RunningOK'
  BY <1>1, <1>2, <1>3, <1>4, <1>5 DEF RunningOK, Confirmed
<1>. QED
  BY <1>1, <1>6, <1>7 DEF Inv, BootOK, UpdateOK, HandleOK, LockOK, Working

LEMMA InvStep == Inv /\ [Next]_vars => Inv'
<1>. SUFFICES ASSUME Inv, [Next]_vars PROVE Inv'
  OBVIOUS
<1>1. CASE Serve \/ UNCHANGED vars
  <2>1. UNCHANGED otaVars
    BY <1>1 DEF Serve, vars
  <2>. QED
    BY <2>1 DEF Inv, SlotsOK, RunningOK, BootOK, UpdateOK, HandleOK, LockOK, Confirmed,
                otaVars, handlerVars, bootVars
<1>2. CASE \E u \in Upload : Post(u)
  BY <1>2, PostKeepsInv
<1>3. CASE MarkValid
  BY <1>3, MarkValidKeepsInv
<1>4. CASE Reboot
  BY <1>4, RebootKeepsInv
<1>5. CASE OtaStep
  <2>1. CASE Refuse
    BY <2>1, RefuseKeepsInv
  <2>2. CASE Begin
    BY <2>2, BeginKeepsInv
  <2>3. CASE FeedStep \/ FeedEnds \/ WriteStep \/ ReadStep
    <3>1. pc # "restart"
      BY <2>3 DEF FeedStep, FeedEnds, WriteStep, ReadStep
    <3>2. Abort \/ Proceed
      BY <2>3, FeedStepMoves, FeedEndsMoves, WriteStepMoves, ReadStepMoves
    <3>. QED
      BY <3>1, <3>2, AbortKeepsInv, ProceedKeepsInv
  <2>4. CASE EndStep
    BY <2>4, EndStepKeepsInv
  <2>5. CASE SetBoot
    BY <2>5, SetBootKeepsInv
  <2>. QED
    BY <1>5, <2>1, <2>2, <2>3, <2>4, <2>5 DEF OtaStep
<1>. QED
  BY <1>1, <1>2, <1>3, <1>4, <1>5 DEF Next, Update, Restart

\* Slots, lock and handle agree in every state, whichever step fails and whenever
\* the power goes (ota.rs).
THEOREM Invariance == Spec => []Inv
<1>. QED
  BY InvInit, InvStep, PTL DEF Spec

-----------------------------------------------------------------------------
\* Whatever fails in an update and whenever the power goes, the slot the
\* bootloader starts next holds a whole firmware, and while that one has not
\* confirmed itself the other slot holds one that has (ota.rs, from
\* esp_ota_begin to esp_ota_mark_app_valid_cancel_rollback).
THEOREM AlwaysBootable == Spec => []NeverBricked
<1>1. Inv => NeverBricked
  <2>. SUFFICES ASSUME Inv PROVE NeverBricked
    OBVIOUS
  <2>1. CASE boot = running /\ Confirmed(running)
    BY <2>1 DEF BootSlot, Confirmed, NeverBricked
  <2>2. CASE boot = running /\ slot[running].state = "pending" /\ Confirmed(Other(running))
    BY <2>2 DEF BootSlot, Confirmed, NeverBricked
  <2>3. CASE /\ Confirmed(running) /\ boot = Other(running)
             /\ slot[boot].whole /\ slot[boot].state = "new"
    <3>1. Other(boot) = running /\ BootSlot = boot
      BY <2>3, Slots DEF BootSlot, Inv, SlotsOK
    <3>. QED
      BY <2>3, <3>1 DEF Confirmed, NeverBricked
  <2>. QED
    BY <2>1, <2>2, <2>3 DEF Inv, RunningOK, BootOK
<1>. QED
  BY <1>1, Invariance, PTL

\* Every return of handle_ota, on success and on its error paths, has released
\* OTA_IN_PROGRESS and closed the update handle (OtaLockGuard, abort_ota).
THEOREM AlwaysClean == Spec => []IdleIsClean
<1>1. Inv => IdleIsClean
  BY DEF Inv, HandleOK, LockOK, IdleIsClean
<1>. QED
  BY <1>1, Invariance, PTL
-----------------------------------------------------------------------------
(* The store of pages: what is taken and given back is counted in units.    *)

Held(f) == UNION {Units(p, f[p]) : p \in DOMAIN f}
HeldBeside(f, path) == UNION {Units(p, f[p]) : p \in DOMAIN f \ {path}}

Counted ==
  /\ DOMAIN pages \subseteq Path
  /\ \A p \in DOMAIN pages : pages[p].size \in Nat
  /\ IsFiniteSet(Held(pages)) /\ total = Cardinality(Held(pages)) /\ total <= MaxTotal

LEMMA Limits == MAX_SINGLE_PAGE \in Nat /\ MaxTotal \in Nat
BY PagesAssumption

LEMMA KeysHaveLength == \A p \in Path : KeyLen(p) \in Nat
BY PagesAssumption DEF KeyLen

LEMMA UnitsCount ==
  ASSUME NEW path \in Path, NEW page, page.size \in Nat
  PROVE  /\ IsFiniteSet(Units(path, page))
         /\ Cardinality(Units(path, page)) = page.size + KeyLen(path)
<1>1. PICK n \in Nat : n = page.size + KeyLen(path)
  BY KeysHaveLength
<1>2. IsFiniteSet(1 .. n) /\ Cardinality(1 .. n) = n
  BY FS_Interval
<1>3. IsFiniteSet({path}) /\ Cardinality({path}) = 1
  BY FS_Singleton
<1>4. IsFiniteSet({path} \X (1 .. n)) /\ Cardinality({path} \X (1 .. n)) = 1 * n
  <2>1. PICK S, T : S = {path} /\ T = 1 .. n
    OBVIOUS
  <2>2. IsFiniteSet(S \X T) /\ Cardinality(S \X T) = Cardinality(S) * Cardinality(T)
    BY <1>2, <1>3, <2>1, FS_Product
  <2>. QED
    BY <1>2, <1>3, <2>1, <2>2
<1>. QED
  BY <1>1, <1>4 DEF Units

\* The units of a page are of its path, so no two pages share any.
LEMMA UnitsApart == \A f, path, page : HeldBeside(f, path) \cap Units(path, page) = {}
BY DEF HeldBeside, Units

LEMMA HeldWithIt ==
  ASSUME NEW f, NEW path \in DOMAIN f
  PROVE  Held(f) = HeldBeside(f, path) \cup Units(path, f[path])
BY DEF Held, HeldBeside

LEMMA HeldWithoutIt ==
  ASSUME NEW f, NEW path, path \notin DOMAIN f
  PROVE  Held(f) = HeldBeside(f, path)
<1>1. DOMAIN f \ {path} = DOMAIN f
  OBVIOUS
<1>. QED
  BY <1>1 DEF Held, HeldBeside

\* Both sides of a count: what is beside the page, and the page.
LEMMA HeldCounts ==
  ASSUME NEW f, NEW path \in Path, NEW page, page.size \in Nat,
         IsFiniteSet(HeldBeside(f, path))
  PROVE  /\ IsFiniteSet(HeldBeside(f, path) \cup Units(path, page))
         /\ Cardinality(HeldBeside(f, path) \cup Units(path, page))
              = Cardinality(HeldBeside(f, path)) + page.size + KeyLen(path)
<1>. DEFINE rest == HeldBeside(f, path)
            units == Units(path, page)
<1>1. IsFiniteSet(units) /\ Cardinality(units) = page.size + KeyLen(path)
  BY UnitsCount
<1>2. rest \cap units = {}
  BY UnitsApart
<1>3. Cardinality(rest) \in Nat
  BY FS_CardinalityType
<1>. HIDE DEF rest, units
<1>4. IsFiniteSet(rest)
  BY DEF rest
<1>5. /\ IsFiniteSet(rest \cup units)
      /\ Cardinality(rest \cup units)
           = Cardinality(rest) + Cardinality(units) - Cardinality({})
  BY <1>1, <1>2, <1>4, FS_Union
<1>6. Cardinality(rest \cup units) = Cardinality(rest) + page.size + KeyLen(path)
  BY <1>1, <1>3, <1>5, FS_EmptySet, KeysHaveLength
<1>. QED
  BY <1>5, <1>6 DEF rest, units

LEMMA BesideCounts ==
  ASSUME Counted, NEW path \in Path
  PROVE  /\ IsFiniteSet(HeldBeside(pages, path)) /\ Cardinality(HeldBeside(pages, path)) \in Nat
         /\ Cardinality(HeldBeside(pages, path)) =
              IF path \in DOMAIN pages THEN total - pages[path].size - KeyLen(path) ELSE total
<1>1. HeldBeside(pages, path) \subseteq Held(pages)
  BY DEF HeldBeside, Held
<1>2. IsFiniteSet(HeldBeside(pages, path)) /\ Cardinality(HeldBeside(pages, path)) \in Nat
  BY <1>1, FS_Subset, FS_CardinalityType DEF Counted
<1>3. CASE path \in DOMAIN pages
  <2>1. pages[path].size \in Nat /\ KeyLen(path) \in Nat
    BY <1>3, KeysHaveLength DEF Counted
  <2>2. total = Cardinality(HeldBeside(pages, path)) + pages[path].size + KeyLen(path)
    BY <1>2, <1>3, <2>1, HeldWithIt, HeldCounts DEF Counted
  <2>. QED
    BY <1>2, <1>3, <2>1, <2>2
<1>4. CASE path \notin DOMAIN pages
  BY <1>2, <1>4, HeldWithoutIt DEF Counted
<1>. QED
  BY <1>2, <1>3, <1>4

LEMMA StoreCounts ==
  ASSUME Counted, NEW path \in Path, NEW size, NEW compressed, Store(path, size, compressed)
  PROVE  Counted'
<1>1. PICK page : page = [size |-> size, compressed |-> compressed]
  OBVIOUS
<1>2. page.size = size /\ size \in Nat /\ KeyLen(path) \in Nat
  BY <1>1, KeysHaveLength, Limits DEF Store
<1>3. pages' = With(path, page) /\ total' = NewTotal(path, size) /\ total' <= MaxTotal
  BY <1>1 DEF Store
<1>4. /\ DOMAIN pages' = DOMAIN pages \cup {path} /\ pages'[path] = page
      /\ \A p \in DOMAIN pages \ {path} : pages'[p] = pages[p]
  BY <1>3 DEF With
<1>5. HeldBeside(pages', path) = HeldBeside(pages, path)
  <2>1. DOMAIN pages' \ {path} = DOMAIN pages \ {path}
    BY <1>4
  <2>. QED
    BY <1>4, <2>1 DEF HeldBeside
<1>6. Held(pages') = HeldBeside(pages, path) \cup Units(path, page)
  BY <1>4, <1>5, HeldWithIt
<1>7. /\ IsFiniteSet(Held(pages'))
      /\ Cardinality(Held(pages')) = Cardinality(HeldBeside(pages, path)) + size + KeyLen(path)
  BY <1>2, <1>6, BesideCounts, HeldCounts
<1>8. total \in Nat /\ (path \in DOMAIN pages => pages[path].size \in Nat)
  BY FS_CardinalityType DEF Counted
<1>9. total' = Cardinality(Held(pages'))
  BY <1>2, <1>3, <1>7, <1>8, BesideCounts DEF NewTotal
<1>10. DOMAIN pages' \subseteq Path /\ \A p \in DOMAIN pages' : pages'[p].size \in Nat
  BY <1>2, <1>4 DEF Counted
<1>. QED
  BY <1>3, <1>7, <1>9, <1>10 DEF Counted

LEMMA RemoveCounts ==
  ASSUME Counted, NEW path \in Path, RemovePage(path)
  PROVE  Counted'
<1>1. /\ DOMAIN pages' = DOMAIN pages \ {path}
      /\ \A p \in DOMAIN pages' : pages'[p] = pages[p]
  BY DEF RemovePage, Restrict
<1>2. Held(pages') = HeldBeside(pages, path)
  BY <1>1 DEF Held, HeldBeside
<1>3. /\ path \in DOMAIN pages /\ pages[path].size \in Nat /\ KeyLen(path) \in Nat
      /\ total' = total - pages[path].size - KeyLen(path) /\ total \in Nat
  BY KeysHaveLength, FS_CardinalityType DEF RemovePage, Counted
<1>4. IsFiniteSet(Held(pages')) /\ total' = Cardinality(Held(pages'))
  BY <1>2, <1>3, BesideCounts
<1>5. total' <= MaxTotal
  BY <1>3, Limits DEF Counted
<1>. QED
  BY <1>1, <1>4, <1>5 DEF Counted

\* A store that is new, or is started again, holds nothing.
LEMMA NothingCounts ==
  ASSUME NEW f, f = <<>>
  PROVE  /\ DOMAIN f = {} /\ IsFiniteSet(Held(f)) /\ Cardinality(Held(f)) = 0
<1>1. DOMAIN f = {}
  OBVIOUS
<1>2. Held(f) = {}
  BY <1>1 DEF Held
<1>. QED
  BY <1>1, <1>2, FS_EmptySet

\* The total of the store is what its keys and contents add up to, and is within
\* the limit, whatever is replaced, refused and removed (store_bytes, remove).
THEOREM TotalAlwaysExact == Spec => []TotalIsExact
<1>1. Init => Counted
  <2>. SUFFICES ASSUME Init PROVE Counted
    OBVIOUS
  <2>1. pages = <<>> /\ total = 0
    BY DEF Init, PagesInit
  <2>. QED
    BY <2>1, NothingCounts, Limits DEF Counted
<1>2. Counted /\ [Next]_vars => Counted'
  <2>. SUFFICES ASSUME Counted, [Next]_vars PROVE Counted'
    OBVIOUS
  <2>1. CASE PagesNext
    BY <2>1, StoreCounts, RemoveCounts DEF PagesNext
  <2>2. CASE UNCHANGED pagesVars
    BY <2>2 DEF Counted, pagesVars, Held
  <2>3. CASE Restart
    <3>1. pages' = <<>> /\ total' = 0
      BY <2>3 DEF Restart
    <3>. QED
      BY <3>1, NothingCounts, Limits DEF Counted
  <2>. QED
    BY <2>1, <2>2, <2>3 DEF Next, Serve, Update, vars
<1>3. Counted => TotalIsExact
  BY DEF Counted, TotalIsExact, Held
<1>. QED
  BY <1>1, <1>2, <1>3, PTL DEF Spec
-----------------------------------------------------------------------------
(* Least elements and pieces of sequences.                                 *)

\* A non-empty set of naturals has a least element, which Min returns.
LEMMA MinIsLeast ==
  ASSUME NEW S \in SUBSET Nat, S # {}
  PROVE  /\ Min(S) \in S
         /\ \A x \in S : Min(S) <= x
<1>. DEFINE below(x) == 1 .. x
            T == {below(x) : x \in S}
<1>1. T \subseteq FiniteSubsetsOf(Nat)
  <2>1. ASSUME NEW x \in S PROVE 1 .. x \in FiniteSubsetsOf(Nat)
    <3>1. 1 \in Int /\ x \in Int /\ 1 .. x \subseteq Nat
      OBVIOUS
    <3>2. IsFiniteSet(1 .. x)
      BY <3>1, FS_Interval
    <3>. QED
      BY <3>1, <3>2 DEF FiniteSubsetsOf
  <2>. QED
    BY <2>1
<1>2. PICK t \in T : \A u \in T : ~(<<u, t>> \in StrictSubsetOrdering(Nat))
  <2>1. IsWellFoundedOn(StrictSubsetOrdering(Nat), FiniteSubsetsOf(Nat))
    BY FS_StrictSubsetOrderingWellFounded
  <2>2. T # {}
    OBVIOUS
  <2>. HIDE DEF T
  <2>. QED
    BY <1>1, <2>1, <2>2, WFMin, Zenon
<1>3. PICK m \in S : t = below(m)
  OBVIOUS
<1>4. \A x \in S : m <= x
  <2>. SUFFICES ASSUME NEW x \in S, x < m
                PROVE  FALSE
    OBVIOUS
  <2>1. below(x) \subseteq below(m) /\ m \in below(m) /\ m \notin below(x)
    OBVIOUS
  <2>2. <<below(x), below(m)>> \in StrictSubsetOrdering(Nat)
    BY <2>1 DEF StrictSubsetOrdering
  <2>. QED
    BY <1>2, <1>3, <2>2
<1>. QED
  BY <1>4 DEF Min

LEMMA MinIs ==
  ASSUME NEW S \in SUBSET Nat, NEW m \in S, \A x \in S : m <= x
  PROVE  Min(S) = m
<1>1. Min(S) \in S /\ Min(S) <= m /\ m <= Min(S)
  BY MinIsLeast
<1>2. m \in Nat /\ Min(S) \in Nat
  BY <1>1
<1>. QED
  BY <1>1, <1>2

LEMMA MinOfTwo == \A a, b \in Nat : Min({a, b}) = IF a <= b THEN a ELSE b
<1>. TAKE a \in Nat, b \in Nat
<1>1. CASE a <= b
  BY <1>1, MinIs
<1>2. CASE ~(a <= b)
  BY <1>2, MinIs
<1>. QED
  BY <1>1, <1>2

LEMMA Piece ==
  ASSUME NEW S, NEW s \in Seq(S), NEW m \in Nat, NEW t \in m .. Len(s)
  PROVE  /\ SubSeq(s, m + 1, t) \in Seq(S) /\ Len(SubSeq(s, m + 1, t)) = t - m
         /\ \A i \in 1 .. t - m : SubSeq(s, m + 1, t)[i] = s[m + i]
OBVIOUS

LEMMA PieceAndMore ==
  ASSUME NEW S, NEW s \in Seq(S), NEW a \in Nat, NEW m \in a .. Len(s), NEW t \in m .. Len(s),
         NEW k \in 0 .. t - m
  PROVE  SubSeq(s, a + 1, m) \o SubSeq(SubSeq(s, m + 1, t), 1, k) = SubSeq(s, a + 1, m + k)
<1>. DEFINE d == SubSeq(s, m + 1, t)
            b == SubSeq(s, a + 1, m)
            e == SubSeq(d, 1, k)
            w == SubSeq(s, a + 1, m + k)
<1>1. d \in Seq(S) /\ Len(d) = t - m /\ \A i \in 1 .. t - m : d[i] = s[m + i]
  BY Piece
<1>2. b \in Seq(S) /\ Len(b) = m - a /\ \A i \in 1 .. m - a : b[i] = s[a + i]
  BY Piece
<1>3. w \in Seq(S) /\ Len(w) = m + k - a /\ \A i \in 1 .. m + k - a : w[i] = s[a + i]
  BY Piece
<1>4. e \in Seq(S) /\ Len(e) = k /\ \A i \in 1 .. k : e[i] = d[i]
  <2>. HIDE DEF d
  <2>. QED
    BY <1>1
<1>. HIDE DEF d, b, e, w
<1>5. b \o e \in Seq(S) /\ Len(b \o e) = Len(w)
  BY <1>2, <1>3, <1>4
<1>6. \A i \in 1 .. Len(w) : (b \o e)[i] = w[i]
  <2>. SUFFICES ASSUME NEW i \in 1 .. Len(w) PROVE (b \o e)[i] = w[i]
    OBVIOUS
  <2>1. CASE i <= m - a
    BY <1>2, <1>3, <1>4, <2>1
  <2>2. CASE ~(i <= m - a)
    <3>1. i - (m - a) \in 1 .. k
      BY <1>3, <2>2
    <3>2. (b \o e)[i] = e[i - (m - a)]
      <4>1. i \in 1 .. Len(b) + Len(e) /\ ~(i <= Len(b)) /\ Len(b) = m - a
        BY <1>2, <1>3, <1>4, <2>2
      <4>2. (b \o e)[i] = IF i <= Len(b) THEN b[i] ELSE e[i - Len(b)]
        BY <1>2, <1>4, <4>1, ConcatProperties
      <4>. QED
        BY <4>1, <4>2
    <3>3. e[i - (m - a)] = s[m + (i - (m - a))]
      <4>1. PICK j \in 1 .. k : j = i - (m - a)
        BY <3>1
      <4>2. j \in 1 .. t - m
        OBVIOUS
      <4>3. e[j] = d[j] /\ d[j] = s[m + j]
        BY <1>1, <1>4, <4>2
      <4>. QED
        BY <4>1, <4>3
    <3>. QED
      BY <1>3, <3>2, <3>3
  <2>. QED
    BY <2>1, <2>2
<1>7. b \o e = w
  BY <1>3, <1>5, <1>6, SeqEqual
<1>. QED
  BY <1>7 DEF b, e, w, d

LEMMA PieceOfPiece ==
  ASSUME NEW S, NEW s \in Seq(S), NEW m \in Nat, NEW t \in m .. Len(s),
         NEW k \in 0 .. t - m, NEW l \in k .. t - m
  PROVE  SubSeq(SubSeq(s, m + 1, t), k + 1, l) = SubSeq(s, (m + k) + 1, m + l)
<1>. DEFINE d == SubSeq(s, m + 1, t)
            e == SubSeq(d, k + 1, l)
            w == SubSeq(s, (m + k) + 1, m + l)
<1>1. d \in Seq(S) /\ Len(d) = t - m /\ \A i \in 1 .. t - m : d[i] = s[m + i]
  BY Piece
<1>2. w \in Seq(S) /\ Len(w) = l - k /\ \A i \in 1 .. l - k : w[i] = s[(m + k) + i]
  BY Piece
<1>3. e \in Seq(S) /\ Len(e) = l - k /\ \A i \in 1 .. l - k : e[i] = d[k + i]
  <2>. HIDE DEF d
  <2>. QED
    BY <1>1, Piece
<1>. HIDE DEF d, e, w
<1>4. ASSUME NEW i \in 1 .. Len(w) PROVE e[i] = w[i]
  <2>4. i \in 1 .. l - k
    BY <1>2
  <2>1. k + i \in 1 .. t - m /\ e[i] = d[k + i]
    BY <1>3, <2>4
  <2>2. e[i] = s[m + (k + i)]
    BY <1>1, <2>1
  <2>3. w[i] = s[(m + k) + i]
    BY <1>2
  <2>. QED
    BY <2>2, <2>3
<1>5. e = w
  BY <1>2, <1>3, <1>4, SeqEqual
<1>. QED
  BY <1>5 DEF e, w, d
-----------------------------------------------------------------------------
(* The format: where the fields of a stream end.                           *)

Octets == Seq(0 .. 255)
Within(s, m) == m \in 0 .. Len(s)

LEMMA FirstAfterIs ==
  ASSUME NEW s \in Octets, NEW n \in Nat, NEW B
  PROVE  /\ FirstAfter(s, n, B) \in Nat
         /\ FirstAfter(s, n, B) <= Len(s) + 1
         /\ n <= Len(s) => n < FirstAfter(s, n, B)
         /\ FirstAfter(s, n, B) <= Len(s) =>
              n < FirstAfter(s, n, B) /\ s[FirstAfter(s, n, B)] \in B
         /\ \A i \in n + 1 .. Len(s) : s[i] \in B => FirstAfter(s, n, B) <= i
<1>. DEFINE hits == {i \in n + 1 .. Len(s) : s[i] \in B} \cup {Len(s) + 1}
<1>1. Len(s) \in Nat
  BY DEF Octets
<1>2. hits \in SUBSET Nat /\ hits # {} /\ Len(s) + 1 \in hits
  BY <1>1
<1>3. Min(hits) \in hits /\ \A x \in hits : Min(hits) <= x
  <2>. HIDE DEF hits
  <2>. QED
    BY <1>2, MinIsLeast
<1>4. FirstAfter(s, n, B) = Min(hits)
  BY DEF FirstAfter
<1>. QED
  BY <1>1, <1>3, <1>4

\* Searching what is left of a stream finds the same place.
Hits(d, B) == {i \in 1 .. Len(d) : d[i] \in B}
Searching(s, a, B, m, t) ==
  /\ a \in Nat /\ m \in Nat /\ t \in Nat /\ a <= m /\ m <= t /\ Within(s, t)
  /\ m < FirstAfter(s, a, B)

LEMMA FoundInPiece ==
  ASSUME NEW s \in Octets, NEW a, NEW B, NEW m, NEW t, Searching(s, a, B, m, t)
  PROVE  LET hits == Hits(SubSeq(s, m + 1, t), B)
         IN /\ FirstAfter(s, a, B) \in Nat
            /\ hits = {} => t < FirstAfter(s, a, B)
            /\ hits # {} => /\ FirstAfter(s, a, B) <= t
                            /\ Min(hits) = FirstAfter(s, a, B) - m
<1>. DEFINE f == FirstAfter(s, a, B)
            d == SubSeq(s, m + 1, t)
            hits == Hits(d, B)
<1>. USE DEF Searching
<1>1. /\ f \in Nat /\ f <= Len(s) + 1
      /\ f <= Len(s) => s[f] \in B
      /\ \A i \in a + 1 .. Len(s) : s[i] \in B => f <= i
  BY FirstAfterIs
<1>8. Len(s) \in Nat /\ t <= Len(s)
  BY DEF Octets, Within
<1>2. Len(d) = t - m /\ \A i \in 1 .. t - m : d[i] = s[m + i]
  BY Piece DEF Octets, Within
<1>3. m < f
  OBVIOUS
<1>. HIDE DEF f
<1>4. ASSUME f <= t PROVE f - m \in hits
  <2>1. f - m \in 1 .. t - m /\ m + (f - m) = f /\ s[f] \in B
    BY <1>1, <1>3, <1>4, <1>8
  <2>. QED
    BY <1>2, <2>1 DEF Hits
<1>5. ASSUME NEW i \in hits PROVE i \in Nat /\ f - m <= i /\ f <= t
  <2>1. i \in 1 .. t - m /\ s[m + i] \in B
    BY <1>2 DEF Hits
  <2>2. m + i \in a + 1 .. Len(s)
    BY <1>8, <2>1
  <2>3. f <= m + i
    BY <1>1, <2>1, <2>2
  <2>. QED
    BY <1>1, <2>1, <2>3
<1>. HIDE DEF d, hits
<1>6. CASE hits = {}
  <2>1. ~(f <= t)
    BY <1>4, <1>6
  <2>. QED
    BY <1>1, <1>6, <2>1 DEF f, hits, d
<1>7. CASE hits # {}
  <2>1. f <= t /\ f - m \in hits
    BY <1>4, <1>5, <1>7
  <2>2. hits \in SUBSET Nat /\ \A x \in hits : f - m <= x
    BY <1>5
  <2>3. Min(hits) = f - m
    BY <2>1, <2>2, MinIs
  <2>. QED
    BY <1>1, <1>7, <2>1, <2>3 DEF f, hits, d
<1>. QED
  BY <1>6, <1>7

\* What the proofs use of the ends of the fields: in a stream that goes on as far,
\* they come in order, and a field that is announced is not empty.
LEMMA Ends ==
  ASSUME NEW s \in Octets
  PROVE  /\ Len(s) \in Nat
         /\ {ExtraLenEnd(s), ExtraDataEnd(s), NameEnd(s), CommentEnd(s), HeaderCrcEnd(s),
             DataEnd(s), TrailerEnd(s)} \subseteq Nat
         /\ ExtraLenEnd(s) = IF Has(s, "extraLen") THEN 12 ELSE 10
         /\ ExtraLenEnd(s) <= ExtraDataEnd(s)
         /\ ~Has(s, "extraLen") => ExtraDataEnd(s) = 10
         /\ ExtraDataEnd(s) <= Len(s) => ExtraDataEnd(s) <= NameEnd(s)
         /\ ExtraDataEnd(s) <= Len(s) /\ Has(s, "name") => ExtraDataEnd(s) < NameEnd(s)
         /\ Has(s, "name") \/ NameEnd(s) = ExtraDataEnd(s)
         /\ NameEnd(s) <= Len(s) => ExtraDataEnd(s) <= NameEnd(s) /\ NameEnd(s) <= CommentEnd(s)
         /\ NameEnd(s) <= Len(s) /\ Has(s, "comment") => NameEnd(s) < CommentEnd(s)
         /\ Has(s, "comment") \/ CommentEnd(s) = NameEnd(s)
         /\ CommentEnd(s) <= Len(s) => NameEnd(s) <= CommentEnd(s)
         /\ HeaderCrcEnd(s) = IF Has(s, "headerCrc") THEN CommentEnd(s) + 2 ELSE CommentEnd(s)
         /\ HeaderCrcEnd(s) <= Len(s) => HeaderCrcEnd(s) < DataEnd(s)
         /\ DataEnd(s) <= Len(s) => HeaderCrcEnd(s) < DataEnd(s)
         /\ TrailerEnd(s) = DataEnd(s) + 8
<1>1. Len(s) \in Nat /\ \A i \in Nat \ {0} : Byte(s, i) \in 0 .. 255
  <2>1. Len(s) \in Nat /\ \A i \in 1 .. Len(s) : s[i] \in 0 .. 255
    BY ElementOfSeq DEF Octets
  <2>2. \A i \in Nat \ {0} : i <= Len(s) => i \in 1 .. Len(s)
    BY <2>1
  <2>. QED
    BY <2>1, <2>2 DEF Byte
<1>2. /\ ExtraLenEnd(s) = IF Has(s, "extraLen") THEN 12 ELSE 10
      /\ ExtraDataEnd(s) \in Nat /\ ExtraLenEnd(s) <= ExtraDataEnd(s)
      /\ ~Has(s, "extraLen") => ExtraDataEnd(s) = 10
  <2>1. PICK b : b \in 0 .. 255 /\ b = Byte(s, 11)
    BY <1>1, 11 \in Nat \ {0}
  <2>2. PICK c : c \in 0 .. 255 /\ c = Byte(s, 12)
    BY <1>1, 12 \in Nat \ {0}
  <2>3. ExtraDataEnd(s) = IF Has(s, "extraLen") THEN 12 + b + 256 * c ELSE 10
    BY <2>1, <2>2 DEF ExtraDataEnd
  <2>4. 12 + b + 256 * c \in Nat /\ 12 <= 12 + b + 256 * c
    BY <2>1, <2>2
  <2>. QED
    BY <2>3, <2>4 DEF ExtraLenEnd
<1>3. /\ NameEnd(s) \in Nat
      /\ ExtraDataEnd(s) <= Len(s) => ExtraDataEnd(s) <= NameEnd(s)
      /\ ExtraDataEnd(s) <= Len(s) /\ Has(s, "name") => ExtraDataEnd(s) < NameEnd(s)
      /\ NameEnd(s) <= Len(s) => ExtraDataEnd(s) <= NameEnd(s)
      /\ Has(s, "name") \/ NameEnd(s) = ExtraDataEnd(s)
  BY <1>1, <1>2, FirstAfterIs DEF NameEnd
<1>4. /\ CommentEnd(s) \in Nat
      /\ NameEnd(s) <= Len(s) => NameEnd(s) <= CommentEnd(s)
      /\ NameEnd(s) <= Len(s) /\ Has(s, "comment") => NameEnd(s) < CommentEnd(s)
      /\ CommentEnd(s) <= Len(s) => NameEnd(s) <= CommentEnd(s)
      /\ Has(s, "comment") \/ CommentEnd(s) = NameEnd(s)
  BY <1>1, <1>3, FirstAfterIs DEF CommentEnd
<1>5. /\ HeaderCrcEnd(s) = IF Has(s, "headerCrc") THEN CommentEnd(s) + 2 ELSE CommentEnd(s)
      /\ HeaderCrcEnd(s) \in Nat
  BY <1>4 DEF HeaderCrcEnd
<1>6. /\ DataEnd(s) \in Nat
      /\ HeaderCrcEnd(s) <= Len(s) => HeaderCrcEnd(s) < DataEnd(s)
      /\ DataEnd(s) <= Len(s) => HeaderCrcEnd(s) < DataEnd(s)
  BY <1>1, <1>5, FirstAfterIs DEF DataEnd
<1>7. TrailerEnd(s) = DataEnd(s) + 8 /\ TrailerEnd(s) \in Nat /\ ExtraLenEnd(s) \in Nat
  BY <1>2, <1>6 DEF TrailerEnd
<1>. QED
  BY <1>1, <1>2, <1>3, <1>4, <1>5, <1>6, <1>7

LEMMA PhaseIs ==
  ASSUME NEW s, NEW n
  PROVE  PhaseAt(s, n) = IF n < HeaderEnd THEN "header"
                         ELSE IF n < ExtraLenEnd(s) THEN "extraLen"
                         ELSE IF n < ExtraDataEnd(s) THEN "extraData"
                         ELSE IF n < NameEnd(s) THEN "name"
                         ELSE IF n < CommentEnd(s) THEN "comment"
                         ELSE IF n < HeaderCrcEnd(s) THEN "headerCrc"
                         ELSE IF n < DataEnd(s) THEN "deflate"
                         ELSE IF n < TrailerEnd(s) THEN "trailer"
                         ELSE "done"
<1>. DEFINE ends == <<HeaderEnd, ExtraLenEnd(s), ExtraDataEnd(s), NameEnd(s), CommentEnd(s),
                      HeaderCrcEnd(s), DataEnd(s), TrailerEnd(s)>>
            open == {i \in 1 .. 8 : n < ends[i]}
<1>1. PhaseAt(s, n) = IF open = {} THEN "done" ELSE Fields[Min(open)]
  BY DEF PhaseAt
<1>2. /\ ends[1] = HeaderEnd /\ ends[2] = ExtraLenEnd(s) /\ ends[3] = ExtraDataEnd(s)
      /\ ends[4] = NameEnd(s) /\ ends[5] = CommentEnd(s) /\ ends[6] = HeaderCrcEnd(s)
      /\ ends[7] = DataEnd(s) /\ ends[8] = TrailerEnd(s)
  OBVIOUS
<1>3. /\ Fields[1] = "header" /\ Fields[2] = "extraLen" /\ Fields[3] = "extraData"
      /\ Fields[4] = "name" /\ Fields[5] = "comment" /\ Fields[6] = "headerCrc"
      /\ Fields[7] = "deflate" /\ Fields[8] = "trailer"
  BY DEF Fields
<1>. HIDE DEF ends
<1>4. 1 .. 8 = {1, 2, 3, 4, 5, 6, 7, 8}
  OBVIOUS
<1>5. ASSUME NEW k \in 1 .. 8, n < ends[k], \A j \in 1 .. k - 1 : ~(n < ends[j])
      PROVE  PhaseAt(s, n) = Fields[k]
  <2>1. open \in SUBSET Nat /\ k \in open
    BY <1>5
  <2>2. \A x \in open : k <= x
    <3>. SUFFICES ASSUME NEW x \in 1 .. 8, n < ends[x], ~(k <= x) PROVE FALSE
      OBVIOUS
    <3>1. x \in 1 .. k - 1
      OBVIOUS
    <3>. QED
      BY <1>5, <3>1
  <2>3. Min(open) = k
    <3>. HIDE DEF open
    <3>. QED
      BY <2>1, <2>2, MinIs
  <2>. QED
    BY <1>1, <2>1, <2>3
<1>6. (\A j \in 1 .. 8 : ~(n < ends[j])) => PhaseAt(s, n) = "done"
  BY <1>1
<1>. HIDE DEF open
<1>7. n < ends[1] => PhaseAt(s, n) = Fields[1]
  BY <1>5
<1>8. n < ends[2] /\ ~(n < ends[1]) => PhaseAt(s, n) = Fields[2]
  BY <1>5, 1 .. 2 - 1 = {1}
<1>9. n < ends[3] /\ ~(n < ends[1]) /\ ~(n < ends[2]) => PhaseAt(s, n) = Fields[3]
  BY <1>5, 1 .. 3 - 1 = {1, 2}
<1>10. n < ends[4] /\ ~(n < ends[1]) /\ ~(n < ends[2]) /\ ~(n < ends[3])
         => PhaseAt(s, n) = Fields[4]
  BY <1>5, 1 .. 4 - 1 = {1, 2, 3}
<1>11. /\ n < ends[5] /\ ~(n < ends[1]) /\ ~(n < ends[2]) /\ ~(n < ends[3]) /\ ~(n < ends[4])
       => PhaseAt(s, n) = Fields[5]
  BY <1>5, 1 .. 5 - 1 = {1, 2, 3, 4}
<1>12. /\ n < ends[6] /\ ~(n < ends[1]) /\ ~(n < ends[2]) /\ ~(n < ends[3]) /\ ~(n < ends[4])
       /\ ~(n < ends[5])
       => PhaseAt(s, n) = Fields[6]
  BY <1>5, 1 .. 6 - 1 = {1, 2, 3, 4, 5}
<1>13. /\ n < ends[7] /\ ~(n < ends[1]) /\ ~(n < ends[2]) /\ ~(n < ends[3]) /\ ~(n < ends[4])
       /\ ~(n < ends[5]) /\ ~(n < ends[6])
       => PhaseAt(s, n) = Fields[7]
  BY <1>5, 1 .. 7 - 1 = {1, 2, 3, 4, 5, 6}
<1>14. /\ n < ends[8] /\ ~(n < ends[1]) /\ ~(n < ends[2]) /\ ~(n < ends[3]) /\ ~(n < ends[4])
       /\ ~(n < ends[5]) /\ ~(n < ends[6]) /\ ~(n < ends[7])
       => PhaseAt(s, n) = Fields[8]
  BY <1>5, 1 .. 8 - 1 = {1, 2, 3, 4, 5, 6, 7}
<1>. QED
  BY <1>2, <1>3, <1>4, <1>6, <1>7, <1>8, <1>9, <1>10, <1>11, <1>12, <1>13, <1>14

\* advance_header_optional and its continuations, as the chains of tests they are.
LEMMA AdvanceIs ==
  ASSUME NEW flg, NEW i \in 0 .. 4
  PROVE  Advance(flg, i) = IF i < 1 /\ Announces(flg, "extraLen") THEN "extraLen"
                           ELSE IF i < 2 /\ Announces(flg, "name") THEN "name"
                           ELSE IF i < 3 /\ Announces(flg, "comment") THEN "comment"
                           ELSE IF i < 4 /\ Announces(flg, "headerCrc") THEN "headerCrc"
                           ELSE "deflate"
<1>. DEFINE rest == {j \in i + 1 .. 4 : Announces(flg, Optional[j])}
<1>1. Advance(flg, i) = IF rest = {} THEN "deflate" ELSE Optional[Min(rest)]
  BY DEF Advance
<1>2. /\ Optional[1] = "extraLen" /\ Optional[2] = "name" /\ Optional[3] = "comment"
      /\ Optional[4] = "headerCrc"
  BY DEF Optional
<1>3. ASSUME NEW k \in i + 1 .. 4, Announces(flg, Optional[k]),
             \A j \in i + 1 .. k - 1 : ~Announces(flg, Optional[j])
      PROVE  Advance(flg, i) = Optional[k]
  <2>1. rest \in SUBSET Nat /\ k \in rest
    BY <1>3
  <2>2. \A x \in rest : k <= x
    <3>. SUFFICES ASSUME NEW x \in i + 1 .. 4, Announces(flg, Optional[x]), ~(k <= x) PROVE FALSE
      OBVIOUS
    <3>1. x \in i + 1 .. k - 1
      OBVIOUS
    <3>. QED
      BY <1>3, <3>1
  <2>3. Min(rest) = k
    <3>. HIDE DEF rest
    <3>. QED
      BY <2>1, <2>2, MinIs
  <2>. QED
    BY <1>1, <2>1, <2>3
<1>4. (\A j \in i + 1 .. 4 : ~Announces(flg, Optional[j])) => Advance(flg, i) = "deflate"
  BY <1>1
<1>. HIDE DEF rest
<1>5. CASE i < 1 /\ Announces(flg, "extraLen")
  BY <1>2, <1>3, <1>5
<1>6. CASE ~(i < 1 /\ Announces(flg, "extraLen")) /\ i < 2 /\ Announces(flg, "name")
  <2>1. 2 \in i + 1 .. 4 /\ \A j \in i + 1 .. 2 - 1 : ~Announces(flg, Optional[j])
    BY <1>2, <1>6
  <2>. QED
    BY <1>2, <1>3, <1>6, <2>1
<1>7. CASE /\ ~(i < 1 /\ Announces(flg, "extraLen")) /\ ~(i < 2 /\ Announces(flg, "name"))
           /\ i < 3 /\ Announces(flg, "comment")
  <2>1. 3 \in i + 1 .. 4 /\ \A j \in i + 1 .. 3 - 1 : ~Announces(flg, Optional[j])
    BY <1>2, <1>7
  <2>. QED
    BY <1>2, <1>3, <1>7, <2>1
<1>8. CASE /\ ~(i < 1 /\ Announces(flg, "extraLen")) /\ ~(i < 2 /\ Announces(flg, "name"))
           /\ ~(i < 3 /\ Announces(flg, "comment")) /\ i < 4 /\ Announces(flg, "headerCrc")
  <2>1. 4 \in i + 1 .. 4 /\ \A j \in i + 1 .. 4 - 1 : ~Announces(flg, Optional[j])
    BY <1>2, <1>8
  <2>. QED
    BY <1>2, <1>3, <1>8, <2>1
<1>9. CASE /\ ~(i < 1 /\ Announces(flg, "extraLen")) /\ ~(i < 2 /\ Announces(flg, "name"))
           /\ ~(i < 3 /\ Announces(flg, "comment"))
           /\ ~(i < 4 /\ Announces(flg, "headerCrc"))
  <2>1. \A j \in i + 1 .. 4 : ~Announces(flg, Optional[j])
    BY <1>2, <1>9
  <2>. QED
    BY <1>4, <1>9, <2>1
<1>. QED
  BY <1>5, <1>6, <1>7, <1>8, <1>9

LEMMA PhaseWhere ==
  ASSUME NEW s \in Octets, NEW m, Within(s, m)
  PROVE  /\ PhaseAt(s, m) = "header" <=> m < 10
         /\ PhaseAt(s, m) = "extraLen" <=> Has(s, "extraLen") /\ 10 <= m /\ m < 12
         /\ PhaseAt(s, m) = "extraData" <=>
              Has(s, "extraLen") /\ 12 <= m /\ m < ExtraDataEnd(s)
         /\ PhaseAt(s, m) = "name" <=> ExtraDataEnd(s) <= m /\ m < NameEnd(s)
         /\ PhaseAt(s, m) = "comment" <=> NameEnd(s) <= m /\ m < CommentEnd(s)
         /\ PhaseAt(s, m) = "headerCrc" <=> CommentEnd(s) <= m /\ m < HeaderCrcEnd(s)
         /\ PhaseAt(s, m) = "deflate" <=> HeaderCrcEnd(s) <= m /\ m < DataEnd(s)
         /\ PhaseAt(s, m) = "trailer" <=> DataEnd(s) <= m /\ m < TrailerEnd(s)
         /\ PhaseAt(s, m) = "done" <=> TrailerEnd(s) <= m
<1>. USE DEF HeaderEnd, Within
<1>1. /\ PhaseAt(s, m) = "header" <=> m < 10
      /\ PhaseAt(s, m) = "extraLen" <=> Has(s, "extraLen") /\ 10 <= m /\ m < 12
  BY Ends, PhaseIs, SMTT(20)
<1>2. PhaseAt(s, m) = "extraData" <=> Has(s, "extraLen") /\ 12 <= m /\ m < ExtraDataEnd(s)
  BY Ends, PhaseIs, SMTT(20)
<1>3. PhaseAt(s, m) = "name" <=> ExtraDataEnd(s) <= m /\ m < NameEnd(s)
  BY Ends, PhaseIs, SMTT(20)
<1>4. PhaseAt(s, m) = "comment" <=> NameEnd(s) <= m /\ m < CommentEnd(s)
  BY Ends, PhaseIs, SMTT(20)
<1>5. PhaseAt(s, m) = "headerCrc" <=> CommentEnd(s) <= m /\ m < HeaderCrcEnd(s)
  BY Ends, PhaseIs, SMTT(20)
<1>6. PhaseAt(s, m) = "deflate" <=> HeaderCrcEnd(s) <= m /\ m < DataEnd(s)
  BY Ends, PhaseIs, SMTT(20)
<1>7. PhaseAt(s, m) = "trailer" <=> DataEnd(s) <= m /\ m < TrailerEnd(s)
  BY Ends, PhaseIs, SMTT(20)
<1>8. PhaseAt(s, m) = "done" <=> TrailerEnd(s) <= m
  BY Ends, PhaseIs, SMTT(20)
<1>. QED
  BY <1>1, <1>2, <1>3, <1>4, <1>5, <1>6, <1>7, <1>8

HeaderPhases == {"header", "extraLen", "extraData", "name", "comment", "headerCrc"}

LEMMA HeaderIsBefore ==
  ASSUME NEW s \in Octets, NEW m, Within(s, m), PhaseAt(s, m) \in HeaderPhases
  PROVE  m < HeaderCrcEnd(s) /\ m < DataEnd(s)
<1>1. m < HeaderCrcEnd(s) \/ m >= HeaderCrcEnd(s)
  BY Ends DEF Within
<1>2. ASSUME m >= HeaderCrcEnd(s) PROVE FALSE
  <2>1. PhaseAt(s, m) \notin {"headerCrc", "deflate", "trailer", "done"}
    BY <1>2, Ends, PhaseWhere DEF HeaderPhases, Within
  <2>2. PhaseAt(s, m) \in {"header", "extraLen", "extraData", "name", "comment"}
    BY <2>1 DEF HeaderPhases
  <2>3. 10 <= m /\ ExtraDataEnd(s) <= m /\ NameEnd(s) <= m /\ CommentEnd(s) <= m
    BY <1>2, Ends DEF Within
  <2>4. /\ m \in Nat /\ ExtraDataEnd(s) \in Nat /\ NameEnd(s) \in Nat
        /\ CommentEnd(s) \in Nat
    BY Ends DEF Within
  <2>5. Has(s, "extraLen") => 12 <= m
    <3>1. Has(s, "extraLen") => 12 <= ExtraDataEnd(s)
      BY Ends
    <3>. QED
      BY <2>3, <2>4, <3>1
  <2>. QED
    BY <2>2, <2>3, <2>4, <2>5, PhaseWhere
<1>3. m < HeaderCrcEnd(s) => m < DataEnd(s)
  BY Ends DEF Within
<1>. QED
  BY <1>1, <1>2, <1>3

LEMMA HeaderGoesFar ==
  ASSUME NEW s \in Octets, NEW m, Within(s, m), m <= 10
  PROVE  m <= HeaderCrcEnd(s)
<1>1. Len(s) < HeaderCrcEnd(s) \/ 10 <= HeaderCrcEnd(s)
  BY Ends
<1>2. HeaderCrcEnd(s) \in Nat /\ Len(s) \in Nat
  BY Ends
<1>. QED
  BY <1>1, <1>2 DEF Within

\* At the end of a field, the decoder's tests of FLG find the field that follows.
LEMMA FieldFollows ==
  ASSUME NEW s \in Octets, NEW m, Within(s, m)
  PROVE  /\ m = 10 => PhaseAt(s, m) = Advance(Byte(s, 4), 0)
         /\ m = ExtraDataEnd(s) => PhaseAt(s, m) = Advance(Byte(s, 4), 1)
         /\ m = NameEnd(s) => PhaseAt(s, m) = Advance(Byte(s, 4), 2)
         /\ m = CommentEnd(s) => PhaseAt(s, m) = Advance(Byte(s, 4), 3)
         /\ m = HeaderCrcEnd(s) => PhaseAt(s, m) = "deflate"
<1>. DEFINE flg == Byte(s, 4)
<1>1. /\ Advance(flg, 0) = IF Has(s, "extraLen") THEN "extraLen"
                           ELSE IF Has(s, "name") THEN "name"
                           ELSE IF Has(s, "comment") THEN "comment"
                           ELSE IF Has(s, "headerCrc") THEN "headerCrc" ELSE "deflate"
      /\ Advance(flg, 1) = IF Has(s, "name") THEN "name"
                           ELSE IF Has(s, "comment") THEN "comment"
                           ELSE IF Has(s, "headerCrc") THEN "headerCrc" ELSE "deflate"
      /\ Advance(flg, 2) = IF Has(s, "comment") THEN "comment"
                           ELSE IF Has(s, "headerCrc") THEN "headerCrc" ELSE "deflate"
      /\ Advance(flg, 3) = IF Has(s, "headerCrc") THEN "headerCrc" ELSE "deflate"
  <2>. HIDE DEF flg
  <2>1. \A field : Has(s, field) <=> Announces(flg, field)
    BY DEF Has, flg
  <2>. QED
    BY <2>1, AdvanceIs
<1>. HIDE DEF flg
<1>2. m = HeaderCrcEnd(s) => PhaseAt(s, m) = "deflate"
  BY Ends, PhaseWhere DEF Within
<1>3. m = CommentEnd(s) => PhaseAt(s, m) = Advance(flg, 3)
  BY <1>1, Ends, PhaseWhere DEF Within
<1>4. m = NameEnd(s) => PhaseAt(s, m) = Advance(flg, 2)
  BY <1>1, Ends, PhaseWhere DEF Within
<1>5. m = ExtraDataEnd(s) => PhaseAt(s, m) = Advance(flg, 1)
  BY <1>1, Ends, PhaseWhere DEF Within
<1>6. m = 10 => PhaseAt(s, m) = Advance(flg, 0)
  BY <1>1, Ends, PhaseWhere DEF Within
<1>. QED
  BY <1>2, <1>3, <1>4, <1>5, <1>6 DEF flg

LEMMA Sizes == Ratio \in Nat \ {0} /\ OutSize \in Nat \ {0}
BY GzipAssumption

LEMMA InflatedIs ==
  ASSUME NEW s \in Octets, NEW m, Within(s, m)
  PROVE  /\ Inflated(s, m) \in Nat
         /\ m <= HeaderCrcEnd(s) => Inflated(s, m) = 0
         /\ HeaderCrcEnd(s) <= m /\ m < DataEnd(s) =>
              Inflated(s, m) = Ratio * (m - HeaderCrcEnd(s))
         /\ DataEnd(s) <= m =>
              Inflated(s, m) = Ratio * ((DataEnd(s) - 1) - HeaderCrcEnd(s))
<1>. DEFINE data == IF m < DataEnd(s) THEN m ELSE DataEnd(s) - 1
            H == HeaderCrcEnd(s)
<1>1. Inflated(s, m) = IF data <= H THEN 0 ELSE Ratio * (data - H)
  BY DEF Inflated
<1>2. H \in Nat /\ DataEnd(s) \in Nat /\ data \in Int
  BY Ends DEF Within
<1>3. m <= H => data = m
  BY Ends DEF Within
<1>4. DataEnd(s) <= m => H <= DataEnd(s) - 1 /\ data = DataEnd(s) - 1
  BY Ends DEF Within
<1>5. m < DataEnd(s) => data = m
  OBVIOUS
<1>6. Ratio * 0 = 0 /\ \A n \in Nat : Ratio * n \in Nat
  BY Sizes
<1>. HIDE DEF data, H
<1>7. data <= H \/ data - H \in Nat
  BY <1>2
<1>8. data = H => data - H = 0
  BY <1>2
<1>9. Inflated(s, m) \in Nat
  BY <1>1, <1>6, <1>7
<1>10. H <= data => Inflated(s, m) = Ratio * (data - H)
  <2>1. CASE data = H
    BY <1>1, <1>2, <1>6, <1>8, <2>1
  <2>2. CASE data # H
    BY <1>1, <1>2, <2>2
  <2>. QED
    BY <2>1, <2>2
<1>11. m <= H => Inflated(s, m) = 0
  BY <1>1, <1>3
<1>12. H <= m /\ m < DataEnd(s) => Inflated(s, m) = Ratio * (m - H)
  BY <1>5, <1>10
<1>13. DataEnd(s) <= m => Inflated(s, m) = Ratio * ((DataEnd(s) - 1) - H)
  BY <1>4, <1>10
<1>. QED
  BY <1>9, <1>11, <1>12, <1>13 DEF H
-----------------------------------------------------------------------------
(* The decoder in step with the format.                                    *)

DecoderPhases == HeaderPhases \cup {"deflate", "trailer", "done", "failed"}
Decoder == [phase : DecoderPhases, buf : Octets, flg : Nat, skip : Nat,
            ended : BOOLEAN, waiting : Nat, out : Nat]

\* What a phase keeps of the field it is in, after m bytes of s.
Gathered(g, s, m) ==
  /\ g.phase = "header" => g.buf = SubSeq(s, 1, m)
  /\ g.phase = "extraLen" => g.buf = SubSeq(s, 11, m)
  /\ g.phase = "headerCrc" => g.buf = SubSeq(s, CommentEnd(s) + 1, m)
  /\ g.phase = "trailer" => g.buf = SubSeq(s, DataEnd(s) + 1, m)
  /\ g.phase \notin DOMAIN Fixed => g.buf = <<>>
  /\ g.phase = "extraData" => g.skip = ExtraDataEnd(s) - m
  /\ g.phase # "header" => g.flg = Byte(s, 4) /\ Byte(s, 3) = 8

InStep(g, s, m) ==
  /\ g \in Decoder
  /\ IF g.ended /\ g.waiting > 0 THEN g.phase = "deflate" /\ m = DataEnd(s)
     ELSE g.phase = PhaseAt(s, m)
  /\ g.out + g.waiting = Inflated(s, m)
  /\ Gathered(g, s, m)
  /\ g.ended => DataEnd(s) <= m /\ s[DataEnd(s)] = EndOfData
  /\ g.phase \in {"trailer", "done"} => g.ended /\ g.waiting = 0
  /\ g.phase = "done" => Sound(s)

\* What one iteration of feed's loop on the bytes from m to t comes to.
Advances(r, s, m, t) ==
  /\ r.n \in 0 .. t - m /\ r.gz \in Decoder
  /\ IF r.gz.phase = "failed" THEN ~Sound(s) ELSE InStep(r.gz, s, m + r.n)

LEMMA OctetsOf ==
  ASSUME NEW s \in Octets
  PROVE  /\ Len(s) \in Nat /\ <<>> \in Octets
         /\ \A i \in 1 .. Len(s) : s[i] \in 0 .. 255
         /\ \A m \in Nat : \A t \in m .. Len(s) :
              /\ SubSeq(s, m + 1, t) \in Octets /\ Len(SubSeq(s, m + 1, t)) = t - m
              /\ \A i \in 1 .. t - m : SubSeq(s, m + 1, t)[i] = s[m + i]
<1>. USE DEF Octets
<1>1. Len(s) \in Nat /\ <<>> \in Octets
  OBVIOUS
<1>2. \A i \in 1 .. Len(s) : s[i] \in 0 .. 255
  BY ElementOfSeq
<1>. QED
  BY <1>1, <1>2, Piece

LEMMA OctetsFromStart ==
  ASSUME NEW s \in Octets, NEW t, Within(s, t)
  PROVE  /\ SubSeq(s, 1, t) \in Octets /\ Len(SubSeq(s, 1, t)) = t
         /\ \A i \in 1 .. t : SubSeq(s, 1, t)[i] = s[i]
<1>1. PICK a : a = 0
  OBVIOUS
<1>2. a \in Nat /\ t \in a .. Len(s) /\ a + 1 = 1 /\ t - a = t
  BY <1>1, OctetsOf DEF Within
<1>3. /\ SubSeq(s, a + 1, t) \in Octets /\ Len(SubSeq(s, a + 1, t)) = t - a
      /\ \A i \in 1 .. t - a : SubSeq(s, a + 1, t)[i] = s[a + i]
  BY <1>2, OctetsOf
<1>. QED
  BY <1>1, <1>2, <1>3

LEMMA OctetsFrom ==
  ASSUME NEW s \in Octets, NEW f \in Nat \ {0}, NEW t \in Nat, f <= t + 1, Within(s, t)
  PROVE  /\ SubSeq(s, f, t) \in Octets /\ Len(SubSeq(s, f, t)) = t - (f - 1)
         /\ \A i \in 1 .. t - (f - 1) : SubSeq(s, f, t)[i] = s[(f - 1) + i]
<1>1. PICK a : a = f - 1
  OBVIOUS
<1>2. a \in Nat /\ t \in a .. Len(s) /\ a + 1 = f
  BY <1>1 DEF Within
<1>3. /\ SubSeq(s, a + 1, t) \in Octets /\ Len(SubSeq(s, a + 1, t)) = t - a
      /\ \A i \in 1 .. t - a : SubSeq(s, a + 1, t)[i] = s[a + i]
  BY <1>2, OctetsOf
<1>. QED
  BY <1>1, <1>2, <1>3

LEMMA OctetsAndMore ==
  ASSUME NEW s \in Octets, NEW f \in Nat \ {0}, NEW m \in Nat, NEW t \in Nat,
         f <= m + 1, m <= t, Within(s, t), NEW k \in 0 .. t - m
  PROVE  SubSeq(s, f, m) \o SubSeq(SubSeq(s, m + 1, t), 1, k) = SubSeq(s, f, m + k)
<1>1. PICK a : a = f - 1
  OBVIOUS
<1>2. /\ a \in Nat /\ m \in a .. Len(s) /\ t \in m .. Len(s) /\ s \in Seq(0 .. 255)
      /\ a + 1 = f
  BY <1>1 DEF Within, Octets
<1>3. SubSeq(s, a + 1, m) \o SubSeq(SubSeq(s, m + 1, t), 1, k) = SubSeq(s, a + 1, m + k)
  BY <1>2, PieceAndMore
<1>. QED
  BY <1>2, <1>3

LEMMA OctetsOfPiece ==
  ASSUME NEW s \in Octets, NEW f \in Nat \ {0}, NEW t \in Nat, f <= t + 1, Within(s, t),
         NEW i \in Nat \ {0}, NEW l \in Nat, i <= l + 1, (f - 1) + l <= t
  PROVE  SubSeq(SubSeq(s, f, t), i, l) = SubSeq(s, (f - 1) + i, (f - 1) + l)
<1>1. PICK a : a = f - 1
  OBVIOUS
<1>2. PICK k : k = i - 1
  OBVIOUS
<1>3. /\ a \in Nat /\ k \in 0 .. t - a /\ l \in k .. t - a /\ t \in a .. Len(s)
      /\ s \in Seq(0 .. 255) /\ a + 1 = f /\ k + 1 = i
  BY <1>1, <1>2 DEF Within, Octets
<1>4. SubSeq(SubSeq(s, a + 1, t), k + 1, l) = SubSeq(s, (a + k) + 1, a + l)
  BY <1>3, PieceOfPiece
<1>5. (a + k) + 1 = (f - 1) + i /\ a + l = (f - 1) + l
  BY <1>1, <1>2
<1>. QED
  BY <1>3, <1>4, <1>5

LEMMA WithinIs ==
  /\ \A s : \A m : Within(s, m) => m \in Nat
  /\ \A s : \A m : \A n \in Nat : Within(s, m) /\ n <= m /\ Len(s) \in Nat => Within(s, n)
BY DEF Within

LEMMA PhaseNamed == \A s, m : PhaseAt(s, m) \in DecoderPhases \ {"failed"}
BY PhaseIs DEF DecoderPhases, HeaderPhases

\* In the header nothing is decoded.
LEMMA InHeader ==
  ASSUME NEW s \in Octets, NEW m, Within(s, m), NEW g, InStep(g, s, m), g.phase \in HeaderPhases
  PROVE  /\ g.phase = PhaseAt(s, m) /\ m < HeaderCrcEnd(s)
         /\ ~g.ended /\ g.waiting = 0 /\ g.out = 0
<1>1. g.phase = PhaseAt(s, m)
  BY DEF InStep, HeaderPhases
<1>2. m < HeaderCrcEnd(s) /\ m < DataEnd(s)
  BY <1>1, HeaderIsBefore
<1>3. ~g.ended
  BY <1>2, Ends DEF InStep, Within
<1>4. g.out + g.waiting = 0 /\ g.out \in Nat /\ g.waiting \in Nat
  <2>1. g.out \in Nat /\ g.waiting \in Nat /\ g.out + g.waiting = Inflated(s, m)
    BY DEF InStep, Decoder
  <2>2. Inflated(s, m) = 0
    BY <1>2, Ends, InflatedIs DEF Within
  <2>. QED
    BY <2>1, <2>2
<1>. QED
  BY <1>1, <1>2, <1>3, <1>4

LEMMA HeaderGoesOn ==
  ASSUME NEW s \in Octets, NEW m, Within(s, m), m <= HeaderCrcEnd(s),
         NEW g \in Decoder, ~g.ended, g.waiting = 0, g.out = 0,
         g.phase = PhaseAt(s, m), Gathered(g, s, m)
  PROVE  InStep(g, s, m)
<1>1. m < DataEnd(s)
  BY Ends DEF Within
<1>2. g.phase \notin {"trailer", "done"}
  BY <1>1, Ends, PhaseWhere DEF Within
<1>3. g.out + g.waiting = Inflated(s, m)
  BY InflatedIs
<1>. QED
  BY <1>2, <1>3 DEF InStep

\* The decoder as it enters a field of the header, or the data behind it.
LEMMA NextField ==
  ASSUME NEW s \in Octets, NEW m, Within(s, m),
         m \in {10, ExtraDataEnd(s), NameEnd(s), CommentEnd(s), HeaderCrcEnd(s)},
         NEW g \in Decoder, ~g.ended, g.waiting = 0, g.out = 0, g.buf = <<>>,
         g.flg = Byte(s, 4), Byte(s, 3) = 8,
         g.phase = PhaseAt(s, m), g.phase # "extraData"
  PROVE  InStep(g, s, m)
<1>1. 10 <= m /\ m <= HeaderCrcEnd(s)
  BY Ends, SMTT(20) DEF Within
<1>2. g.phase = "extraLen" => m = 10
  <2>1. m = 10 \/ ExtraDataEnd(s) <= m
    BY Ends DEF Within
  <2>2. g.phase = "extraLen" => m < 12 /\ Has(s, "extraLen")
    BY PhaseWhere
  <2>3. Has(s, "extraLen") => 12 <= ExtraDataEnd(s)
    BY Ends DEF Within
  <2>. QED
    BY <2>1, <2>2, <2>3, Ends
<1>3. g.phase = "headerCrc" => m = CommentEnd(s)
  <2>1. m <= CommentEnd(s) \/ m = HeaderCrcEnd(s)
    BY Ends DEF Within
  <2>2. g.phase = "headerCrc" => CommentEnd(s) <= m /\ m < HeaderCrcEnd(s)
    BY PhaseWhere
  <2>. QED
    BY <2>1, <2>2, Ends
<1>4. m < DataEnd(s)
  BY <1>1, Ends DEF Within
<1>5. g.phase \notin {"header", "trailer"}
  BY <1>1, <1>4, Ends, PhaseWhere DEF Within
<1>6. \A n \in Nat : SubSeq(s, n + 1, n) = <<>>
  BY DEF Octets
<1>7. Gathered(g, s, m)
  <2>1. g.phase = "extraLen" => g.buf = SubSeq(s, 11, m)
    <3>1. SubSeq(s, 10 + 1, 10) = <<>>
      BY <1>6
    <3>. QED
      BY <1>2, <3>1
  <2>2. g.phase = "headerCrc" => g.buf = SubSeq(s, CommentEnd(s) + 1, m)
    BY <1>3, <1>6
  <2>. QED
    BY <1>5, <2>1, <2>2 DEF Gathered
<1>. QED
  BY <1>1, <1>7, HeaderGoesOn

\* Collecting a field of fixed length, which goes from byte f to byte e.
Collected(g, s, f, e, t, n) ==
  IF t < e THEN [n |-> n, gz |-> [g EXCEPT !.buf = SubSeq(s, f, t)]]
  ELSE [n |-> n - (t - e), gz |-> Completed([g EXCEPT !.buf = <<>>], SubSeq(s, f, e))]

Collecting(g, s, f, e, m, t) ==
  /\ g \in Decoder /\ g.phase \in DOMAIN Fixed /\ g.buf = SubSeq(s, f, m)
  /\ f \in Nat \ {0} /\ e \in Nat /\ e = (f - 1) + Fixed[g.phase]
  /\ m \in Nat /\ t \in Nat /\ f <= m + 1 /\ m < e /\ m < t /\ Within(s, t)

LEMMA Collects ==
  ASSUME NEW s \in Octets, NEW g, NEW f, NEW e, NEW m, NEW t, Collecting(g, s, f, e, m, t)
  PROVE  Collect(g, SubSeq(s, m + 1, t)) = Collected(g, s, f, e, t, t - m)
<1>. DEFINE a == f - 1
            d == SubSeq(s, m + 1, t)
            need == Fixed[g.phase] - Len(g.buf)
            n == Min({need, Len(d)})
            b == g.buf \o SubSeq(d, 1, n)
<1>. USE DEF Collecting
<1>1. /\ a \in Nat /\ f = a + 1 /\ m \in a .. Len(s) /\ t \in m .. Len(s)
      /\ s \in Seq(0 .. 255)
  BY DEF Within, Octets
<1>2. Len(d) = t - m /\ Len(g.buf) = m - a
  <2>. HIDE DEF a
  <2>. QED
    BY <1>1, Piece
<1>3. need = e - m /\ need \in Nat /\ Len(d) \in Nat
  <2>1. Fixed[g.phase] = e - a /\ a \in Nat
    BY DEF Fixed
  <2>2. need = (e - a) - (m - a)
    BY <1>2, <2>1
  <2>3. a \in Nat
    OBVIOUS
  <2>. HIDE DEF a, d, need
  <2>4. need = e - m
    BY <2>2, <2>3
  <2>5. need \in Nat
    BY <2>4
  <2>. QED
    BY <1>2, <2>4, <2>5
<1>4. n = IF need <= Len(d) THEN need ELSE Len(d)
  <2>. HIDE DEF need, d
  <2>. QED
    BY <1>3, MinOfTwo
<1>5. n \in 0 .. t - m /\ b = SubSeq(s, f, m + n)
  <2>1. n \in 0 .. t - m
    <3>. HIDE DEF need, n, d
    <3>. QED
      BY <1>2, <1>3, <1>4
  <2>. HIDE DEF n, a
  <2>2. SubSeq(s, f, m) \o SubSeq(SubSeq(s, m + 1, t), 1, n) = SubSeq(s, f, m + n)
    BY <2>1, OctetsAndMore
  <2>. QED
    BY <2>1, <2>2
<1>6. Collect(g, d) = [n |-> n, gz |-> IF n < need THEN [g EXCEPT !.buf = b]
                                       ELSE Completed([g EXCEPT !.buf = <<>>], b)]
  BY DEF Collect
<1>. HIDE DEF need, n, b, d, a
<1>7. CASE t < e
  <2>1. n = t - m /\ n < need /\ m + n = t
    BY <1>2, <1>3, <1>4, <1>7
  <2>. QED
    BY <1>5, <1>6, <1>7, <2>1 DEF d, Collected
<1>8. CASE ~(t < e)
  <2>1. n = (t - m) - (t - e) /\ ~(n < need) /\ m + n = e
    BY <1>2, <1>3, <1>4, <1>8
  <2>. QED
    BY <1>5, <1>6, <1>8, <2>1 DEF d, Collected
<1>. QED
  BY <1>7, <1>8
-----------------------------------------------------------------------------
(* One iteration of feed's loop, phase by phase.                           *)

LEMMA ConsumeIs ==
  ASSUME NEW g, NEW d
  PROVE  /\ g.phase \in DOMAIN Fixed => Consume(g, d) = Collect(g, d)
         /\ g.phase = "extraData" => Consume(g, d) = SkipExtra(g, d)
         /\ g.phase \in {"name", "comment"} => Consume(g, d) = SkipText(g, d)
         /\ g.phase = "deflate" => Consume(g, d) = InflateSome(g, d)
         /\ g.phase \in {"done", "failed"} => Consume(g, d) = [n |-> Len(d), gz |-> g]
BY DEF Consume, Fixed

LEMMA FixedIs ==
  /\ DOMAIN Fixed = {"header", "extraLen", "headerCrc", "trailer"}
  /\ Fixed["header"] = 10 /\ Fixed["extraLen"] = 2 /\ Fixed["headerCrc"] = 2
  /\ Fixed["trailer"] = 8
BY DEF Fixed

LEMMA ByteIs ==
  ASSUME NEW s \in Octets, NEW i \in 1 .. Len(s)
  PROVE  Byte(s, i) = s[i] /\ Byte(s, i) \in Nat
<1>1. s[i] \in 0 .. 255
  BY OctetsOf
<1>2. Byte(s, i) = s[i]
  BY OctetsOf DEF Byte
<1>3. 0 .. 255 \subseteq Nat
  OBVIOUS
<1>. QED
  BY <1>1, <1>2, <1>3, Zenon

LEMMA ReadsHeader ==
  ASSUME NEW s \in Octets, NEW m \in Nat, NEW t \in Nat, m < t, Within(s, t),
         NEW g, InStep(g, s, m), g.phase = "header", IsGzipStream(s)
  PROVE  Advances(Consume(g, SubSeq(s, m + 1, t)), s, m, t)
<1>. DEFINE r == Consume(g, SubSeq(s, m + 1, t))
            h == [g EXCEPT !.buf = <<>>]
            b == SubSeq(s, 1, 10)
<1>0. Within(s, m) /\ \A n \in Nat : n <= t => Within(s, n)
  BY OctetsOf, WithinIs
<1>1. /\ m < 10 /\ g \in Decoder /\ ~g.ended /\ g.waiting = 0 /\ g.out = 0
      /\ g.buf = SubSeq(s, 1, m)
  BY <1>0, InHeader, PhaseWhere DEF HeaderPhases, InStep, Gathered
<1>2. r = IF t < 10 THEN [n |-> t - m, gz |-> [g EXCEPT !.buf = SubSeq(s, 1, t)]]
          ELSE [n |-> 10 - m, gz |-> Completed(h, b)]
  <2>1. r = Collect(g, SubSeq(s, m + 1, t)) /\ g.phase \in DOMAIN Fixed /\ Fixed[g.phase] = 10
    BY ConsumeIs, FixedIs
  <2>2. Collecting(g, s, 1, 10, m, t)
    BY <1>1, <2>1 DEF Collecting
  <2>3. Collect(g, SubSeq(s, m + 1, t)) = Collected(g, s, 1, 10, t, t - m)
    BY <2>2, Collects
  <2>4. (t - m) - (t - 10) = 10 - m
    OBVIOUS
  <2>. HIDE DEF r
  <2>. QED
    BY <2>1, <2>3, <2>4 DEF Collected
<1>. HIDE DEF r
<1>3. CASE t < 10
  <2>1. r.n = t - m /\ r.gz = [g EXCEPT !.buf = SubSeq(s, 1, t)] /\ SubSeq(s, 1, t) \in Octets
    BY <1>2, <1>3, OctetsFromStart
  <2>2. /\ r.gz \in Decoder /\ r.gz.phase = "header" /\ r.gz.buf = SubSeq(s, 1, t)
        /\ ~r.gz.ended /\ r.gz.waiting = 0 /\ r.gz.out = 0
    BY <1>1, <2>1 DEF Decoder
  <2>3. PhaseAt(s, t) = "header" /\ t <= HeaderCrcEnd(s)
    <3>1. PhaseAt(s, t) = "header"
      BY <1>3, PhaseWhere
    <3>2. t <= 10
      BY <1>3
    <3>. QED
      BY <3>1, <3>2, HeaderGoesFar
  <2>4. Gathered(r.gz, s, t)
    BY <2>2, FixedIs DEF Gathered
  <2>5. InStep(r.gz, s, t)
    BY <2>2, <2>3, <2>4, HeaderGoesOn
  <2>6. m + r.n = t /\ r.n \in 0 .. t - m
    BY <2>1
  <2>. QED
    BY <2>2, <2>5, <2>6 DEF Advances, r
<1>4. CASE ~(t < 10)
  <2>1. /\ r.n = 10 - m /\ r.n \in 0 .. t - m /\ m + r.n = 10 /\ r.gz = Completed(h, b)
        /\ Within(s, 10)
    <3>1. Within(s, 10)
      BY <1>0, <1>4
    <3>2. r.n = 10 - m /\ r.gz = Completed(h, b)
      BY <1>2, <1>4
    <3>. QED
      BY <1>1, <1>4, <3>1, <3>2
  <2>2. /\ h \in Decoder /\ h.phase = "header" /\ h.buf = <<>> /\ ~h.ended
        /\ h.waiting = 0 /\ h.out = 0
    BY <1>1, OctetsOf DEF Decoder
  <2>. HIDE DEF h
  <2>3. Completed(h, b) = HeaderRead(h, b)
    BY <2>2 DEF Completed
  <2>4. SubSeq(b, 1, 2) = GzipMagic
    <3>1. SubSeq(b, 1, 2) = SubSeq(s, (1 - 1) + 1, (1 - 1) + 2)
      BY <2>1, OctetsOfPiece
    <3>. QED
      BY <3>1 DEF IsGzipStream
  <2>5. b[3] = Byte(s, 3) /\ b[4] = Byte(s, 4) /\ Byte(s, 4) \in Nat
    <3>1. 3 \in 1 .. Len(s) /\ 4 \in 1 .. Len(s) /\ 3 \in 1 .. 10 /\ 4 \in 1 .. 10
      BY <2>1, OctetsOf DEF Within
    <3>2. b[3] = s[3] /\ b[4] = s[4]
      BY <2>1, <3>1, OctetsFromStart
    <3>3. Byte(s, 3) = s[3] /\ Byte(s, 4) = s[4] /\ Byte(s, 4) \in Nat
      BY <3>1, ByteIs
    <3>. QED
      BY <3>2, <3>3
  <2>. HIDE DEF b
  <2>6. CASE b[3] # 8
    <3>1. r.gz = [h EXCEPT !.phase = "failed"]
      BY <2>1, <2>3, <2>6 DEF HeaderRead
    <3>2. r.gz \in Decoder /\ r.gz.phase = "failed"
      BY <2>2, <3>1 DEF Decoder, DecoderPhases
    <3>. QED
      BY <2>1, <2>5, <2>6, <3>2 DEF Advances, Sound, r
  <2>7. CASE b[3] = 8
    <3>1. r.gz = [h EXCEPT !.flg = Byte(s, 4), !.phase = Advance(Byte(s, 4), 0)]
      BY <2>1, <2>3, <2>4, <2>5, <2>7 DEF HeaderRead
    <3>2. PhaseAt(s, 10) = Advance(Byte(s, 4), 0)
      BY <2>1, FieldFollows
    <3>3. Advance(Byte(s, 4), 0) \in DecoderPhases \ {"failed"}
      BY <3>2, PhaseNamed
    <3>. HIDE DEF DecoderPhases
    <3>4. /\ r.gz.phase = PhaseAt(s, 10) /\ r.gz.flg = Byte(s, 4) /\ r.gz.buf = <<>>
          /\ ~r.gz.ended /\ r.gz.waiting = 0 /\ r.gz.out = 0 /\ r.gz \in Decoder
      BY <2>2, <2>5, <3>1, <3>2, <3>3 DEF Decoder
    <3>5. r.gz.phase # "extraData"
      BY <2>1, <3>4, PhaseWhere
    <3>6. InStep(r.gz, s, 10)
      BY <2>1, <2>5, <2>7, <3>4, <3>5, NextField
    <3>. QED
      BY <2>1, <3>2, <3>3, <3>4, <3>6 DEF Advances, r
  <2>. QED
    BY <2>6, <2>7
<1>. QED
  BY <1>3, <1>4

\* A decoder that has taken bytes up to k and stays in the header.
LEMMA StaysInHeader ==
  ASSUME NEW s \in Octets, NEW m \in Nat, NEW t \in Nat, m < t, Within(s, t),
         NEW k \in m .. t, NEW h \in Decoder, ~h.ended, h.waiting = 0, h.out = 0,
         h.phase = PhaseAt(s, k), h.phase \in HeaderPhases, Gathered(h, s, k)
  PROVE  Advances([n |-> k - m, gz |-> h], s, m, t)
<1>1. Within(s, k) /\ k \in Nat
  BY OctetsOf, WithinIs
<1>2. k < HeaderCrcEnd(s)
  BY <1>1, HeaderIsBefore
<1>3. k <= HeaderCrcEnd(s)
  BY <1>1, <1>2, Ends
<1>4. InStep(h, s, k)
  BY <1>1, <1>3, HeaderGoesOn
<1>5. k - m \in 0 .. t - m /\ m + (k - m) = k /\ h.phase # "failed"
  BY <1>1 DEF HeaderPhases
<1>. QED
  BY <1>4, <1>5 DEF Advances

\* A decoder that has taken bytes up to the end of a field of the header.
LEMMA EntersField ==
  ASSUME NEW s \in Octets, NEW m \in Nat, NEW t \in Nat, m < t, Within(s, t),
         NEW k \in m .. t,
         k \in {10, ExtraDataEnd(s), NameEnd(s), CommentEnd(s), HeaderCrcEnd(s)},
         NEW h \in Decoder, ~h.ended, h.waiting = 0, h.out = 0, h.buf = <<>>,
         h.flg = Byte(s, 4), Byte(s, 3) = 8,
         h.phase = PhaseAt(s, k), h.phase # "extraData"
  PROVE  Advances([n |-> k - m, gz |-> h], s, m, t)
<1>1. Within(s, k) /\ k \in Nat
  BY OctetsOf, WithinIs
<1>2. InStep(h, s, k)
  BY <1>1, NextField
<1>3. k - m \in 0 .. t - m /\ m + (k - m) = k
  BY <1>1
<1>4. h.phase # "failed"
  BY PhaseNamed
<1>. QED
  BY <1>2, <1>3, <1>4 DEF Advances

LEMMA ReadsExtraLen ==
  ASSUME NEW s \in Octets, NEW m \in Nat, NEW t \in Nat, m < t, Within(s, t),
         NEW g, InStep(g, s, m), g.phase = "extraLen"
  PROVE  Advances(Consume(g, SubSeq(s, m + 1, t)), s, m, t)
<1>. DEFINE r == Consume(g, SubSeq(s, m + 1, t))
            h == [g EXCEPT !.buf = <<>>]
            b == SubSeq(s, 11, 12)
<1>0. Within(s, m) /\ \A n \in Nat : n <= t => Within(s, n)
  BY OctetsOf, WithinIs
<1>1. /\ g \in Decoder /\ ~g.ended /\ g.waiting = 0 /\ g.out = 0
      /\ g.buf = SubSeq(s, 11, m) /\ g.flg = Byte(s, 4) /\ Byte(s, 3) = 8
  BY <1>0, InHeader DEF HeaderPhases, InStep, Gathered
<1>2. 10 <= m /\ m < 12 /\ Has(s, "extraLen")
  BY <1>0, InHeader, PhaseWhere DEF HeaderPhases
<1>3. r = IF t < 12 THEN [n |-> t - m, gz |-> [g EXCEPT !.buf = SubSeq(s, 11, t)]]
          ELSE [n |-> 12 - m, gz |-> Completed(h, b)]
  <2>1. r = Collect(g, SubSeq(s, m + 1, t)) /\ g.phase \in DOMAIN Fixed /\ Fixed[g.phase] = 2
    BY ConsumeIs, FixedIs
  <2>2. Collecting(g, s, 11, 12, m, t)
    BY <1>1, <1>2, <2>1 DEF Collecting
  <2>3. Collect(g, SubSeq(s, m + 1, t)) = Collected(g, s, 11, 12, t, t - m)
    BY <2>2, Collects
  <2>4. (t - m) - (t - 12) = 12 - m
    OBVIOUS
  <2>. HIDE DEF r
  <2>. QED
    BY <2>1, <2>3, <2>4 DEF Collected
<1>. HIDE DEF r
<1>4. CASE t < 12
  <2>. DEFINE p == [g EXCEPT !.buf = SubSeq(s, 11, t)]
  <2>1. SubSeq(s, 11, t) \in Octets
    BY <1>2, OctetsFrom
  <2>2. /\ p \in Decoder /\ p.phase = "extraLen" /\ p.buf = SubSeq(s, 11, t)
        /\ p.flg = Byte(s, 4) /\ ~p.ended /\ p.waiting = 0 /\ p.out = 0
    BY <1>1, <2>1 DEF Decoder
  <2>3. r = [n |-> t - m, gz |-> p]
    BY <1>3, <1>4
  <2>. HIDE DEF p
  <2>4. 10 <= t /\ t \in m .. t
    BY <1>2
  <2>5. PhaseAt(s, t) = "extraLen"
    BY <1>2, <1>4, <2>4, PhaseWhere
  <2>6. Gathered(p, s, t)
    BY <1>1, <2>2, FixedIs DEF Gathered
  <2>7. Advances([n |-> t - m, gz |-> p], s, m, t)
    BY <2>2, <2>4, <2>5, <2>6, StaysInHeader DEF HeaderPhases
  <2>. QED
    BY <2>3, <2>7 DEF r
<1>5. CASE ~(t < 12)
  <2>1. Within(s, 12) /\ 12 \in m .. t
    BY <1>0, <1>2, <1>5
  <2>2. r = [n |-> 12 - m, gz |-> Completed(h, b)]
    BY <1>3, <1>5
  <2>3. /\ h \in Decoder /\ h.phase = "extraLen" /\ h.buf = <<>> /\ ~h.ended
        /\ h.waiting = 0 /\ h.out = 0 /\ h.flg = Byte(s, 4)
    BY <1>1, OctetsOf DEF Decoder
  <2>. HIDE DEF h
  <2>4. Completed(h, b) = ExtraLenRead(h, b)
    BY <2>3 DEF Completed
  <2>5. b[1] = Byte(s, 11) /\ b[2] = Byte(s, 12) /\ {Byte(s, 11), Byte(s, 12)} \subseteq Nat
    <3>1. 11 \in 1 .. Len(s) /\ 12 \in 1 .. Len(s)
      BY <2>1, OctetsOf DEF Within
    <3>2. \A i \in 1 .. 12 - (11 - 1) : b[i] = s[(11 - 1) + i]
      BY <2>1, OctetsFrom
    <3>3. b[1] = s[11] /\ b[2] = s[12]
      BY <3>2
    <3>4. /\ Byte(s, 11) = s[11] /\ Byte(s, 12) = s[12]
          /\ Byte(s, 11) \in Nat /\ Byte(s, 12) \in Nat
      BY <3>1, ByteIs
    <3>. QED
      BY <3>3, <3>4
  <2>. HIDE DEF b
  <2>. DEFINE xlen == Byte(s, 11) + 256 * Byte(s, 12)
  <2>6. xlen \in Nat /\ ExtraDataEnd(s) = 12 + xlen
    <3>1. PICK x \in Nat : x = Byte(s, 11)
      BY <2>5
    <3>2. PICK y \in Nat : y = Byte(s, 12)
      BY <2>5
    <3>3. ExtraDataEnd(s) = 12 + x + 256 * y /\ xlen = x + 256 * y
      BY <1>2, <3>1, <3>2 DEF ExtraDataEnd
    <3>. QED
      BY <3>3
  <2>7. Completed(h, b) = [h EXCEPT !.skip = xlen,
                             !.phase = IF xlen = 0 THEN Advance(Byte(s, 4), 1) ELSE "extraData"]
    BY <2>3, <2>4, <2>5 DEF ExtraLenRead
  <2>. HIDE DEF xlen
  <2>8. CASE xlen = 0
    <3>. DEFINE p == [h EXCEPT !.skip = xlen, !.phase = Advance(Byte(s, 4), 1)]
    <3>1. ExtraDataEnd(s) = 12
      BY <2>6, <2>8
    <3>2. PhaseAt(s, 12) = Advance(Byte(s, 4), 1)
      BY <2>1, <3>1, FieldFollows
    <3>3. PhaseAt(s, 12) # "extraData"
      BY <2>1, <3>1, PhaseWhere
    <3>4. Advance(Byte(s, 4), 1) \in DecoderPhases
      BY <3>2, PhaseNamed
    <3>. HIDE DEF DecoderPhases
    <3>5. /\ p \in Decoder /\ p.phase = PhaseAt(s, 12) /\ p.flg = Byte(s, 4) /\ p.buf = <<>>
          /\ ~p.ended /\ p.waiting = 0 /\ p.out = 0
      BY <2>3, <2>6, <3>2, <3>4 DEF Decoder
    <3>6. r = [n |-> 12 - m, gz |-> p]
      BY <2>2, <2>7, <2>8
    <3>. HIDE DEF p
    <3>7. Advances([n |-> 12 - m, gz |-> p], s, m, t)
      BY <1>1, <2>1, <3>1, <3>3, <3>5, EntersField
    <3>. QED
      BY <3>6, <3>7 DEF r
  <2>9. CASE xlen # 0
    <3>. DEFINE p == [h EXCEPT !.skip = xlen, !.phase = "extraData"]
    <3>1. 12 < ExtraDataEnd(s) /\ xlen = ExtraDataEnd(s) - 12
      BY <2>6, <2>9
    <3>2. PhaseAt(s, 12) = "extraData"
      BY <1>2, <2>1, <3>1, PhaseWhere
    <3>3. /\ p \in Decoder /\ p.phase = "extraData" /\ p.flg = Byte(s, 4) /\ p.buf = <<>>
          /\ ~p.ended /\ p.waiting = 0 /\ p.out = 0 /\ p.skip = xlen
      BY <2>3, <2>6 DEF Decoder, DecoderPhases, HeaderPhases
    <3>4. r = [n |-> 12 - m, gz |-> p]
      BY <2>2, <2>7, <2>9
    <3>. HIDE DEF p
    <3>5. Gathered(p, s, 12)
      BY <1>1, <3>1, <3>3 DEF Gathered
    <3>6. Advances([n |-> 12 - m, gz |-> p], s, m, t)
      BY <2>1, <3>2, <3>3, <3>5, StaysInHeader DEF HeaderPhases
    <3>. QED
      BY <3>4, <3>6 DEF r
  <2>. QED
    BY <2>8, <2>9
<1>. QED
  BY <1>4, <1>5

LEMMA SkipsExtraData ==
  ASSUME NEW s \in Octets, NEW m \in Nat, NEW t \in Nat, m < t, Within(s, t),
         NEW g, InStep(g, s, m), g.phase = "extraData"
  PROVE  Advances(Consume(g, SubSeq(s, m + 1, t)), s, m, t)
<1>. DEFINE d == SubSeq(s, m + 1, t)
            r == Consume(g, d)
            n == Min({g.skip, Len(d)})
            e == ExtraDataEnd(s)
<1>0. Within(s, m) /\ \A k \in Nat : k <= t => Within(s, k)
  BY OctetsOf, WithinIs
<1>1. /\ g \in Decoder /\ ~g.ended /\ g.waiting = 0 /\ g.out = 0 /\ g.buf = <<>>
      /\ g.flg = Byte(s, 4) /\ Byte(s, 3) = 8 /\ g.skip = e - m
  BY <1>0, InHeader, FixedIs DEF HeaderPhases, InStep, Gathered
<1>2. 12 <= m /\ m < e /\ Has(s, "extraLen") /\ e \in Nat
  BY <1>0, InHeader, PhaseWhere, Ends DEF HeaderPhases
<1>3. Len(d) = t - m
  <2>1. Len(d) = t - ((m + 1) - 1)
    BY OctetsFrom
  <2>. QED
    BY <2>1
<1>4. n = IF e <= t THEN e - m ELSE t - m
  <2>. HIDE DEF e, d
  <2>1. e - m \in Nat /\ t - m \in Nat /\ (e - m <= t - m <=> e <= t)
    BY <1>2
  <2>2. n = Min({e - m, t - m})
    BY <1>1, <1>3
  <2>. QED
    BY <2>1, <2>2, MinOfTwo
<1>5. r = [n |-> n, gz |-> [g EXCEPT !.skip = @ - n,
                              !.phase = IF n = g.skip THEN Advance(g.flg, 1) ELSE @]]
  <2>1. r = SkipExtra(g, d)
    BY ConsumeIs
  <2>. QED
    BY <2>1 DEF SkipExtra
<1>. HIDE DEF n, r, e, d
<1>6. CASE t < e
  <2>. DEFINE p == [g EXCEPT !.skip = e - t]
  <2>1. n = t - m /\ n # g.skip /\ g.skip - n = e - t /\ e - t \in Nat
    BY <1>1, <1>2, <1>4, <1>6
  <2>2. r = [n |-> t - m, gz |-> p]
    BY <1>1, <1>5, <2>1 DEF Decoder
  <2>3. /\ p \in Decoder /\ p.phase = "extraData" /\ p.flg = Byte(s, 4) /\ p.buf = <<>>
        /\ ~p.ended /\ p.waiting = 0 /\ p.out = 0 /\ p.skip = e - t
    BY <1>1, <2>1 DEF Decoder
  <2>. HIDE DEF p
  <2>4. t \in m .. t /\ 12 <= t
    BY <1>2
  <2>5. PhaseAt(s, t) = "extraData"
    BY <1>2, <1>6, <2>4, PhaseWhere DEF e
  <2>6. Gathered(p, s, t)
    BY <1>1, <2>3 DEF Gathered, e
  <2>7. Advances([n |-> t - m, gz |-> p], s, m, t)
    BY <2>3, <2>4, <2>5, <2>6, StaysInHeader DEF HeaderPhases
  <2>. QED
    BY <2>2, <2>7 DEF r, d
<1>7. CASE ~(t < e)
  <2>. DEFINE p == [g EXCEPT !.skip = 0, !.phase = Advance(Byte(s, 4), 1)]
  <2>1. n = e - m /\ n = g.skip /\ g.skip - n = 0 /\ e \in m .. t
    BY <1>1, <1>2, <1>4, <1>7
  <2>2. r = [n |-> e - m, gz |-> p]
    BY <1>1, <1>5, <2>1 DEF Decoder
  <2>3. Within(s, e)
    BY <1>0, <1>2, <2>1
  <2>4. PhaseAt(s, e) = Advance(Byte(s, 4), 1)
    BY <2>3, FieldFollows DEF e
  <2>5. PhaseAt(s, e) # "extraData"
    BY <1>2, <2>3, PhaseWhere DEF e
  <2>6. Advance(Byte(s, 4), 1) \in DecoderPhases
    BY <2>4, PhaseNamed
  <2>. HIDE DEF DecoderPhases
  <2>7. /\ p \in Decoder /\ p.phase = PhaseAt(s, e) /\ p.flg = Byte(s, 4) /\ p.buf = <<>>
        /\ ~p.ended /\ p.waiting = 0 /\ p.out = 0
    BY <1>1, <2>4, <2>6 DEF Decoder
  <2>. HIDE DEF p
  <2>8. Advances([n |-> e - m, gz |-> p], s, m, t)
    <3>1. e \in {10, ExtraDataEnd(s), NameEnd(s), CommentEnd(s), HeaderCrcEnd(s)}
      BY DEF e
    <3>. QED
      BY <1>1, <2>1, <2>5, <2>7, <3>1, EntersField
  <2>. QED
    BY <2>2, <2>8 DEF r, d
<1>. QED
  BY <1>6, <1>7

\* A text goes on from byte m, which is behind byte a, and ends with the zero at e.
LEMMA SkipsText ==
  ASSUME NEW s \in Octets, NEW m \in Nat, NEW t \in Nat, m < t, Within(s, t),
         NEW g, InStep(g, s, m), g.phase \in {"name", "comment"}
  PROVE  Advances(Consume(g, SubSeq(s, m + 1, t)), s, m, t)
<1>. DEFINE d == SubSeq(s, m + 1, t)
            r == Consume(g, d)
            hits == Hits(d, {0})
            field == IF g.phase = "name" THEN 2 ELSE 3
            a == IF g.phase = "name" THEN ExtraDataEnd(s) ELSE NameEnd(s)
            e == IF g.phase = "name" THEN NameEnd(s) ELSE CommentEnd(s)
<1>0. Within(s, m) /\ \A k \in Nat : k <= t => Within(s, k)
  BY OctetsOf, WithinIs
<1>1. /\ g \in Decoder /\ ~g.ended /\ g.waiting = 0 /\ g.out = 0 /\ g.buf = <<>>
      /\ g.flg = Byte(s, 4) /\ Byte(s, 3) = 8 /\ g.phase = PhaseAt(s, m)
  BY <1>0, InHeader, FixedIs DEF HeaderPhases, InStep, Gathered
<1>2. a \in Nat /\ e \in Nat /\ a <= m /\ m < e
  BY <1>0, <1>1, PhaseWhere, Ends
<1>3. e = FirstAfter(s, a, {0})
  <2>1. a # e
    BY <1>2
  <2>2. CASE g.phase = "name"
    BY <2>1, <2>2, Ends DEF NameEnd
  <2>3. CASE g.phase = "comment"
    BY <2>1, <2>3, Ends DEF CommentEnd
  <2>. QED
    BY <2>2, <2>3
<1>4. Len(d) = t - m
  <2>1. Len(d) = t - ((m + 1) - 1)
    BY OctetsFrom
  <2>. QED
    BY <2>1
<1>5. r = IF hits = {} THEN [n |-> t - m, gz |-> g]
          ELSE [n |-> Min(hits), gz |-> [g EXCEPT !.phase = Advance(Byte(s, 4), field)]]
  <2>1. r = SkipText(g, d)
    BY ConsumeIs
  <2>2. {i \in 1 .. Len(d) : d[i] = 0} = hits
    BY DEF Hits
  <2>. HIDE DEF hits, d
  <2>. QED
    BY <1>1, <1>4, <2>1, <2>2 DEF SkipText
<1>6. /\ hits = {} => t < e
      /\ hits # {} => e <= t /\ Min(hits) = e - m
  <2>. HIDE DEF a, e
  <2>1. Searching(s, a, {0}, m, t)
    BY <1>2, <1>3 DEF Searching
  <2>. QED
    BY <1>3, <2>1, FoundInPiece
<1>7. e = NameEnd(s) \/ e = CommentEnd(s)
  OBVIOUS
<1>8. CASE hits = {}
  <2>1. t < e /\ r = [n |-> t - m, gz |-> g] /\ t \in m .. t /\ a <= t
    BY <1>2, <1>5, <1>6, <1>8
  <2>2. PhaseAt(s, t) = g.phase
    BY <2>1, PhaseWhere
  <2>. HIDE DEF r, e, a
  <2>3. Gathered(g, s, t)
    BY <1>1, FixedIs DEF Gathered
  <2>4. Advances([n |-> t - m, gz |-> g], s, m, t)
    BY <1>1, <2>1, <2>2, <2>3, StaysInHeader DEF HeaderPhases
  <2>. QED
    BY <2>1, <2>4 DEF r, d
<1>9. CASE hits # {}
  <2>. DEFINE p == [g EXCEPT !.phase = Advance(Byte(s, 4), field)]
  <2>1. e \in m .. t /\ r = [n |-> e - m, gz |-> p]
    <3>. HIDE DEF e, r, hits
    <3>. QED
      BY <1>2, <1>5, <1>6, <1>9
  <2>2. Within(s, e)
    <3>. HIDE DEF e
    <3>. QED
      BY <1>0, <1>2, <2>1
  <2>3. PhaseAt(s, e) = Advance(Byte(s, 4), field)
    BY <2>2, FieldFollows
  <2>4. PhaseAt(s, e) # "extraData"
    <3>1. ExtraDataEnd(s) <= e
      BY <2>2, Ends DEF Within
    <3>. HIDE DEF e
    <3>. QED
      BY <1>2, <2>2, <3>1, PhaseWhere, Ends
  <2>5. Advance(Byte(s, 4), field) \in DecoderPhases
    BY <2>3, PhaseNamed
  <2>. HIDE DEF DecoderPhases, field, e, r
  <2>6. /\ p \in Decoder /\ p.phase = PhaseAt(s, e) /\ p.flg = Byte(s, 4) /\ p.buf = <<>>
        /\ ~p.ended /\ p.waiting = 0 /\ p.out = 0
    BY <1>1, <2>3, <2>5 DEF Decoder
  <2>. HIDE DEF p
  <2>7. e \in {10, ExtraDataEnd(s), NameEnd(s), CommentEnd(s), HeaderCrcEnd(s)}
    BY <1>7
  <2>8. Advances([n |-> e - m, gz |-> p], s, m, t)
    BY <1>1, <2>1, <2>4, <2>6, <2>7, EntersField
  <2>. QED
    BY <2>1, <2>8 DEF r, d
<1>. QED
  BY <1>8, <1>9

LEMMA ReadsHeaderCrc ==
  ASSUME NEW s \in Octets, NEW m \in Nat, NEW t \in Nat, m < t, Within(s, t),
         NEW g, InStep(g, s, m), g.phase = "headerCrc"
  PROVE  Advances(Consume(g, SubSeq(s, m + 1, t)), s, m, t)
<1>. DEFINE r == Consume(g, SubSeq(s, m + 1, t))
            h == [g EXCEPT !.buf = <<>>]
            f == CommentEnd(s) + 1
            e == HeaderCrcEnd(s)
<1>0. Within(s, m) /\ \A n \in Nat : n <= t => Within(s, n)
  BY OctetsOf, WithinIs
<1>1. /\ g \in Decoder /\ ~g.ended /\ g.waiting = 0 /\ g.out = 0
      /\ g.buf = SubSeq(s, f, m) /\ g.flg = Byte(s, 4) /\ Byte(s, 3) = 8
  BY <1>0, InHeader DEF HeaderPhases, InStep, Gathered
<1>2. f <= m + 1 /\ m < e /\ f \in Nat \ {0} /\ e \in Nat /\ e = (f - 1) + 2
  <2>1. PhaseAt(s, m) = "headerCrc"
    BY <1>0, InHeader DEF HeaderPhases
  <2>2. CommentEnd(s) <= m /\ m < e
    BY <1>0, <2>1, PhaseWhere
  <2>3. CommentEnd(s) \in Nat /\ e \in Nat /\ e = CommentEnd(s) + 2
    BY <2>2, Ends
  <2>. HIDE DEF e
  <2>. QED
    BY <2>2, <2>3
<1>3. r = IF t < e THEN [n |-> t - m, gz |-> [g EXCEPT !.buf = SubSeq(s, f, t)]]
          ELSE [n |-> e - m, gz |-> Completed(h, SubSeq(s, f, e))]
  <2>1. r = Collect(g, SubSeq(s, m + 1, t)) /\ g.phase \in DOMAIN Fixed /\ Fixed[g.phase] = 2
    BY ConsumeIs, FixedIs
  <2>. HIDE DEF f, e
  <2>2. Collecting(g, s, f, e, m, t)
    BY <1>1, <1>2, <2>1 DEF Collecting
  <2>3. Collect(g, SubSeq(s, m + 1, t)) = Collected(g, s, f, e, t, t - m)
    BY <2>2, Collects
  <2>4. (t - m) - (t - e) = e - m
    BY <1>2
  <2>. HIDE DEF r
  <2>. QED
    BY <2>1, <2>3, <2>4 DEF Collected
<1>. HIDE DEF r
<1>4. CASE t < e
  <2>. DEFINE p == [g EXCEPT !.buf = SubSeq(s, f, t)]
  <2>1. SubSeq(s, f, t) \in Octets /\ f <= t + 1 /\ CommentEnd(s) <= t
    <3>2. CommentEnd(s) \in Nat /\ CommentEnd(s) + 1 <= m + 1
      BY <1>2, Ends
    <3>1. f <= t + 1 /\ CommentEnd(s) <= t
      BY <3>2
    <3>. HIDE DEF f
    <3>. QED
      BY <1>2, <3>1, OctetsFrom
  <2>2. /\ p \in Decoder /\ p.phase = "headerCrc" /\ p.buf = SubSeq(s, f, t)
        /\ p.flg = Byte(s, 4) /\ ~p.ended /\ p.waiting = 0 /\ p.out = 0
    BY <1>1, <2>1 DEF Decoder
  <2>3. r = [n |-> t - m, gz |-> p]
    BY <1>3, <1>4
  <2>. HIDE DEF p
  <2>4. t \in m .. t
    OBVIOUS
  <2>5. PhaseAt(s, t) = "headerCrc"
    BY <1>4, <2>1, PhaseWhere
  <2>6. Gathered(p, s, t)
    BY <1>1, <2>2, FixedIs DEF Gathered
  <2>7. Advances([n |-> t - m, gz |-> p], s, m, t)
    BY <2>2, <2>4, <2>5, <2>6, StaysInHeader DEF HeaderPhases
  <2>. QED
    BY <2>3, <2>7 DEF r
<1>5. CASE ~(t < e)
  <2>. DEFINE p == [h EXCEPT !.phase = "deflate"]
  <2>1. Within(s, e) /\ e \in m .. t
    BY <1>0, <1>2, <1>5
  <2>2. Completed(h, SubSeq(s, f, e)) = p
    BY DEF Completed, HeaderCrcRead
  <2>3. r = [n |-> e - m, gz |-> p]
    BY <1>3, <1>5, <2>2
  <2>4. PhaseAt(s, e) = "deflate"
    BY <2>1, FieldFollows
  <2>5. /\ p \in Decoder /\ p.phase = PhaseAt(s, e) /\ p.flg = Byte(s, 4) /\ p.buf = <<>>
        /\ ~p.ended /\ p.waiting = 0 /\ p.out = 0
    <3>1. <<>> \in Octets
      BY OctetsOf
    <3>. QED
      BY <1>1, <2>4, <3>1 DEF Decoder, DecoderPhases
  <2>. HIDE DEF p
  <2>6. e \in {10, ExtraDataEnd(s), NameEnd(s), CommentEnd(s), HeaderCrcEnd(s)}
    OBVIOUS
  <2>. HIDE DEF e
  <2>7. Advances([n |-> e - m, gz |-> p], s, m, t)
    BY <1>1, <2>1, <2>4, <2>5, <2>6, EntersField
  <2>. QED
    BY <2>3, <2>7 DEF r
<1>. QED
  BY <1>4, <1>5

LEMMA Products ==
  /\ \A n \in Nat : Ratio * n \in Nat
  /\ \A i, j \in Nat : Ratio * (i + j) = Ratio * i + Ratio * j
BY Sizes

\* inflate that takes n bytes, the last of them the end of the data or one that does
\* not decode, and InflateSome on it.
Inflation(g, n, isEnd, garbled, made) ==
  LET left == made - Min({made, OutSize})
  IN [n |-> n,
      gz |-> [g EXCEPT !.ended = @ \/ isEnd, !.waiting = left, !.out = @ + Min({made, OutSize}),
                       !.phase = IF garbled THEN "failed"
                                 ELSE IF (g.ended \/ isEnd) /\ left = 0 THEN "trailer" ELSE @]]

LEMMA InflateIs ==
  ASSUME NEW g \in Decoder, NEW d \in Octets
  PROVE  LET stops == Hits(d, {EndOfData, Garbled})
         IN /\ g.waiting > 0 \/ g.ended =>
                 InflateSome(g, d) = Inflation(g, 0, FALSE, FALSE, g.waiting)
            /\ g.waiting = 0 /\ ~g.ended /\ stops = {} =>
                 InflateSome(g, d) = Inflation(g, Len(d), FALSE, FALSE, Ratio * Len(d))
            /\ g.waiting = 0 /\ ~g.ended /\ stops # {} =>
                 /\ Min(stops) \in 1 .. Len(d)
                 /\ InflateSome(g, d) = Inflation(g, Min(stops), TRUE, d[Min(stops)] = Garbled,
                                                  Ratio * (Min(stops) - 1))
<1>. DEFINE stops == Hits(d, {EndOfData, Garbled})
            n == IF g.waiting > 0 \/ g.ended THEN 0
                 ELSE IF stops = {} THEN Len(d) ELSE Min(stops)
            isEnd == n > 0 /\ d[n] \in {EndOfData, Garbled}
            bad == n > 0 /\ d[n] = Garbled
            made == g.waiting + Ratio * (IF isEnd THEN n - 1 ELSE n)
            w == Min({made, OutSize})
            q == [g EXCEPT !.ended = @ \/ isEnd, !.waiting = made - w, !.out = @ + w]
<1>1. stops = {i \in 1 .. Len(d) : d[i] \in {EndOfData, Garbled}} /\ Len(d) \in Nat
  BY OctetsOf DEF Hits
<1>2. Inflate(g, d) = [n |-> n, garbled |-> bad, gz |-> q]
  <2>. HIDE DEF stops
  <2>. QED
    BY <1>1 DEF Inflate
<1>3. InflateSome(g, d) = Inflation(g, n, isEnd, bad, made)
  <2>1. InflateSome(g, d) =
          [n |-> n, gz |-> [q EXCEPT !.phase = IF bad THEN "failed"
                                               ELSE IF q.ended /\ q.waiting = 0 THEN "trailer"
                                               ELSE @]]
    <3>. HIDE DEF n, bad, q
    <3>. QED
      BY <1>2 DEF InflateSome
  <2>. HIDE DEF n, isEnd, bad, made, w
  <2>2. q.ended = (g.ended \/ isEnd) /\ q.waiting = made - w /\ q.phase = g.phase
    BY DEF Decoder
  <2>3. Inflation(g, n, isEnd, bad, made) =
          [n |-> n, gz |-> [q EXCEPT !.phase = IF bad THEN "failed"
                                     ELSE IF (g.ended \/ isEnd) /\ made - w = 0 THEN "trailer"
                                     ELSE @]]
    BY DEF Inflation, w
  <2>. DEFINE then == IF bad THEN "failed" ELSE IF q.ended /\ q.waiting = 0 THEN "trailer"
                      ELSE q.phase
              also == IF bad THEN "failed"
                      ELSE IF (g.ended \/ isEnd) /\ made - w = 0 THEN "trailer" ELSE q.phase
  <2>. HIDE DEF q
  <2>4. then = also
    BY <2>2
  <2>5. /\ InflateSome(g, d) = [n |-> n, gz |-> [q EXCEPT !.phase = then]]
        /\ Inflation(g, n, isEnd, bad, made) = [n |-> n, gz |-> [q EXCEPT !.phase = also]]
    BY <2>1, <2>3, Zenon
  <2>. HIDE DEF then, also
  <2>. QED
    BY <2>4, <2>5, Zenon
<1>4. g.waiting \in Nat /\ g.waiting + Ratio * 0 = g.waiting
  BY Sizes DEF Decoder
<1>5. stops # {} => Min(stops) \in stops
  <2>1. stops \in SUBSET Nat
    <3>1. \A N \in Nat : 1 .. N \subseteq Nat
      OBVIOUS
    <3>2. stops \subseteq 1 .. Len(d)
      BY DEF Hits
    <3>. HIDE DEF stops
    <3>. QED
      BY <1>1, <3>1, <3>2
  <2>. HIDE DEF stops
  <2>. QED
    BY <2>1, MinIsLeast
<1>. HIDE DEF stops
<1>6. g.waiting > 0 \/ g.ended => n = 0 /\ isEnd = FALSE /\ bad = FALSE /\ made = g.waiting
  BY <1>4
<1>7. ASSUME g.waiting = 0, ~g.ended, stops = {}
      PROVE  n = Len(d) /\ isEnd = FALSE /\ bad = FALSE /\ made = Ratio * Len(d)
  <2>1. n = Len(d) /\ (n > 0 => d[n] \notin {EndOfData, Garbled})
    BY <1>1, <1>7
  <2>2. isEnd = FALSE /\ bad = FALSE
    BY <2>1
  <2>3. Ratio * Len(d) \in Nat
    BY <1>1, Products
  <2>. HIDE DEF n, isEnd, bad
  <2>. QED
    BY <1>7, <2>1, <2>2, <2>3
<1>8. ASSUME g.waiting = 0, ~g.ended, stops # {}
      PROVE  /\ n = Min(stops) /\ n \in 1 .. Len(d) /\ isEnd = TRUE /\ bad = (d[n] = Garbled)
             /\ made = Ratio * (n - 1)
  <2>1. n = Min(stops) /\ n \in 1 .. Len(d) /\ d[n] \in {EndOfData, Garbled}
    BY <1>1, <1>5, <1>8
  <2>2. isEnd = TRUE /\ bad = (d[n] = Garbled)
    BY <2>1
  <2>3. n - 1 \in Nat
    BY <2>1
  <2>4. Ratio * (n - 1) \in Nat
    BY <2>3, Products
  <2>. HIDE DEF n, isEnd, bad
  <2>. QED
    BY <1>8, <2>1, <2>2, <2>4
<1>. HIDE DEF n, isEnd, bad, made
<1>9. g.waiting > 0 \/ g.ended => InflateSome(g, d) = Inflation(g, 0, FALSE, FALSE, g.waiting)
  BY <1>3, <1>6
<1>10. g.waiting = 0 /\ ~g.ended /\ stops = {} =>
         InflateSome(g, d) = Inflation(g, Len(d), FALSE, FALSE, Ratio * Len(d))
  BY <1>3, <1>7
<1>11. g.waiting = 0 /\ ~g.ended /\ stops # {} =>
         /\ Min(stops) \in 1 .. Len(d)
         /\ InflateSome(g, d) = Inflation(g, Min(stops), TRUE, d[Min(stops)] = Garbled,
                                          Ratio * (Min(stops) - 1))
  BY <1>3, <1>8
<1>. QED
  BY <1>9, <1>10, <1>11 DEF stops

\* inflate that has taken the bytes from m to k and is to hand out what they make.
Yielding(g, s, m, t, k, isEnd, made) ==
  /\ m \in Nat /\ t \in Nat /\ k \in m .. t /\ Within(s, t)
  /\ g \in Decoder /\ g.phase = "deflate" /\ g.buf = <<>> /\ g.flg = Byte(s, 4)
  /\ Byte(s, 3) = 8
  /\ isEnd \in BOOLEAN /\ made \in Nat /\ g.out + made = Inflated(s, k)
  /\ g.ended \/ isEnd => k = DataEnd(s) /\ s[DataEnd(s)] = EndOfData
  /\ ~(g.ended \/ isEnd) => PhaseAt(s, k) = "deflate"

LEMMA Yields ==
  ASSUME NEW s \in Octets, NEW g, NEW m, NEW t, NEW k, NEW isEnd, NEW made,
         Yielding(g, s, m, t, k, isEnd, made)
  PROVE  Advances(Inflation(g, k - m, isEnd, FALSE, made), s, m, t)
<1>. DEFINE w == Min({made, OutSize})
            left == made - w
            fin == g.ended \/ isEnd
            p == [g EXCEPT !.ended = @ \/ isEnd, !.waiting = left, !.out = @ + w,
                           !.phase = IF FALSE THEN "failed"
                                     ELSE IF fin /\ left = 0 THEN "trailer" ELSE @]
<1>1. /\ m \in Nat /\ t \in Nat /\ k \in m .. t /\ Within(s, t) /\ g \in Decoder
      /\ g.phase = "deflate" /\ g.buf = <<>> /\ g.flg = Byte(s, 4) /\ Byte(s, 3) = 8
      /\ made \in Nat /\ g.out + made = Inflated(s, k) /\ isEnd \in BOOLEAN
      /\ fin => k = DataEnd(s) /\ s[DataEnd(s)] = EndOfData
      /\ ~fin => PhaseAt(s, k) = "deflate"
      /\ g.out \in Nat /\ g.ended \in BOOLEAN
  BY DEF Yielding, Decoder
<1>2. Within(s, k) /\ k \in Nat
  <2>1. k \in Nat /\ k <= t
    BY <1>1
  <2>. QED
    BY <1>1, <2>1, OctetsOf, WithinIs
<1>3. Inflation(g, k - m, isEnd, FALSE, made) = [n |-> k - m, gz |-> p]
  BY DEF Inflation
<1>4. w \in Nat /\ left \in Nat /\ left + w = made
  <2>1. OutSize \in Nat
    BY Sizes
  <2>2. w = IF made <= OutSize THEN made ELSE OutSize
    BY <1>1, <2>1, MinOfTwo
  <2>. HIDE DEF w
  <2>. QED
    BY <1>1, <2>1, <2>2
<1>. HIDE DEF w, left
<1>5. /\ p \in Decoder /\ p.ended = fin /\ p.waiting = left /\ p.out = g.out + w
      /\ p.flg = Byte(s, 4) /\ p.buf = <<>>
      /\ p.phase = IF fin /\ left = 0 THEN "trailer" ELSE "deflate"
  <2>1. g.out + w \in Nat
    BY <1>1, <1>4
  <2>. QED
    BY <1>1, <1>4, <2>1 DEF Decoder, DecoderPhases
<1>6. p.out + p.waiting = Inflated(s, k)
  <2>1. (g.out + w) + left = g.out + made
    BY <1>1, <1>4
  <2>. HIDE DEF p
  <2>. QED
    BY <1>1, <1>5, <2>1
<1>. HIDE DEF p
<1>7. fin => PhaseAt(s, k) = "trailer"
  <2>1. DataEnd(s) < TrailerEnd(s) /\ DataEnd(s) <= DataEnd(s)
    BY Ends
  <2>. QED
    BY <1>1, <1>2, <2>1, PhaseWhere
<1>. HIDE DEF fin
<1>8. SubSeq(s, DataEnd(s) + 1, DataEnd(s)) = <<>> /\ DataEnd(s) <= DataEnd(s)
  BY Ends DEF Octets
<1>9. Gathered(p, s, k)
  <2>1. p.phase = "trailer" => k = DataEnd(s)
    BY <1>1, <1>5
  <2>. QED
    BY <1>1, <1>5, <1>8, <2>1, FixedIs DEF Gathered
<1>10. InStep(p, s, k)
  <2>1. IF p.ended /\ p.waiting > 0 THEN p.phase = "deflate" /\ k = DataEnd(s)
        ELSE p.phase = PhaseAt(s, k)
    BY <1>1, <1>4, <1>5, <1>7
  <2>2. p.ended => DataEnd(s) <= k /\ s[DataEnd(s)] = EndOfData
    BY <1>1, <1>5, <1>8
  <2>3. p.phase \in {"trailer", "done"} => p.ended /\ p.waiting = 0
    BY <1>4, <1>5
  <2>4. p.phase # "done"
    BY <1>5
  <2>. QED
    BY <1>5, <1>6, <1>9, <2>1, <2>2, <2>3, <2>4 DEF InStep
<1>11. k - m \in 0 .. t - m /\ m + (k - m) = k
  BY <1>1
<1>12. p.phase # "failed"
  BY <1>5
<1>13. PICK r : r = Inflation(g, k - m, isEnd, FALSE, made)
  OBVIOUS
<1>14. r.n = k - m /\ r.gz = p
  <2>1. r = [n |-> k - m, gz |-> p]
    BY <1>3, <1>13, Zenon
  <2>. QED
    BY <2>1
<1>15. Advances(r, s, m, t)
  BY <1>5, <1>10, <1>11, <1>12, <1>14 DEF Advances
<1>. QED
  BY <1>13, <1>15

LEMMA Inflates ==
  ASSUME NEW s \in Octets, NEW m \in Nat, NEW t \in Nat, m < t, Within(s, t),
         NEW g, InStep(g, s, m), g.phase = "deflate"
  PROVE  Advances(Consume(g, SubSeq(s, m + 1, t)), s, m, t)
<1>. DEFINE d == SubSeq(s, m + 1, t)
            stops == Hits(d, {EndOfData, Garbled})
            H == HeaderCrcEnd(s)
            D == DataEnd(s)
<1>0. Within(s, m) /\ \A k \in Nat : k <= t => Within(s, k)
  BY OctetsOf, WithinIs
<1>1. d \in Octets /\ Len(d) = t - m /\ \A i \in 1 .. t - m : d[i] = s[m + i]
  <2>1. /\ d \in Octets /\ Len(d) = t - ((m + 1) - 1)
        /\ \A i \in 1 .. t - ((m + 1) - 1) : d[i] = s[((m + 1) - 1) + i]
    BY OctetsFrom
  <2>2. (m + 1) - 1 = m
    OBVIOUS
  <2>. HIDE DEF d
  <2>. QED
    BY <2>1, <2>2
<1>2. /\ g \in Decoder /\ g.buf = <<>> /\ g.flg = Byte(s, 4) /\ Byte(s, 3) = 8
      /\ g.waiting \in Nat /\ g.out \in Nat /\ g.ended \in BOOLEAN
      /\ g.out + g.waiting = Inflated(s, m)
      /\ g.ended /\ g.waiting > 0 => m = D
      /\ g.ended => D <= m /\ s[D] = EndOfData
      /\ ~(g.ended /\ g.waiting > 0) => PhaseAt(s, m) = "deflate"
  <2>1. g \in Decoder
    BY DEF InStep
  <2>. QED
    BY <2>1, FixedIs DEF InStep, Gathered, Decoder
<1>3. Consume(g, d) = InflateSome(g, d)
  BY ConsumeIs
<1>4. H \in Nat /\ D \in Nat
  BY Ends
<1>. HIDE DEF d, H, D
<1>5. g.ended => g.waiting > 0 /\ m = D
  <2>1. PhaseAt(s, m) = "deflate" => m < D
    BY <1>0, PhaseWhere DEF D
  <2>. QED
    BY <1>2, <1>4, <2>1
<1>6. CASE g.waiting > 0
  <2>1. Yielding(g, s, m, t, m, FALSE, g.waiting)
    <3>1. m \in m .. t
      OBVIOUS
    <3>2. g.ended => m = DataEnd(s) /\ s[DataEnd(s)] = EndOfData
      BY <1>2, <1>5 DEF D
    <3>3. ~g.ended => PhaseAt(s, m) = "deflate"
      BY <1>2
    <3>. QED
      BY <1>2, <3>1, <3>2, <3>3 DEF Yielding
  <2>2. Advances(Inflation(g, m - m, FALSE, FALSE, g.waiting), s, m, t)
    BY <2>1, Yields
  <2>3. m - m = 0
    OBVIOUS
  <2>4. InflateSome(g, d) = Inflation(g, 0, FALSE, FALSE, g.waiting)
    BY <1>1, <1>2, <1>6, InflateIs
  <2>. QED
    BY <1>3, <2>2, <2>3, <2>4 DEF d
<1>7. CASE ~(g.waiting > 0)
  <2>1. g.waiting = 0 /\ ~g.ended /\ g.out = Inflated(s, m) /\ PhaseAt(s, m) = "deflate"
    BY <1>2, <1>5, <1>7
  <2>2. H <= m /\ m < D
    BY <1>0, <2>1, PhaseWhere DEF H, D
  <2>3. /\ stops = {} => t < D
        /\ stops # {} => D <= t /\ Min(stops) = D - m
    <3>1. Searching(s, H, {EndOfData, Garbled}, m, t) /\ D = FirstAfter(s, H, {EndOfData, Garbled})
      BY <1>4, <2>2 DEF Searching, DataEnd, D, H
    <3>2. PICK B : B = {EndOfData, Garbled}
      OBVIOUS
    <3>3. Searching(s, H, B, m, t) /\ D = FirstAfter(s, H, B) /\ stops = Hits(d, B)
      BY <3>1, <3>2, Zenon
    <3>. HIDE DEF stops
    <3>. QED
      BY <3>3, FoundInPiece DEF d
  <2>4. g.out = Ratio * (m - H)
    BY <1>0, <2>1, <2>2, InflatedIs DEF H, D
  <2>5. CASE stops = {}
    <3>1. Inflated(s, t) = Ratio * (t - H)
      BY <1>4, <2>2, <2>3, <2>5, InflatedIs DEF H, D
    <3>2. (m - H) \in Nat /\ (t - m) \in Nat /\ (m - H) + (t - m) = t - H
      BY <1>4, <2>2
    <3>3. Ratio * (t - m) \in Nat /\ g.out + Ratio * (t - m) = Inflated(s, t)
      BY <2>4, <3>1, <3>2, Products
    <3>4. PhaseAt(s, t) = "deflate"
      BY <1>4, <2>2, <2>3, <2>5, PhaseWhere DEF H, D
    <3>5. t \in m .. t
      OBVIOUS
    <3>6. Yielding(g, s, m, t, t, FALSE, Ratio * (t - m))
      BY <1>2, <2>1, <3>3, <3>4, <3>5 DEF Yielding
    <3>7. Advances(Inflation(g, t - m, FALSE, FALSE, Ratio * (t - m)), s, m, t)
      BY <3>6, Yields
    <3>8. InflateSome(g, d) = Inflation(g, Len(d), FALSE, FALSE, Ratio * Len(d))
      BY <1>1, <1>2, <2>1, <2>5, InflateIs
    <3>. QED
      BY <1>1, <1>3, <3>7, <3>8 DEF d
  <2>6. CASE stops # {}
    <3>1. D <= t /\ Min(stops) = D - m /\ D \in m .. t /\ D - m \in 1 .. t - m
      BY <1>4, <2>2, <2>3, <2>6
    <3>2. InflateSome(g, d) = Inflation(g, D - m, TRUE, d[D - m] = Garbled,
                                        Ratio * ((D - m) - 1))
      <4>1. InflateSome(g, d) = Inflation(g, Min(stops), TRUE, d[Min(stops)] = Garbled,
                                          Ratio * (Min(stops) - 1))
        BY <1>1, <1>2, <2>1, <2>6, InflateIs
      <4>. QED
        BY <3>1, <4>1
    <3>3. d[D - m] = s[D]
      <4>1. d[D - m] = s[m + (D - m)] /\ m + (D - m) = D
        BY <1>1, <1>4, <3>1
      <4>. QED
        BY <4>1
    <3>4. /\ Ratio * ((D - m) - 1) \in Nat
          /\ g.out + Ratio * ((D - m) - 1) = Inflated(s, D)
      <4>1. Within(s, D) /\ D <= D
        BY <1>0, <1>4, <3>1
      <4>2. Inflated(s, D) = Ratio * ((D - 1) - H)
        BY <4>1, InflatedIs DEF H, D
      <4>3. /\ (m - H) \in Nat /\ ((D - m) - 1) \in Nat
            /\ (m - H) + ((D - m) - 1) = (D - 1) - H
        BY <1>4, <2>2
      <4>. QED
        BY <2>4, <4>2, <4>3, Products
    <3>5. CASE s[D] = Garbled
      <4>. DEFINE made == Ratio * ((D - m) - 1)
                  w == Min({made, OutSize})
                  p == [g EXCEPT !.ended = @ \/ TRUE, !.waiting = made - w, !.out = @ + w,
                                 !.phase = "failed"]
      <4>1. Consume(g, d) = [n |-> D - m, gz |-> p]
        BY <1>3, <3>2, <3>3, <3>5 DEF Inflation
      <4>2. w \in Nat /\ made - w \in Nat
        <5>1. made \in Nat /\ OutSize \in Nat
          BY <3>4, Sizes
        <5>. HIDE DEF made
        <5>2. w = IF made <= OutSize THEN made ELSE OutSize
          BY <5>1, MinOfTwo
        <5>. HIDE DEF w
        <5>. QED
          BY <5>1, <5>2
      <4>. HIDE DEF w, made
      <4>3. g.out + w \in Nat
        BY <1>2, <4>2
      <4>4. p \in Decoder /\ p.phase = "failed"
        BY <1>2, <4>2, <4>3 DEF Decoder, DecoderPhases
      <4>5. ~Sound(s)
        <5>1. s[D] # EndOfData
          BY <3>5 DEF EndOfData, Garbled
        <5>. QED
          BY <5>1 DEF Sound, D
      <4>. HIDE DEF p
      <4>6. PICK r : r = Consume(g, d)
        OBVIOUS
      <4>7. r.n = D - m /\ r.gz = p
        BY <4>1, <4>6
      <4>8. D - m \in 0 .. t - m
        BY <1>4, <3>1
      <4>9. Advances(r, s, m, t)
        BY <4>4, <4>5, <4>7, <4>8 DEF Advances
      <4>. QED
        BY <4>6, <4>9 DEF d
    <3>6. CASE s[D] # Garbled
      <4>1. s[D] = EndOfData
        <5>1. D <= Len(s)
          BY <1>4, <3>1, OctetsOf DEF Within
        <5>2. s[D] \in {EndOfData, Garbled}
          BY <1>4, <5>1, FirstAfterIs DEF D, H, DataEnd
        <5>. QED
          BY <3>6, <5>2
      <4>2. Yielding(g, s, m, t, D, TRUE, Ratio * ((D - m) - 1))
        BY <1>2, <3>1, <3>4, <4>1 DEF Yielding, D
      <4>3. Advances(Inflation(g, D - m, TRUE, FALSE, Ratio * ((D - m) - 1)), s, m, t)
        BY <4>2, Yields
      <4>4. (d[D - m] = Garbled) = FALSE
        BY <3>3, <3>6
      <4>. QED
        BY <1>3, <3>2, <4>3, <4>4 DEF d
    <3>. QED
      BY <3>5, <3>6
  <2>. QED
    BY <2>5, <2>6
<1>. QED
  BY <1>6, <1>7

LEMMA ReadsTrailer ==
  ASSUME NEW s \in Octets, NEW m \in Nat, NEW t \in Nat, m < t, Within(s, t),
         NEW g, InStep(g, s, m), g.phase = "trailer", IsGzipStream(s)
  PROVE  Advances(Consume(g, SubSeq(s, m + 1, t)), s, m, t)
<1>. DEFINE r == Consume(g, SubSeq(s, m + 1, t))
            h == [g EXCEPT !.buf = <<>>]
            D == DataEnd(s)
            f == D + 1
            e == D + 8
            b == SubSeq(s, f, e)
<1>0. Within(s, m) /\ (\A k \in Nat : k <= t => Within(s, k)) /\ Len(s) \in Nat
  BY OctetsOf, WithinIs
<1>1. /\ g \in Decoder /\ g.ended /\ g.waiting = 0 /\ g.out = Inflated(s, m)
      /\ g.buf = SubSeq(s, f, m) /\ g.flg = Byte(s, 4) /\ Byte(s, 3) = 8
      /\ s[D] = EndOfData /\ PhaseAt(s, m) = "trailer"
  <2>1. g \in Decoder /\ g.ended /\ g.waiting = 0 /\ g.out + g.waiting = Inflated(s, m)
    BY DEF InStep
  <2>2. g.out \in Nat
    BY <2>1 DEF Decoder
  <2>3. g.buf = SubSeq(s, f, m) /\ g.flg = Byte(s, 4) /\ Byte(s, 3) = 8
    BY DEF InStep, Gathered
  <2>4. s[D] = EndOfData /\ PhaseAt(s, m) = "trailer"
    BY <2>1 DEF InStep
  <2>. QED
    BY <2>1, <2>2, <2>3, <2>4
<1>2. D \in Nat /\ D <= m /\ m < e /\ TrailerEnd(s) = e
  BY <1>0, <1>1, PhaseWhere, Ends
<1>3. f \in Nat \ {0} /\ e \in Nat /\ e = (f - 1) + 8 /\ f <= m + 1 /\ f - 1 = D
  BY <1>2
<1>4. \A k \in Nat : D <= k /\ Within(s, k) => Inflated(s, k) = Inflated(s, m)
  BY <1>0, <1>2, InflatedIs
<1>5. r = IF t < e THEN [n |-> t - m, gz |-> [g EXCEPT !.buf = SubSeq(s, f, t)]]
          ELSE [n |-> e - m, gz |-> Completed(h, b)]
  <2>1. r = Collect(g, SubSeq(s, m + 1, t)) /\ g.phase \in DOMAIN Fixed /\ Fixed[g.phase] = 8
    BY ConsumeIs, FixedIs
  <2>. HIDE DEF f, e
  <2>2. Collecting(g, s, f, e, m, t)
    BY <1>1, <1>2, <1>3, <2>1 DEF Collecting
  <2>3. Collect(g, SubSeq(s, m + 1, t)) = Collected(g, s, f, e, t, t - m)
    BY <2>2, Collects
  <2>4. (t - m) - (t - e) = e - m
    BY <1>3
  <2>. HIDE DEF r
  <2>. QED
    BY <2>1, <2>3, <2>4 DEF Collected
<1>. HIDE DEF r, b, f, e, D
<1>6. CASE t < e
  <2>. DEFINE p == [g EXCEPT !.buf = SubSeq(s, f, t)]
  <2>1. f <= t + 1 /\ D <= t /\ t \in m .. t
    BY <1>2, <1>3
  <2>2. SubSeq(s, f, t) \in Octets
    BY <1>3, <2>1, OctetsFrom
  <2>3. /\ p \in Decoder /\ p.phase = "trailer" /\ p.buf = SubSeq(s, f, t) /\ p.ended
        /\ p.flg = Byte(s, 4) /\ p.waiting = 0 /\ p.out = Inflated(s, t)
    BY <1>1, <1>4, <2>1, <2>2 DEF Decoder
  <2>4. r = [n |-> t - m, gz |-> p]
    BY <1>5, <1>6
  <2>. HIDE DEF p
  <2>5. PhaseAt(s, t) = "trailer"
    BY <1>2, <1>6, <2>1, PhaseWhere DEF D
  <2>6. Gathered(p, s, t)
    BY <1>1, <2>3, FixedIs DEF Gathered, f, D
  <2>7. p.out + p.waiting = Inflated(s, t)
    BY <2>3, InflatedIs
  <2>8. InStep(p, s, t)
    BY <1>1, <2>1, <2>3, <2>5, <2>6, <2>7 DEF InStep, D
  <2>9. r.n = t - m /\ r.gz = p
    BY <2>4
  <2>10. t - m \in 0 .. t - m /\ m + (t - m) = t
    OBVIOUS
  <2>11. Advances(r, s, m, t)
    BY <2>3, <2>8, <2>9, <2>10 DEF Advances
  <2>. QED
    BY <2>11 DEF r
<1>7. CASE ~(t < e)
  <2>. DEFINE sums == SubSeq(b, 1, 4) = Crc(h.out) /\ SubSeq(b, 5, 8) = Size(h.out)
              p == [h EXCEPT !.phase = IF sums THEN "done" ELSE "failed"]
  <2>1. Within(s, e) /\ D <= e /\ e <= Len(s) /\ e \in m .. t /\ D <= Len(s)
    <3>1. e <= t /\ D <= e
      BY <1>2, <1>3, <1>7 DEF e
    <3>2. Within(s, e)
      BY <1>0, <1>3, <3>1
    <3>. QED
      BY <1>0, <1>2, <1>3, <3>1, <3>2 DEF Within
  <2>2. /\ h \in Decoder /\ h.phase = "trailer" /\ h.buf = <<>> /\ h.ended
        /\ h.waiting = 0 /\ h.out = Inflated(s, m) /\ h.flg = Byte(s, 4)
    <3>1. <<>> \in Octets
      BY OctetsOf
    <3>. QED
      BY <1>1, <3>1 DEF Decoder
  <2>3. h.out = DecodedSize(s) /\ h.out = Inflated(s, e)
    <3>1. Within(s, Len(s))
      BY <1>0 DEF Within
    <3>. QED
      BY <1>0, <1>3, <1>4, <2>1, <2>2, <3>1 DEF DecodedSize
  <2>. HIDE DEF h
  <2>4. Completed(h, b) = p
    <3>1. Completed(h, b) = TrailerRead(h, b)
      BY <2>2 DEF Completed
    <3>. QED
      BY <3>1 DEF TrailerRead
  <2>5. sums <=> Sound(s)
    <3>1. SubSeq(b, 1, 4) = SubSeq(s, D + 1, D + 4)
      <4>1. SubSeq(b, 1, 4) = SubSeq(s, (f - 1) + 1, (f - 1) + 4)
        <5>1. f <= e + 1 /\ (f - 1) + 4 <= e
          BY <1>3
        <5>. QED
          BY <1>3, <2>1, <5>1, OctetsOfPiece DEF b
      <4>. QED
        BY <1>3, <4>1
    <3>2. SubSeq(b, 5, 8) = SubSeq(s, D + 5, D + 8)
      <4>1. SubSeq(b, 5, 8) = SubSeq(s, (f - 1) + 5, (f - 1) + 8)
        <5>1. f <= e + 1 /\ (f - 1) + 8 <= e
          BY <1>3
        <5>. QED
          BY <1>3, <2>1, <5>1, OctetsOfPiece DEF b
      <4>. QED
        BY <1>3, <4>1
    <3>. QED
      BY <1>1, <1>2, <2>1, <2>3, <3>1, <3>2 DEF Sound, D
  <2>. HIDE DEF sums
  <2>6. /\ p \in Decoder /\ p.phase = (IF sums THEN "done" ELSE "failed") /\ p.buf = <<>>
        /\ p.flg = Byte(s, 4) /\ p.ended /\ p.waiting = 0 /\ p.out = Inflated(s, e)
    BY <2>2, <2>3 DEF Decoder, DecoderPhases
  <2>7. r = [n |-> e - m, gz |-> p]
    BY <1>5, <1>7, <2>4
  <2>. HIDE DEF p
  <2>8. r.n = e - m /\ r.gz = p
    BY <2>7
  <2>9. e - m \in 0 .. t - m /\ m + (e - m) = e
    BY <1>3, <2>1
  <2>10. CASE ~sums
    <3>1. p.phase = "failed" /\ ~Sound(s)
      BY <2>5, <2>6, <2>10
    <3>2. Advances(r, s, m, t)
      BY <2>6, <2>8, <2>9, <3>1 DEF Advances
    <3>. QED
      BY <3>2 DEF r
  <2>11. CASE sums
    <3>1. p.phase = "done" /\ Sound(s)
      BY <2>5, <2>6, <2>11
    <3>2. PhaseAt(s, e) = "done"
      <4>1. TrailerEnd(s) <= e
        BY <1>2, <1>3
      <4>. QED
        BY <2>1, <4>1, PhaseWhere
    <3>3. Gathered(p, s, e)
      BY <1>1, <2>6, <3>1 DEF Gathered
    <3>4. p.out + p.waiting = Inflated(s, e)
      BY <2>1, <2>6, InflatedIs
    <3>5. InStep(p, s, e)
      BY <1>1, <2>1, <2>6, <3>1, <3>2, <3>3, <3>4 DEF InStep, D
    <3>6. Advances(r, s, m, t)
      BY <2>6, <2>8, <2>9, <3>1, <3>5 DEF Advances
    <3>. QED
      BY <3>6 DEF r
  <2>. QED
    BY <2>10, <2>11
<1>. QED
  BY <1>6, <1>7

\* What follows the trailer is read over.
LEMMA ReadsOn ==
  ASSUME NEW s \in Octets, NEW m \in Nat, NEW t \in Nat, m < t, Within(s, t),
         NEW g, InStep(g, s, m), g.phase = "done"
  PROVE  /\ Consume(g, SubSeq(s, m + 1, t)) = [n |-> t - m, gz |-> g]
         /\ InStep(g, s, t)
<1>0. Within(s, m)
  BY OctetsOf, WithinIs
<1>1. /\ g \in Decoder /\ g.ended /\ g.waiting = 0 /\ g.out + g.waiting = Inflated(s, m)
      /\ Gathered(g, s, m) /\ s[DataEnd(s)] = EndOfData /\ Sound(s)
      /\ PhaseAt(s, m) = "done"
  BY DEF InStep
<1>2. TrailerEnd(s) <= m /\ TrailerEnd(s) \in Nat /\ DataEnd(s) \in Nat /\ DataEnd(s) <= m
  BY <1>0, <1>1, PhaseWhere, Ends
<1>3. TrailerEnd(s) <= t /\ DataEnd(s) <= t
  BY <1>2
<1>4. PhaseAt(s, t) = "done"
  BY <1>3, PhaseWhere
<1>5. Inflated(s, t) = Inflated(s, m)
  BY <1>0, <1>2, <1>3, InflatedIs
<1>6. Gathered(g, s, t)
  BY <1>1 DEF Gathered
<1>7. InStep(g, s, t)
  BY <1>1, <1>3, <1>4, <1>5, <1>6 DEF InStep
<1>8. Consume(g, SubSeq(s, m + 1, t)) = [n |-> t - m, gz |-> g]
  <2>1. Len(SubSeq(s, m + 1, t)) = t - ((m + 1) - 1)
    BY OctetsFrom
  <2>2. Len(SubSeq(s, m + 1, t)) = t - m
    BY <2>1
  <2>3. Consume(g, SubSeq(s, m + 1, t)) = [n |-> Len(SubSeq(s, m + 1, t)), gz |-> g]
    BY ConsumeIs
  <2>. QED
    BY <2>2, <2>3, Zenon
<1>. QED
  BY <1>7, <1>8

LEMMA Consumes ==
  ASSUME NEW s \in Octets, NEW m \in Nat, NEW t \in Nat, m < t, Within(s, t),
         NEW g, InStep(g, s, m), g.phase # "failed", IsGzipStream(s)
  PROVE  Advances(Consume(g, SubSeq(s, m + 1, t)), s, m, t)
<1>1. g.phase \in DecoderPhases
  BY DEF InStep, Decoder
<1>2. CASE g.phase = "done"
  <2>1. PICK r : r = Consume(g, SubSeq(s, m + 1, t))
    OBVIOUS
  <2>2. r.n = t - m /\ r.gz = g /\ InStep(g, s, t)
    <3>1. /\ Consume(g, SubSeq(s, m + 1, t)) = [n |-> t - m, gz |-> g]
          /\ InStep(g, s, t)
      BY <1>2, ReadsOn
    <3>2. r = [n |-> t - m, gz |-> g]
      BY <2>1, <3>1, Zenon
    <3>. QED
      BY <3>1, <3>2
  <2>3. t - m \in 0 .. t - m /\ m + (t - m) = t
    OBVIOUS
  <2>4. Advances(r, s, m, t)
    BY <1>2, <2>2, <2>3 DEF Advances, InStep
  <2>. QED
    BY <2>1, <2>4
<1>. QED
  BY <1>1, <1>2, ReadsHeader, ReadsExtraLen, SkipsExtraData, SkipsText, ReadsHeaderCrc,
     Inflates, ReadsTrailer DEF DecoderPhases, HeaderPhases
-----------------------------------------------------------------------------
(* The upload, the decoder and the flash.                                  *)

\* The decoder has taken the first m of the bytes that were read; chunk holds the others.
Fed(m) ==
  /\ m \in Nat /\ m <= totalIn
  /\ chunk = SubSeq(upload.bytes, m + 1, totalIn)
  /\ gz \in Decoder
  /\ IF gz.phase = "failed" THEN ~Sound(upload.bytes) ELSE InStep(gz, upload.bytes, m)

Flash == [open : BOOLEAN, written : Int, ready : Int]

GzipFed ==
  pc \in Working /\ IsGzip =>
    /\ \E m : Fed(m)
    /\ flash.written + flash.ready = gz.out
    /\ pc # "feed" => chunk = <<>>
    /\ pc = "end" => gz.phase = "done"

RawFed == pc \in Working /\ ~IsGzip => pc # "feed" /\ flash.written + flash.ready = totalIn

\* Nothing is skipped, decoded twice or written twice between the socket and the flash.
UploadFed ==
  /\ upload.bytes \in Octets /\ flash \in Flash
  /\ pc \in {"idle", "magic"} => gz = New /\ totalIn = 0 /\ chunk = <<>>
  /\ pc \in Working => totalIn \in Nat /\ Within(upload.bytes, totalIn)
  /\ pc \in {"read", "end"} => flash.ready = 0
  /\ GzipFed /\ RawFed

LEMMA UploadsAreOctets == \A u \in Upload : u.bytes \in Octets
BY OtaAssumption DEF Octets

LEMMA ReturnFeeds ==
  ASSUME UploadFed, Return, flash' \in Flash
  PROVE  UploadFed'
<1>1. <<>> \in Octets
  BY DEF Octets
<1>. QED
  BY <1>1 DEF UploadFed, Return, NoUpload, GzipFed, RawFed, Working

LEMMA ClosedIsFlash == Closed \in Flash
BY DEF Closed, Flash

LEMMA NewInStep ==
  ASSUME NEW s \in Octets
  PROVE  InStep(New, s, 0)
<1>1. Within(s, 0) /\ 0 <= HeaderCrcEnd(s)
  <2>1. Len(s) \in Nat /\ HeaderCrcEnd(s) \in Nat
    BY Ends
  <2>. QED
    BY <2>1 DEF Within
<1>2. /\ New \in Decoder /\ ~New.ended /\ New.waiting = 0 /\ New.out = 0
      /\ New.phase = "header" /\ New.buf = <<>>
  BY OctetsOf DEF New, Decoder, DecoderPhases, HeaderPhases
<1>3. PhaseAt(s, 0) = "header"
  BY <1>1, PhaseWhere
<1>4. SubSeq(s, 1, 0) = <<>>
  BY DEF Octets
<1>5. Gathered(New, s, 0)
  BY <1>2, <1>4, FixedIs DEF Gathered
<1>. QED
  BY <1>1, <1>2, <1>3, <1>5, HeaderGoesOn

LEMMA BeginFeeds ==
  ASSUME UploadFed, Begin
  PROVE  UploadFed'
<1>. DEFINE s == upload.bytes
<1>1. /\ pc = "magic" /\ s \in Octets /\ Len(s) >= 2 /\ Len(s) \in Nat
      /\ upload' = upload /\ gz' = gz /\ gz = New /\ totalIn' = 2
  BY OctetsOf DEF UploadFed, Begin
<1>2. Within(s, 2)
  BY <1>1 DEF Within
<1>3. CASE IsGzip
  <2>1. /\ pc' = "feed" /\ chunk' = GzipMagic /\ flash' = [Closed EXCEPT !.open = TRUE]
        /\ SubSeq(s, 1, 2) = GzipMagic
    BY <1>3 DEF Begin, IsGzip, IsGzipStream
  <2>2. flash' \in Flash /\ flash'.written = 0 /\ flash'.ready = 0
    <3>1. flash' = [open |-> TRUE, written |-> 0, ready |-> 0]
      BY <2>1 DEF Closed
    <3>. QED
      BY <3>1 DEF Flash
  <2>3. Fed(0)'
    <3>1. New \in Decoder /\ New.phase # "failed" /\ InStep(New, s, 0)
      BY <1>1, NewInStep DEF InStep, New
    <3>. QED
      BY <1>1, <2>1, <3>1 DEF Fed
  <2>4. gz'.out = 0
    BY <1>1 DEF New
  <2>5. GzipFed' /\ RawFed'
    BY <1>1, <1>3, <2>1, <2>2, <2>3, <2>4 DEF GzipFed, RawFed, IsGzip
  <2>. QED
    BY <1>1, <1>2, <2>1, <2>2, <2>5 DEF UploadFed
<1>4. CASE ~IsGzip
  <2>1. /\ pc' = "write" /\ chunk' = <<>>
        /\ flash' = [Closed EXCEPT !.open = TRUE, !.ready = 2]
    BY <1>4 DEF Begin
  <2>2. flash' \in Flash /\ flash'.written = 0 /\ flash'.ready = 2
    <3>1. flash' = [open |-> TRUE, written |-> 0, ready |-> 2]
      BY <2>1 DEF Closed
    <3>. QED
      BY <3>1 DEF Flash
  <2>3. GzipFed' /\ RawFed'
    BY <1>1, <1>4, <2>1, <2>2 DEF GzipFed, RawFed, IsGzip
  <2>. QED
    BY <1>1, <1>2, <2>1, <2>2, <2>3 DEF UploadFed
<1>. QED
  BY <1>3, <1>4

\* Where there is no chunk, the decoder has taken all that was read.
LEMMA AllTaken ==
  ASSUME UploadFed, pc \in Working, IsGzip, chunk = <<>>
  PROVE  /\ Fed(totalIn) /\ totalIn \in Nat /\ Within(upload.bytes, totalIn)
         /\ upload.bytes \in Octets /\ gz \in Decoder
<1>1. /\ totalIn \in Nat /\ Within(upload.bytes, totalIn) /\ upload.bytes \in Octets
  BY DEF UploadFed
<1>2. PICK m : Fed(m)
  BY DEF UploadFed, GzipFed
<1>3. m \in Nat /\ m <= totalIn /\ gz \in Decoder
  BY <1>2 DEF Fed
<1>4. Len(SubSeq(upload.bytes, m + 1, totalIn)) = totalIn - ((m + 1) - 1)
  BY <1>1, <1>3, OctetsFrom
<1>5. chunk = SubSeq(upload.bytes, m + 1, totalIn)
  BY <1>2 DEF Fed
<1>6. m = totalIn
  <2>1. Len(SubSeq(upload.bytes, m + 1, totalIn)) = 0
    <3>1. Len(chunk) = 0
      OBVIOUS
    <3>. QED
      BY <1>5, <3>1, Zenon
  <2>. QED
    BY <1>1, <1>3, <1>4, <2>1
<1>. QED
  BY <1>1, <1>2, <1>3, <1>6

LEMMA FeedStepFeeds ==
  ASSUME UploadFed, FeedStep, ~Abort
  PROVE  UploadFed'
<1>. DEFINE s == upload.bytes
            r == Consume(gz, chunk)
            t == totalIn
            rest == IF gz.phase = "done" THEN <<>> ELSE SubSeq(chunk, r.n + 1, Len(chunk))
<1>1. /\ pc = "feed" /\ chunk # <<>> /\ gz.phase # "failed" /\ gz' = r.gz /\ chunk' = rest
      /\ flash' = [flash EXCEPT !.ready = @ + r.gz.out - gz.out]
      /\ UNCHANGED <<pc, upload, totalIn, otaLock, bootVars>>
  BY DEF FeedStep
<1>2. /\ s \in Octets /\ flash \in Flash /\ t \in Nat /\ Within(s, t) /\ IsGzip
      /\ IsGzipStream(s) /\ flash.written + flash.ready = gz.out
  BY <1>1 DEF UploadFed, GzipFed, RawFed, Working, IsGzip
<1>3. PICK m : Fed(m)
  BY <1>1, <1>2 DEF UploadFed, GzipFed, Working
<1>4. m \in Nat /\ m <= t /\ chunk = SubSeq(s, m + 1, t) /\ gz \in Decoder /\ InStep(gz, s, m)
  BY <1>1, <1>3 DEF Fed
<1>. HIDE DEF s, t
<1>5. m < t
  <2>1. m = t => SubSeq(s, m + 1, t) = <<>>
    BY <1>2 DEF Octets
  <2>. QED
    BY <1>1, <1>2, <1>4, <2>1
<1>6. Advances(r, s, m, t)
  <2>1. Advances(Consume(gz, SubSeq(s, m + 1, t)), s, m, t)
    BY <1>1, <1>2, <1>4, <1>5, Consumes
  <2>. QED
    BY <1>4, <2>1
<1>7. Len(chunk) = t - m
  <2>1. Len(SubSeq(s, m + 1, t)) = t - ((m + 1) - 1)
    BY <1>2, <1>4, OctetsFrom
  <2>2. t - ((m + 1) - 1) = t - m
    BY <1>2, <1>4
  <2>. QED
    BY <1>4, <2>1, <2>2
<1>8. r.n \in 0 .. t - m /\ r.gz \in Decoder
  BY <1>6 DEF Advances
<1>9. gz.phase = "done" => r.n = t - m
  <2>1. gz.phase = "done" => Consume(gz, chunk) = [n |-> Len(chunk), gz |-> gz]
    BY ConsumeIs
  <2>. QED
    BY <1>7, <2>1
<1>. HIDE DEF r
<1>10. rest = SubSeq(s, (m + r.n) + 1, t)
  <2>1. SubSeq(SubSeq(s, m + 1, t), r.n + 1, t - m) = SubSeq(s, (m + r.n) + 1, m + (t - m))
    <3>1. PICK n, l : n = r.n /\ l = t - m
      OBVIOUS
    <3>2. n \in 0 .. t - m /\ l \in n .. t - m
      BY <1>2, <1>4, <1>8, <3>1
    <3>3. m \in Nat /\ t \in m .. Len(s) /\ s \in Seq(0 .. 255)
      BY <1>2, <1>4 DEF Octets, Within
    <3>4. SubSeq(SubSeq(s, m + 1, t), n + 1, l) = SubSeq(s, (m + n) + 1, m + l)
      BY <3>2, <3>3, PieceOfPiece
    <3>. QED
      BY <3>1, <3>4
  <2>2. m + (t - m) = t
    BY <1>2, <1>4
  <2>3. SubSeq(chunk, r.n + 1, Len(chunk)) = SubSeq(s, (m + r.n) + 1, t)
    BY <1>4, <1>7, <2>1, <2>2
  <2>4. gz.phase = "done" => SubSeq(s, (m + r.n) + 1, t) = <<>>
    <3>1. gz.phase = "done" => m + r.n = t
      BY <1>2, <1>4, <1>9
    <3>2. SubSeq(s, t + 1, t) = <<>>
      BY <1>2 DEF Octets
    <3>. QED
      BY <3>1, <3>2
  <2>. QED
    BY <2>3, <2>4
<1>. HIDE DEF rest
<1>14. PICK k : k = m + r.n
  OBVIOUS
<1>11. Fed(k)'
  <2>1. k \in Nat /\ k <= t
    BY <1>2, <1>4, <1>8, <1>14
  <2>2. IF r.gz.phase = "failed" THEN ~Sound(s) ELSE InStep(r.gz, s, k)
    BY <1>6, <1>14 DEF Advances
  <2>. QED
    BY <1>1, <1>8, <1>10, <1>14, <2>1, <2>2 DEF Fed, s, t
<1>12. flash' \in Flash /\ flash'.written + flash'.ready = gz'.out
  <2>1. r.gz.out \in Nat /\ gz.out \in Nat
    BY <1>4, <1>8 DEF Decoder
  <2>2. /\ flash'.written = flash.written /\ flash'.ready = flash.ready + r.gz.out - gz.out
        /\ flash.written \in Int /\ flash.ready \in Int
        /\ flash' = [flash EXCEPT !.ready = @ + r.gz.out - gz.out]
    BY <1>1, <1>2 DEF Flash
  <2>3. flash.ready + r.gz.out - gz.out \in Int
    BY <2>1, <2>2
  <2>4. flash' \in Flash
    BY <1>2, <2>2, <2>3 DEF Flash
  <2>. QED
    BY <1>1, <1>2, <2>1, <2>2, <2>4
<1>13. GzipFed' /\ RawFed'
  BY <1>1, <1>2, <1>11, <1>12 DEF GzipFed, RawFed, IsGzip
<1>. QED
  BY <1>1, <1>2, <1>12, <1>13 DEF UploadFed, s, t

LEMMA FeedEndsFeeds ==
  ASSUME UploadFed, FeedEnds
  PROVE  UploadFed'
<1>1. /\ pc = "feed" /\ pc' = "write" /\ chunk = <<>> /\ IsGzip
      /\ UNCHANGED <<upload, totalIn, chunk, gz, flash>>
  BY DEF FeedEnds, handlerVars, UploadFed, RawFed, Working
<1>2. Fed(totalIn)
  BY <1>1, AllTaken DEF Working
<1>3. PICK m : m = totalIn
  OBVIOUS
<1>4. Fed(m)'
  BY <1>1, <1>2, <1>3 DEF Fed
<1>5. GzipFed' /\ RawFed'
  BY <1>1, <1>4 DEF UploadFed, GzipFed, RawFed, IsGzip, Working
<1>. QED
  BY <1>1, <1>5 DEF UploadFed, Working

\* What is ready goes to the flash.
LEMMA WriteStepFeeds ==
  ASSUME UploadFed, WriteStep, ~Abort
  PROVE  UploadFed'
<1>1. /\ pc = "write" /\ pc' = "read" /\ UNCHANGED <<upload, totalIn, chunk, gz>>
      /\ flash' = [flash EXCEPT !.written = @ + flash.ready, !.ready = 0]
      /\ flash \in Flash
  BY DEF WriteStep, handlerVars, UploadFed
<1>2. /\ flash' \in Flash /\ flash'.ready = 0
      /\ flash'.written + flash'.ready = flash.written + flash.ready
  <2>1. flash.written \in Int /\ flash.ready \in Int
    BY <1>1 DEF Flash
  <2>2. flash.written + flash.ready \in Int
    BY <2>1
  <2>3. /\ flash'.written = flash.written + flash.ready /\ flash'.ready = 0
        /\ flash' \in Flash
    <3>1. PICK sum \in Int : sum = flash.written + flash.ready
      BY <2>2
    <3>2. flash' = [flash EXCEPT !.written = sum, !.ready = 0]
      BY <1>1, <3>1
    <3>3. flash' = [open |-> flash.open, written |-> sum, ready |-> 0] /\ flash.open \in BOOLEAN
      BY <1>1, <3>2 DEF Flash
    <3>. QED
      BY <3>1, <3>3 DEF Flash
  <2>. QED
    BY <2>1, <2>3
<1>3. ASSUME NEW m, Fed(m) PROVE Fed(m)'
  BY <1>1, <1>3 DEF Fed
<1>4. GzipFed'
  BY <1>1, <1>2, <1>3 DEF UploadFed, GzipFed, IsGzip, Working
<1>5. RawFed'
  BY <1>1, <1>2 DEF UploadFed, RawFed, IsGzip, Working
<1>. QED
  BY <1>1, <1>2, <1>4, <1>5 DEF UploadFed, Working

LEMMA ReadStepFeeds ==
  ASSUME UploadFed, ReadStep, ~Abort
  PROVE  UploadFed'
<1>1. pc = "read" /\ flash.ready = 0 /\ flash \in Flash
  BY DEF ReadStep, UploadFed
<1>2. CASE Finish
  <2>1. /\ pc' = "end" /\ UNCHANGED <<upload, totalIn, chunk, gz, flash>>
        /\ IsGzip => gz.phase = "done"
    BY <1>2 DEF Finish, handlerVars, Finished
  <2>2. ASSUME NEW m, Fed(m) PROVE Fed(m)'
    BY <2>1, <2>2 DEF Fed
  <2>3. GzipFed' /\ RawFed'
    BY <1>1, <2>1, <2>2 DEF UploadFed, GzipFed, RawFed, IsGzip, Working
  <2>. QED
    BY <1>1, <2>1, <2>3 DEF UploadFed, Working
<1>3. CASE ReadChunk
  <2>. DEFINE s == upload.bytes
  <2>1. PICK n \in 1 .. OTA_READ_BUF :
          /\ totalIn + n <= Len(s) /\ totalIn' = totalIn + n
          /\ IF IsGzip THEN /\ pc' = "feed" /\ UNCHANGED flash
                            /\ chunk' = SubSeq(s, totalIn + 1, totalIn + n)
             ELSE pc' = "write" /\ flash' = [flash EXCEPT !.ready = n] /\ UNCHANGED chunk
          /\ UNCHANGED <<upload, gz>>
    BY <1>3 DEF ReadChunk
  <2>2. n \in Nat /\ totalIn \in Nat /\ totalIn' \in Nat /\ Within(s, totalIn') /\ s \in Octets
    <3>1. n \in Nat /\ totalIn \in Nat /\ s \in Octets
      BY <1>1, OtaAssumption DEF UploadFed, Working
    <3>2. Len(s) \in Nat
      BY <3>1, OctetsOf
    <3>. QED
      BY <2>1, <3>1, <3>2 DEF Within
  <2>3. CASE IsGzip
    <3>1. Fed(totalIn) /\ flash.written + flash.ready = gz.out
      BY <1>1, <2>3, AllTaken DEF UploadFed, GzipFed, Working
    <3>2. PICK m : m = totalIn
      OBVIOUS
    <3>3. /\ pc' = "feed" /\ flash' = flash /\ upload' = upload /\ gz' = gz
          /\ chunk' = SubSeq(s, totalIn + 1, totalIn')
      BY <2>1, <2>3
    <3>4. Fed(m)'
      <4>1. m \in Nat /\ m <= totalIn'
        BY <2>1, <2>2, <3>2
      <4>. QED
        BY <3>1, <3>2, <3>3, <4>1 DEF Fed
    <3>5. GzipFed' /\ RawFed'
      BY <2>3, <3>1, <3>3, <3>4 DEF GzipFed, RawFed, IsGzip, Working
    <3>. QED
      BY <1>1, <2>2, <3>3, <3>5 DEF UploadFed, Working
  <2>4. CASE ~IsGzip
    <3>1. /\ pc' = "write" /\ flash' = [flash EXCEPT !.ready = n] /\ upload' = upload
      BY <2>1, <2>4
    <3>2. flash.written + flash.ready = totalIn /\ flash.written \in Int
      BY <1>1, <2>4 DEF UploadFed, RawFed, Working, Flash
    <3>3. flash' \in Flash /\ flash'.written = flash.written /\ flash'.ready = n
      BY <1>1, <2>2, <3>1 DEF Flash
    <3>4. flash'.written + flash'.ready = totalIn'
      BY <1>1, <2>1, <2>2, <3>2, <3>3
    <3>5. GzipFed' /\ RawFed'
      BY <2>4, <3>1, <3>4 DEF GzipFed, RawFed, IsGzip, Working
    <3>. QED
      BY <2>2, <3>1, <3>3, <3>5 DEF UploadFed, Working
  <2>. QED
    BY <2>3, <2>4
<1>. QED
  BY <1>2, <1>3 DEF ReadStep, ReadFails

LEMMA UploadFedInit == Init => UploadFed
<1>. SUFFICES ASSUME Init PROVE UploadFed
  OBVIOUS
<1>1. <<>> \in Octets
  BY DEF Octets
<1>. QED
  BY <1>1, ClosedIsFlash DEF Init, OtaInit, UploadFed, NoUpload, GzipFed, RawFed, Working

LEMMA UploadFedStep == UploadFed /\ [Next]_vars => UploadFed'
<1>. SUFFICES ASSUME UploadFed, [Next]_vars PROVE UploadFed'
  OBVIOUS
<1>1. CASE Abort
  BY <1>1, ReturnFeeds, ClosedIsFlash DEF Abort
<1>2. CASE UNCHANGED <<pc, upload, totalIn, chunk, gz, flash>>
  BY <1>2 DEF UploadFed, GzipFed, RawFed, Fed, IsGzip
<1>3. CASE Serve \/ UNCHANGED vars \/ MarkValid
  BY <1>2, <1>3 DEF Serve, vars, otaVars, handlerVars, MarkValid
<1>4. CASE \E u \in Upload : Post(u)
  <2>1. PICK u \in Upload : Post(u)
    BY <1>4
  <2>2. u.bytes \in Octets
    BY UploadsAreOctets
  <2>. QED
    BY <2>1, <2>2 DEF Post, UploadFed, GzipFed, RawFed, Working
<1>5. CASE Reboot
  BY <1>5, ReturnFeeds, ClosedIsFlash DEF Reboot
<1>6. CASE OtaStep /\ ~Abort
  <2>1. flash \in Flash
    BY DEF UploadFed
  <2>2. CASE Refuse
    BY <2>1, <2>2, ReturnFeeds DEF Refuse
  <2>3. CASE Begin
    BY <2>3, BeginFeeds
  <2>4. CASE FeedStep
    BY <1>6, <2>4, FeedStepFeeds
  <2>5. CASE FeedEnds
    BY <2>5, FeedEndsFeeds
  <2>6. CASE WriteStep
    BY <1>6, <2>6, WriteStepFeeds
  <2>7. CASE ReadStep
    BY <1>6, <2>7, ReadStepFeeds
  <2>8. CASE EndStep
    <3>1. CASE Return
      BY <2>8, <3>1, ReturnFeeds, ClosedIsFlash DEF EndStep
    <3>2. CASE pc' = "setBoot" /\ UNCHANGED handlerVars
      BY <2>8, <3>2, ClosedIsFlash DEF EndStep, UploadFed, GzipFed, RawFed, Working, handlerVars
    <3>. QED
      BY <2>8, <3>1, <3>2 DEF EndStep
  <2>9. CASE SetBoot
    <3>1. CASE Return
      BY <2>1, <2>9, <3>1, ReturnFeeds DEF SetBoot
    <3>2. CASE pc' = "restart" /\ UNCHANGED <<handlerVars, flash>>
      BY <3>2 DEF UploadFed, GzipFed, RawFed, Working, handlerVars
    <3>. QED
      BY <2>9, <3>1, <3>2 DEF SetBoot
  <2>. QED
    BY <1>6, <2>2, <2>3, <2>4, <2>5, <2>6, <2>7, <2>8, <2>9 DEF OtaStep
<1>. QED
  BY <1>1, <1>3, <1>4, <1>5, <1>6 DEF Next, Update, Restart

LEMMA AlwaysFed == Spec => []UploadFed
BY UploadFedInit, UploadFedStep, PTL DEF Spec

LEMMA FedInStep == UploadFed => GzipInStep
<1>. SUFFICES ASSUME UploadFed, IsGzip, pc \in Working \ {"end"} PROVE GzipInStep
  BY DEF GzipInStep, Working
<1>. DEFINE s == upload.bytes
<1>1. s \in Octets /\ totalIn \in Nat /\ Within(s, totalIn) /\ IsGzipStream(s)
  BY DEF UploadFed, IsGzip
<1>2. PICK m : Fed(m)
  BY DEF UploadFed, GzipFed
<1>3. ASSUME pc = "read", gz.phase # "failed"
      PROVE  /\ gz.out + gz.waiting = Inflated(s, totalIn)
             /\ IF gz.ended /\ gz.waiting > 0 THEN gz.phase = "deflate"
                ELSE gz.phase = PhaseAt(s, totalIn)
  <2>1. Fed(totalIn)
    BY <1>3, AllTaken DEF UploadFed, GzipFed
  <2>2. InStep(gz, s, totalIn)
    BY <1>3, <2>1 DEF Fed
  <2>. QED
    BY <2>2 DEF InStep
<1>4. ASSUME Sound(s) PROVE gz.phase # "failed"
  BY <1>2, <1>4 DEF Fed
<1>5. ASSUME Sound(s), chunk # <<>> PROVE Consume(gz, chunk).gz.phase # "failed"
  <2>1. /\ m \in Nat /\ m <= totalIn /\ chunk = SubSeq(s, m + 1, totalIn)
        /\ InStep(gz, s, m) /\ gz.phase # "failed"
    BY <1>2, <1>4, <1>5 DEF Fed
  <2>2. m < totalIn
    <3>1. m = totalIn => SubSeq(s, m + 1, totalIn) = <<>>
      BY <1>1 DEF Octets
    <3>. QED
      BY <1>1, <1>5, <2>1, <3>1
  <2>3. Advances(Consume(gz, SubSeq(s, m + 1, totalIn)), s, m, totalIn)
    BY <1>1, <2>1, <2>2, Consumes
  <2>4. Advances(Consume(gz, chunk), s, m, totalIn)
    BY <2>1, <2>3
  <2>. QED
    BY <1>5, <2>4 DEF Advances
<1>. QED
  BY <1>3, <1>4, <1>5 DEF GzipInStep

LEMMA FedIsUpload == UploadFed => FlashIsUpload
<1>. SUFFICES ASSUME UploadFed, pc = "end"
              PROVE  IF IsGzip THEN Sound(upload.bytes) /\ flash.written = DecodedSize(upload.bytes)
                     ELSE flash.written = totalIn
  BY DEF FlashIsUpload
<1>. DEFINE s == upload.bytes
<1>1. flash.written \in Int /\ flash.ready = 0 /\ flash.written + flash.ready = flash.written
  BY DEF UploadFed, Flash
<1>2. CASE ~IsGzip
  BY <1>1, <1>2 DEF UploadFed, RawFed, Working
<1>3. CASE IsGzip
  <2>1. /\ Fed(totalIn) /\ flash.written = gz.out /\ gz.phase = "done"
        /\ s \in Octets /\ totalIn \in Nat /\ Within(s, totalIn)
    BY <1>1, <1>3, AllTaken DEF UploadFed, GzipFed, Working
  <2>2. /\ InStep(gz, s, totalIn) /\ gz \in Decoder
    BY <2>1 DEF Fed
  <2>3. Sound(s) /\ gz.waiting = 0 /\ gz.out = Inflated(s, totalIn) /\ DataEnd(s) <= totalIn
    <3>1. /\ Sound(s) /\ gz.waiting = 0 /\ gz.out + gz.waiting = Inflated(s, totalIn)
          /\ DataEnd(s) <= totalIn
      BY <2>1, <2>2 DEF InStep
    <3>2. gz.out \in Nat
      BY <2>2 DEF Decoder
    <3>. QED
      BY <3>1, <3>2
  <2>4. Within(s, Len(s)) /\ DataEnd(s) <= Len(s)
    <3>1. Len(s) \in Nat /\ DataEnd(s) \in Nat
      BY <2>1, Ends
    <3>. QED
      BY <2>1, <2>3, <3>1 DEF Within
  <2>5. Inflated(s, totalIn) = Inflated(s, Len(s))
    BY <2>1, <2>3, <2>4, InflatedIs
  <2>. QED
    BY <1>3, <2>1, <2>3, <2>5 DEF DecodedSize
<1>. QED
  BY <1>2, <1>3

\* However the network cuts a compressed upload into chunks, within a field or between
\* two, the decoder is in the field the format has there and has decoded what came; it
\* fails on no sound stream (feed and its phases).
THEOREM DecoderKeepsInStep == Spec => []GzipInStep
BY AlwaysFed, FedInStep, PTL

\* esp_ota_end is asked to accept what was sent and nothing else: all of a raw upload
\* that was read, or all that a sound compressed one decodes to (finish).
THEOREM FlashedAsSent == Spec => []FlashIsUpload
BY AlwaysFed, FedIsUpload, PTL
=============================================================================

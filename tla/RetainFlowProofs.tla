-------------------------- MODULE RetainFlowProofs --------------------------
(***************************************************************************)
(* Proofs about the hand-over of retain images, for any set of programs,   *)
(* of any retain sizes, and any number of stores, swaps, errors and        *)
(* restarts: the store of a program receives bytes of another program only *)
(* if it has been swapped in over one of its own retain size, and a        *)
(* shutdown without a failed flush leaves an image of a program that has   *)
(* stored a retained value or took one over from a program of another      *)
(* size.                                                                   *)
(***************************************************************************)
EXTENDS RetainFlow, TLAPS

FlowInv == TypeOK /\ PairsMatch

(* The first start: everything belongs to Boot.                            *)
LEMMA InitFlow == Init => FlowInv
<1>1. SUFFICES ASSUME Init PROVE FlowInv
  OBVIOUS
<1>2. TypeOK
  <2>1. vm \in Images /\ buf \in Images /\ notified \in Images
    BY <1>1, FlowAssumption DEF Init, Zeros, Images, NoImage
  <2>2. fresh \in BOOLEAN /\ (bufSize = 0 => ~fresh)
    BY <1>1, FlowAssumption DEF Init
  <2>3. disk \in [Programs -> Images]
    BY <1>1, FlowAssumption DEF Init, Images, NoImage
  <2>4. pc \in [Flushers -> {"idle", "wait", "read", "flush", "end"}]
    BY <1>1 DEF Init, FirstPc
  <2>5. snap \in [Flushers -> [id : Programs, image : Images]]
    BY <1>1, FlowAssumption DEF Init, NoSnap, Nothing, Images, NoImage
  <2>6. stores \in 0..MaxStores /\ bufSize = Size[laidOut] /\ changes \in 0..MaxChanges
    BY <1>1, FlowAssumption DEF Init
  <2>7. cur \in Programs /\ laidOut \in Programs
    BY <1>1, FlowAssumption DEF Init
  <2>8. /\ vmDirty \in BOOLEAN /\ dirty \in BOOLEAN /\ everDirty \in BOOLEAN
        /\ unpub \in BOOLEAN /\ last \in BOOLEAN /\ stop \in BOOLEAN
        /\ failed \in BOOLEAN /\ twin \in BOOLEAN /\ aliased \subseteq Programs
    BY <1>1 DEF Init
  <2>9. QED
    BY <1>1, <2>1, <2>2, <2>3, <2>4, <2>5, <2>6, <2>7, <2>8 DEF Init, TypeOK
<1>3. PairsMatch
  BY <1>1, FlowAssumption
  DEF Init, PairsMatch, Fits, Zeros, NoImage, NoSnap, Nothing, Flushers
<1>4. QED
  BY <1>2, <1>3 DEF FlowInv

(* Steps that copy no image keep the pairs.                                *)
LEMMA QuietFlow ==
  ASSUME FlowInv,
         CheckStop \/ BeginRun \/ Take \/ LastTake \/ Shutdown \/ Join
           \/ (\E t \in Flushers : NothingNew(t) \/ FlushFails(t))
           \/ UNCHANGED vars
  PROVE  FlowInv'
<1> USE FlowAssumption DEF FlowInv, TypeOK, PairsMatch, Fits, Flushers
<1>1. CASE CheckStop BY <1>1 DEF CheckStop, scanVars, swapVars, bufVars
<1>2. CASE BeginRun BY <1>2 DEF BeginRun, scanVars, swapVars, bufVars
<1>3. CASE Take
  <2>1. pc' \in [Flushers -> {"idle", "wait", "read", "flush", "end"}]
    BY <1>3 DEF Take
  <2> HIDE DEF Fits
  <2>2. TypeOK'
    BY <1>3, <2>1 DEF Take, scanVars, swapVars, bufVars
  <2>3. PairsMatch'
    BY <1>3 DEF Take, scanVars, swapVars, bufVars, Fits
  <2>4. QED BY <2>2, <2>3
<1>4. CASE LastTake BY <1>4 DEF LastTake, scanVars, swapVars, bufVars
<1>5. CASE Shutdown BY <1>5 DEF Shutdown, scanVars, swapVars, bufVars
<1>6. CASE Join BY <1>6 DEF Join, scanVars, swapVars, bufVars
<1>7. ASSUME NEW t \in Flushers, NothingNew(t) PROVE FlowInv'
  BY <1>7 DEF NothingNew, Done, scanVars, swapVars, bufVars
<1>8. ASSUME NEW t \in Flushers, FlushFails(t) PROVE FlowInv'
  <2>1. snap' \in [Flushers -> [id : Programs, image : Images]]
    BY <1>8 DEF FlushFails, Nothing, NoImage, Images
  <2>2. \A u \in Flushers : snap'[u] = snap[u] \/ snap'[u].image = NoImage
    BY <1>8 DEF FlushFails, Nothing
  <2>3. QED
    BY <1>8, <2>1, <2>2 DEF FlushFails, Done, scanVars, swapVars, bufVars
<1>9. CASE UNCHANGED vars BY <1>9 DEF vars, scanVars, swapVars, bufVars
<1>10. QED BY <1>1, <1>2, <1>3, <1>4, <1>5, <1>6, <1>7, <1>8, <1>9

(* The scan: logic stores in the layout of the current program, and the    *)
(* end of run_due lays the buffer out anew after a swap to a program of    *)
(* another size.                                                           *)
LEMMA ScanFlow ==
  ASSUME FlowInv,
         Logic \/ LogicAfterError \/ LogicError \/ EndRun
           \/ (\E p \in Programs : Install(p))
  PROVE  FlowInv'
<1> USE FlowAssumption
    DEF FlowInv, TypeOK, PairsMatch, Fits, Flushers, Images, NoImage, swapVars
<1>1. ASSUME NEW i \in Images, Notify(i), i.layout = vm.layout, stores' \in 0..MaxStores,
             i # NoImage
      PROVE  FlowInv'
  <2>1. TypeOK'
    <3> HIDE DEF Fits, PairsMatch, NoImage
    <3>1. QED BY <1>1 DEF Notify, bufVars
  <2>2. UNCHANGED <<cur, laidOut, buf, twin, aliased, disk, snap, scanPc>> /\ vm' = i
    BY <1>1 DEF Notify, bufVars
  <2>3. PairsMatch'
    <3>1. \A x, q : Fits(x, q)' <=> Fits(x, q)
      BY <2>2
    <3>2. Fits(i, cur)
      BY <1>1
    <3> HIDE DEF Fits
    <3>3. QED BY <1>1, <2>2, <3>1, <3>2
  <2>4. QED BY <2>1, <2>3
<1>2. Stored \in Images /\ Stored.layout = vm.layout /\ Stored # NoImage
  BY DEF Stored
<1>3. CASE Logic
  <2>1. stores' \in 0..MaxStores /\ Notify(Stored)
    BY <1>3 DEF Logic
  <2>2. QED
    BY <1>1, <1>2, <2>1
<1>4. CASE LogicAfterError
  BY <1>1, <1>4 DEF LogicAfterError
<1>5. CASE LogicError
  BY <1>2, <1>5 DEF LogicError, bufVars
<1>6. ASSUME NEW p \in Programs, Install(p) PROVE FlowInv'
  <2>1. /\ cur' = p /\ twin' = (cur \in SameSize(p)) /\ twin' \in BOOLEAN
        /\ aliased' = IF twin' THEN aliased \cup {p} ELSE aliased
        /\ UNCHANGED <<laidOut, buf, disk, snap>> /\ scanPc = "run" /\ scanPc' = "run"
        /\ laidOut = cur
    BY <1>6 DEF Install, bufVars
  <2>2. vm' \in Images /\ vm'.layout = p /\ vm' # NoImage /\ notified' = NoImage
    BY <1>6 DEF Install
  <2>3. changes' \in 0..MaxChanges /\ notified' \in Images /\ aliased' \subseteq Programs
    BY <1>6, <2>1, <2>2 DEF Install, Change
  <2>4. TypeOK'
    <3> HIDE DEF Fits, PairsMatch, NoImage, Images
    <3>1. QED BY <1>6, <2>1, <2>2, <2>3 DEF Install, bufVars
  <2>5. PairsMatch'
    <3>1. \A i, q : Fits(i, q) => Fits(i, q)'
      BY <2>1 DEF SameSize
    <3>2. (twin => cur \in aliased)' /\ (laidOut # cur => twin = (laidOut \in SameSize(cur)))'
      BY <2>1 DEF SameSize
    <3> HIDE DEF Fits
    <3>3. \A t \in Flushers : Fits(snap[t].image, snap[t].id)'
      BY <2>1, <3>1
    <3>4. (\A q \in Programs : Fits(disk[q], q))' /\ Fits(buf, laidOut)'
      BY <2>1, <3>1
    <3>5. Fits(vm, cur)'
      BY <2>1, <2>2 DEF Fits
    <3>6. QED
      BY <2>1, <2>2, <3>2, <3>3, <3>4, <3>5
  <2>6. QED
    BY <2>4, <2>5
<1>7. CASE EndRun
  <2>1. laidOut # cur /\ ~NeedsBuffer => Size[cur] = 0 \/ laidOut \in SameSize(cur)
    BY DEF SameSize, NeedsBuffer
  <2>2. bufSize' = Size[cur]
    BY <1>7 DEF EndRun, NeedsBuffer
  <2>3. \/ buf' = NoImage \/ buf' = vm
        \/ buf' = buf /\ (laidOut = cur \/ laidOut \in SameSize(cur))
    BY <1>7, <2>1 DEF EndRun
  <2>4. Size[cur] = 0 => ~fresh'
    BY <1>7 DEF EndRun, Pending
  <2>5. unpub' \in BOOLEAN /\ fresh' \in BOOLEAN /\ buf' \in Images
    <3>1. unpub' \in BOOLEAN
      BY <1>7 DEF EndRun
    <3>2. fresh' \in BOOLEAN
      BY <1>7 DEF EndRun
    <3>3. buf' \in Images
      BY <2>3
    <3>4. QED BY <3>1, <3>2, <3>3
  <2>6. UNCHANGED <<cur, vm, twin, aliased, changes, disk, snap>> /\ laidOut' = cur
    BY <1>7 DEF EndRun
  <2>7. Fits(buf', cur)
    <3>1. CASE buf' = buf /\ laidOut \in SameSize(cur)
      <4>1. cur \in aliased
        BY <3>1 DEF SameSize
      <4>2. laidOut \in Programs \ {cur} /\ Size[laidOut] = Size[cur] /\ Size[cur] # 0
        BY <3>1 DEF SameSize
      <4>3. buf = NoImage \/ buf.layout = laidOut \/ buf.layout \in SameSize(laidOut)
        OBVIOUS
      <4>4. buf = NoImage \/ buf.layout = cur \/ buf.layout \in SameSize(cur)
        BY <4>2, <4>3 DEF SameSize
      <4>5. QED BY <3>1, <4>1, <4>4
    <3>2. QED BY <2>3, <3>1
  <2>8. TypeOK'
    BY <1>7, <2>2, <2>4, <2>5 DEF EndRun
  <2>9. PairsMatch'
    BY <1>7, <2>6, <2>7 DEF EndRun
  <2>10. QED
    BY <2>8, <2>9
<1>8. QED BY <1>3, <1>4, <1>5, <1>6, <1>7

(* A flusher files the buffer's image under the laid-out program, a        *)
(* restart loads a program from its own store.                             *)
LEMMA FlushFlow ==
  ASSUME FlowInv,
         \/ \E t \in Flushers : Read(t) \/ Flush(t)
         \/ \E p \in Programs : Restart(p)
  PROVE  FlowInv'
<1> USE FlowAssumption
    DEF FlowInv, TypeOK, PairsMatch, Flushers, Images, NoImage, swapVars
<1>1. ASSUME NEW t \in Flushers, Read(t) PROVE FlowInv'
  <2>1. TypeOK'
    <3>1. snap' \in [Flushers -> [id : Programs, image : Images]]
      BY <1>1 DEF Read
    <3>2. pc' \in [Flushers -> {"idle", "wait", "read", "flush", "end"}]
      BY <1>1 DEF Read
    <3>3. fresh' = FALSE
      BY <1>1 DEF Read
    <3>4. UNCHANGED <<scanVars, dirty, buf, bufSize, disk, scanPc, last, stop, failed>>
      BY <1>1 DEF Read
    <3> HIDE DEF Images, NoImage, PairsMatch
    <3>5. QED
      BY <3>1, <3>2, <3>3, <3>4 DEF scanVars
  <2>2. UNCHANGED <<cur, vm, laidOut, buf, twin, aliased, disk, scanPc>>
    BY <1>1 DEF Read, scanVars
  <2>3. \A u \in Flushers : Fits(snap'[u].image, snap'[u].id)
    BY <1>1 DEF Read
  <2>4. QED
    BY <2>1, <2>2, <2>3 DEF Fits
<1>2. ASSUME NEW t \in Flushers, Flush(t) PROVE FlowInv'
  <2>1. /\ snap' = [snap EXCEPT ![t] = Nothing]
        /\ disk' = [disk EXCEPT ![snap[t].id] = snap[t].image]
        /\ UNCHANGED <<cur, vm, laidOut, buf, twin, aliased, scanPc>>
    BY <1>2 DEF Flush, scanVars, bufVars
  <2>2. TypeOK'
    BY <1>2, <2>1 DEF Flush, Done, scanVars, bufVars, Nothing
  <2>3. \A u \in Flushers : Fits(snap'[u].image, snap'[u].id)
    BY <2>1 DEF Nothing, Fits
  <2>4. \A p \in Programs : Fits(disk'[p], p)
    BY <2>1
  <2>5. QED
    BY <2>1, <2>2, <2>3, <2>4 DEF Fits
<1>3. ASSUME NEW p \in Programs, Restart(p) PROVE FlowInv'
  <2>1. /\ cur' = p /\ laidOut' = p /\ twin' = FALSE /\ snap' = NoSnap
        /\ UNCHANGED <<disk, aliased>> /\ changes' \in 0..MaxChanges
        /\ vm' = IF disk[p] = NoImage THEN Zeros(p) ELSE disk[p]
        /\ buf' = IF Size[p] = 0 THEN NoImage ELSE vm'
    BY <1>3 DEF Restart, Change
  <2>2. vm' \in Images /\ buf' \in Images /\ vm' # NoImage /\ Fits(vm', p)
    BY <2>1 DEF Zeros, Fits
  <2>3. TypeOK'
    <3>1. /\ pc' \in [Flushers -> {"idle", "wait", "read", "flush", "end"}]
          /\ snap' \in [Flushers -> [id : Programs, image : Images]]
          /\ notified' \in Images
      BY <1>3 DEF Restart, FirstPc, NoSnap, Nothing
    <3>2. bufSize' = Size[laidOut'] /\ (bufSize' = 0 => ~fresh') /\ fresh' \in BOOLEAN
      BY <1>3 DEF Restart
    <3> HIDE DEF Images, NoImage, PairsMatch
    <3>3. QED
      BY <1>3, <2>1, <2>2, <3>1, <3>2 DEF Restart
  <2>4. \A u \in Flushers : Fits(snap'[u].image, snap'[u].id)
    BY <2>1 DEF NoSnap, Nothing, Fits
  <2>5. QED
    BY <2>1, <2>2, <2>3, <2>4 DEF Fits
<1>4. QED BY <1>1, <1>2, <1>3

(* Every step keeps the pairs.                                             *)
LEMMA NextFlow == FlowInv /\ [Next]_vars => FlowInv'
BY QuietFlow, ScanFlow, FlushFlow DEF Next, ScanStep, FlushStep

(* The store of a program holds values of that program only, or, if it was *)
(* swapped in over a program of the same retain size, values of a program  *)
(* of that size.                                                           *)
THEOREM ImagesAreOwn == Spec => []OwnImages
<1>1. FlowInv => OwnImages
  BY DEF FlowInv, PairsMatch, Fits, OwnImages, NoImage
<1>2. QED
  BY <1>1, InitFlow, NextFlow, PTL DEF Spec

-----------------------------------------------------------------------------
(* What a graceful shutdown leaves behind.                                 *)

(* An image of the current program is on the disk, on its way there, or in *)
(* the buffer for the next flusher; or a flush has failed.                 *)
Saved ==
  \/ disk[cur] # NoImage
  \/ failed
  \/ fresh
  \/ \E t \in Flushers : pc[t] = "flush" /\ snap[t].id = cur

(* What is handed over is an image, of a program that retains something.   *)
HandOver ==
  /\ fresh => buf # NoImage
  /\ \A t \in Flushers :
       pc[t] = "flush" => snap[t].image # NoImage /\ Size[snap[t].id] # 0
  /\ \A p \in Programs : Size[p] = 0 => disk[p] = NoImage
  /\ Size[cur] = 0 => vm.val = 0

(* The extra flush comes after the last publication and takes it.          *)
MainLast ==
  /\ pc["main"] # "wait" => scanPc = "exit"
  /\ pc["main"] \in {"flush", "end"} => ~fresh

(* Once a pass has stored, the current program's image is saved, or the    *)
(* run in progress is going to publish it: the pass has just notified, or  *)
(* a swap has just happened.  A program swapped in over one of its own     *)
(* size has to notify first.                                               *)
StoredIsSaved ==
  everDirty /\ Size[cur] # 0 /\ (~twin \/ notified # NoImage) =>
    Saved \/ (scanPc = "run" /\ (unpub \/ (laidOut # cur /\ ~twin)))

ExitInv == HandOver /\ MainLast /\ StoredIsSaved

(* The first start: nothing is stored, nothing is dirty.                   *)
LEMMA InitExit == Init => ExitInv
<1>1. SUFFICES ASSUME Init PROVE ExitInv
  OBVIOUS
<1>2. pc["main"] = "wait" /\ \A t \in Flushers : pc[t] # "flush"
  BY <1>1 DEF Init, FirstPc, Flushers
<1>3. fresh => buf # NoImage
  BY <1>1, FlowAssumption DEF Init, Zeros, NoImage
<1>4. /\ \A p \in Programs : Size[p] = 0 => disk[p] = NoImage
      /\ vm.val = 0 /\ ~everDirty
  BY <1>1 DEF Init, Zeros
<1>5. QED
  BY <1>2, <1>3, <1>4 DEF ExitInv, HandOver, MainLast, StoredIsSaved

(* The scan publishes what it stored or took over before it lets go of the *)
(* mutex, unless nothing is retained.                                      *)
LEMMA ScanExit ==
  ASSUME FlowInv, ExitInv, ScanStep
  PROVE  ExitInv'
<1> USE FlowAssumption
    DEF FlowInv, TypeOK, PairsMatch, Fits, ExitInv, HandOver, MainLast, StoredIsSaved,
        Saved, Flushers, swapVars
<1>1. CASE CheckStop
  BY <1>1 DEF CheckStop, scanVars, swapVars, bufVars
<1>2. CASE BeginRun
  BY <1>2 DEF BeginRun, scanVars, swapVars, bufVars
<1>3. ASSUME NEW p \in Programs, Install(p) PROVE ExitInv'
  BY <1>3 DEF Install, bufVars
<1>4. ASSUME NEW i, Notify(i), scanPc = "run", Size[cur] # 0 \/ i = vm PROVE ExitInv'
  BY <1>4 DEF Notify, bufVars
<1>5. CASE Logic \/ LogicAfterError \/ LogicError
  <2>1. CASE LogicError
    BY <2>1 DEF LogicError, bufVars
  <2>2. QED
    BY <1>4, <1>5, <2>1 DEF Logic, LogicAfterError
<1>6. CASE EndRun
  <2>1. laidOut # cur /\ ~twin /\ Size[cur] # 0 => NeedsBuffer
    BY DEF SameSize, NeedsBuffer
  <2>2. vm # NoImage
    OBVIOUS
  <2>3. fresh' => buf' # NoImage
    BY <1>6, <2>2 DEF EndRun
  <2>4. StoredIsSaved'
    BY <1>6, <2>1 DEF EndRun, Pending
  <2>5. pc["main"] = "wait"
    BY <1>6 DEF EndRun
  <2>6. QED
    BY <1>6, <2>3, <2>4, <2>5 DEF EndRun
<1>7. QED
  BY <1>1, <1>2, <1>3, <1>4, <1>5, <1>6 DEF ScanStep

(* A flusher carries the buffer's image to the disk or records a failure.  *)
LEMMA FlushExit ==
  ASSUME FlowInv, ExitInv, NEW t \in Flushers, FlushStep(t)
  PROVE  ExitInv'
<1> USE FlowAssumption
    DEF FlowInv, TypeOK, PairsMatch, Fits, ExitInv, HandOver, MainLast, StoredIsSaved,
        Saved, Flushers, swapVars
<1>1. CASE Read(t)
  <2>1. Size[laidOut] # 0 /\ laidOut = cur
    BY <1>1 DEF Read
  <2>2. QED
    BY <1>1, <2>1 DEF Read, scanVars, swapVars
<1>2. CASE NothingNew(t)
  BY <1>2 DEF NothingNew, Done, scanVars, swapVars, bufVars
<1>3. CASE Flush(t)
  BY <1>3 DEF Flush, Done, scanVars, swapVars, bufVars
<1>4. CASE FlushFails(t)
  BY <1>4 DEF FlushFails, Done, scanVars, swapVars, bufVars
<1>5. QED
  BY <1>1, <1>2, <1>3, <1>4 DEF FlushStep

(* The signal, the stop flag and a restart.                                *)
LEMMA OtherExit ==
  ASSUME FlowInv, ExitInv,
         Take \/ LastTake \/ Shutdown \/ Join \/ (\E p \in Programs : Restart(p))
           \/ UNCHANGED vars
  PROVE  ExitInv'
<1> USE FlowAssumption
    DEF FlowInv, TypeOK, PairsMatch, Fits, ExitInv, HandOver, MainLast, StoredIsSaved,
        Saved, Flushers, swapVars
<1>1. CASE Take BY <1>1 DEF Take, scanVars, swapVars, bufVars
<1>2. CASE LastTake BY <1>2 DEF LastTake, scanVars, swapVars, bufVars
<1>3. CASE Shutdown BY <1>3 DEF Shutdown, scanVars, swapVars, bufVars
<1>4. CASE Join BY <1>4 DEF Join, scanVars, swapVars, bufVars
<1>5. ASSUME NEW p \in Programs, Restart(p) PROVE ExitInv'
  BY <1>5 DEF Restart, Zeros, FirstPc, NoSnap, Nothing, NoImage
<1>6. CASE UNCHANGED vars BY <1>6 DEF vars, scanVars, swapVars, bufVars
<1>7. QED BY <1>1, <1>2, <1>3, <1>4, <1>5, <1>6

(* After a graceful shutdown in which no flush failed, a program that      *)
(* retains a value has an image in the store if any pass has notified a    *)
(* store since the boot, whatever swaps happened between that store and    *)
(* the exit and however T5's last flush and the shutdown flush interleave; *)
(* only if it was swapped in over a program of the same retain size must   *)
(* the store have been its own.                                            *)
THEOREM ShutdownLeavesImage ==
  Spec => []ExitLeavesImage
<1>1. Init => FlowInv /\ ExitInv
  BY InitFlow, InitExit
<1>2. FlowInv /\ ExitInv /\ [Next]_vars => (FlowInv /\ ExitInv)'
  <2>1. SUFFICES ASSUME FlowInv, ExitInv, [Next]_vars PROVE FlowInv' /\ ExitInv'
    OBVIOUS
  <2>2. FlowInv'
    BY <2>1, NextFlow
  <2>3. ExitInv'
    BY <2>1, ScanExit, FlushExit, OtherExit DEF Next
  <2>4. QED
    BY <2>2, <2>3
<1>3. FlowInv /\ ExitInv => ExitLeavesImage
  BY DEF FlowInv, TypeOK, ExitInv, HandOver, MainLast, StoredIsSaved, Saved,
         ExitLeavesImage, Exited, Flushers
<1>4. QED
  BY <1>1, <1>2, <1>3, PTL DEF Spec
=============================================================================

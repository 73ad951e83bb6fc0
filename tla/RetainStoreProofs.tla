------------------------- MODULE RetainStoreProofs -------------------------
(***************************************************************************)
(* Proofs about the NV store with one flusher (T5, which runs alone until  *)
(* shutdown), for any number of flushes, power cuts and I/O errors: what   *)
(* was acknowledged survives, and the store implements RetainRegister.     *)
(*                                                                         *)
(* The argument looks at every state a power cut could leave.  Outside of  *)
(* a flush they all commit to one slot a, generation g and image v         *)
(* (Good); flush touches only the other slot until that slot is synced,    *)
(* and a torn index falls back to the slot of the greater generation,      *)
(* which is then the new one.  A failure in a step of Harmful ends this    *)
(* (StoreInv is kept only while ~harmed); what remains is what the running *)
(* flush itself has put on the medium (Reached), and that is enough for    *)
(* the next Ok to make every crash state Good again.                       *)
(***************************************************************************)
EXTENDS RetainStore, TLAPS

(* One thread flushes, and sync_all of a file persists its directory       *)
(* entry.  Any system call may fail.                                       *)
Alone(t) == Flushers = {t} /\ EntrySync

Unreadable == {Absent, Torn}
DiskOK(c) ==
  /\ c = [f \in Files |-> c[f]]
  /\ c["s0"] \in SlotRecords \cup Unreadable
  /\ c["s1"] \in SlotRecords \cup Unreadable
  /\ c["idx"] \in IdxRecords \cup Unreadable

TypeOK ==
  /\ DiskOK(cache) /\ DiskOK(stable) /\ linked \in SUBSET Files
  /\ pc \in [Flushers -> Steps \cup {"idle"}]
  /\ slot \in [Flushers -> {0, 1}]
  /\ gen \in [Flushers -> Nat] /\ img \in [Flushers -> Nat]
  /\ begun \in 0..MaxFlushes /\ acked \in 0..begun

(* A file that was synced exists and has its directory entry on the medium. *)
Entries == \A f \in Files : stable[f] # Absent => f \in linked /\ cache[f] # Absent

(* What a power cut leaves of a file, given its entry.                     *)
Left(f, x) == x = stable[f] \/ (cache[f] # stable[f] /\ x \in {Torn, cache[f]})

(* The files c commit to slot a, of generation g and image v: the index    *)
(* names it, or there is no index and the other slot is older, or nothing  *)
(* was ever written.                                                       *)
Good(c, a, g, v) ==
  \/ c[SlotFile(a)] = [gen |-> g, img |-> v] /\ c["idx"] = [slot |-> a, gen |-> g]
  \/ /\ c[SlotFile(a)] = [gen |-> g, img |-> v] /\ ~Readable(c, "idx")
     /\ Readable(c, SlotFile(1 - a)) => c[SlotFile(1 - a)].gen < g
  \/ /\ a = 1 /\ g = 0 /\ v = Cold
     /\ ~Readable(c, "s0") /\ ~Readable(c, "s1") /\ ~Readable(c, "idx")

----------------------------------------------------------------------------
(* Reading the files.                                                      *)

(* committed() and load() agree with Good.                                 *)
LEMMA GoodReads ==
  ASSUME NEW c, DiskOK(c), NEW a \in {0, 1}, NEW g \in Nat, NEW v \in Nat, Good(c, a, g, v)
  PROVE  Load(c) = v /\ Committed(c) = [slot |-> a, gen |-> g]
<1> USE FileAssumption DEF DiskOK, Unreadable, Readable, SlotFile, Cold
<1>0. /\ [slot |-> a, gen |-> g] \in IdxRecords /\ [gen |-> g, img |-> v] \in SlotRecords
      /\ [slot |-> a, gen |-> g].slot = a /\ [slot |-> a, gen |-> g].gen = g
      /\ [gen |-> g, img |-> v].gen = g /\ [gen |-> g, img |-> v].img = v
  BY DEF IdxRecords, SlotRecords
<1>1. CASE c[SlotFile(a)] = [gen |-> g, img |-> v] /\ c["idx"] = [slot |-> a, gen |-> g]
  <2>1. Readable(c, "idx") /\ Readable(c, SlotFile(a)) /\ Preferred(c) = SlotFile(a)
    BY <1>0, <1>1 DEF Preferred
  <2>2. QED
    BY <1>0, <1>1, <2>1 DEF Load, Committed
<1>2. CASE /\ c[SlotFile(a)] = [gen |-> g, img |-> v] /\ ~Readable(c, "idx")
           /\ Readable(c, SlotFile(1 - a)) => c[SlotFile(1 - a)].gen < g
  <2>1. Readable(c, SlotFile(a)) /\ c[SlotFile(a)].gen = g
    BY <1>0, <1>2
  <2>2. \A f \in {"s0", "s1"} : Readable(c, f) => c[f].gen \in Nat
    BY DEF SlotRecords
  <2>3. NewestSlot(c) = a
    <3>1. CASE a = 0
      BY <1>2, <2>1, <2>2, <3>1 DEF NewestSlot
    <3>2. CASE a = 1
      BY <1>2, <2>1, <2>2, <3>2 DEF NewestSlot
    <3>3. QED BY <3>1, <3>2
  <2>4. QED
    BY <1>0, <1>2, <2>1, <2>3 DEF Load, Committed
<1>3. CASE /\ a = 1 /\ g = 0 /\ v = Cold
           /\ ~Readable(c, "s0") /\ ~Readable(c, "s1") /\ ~Readable(c, "idx")
  BY <1>3 DEF Load, Committed
<1>4. QED BY <1>1, <1>2, <1>3 DEF Good

(* The crash states, file by file.                                         *)
FileByFile ==
  \A c : c \in CrashStates <=> c = [f \in Files |-> c[f]] /\ \A f \in Files : Left(f, c[f])

(* A power cut leaves each file as it was synced, as it was written, or    *)
(* torn, independently of the others.                                      *)
LEMMA CrashSets == TypeOK /\ Entries => FileByFile
<1> SUFFICES ASSUME TypeOK, Entries, NEW c
             PROVE  c \in CrashStates <=>
                      c = [f \in Files |-> c[f]] /\ \A f \in Files : Left(f, c[f])
  BY DEF FileByFile
<1>1. \A f \in Files : \A x : (x \in Contents(f) /\ Survives(f, x)) <=> Left(f, x)
  BY FileAssumption DEF Contents, Survives, Left, Entries
<1>2. ASSUME c \in CrashStates
      PROVE  c = [f \in Files |-> c[f]] /\ \A f \in Files : Left(f, c[f])
  <2>1. PICK x, y, z : /\ c = [s0 |-> x, s1 |-> y, idx |-> z]
                       /\ Left("s0", x) /\ Left("s1", y) /\ Left("idx", z)
    BY <1>1, <1>2 DEF CrashStates, Files
  <2>2. QED
    BY <2>1 DEF Files
<1>3. ASSUME c = [f \in Files |-> c[f]], \A f \in Files : Left(f, c[f])
      PROVE  c \in CrashStates
  <2>1. c = [s0 |-> c["s0"], s1 |-> c["s1"], idx |-> c["idx"]]
    BY <1>3 DEF Files
  <2>2. \A f \in Files : c[f] \in {x \in Contents(f) : Survives(f, x)}
    BY <1>1, <1>3
  <2>3. QED
    BY <2>1, <2>2 DEF CrashStates, Files
<1>4. QED BY <1>2, <1>3

(* A power cut may leave every file as it is read, or as it is on the      *)
(* medium.                                                                 *)
LEMMA CacheMaySurvive ==
  (TypeOK /\ Entries) =>
    cache \in CrashStates /\ stable \in CrashStates /\ \A c \in CrashStates : DiskOK(c)
<1> SUFFICES ASSUME TypeOK, Entries
             PROVE  cache \in CrashStates /\ stable \in CrashStates
                    /\ \A c \in CrashStates : DiskOK(c)
  OBVIOUS
<1>1. cache \in CrashStates /\ stable \in CrashStates
  BY CrashSets DEF FileByFile, TypeOK, DiskOK, Left
<1>2. ASSUME NEW c \in CrashStates PROVE DiskOK(c)
  <2>1. c = [f \in Files |-> c[f]] /\ \A f \in Files : Left(f, c[f])
    BY CrashSets DEF FileByFile
  <2>2. QED
    BY <2>1 DEF TypeOK, DiskOK, Left, Files, Unreadable
<1>3. QED BY <1>1, <1>2

(* Some state is left by every power cut: the one in which all writes      *)
(* reached the medium.                                                     *)
LEMMA CrashStatesExist == TypeOK /\ Entries => CrashStates # {}
BY CacheMaySurvive

----------------------------------------------------------------------------
(* What a flush that writes slot 1 - a does to files that commit to a.     *)

(* Tearing the other slot does not change what is committed.               *)
LEMMA TornSlot ==
  ASSUME NEW c, DiskOK(c), NEW a \in {0, 1}, NEW g \in Nat, NEW v \in Nat, Good(c, a, g, v)
  PROVE  Good([c EXCEPT ![SlotFile(1 - a)] = Torn], a, g, v)
BY DEF Good, DiskOK, Readable, SlotFile, Files

(* The new slot is not read while the index names the old one; without an  *)
(* index its generation makes it the newest.                               *)
LEMMA WrittenSlot ==
  ASSUME NEW c, DiskOK(c), NEW a \in {0, 1}, NEW g \in Nat, NEW v \in Nat, Good(c, a, g, v),
         NEW w \in Nat, NEW d, d = [c EXCEPT ![SlotFile(1 - a)] = [gen |-> g + 1, img |-> w]]
  PROVE  \/ Good(d, a, g, v)
         \/ ~Readable(d, "idx") /\ Good(d, 1 - a, g + 1, w)
<1>1. CASE c["idx"] = [slot |-> a, gen |-> g]
  BY <1>1, FileAssumption DEF Good, DiskOK, Readable, SlotFile, Files, IdxRecords
<1>2. CASE ~Readable(c, "idx")
  <2>1. d["idx"] = c["idx"] /\ d[SlotFile(1 - a)] = [gen |-> g + 1, img |-> w]
        /\ d[SlotFile(a)] = c[SlotFile(a)]
    BY DEF DiskOK, SlotFile, Files
  <2>2. Readable(c, SlotFile(a)) => c[SlotFile(a)].gen < g + 1
    BY <1>2, FileAssumption DEF Good, Readable, SlotFile
  <2>3. QED
    BY <1>2, <2>1, <2>2 DEF Good, Readable, SlotFile
<1>3. QED BY <1>1, <1>2 DEF Good

(* Files that still commit to the old slot although the new one is whole   *)
(* have an index that names the old one.                                   *)
LEMMA OldIsIndexed ==
  ASSUME NEW d, NEW a \in {0, 1}, NEW g \in Nat, NEW v \in Nat, NEW w \in Nat,
         d[SlotFile(1 - a)] = [gen |-> g + 1, img |-> w], Good(d, a, g, v)
  PROVE  d["idx"] = [slot |-> a, gen |-> g] /\ d[SlotFile(a)] = [gen |-> g, img |-> v]
<1>1. [gen |-> g + 1, img |-> w] \in SlotRecords /\ [gen |-> g + 1, img |-> w].gen = g + 1
  BY DEF SlotRecords
<1>2. Readable(d, SlotFile(1 - a))
  BY <1>1, FileAssumption DEF Readable
<1>3. ~(d[SlotFile(1 - a)].gen < g)
  BY <1>1
<1>4. SlotFile(1 - a) \in {"s0", "s1"}
  BY DEF SlotFile
<1>5. QED
  BY <1>2, <1>3, <1>4 DEF Good

(* A torn index falls back to the new slot.                                *)
LEMMA TornIdx ==
  ASSUME NEW c, DiskOK(c), NEW a \in {0, 1}, NEW g \in Nat, NEW v \in Nat, NEW w \in Nat,
         c[SlotFile(1 - a)] = [gen |-> g + 1, img |-> w], Good(c, a, g, v),
         NEW d, d = [c EXCEPT !["idx"] = Torn]
  PROVE  ~Readable(d, "idx") /\ Good(d, 1 - a, g + 1, w)
<1>1. c["idx"] = [slot |-> a, gen |-> g] /\ c[SlotFile(a)] = [gen |-> g, img |-> v]
  BY OldIsIndexed
<1>2. d["idx"] = Torn /\ d["s0"] = c["s0"] /\ d["s1"] = c["s1"]
  BY DEF DiskOK, Files
<1>3. [gen |-> g, img |-> v].gen = g /\ g < g + 1 /\ 1 - (1 - a) = a
  OBVIOUS
<1>4. d[SlotFile(a)] = [gen |-> g, img |-> v] /\ d[SlotFile(1 - a)] = [gen |-> g + 1, img |-> w]
  BY <1>1, <1>2 DEF SlotFile
<1>5. QED
  BY <1>2, <1>3, <1>4 DEF Good, Readable

----------------------------------------------------------------------------
(* The inductive invariant, for the one flusher t.                         *)

WrittenRecord(t) == [gen |-> gen[t], img |-> img[t]]
WrittenIdx(t) == [slot |-> slot[t], gen |-> gen[t]]

(* Files c commit to the image v from before the flush, or to its own.     *)
Before(c, t, v) == Good(c, 1 - slot[t], gen[t] - 1, v)
After(c, t) == Good(c, slot[t], gen[t], img[t])
Whole(c, t) == c[SlotFile(slot[t])] = WrittenRecord(t)
Unindexed(c, t) == Whole(c, t) /\ ~Readable(c, "idx") /\ After(c, t)

Phase(c, t, v) ==
  /\ pc[t] \in {"open_slot", "write_slot"} => Before(c, t, v)
  /\ pc[t] = "sync_slot" => Before(c, t, v) \/ Unindexed(c, t)
  /\ pc[t] \in {"open_idx", "write_idx"} =>
       Whole(c, t) /\ (Before(c, t, v) \/ Unindexed(c, t))
  /\ pc[t] = "sync_idx" => Whole(c, t) /\ (Before(c, t, v) \/ After(c, t))
  /\ pc[t] = "sync_dir" => After(c, t)

IdxSettled(t) ==
  pc[t] \in {"idle", "open_slot", "write_slot", "sync_slot", "open_idx", "sync_dir"} =>
    cache["idx"] = stable["idx"]

StoreInv(t) ==
  /\ TypeOK /\ Entries /\ IdxSettled(t)
  /\ pc[t] = "idle" =>
       \E a \in {0, 1}, g \in Nat, v \in acked..begun :
         \A c \in CrashStates : Good(c, a, g, v)
  /\ pc[t] # "idle" =>
       /\ img[t] = begun /\ begun # 0 /\ gen[t] # 0
       /\ \E v \in acked..begun : \A c \in CrashStates : Phase(c, t, v)
  /\ pc[t] = "sync_slot" => cache[SlotFile(slot[t])] = WrittenRecord(t)
  /\ pc[t] = "sync_idx" => cache["idx"] = WrittenIdx(t)

(* What flush has put into the files so far, and on the medium, whatever   *)
(* failed before it.                                                       *)
Reached(t) ==
  LET f == SlotFile(slot[t])
  IN /\ pc[t] # "idle" => img[t] = begun /\ begun # 0 /\ gen[t] # 0
     /\ pc[t] \in {"sync_slot", "open_idx", "write_idx", "sync_idx", "sync_dir"} =>
          cache[f] = WrittenRecord(t)
     /\ pc[t] \in {"open_idx", "write_idx", "sync_idx", "sync_dir"} =>
          stable[f] = WrittenRecord(t)
     /\ pc[t] \in {"sync_idx", "sync_dir"} => cache["idx"] = WrittenIdx(t)
     /\ pc[t] = "sync_dir" => stable["idx"] = WrittenIdx(t)

(* No slot holds an image that was not flushed.                            *)
Flushed(c) == \A f \in {"s0", "s1"} : Readable(c, f) => c[f].img \in 1..MaxFlushes

FullInv(t) ==
  /\ TypeOK /\ Entries /\ harmed \in BOOLEAN
  /\ Reached(t) /\ Flushed(cache) /\ Flushed(stable)
  /\ ~harmed => StoreInv(t)

(* A step changed file f alone: put back what was on the medium, and the   *)
(* files are such that a power cut before the step could have left them.   *)
LEMMA Source ==
  ASSUME NEW t, StoreInv(t), TypeOK', Entries', NEW f \in Files,
         \A h \in Files \ {f} : cache'[h] = cache[h] /\ stable'[h] = stable[h],
         NEW d \in CrashStates'
  PROVE  /\ [d EXCEPT ![f] = stable[f]] \in CrashStates
         /\ d = [h \in Files |-> d[h]] /\ DiskOK(d)
         /\ \/ d[f] = stable'[f]
            \/ cache'[f] # stable'[f] /\ d[f] \in {Torn, cache'[f]}
<1>1. /\ d = [h \in Files |-> d[h]]
      /\ \A h \in Files : \/ d[h] = stable'[h]
                          \/ cache'[h] # stable'[h] /\ d[h] \in {Torn, cache'[h]}
  <2>1. FileByFile'
    BY CrashSets, PTL
  <2>2. QED
    BY <2>1 DEF FileByFile, Left
<1> DEFINE e == [d EXCEPT ![f] = stable[f]]
<1>2. e = [h \in Files |-> e[h]] /\ \A h \in Files : Left(h, e[h])
  BY <1>1 DEF Left
<1>3. e \in CrashStates
  BY <1>2, CrashSets DEF StoreInv, FileByFile
<1>4. DiskOK(d)
  BY <1>1 DEF TypeOK, DiskOK, Files, Unreadable
<1>5. QED BY <1>1, <1>3, <1>4

----------------------------------------------------------------------------
(* The same facts about the slot that flusher t writes.                    *)

(* A flush in progress writes the next generation of the image it was      *)
(* given.                                                                  *)
LEMMA FlushValues ==
  ASSUME NEW t \in Flushers, StoreInv(t), pc[t] # "idle"
  PROVE  /\ slot[t] \in {0, 1} /\ 1 - slot[t] \in {0, 1} /\ 1 - (1 - slot[t]) = slot[t]
         /\ gen[t] \in Nat /\ gen[t] - 1 \in Nat /\ (gen[t] - 1) + 1 = gen[t]
         /\ img[t] \in Nat /\ img[t] = begun /\ begun \in 1..MaxFlushes /\ acked \in Nat
<1>1. slot[t] \in {0, 1} /\ gen[t] \in Nat /\ img[t] \in Nat /\ gen[t] # 0 /\ img[t] = begun
  BY DEF StoreInv, TypeOK
<1>2. begun \in 1..MaxFlushes /\ acked \in Nat
  BY FileAssumption DEF StoreInv, TypeOK
<1>3. QED
  BY <1>1, <1>2

(* What a restart loads before and after the new slot counts.              *)
LEMMA FlushReads ==
  ASSUME NEW t \in Flushers, StoreInv(t), pc[t] # "idle", NEW v \in Nat, NEW c, DiskOK(c)
  PROVE  /\ Before(c, t, v) => Load(c) = v
         /\ After(c, t) => Load(c) = img[t]
BY FlushValues, GoodReads DEF Before, After

(* Until it is whole, the slot being written is not loaded.                *)
LEMMA FlushTornSlot ==
  ASSUME NEW t \in Flushers, StoreInv(t), pc[t] # "idle", NEW v \in Nat, NEW c, DiskOK(c),
         Before(c, t, v)
  PROVE  Before([c EXCEPT ![SlotFile(slot[t])] = Torn], t, v)
<1> DEFINE a == 1 - slot[t]
           g == gen[t] - 1
<1>1. a \in {0, 1} /\ g \in Nat /\ 1 - a = slot[t] /\ Good(c, a, g, v)
  BY FlushValues DEF Before
<1> HIDE DEF a, g
<1>2. Good([c EXCEPT ![SlotFile(1 - a)] = Torn], a, g, v)
  BY <1>1, TornSlot
<1>3. QED
  BY <1>1, <1>2 DEF Before, a, g

(* The written slot is loaded only if there is no index.                   *)
LEMMA FlushWrittenSlot ==
  ASSUME NEW t \in Flushers, StoreInv(t), pc[t] # "idle", NEW v \in Nat, NEW c, DiskOK(c),
         Before(c, t, v), NEW d, d = [c EXCEPT ![SlotFile(slot[t])] = WrittenRecord(t)]
  PROVE  Whole(d, t) /\ (Before(d, t, v) \/ Unindexed(d, t))
<1> DEFINE a == 1 - slot[t]
           g == gen[t] - 1
           w == img[t]
<1>1. /\ a \in {0, 1} /\ g \in Nat /\ 1 - a = slot[t] /\ Good(c, a, g, v)
      /\ w \in Nat /\ g + 1 = gen[t]
  BY FlushValues DEF Before
<1>2. d = [c EXCEPT ![SlotFile(1 - a)] = [gen |-> g + 1, img |-> w]]
  BY <1>1 DEF WrittenRecord
<1> HIDE DEF a, g, w
<1>3. Good(d, a, g, v) \/ (~Readable(d, "idx") /\ Good(d, 1 - a, g + 1, w))
  BY <1>1, <1>2, WrittenSlot
<1>4. Whole(d, t)
  BY DEF Whole, DiskOK, SlotFile, Files
<1>5. QED
  BY <1>1, <1>3, <1>4 DEF Before, Unindexed, After, a, g, w

(* With the new slot whole, the old image is loaded only through the       *)
(* index.                                                                  *)
LEMMA FlushOldIsIndexed ==
  ASSUME NEW t \in Flushers, StoreInv(t), pc[t] # "idle", NEW v \in Nat, NEW c,
         Whole(c, t), Before(c, t, v)
  PROVE  c["idx"] \in IdxRecords /\ c["idx"].slot = 1 - slot[t] /\ Readable(c, "idx")
<1> DEFINE a == 1 - slot[t]
           g == gen[t] - 1
           w == img[t]
<1>1. /\ a \in {0, 1} /\ g \in Nat /\ 1 - a = slot[t] /\ Good(c, a, g, v)
      /\ w \in Nat /\ g + 1 = gen[t]
  BY FlushValues DEF Before
<1>2. c[SlotFile(1 - a)] = [gen |-> g + 1, img |-> w]
  BY <1>1 DEF Whole, WrittenRecord
<1> HIDE DEF a, g, w
<1>3. c["idx"] = [slot |-> a, gen |-> g] /\ c[SlotFile(a)] = [gen |-> g, img |-> v]
  BY <1>1, <1>2, OldIsIndexed
<1>4. c["idx"] \in IdxRecords /\ c["idx"].slot = a
  BY <1>1, <1>3 DEF IdxRecords
<1>5. QED
  BY <1>4, FileAssumption DEF a, Readable

(* A torn index makes the restart fall back to the new slot.               *)
LEMMA FlushTornIdx ==
  ASSUME NEW t \in Flushers, StoreInv(t), pc[t] # "idle", NEW v \in Nat, NEW c, DiskOK(c),
         Whole(c, t), Before(c, t, v) \/ Unindexed(c, t),
         NEW d, d = [c EXCEPT !["idx"] = Torn]
  PROVE  Unindexed(d, t)
<1>1. d["idx"] = Torn /\ d["s0"] = c["s0"] /\ d["s1"] = c["s1"] /\ Whole(d, t)
  BY DEF DiskOK, Files, Whole, SlotFile
<1>2. CASE Before(c, t, v)
  <2> DEFINE a == 1 - slot[t]
             g == gen[t] - 1
             w == img[t]
  <2>1. /\ a \in {0, 1} /\ g \in Nat /\ 1 - a = slot[t] /\ Good(c, a, g, v)
        /\ w \in Nat /\ g + 1 = gen[t]
    BY <1>2, FlushValues DEF Before
  <2>2. c[SlotFile(1 - a)] = [gen |-> g + 1, img |-> w]
    BY <2>1 DEF Whole, WrittenRecord
  <2> HIDE DEF a, g, w
  <2>3. ~Readable(d, "idx") /\ Good(d, 1 - a, g + 1, w)
    BY <2>1, <2>2, TornIdx
  <2>4. QED
    BY <1>1, <2>1, <2>3 DEF Unindexed, After, a, g, w
<1>3. CASE Unindexed(c, t)
  <2>1. ~Readable(c, "idx") /\ Good(c, slot[t], gen[t], img[t])
    BY <1>3 DEF Unindexed, After
  <2>2. ~Readable(d, "idx")
    BY <1>1 DEF Readable
  <2>3. Good(d, slot[t], gen[t], img[t])
    BY <1>1, <2>1, <2>2, FlushValues, FileAssumption DEF Good, Readable, SlotFile, IdxRecords
  <2>4. QED
    BY <1>1, <2>2, <2>3 DEF Unindexed, After
<1>4. QED BY <1>2, <1>3

----------------------------------------------------------------------------
(* The steps of flush.                                                     *)

(* A step leaves no image to be loaded that was not there before, except   *)
(* the one that t flushes.                                                 *)
Tracks(t) == \A d \in CrashStates' :
               Load(d) = img[t] \/ \E c \in CrashStates : Load(d) = Load(c)

(* Types after a step that replaces or syncs one file.                     *)
LEMMA FileTypes ==
  ASSUME NEW t \in Flushers, Alone(t), TypeOK, Entries, SlotStep(t) \/ IdxStep(t)
  PROVE  TypeOK' /\ Entries' /\ UNCHANGED <<slot, gen, img, begun, acked>> /\ pc[t] # "idle"
<1>1. UNCHANGED <<slot, gen, img, begun, acked>> /\ pc[t] # "idle"
  BY DEF SlotStep, IdxStep, Open, Write, Sync, historyVars
<1>2. SlotFile(slot[t]) \in {"s0", "s1"}
  BY DEF SlotFile
<1>3. WrittenRecord(t) \in SlotRecords /\ WrittenIdx(t) \in IdxRecords
  BY DEF TypeOK, WrittenRecord, WrittenIdx, SlotRecords, IdxRecords
<1>4. DiskOK(cache) /\ DiskOK(stable)
  BY DEF TypeOK
<1>5. PICK at \in Steps : pc' = [pc EXCEPT ![t] = at]
  BY DEF SlotStep, IdxStep, Open, Write, Sync, Steps
<1>6. DiskOK(cache') /\ DiskOK(stable')
  <2>1. ASSUME NEW f \in {"s0", "s1"}, NEW x \in SlotRecords \cup Unreadable,
               cache' = [cache EXCEPT ![f] = x], UNCHANGED stable
        PROVE  DiskOK(cache') /\ DiskOK(stable')
    BY <1>4, <2>1 DEF DiskOK, Files
  <2>2. ASSUME NEW x \in IdxRecords \cup Unreadable,
               cache' = [cache EXCEPT !["idx"] = x], UNCHANGED stable
        PROVE  DiskOK(cache') /\ DiskOK(stable')
    BY <1>4, <2>2 DEF DiskOK, Files
  <2>3. ASSUME NEW f \in Files, stable' = [stable EXCEPT ![f] = cache[f]], UNCHANGED cache
        PROVE  DiskOK(cache') /\ DiskOK(stable')
    BY <1>4, <2>3 DEF DiskOK, Files
  <2>4. CASE SlotStep(t)
    BY <1>2, <1>3, <2>1, <2>3, <2>4
    DEF SlotStep, Open, Write, Sync, WrittenRecord, Unreadable, Files
  <2>5. CASE IdxStep(t)
    BY <1>3, <2>2, <2>3, <2>5
    DEF IdxStep, Open, Write, Sync, WrittenIdx, Unreadable, Files
  <2>6. QED BY <2>4, <2>5
<1>7. Entries' /\ linked' \in SUBSET Files
  <2>1. ASSUME NEW f \in Files, NEW x, x # Absent,
               cache' = [cache EXCEPT ![f] = x], UNCHANGED <<stable, linked>>
        PROVE  Entries' /\ linked' \in SUBSET Files
    BY <1>4, <2>1 DEF TypeOK, Entries, DiskOK
  <2>2. ASSUME NEW f \in Files, stable' = [stable EXCEPT ![f] = cache[f]],
               linked' = linked \cup {f}, UNCHANGED cache
        PROVE  Entries' /\ linked' \in SUBSET Files
    BY <1>4, <2>2 DEF TypeOK, Entries, DiskOK
  <2>3. WrittenRecord(t) # Absent /\ WrittenIdx(t) # Absent /\ Torn # Absent
    BY <1>3, FileAssumption
  <2>4. SlotFile(slot[t]) \in Files /\ "idx" \in Files
    BY <1>2 DEF Files
  <2>5. CASE SlotStep(t)
    BY <2>1, <2>2, <2>3, <2>4, <2>5 DEF Alone, SlotStep, Open, Write, Sync, WrittenRecord
  <2>6. CASE IdxStep(t)
    BY <2>1, <2>2, <2>3, <2>4, <2>6 DEF Alone, IdxStep, Open, Write, Sync, WrittenIdx
  <2>7. QED
    BY <2>5, <2>6
<1>8. QED
  BY <1>1, <1>5, <1>6, <1>7 DEF TypeOK

(* The same while the invariant holds.                                     *)
LEMMA FileStepTypes ==
  ASSUME NEW t \in Flushers, Alone(t), StoreInv(t), SlotStep(t) \/ IdxStep(t)
  PROVE  TypeOK' /\ Entries' /\ UNCHANGED <<slot, gen, img, begun, acked>> /\ pc[t] # "idle"
BY FileTypes DEF StoreInv

(* open_slot: the slot that is torn is not the committed one.              *)
LEMMA OpenSlotStep ==
  ASSUME NEW t \in Flushers, Alone(t), StoreInv(t),
         pc[t] = "open_slot", Open(t, SlotFile(slot[t]), "write_slot")
  PROVE  StoreInv(t)' /\ Tracks(t)
<1> DEFINE f == SlotFile(slot[t])
<1>1. TypeOK' /\ Entries' /\ UNCHANGED <<slot, gen, img, begun, acked>>
  BY FileStepTypes DEF SlotStep
<1>2. /\ cache' = [cache EXCEPT ![f] = Torn] /\ UNCHANGED stable /\ pc'[t] = "write_slot"
      /\ f \in Files /\ f # "idx"
  BY DEF Open, StoreInv, TypeOK, SlotFile, Files
<1>3. PICK v \in acked..begun : \A c \in CrashStates : Phase(c, t, v)
  BY DEF StoreInv
<1>4. v \in Nat
  BY FlushValues
<1>5. ASSUME NEW d \in CrashStates'
      PROVE  Before(d, t, v) /\ \E c \in CrashStates : Load(d) = Load(c)
  <2> DEFINE e == [d EXCEPT ![f] = stable[f]]
  <2>1. \A h \in Files \ {f} : cache'[h] = cache[h] /\ stable'[h] = stable[h]
    BY <1>2 DEF StoreInv, TypeOK, DiskOK
  <2>2. e \in CrashStates /\ d = [h \in Files |-> d[h]] /\ d[f] \in {stable[f], Torn}
    BY <1>1, <1>2, <2>1, Source DEF StoreInv, TypeOK, DiskOK
  <2>3. DiskOK(e) /\ Before(e, t, v)
    BY <1>3, <2>2, CacheMaySurvive DEF StoreInv, Phase
  <2>4. d = e \/ d = [e EXCEPT ![f] = Torn]
    BY <2>2
  <2> HIDE DEF e
  <2>5. Before(d, t, v)
    BY <1>4, <2>3, <2>4, FlushTornSlot
  <2>6. DiskOK(d)
    BY <1>1, <1>2, <2>1, Source
  <2>7. Load(d) = v /\ Load(e) = v
    BY <1>4, <2>3, <2>5, <2>6, FlushReads
  <2>8. QED
    BY <2>2, <2>5, <2>7
<1>6. \A d \in CrashStates' : Phase(d, t, v)'
  BY <1>1, <1>2, <1>5 DEF Phase, Before
<1>7. IdxSettled(t)'
  BY <1>2 DEF StoreInv, IdxSettled, TypeOK, DiskOK, Files
<1>8. QED
  BY <1>1, <1>2, <1>3, <1>5, <1>6, <1>7 DEF StoreInv, Tracks

(* write_slot: the new record is in the cache.                             *)
LEMMA WriteSlotStep ==
  ASSUME NEW t \in Flushers, Alone(t), StoreInv(t),
         pc[t] = "write_slot", Write(t, SlotFile(slot[t]), WrittenRecord(t), "sync_slot")
  PROVE  StoreInv(t)' /\ Tracks(t)
<1> DEFINE f == SlotFile(slot[t])
<1>1. TypeOK' /\ Entries' /\ UNCHANGED <<slot, gen, img, begun, acked>>
  BY FileStepTypes DEF SlotStep, WrittenRecord
<1>2. /\ cache' = [cache EXCEPT ![f] = WrittenRecord(t)] /\ UNCHANGED stable
      /\ pc'[t] = "sync_slot" /\ f \in Files /\ f # "idx" /\ cache'[f] = WrittenRecord(t)
  BY DEF Write, StoreInv, TypeOK, DiskOK, SlotFile, Files
<1>3. PICK v \in acked..begun : \A c \in CrashStates : Phase(c, t, v)
  BY DEF StoreInv
<1>4. v \in Nat
  BY FlushValues
<1>5. ASSUME NEW d \in CrashStates'
      PROVE  /\ Before(d, t, v) \/ Unindexed(d, t)
             /\ Load(d) = img[t] \/ \E c \in CrashStates : Load(d) = Load(c)
  <2> DEFINE e == [d EXCEPT ![f] = stable[f]]
  <2>1. \A h \in Files \ {f} : cache'[h] = cache[h] /\ stable'[h] = stable[h]
    BY <1>2 DEF StoreInv, TypeOK, DiskOK
  <2>2. /\ e \in CrashStates /\ d = [h \in Files |-> d[h]]
        /\ d[f] \in {stable[f], Torn, WrittenRecord(t)}
    BY <1>1, <1>2, <2>1, Source DEF StoreInv, TypeOK, DiskOK
  <2>3. DiskOK(e) /\ Before(e, t, v)
    BY <1>3, <2>2, CacheMaySurvive DEF StoreInv, Phase
  <2>4. d = e \/ d = [e EXCEPT ![f] = Torn] \/ d = [e EXCEPT ![f] = WrittenRecord(t)]
    BY <2>2
  <2> HIDE DEF e
  <2>5. Before(d, t, v) \/ Unindexed(d, t)
    BY <1>4, <2>3, <2>4, FlushTornSlot, FlushWrittenSlot
  <2>6. DiskOK(d)
    BY <1>1, <1>2, <2>1, Source
  <2>7. Load(e) = v /\ (Load(d) = v \/ Load(d) = img[t])
    BY <1>4, <2>3, <2>5, <2>6, FlushReads DEF Unindexed
  <2>8. QED
    BY <2>2, <2>5, <2>7
<1>6. \A d \in CrashStates' : Phase(d, t, v)'
  BY <1>1, <1>2, <1>5 DEF Phase, Before, Unindexed, Whole, WrittenRecord, After
<1>7. IdxSettled(t)'
  BY <1>2 DEF StoreInv, IdxSettled, TypeOK, DiskOK, Files
<1>8. QED
  BY <1>1, <1>2, <1>3, <1>5, <1>6, <1>7 DEF StoreInv, Tracks, WrittenRecord

(* sync_slot: the new record is on the medium, and is committed already if *)
(* there is no index.                                                      *)
LEMMA SyncSlotStep ==
  ASSUME NEW t \in Flushers, Alone(t), StoreInv(t),
         pc[t] = "sync_slot", Sync(t, SlotFile(slot[t]), "open_idx")
  PROVE  StoreInv(t)' /\ Tracks(t)
<1> DEFINE f == SlotFile(slot[t])
<1>1. TypeOK' /\ Entries' /\ UNCHANGED <<slot, gen, img, begun, acked>>
  BY FileStepTypes DEF SlotStep
<1>2. /\ stable' = [stable EXCEPT ![f] = cache[f]] /\ UNCHANGED cache
      /\ pc'[t] = "open_idx" /\ f \in Files /\ f # "idx"
      /\ stable'[f] = WrittenRecord(t) /\ cache'[f] = WrittenRecord(t)
  BY DEF Sync, StoreInv, TypeOK, DiskOK, SlotFile, Files
<1>3. PICK v \in acked..begun : \A c \in CrashStates : Phase(c, t, v)
  BY DEF StoreInv
<1>4. v \in Nat
  BY FlushValues
<1>5. ASSUME NEW d \in CrashStates'
      PROVE  /\ Whole(d, t) /\ (Before(d, t, v) \/ Unindexed(d, t))
             /\ Load(d) = img[t] \/ \E c \in CrashStates : Load(d) = Load(c)
  <2> DEFINE e == [d EXCEPT ![f] = stable[f]]
  <2>1. \A h \in Files \ {f} : cache'[h] = cache[h] /\ stable'[h] = stable[h]
    BY <1>2 DEF StoreInv, TypeOK, DiskOK
  <2>2. /\ e \in CrashStates /\ d = [h \in Files |-> d[h]] /\ DiskOK(d)
        /\ d[f] = WrittenRecord(t)
    BY <1>1, <1>2, <2>1, Source
  <2>3. DiskOK(e) /\ (Before(e, t, v) \/ Unindexed(e, t))
    BY <1>3, <2>2, CacheMaySurvive DEF StoreInv, Phase
  <2>4. d = [e EXCEPT ![f] = WrittenRecord(t)] /\ Whole(d, t)
    BY <2>2 DEF Whole
  <2> HIDE DEF e
  <2>5. CASE Before(e, t, v)
    <3>1. Before(d, t, v) \/ Unindexed(d, t)
      BY <1>4, <2>3, <2>4, <2>5, FlushWrittenSlot
    <3>2. Load(e) = v /\ (Load(d) = v \/ Load(d) = img[t])
      BY <1>4, <2>2, <2>3, <2>5, <3>1, FlushReads DEF Unindexed
    <3>3. QED
      BY <2>2, <2>4, <3>1, <3>2
  <2>6. CASE Unindexed(e, t)
    <3>1. e[f] = WrittenRecord(t)
      BY <2>6 DEF Unindexed, Whole
    <3>2. d = e
      BY <2>2, <2>3, <2>4, <3>1 DEF DiskOK
    <3>3. QED
      BY <2>2, <2>4, <2>6, <3>2
  <2>7. QED
    BY <2>3, <2>5, <2>6
<1>6. \A d \in CrashStates' : Phase(d, t, v)'
  BY <1>1, <1>2, <1>5 DEF Phase, Before, Unindexed, Whole, WrittenRecord, After
<1>7. IdxSettled(t)'
  BY <1>2 DEF StoreInv, IdxSettled, TypeOK, DiskOK, Files
<1>8. QED
  BY <1>1, <1>2, <1>3, <1>5, <1>6, <1>7 DEF StoreInv, Tracks

(* open_idx: the index may be torn now, which commits to the new slot.     *)
LEMMA OpenIdxStep ==
  ASSUME NEW t \in Flushers, Alone(t), StoreInv(t),
         pc[t] = "open_idx", Open(t, "idx", "write_idx")
  PROVE  StoreInv(t)' /\ Tracks(t)
<1>1. TypeOK' /\ Entries' /\ UNCHANGED <<slot, gen, img, begun, acked>>
  BY FileStepTypes DEF IdxStep
<1>2. /\ cache' = [cache EXCEPT !["idx"] = Torn] /\ UNCHANGED stable
      /\ pc'[t] = "write_idx" /\ cache'["idx"] = Torn
  BY DEF Open, StoreInv, TypeOK, DiskOK, Files
<1>3. PICK v \in acked..begun : \A c \in CrashStates : Phase(c, t, v)
  BY DEF StoreInv
<1>4. v \in Nat
  BY FlushValues
<1>5. ASSUME NEW d \in CrashStates'
      PROVE  /\ Whole(d, t) /\ (Before(d, t, v) \/ Unindexed(d, t))
             /\ Load(d) = img[t] \/ \E c \in CrashStates : Load(d) = Load(c)
  <2> DEFINE e == [d EXCEPT !["idx"] = stable["idx"]]
  <2>1. \A h \in Files \ {"idx"} : cache'[h] = cache[h] /\ stable'[h] = stable[h]
    BY <1>2 DEF StoreInv, TypeOK, DiskOK
  <2>2. /\ e \in CrashStates /\ d = [h \in Files |-> d[h]] /\ DiskOK(d)
        /\ d["idx"] \in {stable["idx"], Torn}
    BY <1>1, <1>2, <2>1, Source DEF Files
  <2>3. DiskOK(e) /\ Whole(e, t) /\ (Before(e, t, v) \/ Unindexed(e, t))
    BY <1>3, <2>2, CacheMaySurvive DEF StoreInv, Phase
  <2>4. d = e \/ d = [e EXCEPT !["idx"] = Torn]
    BY <2>2
  <2> HIDE DEF e
  <2>5. CASE d = e
    BY <2>2, <2>3, <2>5
  <2>6. CASE d = [e EXCEPT !["idx"] = Torn]
    <3>1. Unindexed(d, t)
      BY <1>4, <2>3, <2>6, FlushTornIdx
    <3>2. Load(d) = img[t] /\ Whole(d, t)
      BY <1>4, <2>2, <3>1, FlushReads DEF Unindexed
    <3>3. QED
      BY <3>1, <3>2
  <2>7. QED
    BY <2>4, <2>5, <2>6
<1>6. \A d \in CrashStates' : Phase(d, t, v)'
  BY <1>1, <1>2, <1>5 DEF Phase, Before, Unindexed, Whole, WrittenRecord, After
<1>7. QED
  BY <1>1, <1>2, <1>3, <1>5, <1>6 DEF StoreInv, Tracks, IdxSettled

(* write_idx: the new index is in the cache.                               *)
LEMMA WriteIdxStep ==
  ASSUME NEW t \in Flushers, Alone(t), StoreInv(t),
         pc[t] = "write_idx", Write(t, "idx", WrittenIdx(t), "sync_idx")
  PROVE  StoreInv(t)' /\ Tracks(t)
<1>1. TypeOK' /\ Entries' /\ UNCHANGED <<slot, gen, img, begun, acked>>
  BY FileStepTypes DEF IdxStep, WrittenIdx
<1>2. /\ cache' = [cache EXCEPT !["idx"] = WrittenIdx(t)] /\ UNCHANGED stable
      /\ pc'[t] = "sync_idx" /\ cache'["idx"] = WrittenIdx(t)
  BY DEF Write, StoreInv, TypeOK, DiskOK, Files
<1>3. PICK v \in acked..begun : \A c \in CrashStates : Phase(c, t, v)
  BY DEF StoreInv
<1>4. v \in Nat
  BY FlushValues
<1>5. ASSUME NEW d \in CrashStates'
      PROVE  /\ Whole(d, t) /\ (Before(d, t, v) \/ After(d, t))
             /\ Load(d) = img[t] \/ \E c \in CrashStates : Load(d) = Load(c)
  <2> DEFINE e == [d EXCEPT !["idx"] = stable["idx"]]
  <2>1. \A h \in Files \ {"idx"} : cache'[h] = cache[h] /\ stable'[h] = stable[h]
    BY <1>2 DEF StoreInv, TypeOK, DiskOK
  <2>2. /\ e \in CrashStates /\ d = [h \in Files |-> d[h]] /\ DiskOK(d)
        /\ d["idx"] \in {stable["idx"], Torn, WrittenIdx(t)}
    BY <1>1, <1>2, <2>1, Source DEF Files
  <2>3. DiskOK(e) /\ Whole(e, t) /\ (Before(e, t, v) \/ Unindexed(e, t))
    BY <1>3, <2>2, CacheMaySurvive DEF StoreInv, Phase
  <2>4. d = e \/ d = [e EXCEPT !["idx"] = Torn] \/ d = [e EXCEPT !["idx"] = WrittenIdx(t)]
    BY <2>2
  <2> HIDE DEF e
  <2>5. CASE d = e
    BY <2>2, <2>3, <2>5 DEF Unindexed
  <2>6. CASE d = [e EXCEPT !["idx"] = Torn]
    <3>1. Unindexed(d, t)
      BY <1>4, <2>3, <2>6, FlushTornIdx
    <3>2. Load(d) = img[t] /\ Whole(d, t) /\ After(d, t)
      BY <1>4, <2>2, <3>1, FlushReads DEF Unindexed
    <3>3. QED
      BY <3>2
  <2>7. CASE d = [e EXCEPT !["idx"] = WrittenIdx(t)]
    <3>1. Whole(d, t) /\ d["idx"] = WrittenIdx(t)
      BY <2>3, <2>7 DEF Whole, DiskOK, Files, SlotFile
    <3>2. After(d, t)
      BY <3>1 DEF After, Good, Whole, WrittenRecord, WrittenIdx
    <3>3. Load(d) = img[t]
      BY <1>4, <2>2, <3>2, FlushReads
    <3>4. QED
      BY <3>1, <3>2, <3>3
  <2>8. QED
    BY <2>4, <2>5, <2>6, <2>7
<1>6. \A d \in CrashStates' : Phase(d, t, v)'
  BY <1>1, <1>2, <1>5 DEF Phase, Before, Whole, WrittenRecord, After
<1>7. QED
  BY <1>1, <1>2, <1>3, <1>5, <1>6 DEF StoreInv, Tracks, IdxSettled, WrittenIdx

(* sync_idx: the new index is on the medium; nothing is left of the old.   *)
LEMMA SyncIdxStep ==
  ASSUME NEW t \in Flushers, Alone(t), StoreInv(t),
         pc[t] = "sync_idx", Sync(t, "idx", "sync_dir")
  PROVE  StoreInv(t)' /\ Tracks(t)
<1>1. TypeOK' /\ Entries' /\ UNCHANGED <<slot, gen, img, begun, acked>>
  BY FileStepTypes DEF IdxStep
<1>2. /\ stable' = [stable EXCEPT !["idx"] = cache["idx"]] /\ UNCHANGED cache
      /\ pc'[t] = "sync_dir" /\ stable'["idx"] = WrittenIdx(t) /\ cache'["idx"] = WrittenIdx(t)
  BY DEF Sync, StoreInv, TypeOK, DiskOK, Files
<1>3. PICK v \in acked..begun : \A c \in CrashStates : Phase(c, t, v)
  BY DEF StoreInv
<1>4. v \in Nat
  BY FlushValues
<1>5. ASSUME NEW d \in CrashStates'
      PROVE  After(d, t) /\ Load(d) = img[t]
  <2> DEFINE e == [d EXCEPT !["idx"] = stable["idx"]]
  <2>1. \A h \in Files \ {"idx"} : cache'[h] = cache[h] /\ stable'[h] = stable[h]
    BY <1>2 DEF StoreInv, TypeOK, DiskOK
  <2>2. /\ e \in CrashStates /\ d = [h \in Files |-> d[h]] /\ DiskOK(d)
        /\ d["idx"] = WrittenIdx(t)
    BY <1>1, <1>2, <2>1, Source DEF Files
  <2>3. Whole(e, t)
    BY <1>3, <2>2 DEF Phase
  <2>4. Whole(d, t)
    BY <2>2, <2>3 DEF Whole, Files, SlotFile
  <2>5. After(d, t)
    BY <2>2, <2>4 DEF After, Good, Whole, WrittenRecord, WrittenIdx
  <2>6. QED
    BY <1>4, <2>2, <2>5, FlushReads
<1>6. \A d \in CrashStates' : Phase(d, t, v)'
  BY <1>1, <1>2, <1>5 DEF Phase, After
<1>7. QED
  BY <1>1, <1>2, <1>3, <1>5, <1>6 DEF StoreInv, Tracks, IdxSettled

(* flush begins: it takes the slot that no crash state commits to.         *)
LEMMA BeginStep ==
  ASSUME NEW t \in Flushers, Alone(t), StoreInv(t), Begin(t)
  PROVE  StoreInv(t)' /\ CrashStates' = CrashStates
<1>1. UNCHANGED <<cache, stable, linked, acked>> /\ begun' = begun + 1 /\ pc[t] = "idle"
  BY DEF Begin, diskVars, historyVars
<1>2. CrashStates' = CrashStates
  BY <1>1 DEF CrashStates, Contents, Survives
<1>3. PICK a \in {0, 1}, g \in Nat, v \in acked..begun : \A c \in CrashStates : Good(c, a, g, v)
  BY <1>1 DEF StoreInv
<1>4. v \in Nat /\ begun \in Nat /\ acked \in Nat
  BY FileAssumption DEF StoreInv, TypeOK
<1>5. Committed(cache) = [slot |-> a, gen |-> g]
  BY <1>3, <1>4, CacheMaySurvive, GoodReads DEF StoreInv
<1>6. /\ slot' = [slot EXCEPT ![t] = 1 - a] /\ gen' = [gen EXCEPT ![t] = g + 1]
      /\ img' = [img EXCEPT ![t] = begun + 1] /\ pc' = [pc EXCEPT ![t] = "open_slot"]
  BY <1>5 DEF Begin, Inactive, Generation
<1>7. TypeOK' /\ Entries'
  <2>1. begun' \in 0..MaxFlushes /\ acked' \in 0..begun'
    BY <1>1, <1>4, FileAssumption DEF Begin, StoreInv, TypeOK
  <2>2. 1 - a \in {0, 1} /\ g + 1 \in Nat /\ begun + 1 \in Nat
    BY <1>4
  <2>3. QED
    BY <1>1, <1>6, <2>1, <2>2 DEF StoreInv, TypeOK, Entries, DiskOK, Steps
<1>8. /\ slot'[t] = 1 - a /\ gen'[t] = g + 1 /\ img'[t] = begun' /\ pc'[t] = "open_slot"
      /\ 1 - slot'[t] = a /\ gen'[t] - 1 = g /\ gen'[t] # 0 /\ v \in acked'..begun'
      /\ begun' # 0
  BY <1>1, <1>4, <1>6 DEF StoreInv, TypeOK
<1>9. \A c \in CrashStates' : Phase(c, t, v)'
  BY <1>2, <1>3, <1>8 DEF Phase, Before
<1>10. IdxSettled(t)'
  BY <1>1 DEF StoreInv, IdxSettled
<1>11. QED
  BY <1>2, <1>7, <1>8, <1>9, <1>10 DEF StoreInv

(* What a running flush has reached when it stops: in the idle state, all  *)
(* crash states must commit to one image.                                  *)
LEMMA StopStep ==
  ASSUME NEW t \in Flushers, TypeOK, Entries,
         pc' = [pc EXCEPT ![t] = "idle"], UNCHANGED <<cache, stable, slot, gen, img, begun>>,
         linked' \in SUBSET Files, Entries', acked' \in acked..begun,
         NEW a \in {0, 1}, NEW g \in Nat, NEW v \in acked'..begun,
         \A c \in CrashStates : Good(c, a, g, v), IdxSettled(t)'
  PROVE  StoreInv(t)' /\ CrashStates' = CrashStates
<1>1. TypeOK'
  BY FileAssumption DEF TypeOK, DiskOK
<1>2. CrashStates' = CrashStates
  <2>1. FileByFile /\ FileByFile'
    BY <1>1, CrashSets, PTL
  <2>2. \A c : c \in CrashStates <=> c \in CrashStates'
    BY <2>1 DEF FileByFile, Left
  <2>3. QED BY <2>2
<1>3. pc'[t] = "idle"
  BY DEF TypeOK
<1>4. QED
  BY <1>1, <1>2, <1>3 DEF StoreInv

(* flush returns Ok: its slot and its index are on the medium, so that its *)
(* image is what every crash state loads, whatever was there before.       *)
LEMMA FinishStep ==
  ASSUME NEW t \in Flushers, TypeOK, Entries, Reached(t), Finish(t)
  PROVE  /\ StoreInv(t)' /\ CrashStates' = CrashStates
         /\ \A c \in CrashStates : Load(c) = img[t]
<1>1. /\ pc[t] = "sync_dir" /\ pc' = [pc EXCEPT ![t] = "idle"]
      /\ UNCHANGED <<cache, stable, slot, gen, img, begun>>
  BY DEF Finish
<1>2. /\ slot[t] \in {0, 1} /\ gen[t] \in Nat /\ img[t] \in Nat /\ img[t] = begun
      /\ acked \in 0..begun /\ begun \in Nat
  BY <1>1, FileAssumption DEF Reached, TypeOK
<1>3. ASSUME NEW c \in CrashStates PROVE Good(c, slot[t], gen[t], img[t])
  <2>1. /\ c[SlotFile(slot[t])] = WrittenRecord(t) /\ c["idx"] = WrittenIdx(t)
    BY <1>1, CrashSets DEF FileByFile, Left, Reached, SlotFile, Files
  <2>2. QED
    BY <2>1 DEF Good, WrittenRecord, WrittenIdx
<1>4. \A c \in CrashStates : Load(c) = img[t]
  BY <1>2, <1>3, CacheMaySurvive, GoodReads
<1>5. acked' = img[t] /\ acked' \in acked..begun /\ img[t] \in acked'..begun
  BY <1>1, <1>2 DEF Finish
<1>6. linked' \in SUBSET Files /\ Entries'
  BY <1>1 DEF Finish, TypeOK, Entries
<1>7. IdxSettled(t)'
  BY <1>1 DEF IdxSettled, Reached
<1>8. StoreInv(t)' /\ CrashStates' = CrashStates
  BY <1>1, <1>2, <1>3, <1>5, <1>6, <1>7, StopStep
<1>9. QED
  BY <1>4, <1>8

(* flush returns an I/O error: the committed image is that from before, or *)
(* the new one if it is whole and there is no index.                       *)
LEMMA FailStep ==
  ASSUME NEW t \in Flushers, StoreInv(t), Fail(t), pc[t] \notin Harmful
  PROVE  StoreInv(t)' /\ CrashStates' = CrashStates /\ pc[t] # "idle"
<1>1. /\ pc[t] \in {"open_slot", "write_slot", "open_idx"}
      /\ pc' = [pc EXCEPT ![t] = "idle"]
      /\ UNCHANGED <<cache, stable, linked, slot, gen, img, begun, acked>>
  BY FileAssumption DEF Fail, Harmful, Steps, diskVars
<1>2. PICK v \in acked..begun : \A c \in CrashStates : Phase(c, t, v)
  BY <1>1 DEF StoreInv
<1>3. v \in Nat
  BY <1>1, FlushValues
<1>4. IdxSettled(t)' /\ linked' \in SUBSET Files /\ Entries' /\ acked' \in acked..begun
  BY <1>1, FlushValues DEF StoreInv, IdxSettled, Entries, TypeOK
<1>5. ASSUME \A c \in CrashStates : Before(c, t, v)
      PROVE  StoreInv(t)' /\ CrashStates' = CrashStates
  <2>1. \A c \in CrashStates : Good(c, 1 - slot[t], gen[t] - 1, v)
    BY <1>5 DEF Before
  <2>2. QED
    BY <1>1, <1>4, <2>1, FlushValues, StopStep DEF StoreInv
<1>6. CASE pc[t] # "open_idx"
  BY <1>1, <1>2, <1>5, <1>6 DEF Phase
<1>7. CASE pc[t] = "open_idx"
  <2>1. \A c \in CrashStates : c["idx"] = stable["idx"]
    BY <1>7, CrashSets DEF StoreInv, IdxSettled, FileByFile, Left, Files
  <2>2. \A c \in CrashStates : Whole(c, t) /\ (Before(c, t, v) \/ Unindexed(c, t))
    BY <1>2, <1>7 DEF Phase
  <2>3. CASE Readable(stable, "idx")
    <3>1. \A c \in CrashStates : Before(c, t, v)
      BY <2>1, <2>2, <2>3 DEF Unindexed, Readable
    <3>2. QED
      BY <1>1, <1>5, <3>1
  <2>4. CASE ~Readable(stable, "idx")
    <3>1. ASSUME NEW c \in CrashStates PROVE After(c, t)
      <4>1. ~Readable(c, "idx")
        BY <2>1, <2>4 DEF Readable
      <4>2. ~Before(c, t, v)
        BY <1>3, <1>7, <2>2, <4>1, FlushOldIsIndexed
      <4>3. QED
        BY <2>2, <4>2 DEF Unindexed
    <3>2. \A c \in CrashStates : Good(c, slot[t], gen[t], img[t])
      BY <3>1 DEF After
    <3>3. img[t] \in acked'..begun
      BY <1>1, FlushValues DEF StoreInv, TypeOK
    <3>4. QED
      BY <1>1, <1>4, <3>2, <3>3, FlushValues, StopStep DEF StoreInv
  <2>5. QED BY <2>3, <2>4
<1>8. QED BY <1>1, <1>6, <1>7

(* A power cut: one crash state is what there is afterwards.               *)
LEMMA CrashTypes ==
  ASSUME NEW t \in Flushers, TypeOK, Entries, Crash
  PROVE  /\ TypeOK' /\ Entries' /\ IdxSettled(t)' /\ pc'[t] = "idle"
         /\ UNCHANGED <<slot, gen, img, begun, acked, harmed>>
         /\ \E c \in CrashStates : CrashStates' = {c} /\ cache' = c /\ stable' = c
<1>1. PICK c \in CrashStates : /\ cache' = c /\ stable' = c
                               /\ linked' = {f \in Files : c[f] # Absent}
  BY DEF Crash
<1>2. /\ pc' = [u \in Flushers |-> "idle"] /\ pc'[t] = "idle"
      /\ UNCHANGED <<slot, gen, img, begun, acked, harmed>>
  BY DEF Crash, historyVars
<1>3. DiskOK(c)
  BY CacheMaySurvive
<1>4. TypeOK' /\ Entries' /\ IdxSettled(t)'
  BY <1>1, <1>2, <1>3 DEF TypeOK, Entries, IdxSettled, Steps
<1>5. CrashStates' = {c}
  <2>1. FileByFile'
    BY <1>4, CrashSets, PTL
  <2>2. \A d : d \in CrashStates' <=> d = [f \in Files |-> d[f]] /\ \A f \in Files : d[f] = c[f]
    BY <1>1, <2>1 DEF FileByFile, Left
  <2>3. \A d : d \in CrashStates' <=> d = c
    BY <1>3, <2>2 DEF DiskOK
  <2>4. QED BY <2>3
<1>6. QED BY <1>1, <1>2, <1>4, <1>5

(* It is still committed to one image that is not older than the           *)
(* acknowledged one.                                                       *)
LEMMA CrashStep ==
  ASSUME NEW t \in Flushers, StoreInv(t), Crash
  PROVE  StoreInv(t)'
<1>1. PICK c \in CrashStates : CrashStates' = {c}
  BY CrashTypes DEF StoreInv
<1>2. /\ TypeOK' /\ Entries' /\ IdxSettled(t)' /\ pc'[t] = "idle"
      /\ UNCHANGED <<slot, gen, img, begun, acked>>
  BY CrashTypes DEF StoreInv
<1>3. \E a \in {0, 1}, g \in Nat, v \in acked..begun : Good(c, a, g, v)
  <2>1. CASE pc[t] = "idle"
    BY <2>1 DEF StoreInv
  <2>2. CASE pc[t] # "idle"
    <3>1. PICK v \in acked..begun : Phase(c, t, v)
      BY <2>2 DEF StoreInv
    <3>2. Before(c, t, v) \/ After(c, t)
      BY <2>2, <3>1 DEF Phase, Unindexed, StoreInv, TypeOK, Steps
    <3>3. begun \in acked..begun
      BY <2>2, FlushValues DEF StoreInv, TypeOK
    <3>4. QED
      BY <2>2, <3>2, <3>3, FlushValues DEF Before, After
  <2>3. QED BY <2>1, <2>2
<1>4. QED
  BY <1>1, <1>2, <1>3 DEF StoreInv

----------------------------------------------------------------------------
(* Theorems.                                                               *)

(* An empty directory: every crash state is empty.                         *)
LEMMA InitStore ==
  ASSUME NEW t \in Flushers, Init
  PROVE  StoreInv(t) /\ CrashStates = {cache} /\ Load(cache) = Cold
<1>1. TypeOK /\ Entries /\ IdxSettled(t)
  BY FileAssumption DEF Init, TypeOK, DiskOK, Unreadable, Entries, IdxSettled, Files, Cold
<1>2. CrashStates = {cache}
  <2>1. \A d : d \in CrashStates <=> d = [f \in Files |-> d[f]] /\ \A f \in Files : d[f] = cache[f]
    BY <1>1, CrashSets DEF FileByFile, Left, Init
  <2>2. \A d : d \in CrashStates <=> d = cache
    BY <1>1, <2>1 DEF TypeOK, DiskOK
  <2>3. QED BY <2>2
<1>3. Good(cache, 1, 0, Cold)
  BY DEF Good, Init, Readable, Files
<1>4. Load(cache) = Cold
  BY <1>1, <1>3, GoodReads DEF TypeOK, Cold
<1>5. Cold \in acked..begun /\ pc[t] = "idle"
  BY DEF Init, Cold
<1>6. QED
  BY <1>1, <1>2, <1>3, <1>4, <1>5 DEF StoreInv

(* The six file operations of a flush, one after the other.                *)
LEMMA FileSteps ==
  ASSUME NEW t \in Flushers, Alone(t), StoreInv(t), SlotStep(t) \/ IdxStep(t)
  PROVE  StoreInv(t)' /\ Tracks(t)
BY OpenSlotStep, WriteSlotStep, SyncSlotStep, OpenIdxStep, WriteIdxStep, SyncIdxStep
DEF SlotStep, IdxStep, WrittenRecord, WrittenIdx

(* flush begins, whatever the files hold.                                  *)
LEMMA FullBegin ==
  ASSUME NEW t \in Flushers, Alone(t), FullInv(t), Begin(t)
  PROVE  FullInv(t)' /\ CrashStates' = CrashStates
<1>1. /\ UNCHANGED <<cache, stable, linked, acked, harmed>> /\ begun' = begun + 1
      /\ pc[t] = "idle" /\ begun < MaxFlushes
  BY DEF Begin, diskVars, historyVars
<1>2. CrashStates' = CrashStates
  BY <1>1 DEF CrashStates, Contents, Survives
<1>3. Committed(cache).slot \in {0, 1} /\ Committed(cache).gen \in Nat
  <2>1. NewestSlot(cache) \in {0, 1} /\ SlotFile(NewestSlot(cache)) \in {"s0", "s1"}
    BY DEF NewestSlot, SlotFile
  <2>2. \A f \in {"s0", "s1"} : Readable(cache, f) => cache[f].gen \in Nat
    BY DEF FullInv, TypeOK, DiskOK, Unreadable, Readable, SlotRecords
  <2>3. Readable(cache, "idx") => cache["idx"].slot \in {0, 1} /\ cache["idx"].gen \in Nat
    BY DEF FullInv, TypeOK, DiskOK, Unreadable, Readable, IdxRecords
  <2>4. Readable(cache, "s0") \/ Readable(cache, "s1") =>
          Readable(cache, SlotFile(NewestSlot(cache)))
    BY DEF NewestSlot, SlotFile
  <2>5. QED
    BY <2>1, <2>2, <2>3, <2>4 DEF Committed
<1>4. Inactive(cache) \in {0, 1} /\ Generation(cache) \in Nat \ {0}
  BY <1>3 DEF Inactive, Generation
<1>5. begun \in Nat /\ acked \in 0..begun /\ begun + 1 \in 0..MaxFlushes /\ acked \in 0..(begun + 1)
  BY <1>1, FileAssumption DEF FullInv, TypeOK
<1>6. /\ slot' = [slot EXCEPT ![t] = Inactive(cache)]
      /\ gen' = [gen EXCEPT ![t] = Generation(cache)]
      /\ img' = [img EXCEPT ![t] = begun + 1] /\ pc' = [pc EXCEPT ![t] = "open_slot"]
  BY DEF Begin
<1>7. TypeOK'
  BY <1>1, <1>4, <1>5, <1>6 DEF FullInv, TypeOK, DiskOK, Steps
<1>8. Entries' /\ (harmed \in BOOLEAN)' /\ Flushed(cache)' /\ Flushed(stable)'
  BY <1>1 DEF FullInv, Entries, Flushed
<1>9. Reached(t)'
  BY <1>1, <1>4, <1>5, <1>6 DEF FullInv, Reached, TypeOK
<1>10. ~harmed => StoreInv(t)'
  BY BeginStep DEF FullInv
<1>11. QED
  BY <1>1, <1>2, <1>7, <1>8, <1>9, <1>10 DEF FullInv

(* The file operations, whatever the files hold.                           *)
LEMMA FullFile ==
  ASSUME NEW t \in Flushers, Alone(t), FullInv(t), SlotStep(t) \/ IdxStep(t)
  PROVE  FullInv(t)'
<1>1. /\ TypeOK' /\ Entries' /\ pc[t] # "idle"
      /\ UNCHANGED <<slot, gen, img, begun, acked, harmed>>
  BY FileTypes DEF FullInv, SlotStep, IdxStep, Open, Write, Sync, historyVars
<1>2. /\ DOMAIN pc = Flushers /\ DOMAIN cache = Files /\ DOMAIN stable = Files
      /\ slot[t] \in {0, 1}
  BY DEF FullInv, TypeOK, DiskOK
<1> DEFINE f == SlotFile(slot[t])
<1>3. f \in {"s0", "s1"} /\ f \in Files /\ "idx" \in Files /\ f # "idx"
  BY DEF SlotFile, Files
<1>4. Reached(t)'
  <2>1. WrittenRecord(t)' = WrittenRecord(t) /\ WrittenIdx(t)' = WrittenIdx(t)
        /\ SlotFile(slot[t])' = f
    BY <1>1 DEF WrittenRecord, WrittenIdx
  <2> HIDE DEF f
  <2>2. CASE pc[t] = "open_slot" /\ Open(t, f, "write_slot")
    BY <1>1, <1>2, <1>3, <2>1, <2>2 DEF Open, Reached, FullInv
  <2>3. CASE pc[t] = "write_slot" /\ Write(t, f, WrittenRecord(t), "sync_slot")
    BY <1>1, <1>2, <1>3, <2>1, <2>3 DEF Write, Reached, FullInv
  <2>4. CASE pc[t] = "sync_slot" /\ Sync(t, f, "open_idx")
    BY <1>1, <1>2, <1>3, <2>1, <2>4 DEF Sync, Reached, FullInv, f
  <2>5. CASE pc[t] = "open_idx" /\ Open(t, "idx", "write_idx")
    BY <1>1, <1>2, <1>3, <2>1, <2>5 DEF Open, Reached, FullInv, f
  <2>6. CASE pc[t] = "write_idx" /\ Write(t, "idx", WrittenIdx(t), "sync_idx")
    BY <1>1, <1>2, <1>3, <2>1, <2>6 DEF Write, Reached, FullInv, f
  <2>7. CASE pc[t] = "sync_idx" /\ Sync(t, "idx", "sync_dir")
    BY <1>1, <1>2, <1>3, <2>1, <2>7 DEF Sync, Reached, FullInv, f
  <2>8. QED
    BY <2>2, <2>3, <2>4, <2>5, <2>6, <2>7 DEF SlotStep, IdxStep, WrittenRecord, WrittenIdx, f
<1>5. Flushed(cache)' /\ Flushed(stable)'
  <2>1. WrittenRecord(t).img \in 1..MaxFlushes
    BY <1>1, FileAssumption DEF WrittenRecord, FullInv, Reached, TypeOK
  <2>2. ASSUME NEW h \in Files, NEW x, x = Torn \/ x = WrittenRecord(t) \/ h = "idx",
               cache' = [cache EXCEPT ![h] = x], UNCHANGED stable
        PROVE  Flushed(cache)' /\ Flushed(stable)'
    BY <1>2, <2>1, <2>2 DEF FullInv, Flushed, Readable, Files
  <2>3. ASSUME NEW h \in Files, stable' = [stable EXCEPT ![h] = cache[h]], UNCHANGED cache
        PROVE  Flushed(cache)' /\ Flushed(stable)'
    BY <1>2, <2>3 DEF FullInv, Flushed, Readable, Files
  <2>4. QED
    BY <1>3, <2>2, <2>3 DEF SlotStep, IdxStep, Open, Write, Sync, WrittenRecord
<1>6. ~harmed => StoreInv(t)'
  BY FileSteps DEF FullInv
<1>7. QED
  BY <1>1, <1>4, <1>5, <1>6 DEF FullInv

(* flush returns Ok: the full guarantee holds again.                       *)
LEMMA FullFinish ==
  ASSUME NEW t \in Flushers, FullInv(t), Finish(t)
  PROVE  /\ FullInv(t)' /\ CrashStates' = CrashStates
         /\ \A c \in CrashStates : Load(c) = img[t]
<1>1. /\ StoreInv(t)' /\ CrashStates' = CrashStates
      /\ \A c \in CrashStates : Load(c) = img[t]
  BY FinishStep DEF FullInv
<1>2. pc'[t] = "idle" /\ harmed' = FALSE /\ UNCHANGED <<cache, stable>>
  BY DEF Finish, FullInv, TypeOK
<1>3. Reached(t)' /\ Flushed(cache)' /\ Flushed(stable)'
  BY <1>2 DEF FullInv, Reached, Flushed
<1>4. QED
  BY <1>1, <1>2, <1>3 DEF FullInv, StoreInv

(* flush returns an I/O error.                                             *)
LEMMA FullFail ==
  ASSUME NEW t \in Flushers, FullInv(t), Fail(t)
  PROVE  /\ FullInv(t)' /\ CrashStates' = CrashStates
         /\ pc[t] # "idle" /\ pc'[t] = "idle"
         /\ harmed' = harmed \/ harmed' = TRUE
<1>1. /\ pc[t] # "idle" /\ pc' = [pc EXCEPT ![t] = "idle"]
      /\ harmed' = (harmed \/ pc[t] \in Harmful)
      /\ UNCHANGED <<cache, stable, linked, slot, gen, img, begun, acked>>
  BY FileAssumption DEF Fail, diskVars, Steps
<1>2. CrashStates' = CrashStates
  BY <1>1 DEF CrashStates, Contents, Survives
<1>3. TypeOK' /\ Entries' /\ pc'[t] = "idle"
  BY <1>1 DEF FullInv, TypeOK, Entries, DiskOK
<1>4. Reached(t)' /\ Flushed(cache)' /\ Flushed(stable)'
  BY <1>1, <1>3 DEF FullInv, Reached, Flushed
<1>5. harmed' \in BOOLEAN /\ (harmed' = harmed \/ harmed' = TRUE)
  BY <1>1 DEF FullInv
<1>6. ~harmed' => StoreInv(t)'
  BY <1>1, FailStep DEF FullInv
<1>7. QED
  BY <1>1, <1>2, <1>3, <1>4, <1>5, <1>6 DEF FullInv

(* A power cut.                                                            *)
LEMMA FullCrash ==
  ASSUME NEW t \in Flushers, FullInv(t), Crash
  PROVE  /\ FullInv(t)' /\ harmed' = harmed
         /\ \E c \in CrashStates : CrashStates' = {c}
<1>1. /\ TypeOK' /\ Entries' /\ IdxSettled(t)' /\ pc'[t] = "idle"
      /\ UNCHANGED <<slot, gen, img, begun, acked, harmed>>
  BY CrashTypes DEF FullInv
<1>2. PICK c \in CrashStates : CrashStates' = {c} /\ cache' = c /\ stable' = c
  BY CrashTypes DEF FullInv
<1>3. Reached(t)'
  BY <1>1 DEF Reached
<1>4. \A f \in Files : Left(f, c[f])
  BY CrashSets DEF FullInv, FileByFile
<1>5. Flushed(c)
  BY <1>4 DEF FullInv, Flushed, Left, Readable, Files
<1>6. ~harmed => StoreInv(t)'
  BY CrashStep DEF FullInv
<1>7. QED
  BY <1>1, <1>2, <1>3, <1>5, <1>6 DEF FullInv, Flushed

(* Every step, power cuts and restarts among them, keeps the invariant.    *)
LEMMA NextStore ==
  ASSUME NEW t, Alone(t)
  PROVE  FullInv(t) /\ [Next]_vars => FullInv(t)'
<1> SUFFICES ASSUME FullInv(t), [Next]_vars PROVE FullInv(t)'
  OBVIOUS
<1>1. t \in Flushers /\ \A u \in Flushers : u = t
  BY DEF Alone
<1>2. CASE Step(t)
  BY <1>1, <1>2, FullBegin, FullFile, FullFinish, FullFail DEF Step
<1>3. CASE Crash
  BY <1>1, <1>3, FullCrash
<1>4. CASE UNCHANGED vars
  <2>1. UNCHANGED <<cache, stable, linked, pc, slot, gen, img, begun, acked, harmed>>
    BY <1>4 DEF vars, diskVars, flushVars, historyVars
  <2>2. CrashStates' = CrashStates
    BY <2>1 DEF CrashStates, Contents, Survives
  <2>3. TypeOK' /\ Entries' /\ (IdxSettled(t) => IdxSettled(t)')
    BY <2>1 DEF FullInv, TypeOK, DiskOK, Entries, IdxSettled
  <2>4. StoreInv(t) => StoreInv(t)'
    BY <2>1, <2>2, <2>3 DEF StoreInv, Phase, Before, After, Whole, Unindexed,
       WrittenRecord, WrittenIdx
  <2>5. Reached(t)' /\ Flushed(cache)' /\ Flushed(stable)'
    BY <2>1 DEF FullInv, Reached, Flushed, WrittenRecord, WrittenIdx
  <2>6. QED
    BY <2>1, <2>3, <2>4, <2>5 DEF FullInv
<1>5. QED
  BY <1>1, <1>2, <1>3, <1>4 DEF Next

(* The empty directory again.                                              *)
LEMMA FullInit ==
  ASSUME NEW t \in Flushers, Init
  PROVE  FullInv(t)
BY InitStore DEF FullInv, StoreInv, Init, Reached, Flushed, Readable, Files

(* A flush that returned Ok is not lost: whatever power cuts and I/O       *)
(* errors follow, in whichever step of later flushes, a restart loads that *)
(* image or a newer one, unless one of the errors was in a step of         *)
(* Harmful; and after any errors the next flush that returns Ok has the    *)
(* guarantee again.                                                        *)
THEOREM AckedAlwaysSurvives ==
  ASSUME NEW t, Alone(t)
  PROVE  Spec => []AckedSurvives
<1>1. t \in Flushers
  BY DEF Alone
<1>2. Init => FullInv(t)
  BY <1>1, FullInit
<1>3. FullInv(t) /\ [Next]_vars => FullInv(t)'
  BY NextStore
<1>4. FullInv(t) => AckedSurvives
  <2> SUFFICES ASSUME StoreInv(t), NEW c \in CrashStates PROVE Load(c) >= acked
    BY DEF AckedSurvives, FullInv
  <2>1. DiskOK(c) /\ acked \in Nat /\ begun \in Nat
    BY CacheMaySurvive, FileAssumption DEF StoreInv, TypeOK
  <2>2. CASE pc[t] = "idle"
    <3>1. PICK a \in {0, 1}, g \in Nat, v \in acked..begun : Good(c, a, g, v)
      BY <2>2 DEF StoreInv
    <3>2. v \in Nat /\ v >= acked
      BY <2>1
    <3>3. QED
      BY <2>1, <3>1, <3>2, GoodReads
  <2>3. CASE pc[t] # "idle"
    <3>1. PICK v \in acked..begun : Phase(c, t, v)
      BY <2>3 DEF StoreInv
    <3>2. Before(c, t, v) \/ After(c, t)
      BY <1>1, <2>3, <3>1 DEF Phase, Unindexed, StoreInv, TypeOK, Steps
    <3>3. v \in Nat /\ v >= acked /\ img[t] >= acked
      BY <1>1, <2>1, <2>3, FlushValues DEF StoreInv, TypeOK
    <3>4. QED
      BY <1>1, <2>1, <2>3, <3>2, <3>3, FlushReads
  <2>4. QED BY <2>2, <2>3
<1>5. QED
  BY <1>2, <1>3, <1>4, PTL DEF Spec

(* Whatever failed before, a restart loads an image that was flushed, or   *)
(* the zero image.                                                         *)
LoadsFlushed == \A c \in CrashStates : Load(c) \in (1..MaxFlushes) \cup {Cold}

(* So it is in every state in which no slot holds anything else.           *)
LEMMA FlushedLoads ==
  TypeOK /\ Entries /\ Flushed(cache) /\ Flushed(stable) => LoadsFlushed
<1> SUFFICES ASSUME TypeOK, Entries, Flushed(cache), Flushed(stable), NEW c \in CrashStates
             PROVE  Load(c) \in (1..MaxFlushes) \cup {Cold}
  BY DEF LoadsFlushed
<1>1. \A f \in Files : Left(f, c[f])
  BY CrashSets DEF FileByFile
<1>2. \A f \in {"s0", "s1"} : Readable(c, f) => c[f].img \in 1..MaxFlushes
  BY <1>1 DEF Flushed, Left, Readable, Files
<1>3. /\ SlotFile(NewestSlot(c)) \in {"s0", "s1"}
      /\ Preferred(c) \in {"s0", "s1"} /\ Other(c) \in {"s0", "s1"}
      /\ Readable(c, "s0") \/ Readable(c, "s1") => Readable(c, SlotFile(NewestSlot(c)))
  BY DEF SlotFile, NewestSlot, Preferred, Other
<1>4. QED
  BY <1>2, <1>3 DEF Load

(* The store implements the register: its initial states are the           *)
(* register's, and every step of flush and every power cut is a step of    *)
(* the register or leaves it alone.                                        *)
THEOREM StoreImplementsRegister ==
  ASSUME NEW t, Alone(t)
  PROVE  Spec => ImplementsRegister
<1> DEFINE possible == {Load(c) : c \in CrashStates}
           writing == {img[u] : u \in {x \in Flushers : pc[x] # "idle"}}
<1>1. t \in Flushers /\ Flushers = {t}
  BY DEF Alone
<1>2. Init => FullInv(t) /\ Reg!Init
  <2> SUFFICES ASSUME Init PROVE FullInv(t) /\ Reg!Init
    OBVIOUS
  <2>1. possible = {Cold}
    BY <1>1, InitStore
  <2>2. writing = {}
    BY DEF Init
  <2>3. (~harmed) = TRUE
    BY DEF Init
  <2>4. QED
    BY <1>1, <2>1, <2>2, <2>3, FullInit DEF Reg!Init
<1>3. FullInv(t) /\ [Next]_vars => FullInv(t)'
  BY NextStore
<1>4. FullInv(t) /\ [Next]_vars => [Reg!Next]_Reg!vars
  <2> SUFFICES ASSUME FullInv(t), [Next]_vars PROVE [Reg!Next]_Reg!vars
    OBVIOUS
  <2>1. writing = IF pc[t] = "idle" THEN {} ELSE {img[t]}
    BY <1>1
  <2>2. writing' = IF pc'[t] = "idle" THEN {} ELSE {img'[t]}
    BY <1>1
  <2>3. possible # {}
    BY CacheMaySurvive DEF FullInv
  <2>4. possible' # {}
    <3>1. FullInv(t)'
      BY <1>3
    <3>2. TypeOK' /\ Entries'
      BY <3>1 DEF FullInv
    <3>3. (CrashStates # {})'
      BY <3>2, CrashStatesExist, PTL
    <3>4. QED BY <3>3
  <2> DEFINE sound == ~harmed
  <2>5. CASE Begin(t)
    <3>1. possible' = possible /\ sound' = sound
      BY <1>1, <2>5, FullBegin DEF Begin, historyVars
    <3>2. pc[t] = "idle" /\ pc'[t] # "idle" /\ img'[t] = begun + 1 /\ begun + 1 \in 1..MaxFlushes
      BY <1>1, <2>5, FileAssumption DEF Begin, FullInv, TypeOK
    <3>3. PICK v \in 1..MaxFlushes : v = begun + 1
      BY <3>2
    <3>4. Reg!Begin(v)
      BY <2>1, <2>2, <3>1, <3>2, <3>3 DEF Reg!Begin
    <3>5. QED
      BY <3>4 DEF Reg!Next
  <2>6. CASE SlotStep(t) \/ IdxStep(t)
    <3>1. pc[t] # "idle" /\ pc'[t] # "idle" /\ img' = img /\ sound' = sound
      BY <1>1, <2>6 DEF SlotStep, IdxStep, Open, Write, Sync, FullInv, TypeOK, historyVars
    <3>2. possible' \subseteq IF sound THEN possible \cup writing ELSE (1..MaxFlushes) \cup {Cold}
      <4>1. CASE ~harmed
        <5>1. Tracks(t)
          BY <1>1, <2>6, <4>1, FileSteps DEF FullInv
        <5>2. QED
          BY <2>1, <3>1, <4>1, <5>1 DEF Tracks
      <4>2. CASE harmed
        <5>1. FullInv(t)'
          BY <1>3
        <5>2. (LoadsFlushed)'
          BY <5>1, FlushedLoads, PTL DEF FullInv
        <5>3. QED
          BY <4>2, <5>2 DEF LoadsFlushed
      <4>3. QED BY <4>1, <4>2 DEF FullInv
    <3>3. Reg!Progress
      BY <2>1, <2>2, <2>4, <3>1, <3>2 DEF Reg!Progress, Reg!Reachable
    <3>4. QED
      BY <3>3 DEF Reg!Next
  <2>7. CASE Finish(t)
    <3>1. /\ CrashStates' = CrashStates /\ \A c \in CrashStates : Load(c) = img[t]
      BY <1>1, <2>7, FullFinish
    <3>2. possible' = {img[t]} /\ sound' = TRUE
      BY <2>3, <2>7, <3>1 DEF Finish
    <3>3. pc[t] # "idle" /\ pc'[t] = "idle"
      BY <1>1, <2>7 DEF Finish, FullInv, TypeOK
    <3>4. PICK v \in 1..MaxFlushes : v = img[t]
      BY <1>1, <3>3, FileAssumption DEF FullInv, Reached, TypeOK
    <3>5. Reg!Succeed(v)
      BY <2>1, <2>2, <3>2, <3>3, <3>4 DEF Reg!Succeed, Reg!Return
    <3>6. QED
      BY <3>5 DEF Reg!Next
  <2>8. CASE Fail(t)
    <3>1. /\ CrashStates' = CrashStates /\ pc[t] # "idle" /\ pc'[t] = "idle"
          /\ harmed' = harmed \/ harmed' = TRUE
      BY <1>1, <2>8, FullFail
    <3>2. PICK v \in 1..MaxFlushes : v = img[t]
      BY <1>1, <3>1, FileAssumption DEF FullInv, Reached, TypeOK
    <3>3. (sound' = sound) \/ (sound' = FALSE)
      BY <3>1
    <3>4. Reg!Fail(v) \/ Reg!FailBadly(v)
      BY <2>1, <2>2, <3>1, <3>2, <3>3 DEF Reg!Fail, Reg!FailBadly, Reg!Return
    <3>5. QED
      BY <3>4 DEF Reg!Next
  <2>9. CASE Crash
    <3>1. PICK c \in CrashStates : CrashStates' = {c}
      BY <1>1, <2>9, FullCrash
    <3>2. possible' = {Load(c)} /\ Load(c) \in possible
      BY <3>1
    <3>3. writing' = {} /\ sound' = sound
      BY <1>1, <2>2, <2>9, FullCrash DEF Crash
    <3>4. Reg!Restart
      BY <3>2, <3>3 DEF Reg!Restart
    <3>5. QED
      BY <3>4 DEF Reg!Next
  <2>10. CASE UNCHANGED vars
    <3>1. UNCHANGED <<cache, stable, linked, pc, img, harmed>>
      BY <2>10 DEF vars, diskVars, flushVars, historyVars
    <3>2. possible' = possible
      BY <3>1 DEF CrashStates, Contents, Survives
    <3>3. writing' = writing
      BY <3>1
    <3>4. QED
      BY <3>1, <3>2, <3>3 DEF Reg!vars
  <2>11. CASE Step(t)
    BY <2>5, <2>6, <2>7, <2>8, <2>11 DEF Step
  <2>12. QED
    BY <1>1, <2>9, <2>10, <2>11 DEF Next
<1>5. QED
  BY <1>2, <1>3, <1>4, PTL DEF Spec, ImplementsRegister, Reg!Spec
=============================================================================

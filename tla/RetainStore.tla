---------------------------- MODULE RetainStore -----------------------------
(***************************************************************************)
(* The double-buffered NV store of one program, crates/plc-retain          *)
(* store.rs: the slot files <id>.ret.0 and <id>.ret.1 and the index file   *)
(* <id>.ret.idx.  flush writes the slot that is not committed, then the    *)
(* index; load picks a slot that passes its checksum.                      *)
(*                                                                         *)
(* A file has the contents readers see (cache) and the contents that are   *)
(* on the medium (stable); write_all_sync is three steps, open with        *)
(* truncation, write_all and sync_all, and each may fail.  A power cut     *)
(* leaves of a file with unsynced changes the old contents, a torn file or *)
(* the new contents, and may drop a file whose directory entry has not     *)
(* been synced.  Torn stands for every byte string that fails decode_slot  *)
(* or decode_idx (length, magic, version, CRC).                            *)
(*                                                                         *)
(* An image is the number of the flush that wrote it, so a greater number  *)
(* is a later snapshot; symbols and types are the subject of the retain    *)
(* map, not of the store.                                                  *)
(*                                                                         *)
(* Definitions named Mutant... are defective variants of the definition    *)
(* that follows them; no specification uses them.                          *)
(***************************************************************************)
EXTENDS Naturals, FiniteSets

CONSTANTS
  Flushers,   \* threads that call flush
  MaxFlushes, \* bound: flushes begun
  IoErrors,   \* the steps of flush whose system call may fail
  EntrySync,  \* whether sync_all of a file also persists its directory
              \* entry (ext4 and xfs do; POSIX leaves it to sync_dir)
  Absent,     \* the file does not exist
  Torn        \* contents that fail the checks

Files == {"s0", "s1", "idx"}
SlotFile(s) == IF s = 0 THEN "s0" ELSE "s1"
Cold == 0     \* the zero image of LoadSource::Cold

Steps == {"open_slot", "write_slot", "sync_slot",
          "open_idx", "write_idx", "sync_idx", "sync_dir"}

(* The steps whose failure leaves a new slot or an index that is read back *)
(* but not on the medium, or a torn index: the next flush may then take    *)
(* the last durable slot for the one to overwrite.                         *)
Harmful == {"sync_slot", "write_idx", "sync_idx"}

SlotRecords == [gen : Nat, img : Nat]
IdxRecords  == [slot : {0, 1}, gen : Nat]

ASSUME FileAssumption ==
  /\ MaxFlushes \in Nat
  /\ IoErrors \subseteq Steps
  /\ EntrySync \in BOOLEAN
  /\ Absent \notin SlotRecords \cup IdxRecords
  /\ Torn \notin SlotRecords \cup IdxRecords
  /\ Absent # Torn

VARIABLES
  cache,   \* cache[f]: contents of file f as read back
  stable,  \* stable[f]: contents of f after its last sync_all
  linked,  \* files whose directory entry is on the medium
  pc,      \* pc[t]: where flusher t is in flush
  slot,    \* slot[t]: the slot it writes
  gen,     \* gen[t]: the generation it writes
  img,     \* img[t]: the image it writes
  begun,   \* flushes begun so far; names the images
  acked,   \* history: newest image whose flush returned Ok
  harmed   \* history: since then a flush failed in a step of Harmful

diskVars  == <<cache, stable, linked>>
flushVars == <<pc, slot, gen, img>>
historyVars == <<acked, harmed>>
vars == <<diskVars, flushVars, begun, historyVars>>

-----------------------------------------------------------------------------
(* Reading, for any contents c of the three files.                         *)
Readable(c, f) == c[f] \notin {Absent, Torn}

(* The valid slot of the greatest generation, slot 0 on a tie.             *)
NewestSlot(c) ==
  IF Readable(c, "s0") /\ (Readable(c, "s1") => c["s0"].gen >= c["s1"].gen)
    THEN 0 ELSE 1

MutantCommittedNewest(c) ==
  IF Readable(c, "s0") \/ Readable(c, "s1")
    THEN [slot |-> 1 - NewestSlot(c), gen |-> c[SlotFile(NewestSlot(c))].gen]
    ELSE [slot |-> 1, gen |-> 0]

(* committed(): the slot not to overwrite, and its generation.             *)
Committed(c) ==
  IF Readable(c, "idx")
    THEN [slot |-> c["idx"].slot, gen |-> c["idx"].gen]
  ELSE IF Readable(c, "s0") \/ Readable(c, "s1")
    THEN [slot |-> NewestSlot(c), gen |-> c[SlotFile(NewestSlot(c))].gen]
  ELSE [slot |-> 1, gen |-> 0]

(* The slot and the generation that flush writes.                          *)
Inactive(c) == 1 - Committed(c).slot
Generation(c) == Committed(c).gen + 1

(* choose_slot() and load(): the image a restart gets.                     *)
Preferred(c) == SlotFile(c["idx"].slot)
Other(c)     == SlotFile(1 - c["idx"].slot)

Load(c) ==
  IF Readable(c, "idx")
    THEN IF Readable(c, Preferred(c)) /\ c[Preferred(c)].gen = c["idx"].gen
           THEN c[Preferred(c)].img
         ELSE IF Readable(c, Other(c)) THEN c[Other(c)].img
         ELSE Cold
  ELSE IF Readable(c, "s0") \/ Readable(c, "s1")
    THEN c[SlotFile(NewestSlot(c))].img
  ELSE Cold

-----------------------------------------------------------------------------
Init ==
  /\ cache = [f \in Files |-> Absent]
  /\ stable = [f \in Files |-> Absent]
  /\ linked = {}
  /\ pc = [t \in Flushers |-> "idle"]
  /\ slot = [t \in Flushers |-> 0]
  /\ gen = [t \in Flushers |-> 0]
  /\ img = [t \in Flushers |-> Cold]
  /\ begun = 0 /\ acked = Cold /\ harmed = FALSE

(* flush up to the first write: read the committed slot and take the other. *)
Begin(t) ==
  /\ pc[t] = "idle" /\ begun < MaxFlushes
  /\ begun' = begun + 1
  /\ img' = [img EXCEPT ![t] = begun + 1]
  /\ slot' = [slot EXCEPT ![t] = Inactive(cache)]
  /\ gen' = [gen EXCEPT ![t] = Generation(cache)]
  /\ pc' = [pc EXCEPT ![t] = "open_slot"]
  /\ UNCHANGED <<diskVars, historyVars>>

(* write_all_sync on file f, as flusher t: open, write_all, sync_all.      *)
Open(t, f, next) ==
  /\ cache' = [cache EXCEPT ![f] = Torn]
  /\ pc' = [pc EXCEPT ![t] = next]
  /\ UNCHANGED <<stable, linked, slot, gen, img, begun, historyVars>>

Write(t, f, bytes, next) ==
  /\ cache' = [cache EXCEPT ![f] = bytes]
  /\ pc' = [pc EXCEPT ![t] = next]
  /\ UNCHANGED <<stable, linked, slot, gen, img, begun, historyVars>>

MutantSync(t, f, next) ==
  /\ pc' = [pc EXCEPT ![t] = next]
  /\ UNCHANGED <<diskVars, slot, gen, img, begun, historyVars>>

Sync(t, f, next) ==
  /\ stable' = [stable EXCEPT ![f] = cache[f]]
  /\ linked' = IF EntrySync THEN linked \cup {f} ELSE linked
  /\ pc' = [pc EXCEPT ![t] = next]
  /\ UNCHANGED <<cache, slot, gen, img, begun, historyVars>>

SlotStep(t) ==
  LET f == SlotFile(slot[t])
  IN \/ pc[t] = "open_slot"  /\ Open(t, f, "write_slot")
     \/ pc[t] = "write_slot"
        /\ Write(t, f, [gen |-> gen[t], img |-> img[t]], "sync_slot")
     \/ pc[t] = "sync_slot"  /\ Sync(t, f, "open_idx")

IdxStep(t) ==
  \/ pc[t] = "open_idx"  /\ Open(t, "idx", "write_idx")
  \/ pc[t] = "write_idx"
     /\ Write(t, "idx", [slot |-> slot[t], gen |-> gen[t]], "sync_idx")
  \/ pc[t] = "sync_idx"  /\ Sync(t, "idx", "sync_dir")

(* sync_dir, whose result is dropped, then flush returns Ok.               *)
Finish(t) ==
  /\ pc[t] = "sync_dir"
  /\ \/ linked' = {f \in Files : cache[f] # Absent}
     \/ "sync_dir" \in IoErrors /\ UNCHANGED linked
  /\ pc' = [pc EXCEPT ![t] = "idle"]
  /\ acked' = IF img[t] > acked THEN img[t] ELSE acked
  /\ harmed' = FALSE
  /\ UNCHANGED <<cache, stable, slot, gen, img, begun>>

(* An I/O error in open, write_all or sync_all: flush returns Err and      *)
(* leaves the file as it is.                                               *)
Fail(t) ==
  /\ pc[t] \in IoErrors \ {"sync_dir"}
  /\ pc' = [pc EXCEPT ![t] = "idle"]
  /\ harmed' = (harmed \/ pc[t] \in Harmful)
  /\ UNCHANGED <<diskVars, slot, gen, img, begun, acked>>

(* What a power cut may leave of the files.                                *)
Survives(f, x) ==
  \/ x = stable[f]
  \/ cache[f] # stable[f] /\ x \in {Torn, cache[f]}
  \/ f \notin linked /\ x = Absent

Contents(f) == {cache[f], stable[f], Absent, Torn}
CrashStates ==
  {[s0 |-> a, s1 |-> b, idx |-> i] :
     a \in {x \in Contents("s0") : Survives("s0", x)},
     b \in {x \in Contents("s1") : Survives("s1", x)},
     i \in {x \in Contents("idx") : Survives("idx", x)}}

Crash ==
  /\ \E c \in CrashStates :
       /\ cache' = c /\ stable' = c
       /\ linked' = {f \in Files : c[f] # Absent}
  /\ pc' = [t \in Flushers |-> "idle"]
  /\ UNCHANGED <<slot, gen, img, begun, historyVars>>

Step(t) == Begin(t) \/ SlotStep(t) \/ IdxStep(t) \/ Finish(t) \/ Fail(t)
Next == (\E t \in Flushers : Step(t)) \/ Crash

Spec == Init /\ [][Next]_vars

-----------------------------------------------------------------------------
(* Properties.                                                             *)

(* A flush that returned Ok is not lost: whatever a power cut leaves of a  *)
(* later flush, in whichever of its steps, a restart loads that image or a *)
(* newer one, as long as no flush since then has failed in a step of       *)
(* Harmful.  Such a failure withdraws the guarantee, over any number of    *)
(* restarts, and the next flush that returns Ok restores it, in whatever   *)
(* state the failed ones left the three files.                             *)
AckedSurvives == ~harmed => \A c \in CrashStates : Load(c) >= acked

(* The same without the exception; the code does not keep it.              *)
NeverLost == \A c \in CrashStates : Load(c) >= acked

(* The store implements the register: an image that one restart loaded is  *)
(* not taken back by the next, and no restart loads bytes that no flush    *)
(* wrote, whichever steps failed before.                                   *)
Reg == INSTANCE RetainRegister
         WITH Images   <- 1..MaxFlushes,
              possible <- {Load(c) : c \in CrashStates},
              writing  <- {img[t] : t \in {u \in Flushers : pc[u] # "idle"}},
              sound    <- ~harmed
ImplementsRegister == Reg!Spec

(* The shutdown path's "one extra flush" is the last word: when the last   *)
(* running flush returns Ok, the files hold the newest image that has been *)
(* acknowledged, also if T5 was in the middle of a flush when shutdown     *)
(* began its own.                                                          *)
AllIdle == \A t \in Flushers : pc[t] = "idle"
LastFlushWins ==
  [][(\E t \in Flushers : Finish(t)) /\ AllIdle' => Load(cache') >= acked']_vars
=============================================================================

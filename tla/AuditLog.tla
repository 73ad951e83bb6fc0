------------------------------ MODULE AuditLog ------------------------------
(***************************************************************************)
(* The audit log of plc-api (audit_log.rs): rows appended to a file that   *)
(* is rotated when it is full, with a failing call or a crash between any  *)
(* two file operations.                                                    *)
(* The directory is a function from the names in use to files.  Names are  *)
(* numbers in the order of a rotation: audit.jsonl.new, audit.jsonl,       *)
(* audit.jsonl.1, ..., audit.jsonl.dropping; a rotation renames each to    *)
(* the next.  A row has size 1.  A file is its whole lines and what        *)
(* follows the last newline: nothing, part of a row, or a row that lacks   *)
(* only its newline, which a reader takes for a row.                       *)
(* A crash keeps the operations done so far, in order.  At most one call   *)
(* fails in one record().                                                  *)
(* Definitions named Mutant... are defective variants of the definition    *)
(* that follows them.                                                      *)
(***************************************************************************)
EXTENDS Integers, Sequences, TLC, SequencesExt

CONSTANTS
    MaxBytes,     \* rows of a file that trigger a rotation
    MaxFiles,     \* active file and rotated ones
    MaxEvents,    \* bound: events recorded
    MaxFaults,    \* bound: records in which a call fails
    MaxCrashes    \* bound: crashes

ASSUME LimitsAssumption ==
    MaxBytes \in Nat \ {0} /\ MaxFiles \in Nat \ {0, 1} /\ MaxEvents \in Nat

VARIABLES
    dir,          \* name -> file
    log,          \* RotatingAudit: progress of the call that holds the lock
    acked,        \* history: rows whose append returned Ok
    events, faults, crashes

vars == <<dir, log, acked, events, faults, crashes>>

Incoming == -1
Active == 0
Oldest == MaxFiles - 1
Dropping == MaxFiles

Clean == [kind |-> "none", row |-> <<0, 0>>]
Empty == [rows |-> <<>>, tail |-> Clean]
Row == <<log.next, log.event>>

Without(d, n) == [m \in DOMAIN d \ {n} |-> d[m]]
Placed(d, n, f) == [m \in DOMAIN d \cup {n} |-> IF m = n THEN f ELSE d[m]]
Renamed(d, a, b) == [m \in (DOMAIN d \ {a}) \cup {b} |-> IF m = b THEN d[a] ELSE d[m]]

(***************************************************************************)
(* What a reader sees.                                                     *)
(***************************************************************************)
Lines(f) == IF f.tail.kind = "bare" THEN Append(f.rows, f.tail.row) ELSE f.rows

MutantFilesOldestFirst == [i \in 1..MaxFiles |-> i - 1]
FilesOldestFirst == [i \in 1..MaxFiles |-> MaxFiles - i]

RowsOf(k) ==
    LET n == FilesOldestFirst[k] IN IF n \in DOMAIN dir THEN Lines(dir[n]) ELSE <<>>

(* The rows by place: the file in reading order, then the line.            *)
Readable ==
    [p \in UNION {{k} \X (1..Len(RowsOf(k))): k \in 1..MaxFiles} |-> RowsOf(p[1])[p[2]]]

Before(p, q) == p[1] < q[1] \/ (p[1] = q[1] /\ p[2] < q[2])

TrailingSeq(rows) == rows[Len(rows)][1]

(* The places of the rows past the cursor, read in order; a file whose     *)
(* last row is not past it is skipped.                                     *)
Page(cursor) ==
    {p \in DOMAIN Readable:
        LET rows == RowsOf(p[1]) IN TrailingSeq(rows) > cursor /\ rows[p[2]][1] > cursor}

MaxSeq(d) ==
    LET seqs == {0} \cup UNION {{r[1]: r \in Range(Lines(d[n]))}: n \in DOMAIN d \cap Active..Oldest}
    IN CHOOSE m \in seqs: \A s \in seqs: s <= m

(***************************************************************************)
(* Steps of a call.                                                        *)
(***************************************************************************)
MayFail(ok) ==
    /\ ok \/ (faults > 0 /\ ~log.failed)
    /\ faults' = IF ok THEN faults ELSE faults - 1

Goto(pc, ok) == log' = [log EXCEPT !.pc = pc, !.failed = @ \/ ~ok]
Fails == Goto("idle", FALSE)

Init ==
    /\ dir = <<>>
    /\ log = [pc |-> "down", i |-> 0, file |-> Active, len |-> 0, next |-> 0, event |-> 0, failed |-> FALSE]
    /\ acked = <<>> /\ events = 0 /\ faults = MaxFaults /\ crashes = MaxCrashes

(* append: a new file first when the row does not fit.                     *)
Record ==
    /\ log.pc = "idle" /\ events < MaxEvents
    /\ events' = events + 1
    /\ log' = [log EXCEPT !.event = events + 1, !.failed = FALSE,
                          !.pc = IF log.len > 0 /\ log.len + 1 > MaxBytes THEN "prepare" ELSE "match"]
    /\ UNCHANGED <<dir, acked, faults, crashes>>

(* rotate: sync the current file and make the incoming one.                *)
PrepareRotate(ok) ==
    /\ log.pc = "prepare" /\ MayFail(ok)
    /\ \/ dir' = Placed(dir, Incoming, Empty)
       \/ ~ok /\ dir' = Without(dir, Incoming)
       \/ ~ok /\ dir' = dir
    /\ log' = [log EXCEPT !.pc = IF ok THEN "undrop" ELSE "idle", !.i = Oldest, !.failed = ~ok]
    /\ UNCHANGED <<acked, events, crashes>>

(* shift_segments: clear the dropping name if it is needed.                *)
ClearDropping(ok) ==
    /\ log.pc = "undrop"
    /\ Oldest \in DOMAIN dir /\ Dropping \in DOMAIN dir
    /\ MayFail(ok)
    /\ dir' = IF ok THEN Without(dir, Dropping) ELSE dir
    /\ Goto(IF ok THEN "shift" ELSE "abort", ok)
    /\ UNCHANGED <<acked, events, crashes>>

KeepDropping ==
    /\ log.pc = "undrop"
    /\ ~(Oldest \in DOMAIN dir /\ Dropping \in DOMAIN dir)
    /\ Goto("shift", TRUE)
    /\ UNCHANGED <<dir, acked, events, faults, crashes>>

Shift(ok) ==
    LET i == log.i
        moves == i \in DOMAIN dir
    IN /\ log.pc = "shift" /\ (ok \/ moves) /\ MayFail(ok)
       /\ dir' = IF ok /\ moves THEN Renamed(dir, i, i + 1) ELSE dir
       /\ log' = IF ~ok THEN [log EXCEPT !.pc = "abort", !.failed = TRUE]
                 ELSE IF i = Incoming THEN [log EXCEPT !.pc = "syncdir", !.file = Active, !.len = 0]
                 ELSE [log EXCEPT !.i = i - 1, !.file = IF @ = i THEN i + 1 ELSE @]
       /\ UNCHANGED <<acked, events, crashes>>

(* The new file is in use before the directory is synced.                  *)
SyncDir(ok) ==
    /\ log.pc = "syncdir" /\ MayFail(ok)
    /\ \/ dir' = IF ok THEN Without(dir, Dropping) ELSE dir
       \/ ok /\ Dropping \in DOMAIN dir /\ dir' = dir
    /\ IF ok THEN Goto("match", ok) ELSE Fails
    /\ UNCHANGED <<acked, events, crashes>>

(* abort_rotate, one rename at a time.                                     *)
AbortActive ==
    LET back == Active \notin DOMAIN dir /\ 1 \in DOMAIN dir IN
    /\ log.pc = "abort"
    /\ dir' = IF back THEN Renamed(dir, 1, Active) ELSE dir
    /\ log' = [log EXCEPT !.pc = "abort_incoming", !.file = IF back /\ @ = 1 THEN Active ELSE @]
    /\ UNCHANGED <<acked, events, faults, crashes>>

AbortIncoming ==
    /\ log.pc = "abort_incoming"
    /\ dir' = Without(dir, Incoming) /\ Goto("abort_oldest", TRUE)
    /\ UNCHANGED <<acked, events, faults, crashes>>

Undrop(d) == IF Dropping \in DOMAIN d /\ Oldest \notin DOMAIN d THEN Renamed(d, Dropping, Oldest) ELSE d

AbortOldest ==
    /\ log.pc = "abort_oldest"
    /\ dir' = Undrop(dir) /\ Fails
    /\ UNCHANGED <<acked, events, faults, crashes>>

(***************************************************************************)
(* commit_line.                                                            *)
(***************************************************************************)
TailMatches ==
    /\ Active \in DOMAIN dir
    /\ dir[Active].tail = Clean /\ Len(dir[Active].rows) = log.len + 1
    /\ dir[Active].rows[log.len + 1] = Row

MutantRewound(f) == f
Rewound(f) == [rows |-> SubSeq(f.rows, 1, log.len), tail |-> Clean]

Ack ==
    /\ log' = [log EXCEPT !.pc = "idle", !.len = @ + 1, !.next = @ + 1]
    /\ acked' = Append(acked, Row)

Match(ok) ==
    /\ log.pc = "match" /\ MayFail(ok)
    /\ IF ok /\ TailMatches THEN Ack /\ UNCHANGED dir
       ELSE /\ dir' = IF ok THEN [dir EXCEPT ![log.file] = Rewound(@)] ELSE dir
            /\ IF ok THEN Goto("write", ok) ELSE Fails
            /\ UNCHANGED acked
    /\ UNCHANGED <<events, crashes>>

(* What write_all leaves of a row when it fails or is cut off.             *)
Cut(f) == {f, [f EXCEPT !.tail = [kind |-> "torn", row |-> <<0, 0>>]],
           [f EXCEPT !.tail = [kind |-> "bare", row |-> Row]]}

Write(ok) ==
    /\ log.pc = "write" /\ MayFail(ok)
    /\ IF ok THEN dir' = [dir EXCEPT ![log.file].rows = Append(@, Row)]
       ELSE \E f \in Cut(dir[log.file]): dir' = [dir EXCEPT ![log.file] = f]
    /\ Goto(IF ok THEN "sync" ELSE "check", ok)
    /\ UNCHANGED <<acked, events, crashes>>

Sync(ok) ==
    /\ log.pc = "sync" /\ MayFail(ok)
    /\ IF ok THEN Ack ELSE Goto("check", ok) /\ UNCHANGED acked
    /\ UNCHANGED <<dir, events, crashes>>

(* After a failure: the row may be there all the same.                     *)
Check ==
    /\ log.pc = "check"
    /\ IF TailMatches THEN Ack /\ UNCHANGED dir
       ELSE /\ dir' = [dir EXCEPT ![log.file] = Rewound(@)]
            /\ Fails /\ UNCHANGED acked
    /\ UNCHANGED <<events, faults, crashes>>

(***************************************************************************)
(* A crash and open_with_limits.                                           *)
(***************************************************************************)
Crash ==
    /\ log.pc # "down" /\ crashes > 0 /\ crashes' = crashes - 1
    /\ log' = [log EXCEPT !.pc = "down"]
    /\ IF log.pc = "write" THEN \E f \in Cut(dir[log.file]): dir' = [dir EXCEPT ![log.file] = f]
       ELSE UNCHANGED dir
    /\ UNCHANGED <<acked, events, faults>>

RecoverIncoming ==
    /\ log.pc = "down"
    /\ dir' = Without(dir, Incoming) /\ Goto("open_oldest", TRUE)
    /\ UNCHANGED <<acked, events, faults, crashes>>

MutantRecovered(d) == IF Dropping \in DOMAIN d THEN Renamed(d, Dropping, Oldest) ELSE d
Recovered(d) == Without(Undrop(d), Dropping)

RecoverDropping ==
    /\ log.pc = "open_oldest"
    /\ dir' = Recovered(dir) /\ Goto("open", TRUE)
    /\ UNCHANGED <<acked, events, faults, crashes>>

RepairTornTail(f) == [f EXCEPT !.tail = Clean]

(* The active file is repaired, or created; the numbers go on after the    *)
(* greatest one on disk.                                                   *)
Open ==
    LET f == IF Active \in DOMAIN dir THEN dir[Active] ELSE Empty
        d == Placed(dir, Active, RepairTornTail(f))
    IN /\ log.pc = "open"
       /\ dir' = d
       /\ log' = [log EXCEPT !.pc = "idle", !.file = Active, !.len = Len(f.rows), !.next = MaxSeq(d) + 1,
                             !.failed = FALSE]
       /\ UNCHANGED <<acked, events, faults, crashes>>

Next ==
    \/ Record \/ KeepDropping \/ AbortActive \/ AbortIncoming \/ AbortOldest \/ Check
    \/ \E ok \in BOOLEAN: \/ PrepareRotate(ok) \/ ClearDropping(ok) \/ Shift(ok) \/ SyncDir(ok)
                          \/ Match(ok) \/ Write(ok) \/ Sync(ok)
    \/ Crash \/ RecoverIncoming \/ RecoverDropping \/ Open

Spec == Init /\ [][Next]_vars

(***************************************************************************)
(* Properties.                                                             *)
(***************************************************************************)
(* Every file keeps within MaxBytes rows; between calls the handle is on   *)
(* audit.jsonl, which ends with a newline at the length kept for it.       *)
TypeOK ==
    /\ DOMAIN dir \subseteq Incoming..Dropping
    /\ \A n \in DOMAIN dir: Len(dir[n].rows) <= MaxBytes /\ dir[n].tail.kind \in {"none", "torn", "bare"}
    /\ log.pc = "idle" =>
         log.file = Active /\ Active \in DOMAIN dir /\ dir[Active].tail = Clean
         /\ Len(dir[Active].rows) = log.len

Idle == log.pc = "idle"

(* Pages are complete and in order: a reader meets rising sequence         *)
(* numbers, from every cursor it gets exactly the rows past it, and when   *)
(* it stops at a row and goes on from its number it gets what follows that *)
(* row, none twice and none left out.                                      *)
PagesInOrder ==
    LET shown == Readable
        places == DOMAIN shown
    IN Idle => /\ \A p, q \in places: Before(p, q) => shown[p][1] < shown[q][1]
               /\ \A c \in 0..MaxEvents: Page(c) = {p \in places: shown[p][1] > c}
               /\ \A p \in places: Page(shown[p][1]) = {q \in places: Before(p, q)}

(* What append acknowledged survives failures and crashes in the middle of *)
(* a rotation: those still readable are the newest ones without a gap,     *)
(* each once and in the order of their appends, and at least a file of     *)
(* rows is readable.                                                       *)
AckedKept ==
    LET shown == Readable
        kept(k) == \E p \in DOMAIN shown: shown[p] = acked[k]
        rows == 1..Len(acked)
    IN Idle => /\ \A j, k \in rows: j < k /\ kept(j) => kept(k)
               /\ \A p \in DOMAIN shown, j \in rows: shown[p] = acked[j] =>
                    \A q \in DOMAIN shown, k \in rows: shown[q] = acked[k] => (Before(p, q) <=> j < k)
               /\ Cardinality(DOMAIN shown) >= (IF Len(acked) < MaxBytes THEN Len(acked) ELSE MaxBytes)
=============================================================================

--------------------------- MODULE AuditLogProofs ---------------------------
(***************************************************************************)
(* Proofs about the audit log: where the handle is at every step of a      *)
(* rotation, an abort or a recovery, that rows stay in order across the    *)
(* files, and that the acknowledged rows on disk are the newest ones.      *)
(***************************************************************************)
EXTENDS AuditLog, TLAPS, WellFoundedInduction, FiniteSetTheorems, FunctionTheorems

RowT == Nat \X Nat
File == [rows : Seq(RowT), tail : [kind : {"none", "torn", "bare"}, row : RowT]]
LogFields == {"pc", "i", "file", "len", "next", "event", "failed"}
Pcs == {"down", "open_oldest", "open", "idle", "prepare", "undrop", "shift", "syncdir", "abort",
        "abort_incoming", "abort_oldest", "match", "write", "sync", "check"}

-----------------------------------------------------------------------------
(* The files.  A file being made is empty, a rotated file is not and ends  *)
(* with a newline.                                                         *)
FilesOK(d) ==
  /\ DOMAIN d \subseteq Incoming..Dropping
  /\ \A n \in DOMAIN d :
       /\ d[n] \in File /\ Len(d[n].rows) <= MaxBytes
       /\ n = Incoming => d[n] = Empty
       /\ n >= 1 => d[n].tail = Clean /\ d[n].rows # <<>>

(* The sequence numbers rise within a file and towards the newer files.    *)
Rising(rows) == \A i, j \in 1..Len(rows) : i < j => rows[i][1] < rows[j][1]
InOrder(d) ==
  /\ \A n \in DOMAIN d : Rising(d[n].rows)
  /\ \A n, m \in DOMAIN d : n > m =>
       \A r \in Range(d[n].rows), s \in Range(d[m].rows) : r[1] < s[1]

(* A row is in some file.                                                  *)
On(d, r) == \E n \in DOMAIN d : r \in Range(d[n].rows)

(* What is numbered next is above everything on disk, except for the row   *)
(* that is written and not acknowledged.                                   *)
Unsettled == {"sync", "check", "down", "open_oldest", "open"}
NumbersOK(d, next, pc) ==
  \A n \in DOMAIN d : \A r \in Range(d[n].rows) :
    r[1] <= next /\ (pc \notin Unsettled => r[1] < next)

(* Acknowledged rows: numbered in order, none above all that is on disk,   *)
(* and once one is on disk all the later ones are.                         *)
AckedOK(d, a, next) ==
  /\ a \in Seq(RowT)
  /\ Rising(a)
  /\ \A k \in 1..Len(a) : a[k][1] < next
  /\ \A k \in 1..Len(a) : \E n \in DOMAIN d : \E r \in Range(d[n].rows) : a[k][1] <= r[1]
  /\ \A k, j \in 1..Len(a) : k < j /\ On(d, a[k]) => On(d, a[j])

-----------------------------------------------------------------------------
(* The handle is on file n, which ends with a newline at the kept length.  *)
HandleOn(n) ==
  log.file = n /\ n \in DOMAIN dir /\ dir[n].tail = Clean /\ Len(dir[n].rows) = log.len

LogForm ==
  /\ DOMAIN log = LogFields
  /\ log.pc \in Pcs /\ log.i \in Incoming..Oldest
  /\ log.len \in Nat /\ log.next \in Nat /\ log.event \in Nat /\ events \in Nat

(* The handle and the names, step by step.                                 *)
HandleInv ==
  /\ log.pc \in {"idle", "match", "write", "prepare", "undrop", "abort_incoming", "abort_oldest"}
       => HandleOn(Active)
  /\ log.pc \in {"prepare", "undrop", "shift"} => log.len > 0
  /\ log.pc \in {"match", "write", "sync", "check"} => log.len < MaxBytes
  /\ log.pc = "undrop" => log.i = Oldest /\ Incoming \in DOMAIN dir
  /\ log.pc = "shift" =>
       /\ Incoming \in DOMAIN dir
       /\ log.i = Oldest => Oldest \notin DOMAIN dir \/ Dropping \notin DOMAIN dir
       /\ log.i < Oldest => log.i + 1 \notin DOMAIN dir
       /\ IF log.i = Incoming THEN HandleOn(1) ELSE HandleOn(Active)
  /\ log.pc = "syncdir" =>
       /\ HandleOn(Active) /\ log.len = 0
       /\ 1 \in DOMAIN dir
  /\ log.pc = "abort" => HandleOn(Active) \/ (HandleOn(1) /\ Active \notin DOMAIN dir)
  /\ log.pc = "sync" =>
       /\ log.file = Active /\ TailMatches
  /\ log.pc = "check" =>
       /\ log.file = Active /\ Active \in DOMAIN dir
       /\ TailMatches \/ (Len(dir[Active].rows) = log.len /\ NumbersOK(dir, log.next, "write"))
  /\ log.pc \in {"open_oldest", "open"} => Incoming \notin DOMAIN dir
  /\ log.pc = "open" => Dropping \notin DOMAIN dir

DiskOK(d, a, next, pc) ==
  FilesOK(d) /\ InOrder(d) /\ NumbersOK(d, next, pc) /\ AckedOK(d, a, next)

DiskInv == DiskOK(dir, acked, log.next, log.pc)

LogInv == LogForm /\ HandleInv /\ DiskInv

-----------------------------------------------------------------------------
(* The names are numbers, the oldest one beyond the active one.            *)
LEMMA Names ==
  /\ MaxBytes \in Nat \ {0} /\ MaxFiles \in Nat
  /\ Incoming = -1 /\ Active = 0 /\ Oldest \in Nat /\ Oldest >= 1 /\ Dropping = Oldest + 1
BY LimitsAssumption DEF Incoming, Active, Oldest, Dropping

(* Numbers and acknowledged rows depend on the rows on disk alone.         *)
LEMMA SameContent ==
  ASSUME NEW d, NEW e, \A r : On(e, r) <=> On(d, r), NEW a, NEW next, NEW pc,
         NumbersOK(d, next, pc), AckedOK(d, a, next)
  PROVE  NumbersOK(e, next, pc) /\ AckedOK(e, a, next)
<1>1. NumbersOK(e, next, pc)
  BY DEF NumbersOK, On
<1>2. ASSUME NEW k \in 1..Len(a)
      PROVE  \E n \in DOMAIN e : \E r \in Range(e[n].rows) : a[k][1] <= r[1]
  <2>1. PICK r : On(d, r) /\ a[k][1] <= r[1]
    BY DEF AckedOK, On
  <2>2. QED
    BY <2>1 DEF On
<1>3. QED
  BY <1>1, <1>2 DEF AckedOK

(* A rename to a free name that keeps the order of the names.              *)
LEMMA RenameKeeps ==
  ASSUME NEW d, NEW a \in DOMAIN d, NEW b \in Active..Dropping, b \notin DOMAIN d,
         b >= 1 => d[a].tail = Clean /\ d[a].rows # <<>>,
         \A n \in DOMAIN d \ {a} : n > a <=> n > b,
         NEW k, NEW next, NEW pc, DiskOK(d, k, next, pc)
  PROVE  DiskOK(Renamed(d, a, b), k, next, pc)
<1> DEFINE e == Renamed(d, a, b)
<1> USE Names
<1>1. DOMAIN e = (DOMAIN d \ {a}) \cup {b} /\ e[b] = d[a] /\ \A n \in DOMAIN d \ {a} : e[n] = d[n]
  BY DEF Renamed
<1> HIDE DEF e
<1>2. FilesOK(e)
  BY <1>1 DEF DiskOK, FilesOK
<1>3. DOMAIN d \subseteq Int /\ b \in Int /\ a \in Int
  BY DEF DiskOK, FilesOK
<1>4. InOrder(e)
  <2>1. ASSUME NEW n \in DOMAIN e PROVE Rising(e[n].rows)
    BY <1>1 DEF DiskOK, InOrder
  <2>2. ASSUME NEW n \in DOMAIN e, NEW m \in DOMAIN e, n > m,
               NEW r \in Range(e[n].rows), NEW s \in Range(e[m].rows)
        PROVE  r[1] < s[1]
    <3>1. CASE n = b
      BY <1>1, <1>3, <2>2, <3>1 DEF DiskOK, InOrder
    <3>2. CASE m = b
      BY <1>1, <1>3, <2>2, <3>2 DEF DiskOK, InOrder
    <3>3. CASE n # b /\ m # b
      BY <1>1, <1>3, <2>2, <3>3 DEF DiskOK, InOrder
    <3>4. QED
      BY <3>1, <3>2, <3>3
  <2>3. QED
    BY <2>1, <2>2 DEF InOrder
<1>5. \A r : On(e, r) <=> On(d, r)
  BY <1>1 DEF On
<1>6. NumbersOK(e, next, pc) /\ AckedOK(e, k, next)
  BY <1>5, SameContent DEF DiskOK
<1>7. QED
  BY <1>2, <1>4, <1>6 DEF DiskOK, e

(* Removing the file being made, or a name that is not used.               *)
LEMMA RemoveIncoming ==
  ASSUME NEW d, NEW k, NEW next, NEW pc, DiskOK(d, k, next, pc)
  PROVE  DiskOK(Without(d, Incoming), k, next, pc)
<1> DEFINE e == Without(d, Incoming)
<1>1. DOMAIN e = DOMAIN d \ {Incoming} /\ \A n \in DOMAIN e : e[n] = d[n]
  BY DEF Without
<1> HIDE DEF e
<1>2. FilesOK(e) /\ InOrder(e)
  BY <1>1 DEF DiskOK, FilesOK, InOrder
<1>3. \A r : On(e, r) <=> On(d, r)
  <2>1. ASSUME NEW r PROVE ~(Incoming \in DOMAIN d /\ r \in Range(d[Incoming].rows))
    <3>1. Incoming \in DOMAIN d => d[Incoming].rows = <<>>
      BY DEF DiskOK, FilesOK, Empty
    <3>2. Range(<<>>) = {}
      BY DEF Range
    <3>3. QED
      BY <3>1, <3>2
  <2>2. QED
    BY <1>1, <2>1 DEF On
<1>4. NumbersOK(e, next, pc) /\ AckedOK(e, k, next)
  BY <1>3, SameContent DEF DiskOK
<1>5. QED
  BY <1>2, <1>4 DEF DiskOK, e

(* Removing the oldest file while a rotated one stays: only rows older     *)
(* than all the others go.                                                 *)
LEMMA RemoveDropping ==
  ASSUME NEW d, NEW k, NEW next, NEW pc, DiskOK(d, k, next, pc),
         NEW m \in DOMAIN d, m \in 1..Oldest
  PROVE  DiskOK(Without(d, Dropping), k, next, pc)
<1> USE Names
<1> DEFINE e == Without(d, Dropping)
<1>1. DOMAIN e = DOMAIN d \ {Dropping} /\ \A n \in DOMAIN e : e[n] = d[n]
  BY DEF Without
<1> HIDE DEF e
<1>2. FilesOK(e) /\ InOrder(e)
  BY <1>1 DEF DiskOK, FilesOK, InOrder
<1>3. \A r : On(e, r) => On(d, r)
  BY <1>1 DEF On
<1>4. NumbersOK(e, next, pc)
  BY <1>1 DEF DiskOK, NumbersOK
<1>5. PICK t : t \in Range(d[m].rows) /\ t \in RowT
  <2>1. d[m].rows \in Seq(RowT) /\ d[m].rows # <<>>
    BY DEF DiskOK, FilesOK, File
  <2>2. 1 \in DOMAIN d[m].rows /\ d[m].rows[1] \in RowT
    BY <2>1
  <2>3. QED
    BY <2>2 DEF Range
<1>6. m \in DOMAIN e /\ m # Dropping /\ e[m] = d[m]
  BY <1>1
<1>7. ASSUME NEW r, On(d, r), ~On(e, r)
      PROVE  \A s : On(e, s) => r[1] < s[1]
  <2>1. Dropping \in DOMAIN d /\ r \in Range(d[Dropping].rows)
    BY <1>1, <1>7 DEF On
  <2>2. ASSUME NEW s, On(e, s) PROVE r[1] < s[1]
    <3>1. PICK n \in DOMAIN e : s \in Range(d[n].rows)
      BY <1>1, <2>2 DEF On
    <3>2. n \in Incoming..Dropping /\ n # Dropping /\ n \in DOMAIN d
      BY <1>1 DEF DiskOK, FilesOK
    <3>3. Dropping > n
      BY <3>2
    <3>4. QED
      BY <2>1, <3>1, <3>2, <3>3 DEF DiskOK, InOrder
  <2>3. QED
    BY <2>2
<1>8. \A r : On(d, r) => r \in RowT
  <2>1. ASSUME NEW n \in DOMAIN d, NEW r \in Range(d[n].rows) PROVE r \in RowT
    <3>1. d[n].rows \in Seq(RowT)
      BY DEF DiskOK, FilesOK, File
    <3>2. QED
      BY <3>1 DEF Range
  <2>2. QED
    BY <2>1 DEF On
<1>9. AckedOK(e, k, next)
  <2>0. k \in Seq(RowT) /\ \A j \in 1..Len(k) : k[j] \in RowT /\ k[j][1] \in Nat
    <3>1. k \in Seq(RowT)
      BY DEF DiskOK, AckedOK
    <3>2. QED
      BY <3>1 DEF RowT
  <2>1. ASSUME NEW j \in 1..Len(k)
        PROVE  \E n \in DOMAIN e : \E r \in Range(e[n].rows) : k[j][1] <= r[1]
    <3>1. PICK r : On(d, r) /\ k[j][1] <= r[1]
      BY DEF DiskOK, AckedOK, On
    <3>2. CASE On(e, r)
      BY <3>1, <3>2 DEF On
    <3>3. CASE ~On(e, r)
      <4>1. On(e, t)
        BY <1>5, <1>6 DEF On
      <4>2. r[1] < t[1] /\ r[1] \in Nat /\ t[1] \in Nat
        BY <1>5, <1>7, <1>8, <3>1, <3>3, <4>1 DEF RowT
      <4>3. k[j][1] <= t[1]
        BY <2>0, <3>1, <4>2
      <4>4. QED
        BY <4>1, <4>3 DEF On
    <3>4. QED
      BY <3>2, <3>3
  <2>2. ASSUME NEW i \in 1..Len(k), NEW j \in 1..Len(k), i < j, On(e, k[i])
        PROVE  On(e, k[j])
    <3>1. On(d, k[j]) /\ k[i][1] < k[j][1]
      BY <1>3, <2>2 DEF DiskOK, AckedOK, Rising
    <3>2. QED
      BY <1>7, <2>0, <2>2, <3>1
  <2>3. QED
    BY <2>0, <2>1, <2>2 DEF DiskOK, AckedOK
<1>10. QED
  BY <1>2, <1>4, <1>9 DEF DiskOK, e

(* A file whose rows stay as they are: the tail of the active one changes, *)
(* or an empty file is made.                                               *)
LEMMA TailKeeps ==
  ASSUME NEW d, NEW n \in {Incoming, Active}, NEW f \in File, n = Incoming => f = Empty,
         NEW e, DOMAIN e = DOMAIN d \cup {n}, e[n] = f, \A m \in DOMAIN d \ {n} : e[m] = d[m],
         f.rows = IF n \in DOMAIN d THEN d[n].rows ELSE <<>>,
         NEW k, NEW next, NEW pc, DiskOK(d, k, next, pc)
  PROVE  DiskOK(e, k, next, pc)
<1> USE Names
<1>1. Range(<<>>) = {} /\ Rising(<<>>) /\ Len(<<>>) = 0
  BY DEF Range, Rising
<1>2. FilesOK(e)
  <2>1. Len(f.rows) <= MaxBytes
    BY <1>1 DEF DiskOK, FilesOK
  <2>2. QED
    BY <2>1 DEF DiskOK, FilesOK
<1>3. \A m \in DOMAIN e : e[m].rows = IF m \in DOMAIN d THEN d[m].rows ELSE <<>>
  OBVIOUS
<1>4. InOrder(e)
  BY <1>1, <1>3 DEF DiskOK, InOrder
<1>5. \A r : On(e, r) <=> On(d, r)
  BY <1>1, <1>3 DEF On
<1>6. NumbersOK(e, next, pc) /\ AckedOK(e, k, next)
  BY <1>5, SameContent DEF DiskOK
<1>7. QED
  BY <1>2, <1>4, <1>6 DEF DiskOK

(* The rows on disk are rows.                                              *)
LEMMA RowsAreRows ==
  ASSUME NEW d, FilesOK(d), NEW r, On(d, r)
  PROVE  r \in RowT /\ r[1] \in Nat
<1>1. PICK n \in DOMAIN d : r \in Range(d[n].rows)
  BY DEF On
<1>2. d[n].rows \in Seq(RowT)
  BY DEF FilesOK, File
<1>3. r \in RowT
  BY <1>1, <1>2 DEF Range
<1>4. QED
  BY <1>3 DEF RowT

(* Appending a row with the next number to the active file.                *)
LEMMA AppendKeeps ==
  ASSUME NEW d, Active \in DOMAIN d, Len(d[Active].rows) < MaxBytes,
         NEW next \in Nat, NEW row \in RowT, row[1] = next,
         NEW k, NEW pc, pc \notin Unsettled, DiskOK(d, k, next, pc),
         NEW e, DOMAIN e = DOMAIN d, \A m \in DOMAIN d \ {Active} : e[m] = d[m],
         e[Active] = [d[Active] EXCEPT !.rows = Append(d[Active].rows, row)]
  PROVE  DiskOK(e, k, next, "sync")
<1> USE Names
<1> DEFINE rows == d[Active].rows
<1>1. rows \in Seq(RowT) /\ d[Active] \in File
  BY DEF DiskOK, FilesOK, File
<1>a. Append(rows, row) \in Seq(RowT)
  BY <1>1
<1>b. e[Active] \in File /\ e[Active].rows = Append(rows, row)
  BY <1>1, <1>a DEF File
<1>2. /\ e[Active] \in File /\ e[Active].rows = Append(rows, row)
      /\ Append(rows, row) \in Seq(RowT) /\ Len(Append(rows, row)) = Len(rows) + 1
      /\ Append(rows, row)[Len(rows) + 1] = row
      /\ \A i \in 1..Len(rows) : Append(rows, row)[i] = rows[i]
  BY <1>1, <1>a, <1>b
<1>3. Range(e[Active].rows) = Range(rows) \cup {row}
  <2>1. DOMAIN Append(rows, row) = 1..(Len(rows) + 1) /\ DOMAIN rows = 1..Len(rows) /\ Len(rows) \in Nat
    BY <1>1, <1>2
  <2>2. QED
    BY <1>2, <2>1 DEF Range
<1>4. FilesOK(e)
  <2>1. Len(e[Active].rows) <= MaxBytes
    <3>1. Len(rows) \in Nat
      BY <1>1
    <3>2. QED
      BY <1>2, <3>1
  <2>2. FilesOK(d)
    BY DEF DiskOK
  <2>3. ASSUME NEW n \in DOMAIN e
        PROVE  /\ e[n] \in File /\ Len(e[n].rows) <= MaxBytes
               /\ n = Incoming => e[n] = Empty
               /\ n >= 1 => e[n].tail = Clean /\ e[n].rows # <<>>
    <3>1. CASE n = Active
      <4>1. n # Incoming /\ ~(n >= 1)
        BY <3>1
      <4>2. QED
        BY <1>b, <2>1, <3>1, <4>1, Zenon
    <3>2. CASE n # Active
      BY <2>2, <3>2 DEF FilesOK
    <3>3. QED
      BY <3>1, <3>2
  <2>4. QED
    BY <2>2, <2>3 DEF FilesOK
<1>5. \A r : On(d, r) => r[1] < next /\ r[1] \in Nat
  BY RowsAreRows DEF DiskOK, NumbersOK, On
<1>6. \A m \in DOMAIN d : \A r \in Range(d[m].rows) : On(d, r)
  BY DEF On
<1>7. InOrder(e)
  <2>1. Rising(e[Active].rows)
    <3>1. Rising(rows) /\ \A i \in 1..Len(rows) : rows[i][1] < next
      <4>1. \A i \in 1..Len(rows) : rows[i] \in Range(rows)
        BY <1>1 DEF Range
      <4>2. QED
        BY <1>5, <1>6, <4>1 DEF DiskOK, InOrder
    <3>2. QED
      BY <1>1, <1>2, <3>1 DEF Rising
  <2>2. ASSUME NEW n \in DOMAIN e, NEW m \in DOMAIN e, n > m,
               NEW r \in Range(e[n].rows), NEW s \in Range(e[m].rows)
        PROVE  r[1] < s[1]
    <3>1. m # Incoming /\ n \in Int /\ m \in Int
      <4>1. m = Incoming => e[m].rows = <<>>
        BY <1>4 DEF FilesOK, Empty
      <4>2. Range(<<>>) = {}
        BY DEF Range
      <4>3. QED
        BY <2>2, <4>1, <4>2 DEF DiskOK, FilesOK
    <3>2. m >= 0 /\ n # Active
      BY <2>2, <3>1 DEF DiskOK, FilesOK
    <3>3. r \in Range(d[n].rows)
      BY <3>2
    <3>4. CASE m = Active /\ s = row
      BY <1>5, <1>6, <3>3, <3>4
    <3>5. CASE s \in Range(d[m].rows)
      BY <2>2, <3>3, <3>5 DEF DiskOK, InOrder
    <3>6. QED
      BY <1>3, <3>4, <3>5
  <2>3. QED
    BY <2>1, <2>2 DEF DiskOK, InOrder
<1>8. \A r : On(e, r) <=> On(d, r) \/ r = row
  BY <1>3 DEF On
<1>9. NumbersOK(e, next, "sync")
  <2>1. \A r : On(e, r) => r[1] <= next
    BY <1>5, <1>8
  <2>2. QED
    BY <2>1 DEF NumbersOK, On, Unsettled
<1>10. AckedOK(e, k, next)
  <2>1. ASSUME NEW j \in 1..Len(k)
        PROVE  \E n \in DOMAIN e : \E r \in Range(e[n].rows) : k[j][1] <= r[1]
    <3>1. PICK r : On(d, r) /\ k[j][1] <= r[1]
      BY DEF DiskOK, AckedOK, On
    <3>2. QED
      BY <1>8, <3>1 DEF On
  <2>2. ASSUME NEW i \in 1..Len(k), NEW j \in 1..Len(k), i < j, On(e, k[i])
        PROVE  On(e, k[j])
    <3>1. k[i][1] < next /\ k[i][1] \in Nat
      <4>1. k \in Seq(RowT)
        BY DEF DiskOK, AckedOK
      <4>2. k[i] \in RowT
        BY <4>1
      <4>3. QED
        BY <4>2 DEF DiskOK, AckedOK, RowT
    <3>2. k[i] # row
      BY <3>1
    <3>3. QED
      BY <1>8, <2>2, <3>2 DEF DiskOK, AckedOK
  <2>3. QED
    BY <2>1, <2>2 DEF DiskOK, AckedOK
<1>11. QED
  BY <1>4, <1>7, <1>9, <1>10 DEF DiskOK

(* Acknowledging the row that is numbered next and is on disk.             *)
LEMMA AckKeeps ==
  ASSUME NEW d, NEW next \in Nat, NEW row \in RowT, row[1] = next, On(d, row),
         NEW k, NEW pc, DiskOK(d, k, next, pc)
  PROVE  DiskOK(d, Append(k, row), next + 1, "idle")
<1>1. k \in Seq(RowT) /\ Len(k) \in Nat
  BY DEF DiskOK, AckedOK
<1> DEFINE a == Append(k, row)
<1>2. /\ a \in Seq(RowT) /\ Len(a) = Len(k) + 1 /\ a[Len(k) + 1] = row
      /\ \A j \in 1..Len(k) : a[j] = k[j]
  BY <1>1
<1>3. \A j \in 1..Len(k) : k[j][1] \in Nat /\ k[j][1] < next
  <2>1. \A j \in 1..Len(k) : k[j] \in RowT
    BY <1>1
  <2>2. QED
    BY <2>1 DEF DiskOK, AckedOK, RowT
<1> HIDE DEF a
<1>4. Rising(a)
  BY <1>1, <1>2, <1>3 DEF DiskOK, AckedOK, Rising
<1>5. \A j \in 1..Len(a) : a[j][1] < next + 1
  BY <1>1, <1>2, <1>3
<1>6. ASSUME NEW j \in 1..Len(a)
      PROVE  \E n \in DOMAIN d : \E r \in Range(d[n].rows) : a[j][1] <= r[1]
  <2>1. CASE j = Len(k) + 1
    BY <1>2, <2>1 DEF On
  <2>2. CASE j \in 1..Len(k)
    BY <1>2, <2>2 DEF DiskOK, AckedOK
  <2>3. QED
    BY <1>1, <1>2, <2>1, <2>2
<1>7. ASSUME NEW i \in 1..Len(a), NEW j \in 1..Len(a), i < j, On(d, a[i])
      PROVE  On(d, a[j])
  <2>1. CASE j = Len(k) + 1
    BY <1>2, <2>1
  <2>2. CASE j \in 1..Len(k)
    <3>1. i \in 1..Len(k)
      BY <1>1, <1>7, <2>2
    <3>2. QED
      BY <1>2, <1>7, <2>2, <3>1 DEF DiskOK, AckedOK
  <2>3. QED
    BY <1>1, <1>2, <2>1, <2>2
<1>8. AckedOK(d, a, next + 1)
  BY <1>2, <1>4, <1>5, <1>6, <1>7 DEF AckedOK
<1>9. NumbersOK(d, next + 1, "idle")
  <2>1. \A r : On(d, r) => r[1] <= next /\ r[1] \in Nat
    BY RowsAreRows DEF DiskOK, NumbersOK, On
  <2>2. \A r : On(d, r) => r[1] < next + 1
    BY <2>1
  <2>3. QED
    BY <2>1, <2>2 DEF NumbersOK, On
<1>10. QED
  BY <1>8, <1>9 DEF DiskOK, a

(* A bounded set of naturals has a greatest member.                        *)
LEMMA MaxExists ==
  ASSUME NEW S, S \subseteq Nat, S # {}, NEW b \in Nat, \A s \in S : s <= b
  PROVE  \E m \in S : \A s \in S : s <= m
<1> DEFINE T == {b - s : s \in S}
           R == OpToRel(<, Nat)
<1>1. T \subseteq Nat /\ T # {}
  <2>1. \A s \in S : b - s \in Nat
    OBVIOUS
  <2>2. QED
    BY <2>1
<1>2. \A y, x \in Nat : y < x => <<y, x>> \in R
  BY DEF OpToRel
<1> HIDE DEF T, R
<1>3. PICK x \in T : \A y \in T : ~(<<y, x>> \in R)
  BY <1>1, NatLessThanWellFounded, WFMin DEF R
<1>4. \A y \in T : ~(y < x)
  BY <1>1, <1>2, <1>3
<1>5. PICK m \in S : x = b - m
  BY DEF T
<1>6. ASSUME NEW s \in S PROVE s <= m
  <2>1. b - s \in T
    BY DEF T
  <2>2. QED
    BY <1>4, <1>5, <2>1
<1>7. QED
  BY <1>6

(* max_seq is at least every number on disk once the names are in order.   *)
LEMMA MaxSeqBounds ==
  ASSUME NEW d, FilesOK(d), DOMAIN d \subseteq Active..Oldest, \A n \in DOMAIN d : d[n].tail = Clean,
         NEW b \in Nat, \A r : On(d, r) => r[1] <= b
  PROVE  MaxSeq(d) \in Nat /\ \A r : On(d, r) => r[1] <= MaxSeq(d)
<1> USE Names
<1> DEFINE seqs == {0} \cup UNION {{r[1] : r \in Range(Lines(d[n]))} : n \in DOMAIN d \cap Active..Oldest}
<1>1. \A n \in DOMAIN d : Lines(d[n]) = d[n].rows
  BY DEF Lines, Clean
<1>2. \A x : x \in seqs <=> x = 0 \/ \E r : On(d, r) /\ x = r[1]
  BY <1>1 DEF On
<1>3. MaxSeq(d) = CHOOSE m \in seqs : \A s \in seqs : s <= m
  BY DEF MaxSeq
<1> HIDE DEF seqs
<1>4. seqs \subseteq Nat /\ seqs # {} /\ \A s \in seqs : s <= b
  BY <1>2, RowsAreRows
<1>5. \E m \in seqs : \A s \in seqs : s <= m
  BY <1>4, MaxExists
<1>6. MaxSeq(d) \in seqs /\ \A s \in seqs : s <= MaxSeq(d)
  BY <1>3, <1>5
<1>7. QED
  BY <1>2, <1>4, <1>6

(* Of the step of the call only whether a row may be unsettled matters.    *)
LEMMA PcKeeps ==
  ASSUME NEW d, NEW k, NEW next, NEW pc, NEW pc2, DiskOK(d, k, next, pc),
         pc \notin Unsettled \/ pc2 \in Unsettled
  PROVE  DiskOK(d, k, next, pc2)
BY DEF DiskOK, NumbersOK

-----------------------------------------------------------------------------
(* What Goto leaves alone.                                                 *)
LEMMA GotoFacts ==
  ASSUME LogForm, NEW pc \in Pcs, NEW ok, Goto(pc, ok)
  PROVE  /\ DOMAIN log' = LogFields /\ log'.pc = pc
         /\ log'.i = log.i /\ log'.file = log.file /\ log'.len = log.len
         /\ log'.next = log.next /\ log'.event = log.event
         /\ UNCHANGED events => LogForm'
<1>1. /\ DOMAIN log' = LogFields /\ log'.pc = pc
      /\ log'.i = log.i /\ log'.file = log.file /\ log'.len = log.len
      /\ log'.next = log.next /\ log'.event = log.event
  BY DEF Goto, LogForm, LogFields
<1>2. UNCHANGED events => LogForm'
  BY <1>1 DEF LogForm
<1>3. QED
  BY <1>1, <1>2

(* A new event; a rotation first when the file is full.                    *)
LEMMA RecordKeeps ==
  ASSUME LogInv, Record PROVE LogInv'
<1> USE Names DEF LogInv
<1> DEFINE pc == IF log.len > 0 /\ log.len + 1 > MaxBytes THEN "prepare" ELSE "match"
<1>1. /\ DOMAIN log' = LogFields /\ log'.pc = pc /\ log'.event = events + 1
      /\ log'.i = log.i /\ log'.file = log.file /\ log'.len = log.len /\ log'.next = log.next
      /\ dir' = dir /\ acked' = acked /\ events' = events + 1 /\ log.pc = "idle"
  BY DEF Record, LogForm, LogFields
<1>2. LogForm'
  BY <1>1 DEF LogForm, Pcs
<1>3. HandleInv'
  BY <1>1 DEF HandleInv, HandleOn, LogForm
<1>4. DiskInv'
  BY <1>1, PcKeeps DEF DiskInv, Unsettled
<1>5. QED
  BY <1>2, <1>3, <1>4

(* Making the incoming file.                                               *)
LEMMA PrepareKeeps ==
  ASSUME LogInv, NEW ok \in BOOLEAN, PrepareRotate(ok) PROVE LogInv'
<1> USE Names DEF LogInv
<1>1. /\ DOMAIN log' = LogFields /\ log'.pc = (IF ok THEN "undrop" ELSE "idle") /\ log'.i = Oldest
      /\ log'.file = log.file /\ log'.len = log.len /\ log'.next = log.next /\ log'.event = log.event
      /\ acked' = acked /\ events' = events /\ log.pc = "prepare"
  BY DEF PrepareRotate, LogForm, LogFields
<1>2. LogForm'
  BY <1>1 DEF LogForm, Pcs
<1>3. /\ ok => Incoming \in DOMAIN dir'
      /\ DiskOK(dir', acked, log.next, "idle")
      /\ Active \in DOMAIN dir => Active \in DOMAIN dir' /\ dir'[Active] = dir[Active]
  <2>0. DiskOK(dir, acked, log.next, "idle")
    BY <1>1, PcKeeps DEF DiskInv, Unsettled
  <2>1. CASE dir' = Placed(dir, Incoming, Empty)
    <3>1. /\ DOMAIN dir' = DOMAIN dir \cup {Incoming} /\ dir'[Incoming] = Empty
          /\ \A m \in DOMAIN dir \ {Incoming} : dir'[m] = dir[m]
      BY <2>1 DEF Placed
    <3>2. Empty \in File /\ Empty.rows = <<>>
      <4>1. <<>> \in Seq(RowT)
        OBVIOUS
      <4>2. QED
        BY <4>1 DEF Empty, Clean, File, RowT
    <3>3. Incoming \in DOMAIN dir => dir[Incoming].rows = <<>>
      BY <3>2 DEF DiskInv, DiskOK, FilesOK
    <3>4. DiskOK(dir', acked, log.next, "idle")
      BY <2>0, <3>1, <3>2, <3>3, TailKeeps
    <3>5. QED
      BY <3>1, <3>4
  <2>2. CASE ~ok /\ dir' = Without(dir, Incoming)
    <3>1. DiskOK(dir', acked, log.next, "idle")
      BY <2>0, <2>2, RemoveIncoming
    <3>2. QED
      BY <2>2, <3>1 DEF Without
  <2>3. CASE ~ok /\ dir' = dir
    BY <2>0, <2>3
  <2>4. QED
    BY <2>1, <2>2, <2>3 DEF PrepareRotate
<1>4. HandleInv'
  BY <1>1, <1>3 DEF HandleInv, HandleOn
<1>5. DiskInv'
  BY <1>1, <1>3, PcKeeps DEF DiskInv, Unsettled
<1>6. QED
  BY <1>2, <1>4, <1>5

(* Clearing the dropping name, or not.                                     *)
LEMMA ClearKeeps ==
  ASSUME LogInv, (\E ok \in BOOLEAN : ClearDropping(ok)) \/ KeepDropping PROVE LogInv'
<1> USE Names DEF LogInv
<1>1. CASE KeepDropping
  <2>1. log.pc = "undrop" /\ Goto("shift", TRUE) /\ UNCHANGED <<dir, acked, events>>
    BY <1>1 DEF KeepDropping
  <2>2. /\ LogForm' /\ log'.pc = "shift" /\ log'.i = log.i /\ log'.file = log.file
        /\ log'.len = log.len /\ log'.next = log.next /\ log'.event = log.event
    BY <2>1, GotoFacts DEF Pcs
  <2>3. HandleInv'
    BY <1>1, <2>1, <2>2 DEF HandleInv, HandleOn, KeepDropping
  <2>4. DiskInv'
    BY <2>1, <2>2, PcKeeps DEF DiskInv, Unsettled
  <2>5. QED
    BY <2>2, <2>3, <2>4
<1>2. ASSUME NEW ok \in BOOLEAN, ClearDropping(ok) PROVE LogInv'
  <2> DEFINE pc == IF ok THEN "shift" ELSE "abort"
  <2>1. /\ log.pc = "undrop" /\ Goto(pc, ok) /\ UNCHANGED <<acked, events>>
        /\ Oldest \in DOMAIN dir /\ dir' = IF ok THEN Without(dir, Dropping) ELSE dir
    BY <1>2 DEF ClearDropping
  <2>2. /\ LogForm' /\ log'.pc = pc /\ log'.i = log.i /\ log'.file = log.file
        /\ log'.len = log.len /\ log'.next = log.next /\ log'.event = log.event
    BY <2>1, GotoFacts DEF Pcs
  <2>3. /\ ok => Dropping \notin DOMAIN dir'
        /\ \A n \in DOMAIN dir : n # Dropping => n \in DOMAIN dir' /\ dir'[n] = dir[n]
    BY <2>1 DEF Without
  <2>4. HandleInv'
    BY <2>1, <2>2, <2>3 DEF HandleInv, HandleOn
  <2>5. DiskOK(dir', acked, log.next, log.pc)
    BY <2>1, RemoveDropping DEF DiskInv
  <2>6. DiskInv'
    BY <2>1, <2>2, <2>5, PcKeeps DEF DiskInv, Unsettled
  <2>7. QED
    BY <2>2, <2>4, <2>6
<1>3. QED
  BY <1>1, <1>2

(* One rename of the shift, from the oldest name down to the new file.     *)
LEMMA ShiftKeeps ==
  ASSUME LogInv, NEW ok \in BOOLEAN, Shift(ok) PROVE LogInv'
<1> USE Names DEF LogInv
<1> DEFINE i == log.i
<1>0. /\ log.pc = "shift" /\ (ok \/ i \in DOMAIN dir) /\ UNCHANGED <<acked, events>>
      /\ i \in Incoming..Oldest /\ i \in Int
  BY DEF Shift, LogForm
<1>1. CASE ~ok
  <2>1. /\ dir' = dir /\ DOMAIN log' = LogFields /\ log'.pc = "abort" /\ log'.i = log.i
        /\ log'.file = log.file /\ log'.len = log.len /\ log'.next = log.next /\ log'.event = log.event
    BY <1>1 DEF Shift, LogForm, LogFields
  <2>2. LogForm'
    BY <1>0, <2>1 DEF LogForm, Pcs
  <2>3. HandleInv'
    BY <1>0, <2>1 DEF HandleInv, HandleOn
  <2>4. DiskInv'
    BY <1>0, <2>1, PcKeeps DEF DiskInv, Unsettled
  <2>5. QED
    BY <2>2, <2>3, <2>4
<1>2. CASE ok /\ i \notin DOMAIN dir
  <2>1. i # Incoming /\ HandleOn(Active) /\ i # Active
    BY <1>0, <1>2 DEF HandleInv, HandleOn
  <2>2. log' = [log EXCEPT !.i = i - 1, !.file = IF log.file = i THEN i + 1 ELSE log.file] /\ dir' = dir
    BY <1>2, <2>1 DEF Shift
  <2>3. /\ DOMAIN log' = LogFields /\ log'.pc = "shift" /\ log'.i = i - 1
        /\ log'.file = log.file /\ log'.len = log.len /\ log'.next = log.next /\ log'.event = log.event
    BY <1>0, <2>1, <2>2 DEF LogForm, LogFields, HandleOn
  <2>4. LogForm'
    BY <1>0, <2>1, <2>3 DEF LogForm
  <2>5. HandleInv'
    BY <1>0, <1>2, <2>1, <2>2, <2>3 DEF HandleInv, HandleOn
  <2>6. DiskInv'
    BY <1>0, <2>2, <2>3 DEF DiskInv
  <2>7. QED
    BY <2>4, <2>5, <2>6
<1>3. CASE ok /\ i \in DOMAIN dir
  <2>1. dir' = Renamed(dir, i, i + 1)
    BY <1>3 DEF Shift
  <2>2. i + 1 \notin DOMAIN dir /\ i + 1 \in Active..Dropping
    BY <1>0, <1>3 DEF HandleInv
  <2>3. i + 1 >= 1 => dir[i].tail = Clean /\ dir[i].rows # <<>>
    <3>1. CASE i = Active
      <4>1. HandleOn(Active) /\ log.len > 0
        BY <1>0, <3>1 DEF HandleInv
      <4>2. dir[Active].rows # <<>>
        BY <4>1 DEF HandleOn
      <4>3. QED
        BY <3>1, <4>1, <4>2 DEF HandleOn
    <3>2. CASE i >= 1
      BY <1>3, <3>2 DEF DiskInv, DiskOK, FilesOK
    <3>3. QED
      BY <1>0, <3>1, <3>2
  <2>4. \A n \in DOMAIN dir \ {i} : n > i <=> n > i + 1
    <3>1. DOMAIN dir \subseteq Int
      BY DEF DiskInv, DiskOK, FilesOK
    <3>2. QED
      BY <1>0, <2>2, <3>1
  <2>5. DiskOK(dir', acked, log.next, log.pc)
    BY <1>3, <2>1, <2>2, <2>3, <2>4, RenameKeeps DEF DiskInv
  <2>6. /\ DOMAIN dir' = (DOMAIN dir \ {i}) \cup {i + 1} /\ dir'[i + 1] = dir[i]
        /\ \A n \in DOMAIN dir \ {i} : dir'[n] = dir[n]
    BY <2>1, <2>2 DEF Renamed
  <2>7. CASE i = Incoming
    <3>1. /\ DOMAIN log' = LogFields /\ log'.pc = "syncdir" /\ log'.file = Active /\ log'.len = 0
          /\ log'.i = log.i /\ log'.next = log.next /\ log'.event = log.event
      BY <1>3, <2>7 DEF Shift, LogForm, LogFields
    <3>2. LogForm'
      BY <1>0, <3>1 DEF LogForm, Pcs
    <3>3. dir'[Active] = Empty /\ Empty.tail = Clean /\ Len(Empty.rows) = 0
      BY <1>3, <2>6, <2>7 DEF DiskInv, DiskOK, FilesOK, Empty
    <3>4. 1 \in DOMAIN dir'
      BY <1>0, <2>6, <2>7 DEF HandleInv, HandleOn
    <3>5. HandleInv'
      BY <2>6, <2>7, <3>1, <3>3, <3>4 DEF HandleInv, HandleOn
    <3>6. DiskInv'
      BY <1>0, <2>5, <3>1, PcKeeps DEF DiskInv, Unsettled
    <3>7. QED
      BY <3>2, <3>5, <3>6
  <2>8. CASE i # Incoming
    <3>1. HandleOn(Active) /\ Incoming \in DOMAIN dir
      BY <1>0, <2>8 DEF HandleInv
    <3>2. log' = [log EXCEPT !.i = i - 1, !.file = IF log.file = i THEN i + 1 ELSE log.file]
      BY <1>3, <2>8 DEF Shift
    <3>3. /\ DOMAIN log' = LogFields /\ log'.pc = "shift" /\ log'.i = i - 1
          /\ log'.file = (IF i = Active THEN 1 ELSE Active)
          /\ log'.len = log.len /\ log'.next = log.next /\ log'.event = log.event
      BY <1>0, <3>1, <3>2 DEF LogForm, LogFields, HandleOn
    <3>4. LogForm'
      BY <1>0, <2>8, <3>3 DEF LogForm
    <3>5. i - 1 # Oldest /\ (i - 1) + 1 = i /\ i \notin DOMAIN dir' /\ Incoming \in DOMAIN dir'
      BY <1>0, <2>6, <2>8, <3>1
    <3>6. IF i - 1 = Incoming THEN HandleOn(1)' ELSE HandleOn(Active)'
      BY <1>0, <2>6, <2>8, <3>1, <3>3 DEF HandleOn
    <3>7. log.len > 0
      BY <1>0 DEF HandleInv
    <3>8. HandleInv'
      BY <3>3, <3>5, <3>6, <3>7 DEF HandleInv
    <3>9. DiskInv'
      BY <1>0, <2>5, <3>3 DEF DiskInv
    <3>10. QED
      BY <3>4, <3>8, <3>9
  <2>9. QED
    BY <2>7, <2>8
<1>4. QED
  BY <1>1, <1>2, <1>3

(* Syncing the directory and dropping the oldest file.                     *)
LEMMA SyncDirKeeps ==
  ASSUME LogInv, NEW ok \in BOOLEAN, SyncDir(ok) PROVE LogInv'
<1> USE Names DEF LogInv
<1> DEFINE pc == IF ok THEN "match" ELSE "idle"
<1>1. /\ log.pc = "syncdir" /\ Goto(pc, ok) /\ UNCHANGED <<acked, events>>
      /\ dir' = Without(dir, Dropping) \/ dir' = dir
  BY DEF SyncDir, Fails
<1>2. /\ LogForm' /\ log'.pc = pc /\ log'.i = log.i /\ log'.file = log.file
      /\ log'.len = log.len /\ log'.next = log.next /\ log'.event = log.event
  BY <1>1, GotoFacts DEF Pcs
<1>3. 1 \in DOMAIN dir /\ HandleOn(Active) /\ log.len = 0
  BY <1>1 DEF HandleInv
<1>4. \A n \in DOMAIN dir : n # Dropping => n \in DOMAIN dir' /\ dir'[n] = dir[n]
  BY <1>1 DEF Without
<1>5. HandleInv'
  BY <1>1, <1>2, <1>3, <1>4 DEF HandleInv, HandleOn
<1>6. DiskOK(dir', acked, log.next, log.pc)
  BY <1>1, <1>3, RemoveDropping DEF DiskInv
<1>7. DiskInv'
  BY <1>1, <1>2, <1>6, PcKeeps DEF DiskInv, Unsettled
<1>8. QED
  BY <1>2, <1>5, <1>7

(* Undoing a rotation that stopped half way.                               *)
LEMMA UndropKeeps ==
  ASSUME NEW d, NEW k, NEW next, NEW pc, DiskOK(d, k, next, pc)
  PROVE  /\ DiskOK(Undrop(d), k, next, pc)
         /\ \A n \in DOMAIN d : n < Oldest => n \in DOMAIN Undrop(d) /\ Undrop(d)[n] = d[n]
         /\ \A n \in DOMAIN Undrop(d) : n < Oldest => n \in DOMAIN d
         /\ Dropping \in DOMAIN Undrop(d) => Oldest \in DOMAIN Undrop(d)
<1> USE Names
<1>0. DOMAIN d \subseteq Incoming..Dropping
  BY DEF DiskOK, FilesOK
<1>1. CASE Dropping \in DOMAIN d /\ Oldest \notin DOMAIN d
  <2>1. Undrop(d) = Renamed(d, Dropping, Oldest)
    BY <1>1 DEF Undrop
  <2>2. d[Dropping].tail = Clean /\ d[Dropping].rows # <<>>
    BY <1>1 DEF DiskOK, FilesOK
  <2>3. \A n \in DOMAIN d \ {Dropping} : n > Dropping <=> n > Oldest
    BY <1>0, <1>1
  <2>4. DiskOK(Undrop(d), k, next, pc)
    BY <1>1, <2>1, <2>2, <2>3, RenameKeeps
  <2>5. /\ DOMAIN Undrop(d) = (DOMAIN d \ {Dropping}) \cup {Oldest}
        /\ \A n \in DOMAIN d \ {Dropping} : Undrop(d)[n] = d[n]
    BY <1>1, <2>1 DEF Renamed
  <2>6. QED
    BY <1>0, <2>4, <2>5
<1>2. CASE ~(Dropping \in DOMAIN d /\ Oldest \notin DOMAIN d)
  <2>1. Undrop(d) = d
    BY <1>2 DEF Undrop
  <2>2. QED
    BY <1>2, <2>1
<1>3. QED
  BY <1>1, <1>2

(* A failed rotation is undone: the handle is back on the active name and  *)
(* the oldest file has its name again.                                     *)
LEMMA AbortKeeps ==
  ASSUME LogInv, AbortActive \/ AbortIncoming \/ AbortOldest PROVE LogInv'
<1> USE Names DEF LogInv
<1>0. DOMAIN dir \subseteq Incoming..Dropping
  BY DEF DiskInv, DiskOK, FilesOK
<1>1. CASE AbortActive
  <2> DEFINE back == Active \notin DOMAIN dir /\ 1 \in DOMAIN dir
  <2>1. /\ log.pc = "abort" /\ UNCHANGED <<acked, events>>
        /\ dir' = IF back THEN Renamed(dir, 1, Active) ELSE dir
        /\ log' = [log EXCEPT !.pc = "abort_incoming", !.file = IF back /\ log.file = 1 THEN Active ELSE log.file]
    BY <1>1 DEF AbortActive
  <2>2. HandleOn(Active) \/ (HandleOn(1) /\ Active \notin DOMAIN dir)
    BY <2>1 DEF HandleInv
  <2>3. /\ DOMAIN log' = LogFields /\ log'.pc = "abort_incoming" /\ log'.i = log.i
        /\ log'.file = Active
        /\ log'.len = log.len /\ log'.next = log.next /\ log'.event = log.event
    BY <2>1, <2>2 DEF LogForm, LogFields, HandleOn
  <2>4. LogForm'
    BY <2>1, <2>3 DEF LogForm, Pcs
  <2>5. HandleOn(Active)' /\ DiskOK(dir', acked, log.next, log.pc)
    <3>1. CASE HandleOn(Active)
      <4>1. dir' = dir
        BY <2>1, <3>1 DEF HandleOn
      <4>2. QED
        BY <2>3, <3>1, <4>1 DEF HandleOn, DiskInv
    <3>2. CASE HandleOn(1) /\ Active \notin DOMAIN dir
      <4>1. dir' = Renamed(dir, 1, Active)
        BY <2>1, <3>2 DEF HandleOn
      <4>2. \A n \in DOMAIN dir \ {1} : n > 1 <=> n > Active
        BY <1>0, <3>2
      <4>3. DiskOK(dir', acked, log.next, log.pc)
        BY <3>2, <4>1, <4>2, RenameKeeps DEF HandleOn, DiskInv
      <4>4. Active \in DOMAIN dir' /\ dir'[Active] = dir[1]
        BY <4>1 DEF Renamed
      <4>5. QED
        BY <2>3, <3>2, <4>3, <4>4 DEF HandleOn
    <3>3. QED
      BY <2>2, <3>1, <3>2
  <2>6. HandleInv'
    BY <2>3, <2>5 DEF HandleInv
  <2>7. DiskInv'
    BY <2>1, <2>3, <2>5, PcKeeps DEF DiskInv, Unsettled
  <2>8. QED
    BY <2>4, <2>6, <2>7
<1>2. CASE AbortIncoming
  <2>1. /\ log.pc = "abort_incoming" /\ UNCHANGED <<acked, events>>
        /\ dir' = Without(dir, Incoming) /\ Goto("abort_oldest", TRUE)
    BY <1>2 DEF AbortIncoming
  <2>2. /\ LogForm' /\ log'.pc = "abort_oldest" /\ log'.i = log.i /\ log'.file = log.file
        /\ log'.len = log.len /\ log'.next = log.next /\ log'.event = log.event
    BY <2>1, GotoFacts DEF Pcs
  <2>3. HandleInv'
    BY <2>1, <2>2 DEF HandleInv, HandleOn, Without
  <2>4. DiskInv'
    BY <2>1, <2>2, RemoveIncoming, PcKeeps DEF DiskInv, Unsettled
  <2>5. QED
    BY <2>2, <2>3, <2>4
<1>3. CASE AbortOldest
  <2>1. /\ log.pc = "abort_oldest" /\ UNCHANGED <<acked, events>>
        /\ dir' = Undrop(dir) /\ Goto("idle", FALSE)
    BY <1>3 DEF AbortOldest, Fails
  <2>2. /\ LogForm' /\ log'.pc = "idle" /\ log'.i = log.i /\ log'.file = log.file
        /\ log'.len = log.len /\ log'.next = log.next /\ log'.event = log.event
    BY <2>1, GotoFacts DEF Pcs
  <2>3. DiskOK(dir', acked, log.next, log.pc) /\ (Active \in DOMAIN dir => Active \in DOMAIN dir' /\ dir'[Active] = dir[Active])
    BY <2>1, UndropKeeps DEF DiskInv
  <2>4. HandleInv'
    BY <2>1, <2>2, <2>3 DEF HandleInv, HandleOn
  <2>5. DiskInv'
    BY <2>1, <2>2, <2>3, PcKeeps DEF DiskInv, Unsettled
  <2>6. QED
    BY <2>2, <2>4, <2>5
<1>4. QED
  BY <1>1, <1>2, <1>3

-----------------------------------------------------------------------------
(* Rewinding a file that ends at the kept length, or cutting a write off,  *)
(* changes no row.                                                         *)
LEMMA SameRows ==
  ASSUME LogForm, NEW f \in File
  PROVE  /\ Len(f.rows) = log.len => /\ Rewound(f) \in File /\ Rewound(f).rows = f.rows
                                     /\ Rewound(f).tail = Clean
         /\ \A g \in Cut(f) : g \in File /\ g.rows = f.rows
<1>1. f.rows \in Seq(RowT) /\ DOMAIN f = {"rows", "tail"} /\ Clean \in [kind : {"none", "torn", "bare"}, row : RowT]
  BY DEF File, Clean, RowT
<1>2. Row \in RowT
  BY DEF LogForm, Row, RowT
<1>3. Len(f.rows) = log.len => /\ Rewound(f) \in File /\ Rewound(f).rows = f.rows
                               /\ Rewound(f).tail = Clean
  <2>1. SubSeq(f.rows, 1, Len(f.rows)) = f.rows
    BY <1>1
  <2>2. QED
    BY <1>1, <2>1 DEF Rewound, File
<1>4. ASSUME NEW g \in Cut(f) PROVE g \in File /\ g.rows = f.rows
  <2>1. CASE g = f
    BY <2>1
  <2>2. ASSUME NEW t \in [kind : {"none", "torn", "bare"}, row : RowT], g = [f EXCEPT !.tail = t]
        PROVE  g \in File /\ g.rows = f.rows
    BY <1>1, <2>2 DEF File
  <2>3. /\ [kind |-> "torn", row |-> <<0, 0>>] \in [kind : {"none", "torn", "bare"}, row : RowT]
        /\ [kind |-> "bare", row |-> Row] \in [kind : {"none", "torn", "bare"}, row : RowT]
    BY <1>2 DEF RowT
  <2>4. QED
    BY <2>1, <2>2, <2>3 DEF Cut
<1>5. QED
  BY <1>3, <1>4

(* Replacing the active file by one with the same rows.                    *)
LEMMA ReplaceKeeps ==
  ASSUME NEW d, NEW k, NEW next, NEW pc, DiskOK(d, k, next, pc), Active \in DOMAIN d,
         NEW f \in File, f.rows = d[Active].rows
  PROVE  /\ DiskOK([d EXCEPT ![Active] = f], k, next, pc)
         /\ DOMAIN [d EXCEPT ![Active] = f] = DOMAIN d
         /\ [d EXCEPT ![Active] = f][Active] = f
<1> DEFINE e == [d EXCEPT ![Active] = f]
<1>1. /\ DOMAIN e = DOMAIN d \cup {Active} /\ e[Active] = f
      /\ \A m \in DOMAIN d \ {Active} : e[m] = d[m]
  OBVIOUS
<1> HIDE DEF e
<1>2. Active # Incoming
  BY Names
<1>3. DiskOK(e, k, next, pc)
  BY <1>1, <1>2, TailKeeps
<1>4. QED
  BY <1>1, <1>3 DEF e

(* The active file is a file and the row to write is a row.                *)
LEMMA ActiveFile ==
  ASSUME LogInv
  PROVE  /\ Row \in RowT /\ Row[1] = log.next
         /\ Active \in DOMAIN dir => dir[Active] \in File /\ dir[Active].rows \in Seq(RowT)
BY DEF LogInv, LogForm, Row, RowT, DiskInv, DiskOK, FilesOK, File

(* Acknowledging the row that ends the active file.                        *)
LEMMA AckStep ==
  ASSUME LogInv, log.file = Active, TailMatches, Ack, UNCHANGED <<dir, events>> PROVE LogInv'
<1> USE Names DEF LogInv
<1>1. /\ DOMAIN log' = LogFields /\ log'.pc = "idle" /\ log'.len = log.len + 1
      /\ log'.next = log.next + 1 /\ log'.i = log.i /\ log'.file = log.file /\ log'.event = log.event
      /\ acked' = Append(acked, Row)
  BY DEF Ack, LogForm, LogFields
<1>2. LogForm'
  BY <1>1 DEF LogForm, Pcs
<1>3. HandleInv'
  BY <1>1 DEF HandleInv, HandleOn, TailMatches
<1>4. On(dir, Row)
  <2>1. /\ Active \in DOMAIN dir /\ dir[Active].rows \in Seq(RowT)
        /\ log.len + 1 = Len(dir[Active].rows) /\ dir[Active].rows[log.len + 1] = Row
    BY ActiveFile DEF TailMatches
  <2>2. log.len + 1 \in DOMAIN dir[Active].rows
    BY <2>1 DEF LogForm
  <2>3. QED
    BY <2>1, <2>2 DEF On, Range
<1>5. DiskInv'
  BY <1>1, <1>4, ActiveFile, AckKeeps DEF DiskInv, LogForm
<1>6. QED
  BY <1>2, <1>3, <1>5

(* A rewind of the active file to the kept length.                         *)
LEMMA RewindStep ==
  ASSUME LogInv, log.file = Active, Active \in DOMAIN dir, Len(dir[Active].rows) = log.len,
         log.pc \in {"match", "check"}, log.len < MaxBytes,
         dir' = [dir EXCEPT ![log.file] = Rewound(dir[log.file])],
         NEW pc \in {"idle", "write"}, log.pc = "check" => pc = "idle",
         NEW ok, Goto(pc, ok), UNCHANGED <<acked, events>>,
         \A r : On(dir, r) => r[1] < log.next
  PROVE  LogInv'
<1> USE Names DEF LogInv
<1>1. /\ LogForm' /\ log'.pc = pc /\ log'.i = log.i /\ log'.file = log.file
      /\ log'.len = log.len /\ log'.next = log.next /\ log'.event = log.event
  BY GotoFacts DEF Pcs
<1>2. /\ Rewound(dir[Active]) \in File /\ Rewound(dir[Active]).rows = dir[Active].rows
      /\ Rewound(dir[Active]).tail = Clean
  BY ActiveFile, SameRows
<1>3. DiskOK(dir, acked, log.next, pc)
  BY DEF DiskInv, DiskOK, NumbersOK, On
<1>4. /\ DiskOK(dir', acked, log.next, pc)
      /\ DOMAIN dir' = DOMAIN dir /\ dir'[Active] = Rewound(dir[Active])
  BY <1>2, <1>3, ReplaceKeeps
<1>5. HandleInv'
  BY <1>1, <1>2, <1>4 DEF HandleInv, HandleOn
<1>6. DiskInv'
  BY <1>1, <1>4 DEF DiskInv
<1>7. QED
  BY <1>1, <1>5, <1>6

(* Before the write the row is not there yet: the file ends at the kept    *)
(* length.                                                                 *)
LEMMA MatchKeeps ==
  ASSUME LogInv, NEW ok \in BOOLEAN, Match(ok) PROVE LogInv'
<1> USE Names DEF LogInv
<1>1. /\ log.pc = "match" /\ UNCHANGED events /\ HandleOn(Active) /\ log.len < MaxBytes
  BY DEF Match, HandleInv
<1>2. ~TailMatches
  BY <1>1 DEF TailMatches, HandleOn, LogForm
<1>3. \A r : On(dir, r) => r[1] < log.next
  BY <1>1 DEF DiskInv, DiskOK, NumbersOK, On, Unsettled
<1>4. CASE ok
  <2>1. /\ dir' = [dir EXCEPT ![log.file] = Rewound(dir[log.file])] /\ Goto("write", ok)
        /\ UNCHANGED acked
    BY <1>2, <1>4 DEF Match
  <2>2. QED
    BY <1>1, <1>3, <2>1, RewindStep DEF HandleOn
<1>5. CASE ~ok
  <2>1. dir' = dir /\ Goto("idle", FALSE) /\ UNCHANGED acked
    BY <1>5 DEF Match, Fails
  <2>2. /\ LogForm' /\ log'.pc = "idle" /\ log'.i = log.i /\ log'.file = log.file
        /\ log'.len = log.len /\ log'.next = log.next /\ log'.event = log.event
    BY <1>1, <2>1, GotoFacts DEF Pcs
  <2>3. HandleInv'
    BY <1>1, <2>1, <2>2 DEF HandleInv, HandleOn
  <2>4. DiskInv'
    BY <1>1, <2>1, <2>2, PcKeeps DEF DiskInv, Unsettled
  <2>5. QED
    BY <2>2, <2>3, <2>4
<1>6. QED
  BY <1>4, <1>5

(* Writing the row, or part of it.                                         *)
LEMMA WriteKeeps ==
  ASSUME LogInv, NEW ok \in BOOLEAN, Write(ok) PROVE LogInv'
<1> USE Names DEF LogInv
<1> DEFINE pc == IF ok THEN "sync" ELSE "check"
<1>1. /\ log.pc = "write" /\ UNCHANGED <<acked, events>> /\ HandleOn(Active) /\ log.len < MaxBytes
      /\ Goto(pc, ok)
  BY DEF Write, HandleInv
<1>2. /\ LogForm' /\ log'.pc = pc /\ log'.i = log.i /\ log'.file = log.file
      /\ log'.len = log.len /\ log'.next = log.next /\ log'.event = log.event
  BY <1>1, GotoFacts DEF Pcs
<1>3. Row' = Row
  BY <1>2 DEF Row
<1>4. dir[Active] \in File /\ dir[Active].rows \in Seq(RowT) /\ Row \in RowT /\ Row[1] = log.next
  BY <1>1, ActiveFile DEF HandleOn
<1>5. CASE ok
  <2>1. dir' = [dir EXCEPT ![Active] = [dir[Active] EXCEPT !.rows = Append(dir[Active].rows, Row)]]
    BY <1>1, <1>4, <1>5 DEF Write, HandleOn, File
  <2>2. /\ DOMAIN dir' = DOMAIN dir /\ (\A m \in DOMAIN dir \ {Active} : dir'[m] = dir[m])
        /\ dir'[Active] = [dir[Active] EXCEPT !.rows = Append(dir[Active].rows, Row)]
    BY <1>1, <2>1 DEF HandleOn
  <2>3. DiskOK(dir', acked, log.next, "sync")
    BY <1>1, <1>4, <2>2, AppendKeeps DEF DiskInv, HandleOn, LogForm, Unsettled
  <2>4. /\ dir'[Active].rows = Append(dir[Active].rows, Row) /\ dir'[Active].tail = Clean
    BY <1>1, <1>4, <2>2 DEF HandleOn, File
  <2>5. Len(dir'[Active].rows) = log.len + 1 /\ dir'[Active].rows[log.len + 1] = Row
    BY <1>1, <1>4, <2>4 DEF HandleOn
  <2>6. TailMatches'
    BY <1>1, <1>2, <1>3, <2>2, <2>4, <2>5 DEF TailMatches, HandleOn
  <2>7. HandleInv'
    BY <1>1, <1>2, <1>5, <2>6 DEF HandleInv, HandleOn
  <2>8. DiskInv'
    BY <1>1, <1>2, <1>5, <2>3 DEF DiskInv
  <2>9. QED
    BY <1>2, <2>7, <2>8
<1>6. CASE ~ok
  <2>1. PICK f \in Cut(dir[Active]) : dir' = [dir EXCEPT ![Active] = f]
    BY <1>1, <1>6 DEF Write, HandleOn
  <2>2. f \in File /\ f.rows = dir[Active].rows
    BY <1>4, <2>1, SameRows
  <2>3. DiskOK(dir', acked, log.next, "write") /\ DOMAIN dir' = DOMAIN dir /\ dir'[Active] = f
    BY <1>1, <2>1, <2>2, ReplaceKeeps DEF DiskInv, HandleOn
  <2>4. HandleInv'
    BY <1>1, <1>2, <1>6, <2>2, <2>3 DEF HandleInv, HandleOn, DiskOK
  <2>5. DiskInv'
    BY <1>1, <1>2, <1>6, <2>3, PcKeeps DEF DiskInv, Unsettled
  <2>6. QED
    BY <1>2, <2>4, <2>5
<1>7. QED
  BY <1>5, <1>6

(* Syncing what was written.                                               *)
LEMMA SyncKeeps ==
  ASSUME LogInv, NEW ok \in BOOLEAN, Sync(ok) PROVE LogInv'
<1> USE Names DEF LogInv
<1>1. /\ log.pc = "sync" /\ UNCHANGED <<dir, events>> /\ log.file = Active /\ TailMatches
      /\ log.len < MaxBytes
  BY DEF Sync, HandleInv
<1>2. CASE ok
  BY <1>1, <1>2, AckStep DEF Sync
<1>3. CASE ~ok
  <2>1. Goto("check", ok) /\ UNCHANGED acked
    BY <1>3 DEF Sync
  <2>2. /\ LogForm' /\ log'.pc = "check" /\ log'.i = log.i /\ log'.file = log.file
        /\ log'.len = log.len /\ log'.next = log.next /\ log'.event = log.event
    BY <1>1, <2>1, GotoFacts DEF Pcs
  <2>3. TailMatches'
    BY <1>1, <2>2 DEF TailMatches, Row
  <2>4. HandleInv'
    BY <1>1, <2>2, <2>3 DEF HandleInv, TailMatches
  <2>5. DiskInv'
    BY <1>1, <2>1, <2>2, PcKeeps DEF DiskInv, Unsettled
  <2>6. QED
    BY <2>2, <2>4, <2>5
<1>4. QED
  BY <1>2, <1>3

(* The check after a failure acknowledges a row that is whole and cuts     *)
(* away what is not.                                                       *)
LEMMA CheckKeeps ==
  ASSUME LogInv, Check PROVE LogInv'
<1> USE Names DEF LogInv
<1>1. /\ log.pc = "check" /\ UNCHANGED events /\ log.file = Active /\ Active \in DOMAIN dir
      /\ log.len < MaxBytes
      /\ TailMatches \/ (Len(dir[Active].rows) = log.len /\ NumbersOK(dir, log.next, "write"))
  BY DEF Check, HandleInv
<1>2. CASE TailMatches
  BY <1>1, <1>2, AckStep DEF Check
<1>3. CASE ~TailMatches
  <2>1. /\ dir' = [dir EXCEPT ![log.file] = Rewound(dir[log.file])] /\ Goto("idle", FALSE)
        /\ UNCHANGED acked
    BY <1>3 DEF Check, Fails
  <2>2. \A r : On(dir, r) => r[1] < log.next
    BY <1>1, <1>3 DEF NumbersOK, On, Unsettled
  <2>3. QED
    BY <1>1, <1>3, <2>1, <2>2, RewindStep
<1>4. QED
  BY <1>2, <1>3

-----------------------------------------------------------------------------
(* A crash at any step leaves a disk that can be recovered.                *)
LEMMA CrashKeeps ==
  ASSUME LogInv, Crash PROVE LogInv'
<1> USE Names DEF LogInv
<1>1. /\ DOMAIN log' = LogFields /\ log'.pc = "down" /\ log'.i = log.i /\ log'.file = log.file
      /\ log'.len = log.len /\ log'.next = log.next /\ log'.event = log.event
      /\ UNCHANGED <<acked, events>>
  BY DEF Crash, LogForm, LogFields
<1>2. LogForm'
  BY <1>1 DEF LogForm, Pcs
<1>3. HandleInv'
  BY <1>1 DEF HandleInv
<1>4. DiskOK(dir', acked, log.next, log.pc)
  <2>1. CASE log.pc = "write"
    <3>1. HandleOn(Active)
      BY <2>1 DEF HandleInv
    <3>2. PICK f \in Cut(dir[Active]) : dir' = [dir EXCEPT ![Active] = f]
      BY <2>1, <3>1 DEF Crash, HandleOn
    <3>3. f \in File /\ f.rows = dir[Active].rows
      BY <3>1, <3>2, ActiveFile, SameRows DEF HandleOn
    <3>4. QED
      BY <3>1, <3>2, <3>3, ReplaceKeeps DEF DiskInv, HandleOn
  <2>2. CASE log.pc # "write"
    BY <2>2 DEF Crash, DiskInv
  <2>3. QED
    BY <2>1, <2>2
<1>5. DiskInv'
  BY <1>1, <1>4, PcKeeps DEF DiskInv, Unsettled
<1>6. QED
  BY <1>2, <1>3, <1>5

(* Recovery: the file being made goes, then the oldest one is restored or  *)
(* dropped.                                                                *)
LEMMA RecoverKeeps ==
  ASSUME LogInv, RecoverIncoming \/ RecoverDropping PROVE LogInv'
<1> USE Names DEF LogInv
<1>1. CASE RecoverIncoming
  <2>1. /\ log.pc = "down" /\ UNCHANGED <<acked, events>>
        /\ dir' = Without(dir, Incoming) /\ Goto("open_oldest", TRUE)
    BY <1>1 DEF RecoverIncoming
  <2>2. /\ LogForm' /\ log'.pc = "open_oldest" /\ log'.next = log.next
    BY <2>1, GotoFacts DEF Pcs
  <2>3. HandleInv'
    BY <2>1, <2>2 DEF HandleInv, Without
  <2>4. DiskInv'
    BY <2>1, <2>2, RemoveIncoming, PcKeeps DEF DiskInv, Unsettled
  <2>5. QED
    BY <2>2, <2>3, <2>4
<1>2. CASE RecoverDropping
  <2>1. /\ log.pc = "open_oldest" /\ UNCHANGED <<acked, events>>
        /\ dir' = Without(Undrop(dir), Dropping) /\ Goto("open", TRUE)
        /\ Incoming \notin DOMAIN dir
    BY <1>2 DEF RecoverDropping, Recovered, HandleInv
  <2>2. /\ LogForm' /\ log'.pc = "open" /\ log'.next = log.next
    BY <2>1, GotoFacts DEF Pcs
  <2> DEFINE d == Undrop(dir)
  <2>3. /\ DiskOK(d, acked, log.next, log.pc)
        /\ Incoming \notin DOMAIN d
        /\ Dropping \in DOMAIN d => Oldest \in DOMAIN d
    BY <2>1, UndropKeeps DEF DiskInv
  <2> HIDE DEF d
  <2>4. DOMAIN dir' = DOMAIN d \ {Dropping} /\ \A n \in DOMAIN dir' : dir'[n] = d[n]
    BY <2>1 DEF Without, d
  <2>5. HandleInv'
    BY <2>2, <2>3, <2>4 DEF HandleInv
  <2>6. DiskOK(dir', acked, log.next, log.pc)
    <3>1. CASE Dropping \in DOMAIN d
      BY <2>1, <2>3, <3>1, RemoveDropping DEF d
    <3>2. CASE Dropping \notin DOMAIN d
      <4>1. \A r : On(dir', r) <=> On(d, r)
        BY <2>4, <3>2 DEF On
      <4>2. FilesOK(dir') /\ InOrder(dir')
        BY <2>3, <2>4 DEF DiskOK, FilesOK, InOrder
      <4>3. QED
        BY <2>3, <4>1, <4>2, SameContent DEF DiskOK
    <3>3. QED
      BY <3>1, <3>2
  <2>7. DiskInv'
    BY <2>1, <2>2, <2>6, PcKeeps DEF DiskInv, Unsettled
  <2>8. QED
    BY <2>2, <2>5, <2>7
<1>3. QED
  BY <1>1, <1>2

(* Opening: the active file is repaired or made, and the numbers go on     *)
(* above everything on disk and everything acknowledged.                   *)
LEMMA OpenKeeps ==
  ASSUME LogInv, Open PROVE LogInv'
<1> USE Names DEF LogInv
<1> DEFINE f == IF Active \in DOMAIN dir THEN dir[Active] ELSE Empty
           g == RepairTornTail(f)
<1>1. /\ log.pc = "open" /\ dir' = Placed(dir, Active, g) /\ UNCHANGED <<acked, events>>
      /\ Incoming \notin DOMAIN dir /\ Dropping \notin DOMAIN dir
  BY DEF Open, HandleInv
<1>2. /\ DOMAIN log' = LogFields /\ log'.pc = "idle" /\ log'.i = log.i /\ log'.file = Active
      /\ log'.len = Len(f.rows) /\ log'.next = MaxSeq(dir') + 1 /\ log'.event = log.event
  BY DEF Open, LogForm, LogFields
<1>3. f \in File
  <2>1. Empty \in File
    <3>1. <<>> \in Seq(RowT)
      OBVIOUS
    <3>2. QED
      BY <3>1 DEF Empty, Clean, File, RowT
  <2>2. QED
    BY <2>1, ActiveFile
<1>4. g \in File /\ g.rows = f.rows /\ g.tail = Clean
  BY <1>3 DEF RepairTornTail, File, Clean, RowT
<1>5. f.rows = IF Active \in DOMAIN dir THEN dir[Active].rows ELSE <<>>
  BY DEF Empty
<1>6. Len(f.rows) \in Nat
  BY <1>3 DEF File
<1> HIDE DEF f, g
<1>7. /\ DOMAIN dir' = DOMAIN dir \cup {Active} /\ dir'[Active] = g
      /\ \A m \in DOMAIN dir \ {Active} : dir'[m] = dir[m]
  BY <1>1 DEF Placed
<1>8. DiskOK(dir', acked, log.next, log.pc)
  <2>1. Active # Incoming
    OBVIOUS
  <2>2. DiskOK(dir, acked, log.next, log.pc)
    BY DEF DiskInv
  <2>3. g.rows = IF Active \in DOMAIN dir THEN dir[Active].rows ELSE <<>>
    BY <1>4, <1>5
  <2>4. QED
    BY <1>4, <1>7, <2>1, <2>2, <2>3, TailKeeps
<1>9. /\ DOMAIN dir' \subseteq Active..Oldest
      /\ \A n \in DOMAIN dir' : dir'[n].tail = Clean
  <2>1. DOMAIN dir' \subseteq Active..Oldest
    BY <1>1, <1>7 DEF DiskInv, DiskOK, FilesOK
  <2>2. ASSUME NEW n \in DOMAIN dir' PROVE dir'[n].tail = Clean
    <3>1. CASE n = Active
      BY <1>4, <1>7, <3>1
    <3>2. CASE n # Active
      <4>1. n >= 1
        BY <2>1, <3>2
      <4>2. QED
        BY <1>8, <4>1 DEF DiskOK, FilesOK
    <3>3. QED
      BY <3>1, <3>2
  <2>3. QED
    BY <2>1, <2>2
<1>10. \A r : On(dir', r) => r[1] <= log.next
  BY <1>8 DEF DiskOK, NumbersOK, On
<1>11. MaxSeq(dir') \in Nat /\ \A r : On(dir', r) => r[1] <= MaxSeq(dir')
  <2>1. FilesOK(dir') /\ log.next \in Nat
    BY <1>8 DEF DiskOK, LogForm
  <2> DEFINE d == dir'
  <2>2. /\ FilesOK(d) /\ DOMAIN d \subseteq Active..Oldest /\ (\A n \in DOMAIN d : d[n].tail = Clean)
        /\ \A r : On(d, r) => r[1] <= log.next
    BY <1>9, <1>10, <2>1
  <2> HIDE DEF d
  <2>3. MaxSeq(d) \in Nat /\ \A r : On(d, r) => r[1] <= MaxSeq(d)
    BY <2>1, <2>2, MaxSeqBounds
  <2>4. QED
    BY <2>3 DEF d
<1>12. LogForm'
  BY <1>1, <1>2, <1>6, <1>11 DEF LogForm, Pcs
<1>13. HandleInv'
  BY <1>2, <1>4, <1>7 DEF HandleInv, HandleOn
<1>14. NumbersOK(dir', MaxSeq(dir') + 1, "idle")
  <2>1. \A r : On(dir', r) => r[1] \in Nat
    BY <1>8, RowsAreRows DEF DiskOK
  <2>2. \A r : On(dir', r) => r[1] < MaxSeq(dir') + 1 /\ r[1] <= MaxSeq(dir') + 1
    BY <1>11, <2>1
  <2>3. QED
    BY <2>2 DEF NumbersOK, On
<1>15. AckedOK(dir', acked, MaxSeq(dir') + 1)
  <2>1. AckedOK(dir', acked, log.next)
    BY <1>8 DEF DiskOK
  <2>2. ASSUME NEW k \in 1..Len(acked) PROVE acked[k][1] < MaxSeq(dir') + 1
    <3>1. PICK r : On(dir', r) /\ acked[k][1] <= r[1]
      BY <2>1 DEF AckedOK, On
    <3>2. r[1] \in Nat /\ r[1] <= MaxSeq(dir')
      BY <1>8, <1>11, <3>1, RowsAreRows DEF DiskOK
    <3>3. acked[k] \in RowT
      BY <2>1 DEF AckedOK
    <3>4. acked[k][1] \in Nat
      BY <3>3 DEF RowT
    <3>5. QED
      BY <1>11, <3>1, <3>2, <3>4
  <2>3. QED
    BY <2>1, <2>2 DEF AckedOK
<1>16. DiskInv'
  BY <1>1, <1>2, <1>8, <1>14, <1>15 DEF DiskInv, DiskOK
<1>17. QED
  BY <1>12, <1>13, <1>16

-----------------------------------------------------------------------------
(* The empty directory of the first start.                                 *)
LEMMA LogInit == Init => LogInv
<1> SUFFICES ASSUME Init PROVE LogInv
  OBVIOUS
<1> USE Names
<1>1. DOMAIN dir = {} /\ acked \in Seq(RowT) /\ Len(acked) = 0
  BY DEF Init
<1>2. LogForm
  BY DEF Init, LogForm, LogFields, Pcs
<1>3. HandleInv
  BY DEF Init, HandleInv
<1>4. FilesOK(dir) /\ InOrder(dir) /\ NumbersOK(dir, log.next, log.pc)
  BY <1>1 DEF FilesOK, InOrder, NumbersOK
<1>5. AckedOK(dir, acked, log.next)
  BY <1>1 DEF AckedOK, Rising
<1>6. QED
  BY <1>2, <1>3, <1>4, <1>5 DEF LogInv, DiskInv, DiskOK

(* Every step keeps the disk in order and the handle in place.             *)
LEMMA LogStep ==
  ASSUME LogInv, [Next]_vars PROVE LogInv'
<1>1. CASE UNCHANGED vars
  BY <1>1 DEF vars, LogInv, LogForm, HandleInv, HandleOn, TailMatches, Row, DiskInv
<1>2. CASE Record
  BY <1>2, RecordKeeps
<1>3. CASE KeepDropping \/ \E ok \in BOOLEAN : ClearDropping(ok)
  BY <1>3, ClearKeeps
<1>4. CASE AbortActive \/ AbortIncoming \/ AbortOldest
  BY <1>4, AbortKeeps
<1>5. CASE Check
  BY <1>5, CheckKeeps
<1>6. ASSUME NEW ok \in BOOLEAN, PrepareRotate(ok) PROVE LogInv'
  BY <1>6, PrepareKeeps
<1>7. ASSUME NEW ok \in BOOLEAN, Shift(ok) PROVE LogInv'
  BY <1>7, ShiftKeeps
<1>8. ASSUME NEW ok \in BOOLEAN, SyncDir(ok) PROVE LogInv'
  BY <1>8, SyncDirKeeps
<1>9. ASSUME NEW ok \in BOOLEAN, Match(ok) PROVE LogInv'
  BY <1>9, MatchKeeps
<1>10. ASSUME NEW ok \in BOOLEAN, Write(ok) PROVE LogInv'
  BY <1>10, WriteKeeps
<1>11. ASSUME NEW ok \in BOOLEAN, Sync(ok) PROVE LogInv'
  BY <1>11, SyncKeeps
<1>12. CASE Crash
  BY <1>12, CrashKeeps
<1>13. CASE RecoverIncoming \/ RecoverDropping
  BY <1>13, RecoverKeeps
<1>14. CASE Open
  BY <1>14, OpenKeeps
<1>15. QED
  BY <1>1, <1>2, <1>3, <1>4, <1>5, <1>6, <1>7, <1>8, <1>9, <1>10, <1>11, <1>12, <1>13, <1>14
     DEF Next

(* The disk and the handle stay as LogInv says, whatever fails and         *)
(* wherever the process is cut off.                                        *)
THEOREM LogInvariant == Spec => []LogInv
<1>1. QED
  BY LogInit, LogStep, PTL DEF Spec

(* A file never grows past its limit, and between calls the handle is on   *)
(* audit.jsonl, clean and at the length kept for it: what append, rotate,  *)
(* abort_rotate and open_with_limits rely on.                              *)
THEOREM LogTypeCorrect == Spec => []TypeOK
<1>1. LogInv => TypeOK
  <2> SUFFICES ASSUME LogInv PROVE TypeOK
    OBVIOUS
  <2>1. DOMAIN dir \subseteq Incoming..Dropping
    BY DEF LogInv, DiskInv, DiskOK, FilesOK
  <2>2. ASSUME NEW n \in DOMAIN dir
        PROVE  Len(dir[n].rows) <= MaxBytes /\ dir[n].tail.kind \in {"none", "torn", "bare"}
    BY DEF LogInv, DiskInv, DiskOK, FilesOK, File
  <2>3. log.pc = "idle" => HandleOn(Active)
    BY DEF LogInv, HandleInv
  <2>4. QED
    BY <2>1, <2>2, <2>3 DEF TypeOK, HandleOn
<1>2. QED
  BY <1>1, LogInvariant, PTL

-----------------------------------------------------------------------------
(* The files a reader opens, and whether it finds a row there.             *)
Segments == DOMAIN dir \cap Active..Oldest
Found(r) == \E n \in Segments : r \in Range(Lines(dir[n]))

(* Between calls no file has a row without its newline: a reader sees the  *)
(* rows that were written.                                                 *)
LEMMA IdleLines ==
  ASSUME LogInv, Idle, NEW n \in Segments
  PROVE  Lines(dir[n]) = dir[n].rows /\ dir[n].rows \in Seq(RowT) /\ n \in DOMAIN dir /\ n \in Int
<1> USE Names
<1>1. n \in DOMAIN dir /\ n \in Int /\ (n = Active \/ n >= 1)
  BY DEF Segments
<1>2. dir[n].tail = Clean
  BY <1>1 DEF LogInv, Idle, HandleInv, HandleOn, DiskInv, DiskOK, FilesOK
<1>3. dir[n] \in File
  BY <1>1 DEF LogInv, DiskInv, DiskOK, FilesOK
<1>4. QED
  BY <1>1, <1>2, <1>3 DEF Lines, Clean, File

(* Between calls the acknowledged rows a reader finds are the newest ones: *)
(* once append returned Ok for a row that is still found, every row        *)
(* acknowledged after it is found too, whatever failed in between.         *)
AckedNoGap ==
  Idle => \A k, j \in 1..Len(acked) : k < j /\ Found(acked[k]) => Found(acked[j])

(* append never loses a row behind one that it keeps.                      *)
LEMMA FoundNoGap == LogInv => AckedNoGap
<1> SUFFICES ASSUME LogInv, Idle, NEW k \in 1..Len(acked), NEW j \in 1..Len(acked),
                    k < j, Found(acked[k])
             PROVE  Found(acked[j])
  BY DEF AckedNoGap
<1> USE Names
<1>1. PICK m \in Segments : acked[k] \in Range(Lines(dir[m]))
  BY DEF Found
<1>2. m \in DOMAIN dir /\ m \in Active..Oldest /\ acked[k] \in Range(dir[m].rows)
  BY <1>1, IdleLines DEF Segments
<1>3. AckedOK(dir, acked, log.next) /\ InOrder(dir) /\ FilesOK(dir)
  BY DEF LogInv, DiskInv, DiskOK
<1>4. PICK n \in DOMAIN dir : acked[j] \in Range(dir[n].rows)
  BY <1>2, <1>3 DEF AckedOK, On
<1>5. acked[k][1] < acked[j][1] /\ acked[k][1] \in Nat /\ acked[j][1] \in Nat
  <2>1. Rising(acked) /\ acked \in Seq(RowT)
    BY <1>3 DEF AckedOK
  <2>2. acked[k] \in RowT /\ acked[j] \in RowT
    BY <2>1
  <2>3. QED
    BY <2>1, <2>2 DEF Rising, RowT
<1>6. n \in Incoming..Dropping
  BY <1>3 DEF FilesOK
<1>7. n # Incoming
  BY <1>3, <1>4 DEF FilesOK, Empty, Range
<1>8. n # Dropping
  <2>1. n > m => acked[j][1] < acked[k][1]
    BY <1>2, <1>3, <1>4 DEF InOrder
  <2>2. QED
    BY <1>2, <1>5, <2>1
<1>9. n \in Segments
  BY <1>4, <1>6, <1>7, <1>8 DEF Segments
<1>10. QED
  BY <1>4, <1>9, IdleLines DEF Found

-----------------------------------------------------------------------------
(* How much is kept.  A rotated file is full; an acknowledged row is only  *)
(* ever lost while a rotated file stays, in the middle of a rotation too;  *)
(* and between calls a rotated file is under a name that readers open.     *)
AllOn(d, a) == \A k \in 1..Len(a) : On(d, a[k])
Rotated(d, lo) == \E n \in lo..Dropping : n \in DOMAIN d
Full(d) == \A n \in DOMAIN d : n >= 1 => Len(d[n].rows) = MaxBytes
Settled == {"idle", "match", "write", "sync", "check", "prepare", "undrop"}

KeptInv ==
  /\ Full(dir)
  /\ log.pc \in {"prepare", "undrop", "shift"} => log.len = MaxBytes
  /\ AllOn(dir, acked) \/ Rotated(dir, 1)
  /\ log.pc \in {"shift", "abort"} /\ Active \notin DOMAIN dir => AllOn(dir, acked) \/ Rotated(dir, 2)
  /\ log.pc \in Settled /\ Dropping \in DOMAIN dir => \E n \in 1..Oldest : n \in DOMAIN dir

(* A step that leaves the rotated files alone and takes no row away.       *)
Grown(d, e) ==
  /\ \A n \in 1..Dropping : /\ n \in DOMAIN e <=> n \in DOMAIN d
                            /\ n \in DOMAIN d => e[n].rows = d[n].rows
  /\ \A r : On(d, r) => On(e, r)

(* Such a step keeps what is kept, whatever the call does next.            *)
LEMMA GrownKeeps ==
  ASSUME LogInv, LogInv', KeptInv, Grown(dir, dir'), acked' = acked,
         log'.pc \in {"prepare", "undrop", "shift"} => log'.len = MaxBytes,
         log'.pc \in {"shift", "abort"} => Active \in DOMAIN dir' \/ (dir' = dir /\ log.pc \in {"shift", "abort"}),
         log'.pc \in Settled => log.pc \in Settled \/ Dropping \notin DOMAIN dir'
  PROVE  KeptInv'
<1> USE Names
<1>1. DOMAIN dir \subseteq Incoming..Dropping /\ DOMAIN dir' \subseteq Incoming..Dropping
  BY DEF LogInv, DiskInv, DiskOK, FilesOK
<1>2. Full(dir')
  <2>1. ASSUME NEW n \in DOMAIN dir', n >= 1 PROVE Len(dir'[n].rows) = MaxBytes
    <3>1. n \in 1..Dropping
      BY <1>1, <2>1
    <3>2. n \in DOMAIN dir /\ dir'[n].rows = dir[n].rows
      BY <3>1 DEF Grown
    <3>3. QED
      BY <2>1, <3>2 DEF KeptInv, Full
  <2>2. QED
    BY <2>1 DEF Full
<1>3. (AllOn(dir, acked) => AllOn(dir', acked)) /\ (Rotated(dir, 1) => Rotated(dir', 1))
  BY DEF AllOn, Rotated, Grown
<1>4. log'.pc \in {"shift", "abort"} /\ Active \notin DOMAIN dir' => AllOn(dir', acked) \/ Rotated(dir', 2)
  BY DEF KeptInv
<1>5. log'.pc \in Settled /\ Dropping \in DOMAIN dir' => \E n \in 1..Oldest : n \in DOMAIN dir'
  BY DEF KeptInv, Grown
<1>6. QED
  BY <1>2, <1>3, <1>4, <1>5 DEF KeptInv

(* What a rename does.                                                     *)
LEMMA RenameFacts ==
  ASSUME NEW d, NEW a \in DOMAIN d, NEW b, b \notin DOMAIN d
  PROVE  /\ DOMAIN Renamed(d, a, b) = (DOMAIN d \ {a}) \cup {b} /\ Renamed(d, a, b)[b] = d[a]
         /\ \A n \in DOMAIN d \ {a} : Renamed(d, a, b)[n] = d[n]
         /\ \A r : On(d, r) => On(Renamed(d, a, b), r)
<1> DEFINE e == Renamed(d, a, b)
<1>1. DOMAIN e = (DOMAIN d \ {a}) \cup {b} /\ e[b] = d[a] /\ \A n \in DOMAIN d \ {a} : e[n] = d[n]
  BY DEF Renamed
<1> HIDE DEF e
<1>2. \A r : On(d, r) => On(e, r)
  BY <1>1 DEF On
<1>3. QED
  BY <1>1, <1>2 DEF e

(* A new event: the file that is rotated is full.                          *)
LEMMA RecordKept ==
  ASSUME LogInv, LogInv', KeptInv, Record PROVE KeptInv'
<1> USE Names
<1>1. /\ log.pc = "idle" /\ dir' = dir /\ acked' = acked /\ log'.len = log.len
      /\ log'.pc = IF log.len > 0 /\ log.len + 1 > MaxBytes THEN "prepare" ELSE "match"
  BY DEF Record, LogInv, LogForm, LogFields
<1>2. log.len \in Nat /\ log.len <= MaxBytes
  BY <1>1 DEF LogInv, LogForm, HandleInv, HandleOn, DiskInv, DiskOK, FilesOK
<1>3. log'.pc = "prepare" => log'.len = MaxBytes
  BY <1>1, <1>2
<1>4. Grown(dir, dir')
  BY <1>1 DEF Grown
<1>5. QED
  BY <1>1, <1>3, <1>4, GrownKeeps DEF Settled

(* Making or removing the incoming file, which is empty.                   *)
LEMMA IncomingGrown ==
  ASSUME LogInv, NEW e, e = Placed(dir, Incoming, Empty) \/ e = Without(dir, Incoming) \/ e = dir
  PROVE  Grown(dir, e)
<1> USE Names
<1>1. /\ \A n : n # Incoming => (n \in DOMAIN e <=> n \in DOMAIN dir)
      /\ \A n \in DOMAIN dir : n # Incoming => e[n] = dir[n]
  BY DEF Placed, Without
<1>2. \A r : On(dir, r) => \E n \in DOMAIN dir : n # Incoming /\ r \in Range(dir[n].rows)
  <2>1. Incoming \in DOMAIN dir => Range(dir[Incoming].rows) = {}
    BY DEF LogInv, DiskInv, DiskOK, FilesOK, Empty, Range
  <2>2. QED
    BY <2>1 DEF On
<1>3. \A r : On(dir, r) => On(e, r)
  BY <1>1, <1>2 DEF On
<1>4. QED
  BY <1>1, <1>3 DEF Grown

(* Making the incoming file.                                               *)
LEMMA PrepareKept ==
  ASSUME LogInv, LogInv', KeptInv, NEW ok \in BOOLEAN, PrepareRotate(ok) PROVE KeptInv'
<1>1. /\ log.pc = "prepare" /\ acked' = acked /\ log'.len = log.len
      /\ log'.pc = (IF ok THEN "undrop" ELSE "idle")
      /\ \/ dir' = Placed(dir, Incoming, Empty)
         \/ dir' = Without(dir, Incoming)
         \/ dir' = dir
  BY DEF PrepareRotate, LogInv, LogForm, LogFields
<1>2. Grown(dir, dir')
  BY <1>1, IncomingGrown
<1>3. QED
  BY <1>1, <1>2, GrownKeeps DEF Settled, KeptInv

(* The dropping name is only cleared while the oldest file is there.       *)
LEMMA ClearKept ==
  ASSUME LogInv, LogInv', KeptInv, (\E ok \in BOOLEAN : ClearDropping(ok)) \/ KeepDropping PROVE KeptInv'
<1> USE Names
<1>1. CASE KeepDropping
  <2>1. log.pc = "undrop" /\ Goto("shift", TRUE) /\ dir' = dir /\ acked' = acked
    BY <1>1 DEF KeepDropping
  <2>2. log'.pc = "shift" /\ log'.len = log.len /\ Active \in DOMAIN dir
    BY <2>1, GotoFacts DEF Pcs, LogInv, HandleInv, HandleOn
  <2>3. Grown(dir, dir')
    BY <2>1 DEF Grown
  <2>4. QED
    BY <2>1, <2>2, <2>3, GrownKeeps DEF Settled, KeptInv
<1>2. ASSUME NEW ok \in BOOLEAN, ClearDropping(ok) PROVE KeptInv'
  <2> DEFINE pc == IF ok THEN "shift" ELSE "abort"
  <2>1. /\ log.pc = "undrop" /\ Goto(pc, ok) /\ acked' = acked
        /\ Oldest \in DOMAIN dir /\ dir' = IF ok THEN Without(dir, Dropping) ELSE dir
    BY <1>2 DEF ClearDropping
  <2>2. log'.pc = pc /\ log'.len = log.len /\ Active \in DOMAIN dir
    BY <2>1, GotoFacts DEF Pcs, LogInv, HandleInv, HandleOn
  <2>3. /\ \A n \in DOMAIN dir : n # Dropping => n \in DOMAIN dir'
        /\ \A n \in DOMAIN dir' : n \in DOMAIN dir /\ dir'[n] = dir[n]
    BY <2>1 DEF Without
  <2>4. Full(dir') /\ Rotated(dir', 1) /\ Active \in DOMAIN dir'
    BY <2>1, <2>2, <2>3 DEF Full, Rotated, KeptInv
  <2>5. QED
    BY <2>1, <2>2, <2>4 DEF KeptInv, Settled
<1>3. QED
  BY <1>1, <1>2

(* One rename of the shift.                                                *)
LEMMA ShiftKept ==
  ASSUME LogInv, LogInv', KeptInv, NEW ok \in BOOLEAN, Shift(ok) PROVE KeptInv'
<1> USE Names
<1> DEFINE i == log.i
<1>0. /\ log.pc = "shift" /\ (ok \/ i \in DOMAIN dir) /\ acked' = acked
      /\ i \in Incoming..Oldest /\ i \in Int /\ log.len = MaxBytes
  BY DEF Shift, LogInv, LogForm, KeptInv
<1>1. CASE ~ok
  <2>1. dir' = dir /\ log'.pc = "abort"
    BY <1>1 DEF Shift, LogInv, LogForm, LogFields
  <2>2. Grown(dir, dir')
    BY <2>1 DEF Grown
  <2>3. QED
    BY <1>0, <2>1, <2>2, GrownKeeps DEF Settled
<1>2. CASE ok /\ i \notin DOMAIN dir
  <2>1. i # Incoming
    BY <1>0, <1>2 DEF LogInv, HandleInv
  <2>2. dir' = dir /\ log'.pc = "shift" /\ log'.len = MaxBytes
    BY <1>0, <1>2, <2>1 DEF Shift, LogInv, LogForm, LogFields
  <2>3. Grown(dir, dir')
    BY <2>2 DEF Grown
  <2>4. QED
    BY <1>0, <2>2, <2>3, GrownKeeps DEF Settled
<1>3. CASE ok /\ i \in DOMAIN dir
  <2>1. dir' = Renamed(dir, i, i + 1)
    BY <1>3 DEF Shift
  <2>2. i + 1 \notin DOMAIN dir /\ DOMAIN dir \subseteq Incoming..Dropping
    BY <1>0, <1>3 DEF LogInv, HandleInv, DiskInv, DiskOK, FilesOK
  <2>3. /\ DOMAIN dir' = (DOMAIN dir \ {i}) \cup {i + 1} /\ dir'[i + 1] = dir[i]
        /\ \A n \in DOMAIN dir \ {i} : dir'[n] = dir[n]
        /\ \A r : On(dir, r) => On(dir', r)
    BY <1>3, <2>1, <2>2, RenameFacts
  <2>4. Full(dir')
    <3>1. i = Active => Len(dir[i].rows) = MaxBytes
      BY <1>0 DEF LogInv, HandleInv, HandleOn
    <3>2. i >= 1 => Len(dir[i].rows) = MaxBytes
      BY <1>3 DEF KeptInv, Full
    <3>3. i + 1 >= 1 => Len(dir'[i + 1].rows) = MaxBytes
      BY <1>0, <2>3, <3>1, <3>2
    <3>4. QED
      BY <2>3, <3>3 DEF KeptInv, Full
  <2>5. AllOn(dir, acked) => AllOn(dir', acked)
    BY <2>3 DEF AllOn
  <2>6. Rotated(dir, 1) => Rotated(dir', 1)
    <3>1. ASSUME NEW n \in 1..Dropping, n \in DOMAIN dir PROVE Rotated(dir', 1)
      <4>1. CASE n = i
        BY <1>0, <2>3, <3>1, <4>1 DEF Rotated
      <4>2. CASE n # i
        BY <2>3, <3>1, <4>2 DEF Rotated
      <4>3. QED
        BY <4>1, <4>2
    <3>2. QED
      BY <3>1 DEF Rotated
  <2>7. i = Active /\ Rotated(dir, 1) => Rotated(dir', 2)
    <3>1. ASSUME i = Active, NEW n \in 1..Dropping, n \in DOMAIN dir PROVE Rotated(dir', 2)
      <4>1. n \in 2..Dropping /\ n # i
        BY <2>2, <3>1
      <4>2. QED
        BY <2>3, <3>1, <4>1 DEF Rotated
    <3>2. QED
      BY <3>1 DEF Rotated
  <2>8. CASE i = Incoming
    <3>1. log'.pc = "syncdir"
      BY <1>3, <2>8 DEF Shift, LogInv, LogForm, LogFields
    <3>2. QED
      BY <1>0, <2>4, <2>5, <2>6, <3>1 DEF KeptInv, Settled
  <2>9. CASE i # Incoming
    <3>1. log'.pc = "shift" /\ log'.len = MaxBytes
      BY <1>0, <1>3, <2>9 DEF Shift, LogInv, LogForm, LogFields
    <3>2. Active \in DOMAIN dir
      BY <1>0, <2>9 DEF LogInv, HandleInv, HandleOn
    <3>3. Active \notin DOMAIN dir' => AllOn(dir', acked) \/ Rotated(dir', 2)
      BY <2>3, <2>5, <2>7, <3>2 DEF KeptInv
    <3>4. QED
      BY <1>0, <2>4, <2>5, <2>6, <3>1, <3>3 DEF KeptInv, Settled
  <2>10. QED
    BY <2>8, <2>9
<1>4. QED
  BY <1>1, <1>2, <1>3

(* The file just rotated stays when the oldest one goes.                   *)
LEMMA SyncDirKept ==
  ASSUME LogInv, LogInv', KeptInv, NEW ok \in BOOLEAN, SyncDir(ok) PROVE KeptInv'
<1> USE Names
<1> DEFINE pc == IF ok THEN "match" ELSE "idle"
<1>1. /\ log.pc = "syncdir" /\ Goto(pc, ok) /\ acked' = acked
      /\ dir' = Without(dir, Dropping) \/ dir' = dir
  BY DEF SyncDir, Fails
<1>2. log'.pc = pc /\ 1 \in DOMAIN dir
  BY <1>1, GotoFacts DEF Pcs, LogInv, HandleInv
<1>3. /\ \A n \in DOMAIN dir : n # Dropping => n \in DOMAIN dir'
      /\ \A n \in DOMAIN dir' : n \in DOMAIN dir /\ dir'[n] = dir[n]
  BY <1>1 DEF Without
<1>4. Full(dir') /\ 1 \in DOMAIN dir' /\ 1 \in 1..Oldest /\ 1 \in 1..Dropping
  BY <1>2, <1>3 DEF Full, KeptInv
<1>5. QED
  BY <1>1, <1>2, <1>4 DEF KeptInv, Rotated

(* Giving the oldest file its name back.                                   *)
LEMMA UndropKept ==
  ASSUME NEW d, DOMAIN d \subseteq Incoming..Dropping, Full(d), NEW a, AllOn(d, a) \/ Rotated(d, 1)
  PROVE  /\ Full(Undrop(d)) /\ (AllOn(Undrop(d), a) \/ Rotated(Undrop(d), 1))
         /\ Dropping \in DOMAIN Undrop(d) => Oldest \in DOMAIN Undrop(d)
<1> USE Names
<1>1. CASE Dropping \in DOMAIN d /\ Oldest \notin DOMAIN d
  <2>1. Undrop(d) = Renamed(d, Dropping, Oldest)
    BY <1>1 DEF Undrop
  <2>2. /\ DOMAIN Undrop(d) = (DOMAIN d \ {Dropping}) \cup {Oldest} /\ Undrop(d)[Oldest] = d[Dropping]
        /\ \A n \in DOMAIN d \ {Dropping} : Undrop(d)[n] = d[n]
    BY <1>1, <2>1 DEF Renamed
  <2>3. Full(Undrop(d))
    BY <1>1, <2>2 DEF Full
  <2>4. Rotated(Undrop(d), 1)
    BY <2>2 DEF Rotated
  <2>5. QED
    BY <2>2, <2>3, <2>4
<1>2. CASE ~(Dropping \in DOMAIN d /\ Oldest \notin DOMAIN d)
  BY <1>2 DEF Undrop
<1>3. QED
  BY <1>1, <1>2

(* An abort puts back the rotated file that it made the active one only    *)
(* when others stay or nothing was lost.                                   *)
LEMMA AbortKept ==
  ASSUME LogInv, LogInv', KeptInv, AbortActive \/ AbortIncoming \/ AbortOldest PROVE KeptInv'
<1> USE Names
<1>0. DOMAIN dir \subseteq Incoming..Dropping
  BY DEF LogInv, DiskInv, DiskOK, FilesOK
<1>1. CASE AbortActive
  <2> DEFINE back == Active \notin DOMAIN dir /\ 1 \in DOMAIN dir
  <2>1. /\ log.pc = "abort" /\ acked' = acked /\ log'.pc = "abort_incoming"
        /\ dir' = IF back THEN Renamed(dir, 1, Active) ELSE dir
    BY <1>1 DEF AbortActive, LogInv, LogForm, LogFields
  <2>2. CASE back
    <3>1. /\ DOMAIN dir' = (DOMAIN dir \ {1}) \cup {Active}
          /\ \A n \in DOMAIN dir \ {1} : dir'[n] = dir[n]
          /\ \A r : On(dir, r) => On(dir', r)
      <4>1. dir' = Renamed(dir, 1, Active) /\ 1 \in DOMAIN dir /\ Active \notin DOMAIN dir
        BY <2>1, <2>2
      <4>2. /\ DOMAIN dir' = (DOMAIN dir \ {1}) \cup {Active} /\ dir'[Active] = dir[1]
            /\ \A n \in DOMAIN dir \ {1} : dir'[n] = dir[n]
        BY <4>1 DEF Renamed
      <4>3. QED
        BY <4>1, <4>2 DEF On
    <3>2. Full(dir')
      BY <3>1 DEF KeptInv, Full
    <3>3. AllOn(dir', acked) \/ Rotated(dir', 1)
      <4>1. CASE AllOn(dir, acked)
        BY <3>1, <4>1 DEF AllOn
      <4>2. CASE Rotated(dir, 2)
        <5>1. PICK n \in 2..Dropping : n \in DOMAIN dir
          BY <4>2 DEF Rotated
        <5>2. n \in 1..Dropping /\ n \in DOMAIN dir'
          BY <3>1, <5>1
        <5>3. QED
          BY <5>2 DEF Rotated
      <4>3. QED
        BY <2>1, <2>2, <4>1, <4>2 DEF KeptInv
    <3>4. QED
      BY <2>1, <3>2, <3>3 DEF KeptInv, Settled
  <2>3. CASE ~back
    BY <2>1, <2>3 DEF KeptInv, Settled
  <2>4. QED
    BY <2>2, <2>3
<1>2. CASE AbortIncoming
  <2>1. /\ log.pc = "abort_incoming" /\ acked' = acked
        /\ dir' = Without(dir, Incoming) /\ Goto("abort_oldest", TRUE)
    BY <1>2 DEF AbortIncoming
  <2>2. log'.pc = "abort_oldest"
    BY <2>1, GotoFacts DEF Pcs, LogInv
  <2>3. Grown(dir, dir')
    BY <2>1, IncomingGrown
  <2>4. QED
    BY <2>1, <2>2, <2>3, GrownKeeps DEF Settled
<1>3. CASE AbortOldest
  <2>1. /\ log.pc = "abort_oldest" /\ acked' = acked
        /\ dir' = Undrop(dir) /\ Goto("idle", FALSE)
    BY <1>3 DEF AbortOldest, Fails
  <2>2. log'.pc = "idle"
    BY <2>1, GotoFacts DEF Pcs, LogInv
  <2>3. /\ Full(dir') /\ (AllOn(dir', acked) \/ Rotated(dir', 1))
        /\ Dropping \in DOMAIN dir' => Oldest \in DOMAIN dir'
    BY <1>0, <2>1, UndropKept DEF KeptInv
  <2>4. Oldest \in 1..Oldest
    OBVIOUS
  <2>5. QED
    BY <2>1, <2>2, <2>3, <2>4 DEF KeptInv
<1>4. QED
  BY <1>1, <1>2, <1>3

(* Replacing the active file by one that has its rows, and maybe more.     *)
LEMMA ActiveGrown ==
  ASSUME NEW d, NEW e, DOMAIN e = DOMAIN d \cup {Active}, \A n \in DOMAIN d \ {Active} : e[n] = d[n],
         Active \in DOMAIN d => Range(d[Active].rows) \subseteq Range(e[Active].rows)
  PROVE  Grown(d, e)
<1> USE Names
<1>1. \A n \in 1..Dropping : n # Active
  OBVIOUS
<1>2. \A r : On(d, r) => On(e, r)
  BY DEF On
<1>3. QED
  BY <1>1, <1>2 DEF Grown

(* An acknowledged row is on disk.                                         *)
LEMMA AckKept ==
  ASSUME LogInv, KeptInv, TailMatches, Ack, dir' = dir, log.pc \in Settled PROVE KeptInv'
<1> USE Names
<1>1. log'.pc = "idle" /\ acked' = Append(acked, Row) /\ acked \in Seq(RowT)
  BY DEF Ack, LogInv, LogForm, LogFields, DiskInv, DiskOK, AckedOK
<1>2. On(dir, Row)
  <2>1. /\ Active \in DOMAIN dir /\ dir[Active].rows \in Seq(RowT)
        /\ log.len + 1 = Len(dir[Active].rows) /\ dir[Active].rows[log.len + 1] = Row
    BY ActiveFile DEF TailMatches
  <2>2. log.len + 1 \in DOMAIN dir[Active].rows
    BY <2>1 DEF LogInv, LogForm
  <2>3. QED
    BY <2>1, <2>2 DEF On, Range
<1>3. AllOn(dir, acked) => AllOn(dir, acked')
  <2>1. ASSUME AllOn(dir, acked), NEW k \in 1..Len(acked') PROVE On(dir, acked'[k])
    <3>1. CASE k \in 1..Len(acked)
      BY <1>1, <2>1, <3>1 DEF AllOn
    <3>2. CASE k = Len(acked) + 1
      BY <1>1, <1>2, <3>2
    <3>3. QED
      BY <1>1, <3>1, <3>2
  <2>2. QED
    BY <2>1 DEF AllOn
<1>4. QED
  BY <1>1, <1>3 DEF KeptInv, Settled

(* A rewind to the kept length takes no row away.                          *)
LEMMA RewindKept ==
  ASSUME LogInv, LogInv', KeptInv, log.file = Active, Active \in DOMAIN dir,
         Len(dir[Active].rows) = log.len, log.pc \in {"match", "check"},
         dir' = [dir EXCEPT ![log.file] = Rewound(dir[log.file])],
         log'.pc \in {"idle", "write"}, acked' = acked
  PROVE  KeptInv'
<1>1. Rewound(dir[Active]).rows = dir[Active].rows
  BY ActiveFile, SameRows DEF LogInv
<1>2. /\ DOMAIN dir' = DOMAIN dir \cup {Active} /\ dir'[Active] = Rewound(dir[Active])
      /\ \A n \in DOMAIN dir \ {Active} : dir'[n] = dir[n]
  OBVIOUS
<1>3. Grown(dir, dir')
  BY <1>1, <1>2, ActiveGrown
<1>4. QED
  BY <1>3, GrownKeeps DEF Settled

(* Before the write.                                                       *)
LEMMA MatchKept ==
  ASSUME LogInv, LogInv', KeptInv, NEW ok \in BOOLEAN, Match(ok) PROVE KeptInv'
<1> USE Names
<1>1. log.pc = "match" /\ HandleOn(Active)
  BY DEF Match, LogInv, HandleInv
<1>2. ~TailMatches
  BY <1>1 DEF TailMatches, HandleOn, LogInv, LogForm
<1>3. CASE ok
  <2>1. /\ dir' = [dir EXCEPT ![log.file] = Rewound(dir[log.file])] /\ Goto("write", ok)
        /\ acked' = acked
    BY <1>2, <1>3 DEF Match
  <2>2. log'.pc = "write"
    BY <2>1, GotoFacts DEF Pcs, LogInv
  <2>3. QED
    BY <1>1, <2>1, <2>2, RewindKept DEF HandleOn
<1>4. CASE ~ok
  <2>1. dir' = dir /\ Goto("idle", FALSE) /\ acked' = acked
    BY <1>4 DEF Match, Fails
  <2>2. log'.pc = "idle" /\ Grown(dir, dir')
    BY <2>1, GotoFacts DEF Pcs, LogInv, Grown
  <2>3. QED
    BY <1>1, <2>1, <2>2, GrownKeeps DEF Settled
<1>5. QED
  BY <1>3, <1>4

(* Writing the row, or part of it, or being cut off in the write.          *)
LEMMA CutGrown ==
  ASSUME LogInv, HandleOn(Active), NEW f \in Cut(dir[log.file]),
         dir' = [dir EXCEPT ![log.file] = f]
  PROVE  Grown(dir, dir')
<1>1. f.rows = dir[Active].rows /\ log.file = Active /\ Active \in DOMAIN dir
  BY ActiveFile, SameRows DEF LogInv, HandleOn
<1>2. /\ DOMAIN dir' = DOMAIN dir \cup {Active} /\ dir'[Active] = f
      /\ \A n \in DOMAIN dir \ {Active} : dir'[n] = dir[n]
  BY <1>1
<1>3. QED
  BY <1>1, <1>2, ActiveGrown

(* The write.                                                              *)
LEMMA WriteKept ==
  ASSUME LogInv, LogInv', KeptInv, NEW ok \in BOOLEAN, Write(ok) PROVE KeptInv'
<1> USE Names
<1> DEFINE pc == IF ok THEN "sync" ELSE "check"
<1>1. log.pc = "write" /\ acked' = acked /\ HandleOn(Active) /\ Goto(pc, ok)
  BY DEF Write, LogInv, HandleInv
<1>2. log'.pc = pc
  BY <1>1, GotoFacts DEF Pcs, LogInv
<1>3. dir[Active] \in File /\ dir[Active].rows \in Seq(RowT) /\ Row \in RowT
  BY <1>1, ActiveFile DEF HandleOn
<1>4. Grown(dir, dir')
  <2>1. CASE ok
    <3>1. dir' = [dir EXCEPT ![Active] = [dir[Active] EXCEPT !.rows = Append(dir[Active].rows, Row)]]
      BY <1>1, <1>3, <2>1 DEF Write, HandleOn, File
    <3>2. /\ DOMAIN dir' = DOMAIN dir /\ (\A m \in DOMAIN dir \ {Active} : dir'[m] = dir[m])
          /\ dir'[Active].rows = Append(dir[Active].rows, Row) /\ Active \in DOMAIN dir
      BY <1>1, <1>3, <3>1 DEF HandleOn, File
    <3>3. Range(dir[Active].rows) \subseteq Range(Append(dir[Active].rows, Row))
      <4> DEFINE s == dir[Active].rows
      <4>1. /\ DOMAIN s = 1..Len(s) /\ DOMAIN Append(s, Row) = 1..(Len(s) + 1) /\ Len(s) \in Nat
            /\ \A i \in 1..Len(s) : Append(s, Row)[i] = s[i]
        BY <1>3
      <4>2. QED
        BY <4>1 DEF Range
    <3>4. QED
      BY <3>2, <3>3, ActiveGrown
  <2>2. CASE ~ok
    BY <1>1, <2>2, CutGrown DEF Write
  <2>3. QED
    BY <2>1, <2>2
<1>5. QED
  BY <1>1, <1>2, <1>4, GrownKeeps DEF Settled

(* Syncing and, after a failure, looking at what is there.                 *)
LEMMA SyncKept ==
  ASSUME LogInv, LogInv', KeptInv, (\E ok \in BOOLEAN : Sync(ok)) \/ Check PROVE KeptInv'
<1> USE Names
<1>1. ASSUME NEW ok \in BOOLEAN, Sync(ok) PROVE KeptInv'
  <2>1. log.pc = "sync" /\ dir' = dir /\ TailMatches /\ log.pc \in Settled
    BY <1>1 DEF Sync, LogInv, HandleInv, Settled
  <2>2. CASE ok
    BY <1>1, <2>1, <2>2, AckKept DEF Sync
  <2>3. CASE ~ok
    <3>1. Goto("check", ok) /\ acked' = acked
      BY <1>1, <2>3 DEF Sync
    <3>2. log'.pc = "check" /\ Grown(dir, dir')
      BY <2>1, <3>1, GotoFacts DEF Pcs, LogInv, Grown
    <3>3. QED
      BY <2>1, <3>1, <3>2, GrownKeeps DEF Settled
  <2>4. QED
    BY <2>2, <2>3
<1>2. CASE Check
  <2>1. /\ log.pc = "check" /\ log.pc \in Settled /\ log.file = Active /\ Active \in DOMAIN dir
        /\ TailMatches \/ Len(dir[Active].rows) = log.len
    BY <1>2 DEF Check, LogInv, HandleInv, Settled
  <2>2. CASE TailMatches
    BY <1>2, <2>1, <2>2, AckKept DEF Check
  <2>3. CASE ~TailMatches
    <3>1. /\ dir' = [dir EXCEPT ![log.file] = Rewound(dir[log.file])] /\ Goto("idle", FALSE)
          /\ acked' = acked
      BY <1>2, <2>3 DEF Check, Fails
    <3>2. log'.pc = "idle"
      BY <3>1, GotoFacts DEF Pcs, LogInv
    <3>3. QED
      BY <2>1, <2>3, <3>1, <3>2, RewindKept
  <2>4. QED
    BY <2>2, <2>3
<1>3. QED
  BY <1>1, <1>2

(* A crash and the recovery after it.                                      *)
LEMMA RecoveryKept ==
  ASSUME LogInv, LogInv', KeptInv, Crash \/ RecoverIncoming \/ RecoverDropping \/ Open PROVE KeptInv'
<1> USE Names
<1>0. DOMAIN dir \subseteq Incoming..Dropping
  BY DEF LogInv, DiskInv, DiskOK, FilesOK
<1>1. CASE Crash
  <2>1. log'.pc = "down" /\ acked' = acked
    BY <1>1 DEF Crash, LogInv, LogForm, LogFields
  <2>2. Grown(dir, dir')
    <3>1. CASE log.pc = "write"
      <4>1. HandleOn(Active)
        BY <3>1 DEF LogInv, HandleInv
      <4>2. QED
        BY <1>1, <3>1, <4>1, CutGrown DEF Crash
    <3>2. CASE log.pc # "write"
      BY <1>1, <3>2 DEF Crash, Grown
    <3>3. QED
      BY <3>1, <3>2
  <2>3. QED
    BY <2>1, <2>2, GrownKeeps DEF Settled
<1>2. CASE RecoverIncoming
  <2>1. dir' = Without(dir, Incoming) /\ Goto("open_oldest", TRUE) /\ acked' = acked
    BY <1>2 DEF RecoverIncoming
  <2>2. log'.pc = "open_oldest" /\ Grown(dir, dir')
    BY <2>1, GotoFacts, IncomingGrown DEF Pcs, LogInv
  <2>3. QED
    BY <2>1, <2>2, GrownKeeps DEF Settled
<1>3. CASE RecoverDropping
  <2>1. /\ dir' = Without(Undrop(dir), Dropping) /\ Goto("open", TRUE) /\ acked' = acked
    BY <1>3 DEF RecoverDropping, Recovered
  <2>2. log'.pc = "open"
    BY <2>1, GotoFacts DEF Pcs, LogInv
  <2> DEFINE d == Undrop(dir)
  <2>3. /\ Full(d) /\ (AllOn(d, acked) \/ Rotated(d, 1))
        /\ Dropping \in DOMAIN d => Oldest \in DOMAIN d
    BY <1>0, UndropKept DEF KeptInv
  <2>4. DOMAIN dir' = DOMAIN d \ {Dropping} /\ \A n \in DOMAIN dir' : dir'[n] = d[n]
    BY <2>1 DEF Without
  <2> HIDE DEF d
  <2>5. Full(dir')
    BY <2>3, <2>4 DEF Full
  <2>6. AllOn(dir', acked) \/ Rotated(dir', 1)
    <3>1. CASE Dropping \in DOMAIN d
      BY <2>3, <2>4, <3>1 DEF Rotated
    <3>2. CASE Dropping \notin DOMAIN d
      <4>1. DOMAIN dir' = DOMAIN d /\ \A r : On(d, r) => On(dir', r)
        BY <2>4, <3>2 DEF On
      <4>2. QED
        BY <2>3, <4>1 DEF AllOn, Rotated
    <3>3. QED
      BY <3>1, <3>2
  <2>7. QED
    BY <2>1, <2>2, <2>5, <2>6 DEF KeptInv, Settled
<1>4. CASE Open
  <2> DEFINE f == IF Active \in DOMAIN dir THEN dir[Active] ELSE Empty
  <2>1. /\ dir' = Placed(dir, Active, RepairTornTail(f)) /\ acked' = acked /\ log.pc = "open"
        /\ log'.pc = "idle"
    BY <1>4 DEF Open, LogInv, LogForm, LogFields
  <2>2. Active \in DOMAIN dir => f = dir[Active] /\ RepairTornTail(f).rows = dir[Active].rows
    BY ActiveFile DEF RepairTornTail, File
  <2> HIDE DEF f
  <2>3. /\ DOMAIN dir' = DOMAIN dir \cup {Active} /\ dir'[Active] = RepairTornTail(f)
        /\ \A n \in DOMAIN dir \ {Active} : dir'[n] = dir[n]
    BY <2>1 DEF Placed
  <2>4. Grown(dir, dir')
    BY <2>2, <2>3, ActiveGrown
  <2>5. Dropping \notin DOMAIN dir'
    BY <2>1, <2>3 DEF LogInv, HandleInv
  <2>6. QED
    BY <2>1, <2>4, <2>5, GrownKeeps DEF Settled
<1>5. QED
  BY <1>1, <1>2, <1>3, <1>4

(* Every step keeps what is kept.                                          *)
LEMMA KeptStep ==
  ASSUME LogInv, KeptInv, [Next]_vars PROVE KeptInv'
<1>0. LogInv'
  BY LogStep
<1>1. CASE UNCHANGED vars
  BY <1>1 DEF vars, KeptInv
<1>2. CASE Record
  BY <1>0, <1>2, RecordKept
<1>3. CASE KeepDropping \/ \E ok \in BOOLEAN : ClearDropping(ok)
  BY <1>0, <1>3, ClearKept
<1>4. CASE AbortActive \/ AbortIncoming \/ AbortOldest
  BY <1>0, <1>4, AbortKept
<1>5. CASE Check \/ \E ok \in BOOLEAN : Sync(ok)
  BY <1>0, <1>5, SyncKept
<1>6. ASSUME NEW ok \in BOOLEAN, PrepareRotate(ok) PROVE KeptInv'
  BY <1>0, <1>6, PrepareKept
<1>7. ASSUME NEW ok \in BOOLEAN, Shift(ok) PROVE KeptInv'
  BY <1>0, <1>7, ShiftKept
<1>8. ASSUME NEW ok \in BOOLEAN, SyncDir(ok) PROVE KeptInv'
  BY <1>0, <1>8, SyncDirKept
<1>9. ASSUME NEW ok \in BOOLEAN, Match(ok) PROVE KeptInv'
  BY <1>0, <1>9, MatchKept
<1>10. ASSUME NEW ok \in BOOLEAN, Write(ok) PROVE KeptInv'
  BY <1>0, <1>10, WriteKept
<1>11. CASE Crash \/ RecoverIncoming \/ RecoverDropping \/ Open
  BY <1>0, <1>11, RecoveryKept
<1>12. QED
  BY <1>1, <1>2, <1>3, <1>4, <1>5, <1>6, <1>7, <1>8, <1>9, <1>10, <1>11 DEF Next

(* What is kept at every step, whatever fails and wherever the process is  *)
(* cut off: full rotated files, and no acknowledged row lost unless one of *)
(* them is there.                                                          *)
THEOREM KeptInvariant == Spec => [](LogInv /\ KeptInv)
<1>1. Init => LogInv /\ KeptInv
  <2> SUFFICES ASSUME Init PROVE KeptInv
    BY LogInit
  <2>1. DOMAIN dir = {} /\ Len(acked) = 0 /\ log.pc = "down"
    BY DEF Init
  <2>2. QED
    BY <2>1 DEF KeptInv, Full, AllOn, Settled
<1>2. LogInv /\ KeptInv /\ [Next]_vars => (LogInv /\ KeptInv)'
  BY LogStep, KeptStep
<1>3. QED
  BY <1>1, <1>2, PTL DEF Spec

-----------------------------------------------------------------------------
(* The places a reader visits.                                             *)
LEMMA PlaceFacts ==
  ASSUME LogInv, Idle, NEW p \in DOMAIN Readable
  PROVE  /\ p[1] \in 1..MaxFiles /\ MaxFiles - p[1] \in Segments /\ p = <<p[1], p[2]>>
         /\ RowsOf(p[1]) = dir[MaxFiles - p[1]].rows
         /\ RowsOf(p[1]) \in Seq(RowT) /\ p[2] \in 1..Len(RowsOf(p[1]))
         /\ Readable[p] = RowsOf(p[1])[p[2]] /\ Readable[p] \in RowT /\ Readable[p][1] \in Nat
<1> USE Names
<1>1. /\ DOMAIN Readable = UNION {{k} \X (1..Len(RowsOf(k))) : k \in 1..MaxFiles}
      /\ Readable[p] = RowsOf(p[1])[p[2]]
  BY DEF Readable
<1>2. PICK k \in 1..MaxFiles : p \in {k} \X (1..Len(RowsOf(k)))
  BY <1>1
<1>3. p = <<p[1], p[2]>> /\ p[1] = k /\ p[2] \in 1..Len(RowsOf(k))
  BY <1>2
<1> DEFINE n == MaxFiles - k
<1>4. n \in Active..Oldest /\ FilesOldestFirst[k] = n
  BY DEF FilesOldestFirst, Oldest, Active
<1>5. RowsOf(k) = IF n \in DOMAIN dir THEN Lines(dir[n]) ELSE <<>>
  BY <1>4 DEF RowsOf
<1>6. n \in Segments
  <2>1. Len(<<>>) = 0
    OBVIOUS
  <2>2. n \in DOMAIN dir
    BY <1>3, <1>5, <2>1
  <2>3. QED
    BY <1>4, <2>2 DEF Segments
<1>7. RowsOf(k) = dir[n].rows /\ dir[n].rows \in Seq(RowT)
  BY <1>5, <1>6, IdleLines
<1>8. RowsOf(k)[p[2]] \in RowT
  BY <1>3, <1>7
<1>9. Readable[p] \in RowT /\ Readable[p][1] \in Nat
  BY <1>1, <1>3, <1>8 DEF RowT
<1>10. QED
  BY <1>1, <1>3, <1>6, <1>7, <1>9

(* Every row of a file that readers open has its place.                    *)
LEMMA PlaceOf ==
  ASSUME LogInv, Idle, NEW n \in Segments, NEW i \in 1..Len(dir[n].rows)
  PROVE  <<MaxFiles - n, i>> \in DOMAIN Readable /\ Readable[<<MaxFiles - n, i>>] = dir[n].rows[i]
<1> USE Names
<1> DEFINE k == MaxFiles - n
<1>1. n \in Active..Oldest /\ n \in DOMAIN dir
  BY DEF Segments
<1>2. k \in 1..MaxFiles /\ FilesOldestFirst[k] = n
  BY <1>1 DEF FilesOldestFirst, Oldest, Active
<1>3. RowsOf(k) = dir[n].rows
  BY <1>1, <1>2, IdleLines DEF RowsOf
<1>4. <<k, i>> \in {k} \X (1..Len(RowsOf(k)))
  BY <1>3
<1>5. DOMAIN Readable = UNION {{m} \X (1..Len(RowsOf(m))) : m \in 1..MaxFiles}
  BY DEF Readable
<1>6. <<k, i>> \in DOMAIN Readable
  BY <1>2, <1>4, <1>5
<1>7. Readable[<<k, i>>] = RowsOf(k)[i]
  BY <1>5, <1>6 DEF Readable
<1>8. QED
  BY <1>3, <1>6, <1>7

(* Rows rise in the order in which a reader visits them.                   *)
LEMMA ReadInOrder ==
  ASSUME LogInv, Idle, NEW p \in DOMAIN Readable, NEW q \in DOMAIN Readable
  PROVE  /\ Before(p, q) => Readable[p][1] < Readable[q][1]
         /\ Readable[p][1] < Readable[q][1] => Before(p, q)
<1> USE Names
<1>1. InOrder(dir)
  BY DEF LogInv, DiskInv, DiskOK
<1>2. ASSUME NEW s \in DOMAIN Readable, NEW t \in DOMAIN Readable, Before(s, t)
      PROVE  Readable[s][1] < Readable[t][1]
  <2> DEFINE n == MaxFiles - s[1]
             m == MaxFiles - t[1]
  <2>1. /\ s[1] \in 1..MaxFiles /\ n \in DOMAIN dir /\ dir[n].rows \in Seq(RowT)
        /\ s[2] \in 1..Len(dir[n].rows) /\ Readable[s] = dir[n].rows[s[2]]
    BY PlaceFacts DEF Segments
  <2>2. /\ t[1] \in 1..MaxFiles /\ m \in DOMAIN dir /\ dir[m].rows \in Seq(RowT)
        /\ t[2] \in 1..Len(dir[m].rows) /\ Readable[t] = dir[m].rows[t[2]]
    BY PlaceFacts DEF Segments
  <2>3. Readable[s] \in Range(dir[n].rows) /\ Readable[t] \in Range(dir[m].rows)
    BY <2>1, <2>2 DEF Range
  <2>4. CASE s[1] < t[1]
    <3>1. n > m
      BY <2>1, <2>2, <2>4
    <3> HIDE DEF n, m
    <3>2. QED
      BY <1>1, <2>1, <2>2, <2>3, <3>1 DEF InOrder
  <2>5. CASE s[1] = t[1] /\ s[2] < t[2]
    <3>1. n = m
      BY <2>5
    <3> HIDE DEF n, m
    <3>2. QED
      BY <1>1, <2>1, <2>2, <2>5, <3>1 DEF InOrder, Rising
  <2>6. QED
    BY <1>2, <2>4, <2>5 DEF Before
<1>3. Before(p, q) \/ Before(q, p) \/ p = q
  <2>1. /\ p = <<p[1], p[2]>> /\ q = <<q[1], q[2]>>
        /\ p[1] \in Int /\ p[2] \in Int /\ q[1] \in Int /\ q[2] \in Int
    BY PlaceFacts
  <2>2. p[1] = q[1] /\ p[2] = q[2] => p = q
    BY <2>1
  <2>3. QED
    BY <2>1, <2>2 DEF Before
<1>4. Readable[p][1] \in Nat /\ Readable[q][1] \in Nat
  BY PlaceFacts
<1>5. QED
  BY <1>2, <1>3, <1>4

(* A page holds exactly the rows past the cursor: a file that is skipped   *)
(* has none.                                                               *)
LEMMA PageExact ==
  ASSUME LogInv, Idle, NEW c \in Int
  PROVE  Page(c) = {p \in DOMAIN Readable : Readable[p][1] > c}
<1>1. ASSUME NEW p \in DOMAIN Readable, Readable[p][1] > c
      PROVE  TrailingSeq(RowsOf(p[1])) > c
  <2> DEFINE rows == RowsOf(p[1])
  <2>1. /\ MaxFiles - p[1] \in DOMAIN dir /\ rows = dir[MaxFiles - p[1]].rows
        /\ rows \in Seq(RowT) /\ p[2] \in 1..Len(rows) /\ Readable[p] = rows[p[2]]
    BY PlaceFacts DEF Segments
  <2>2. Rising(rows)
    BY <2>1 DEF LogInv, DiskInv, DiskOK, InOrder
  <2> HIDE DEF rows
  <2>3. Len(rows) \in 1..Len(rows) /\ rows[Len(rows)] \in RowT /\ rows[p[2]] \in RowT
    BY <2>1
  <2>4. rows[Len(rows)][1] \in Nat /\ rows[p[2]][1] \in Nat
    BY <2>3 DEF RowT
  <2>5. rows[p[2]][1] <= rows[Len(rows)][1]
    BY <2>1, <2>2, <2>3, <2>4 DEF Rising
  <2>6. QED
    BY <1>1, <2>1, <2>4, <2>5 DEF TrailingSeq, rows
<1>2. \A p \in DOMAIN Readable : RowsOf(p[1])[p[2]] = Readable[p]
  BY PlaceFacts
<1>3. QED
  BY <1>1, <1>2 DEF Page

(* page() gives exactly the rows past the cursor, in the order of their    *)
(* numbers, and going on from any row gives exactly what follows it:       *)
(* through rotations, failed rotations and recoveries, for all limits.     *)
THEOREM PagesComplete == Spec => []PagesInOrder
<1>1. LogInv => PagesInOrder
  <2> SUFFICES ASSUME LogInv, Idle PROVE PagesInOrder
    BY DEF PagesInOrder
  <2>1. \A p, q \in DOMAIN Readable : Before(p, q) => Readable[p][1] < Readable[q][1]
    BY ReadInOrder
  <2>2. \A c \in 0..MaxEvents : Page(c) = {p \in DOMAIN Readable : Readable[p][1] > c}
    BY PageExact
  <2>3. ASSUME NEW p \in DOMAIN Readable
        PROVE  Page(Readable[p][1]) = {q \in DOMAIN Readable : Before(p, q)}
    <3>1. Readable[p][1] \in Int
      BY PlaceFacts
    <3>2. Page(Readable[p][1]) = {q \in DOMAIN Readable : Readable[q][1] > Readable[p][1]}
      BY <3>1, PageExact
    <3>3. \A q \in DOMAIN Readable : Readable[q][1] > Readable[p][1] <=> Before(p, q)
      BY ReadInOrder, PlaceFacts
    <3>4. QED
      BY <3>2, <3>3
  <2>4. QED
    BY <2>1, <2>2, <2>3 DEF PagesInOrder
<1>2. QED
  BY <1>1, LogInvariant, PTL

(* Readers visit finitely many places, at least as many as a file they     *)
(* open has rows.                                                          *)
LEMMA PlacesCount ==
  ASSUME LogInv, Idle
  PROVE  /\ IsFiniteSet(DOMAIN Readable) /\ Cardinality(DOMAIN Readable) \in Nat
         /\ \A n \in Segments : Len(dir[n].rows) <= Cardinality(DOMAIN Readable)
<1> USE Names
<1>1. DOMAIN Readable \subseteq (1..MaxFiles) \X (1..MaxBytes)
  <2>1. ASSUME NEW p \in DOMAIN Readable PROVE p \in (1..MaxFiles) \X (1..MaxBytes)
    <3>1. /\ p[1] \in 1..MaxFiles /\ p = <<p[1], p[2]>> /\ MaxFiles - p[1] \in DOMAIN dir
          /\ dir[MaxFiles - p[1]].rows \in Seq(RowT) /\ p[2] \in 1..Len(dir[MaxFiles - p[1]].rows)
      BY PlaceFacts DEF Segments
    <3>2. Len(dir[MaxFiles - p[1]].rows) <= MaxBytes
      BY <3>1 DEF LogInv, DiskInv, DiskOK, FilesOK
    <3>3. p[2] \in 1..MaxBytes
      BY <3>1, <3>2
    <3>4. QED
      BY <3>1, <3>3
  <2>2. QED
    BY <2>1
<1>2. IsFiniteSet(1..MaxFiles) /\ IsFiniteSet(1..MaxBytes)
  BY FS_Interval
<1>3. IsFiniteSet((1..MaxFiles) \X (1..MaxBytes))
  BY <1>2, FS_Product
<1>4. IsFiniteSet(DOMAIN Readable)
  BY <1>1, <1>3, FS_Subset
<1>5. ASSUME NEW n \in Segments PROVE Len(dir[n].rows) <= Cardinality(DOMAIN Readable)
  <2> DEFINE len == Len(dir[n].rows)
             S == 1..len
             f == [i \in S |-> <<MaxFiles - n, i>>]
  <2>1. len \in Nat
    BY IdleLines
  <2>2. f \in [S -> DOMAIN Readable]
    BY PlaceOf
  <2>3. \A i, j \in S : f[i] = f[j] => i = j
    OBVIOUS
  <2>4. f \in Injection(S, DOMAIN Readable)
    BY <2>2, <2>3, Fun_IsInj
  <2>5. Cardinality(S) <= Cardinality(DOMAIN Readable)
    BY <1>4, <2>4, FS_Injection
  <2>6. Cardinality(S) = len
    BY <2>1, FS_Interval
  <2>7. QED
    BY <2>5, <2>6
<1>6. QED
  BY <1>4, <1>5, FS_CardinalityType

(* A row is found where readers look exactly when a place shows it.        *)
LEMMA FoundShown ==
  ASSUME LogInv, Idle, NEW r
  PROVE  (\E p \in DOMAIN Readable : Readable[p] = r) <=> Found(r)
<1>1. ASSUME NEW p \in DOMAIN Readable, Readable[p] = r PROVE Found(r)
  <2> DEFINE n == MaxFiles - p[1]
  <2>1. n \in Segments /\ dir[n].rows \in Seq(RowT) /\ p[2] \in 1..Len(dir[n].rows) /\ dir[n].rows[p[2]] = r
    BY <1>1, PlaceFacts
  <2> HIDE DEF n
  <2>2. r \in Range(dir[n].rows)
    BY <2>1 DEF Range
  <2>3. QED
    BY <2>1, <2>2, IdleLines DEF Found
<1>2. ASSUME Found(r) PROVE \E p \in DOMAIN Readable : Readable[p] = r
  <2>1. PICK n \in Segments : r \in Range(dir[n].rows)
    BY <1>2, IdleLines DEF Found
  <2>2. dir[n].rows \in Seq(RowT)
    BY IdleLines
  <2>3. PICK i \in 1..Len(dir[n].rows) : dir[n].rows[i] = r
    BY <2>1, <2>2 DEF Range
  <2>4. QED
    BY <2>3, PlaceOf
<1>3. QED
  BY <1>1, <1>2

(* When nothing acknowledged was lost and no file was rotated away, all of *)
(* it is in the active file.                                               *)
LEMMA AllInActive ==
  ASSUME LogInv, Idle, AllOn(dir, acked), \A n \in 1..Dropping : n \notin DOMAIN dir
  PROVE  Len(acked) <= Cardinality(DOMAIN Readable)
<1> USE Names
<1>1. /\ FilesOK(dir) /\ acked \in Seq(RowT) /\ Rising(acked) /\ Len(acked) \in Nat
      /\ \A k \in 1..Len(acked) : acked[k] \in RowT
  BY DEF LogInv, DiskInv, DiskOK, AckedOK
<1>2. ASSUME NEW k \in 1..Len(acked)
      PROVE  \E p \in DOMAIN Readable : Readable[p] = acked[k]
  <2>1. PICK n \in DOMAIN dir : acked[k] \in Range(dir[n].rows)
    BY DEF AllOn, On
  <2>2. n # Incoming
    BY <1>1, <2>1 DEF FilesOK, Empty, Range
  <2>3. n = Active
    BY <1>1, <2>2 DEF FilesOK
  <2>4. n \in Segments
    BY <2>3 DEF Segments
  <2>5. Found(acked[k])
    BY <2>1, <2>4, IdleLines DEF Found
  <2>6. QED
    BY <2>5, FoundShown
<1> DEFINE S == 1..Len(acked)
           f == [k \in S |-> CHOOSE p \in DOMAIN Readable : Readable[p] = acked[k]]
<1>3. \A k \in S : f[k] \in DOMAIN Readable /\ Readable[f[k]] = acked[k]
  BY <1>2
<1>4. f \in [S -> DOMAIN Readable]
  BY <1>3
<1> HIDE DEF f
<1>5. ASSUME NEW j \in S, NEW k \in S, f[j] = f[k] PROVE j = k
  <2>1. acked[j] = acked[k]
    BY <1>3, <1>5
  <2>2. acked[j][1] \in Nat
    BY <1>1 DEF RowT
  <2>3. ~(j < k) /\ ~(k < j)
    BY <1>1, <2>1, <2>2 DEF Rising
  <2>4. QED
    BY <2>3
<1>6. f \in Injection(S, DOMAIN Readable)
  BY <1>4, <1>5, Fun_IsInj
<1>7. Cardinality(S) <= Cardinality(DOMAIN Readable)
  BY <1>6, PlacesCount, FS_Injection
<1>8. Cardinality(S) = Len(acked)
  <2>1. ASSUME NEW n \in Nat PROVE Cardinality(1..n) = n
    BY FS_Interval
  <2>2. QED
    BY <1>1, <2>1
<1>9. QED
  BY <1>7, <1>8

(* Between calls at least a file of rows is readable, or all of them.      *)
LEMMA EnoughKept ==
  ASSUME LogInv, KeptInv, Idle
  PROVE  Cardinality(DOMAIN Readable) >= IF Len(acked) < MaxBytes THEN Len(acked) ELSE MaxBytes
<1> USE Names
<1>1. Len(acked) \in Nat /\ Cardinality(DOMAIN Readable) \in Nat
  BY PlacesCount DEF LogInv, DiskInv, DiskOK, AckedOK
<1>2. CASE \E n \in 1..Oldest : n \in DOMAIN dir
  <2>1. PICK n \in 1..Oldest : n \in DOMAIN dir
    BY <1>2
  <2>2. n \in Segments /\ Len(dir[n].rows) = MaxBytes
    BY <2>1 DEF Segments, KeptInv, Full
  <2>3. MaxBytes <= Cardinality(DOMAIN Readable)
    BY <2>2, PlacesCount
  <2>4. QED
    BY <1>1, <2>3
<1>3. CASE \A n \in 1..Oldest : n \notin DOMAIN dir
  <2>1. Dropping \notin DOMAIN dir
    BY <1>3 DEF KeptInv, Settled, Idle
  <2>2. \A n \in 1..Dropping : n \notin DOMAIN dir
    BY <1>3, <2>1
  <2>3. AllOn(dir, acked)
    BY <2>2 DEF KeptInv, Rotated
  <2>4. Len(acked) <= Cardinality(DOMAIN Readable)
    BY <2>2, <2>3, AllInActive
  <2>5. QED
    BY <1>1, <2>4
<1>4. QED
  BY <1>2, <1>3

(* What append acknowledged is what readers still find at the newest end:  *)
(* no gap, each row once and in order, and at least a file of them,        *)
(* whatever rotations fail and wherever the process is cut off.            *)
THEOREM AckedSurvive == Spec => []AckedKept
<1>1. LogInv /\ KeptInv => AckedKept
  <2> SUFFICES ASSUME LogInv, KeptInv, Idle PROVE AckedKept
    BY DEF AckedKept
  <2> DEFINE kept(k) == \E p \in DOMAIN Readable : Readable[p] = acked[k]
  <2>1. \A j, k \in 1..Len(acked) : j < k /\ kept(j) => kept(k)
    <3>1. \A j, k \in 1..Len(acked) : j < k /\ Found(acked[j]) => Found(acked[k])
      BY FoundNoGap DEF AckedNoGap
    <3>2. QED
      BY <3>1, FoundShown
  <2>2. ASSUME NEW p \in DOMAIN Readable, NEW j \in 1..Len(acked), Readable[p] = acked[j],
               NEW q \in DOMAIN Readable, NEW k \in 1..Len(acked), Readable[q] = acked[k]
        PROVE  Before(p, q) <=> j < k
    <3>1. Rising(acked)
      BY DEF LogInv, DiskInv, DiskOK, AckedOK
    <3>2. Readable[p][1] \in Nat /\ Readable[q][1] \in Nat
      BY PlaceFacts
    <3>3. acked[j][1] < acked[k][1] <=> j < k
      <4>1. j < k => acked[j][1] < acked[k][1]
        BY <3>1 DEF Rising
      <4>2. k < j => acked[k][1] < acked[j][1]
        BY <3>1 DEF Rising
      <4>3. j = k => acked[k][1] = acked[j][1]
        OBVIOUS
      <4>4. QED
        BY <2>2, <3>2, <4>1, <4>2, <4>3
    <3>4. Before(p, q) <=> Readable[p][1] < Readable[q][1]
      BY ReadInOrder
    <3>5. QED
      BY <2>2, <3>3, <3>4
  <2>3. Cardinality(DOMAIN Readable) >= IF Len(acked) < MaxBytes THEN Len(acked) ELSE MaxBytes
    BY EnoughKept
  <2>4. QED
    BY <2>1, <2>2, <2>3 DEF AckedKept
<1>2. QED
  BY <1>1, KeptInvariant, PTL
=============================================================================

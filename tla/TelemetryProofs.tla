-------------------------- MODULE TelemetryProofs --------------------------
(***************************************************************************)
(* Proofs about the telemetry path, for every set of slots and catalogs,   *)
(* every capacity of the ring and of the client, and any number of scans,  *)
(* failures and rebirths: no sample is lost without being counted,         *)
(* sessions are numbered apart, and a host that sees no sequence gap is up *)
(* to date.                                                                *)
(*                                                                         *)
(* The argument for the last: replay in the host what is still on its way  *)
(* in the client. The host then either asks for a rebirth, or is behind    *)
(* the session by exactly the messages lost since the last one that was    *)
(* queued; fewer than SeqBase of them show as a gap in the sequence        *)
(* numbers.                                                                *)
(***************************************************************************)
EXTENDS Telemetry, FiniteSetTheorems, TLAPS

-----------------------------------------------------------------------------
(* Types.                                                                  *)
Seqs     == 0..(SeqBase - 1)
Counts   == 0..MaxDrops
Cells    == Values \cup {None}
Samples  == [slot : S, v : Values]
Partial  == UNION {[D -> Values] : D \in SUBSET Nat}
Losses   == [node : 0..SeqBase, device : 0..SeqBase]

Sessions ==
  [bd : Nat, node : Seqs, dev : Seqs, first : BOOLEAN, catalog : Catalogs,
   drops : Counts \cup {None}, device : [S -> Cells]]

Births     == [k : {"NBIRTH"}, seq : {0}, bd : Nat, drops : Counts]
NodeData   == [k : {"NDATA"}, seq : Seqs, drops : Counts]
DevBirths  == {m \in [k : {"DBIRTH"}, seq : {0}, table : Catalogs \ {<<>>}, v : Partial] :
                 DOMAIN m.v = DOMAIN m.table}
DevDeaths  == [k : {"DDEATH"}, seq : Seqs]
DevData    == [k : {"DDATA"}, seq : Seqs, v : Partial]
Messages   == [k : {"SUB"}] \cup Births \cup NodeData \cup DevBirths \cup DevDeaths
                \cup DevData

Publishers == [ses : Sessions, chan : Seq(Messages), lost : Losses]

Hosts ==
  [online : Nat \cup {None}, node : Seqs, drops : Counts \cup {None},
   device : BOOLEAN, dev : Seqs, table : Catalogs, v : [S -> Values], ask : BOOLEAN]

Tracks == [last : Values, age : Nat, ever : BOOLEAN]

(* The sequence numbers are those below SeqBase.                           *)
LEMMA SeqSteps ==
  ASSUME NEW n \in Seqs
  PROVE  /\ NextSeq(n) \in Seqs
         /\ NextSeq(n) = IF n + 1 = SeqBase THEN 0 ELSE n + 1
         /\ 0 \in Seqs
BY CapsAssumption DEF NextSeq, Seqs

(* Counting a loss keeps the counters in range.                            *)
LEMMA LossTypes ==
  ASSUME NEW lost \in Losses, NEW m \in Messages
  PROVE  Losing(lost, m.k) \in Losses /\ Queueing(lost, m.k) \in Losses
<1>1. m.k \in {"SUB", "NBIRTH", "NDATA", "DBIRTH", "DDEATH", "DDATA"}
  BY DEF Messages, Births, NodeData, DevBirths, DevDeaths, DevData
<1>2. SeqBase \in Nat
  BY CapsAssumption
<1>3. Kind(m.k) \in {"node", "device"}
  BY DEF Kind
<1>4. \A n \in 0..SeqBase : Least(n + 1, SeqBase) \in 0..SeqBase
  BY <1>2 DEF Least
<1>5. QED
  BY <1>1, <1>2, <1>3, <1>4 DEF Losing, Queueing, Losses

(* Queued or dropped, a message leaves the session as it is.               *)
LEMMA SendTypes ==
  ASSUME NEW p \in Publishers, NEW m \in Messages
  PROVE  Send(p, m) \in Publishers /\ Send(p, m).ses = p.ses
<1>1. p.chan \in Seq(Messages) /\ p.lost \in Losses
  BY DEF Publishers
<1>2. Append(p.chan, m) \in Seq(Messages)
  BY <1>1
<1>3. Losing(p.lost, m.k) \in Losses /\ Queueing(p.lost, m.k) \in Losses
  BY <1>1, LossTypes
<1>4. QED
  BY <1>1, <1>2, <1>3 DEF Send, Publishers

(* A handler's publications do not renumber the session.                   *)
SameNumber(x, y) == x.bd = y.bd /\ x.first = y.first

Keeps(p, q) == q \in Publishers /\ SameNumber(q.ses, p.ses)

(* publish_nbirth keeps the session well formed and its number.            *)
LEMMA NbirthTypes ==
  ASSUME NEW p \in Publishers, drops \in Counts
  PROVE  Keeps(p, PublishNbirth(p))
<1> DEFINE q == [p EXCEPT !.ses.node = 0, !.ses.drops = drops]
           m == [k |-> "NBIRTH", seq |-> 0, bd |-> p.ses.bd, drops |-> drops]
<1>1. q \in Publishers /\ SameNumber(q.ses, p.ses)
  <2> DEFINE x == [p.ses EXCEPT !.node = 0, !.drops = drops]
  <2>1. p.ses \in Sessions /\ 0 \in Seqs
    BY CapsAssumption DEF Publishers, Seqs
  <2>2. x \in Sessions /\ SameNumber(x, p.ses)
    BY <2>1 DEF Sessions, SameNumber
  <2>3. q = [p EXCEPT !.ses = x]
    BY DEF Publishers
  <2>4. QED
    BY <2>2, <2>3 DEF Publishers
<1>2. m \in Messages
  BY DEF Publishers, Sessions, Messages, Births
<1> HIDE DEF q, m
<1>3. Send(q, m) \in Publishers /\ Send(q, m).ses = q.ses
  BY <1>1, <1>2, SendTypes
<1>4. PublishNbirth(p) = Send(q, m)
  BY DEF PublishNbirth, q, m
<1>5. QED
  BY <1>1, <1>3, <1>4 DEF Keeps

(* What a birth says of a tag: its cached value, or the default.           *)
LEMMA CachedType ==
  ASSUME NEW x \in Sessions, NEW s \in S
  PROVE  Cached(x, s) \in Values
BY CapsAssumption DEF Cached, Sessions, Cells

(* publish_dbirth keeps the session well formed and its number.            *)
LEMMA DbirthTypes ==
  ASSUME NEW p \in Publishers
  PROVE  Keeps(p, PublishDbirth(p))
<1> DEFINE c == p.ses.catalog
           q == [p EXCEPT !.ses.dev = 0]
           m == [k |-> "DBIRTH", seq |-> 0, table |-> c,
                 v |-> [a \in DOMAIN c |-> Cached(p.ses, c[a])]]
<1>1. CASE c = <<>>
  BY <1>1 DEF PublishDbirth, Keeps, SameNumber
<1>2. CASE c # <<>>
  <2>1. q \in Publishers /\ SameNumber(q.ses, p.ses)
    <3>1. p.ses \in Sessions /\ 0 \in Seqs
      BY CapsAssumption DEF Publishers, Seqs
    <3>2. /\ [p.ses EXCEPT !.dev = 0] \in Sessions
          /\ SameNumber([p.ses EXCEPT !.dev = 0], p.ses)
      BY <3>1 DEF Sessions, SameNumber
    <3>3. q = [p EXCEPT !.ses = [p.ses EXCEPT !.dev = 0]]
      BY DEF Publishers
    <3>4. QED
      BY <3>2, <3>3 DEF Publishers
  <2>2. p.ses \in Sessions /\ c \in Catalogs /\ c \in Seq(S)
    BY CapsAssumption DEF Publishers, Sessions, S
  <2>3. [a \in DOMAIN c |-> Cached(p.ses, c[a])] \in [DOMAIN c -> Values]
    BY <2>2, CachedType
  <2>4. DOMAIN c \in SUBSET Nat
    BY <2>2
  <2>5. m \in Messages
    BY <1>2, <2>2, <2>3, <2>4 DEF Messages, DevBirths, Partial
  <2> HIDE DEF q, m
  <2>6. Send(q, m) \in Publishers /\ Send(q, m).ses = q.ses
    BY <2>1, <2>5, SendTypes
  <2>7. PublishDbirth(p) = Send(q, m)
    BY <1>2 DEF PublishDbirth, q, m, c
  <2>8. QED
    BY <2>1, <2>6, <2>7 DEF Keeps
<1>3. QED
  BY <1>1, <1>2

(* publish_ddeath keeps the session well formed and its number.            *)
LEMMA DdeathTypes ==
  ASSUME NEW p \in Publishers
  PROVE  Keeps(p, PublishDdeath(p))
<1> DEFINE n == NextSeq(p.ses.dev)
           q == [p EXCEPT !.ses.dev = NextSeq(@)]
           m == [k |-> "DDEATH", seq |-> n]
<1>1. n \in Seqs
  BY SeqSteps DEF Publishers, Sessions
<1>2. q = [p EXCEPT !.ses.dev = n]
  BY DEF Publishers, Sessions
<1> HIDE DEF n
<1>3. q \in Publishers /\ SameNumber(q.ses, p.ses)
  BY <1>1, <1>2 DEF Publishers, Sessions, SameNumber
<1>4. m \in Messages
  BY <1>1 DEF Messages, DevDeaths
<1>5. PublishDdeath(p) = Send(q, m)
  BY DEF PublishDdeath, n
<1> HIDE DEF q, m
<1>6. Send(q, m) \in Publishers /\ Send(q, m).ses = q.ses
  BY <1>3, <1>4, SendTypes
<1>7. QED
  BY <1>3, <1>5, <1>6 DEF Keeps

(* The catalog and the cached values of its slots.                         *)
LEMMA CatalogTypes ==
  ASSUME NEW x \in Sessions
  PROVE  /\ \A c \in Catalogs :
              SetCatalog(x, c) \in Sessions /\ SameNumber(SetCatalog(x, c), x)
         /\ \A cs \in Seq(Catalogs) :
              SetCatalogs(x, cs) \in Sessions /\ SameNumber(SetCatalogs(x, cs), x)
<1>1. ASSUME NEW c \in Catalogs
      PROVE  SetCatalog(x, c) \in Sessions /\ SameNumber(SetCatalog(x, c), x)
  BY DEF SetCatalog, Sessions, Cells, SameNumber
<1>2. ASSUME NEW cs \in Seq(Catalogs)
      PROVE  SetCatalogs(x, cs) \in Sessions /\ SameNumber(SetCatalogs(x, cs), x)
  <2>1. cs # <<>> => Last(cs) \in Catalogs
    BY DEF Last
  <2>2. QED
    BY <2>1 DEF SetCatalogs, Sessions, Cells, SameNumber
<1>3. QED
  BY <1>1, <1>2

(* So does replacing the catalog, with its DDEATH and DBIRTH.              *)
LEMMA ReplaceTypes ==
  ASSUME NEW p \in Publishers, NEW c \in Catalogs, born \in BOOLEAN
  PROVE  Keeps(p, ReplaceCatalog(p, c))
<1> DEFINE old == IF born /\ p.ses.catalog # <<>> THEN PublishDdeath(p) ELSE p
           set == [old EXCEPT !.ses = SetCatalog(@, c)]
<1>1. old \in Publishers /\ SameNumber(old.ses, p.ses)
  BY DdeathTypes DEF Keeps, SameNumber
<1>2. ReplaceCatalog(p, c) = IF born THEN PublishDbirth(set) ELSE set
  BY DEF ReplaceCatalog
<1> HIDE DEF old
<1>3. /\ SetCatalog(old.ses, c) \in Sessions
      /\ SameNumber(SetCatalog(old.ses, c), old.ses)
  BY <1>1, CatalogTypes DEF Publishers
<1>4. set \in Publishers /\ SameNumber(set.ses, p.ses)
  BY <1>1, <1>3 DEF Publishers, SameNumber
<1> HIDE DEF set
<1>5. PublishDbirth(set) \in Publishers /\ SameNumber(PublishDbirth(set).ses, set.ses)
  BY <1>4, DbirthTypes DEF Keeps
<1>6. QED
  BY <1>2, <1>4, <1>5 DEF Keeps, SameNumber

(* So does an NDATA.                                                       *)
LEMMA NDataTypes ==
  ASSUME NEW p \in Publishers, drops \in Counts
  PROVE  Keeps(p, NData(p))
<1> DEFINE n == NextSeq(p.ses.node)
           q == [p EXCEPT !.ses.drops = drops, !.ses.node = NextSeq(@)]
           m == [k |-> "NDATA", seq |-> n, drops |-> drops]
<1>1. n \in Seqs
  BY SeqSteps DEF Publishers, Sessions
<1>2. q = [p EXCEPT !.ses.drops = drops, !.ses.node = n]
  BY DEF Publishers, Sessions
<1>3. NData(p) = p \/ NData(p) = Send(q, m)
  BY DEF NData
<1> HIDE DEF n
<1>4. q \in Publishers /\ SameNumber(q.ses, p.ses)
  BY <1>1, <1>2 DEF Publishers, Sessions, SameNumber
<1>5. m \in Messages
  BY <1>1 DEF Messages, NodeData
<1> HIDE DEF q, m
<1>6. Send(q, m) \in Publishers /\ Send(q, m).ses = q.ses
  BY <1>4, <1>5, SendTypes
<1>7. QED
  BY <1>3, <1>4, <1>6 DEF Keeps, SameNumber

-----------------------------------------------------------------------------
(* The samples of a slot in a sequence, and the last of them.              *)
Has(q, s) == \E n \in DOMAIN q : q[n].slot = s

IsLatest(q, s, v) ==
  \E n \in DOMAIN q : /\ q[n].slot = s /\ q[n].v = v
                      /\ \A k \in DOMAIN q : q[k].slot = s => k <= n

Chosen(q, s) ==
  LET of == {n \in DOMAIN q : q[n].slot = s}
  IN q[CHOOSE n \in of : \A k \in of : k <= n].v

(* There is at most one latest value, and it is the one that is chosen.    *)
LEMMA LatestIs ==
  ASSUME NEW q \in Seq(Samples), NEW s, NEW v, IsLatest(q, s, v)
  PROVE  /\ Has(q, s) /\ Chosen(q, s) = v
         /\ \A w : IsLatest(q, s, w) => w = v
<1> DEFINE of == {n \in DOMAIN q : q[n].slot = s}
<1>1. PICK n \in of : q[n].v = v /\ \A k \in of : k <= n
  BY DEF IsLatest
<1>2. \A j \in of : (\A k \in of : k <= j) => j = n
  BY <1>1
<1>3. (CHOOSE j \in of : \A k \in of : k <= j) = n
  BY <1>1, <1>2
<1>4. QED
  BY <1>1, <1>2, <1>3 DEF Has, Chosen, IsLatest

(* Appending a sample makes it the latest of its slot and leaves the other *)
(* slots alone.                                                            *)
LEMMA LatestAppend ==
  ASSUME NEW q \in Seq(Samples), NEW e \in Samples
  PROVE  /\ IsLatest(Append(q, e), e.slot, e.v)
         /\ \A s : s # e.slot => (Has(Append(q, e), s) <=> Has(q, s))
         /\ \A s, v : s # e.slot => (IsLatest(Append(q, e), s, v) <=> IsLatest(q, s, v))
<1>1. /\ DOMAIN q = 1..Len(q) /\ Len(q) \in Nat
      /\ DOMAIN Append(q, e) = 1..(Len(q) + 1)
      /\ Append(q, e)[Len(q) + 1] = e
      /\ \A n \in 1..Len(q) : Append(q, e)[n] = q[n]
  OBVIOUS
<1>2. QED
  BY <1>1 DEF IsLatest, Has

(* A sample that moves from one end of the ring to the other sequence, or  *)
(* is added, leaves the rest in order.                                     *)
LEMMA ConcatAppend ==
  ASSUME NEW a \in Seq(Samples), NEW b \in Seq(Samples), NEW e \in Samples
  PROVE  a \o Append(b, e) = Append(a \o b, e)
OBVIOUS

(* Receiving a sample from the ring leaves the order of all samples as it  *)
(* was.                                                                    *)
LEMMA ConcatMove ==
  ASSUME NEW a \in Seq(Samples), NEW b \in Seq(Samples), b # <<>>
  PROVE  Append(a, Head(b)) \o Tail(b) = a \o b
OBVIOUS

(* Every slot that has samples has a latest one.                           *)
Ordered(q) == \A s \in S : Has(q, s) => \E v \in Values : IsLatest(q, s, v)

(* A DDATA carries, for the known slots of the catalog, the latest values. *)
Known(c, q) == {s \in Range(c) : Has(q, s)}

DataSession(x, q) ==
  [x EXCEPT !.device = [s \in S |-> IF s \in Known(x.catalog, q) THEN Chosen(q, s)
                                    ELSE x.device[s]],
            !.dev = NextSeq(x.dev)]

DataMessage(x, q) ==
  [k |-> "DDATA", seq |-> NextSeq(x.dev),
   v |-> [a \in {n \in DOMAIN x.catalog : x.catalog[n] \in Known(x.catalog, q)} |->
            Chosen(q, x.catalog[a])]]

(* What a drain publishes, in the terms above.                             *)
LEMMA DDataIs ==
  ASSUME NEW p \in Publishers, NEW q \in Seq(Samples)
  PROVE  DData(p, q) = IF Known(p.ses.catalog, q) = {} THEN p
                       ELSE Send([p EXCEPT !.ses = DataSession(p.ses, q)],
                                 DataMessage(p.ses, q))
<1> DEFINE c == p.ses.catalog
           of(s) == {n \in DOMAIN q : q[n].slot = s}
           latest(s) == q[CHOOSE n \in of(s) : \A k \in of(s) : k <= n].v
           known == {s \in Range(c) : of(s) # {}}
           seq == Advance(p.ses)
           edit == [p EXCEPT !.ses.device = [s \in S |-> IF s \in known THEN latest(s) ELSE @[s]],
                             !.ses.dev = seq]
           message == [k |-> "DDATA", seq |-> seq,
                       v |-> [a \in {n \in DOMAIN c : c[n] \in known} |-> latest(c[a])]]
<1>1. DData(p, q) = IF known = {} THEN p ELSE Send(edit, message)
  BY DEF DData
<1>2. known = Known(c, q)
  BY DEF Known, Has
<1>3. \A s : latest(s) = Chosen(q, s)
  BY DEF Chosen
<1>4. seq = NextSeq(p.ses.dev)
  BY DEF Advance
<1>5. message = DataMessage(p.ses, q)
  BY <1>2, <1>3, <1>4 DEF DataMessage
<1>6. edit = [p EXCEPT !.ses = DataSession(p.ses, q)]
  <2> DEFINE f == [s \in S |-> IF s \in known THEN latest(s) ELSE p.ses.device[s]]
  <2>1. edit = [p EXCEPT !.ses.device = f, !.ses.dev = seq]
    BY DEF Publishers, Sessions
  <2> HIDE DEF known, latest, seq, edit
  <2>2. f = [s \in S |-> IF s \in Known(c, q) THEN Chosen(q, s) ELSE p.ses.device[s]]
    BY <1>2, <1>3
  <2> HIDE DEF f
  <2>3. edit = [p EXCEPT !.ses = [p.ses EXCEPT !.device = f, !.dev = seq]]
    BY <2>1 DEF Publishers, Sessions
  <2>4. QED
    BY <1>4, <2>2, <2>3 DEF DataSession
<1> HIDE DEF known, message, edit
<1>7. QED
  BY <1>1, <1>2, <1>5, <1>6

(* The values a DDATA carries and caches are values of slots.              *)
LEMMA DataTypes ==
  ASSUME NEW x \in Sessions, NEW q \in Seq(Samples), Ordered(q)
  PROVE  /\ DataSession(x, q) \in Sessions /\ SameNumber(DataSession(x, q), x)
         /\ DataMessage(x, q) \in Messages
<1>1. x.catalog \in Seq(S)
  BY CapsAssumption DEF Sessions, S
<1>2. Range(x.catalog) \subseteq S
  BY <1>1 DEF Range
<1>3. \A s \in Known(x.catalog, q) : s \in S /\ Chosen(q, s) \in Values
  BY <1>2, LatestIs DEF Known, Ordered
<1>4. NextSeq(x.dev) \in Seqs
  BY SeqSteps DEF Sessions
<1>5. [s \in S |-> IF s \in Known(x.catalog, q) THEN Chosen(q, s) ELSE x.device[s]]
        \in [S -> Cells]
  BY <1>3 DEF Sessions, Cells
<1>6. DataSession(x, q) \in Sessions /\ SameNumber(DataSession(x, q), x)
  BY <1>4, <1>5 DEF DataSession, Sessions, SameNumber
<1> DEFINE D == {n \in DOMAIN x.catalog : x.catalog[n] \in Known(x.catalog, q)}
<1>7. D \in SUBSET Nat
  BY <1>1
<1>8. [a \in D |-> Chosen(q, x.catalog[a])] \in [D -> Values]
  BY <1>3
<1>9. DataMessage(x, q) \in Messages
  BY <1>4, <1>7, <1>8 DEF DataMessage, Messages, DevData, Partial
<1>10. QED
  BY <1>6, <1>9

(* A drain keeps the session well formed and its number.                   *)
LEMMA DDataTypes ==
  ASSUME NEW p \in Publishers, NEW q \in Seq(Samples), Ordered(q)
  PROVE  Keeps(p, DData(p, q))
<1> DEFINE r == [p EXCEPT !.ses = DataSession(p.ses, q)]
           m == DataMessage(p.ses, q)
<1>1. p.ses \in Sessions
  BY DEF Publishers
<1>2. r \in Publishers /\ SameNumber(r.ses, p.ses) /\ m \in Messages
  BY <1>1, DataTypes DEF Publishers
<1>3. DData(p, q) = p \/ DData(p, q) = Send(r, m)
  BY DDataIs
<1> HIDE DEF r, m
<1>4. Send(r, m) \in Publishers /\ Send(r, m).ses = r.ses
  BY <1>2, SendTypes
<1>5. QED
  BY <1>2, <1>3, <1>4 DEF Keeps, SameNumber

(* So does a rebirth.                                                      *)
LEMMA RebirthTypes ==
  ASSUME NEW p \in Publishers, drops \in Counts
  PROVE  Keeps(p, Rebirth(p))
<1> DEFINE q == [p EXCEPT !.ses = OnRebirth(@)]
           n == PublishNbirth(q)
<1>1. p.ses \in Sessions /\ 0 \in Seqs
  BY CapsAssumption DEF Publishers, Seqs
<1>2. OnRebirth(p.ses) \in Sessions /\ SameNumber(OnRebirth(p.ses), p.ses)
  BY <1>1 DEF OnRebirth, Sessions, SameNumber
<1>3. q \in Publishers /\ SameNumber(q.ses, p.ses)
  BY <1>2 DEF Publishers
<1> HIDE DEF q
<1>4. n \in Publishers /\ SameNumber(n.ses, q.ses)
  BY <1>3, NbirthTypes DEF Keeps
<1> HIDE DEF n
<1>5. PublishDbirth(n) \in Publishers /\ SameNumber(PublishDbirth(n).ses, n.ses)
  BY <1>4, DbirthTypes DEF Keeps
<1>6. Rebirth(p) = PublishDbirth(n)
  BY DEF Rebirth, n, q
<1>7. QED
  BY <1>3, <1>4, <1>5, <1>6 DEF Keeps, SameNumber

-----------------------------------------------------------------------------
(* The inductive invariant, in parts.                                      *)
BirthNotes == [will : Nat, bd : Nat, n : Nat]

TypeInv ==
  /\ image \in [S -> Values]
  /\ scan \in [next : 1..Len(Slots), track : [S -> Tracks]]
  /\ ring \in Seq(Samples) /\ drops \in Counts
  /\ queue \in Seq(Catalogs)
  /\ work \in [pc : {"top", "poll", "recv"}, samples : Seq(Samples),
               live : BOOLEAN, accepted : BOOLEAN]
  /\ ses \in Sessions /\ born \in BOOLEAN /\ chan \in Seq(Messages)
  /\ broker # <<>> => broker[1] \in Nat
  /\ host \in Hosts
  /\ hist \in [taken : [S -> Cells], births : SUBSET BirthNotes, lost : Losses]
  /\ IsFiniteSet(hist.births)

(* born is session_live of the connection in use, and nothing is queued    *)
(* before the births.                                                      *)
BornInv ==
  /\ born <=> work.live /\ work.pc # "top"
  /\ born => work.accepted
  /\ ~born => chan = <<>>
  /\ work.pc = "recv" => born

(* The broker holds the will of the session in use, and a session that is  *)
(* not born yet has a greater number than those that were.                 *)
NumberInv ==
  /\ ~ses.first
  /\ work.pc # "top" /\ work.accepted => broker = <<ses.bd>>
  /\ \A x \in hist.births : /\ x.will = x.bd /\ x.bd <= ses.bd
                            /\ ~born => x.bd < ses.bd
  /\ \A x, y \in hist.births : x.n # y.n => x.bd # y.bd

(* What hist.taken says is the latest of the samples being drained; and,   *)
(* while nothing is dropped, the scan's record of a slot is the latest     *)
(* sample drained, in the ring, or else taken before.                      *)
SampleInv ==
  /\ \A s \in S : Has(work.samples, s) =>
       hist.taken[s] \in Values /\ IsLatest(work.samples, s, hist.taken[s])
  /\ drops = 0 => \A s \in S : scan.track[s].ever =>
       IF Has(work.samples \o ring, s)
       THEN IsLatest(work.samples \o ring, s, scan.track[s].last)
       ELSE hist.taken[s] = scan.track[s].last

(* What the host knows, but for its wish for a rebirth.                    *)
Calm(h) == [h EXCEPT !.ask = FALSE]

(* b is n sequence numbers after a.                                        *)
Apart(a, n, b) == b = a + n \/ b + SeqBase = a + n

NodeClaim(x, lost, h) ==
  lost.node < SeqBase =>
    Apart(h.node, lost.node, x.node) /\ (lost.node = 0 => h.drops = x.drops)

DeviceClaim(x, lost, h) ==
  lost.device < SeqBase /\ h.device =>
    /\ Apart(h.dev, lost.device, x.dev) /\ h.table # <<>>
    /\ lost.device = 0 => /\ h.table = x.catalog
                          /\ \A s \in Range(x.catalog) : h.v[s] = Cached(x, s)

(* A host that has everything that was queued is behind the session x by   *)
(* the messages lost since, and knows all when there are none.             *)
Claim(x, lost, h) == NodeClaim(x, lost, h) /\ DeviceClaim(x, lost, h)

(* The host's states as it takes the messages in ch, one after the other.  *)
Replays(st, h, ch) ==
  /\ st \in [1..(Len(ch) + 1) -> Hosts]
  /\ st[1] = Calm(h)
  /\ \A i \in 1..Len(ch) : st[i + 1] = Calm(HostTakes(st[i], ch[i]))

Refuses(st, ch) == \E i \in 1..Len(ch) : HostTakes(st[i], ch[i]).ask

Follows(x, lost, ch, h) ==
  \E st : /\ Replays(st, h, ch)
          /\ h.ask \/ Refuses(st, ch) \/ Claim(x, lost, st[Len(ch) + 1])

(* The host asks for a rebirth, or will when what is on its way arrives,   *)
(* or will then know what the session knows.                               *)
GapInv == born => Follows(ses, hist.lost, chan, host)

TelemetryInv == TypeInv /\ BornInv /\ NumberInv /\ SampleInv /\ GapInv

-----------------------------------------------------------------------------
(* The host.                                                               *)

(* Partial functions map into the values.                                  *)
LEMMA PartialValues ==
  ASSUME NEW f \in Partial
  PROVE  DOMAIN f \subseteq Nat /\ \A a \in DOMAIN f : f[a] \in Values
BY DEF Partial

(* Every message leaves the host well formed, those it refuses too.        *)
LEMMA TakesTypes ==
  ASSUME NEW h \in Hosts, NEW m \in Messages
  PROVE  HostTakes(h, m) \in Hosts
<1>0. 0 \in Seqs
  BY CapsAssumption DEF Seqs
<1>1. CASE m \in [k : {"SUB"}]
  BY <1>1 DEF HostTakes
<1>2. CASE m \in Births
  BY <1>0, <1>2 DEF HostTakes, Births, Hosts
<1>3. CASE m \in NodeData
  BY <1>3 DEF HostTakes, NodeData, Hosts
<1>4. CASE m \in DevBirths
  <2> DEFINE at(s) == CHOOSE a \in DOMAIN m.table : m.table[a] = s
             v == [s \in S |-> IF s \in Range(m.table) THEN m.v[at(s)] ELSE 0]
  <2>1. m.k = "DBIRTH" /\ m.v \in Partial /\ DOMAIN m.v = DOMAIN m.table
        /\ m.table \in Catalogs
    BY <1>4 DEF DevBirths
  <2>2. \A s \in Range(m.table) : at(s) \in DOMAIN m.table
    BY DEF Range
  <2>3. v \in [S -> Values]
    BY <2>1, <2>2, PartialValues, CapsAssumption
  <2> HIDE DEF v
  <2>4. HostTakes(h, m) = [h EXCEPT !.device = TRUE, !.dev = 0, !.table = m.table, !.v = v]
    BY <2>1 DEF HostTakes, v
  <2>5. QED
    BY <1>0, <2>1, <2>3, <2>4 DEF Hosts
<1>5. CASE m \in DevDeaths
  BY <1>5 DEF HostTakes, DevDeaths, Hosts
<1>6. CASE m \in DevData
  <2> DEFINE at(s) == CHOOSE a \in DOMAIN m.v : h.table[a] = s
             v == [s \in S |-> IF \E a \in DOMAIN m.v : h.table[a] = s
                               THEN m.v[at(s)] ELSE h.v[s]]
  <2>1. m.k = "DDATA" /\ m.v \in Partial /\ m.seq \in Seqs
    BY <1>6 DEF DevData
  <2>2. \A s \in S : (\E a \in DOMAIN m.v : h.table[a] = s) => m.v[at(s)] \in Values
    BY <2>1, PartialValues
  <2>3. v \in [S -> Values]
    BY <2>2 DEF Hosts
  <2>4. \/ HostTakes(h, m) = [h EXCEPT !.ask = TRUE, !.device = FALSE]
        \/ HostTakes(h, m) = [h EXCEPT !.dev = m.seq, !.v = v]
    BY <2>1 DEF HostTakes, Hosts
  <2> HIDE DEF v
  <2>5. QED
    BY <2>1, <2>3, <2>4 DEF Hosts
<1>7. QED
  BY <1>1, <1>2, <1>3, <1>4, <1>5, <1>6 DEF Messages

(* What the host takes in does not depend on its wish for a rebirth, which *)
(* only a rebirth request withdraws.                                       *)
LEMMA TakesCalm ==
  ASSUME NEW h \in Hosts, NEW m \in Messages
  PROVE  /\ Calm(h) \in Hosts
         /\ Calm(HostTakes(h, m)) = Calm(HostTakes(Calm(h), m))
         /\ HostTakes(h, m).ask <=> h.ask \/ HostTakes(Calm(h), m).ask
<1> DEFINE g == Calm(h)
<1>1. /\ g \in Hosts /\ ~g.ask /\ g.online = h.online /\ g.node = h.node
      /\ g.drops = h.drops /\ g.device = h.device /\ g.dev = h.dev
      /\ g.table = h.table /\ g.v = h.v
  BY DEF Calm, Hosts
<1>2. CASE m \in [k : {"SUB"}]
  BY <1>2 DEF HostTakes, Calm, Hosts
<1>3. CASE m \in Births
  BY <1>3 DEF HostTakes, Births, Hosts, Calm
<1>4. CASE m \in NodeData
  BY <1>4 DEF HostTakes, NodeData, Hosts, Calm
<1>5. CASE m \in DevBirths
  BY <1>5 DEF HostTakes, DevBirths, Hosts, Calm
<1>6. CASE m \in DevDeaths
  BY <1>6 DEF HostTakes, DevDeaths, Hosts, Calm
<1>7. CASE m \in DevData
  <2>1. m.k = "DDATA"
    BY <1>7 DEF DevData
  <2> DEFINE bad == ~h.device \/ m.seq # NextSeq(h.dev) \/ ~(DOMAIN m.v \subseteq DOMAIN h.table)
             v == [s \in S |-> IF \E a \in DOMAIN m.v : h.table[a] = s
                               THEN m.v[CHOOSE a \in DOMAIN m.v : h.table[a] = s]
                               ELSE h.v[s]]
  <2>2. HostTakes(h, m) = IF bad THEN [h EXCEPT !.ask = TRUE, !.device = FALSE]
                          ELSE [h EXCEPT !.dev = m.seq, !.v = v]
    BY <2>1 DEF HostTakes, Hosts
  <2>3. HostTakes(g, m) = IF bad THEN [g EXCEPT !.ask = TRUE, !.device = FALSE]
                          ELSE [g EXCEPT !.dev = m.seq, !.v = v]
    <3> HIDE DEF g
    <3>1. QED
      BY <1>1, <2>1 DEF HostTakes, Hosts
  <2> HIDE DEF bad, v
  <2>4. QED
    BY <1>1, <2>2, <2>3 DEF Calm, Hosts
<1>8. QED
  BY <1>1, <1>2, <1>3, <1>4, <1>5, <1>6, <1>7 DEF Messages

-----------------------------------------------------------------------------
(* The parts of the invariant that do not follow the messages.             *)
BaseInv == TypeInv /\ BornInv /\ NumberInv /\ SampleInv

(* The worker starts without a client and with an empty ring.              *)
LEMMA InitBase == Init => BaseInv
<1>1. SUFFICES ASSUME Init PROVE BaseInv
  OBVIOUS
<1>2. /\ Slots \in Seq(S) /\ Len(Slots) \in Nat /\ Len(Slots) >= 1
      /\ 0 \in Values /\ 0 \in Seqs /\ <<>> \in Catalogs /\ 0 \in Counts
      /\ SeqBase \in Nat
  BY CapsAssumption DEF S, Seqs, Counts
<1>3. image \in [S -> Values] /\ ring \in Seq(Samples) /\ drops \in Counts
  BY <1>1, <1>2 DEF Init
<1>4. scan \in [next : 1..Len(Slots), track : [S -> Tracks]]
  BY <1>1, <1>2 DEF Init, Tracks
<1>5. queue \in Seq(Catalogs)
  <2>1. queue = <<>> \/ \E c \in Catalogs : queue = <<c>>
    BY <1>1 DEF Init
  <2>2. \A c \in Catalogs : <<c>> \in Seq(Catalogs)
    OBVIOUS
  <2>3. <<>> \in Seq(Catalogs)
    OBVIOUS
  <2>4. QED
    BY <2>1, <2>2, <2>3
<1>6. work \in [pc : {"top", "poll", "recv"}, samples : Seq(Samples),
                live : BOOLEAN, accepted : BOOLEAN]
  BY <1>1 DEF Init
<1>7. ses \in Sessions /\ ~ses.first
  BY <1>1, <1>2 DEF Init, PrepareConnect, Sessions, Cells
<1>8. host \in Hosts
  BY <1>1, <1>2 DEF Init, Hosts
<1>9. /\ hist \in [taken : [S -> Cells], births : SUBSET BirthNotes, lost : Losses]
      /\ hist.births = {} /\ IsFiniteSet(hist.births)
  <2>1. hist = [taken |-> [s \in S |-> None], births |-> {},
                lost |-> [node |-> 0, device |-> 0]]
    BY <1>1 DEF Init
  <2>2. [node |-> 0, device |-> 0] \in Losses
    BY <1>2 DEF Losses
  <2>3. [s \in S |-> None] \in [S -> Cells]
    BY DEF Cells
  <2>4. {} \in SUBSET BirthNotes /\ IsFiniteSet({})
    BY FS_EmptySet
  <2>5. QED
    BY <2>1, <2>2, <2>3, <2>4
<1>10. TypeInv
  <2>1. born = FALSE /\ chan = <<>> /\ broker = <<>>
    BY <1>1 DEF Init
  <2>2. chan \in Seq(Messages)
    BY <2>1
  <2>3. QED
    BY <1>3, <1>4, <1>5, <1>6, <1>7, <1>8, <1>9, <2>1, <2>2 DEF TypeInv
<1>11. BornInv /\ NumberInv
  BY <1>1, <1>7, <1>9 DEF Init, BornInv, NumberInv
<1>12. SampleInv
  <2>1. \A s : ~Has(<<>>, s)
    BY DEF Has
  <2>2. work.samples = <<>> /\ \A s \in S : ~scan.track[s].ever
    BY <1>1 DEF Init
  <2>3. QED
    BY <2>1, <2>2 DEF SampleInv
<1>13. QED
  BY <1>10, <1>11, <1>12 DEF BaseInv

(* The scan thread pushes at the end of the ring, drops at its head, and   *)
(* counts what it drops.                                                   *)
LEMMA ScanBase ==
  ASSUME BaseInv, Scan
  PROVE  BaseInv'
<1> USE DEF BaseInv
<1>1. PICK ticks \in 0..1, contended \in BOOLEAN : PublishTelemetry(ticks, contended)
  BY DEF Scan
<1> DEFINE s == Slots[scan.next]
           v == image[s]
           aged == [t \in S |-> [scan.track[t] EXCEPT !.age =
                     Least(@ + ticks, IF t \in Analog THEN AnalogPeriod ELSE DigitalCos)]]
           e == [slot |-> s, v |-> v]
           pushed == PushDropOldest(e, contended)
           due == ShouldPublish(aged[s], s, v)
<1>2. /\ Slots \in Seq(S) /\ Len(Slots) \in Nat /\ Len(Slots) >= 1
      /\ MaxDrops \in Nat /\ MaxDrops # 0
  BY CapsAssumption DEF S
<1>3. s \in S /\ v \in Values /\ e \in Samples
  BY <1>2 DEF TypeInv, Samples
<1>4. /\ ring' = IF due THEN pushed.ring ELSE ring
      /\ drops' = IF due THEN pushed.drops ELSE drops
      /\ scan' = [next |-> (scan.next % Len(Slots)) + 1,
                  track |-> IF due THEN [aged EXCEPT ![s] = Marked(@, v)] ELSE aged]
      /\ UNCHANGED <<image, queue, work, ses, born, chan, broker, host, hist>>
  BY <1>1 DEF PublishTelemetry
<1>5. \A t \in S : /\ aged[t] \in Tracks /\ aged[t].last = scan.track[t].last
                   /\ aged[t].ever = scan.track[t].ever
  <2>1. SUFFICES ASSUME NEW t \in S
                 PROVE  /\ aged[t] \in Tracks /\ aged[t].last = scan.track[t].last
                        /\ aged[t].ever = scan.track[t].ever
    OBVIOUS
  <2>2. scan.track[t] \in Tracks
    BY DEF TypeInv
  <2>3. \A n \in Nat : Least(n + ticks, IF t \in Analog THEN AnalogPeriod ELSE DigitalCos) \in Nat
    BY CapsAssumption DEF Least
  <2>4. QED
    BY <2>2, <2>3 DEF Tracks
<1> HIDE DEF aged, s, v, due
<1>6. Marked(aged[s], v) = [last |-> v, age |-> 0, ever |-> TRUE]
  BY DEF Marked
<1>7. aged \in [S -> Tracks] /\ DOMAIN aged = S
  BY <1>5 DEF aged
<1>8. /\ scan'.track \in [S -> Tracks]
      /\ \A t \in S : \/ /\ due /\ t = s
                         /\ scan'.track[t].last = v /\ scan'.track[t].ever
                      \/ /\ ~(due /\ t = s)
                         /\ scan'.track[t].last = scan.track[t].last
                         /\ scan'.track[t].ever = scan.track[t].ever
  <2>1. scan'.track = IF due THEN [aged EXCEPT ![s] = Marked(aged[s], v)] ELSE aged
    BY <1>3, <1>4, <1>7
  <2>2. Marked(aged[s], v) \in Tracks
    BY <1>3, <1>6 DEF Tracks
  <2>3. CASE due
    <3>1. /\ scan'.track[s] = Marked(aged[s], v)
          /\ \A t \in S : t # s => scan'.track[t] = aged[t]
          /\ scan'.track \in [S -> Tracks]
      BY <1>3, <1>7, <2>1, <2>2, <2>3
    <3>2. QED
      BY <1>5, <1>6, <2>3, <3>1
  <2>4. CASE ~due
    BY <1>5, <1>7, <2>1, <2>4
  <2>5. QED
    BY <2>3, <2>4
<1>9. scan' \in [next : 1..Len(Slots), track : [S -> Tracks]]
  <2>1. (scan.next % Len(Slots)) + 1 \in 1..Len(Slots)
    BY <1>2 DEF TypeInv
  <2>2. scan'.next = (scan.next % Len(Slots)) + 1
    BY <1>4
  <2>3. DOMAIN scan' = {"next", "track"}
    BY <1>4
  <2>4. QED
    BY <1>4, <1>8, <2>1
<1>10. /\ pushed.ring \in Seq(Samples) /\ pushed.drops \in Counts
       /\ pushed.drops = 0 => drops = 0 /\ pushed.ring = Append(ring, e)
  <2>1. /\ ring \in Seq(Samples) /\ drops \in Counts
        /\ Len(ring) >= RingCap => Tail(ring) \in Seq(Samples)
    <3>1. ring \in Seq(Samples) /\ drops \in Counts
      BY DEF TypeInv
    <3>2. Len(ring) >= RingCap => ring # <<>>
      BY <3>1, CapsAssumption
    <3>3. QED
      BY <3>1, <3>2
  <2>2. Least(drops + 1, MaxDrops) \in Counts /\ Least(drops + 1, MaxDrops) # 0
    BY <1>2, <2>1 DEF Least, Counts
  <2>3. QED
    BY <1>3, <2>1, <2>2 DEF PushDropOldest
<1> HIDE DEF pushed, e
<1>11. TypeInv' /\ BornInv' /\ NumberInv'
  BY <1>4, <1>9, <1>10 DEF TypeInv, BornInv, NumberInv
<1>12. SampleInv'
  <2> DEFINE all == work.samples \o ring
  <2>1. work.samples \in Seq(Samples) /\ ring \in Seq(Samples) /\ all \in Seq(Samples)
    BY DEF TypeInv
  <2>2. ASSUME drops' = 0, NEW t \in S, scan'.track[t].ever
        PROVE  IF Has((work.samples \o ring)', t)
               THEN IsLatest((work.samples \o ring)', t, scan'.track[t].last)
               ELSE hist.taken[t] = scan'.track[t].last
    <3>1. CASE due
      <4>1. drops = 0 /\ ring' = Append(ring, e)
        BY <1>4, <1>10, <2>2, <3>1
      <4>2. (work.samples \o ring)' = Append(all, e)
        <5>1. work.samples \o Append(ring, e) = Append(all, e)
          BY <1>3, <2>1, ConcatAppend
        <5>2. QED
          BY <1>4, <4>1, <5>1
      <4>3. e.slot = s /\ e.v = v
        BY DEF e
      <4> HIDE DEF all
      <4>4. CASE t = s
        <5>1. IsLatest(Append(all, e), t, v)
          BY <1>3, <2>1, <4>3, <4>4, LatestAppend
        <5>2. scan'.track[t].last = v
          BY <1>8, <3>1, <4>4
        <5>3. Has(Append(all, e), t)
          BY <5>1 DEF IsLatest, Has
        <5>4. QED
          BY <4>2, <5>1, <5>2, <5>3
      <4>5. CASE t # s
        <5>1. scan'.track[t].last = scan.track[t].last /\ scan.track[t].ever
          BY <1>8, <2>2, <4>5
        <5>2. IF Has(all, t) THEN IsLatest(all, t, scan.track[t].last)
              ELSE hist.taken[t] = scan.track[t].last
          BY <4>1, <5>1 DEF SampleInv, all
        <5>3. /\ Has(Append(all, e), t) <=> Has(all, t)
              /\ IsLatest(Append(all, e), t, scan.track[t].last)
                   <=> IsLatest(all, t, scan.track[t].last)
          BY <1>3, <2>1, <4>3, <4>5, LatestAppend
        <5>4. QED
          BY <4>2, <5>1, <5>2, <5>3
      <4>6. QED
        BY <4>4, <4>5
    <3>2. CASE ~due
      BY <1>4, <1>8, <2>2, <3>2 DEF SampleInv
    <3>3. QED
      BY <3>1, <3>2
  <2>3. \A t \in S : Has(work'.samples, t) =>
          hist'.taken[t] \in Values /\ IsLatest(work'.samples, t, hist'.taken[t])
    BY <1>4 DEF SampleInv
  <2>4. QED
    BY <1>4, <2>2, <2>3 DEF SampleInv
<1>13. QED
  BY <1>11, <1>12

(* The publisher's part of the state.                                      *)
LEMMA PublisherType ==
  ASSUME TypeInv
  PROVE  Publisher \in Publishers /\ Publisher.ses = ses /\ drops \in Counts
BY DEF TypeInv, Publisher, Publishers

(* What a handler that publishes leaves alone.                             *)
LEMMA PublishesTypes ==
  ASSUME TypeInv, NEW p, Keeps(Publisher, p), Publishes(p)
  PROVE  /\ ses' \in Sessions /\ SameNumber(ses', ses)
         /\ chan' \in Seq(Messages)
         /\ hist' \in [taken : [S -> Cells], births : SUBSET BirthNotes, lost : Losses]
         /\ hist'.taken = hist.taken /\ hist'.births = hist.births
         /\ hist'.lost = p.lost
<1>1. Publisher.ses = ses
  BY PublisherType
<1>2. p.ses \in Sessions /\ p.chan \in Seq(Messages) /\ p.lost \in Losses
  BY DEF Keeps, Publishers
<1>3. QED
  BY <1>1, <1>2 DEF Publishes, Keeps, TypeInv

(* A will is due: the host takes the session for dead.                     *)
LEMMA OfflineType ==
  ASSUME NEW h \in Hosts, NEW b
  PROVE  HostOffline(h, b) \in Hosts
BY DEF HostOffline, Hosts

(* prepare_connect numbers the next session.                               *)
LEMMA ConnectTypes ==
  ASSUME NEW x \in Sessions, ~x.first
  PROVE  /\ PrepareConnect(x) \in Sessions /\ ~PrepareConnect(x).first
         /\ PrepareConnect(x).bd = x.bd + 1
<1>1. 0 \in Seqs
  BY CapsAssumption DEF Seqs
<1>2. x.bd + 1 \in Nat
  BY DEF Sessions
<1>3. PrepareConnect(x) = [x EXCEPT !.bd = x.bd + 1, !.first = FALSE, !.node = 0,
                                    !.dev = 0, !.drops = None]
  BY DEF PrepareConnect, Sessions
<1>4. QED
  BY <1>1, <1>2, <1>3 DEF Sessions

(* The connection: a new client, the broker's answer, the births, a        *)
(* failure.                                                                *)
LEMMA ConnectBase ==
  ASSUME BaseInv, NewClient \/ Accept \/ OnConnected \/ PollFails \/ BrokerTimesOut
  PROVE  BaseInv'
<1> USE DEF BaseInv
<1>1. CASE NewClient
  <2>1. ses' \in Sessions /\ SameNumber(ses', ses)
    BY <1>1, CatalogTypes DEF NewClient, TypeInv
  <2>2. /\ work' \in [pc : {"top", "poll", "recv"}, samples : Seq(Samples),
                      live : BOOLEAN, accepted : BOOLEAN]
        /\ work'.samples = work.samples /\ work'.pc = "poll"
        /\ ~work'.live /\ ~work'.accepted
    BY <1>1 DEF NewClient, TypeInv
  <2>3. /\ queue' = <<>> /\ chan' = <<>> /\ born' = FALSE /\ ~born
        /\ UNCHANGED <<image, scan, ring, drops, broker, host, hist>>
    BY <1>1 DEF NewClient, BornInv
  <2>4. queue' \in Seq(Catalogs) /\ chan' \in Seq(Messages)
    BY <2>3
  <2>5. TypeInv'
    BY <2>1, <2>2, <2>3, <2>4 DEF TypeInv
  <2>6. BornInv' /\ NumberInv'
    BY <2>1, <2>2, <2>3 DEF BornInv, NumberInv, SameNumber
  <2>7. SampleInv'
    BY <2>2, <2>3 DEF SampleInv
  <2>8. QED
    BY <2>5, <2>6, <2>7
<1>2. CASE Accept
  <2>1. host' \in Hosts
    BY <1>2, OfflineType DEF Accept, TypeInv
  <2>2. broker' = <<ses.bd>> /\ broker'[1] \in Nat
    BY <1>2 DEF Accept, TypeInv, Sessions
  <2>3. /\ work' \in [pc : {"top", "poll", "recv"}, samples : Seq(Samples),
                      live : BOOLEAN, accepted : BOOLEAN]
        /\ work'.samples = work.samples /\ work'.pc = work.pc
        /\ work'.live = work.live /\ work'.accepted
    BY <1>2 DEF Accept, TypeInv
  <2>4. UNCHANGED <<image, scan, ring, drops, queue, ses, born, chan, hist>>
    BY <1>2 DEF Accept
  <2>5. TypeInv'
    BY <2>1, <2>2, <2>3, <2>4 DEF TypeInv
  <2>6. BornInv' /\ NumberInv'
    BY <2>2, <2>3, <2>4 DEF BornInv, NumberInv
  <2>7. SampleInv'
    BY <2>3, <2>4 DEF SampleInv
  <2>8. QED
    BY <2>5, <2>6, <2>7
<1>3. CASE OnConnected
  <2> DEFINE sub == Send(Publisher, [k |-> "SUB"])
             n == PublishNbirth(sub)
             p == PublishDbirth(n)
             x == [will |-> broker[1], bd |-> ses.bd, n |-> Cardinality(hist.births)]
  <2>1. sub \in Publishers /\ sub.ses = ses
    <3>1. [k |-> "SUB"] \in Messages
      BY DEF Messages
    <3>2. QED
      BY <3>1, PublisherType, SendTypes
  <2> HIDE DEF sub
  <2>2. n \in Publishers /\ SameNumber(n.ses, ses)
    BY <2>1, PublisherType, NbirthTypes DEF Keeps
  <2> HIDE DEF n
  <2>3. p \in Publishers /\ SameNumber(p.ses, n.ses)
    BY <2>2, DbirthTypes DEF Keeps
  <2>4. /\ ses' = p.ses /\ chan' = p.chan
        /\ hist' = [hist EXCEPT !.births = @ \cup
                      {[will |-> broker[1], bd |-> ses.bd, n |-> Cardinality(@)]},
                                !.lost = p.lost]
        /\ born' = TRUE /\ work' = [work EXCEPT !.live = TRUE]
        /\ UNCHANGED <<image, scan, ring, drops, queue, broker, host>>
        /\ work.pc = "poll" /\ work.accepted /\ ~work.live
    BY <1>3 DEF OnConnected, sub, n
  <2> HIDE DEF p
  <2>5. ses' \in Sessions /\ chan' \in Seq(Messages) /\ SameNumber(ses', ses)
    BY <2>2, <2>3, <2>4 DEF Publishers, SameNumber
  <2>6. broker = <<ses.bd>> /\ ses.bd \in Nat /\ ~born
    BY <2>4 DEF NumberInv, BornInv, TypeInv, Sessions
  <2>7. x \in BirthNotes /\ x.will = x.bd /\ x.bd = ses.bd
    <3>1. Cardinality(hist.births) \in Nat
      BY FS_CardinalityType DEF TypeInv
    <3>2. QED
      BY <2>6, <3>1 DEF BirthNotes
  <2>8. /\ hist' \in [taken : [S -> Cells], births : SUBSET BirthNotes, lost : Losses]
        /\ hist'.taken = hist.taken /\ hist'.births = hist.births \cup {x}
    <3>1. p.lost \in Losses
      BY <2>3 DEF Publishers
    <3> HIDE DEF x
    <3>2. hist' = [hist EXCEPT !.births = hist.births \cup {x}, !.lost = p.lost]
      BY <2>4 DEF TypeInv, x
    <3>3. QED
      BY <2>7, <3>1, <3>2 DEF TypeInv
  <2> HIDE DEF x
  <2>9. IsFiniteSet(hist'.births)
    <3>1. IsFiniteSet(hist.births)
      BY DEF TypeInv
    <3>2. IsFiniteSet(hist.births \cup {x})
      BY <3>1, FS_AddElement
    <3>3. QED
      BY <2>8, <3>2
  <2>10. /\ work' \in [pc : {"top", "poll", "recv"}, samples : Seq(Samples),
                       live : BOOLEAN, accepted : BOOLEAN]
         /\ work'.samples = work.samples /\ work'.pc = "poll"
         /\ work'.live /\ work'.accepted
    BY <2>4 DEF TypeInv
  <2>11. TypeInv'
    BY <2>4, <2>5, <2>8, <2>9, <2>10 DEF TypeInv
  <2>12. BornInv'
    BY <2>4, <2>10 DEF BornInv
  <2>13. NumberInv'
    <3>1. \A y \in hist.births : y.bd \in Nat /\ y.bd < ses.bd /\ y.will = y.bd
      BY <2>6 DEF NumberInv, TypeInv, BirthNotes
    <3>2. ses'.bd = ses.bd /\ ~ses'.first
      BY <2>5 DEF NumberInv, SameNumber
    <3>3. \A y \in hist'.births : y.will = y.bd /\ y.bd <= ses.bd
      BY <2>6, <2>7, <2>8, <3>1
    <3>4. \A y, z \in hist'.births : y.n # z.n => y.bd # z.bd
      BY <2>6, <2>7, <2>8, <3>1 DEF NumberInv
    <3>5. QED
      BY <2>4, <2>6, <2>10, <3>2, <3>3, <3>4 DEF NumberInv
  <2>14. SampleInv'
    BY <2>4, <2>8, <2>10 DEF SampleInv
  <2>15. QED
    BY <2>11, <2>12, <2>13, <2>14
<1>4. CASE PollFails
  <2>1. /\ work' \in [pc : {"top", "poll", "recv"}, samples : Seq(Samples),
                      live : BOOLEAN, accepted : BOOLEAN]
        /\ work'.samples = work.samples /\ work'.pc = "top" /\ work.pc = "poll"
    BY <1>4 DEF PollFails, TypeInv
  <2>2. /\ chan' = <<>> /\ born' = FALSE
        /\ UNCHANGED <<image, scan, ring, drops, queue, broker, host, hist>>
    BY <1>4 DEF PollFails, BornInv, TypeInv
  <2>3. /\ ses' \in Sessions /\ ~ses'.first /\ ses.bd \in Nat
        /\ ses'.bd = IF born THEN ses.bd + 1 ELSE ses.bd
    BY <1>4, <2>1, ConnectTypes DEF PollFails, TypeInv, NumberInv, BornInv, Sessions
  <2>4. chan' \in Seq(Messages)
    BY <2>2
  <2>5. TypeInv'
    BY <2>1, <2>2, <2>3, <2>4 DEF TypeInv
  <2>6. BornInv'
    BY <2>1, <2>2 DEF BornInv
  <2>7. NumberInv'
    <3>1. \A x \in hist.births : x.bd \in Nat /\ x.bd < ses'.bd
      BY <2>3 DEF NumberInv, TypeInv, BirthNotes
    <3>2. QED
      BY <2>1, <2>2, <2>3, <3>1 DEF NumberInv
  <2>8. SampleInv'
    BY <2>1, <2>2 DEF SampleInv
  <2>9. QED
    BY <2>5, <2>6, <2>7, <2>8
<1>5. CASE BrokerTimesOut
  <2>1. host' \in Hosts /\ broker' = <<>>
    BY <1>5, OfflineType DEF BrokerTimesOut, TypeInv
  <2>2. /\ UNCHANGED <<image, scan, ring, drops, queue, work, ses, born, chan, hist>>
        /\ work.pc = "top" \/ ~work.accepted
    BY <1>5 DEF BrokerTimesOut
  <2>3. TypeInv'
    BY <2>1, <2>2 DEF TypeInv
  <2>4. BornInv' /\ NumberInv' /\ SampleInv'
    BY <2>1, <2>2 DEF BornInv, NumberInv, SampleInv
  <2>5. QED
    BY <2>3, <2>4
<1>6. QED
  BY <1>1, <1>2, <1>3, <1>4, <1>5

(* The samples being drained are in order.                                 *)
LEMMA SamplesOrdered ==
  ASSUME BaseInv
  PROVE  work.samples \in Seq(Samples) /\ Ordered(work.samples)
BY DEF BaseInv, TypeInv, SampleInv, Ordered

(* Dropping poll() gives up an attempt, never a session.                   *)
LEMMA InterruptedParts ==
  ASSUME BaseInv, work' = Interrupted
  PROVE  /\ work' \in [pc : {"top", "poll", "recv"}, samples : Seq(Samples),
                       live : BOOLEAN, accepted : BOOLEAN]
         /\ work'.samples = work.samples /\ work'.pc = work.pc /\ work'.live = work.live
         /\ work'.accepted = (work.accepted /\ work.live)
BY DEF BaseInv, TypeInv, Interrupted

(* The handlers of the worker that publish.                                *)
LEMMA HandlerBase ==
  ASSUME BaseInv, ReceiveCatalog \/ Drain \/ HandleIncoming
  PROVE  BaseInv'
<1> USE DEF BaseInv
<1>1. CASE ReceiveCatalog
  <2>1. queue \in Seq(Catalogs) /\ queue # <<>>
    BY <1>1 DEF ReceiveCatalog, TypeInv
  <2>2. Head(queue) \in Catalogs /\ queue' \in Seq(Catalogs)
    BY <1>1, <2>1 DEF ReceiveCatalog
  <2> DEFINE p == ReplaceCatalog(Publisher, Head(queue))
  <2>3. Keeps(Publisher, p)
    BY <2>2, PublisherType, ReplaceTypes DEF TypeInv
  <2>4. ~born => p.chan = chan
    BY DEF ReplaceCatalog, Publisher
  <2>5. Publishes(p) /\ UNCHANGED <<image, scan, ring, drops, born, broker, host>>
    BY <1>1 DEF ReceiveCatalog
  <2>11. /\ work' \in [pc : {"top", "poll", "recv"}, samples : Seq(Samples),
                      live : BOOLEAN, accepted : BOOLEAN]
        /\ work'.samples = work.samples /\ work'.pc = work.pc /\ work'.live = work.live
        /\ work'.accepted = (work.accepted /\ work.live)
    BY <1>1, InterruptedParts DEF ReceiveCatalog
  <2>6. ~born => chan' = chan
    BY <2>4, <2>5 DEF Publishes
  <2> HIDE DEF p
  <2>7. /\ ses' \in Sessions /\ SameNumber(ses', ses) /\ chan' \in Seq(Messages)
        /\ hist' \in [taken : [S -> Cells], births : SUBSET BirthNotes, lost : Losses]
        /\ hist'.taken = hist.taken /\ hist'.births = hist.births
    BY <2>3, <2>5, PublishesTypes
  <2>8. TypeInv'
    BY <2>2, <2>5, <2>11, <2>7 DEF TypeInv
  <2>9. BornInv' /\ NumberInv' /\ SampleInv'
    BY <2>5, <2>11, <2>6, <2>7 DEF BornInv, NumberInv, SampleInv, SameNumber
  <2>10. QED
    BY <2>8, <2>9
<1>2. CASE Drain
  <2> DEFINE n == NData(Publisher)
             p == DData(n, work.samples)
  <2>1. n \in Publishers /\ SameNumber(n.ses, Publisher.ses)
    BY PublisherType, NDataTypes DEF Keeps
  <2> HIDE DEF n
  <2>2. Keeps(Publisher, p)
    BY <2>1, SamplesOrdered, DDataTypes DEF Keeps, SameNumber
  <2>3. /\ Publishes(p) /\ work.pc = "recv" /\ ring = <<>>
        /\ work' = [work EXCEPT !.pc = "poll", !.samples = <<>>]
        /\ UNCHANGED <<image, scan, ring, drops, queue, born, broker, host>>
    BY <1>2 DEF Drain, n
  <2> HIDE DEF p
  <2>4. /\ ses' \in Sessions /\ SameNumber(ses', ses) /\ chan' \in Seq(Messages)
        /\ hist' \in [taken : [S -> Cells], births : SUBSET BirthNotes, lost : Losses]
        /\ hist'.taken = hist.taken /\ hist'.births = hist.births
    BY <2>2, <2>3, PublishesTypes
  <2>5. /\ work' \in [pc : {"top", "poll", "recv"}, samples : Seq(Samples),
                      live : BOOLEAN, accepted : BOOLEAN]
        /\ work'.samples = <<>> /\ work'.pc = "poll"
        /\ work'.live = work.live /\ work'.accepted = work.accepted
    <3>1. <<>> \in Seq(Samples)
      OBVIOUS
    <3>2. QED
      BY <2>3, <3>1 DEF TypeInv
  <2>6. TypeInv'
    BY <2>3, <2>4, <2>5 DEF TypeInv
  <2>7. BornInv' /\ NumberInv'
    BY <2>3, <2>4, <2>5 DEF BornInv, NumberInv, SameNumber
  <2>8. SampleInv'
    <3>1. work.samples \o ring = work.samples /\ work'.samples \o ring' = <<>>
      BY <2>3, <2>5, SamplesOrdered
    <3>2. \A s : ~Has(<<>>, s)
      BY DEF Has
    <3>3. ASSUME drops = 0, NEW s \in S, scan.track[s].ever
          PROVE  hist.taken[s] = scan.track[s].last
      <4>1. CASE Has(work.samples, s)
        <5>1. /\ IsLatest(work.samples, s, scan.track[s].last)
              /\ IsLatest(work.samples, s, hist.taken[s])
          BY <3>1, <3>3, <4>1 DEF SampleInv
        <5>2. QED
          BY <5>1, SamplesOrdered, LatestIs
      <4>2. CASE ~Has(work.samples, s)
        BY <3>1, <3>3, <4>2 DEF SampleInv
      <4>3. QED
        BY <4>1, <4>2
    <3>4. QED
      BY <2>3, <2>4, <2>5, <3>1, <3>2, <3>3 DEF SampleInv
  <2>9. QED
    BY <2>6, <2>7, <2>8
<1>3. CASE HandleIncoming
  <2>1. Keeps(Publisher, Rebirth(Publisher))
    BY PublisherType, RebirthTypes
  <2>2. /\ Publishes(Rebirth(Publisher)) /\ work.live /\ work.pc = "poll"
        /\ UNCHANGED <<image, scan, ring, drops, queue, work, born, broker>>
    BY <1>3 DEF HandleIncoming
  <2>3. /\ ses' \in Sessions /\ SameNumber(ses', ses) /\ chan' \in Seq(Messages)
        /\ hist' \in [taken : [S -> Cells], births : SUBSET BirthNotes, lost : Losses]
        /\ hist'.taken = hist.taken /\ hist'.births = hist.births
    BY <2>1, <2>2, PublishesTypes
  <2>4. host' \in Hosts
    BY <1>3 DEF HandleIncoming, TypeInv, Hosts
  <2>5. TypeInv'
    BY <2>2, <2>3, <2>4 DEF TypeInv
  <2>6. BornInv' /\ NumberInv' /\ SampleInv'
    BY <2>2, <2>3 DEF BornInv, NumberInv, SampleInv, SameNumber
  <2>7. QED
    BY <2>5, <2>6
<1>4. QED
  BY <1>1, <1>2, <1>3

(* The steps that only move a sample or a message, and the surroundings.   *)
LEMMA MoveBase ==
  ASSUME BaseInv,
         BeginDrain \/ TryRecv \/ Deliver \/ ImageChanges \/ PushCatalog \/ HostAsks
           \/ TimerBeforeBirth \/ UNCHANGED vars
  PROVE  BaseInv'
<1> USE DEF BaseInv
<1>1. CASE BeginDrain
  <2>1. /\ work' \in [pc : {"top", "poll", "recv"}, samples : Seq(Samples),
                      live : BOOLEAN, accepted : BOOLEAN]
        /\ work'.samples = work.samples /\ work'.pc = "recv" /\ work.pc = "poll"
        /\ work'.live = work.live /\ work'.accepted = work.accepted /\ born
        /\ UNCHANGED <<image, scan, ring, drops, queue, ses, born, chan, broker, host, hist>>
    BY <1>1 DEF BeginDrain, TypeInv
  <2>2. TypeInv'
    BY <2>1 DEF TypeInv
  <2>3. BornInv' /\ NumberInv' /\ SampleInv'
    BY <2>1 DEF BornInv, NumberInv, SampleInv
  <2>4. QED
    BY <2>2, <2>3
<1>2. CASE TryRecv
  <2> DEFINE e == Head(ring)
  <2>1. /\ work.pc = "recv" /\ ring # <<>> /\ ring' = Tail(ring)
        /\ work' = [work EXCEPT !.samples = Append(@, e)]
        /\ hist' = [hist EXCEPT !.taken[e.slot] = e.v]
        /\ UNCHANGED <<image, scan, drops, queue, ses, born, chan, broker, host>>
    BY <1>2 DEF TryRecv
  <2>2. ring \in Seq(Samples) /\ work.samples \in Seq(Samples)
    BY DEF TypeInv
  <2>3. e \in Samples /\ Tail(ring) \in Seq(Samples)
    BY <2>1, <2>2
  <2> HIDE DEF e
  <2>4. e.slot \in S /\ e.v \in Values
    BY <2>3 DEF Samples
  <2>5. /\ work' \in [pc : {"top", "poll", "recv"}, samples : Seq(Samples),
                      live : BOOLEAN, accepted : BOOLEAN]
        /\ work'.samples = Append(work.samples, e) /\ work'.pc = "recv"
        /\ work'.live = work.live /\ work'.accepted = work.accepted
    <3>1. Append(work.samples, e) \in Seq(Samples)
      BY <2>2, <2>3
    <3>2. QED
      BY <2>1, <3>1 DEF TypeInv
  <2>6. /\ hist'.taken = [hist.taken EXCEPT ![e.slot] = e.v]
        /\ hist'.births = hist.births /\ hist'.lost = hist.lost
        /\ hist' \in [taken : [S -> Cells], births : SUBSET BirthNotes, lost : Losses]
    <3>1. hist' = [hist EXCEPT !.taken = [hist.taken EXCEPT ![e.slot] = e.v]]
      BY <2>1 DEF TypeInv
    <3>2. [hist.taken EXCEPT ![e.slot] = e.v] \in [S -> Cells]
      BY <2>4 DEF TypeInv, Cells
    <3>3. QED
      BY <3>1, <3>2 DEF TypeInv
  <2>7. TypeInv'
    BY <2>1, <2>3, <2>5, <2>6 DEF TypeInv
  <2>8. BornInv' /\ NumberInv'
    BY <2>1, <2>5, <2>6 DEF BornInv, NumberInv
  <2>9. SampleInv'
    <3>1. work'.samples \o ring' = work.samples \o ring
      BY <2>1, <2>2, <2>5, ConcatMove DEF e
    <3>2. /\ IsLatest(work'.samples, e.slot, e.v)
          /\ \A s : s # e.slot => (Has(work'.samples, s) <=> Has(work.samples, s))
          /\ \A s, v : s # e.slot =>
               (IsLatest(work'.samples, s, v) <=> IsLatest(work.samples, s, v))
      BY <2>2, <2>3, <2>5, LatestAppend
    <3>3. /\ hist'.taken[e.slot] = e.v
          /\ \A s \in S : s # e.slot => hist'.taken[s] = hist.taken[s]
      BY <2>4, <2>6 DEF TypeInv
    <3>4. Has(work.samples \o ring, e.slot)
      <4>1. /\ Len(work.samples) + 1 \in DOMAIN (work.samples \o ring)
            /\ (work.samples \o ring)[Len(work.samples) + 1] = ring[1]
        BY <2>1, <2>2
      <4>2. e = ring[1]
        BY <2>1, <2>2 DEF e
      <4>3. QED
        BY <4>1, <4>2 DEF Has
    <3>5. ASSUME NEW s \in S, Has(work'.samples, s)
          PROVE  hist'.taken[s] \in Values /\ IsLatest(work'.samples, s, hist'.taken[s])
      <4>1. CASE s = e.slot
        BY <2>4, <3>2, <3>3, <4>1
      <4>2. CASE s # e.slot
        BY <3>2, <3>3, <3>5, <4>2 DEF SampleInv
      <4>3. QED
        BY <4>1, <4>2
    <3>6. ASSUME drops' = 0, NEW s \in S, scan'.track[s].ever
          PROVE  IF Has(work'.samples \o ring', s)
                 THEN IsLatest(work'.samples \o ring', s, scan'.track[s].last)
                 ELSE hist'.taken[s] = scan'.track[s].last
      BY <2>1, <3>1, <3>3, <3>4, <3>6 DEF SampleInv
    <3>7. QED
      BY <3>5, <3>6 DEF SampleInv
  <2>10. QED
    BY <2>7, <2>8, <2>9
<1>3. CASE Deliver
  <2>1. /\ chan # <<>> /\ host' = HostTakes(host, Head(chan)) /\ chan' = Tail(chan)
        /\ UNCHANGED <<image, scan, ring, drops, queue, work, ses, born, broker, hist>>
    BY <1>3 DEF Deliver
  <2>2. chan \in Seq(Messages) /\ host \in Hosts
    BY DEF TypeInv
  <2>3. Head(chan) \in Messages /\ chan' \in Seq(Messages)
    BY <2>1, <2>2
  <2>4. host' \in Hosts
    BY <2>1, <2>2, <2>3, TakesTypes
  <2>5. TypeInv'
    BY <2>1, <2>3, <2>4 DEF TypeInv
  <2>6. BornInv' /\ NumberInv' /\ SampleInv'
    BY <2>1 DEF BornInv, NumberInv, SampleInv
  <2>7. QED
    BY <2>5, <2>6
<1>4. CASE ImageChanges
  <2>1. image' \in [S -> Values]
    BY <1>4 DEF ImageChanges, TypeInv
  <2>2. UNCHANGED <<scan, ring, drops, queue, work, ses, born, chan, broker, host, hist>>
    BY <1>4 DEF ImageChanges, Change
  <2>3. QED
    BY <2>1, <2>2 DEF TypeInv, BornInv, NumberInv, SampleInv
<1>5. CASE PushCatalog
  <2>1. queue' \in Seq(Catalogs)
    BY <1>5 DEF PushCatalog, TypeInv
  <2>2. UNCHANGED <<image, scan, ring, drops, work, ses, born, chan, broker, host, hist>>
    BY <1>5 DEF PushCatalog, Change
  <2>3. QED
    BY <2>1, <2>2 DEF TypeInv, BornInv, NumberInv, SampleInv
<1>6. CASE HostAsks
  <2>1. host' \in Hosts
    BY <1>6 DEF HostAsks, TypeInv, Hosts
  <2>2. UNCHANGED <<image, scan, ring, drops, queue, work, ses, born, chan, broker, hist>>
    BY <1>6 DEF HostAsks, Change
  <2>3. QED
    BY <2>1, <2>2 DEF TypeInv, BornInv, NumberInv, SampleInv
<1>7. CASE UNCHANGED vars
  BY <1>7 DEF vars, TypeInv, BornInv, NumberInv, SampleInv
<1>8. CASE TimerBeforeBirth
  <2>1. /\ work' \in [pc : {"top", "poll", "recv"}, samples : Seq(Samples),
                      live : BOOLEAN, accepted : BOOLEAN]
        /\ work'.samples = work.samples /\ work'.pc = work.pc /\ work'.live = work.live
        /\ work'.accepted = (work.accepted /\ work.live)
    BY <1>8, InterruptedParts DEF TimerBeforeBirth
  <2>2. UNCHANGED <<image, scan, ring, drops, queue, ses, born, chan, broker, host, hist>>
    BY <1>8 DEF TimerBeforeBirth
  <2>3. TypeInv'
    BY <2>1, <2>2 DEF TypeInv
  <2>4. BornInv' /\ NumberInv' /\ SampleInv'
    BY <2>1, <2>2 DEF BornInv, NumberInv, SampleInv
  <2>5. QED
    BY <2>3, <2>4
<1>9. QED
  BY <1>1, <1>2, <1>3, <1>4, <1>5, <1>6, <1>7, <1>8

(* Every step keeps these parts of the invariant.                          *)
LEMMA NextBase == BaseInv /\ [Next]_vars => BaseInv'
BY ScanBase, ConnectBase, HandlerBase, MoveBase DEF Next, Service, Surroundings

(* The parts that do not follow the messages are invariant.                *)
LEMMA AlwaysBase == Spec => []BaseInv
BY InitBase, NextBase, PTL DEF Spec, SlowSpec

(* The will the broker holds names the session of every NBIRTH, and no two *)
(* sessions that were born share a bdSeq, however connections fail and     *)
(* however late the broker notices.                                        *)
THEOREM SessionsAreNumbered == Spec => []SessionsNumbered
<1>1. BaseInv => SessionsNumbered
  BY DEF BaseInv, NumberInv, SessionsNumbered
<1>2. QED
  BY <1>1, AlwaysBase, PTL

(* While telemetry_drops is zero, what the scan recorded as published is   *)
(* in the ring, being drained, or was received, for every slot, whatever   *)
(* the rings' capacity and the interleaving of the two threads.            *)
THEOREM LossIsCounted == Spec => []NoSilentLoss
<1>1. BaseInv => NoSilentLoss
  <2>1. SUFFICES ASSUME BaseInv, drops = 0, NEW s \in S, scan.track[s].ever
                 PROVE  scan.track[s].last = Latest(s)
    BY DEF NoSilentLoss
  <2> DEFINE all == work.samples \o ring
  <2>2. all \in Seq(Samples)
    BY <2>1 DEF BaseInv, TypeInv
  <2>3. Latest(s) = IF Has(all, s) THEN Chosen(all, s) ELSE hist.taken[s]
    <3> DEFINE of == {n \in DOMAIN all : all[n].slot = s}
    <3>1. Latest(s) = IF of = {} THEN hist.taken[s]
                      ELSE all[CHOOSE n \in of : \A k \in of : k <= n].v
      BY DEF Latest
    <3>2. Chosen(all, s) = all[CHOOSE n \in of : \A k \in of : k <= n].v
      BY DEF Chosen
    <3>3. of = {} <=> ~Has(all, s)
      BY DEF Has
    <3>4. QED
      BY <3>1, <3>2, <3>3
  <2>4. IF Has(all, s) THEN IsLatest(all, s, scan.track[s].last)
        ELSE hist.taken[s] = scan.track[s].last
    BY <2>1 DEF BaseInv, SampleInv
  <2> HIDE DEF all
  <2>5. QED
    BY <2>2, <2>3, <2>4, LatestIs
<1>2. QED
  BY <1>1, AlwaysBase, PTL

-----------------------------------------------------------------------------
(* Following the messages.                                                 *)
Replayable(ch, h) == \E st : Replays(st, h, ch)

(* Sequence numbers: a message more, a gap, no gap.                        *)
LEMMA ApartSteps ==
  ASSUME NEW a \in Seqs, NEW b \in Seqs, NEW n \in 0..SeqBase, Apart(a, n, b)
  PROVE  /\ n + 1 < SeqBase => Apart(a, n + 1, NextSeq(b))
         /\ n < SeqBase /\ NextSeq(b) = NextSeq(a) => n = 0
         /\ n < SeqBase /\ a = b => n = 0
         /\ n = 0 => a = b
         /\ \A c \in Seqs : Apart(c, 0, c)
<1>1. SeqBase \in Nat /\ SeqBase > 3
  BY CapsAssumption
<1>2. /\ NextSeq(a) = IF a + 1 = SeqBase THEN 0 ELSE a + 1
      /\ NextSeq(b) = IF b + 1 = SeqBase THEN 0 ELSE b + 1
  BY SeqSteps
<1>3. QED
  BY <1>1, <1>2 DEF Apart, Seqs

(* The replay of one message more.                                         *)
LEMMA ReplayAppend ==
  ASSUME NEW h \in Hosts, NEW ch \in Seq(Messages), NEW m \in Messages,
         NEW st, Replays(st, h, ch)
  PROVE  \E sx : /\ Replays(sx, h, Append(ch, m))
                 /\ sx[Len(Append(ch, m)) + 1] = Calm(HostTakes(st[Len(ch) + 1], m))
                 /\ Refuses(sx, Append(ch, m))
                      <=> Refuses(st, ch) \/ HostTakes(st[Len(ch) + 1], m).ask
<1> DEFINE n == Len(ch)
           c == Append(ch, m)
           g == Calm(HostTakes(st[n + 1], m))
           sx == [i \in 1..(n + 2) |-> IF i = n + 2 THEN g ELSE st[i]]
<1>1. /\ n \in Nat /\ Len(c) = n + 1 /\ c[n + 1] = m
      /\ \A i \in 1..n : c[i] = ch[i]
  OBVIOUS
<1>2. /\ st \in [1..(n + 1) -> Hosts] /\ st[1] = Calm(h)
      /\ \A i \in 1..n : st[i + 1] = Calm(HostTakes(st[i], ch[i]))
  BY DEF Replays
<1>3. g \in Hosts
  <2>1. HostTakes(st[n + 1], m) \in Hosts
    BY <1>1, <1>2, TakesTypes
  <2>2. QED
    BY <2>1 DEF Calm, Hosts
<1> HIDE DEF g, n, c
<1>4. sx \in [1..(n + 2) -> Hosts] /\ sx[n + 2] = g /\ \A i \in 1..(n + 1) : sx[i] = st[i]
  BY <1>1, <1>2, <1>3
<1> HIDE DEF sx
<1>5. \A i \in 1..(n + 1) : sx[i + 1] = Calm(HostTakes(sx[i], c[i]))
  <2>1. ASSUME NEW i \in 1..(n + 1) PROVE sx[i + 1] = Calm(HostTakes(sx[i], c[i]))
    <3>1. CASE i = n + 1
      BY <1>1, <1>4, <3>1 DEF g
    <3>2. CASE i \in 1..n
      BY <1>1, <1>2, <1>4, <3>2
    <3>3. QED
      BY <1>1, <3>1, <3>2
  <2>2. QED
    BY <2>1
<1>6. Replays(sx, h, c)
  BY <1>1, <1>2, <1>4, <1>5 DEF Replays
<1>7. Refuses(sx, c) <=> Refuses(st, ch) \/ HostTakes(st[n + 1], m).ask
  <2>1. \A i \in 1..n : HostTakes(sx[i], c[i]) = HostTakes(st[i], ch[i])
    BY <1>1, <1>4
  <2>2. HostTakes(sx[n + 1], c[n + 1]) = HostTakes(st[n + 1], m)
    BY <1>1, <1>4
  <2>3. Refuses(sx, c) <=> \E i \in 1..(n + 1) : HostTakes(sx[i], c[i]).ask
    BY <1>1 DEF Refuses
  <2>4. Refuses(st, ch) <=> \E i \in 1..n : HostTakes(st[i], ch[i]).ask
    BY DEF Refuses, n
  <2>5. QED
    BY <1>1, <2>1, <2>2, <2>3, <2>4
<1>8. QED
  BY <1>1, <1>4, <1>6, <1>7 DEF g, n, c

(* A message sent by a publisher p, queued or lost: the session y it       *)
(* leaves behind is followed if each outcome keeps the claim about the     *)
(* session x before.                                                       *)
LEMMA SendFollows ==
  ASSUME NEW p \in Publishers, NEW h \in Hosts, NEW m \in Messages, NEW x, NEW y,
         Follows(x, p.lost, p.chan, h),
         \A g \in Hosts : Claim(x, p.lost, g) /\ ~HostTakes(g, m).ask
           => Claim(y, Queueing(p.lost, m.k), Calm(HostTakes(g, m))),
         \A g \in Hosts : Claim(x, p.lost, g) => Claim(y, Losing(p.lost, m.k), g)
  PROVE  Follows(y, Send(p, m).lost, Send(p, m).chan, h)
<1>1. p.chan \in Seq(Messages) /\ Len(p.chan) \in Nat
  BY DEF Publishers
<1>2. PICK st : /\ Replays(st, h, p.chan)
                /\ h.ask \/ Refuses(st, p.chan) \/ Claim(x, p.lost, st[Len(p.chan) + 1])
  BY DEF Follows
<1>3. st[Len(p.chan) + 1] \in Hosts
  BY <1>1, <1>2 DEF Replays
<1>4. CASE Len(p.chan) < ChanCap
  <2>1. /\ Send(p, m).lost = Queueing(p.lost, m.k)
        /\ Send(p, m).chan = Append(p.chan, m)
    BY <1>4 DEF Send, Publishers
  <2>2. PICK sx : /\ Replays(sx, h, Append(p.chan, m))
                  /\ sx[Len(Append(p.chan, m)) + 1] = Calm(HostTakes(st[Len(p.chan) + 1], m))
                  /\ Refuses(sx, Append(p.chan, m))
                       <=> Refuses(st, p.chan) \/ HostTakes(st[Len(p.chan) + 1], m).ask
    BY <1>1, <1>2, ReplayAppend
  <2>3. \/ h.ask \/ Refuses(sx, Append(p.chan, m))
        \/ Claim(y, Queueing(p.lost, m.k), sx[Len(Append(p.chan, m)) + 1])
    BY <1>2, <1>3, <2>2
  <2>4. QED
    BY <2>1, <2>2, <2>3 DEF Follows
<1>5. CASE ~(Len(p.chan) < ChanCap)
  <2>1. Send(p, m).lost = Losing(p.lost, m.k) /\ Send(p, m).chan = p.chan
    BY <1>5 DEF Send, Publishers
  <2>2. QED
    BY <1>2, <1>3, <2>1 DEF Follows
<1>6. QED
  BY <1>4, <1>5

(* A message after which the claim holds whatever the host knew before.    *)
LEMMA SendAnew ==
  ASSUME NEW p \in Publishers, NEW h \in Hosts, NEW m \in Messages, NEW y,
         Replayable(p.chan, h),
         \A g \in Hosts : Claim(y, Queueing(p.lost, m.k), Calm(HostTakes(g, m))),
         \A g \in Hosts : Claim(y, Losing(p.lost, m.k), g)
  PROVE  Follows(y, Send(p, m).lost, Send(p, m).chan, h)
<1>1. p.chan \in Seq(Messages) /\ Len(p.chan) \in Nat
  BY DEF Publishers
<1>2. PICK st : Replays(st, h, p.chan)
  BY DEF Replayable
<1>3. st[Len(p.chan) + 1] \in Hosts
  BY <1>1, <1>2 DEF Replays
<1>4. CASE Len(p.chan) < ChanCap
  <2>1. /\ Send(p, m).lost = Queueing(p.lost, m.k)
        /\ Send(p, m).chan = Append(p.chan, m)
    BY <1>4 DEF Send, Publishers
  <2>2. PICK sx : /\ Replays(sx, h, Append(p.chan, m))
                  /\ sx[Len(Append(p.chan, m)) + 1] = Calm(HostTakes(st[Len(p.chan) + 1], m))
    BY <1>1, <1>2, ReplayAppend
  <2>3. QED
    BY <1>3, <2>1, <2>2 DEF Follows
<1>5. CASE ~(Len(p.chan) < ChanCap)
  <2>1. Send(p, m).lost = Losing(p.lost, m.k) /\ Send(p, m).chan = p.chan
    BY <1>5 DEF Send, Publishers
  <2>2. QED
    BY <1>2, <1>3, <2>1 DEF Follows
<1>6. QED
  BY <1>4, <1>5

(* Any message can be replayed after those before it.                      *)
LEMMA SendReplay ==
  ASSUME NEW p \in Publishers, NEW h \in Hosts, NEW m \in Messages,
         Replayable(p.chan, h)
  PROVE  Replayable(Send(p, m).chan, h)
<1>1. p.chan \in Seq(Messages)
  BY DEF Publishers
<1>2. PICK st : Replays(st, h, p.chan)
  BY DEF Replayable
<1>3. Send(p, m).chan = p.chan \/ Send(p, m).chan = Append(p.chan, m)
  BY DEF Send, Publishers
<1>4. \E sx : Replays(sx, h, Append(p.chan, m))
  BY <1>1, <1>2, ReplayAppend
<1>5. QED
  BY <1>2, <1>3, <1>4 DEF Replayable

(* The session of a publisher is followed by what it has queued.           *)
Followed(p, h) == Follows(p.ses, p.lost, p.chan, h)

(* After an NBIRTH the host starts anew, unless it was lost.               *)
LEMMA NbirthFollows ==
  ASSUME NEW p \in Publishers, NEW h \in Hosts, drops \in Counts, Replayable(p.chan, h)
  PROVE  Followed(PublishNbirth(p), h)
<1> DEFINE x == [p.ses EXCEPT !.node = 0, !.drops = drops]
           q == [p EXCEPT !.ses = x]
           m == [k |-> "NBIRTH", seq |-> 0, bd |-> p.ses.bd, drops |-> drops]
<1>1. p.ses \in Sessions /\ 0 \in Seqs /\ SeqBase \in Nat
  BY CapsAssumption DEF Publishers, Seqs
<1>2. x \in Sessions /\ x.node = 0 /\ x.drops = drops
  BY <1>1 DEF Sessions
<1>3. m \in Messages /\ m.k = "NBIRTH"
  BY <1>1 DEF Sessions, Messages, Births
<1>4. PublishNbirth(p) = Send(q, m)
  BY DEF PublishNbirth, Publishers
<1>5. \A g \in Hosts : Claim(x, Queueing(p.lost, m.k), Calm(HostTakes(g, m)))
  <2>1. Queueing(p.lost, m.k) = [node |-> 0, device |-> 0]
    BY <1>3 DEF Queueing
  <2>2. ASSUME NEW g \in Hosts
        PROVE  /\ Calm(HostTakes(g, m)).node = 0 /\ Calm(HostTakes(g, m)).drops = drops
               /\ ~Calm(HostTakes(g, m)).device
    BY DEF HostTakes, Calm, Hosts
  <2> HIDE DEF m, x
  <2>3. QED
    BY <1>2, <2>1, <2>2 DEF Claim, NodeClaim, DeviceClaim, Apart
<1>6. \A g \in Hosts : Claim(x, Losing(p.lost, m.k), g)
  <2>1. Losing(p.lost, m.k) = [node |-> SeqBase, device |-> SeqBase]
    BY <1>3 DEF Losing
  <2>2. QED
    BY <1>1, <2>1 DEF Claim, NodeClaim, DeviceClaim
<1> HIDE DEF x, m
<1>7. q \in Publishers /\ q.ses = x /\ q.lost = p.lost /\ q.chan = p.chan
  BY <1>2 DEF Publishers
<1> HIDE DEF q
<1>8. Follows(x, Send(q, m).lost, Send(q, m).chan, h)
  BY <1>3, <1>5, <1>6, <1>7, SendAnew
<1>9. Send(q, m).ses = x
  BY <1>3, <1>7, SendTypes
<1>10. QED
  BY <1>4, <1>8, <1>9 DEF Followed

(* A DBIRTH gives the host the catalog and the cached values.              *)
LEMMA DbirthFollows ==
  ASSUME NEW p \in Publishers, NEW h \in Hosts, Followed(p, h)
  PROVE  Followed(PublishDbirth(p), h)
<1> DEFINE c == p.ses.catalog
           x == [p.ses EXCEPT !.dev = 0]
           q == [p EXCEPT !.ses = x]
           m == [k |-> "DBIRTH", seq |-> 0, table |-> c,
                 v |-> [a \in DOMAIN c |-> Cached(p.ses, c[a])]]
<1>1. CASE c = <<>>
  BY <1>1 DEF PublishDbirth
<1>2. CASE c # <<>>
  <2>1. p.ses \in Sessions /\ 0 \in Seqs /\ SeqBase \in Nat /\ p.lost \in Losses
    BY CapsAssumption DEF Publishers, Seqs
  <2>2. /\ x \in Sessions /\ x.dev = 0 /\ x.catalog = c /\ x.node = p.ses.node
        /\ x.drops = p.ses.drops /\ x.device = p.ses.device
    BY <2>1 DEF Sessions
  <2>3. m \in Messages /\ m.k = "DBIRTH"
    <3>1. c \in Catalogs /\ c \in Seq(S)
      BY <2>1, CapsAssumption DEF Sessions, S
    <3>2. [a \in DOMAIN c |-> Cached(p.ses, c[a])] \in [DOMAIN c -> Values]
      BY <2>1, <3>1, CachedType
    <3>3. DOMAIN c \in SUBSET Nat
      BY <3>1
    <3>4. QED
      BY <1>2, <3>1, <3>2, <3>3 DEF Messages, DevBirths, Partial
  <2>4. PublishDbirth(p) = Send(q, m)
    BY <1>2 DEF PublishDbirth, Publishers
  <2>5. ASSUME NEW g \in Hosts, Claim(p.ses, p.lost, g)
        PROVE  Claim(x, Queueing(p.lost, m.k), Calm(HostTakes(g, m)))
    <3> DEFINE t == Calm(HostTakes(g, m))
               at(s) == CHOOSE a \in DOMAIN c : c[a] = s
               v == [s \in S |-> IF s \in Range(c) THEN m.v[at(s)] ELSE 0]
    <3>1. Queueing(p.lost, m.k) = [p.lost EXCEPT !.device = 0]
      BY <2>3, <2>1 DEF Queueing, Kind, Losses
    <3>2. /\ t.node = g.node /\ t.drops = g.drops /\ t.device /\ t.dev = 0
          /\ t.table = c
          /\ t.v = v
      <4> HIDE DEF v
      <4>1. HostTakes(g, m) = [g EXCEPT !.device = TRUE, !.dev = 0, !.table = c, !.v = v]
        BY DEF HostTakes, v
      <4>2. QED
        BY <4>1 DEF Calm, Hosts
    <3>3. ASSUME NEW s \in Range(c) PROVE t.v[s] = Cached(x, s)
      <4>1. s \in S
        <5>1. c \in Seq(S)
          BY <2>1, CapsAssumption DEF Sessions, S
        <5>2. QED
          BY <5>1 DEF Range
      <4>2. at(s) \in DOMAIN c /\ c[at(s)] = s
        BY DEF Range
      <4>3. m.v[at(s)] = Cached(p.ses, s)
        BY <4>2
      <4>4. Cached(p.ses, s) = Cached(x, s)
        BY <2>2 DEF Cached
      <4> HIDE DEF m, x
      <4>5. QED
        BY <3>2, <4>1, <4>3, <4>4
    <3> HIDE DEF t, x, m
    <3>4. NodeClaim(x, [p.lost EXCEPT !.device = 0], t)
      BY <2>1, <2>2, <2>5, <3>2 DEF Claim, NodeClaim, Losses
    <3>5. DeviceClaim(x, [p.lost EXCEPT !.device = 0], t)
      <4>1. Apart(t.dev, 0, x.dev) /\ t.table # <<>> /\ t.table = x.catalog
        BY <1>2, <2>2, <3>2 DEF Apart
      <4>2. [p.lost EXCEPT !.device = 0].device = 0
        BY <2>1 DEF Losses
      <4>3. \A s \in Range(x.catalog) : t.v[s] = Cached(x, s)
        BY <2>2, <3>3
      <4>4. QED
        BY <4>1, <4>2, <4>3 DEF DeviceClaim
    <3>6. QED
      BY <3>1, <3>4, <3>5 DEF Claim, t
  <2>6. ASSUME NEW g \in Hosts, Claim(p.ses, p.lost, g)
        PROVE  Claim(x, Losing(p.lost, m.k), g)
    <3>1. Losing(p.lost, m.k) = [p.lost EXCEPT !.device = SeqBase]
      BY <2>3 DEF Losing
    <3> HIDE DEF x
    <3>2. NodeClaim(x, [p.lost EXCEPT !.device = SeqBase], g)
      BY <2>1, <2>2, <2>6 DEF Claim, NodeClaim, Losses
    <3>3. DeviceClaim(x, [p.lost EXCEPT !.device = SeqBase], g)
      BY <2>1 DEF DeviceClaim, Losses
    <3>4. QED
      BY <3>1, <3>2, <3>3 DEF Claim
  <2> HIDE DEF x, m
  <2>7. q \in Publishers /\ q.ses = x /\ q.lost = p.lost /\ q.chan = p.chan
    BY <2>2 DEF Publishers
  <2> HIDE DEF q
  <2>8. Follows(p.ses, q.lost, q.chan, h)
    BY <2>7 DEF Followed
  <2>9. Follows(x, Send(q, m).lost, Send(q, m).chan, h)
    BY <2>3, <2>5, <2>6, <2>7, <2>8, SendFollows
  <2>10. Send(q, m).ses = x
    BY <2>3, <2>7, SendTypes
  <2>11. QED
    BY <2>4, <2>9, <2>10 DEF Followed
<1>3. QED
  BY <1>1, <1>2

(* An NDATA the host accepts tells it the counter; a lost one is a gap.    *)
LEMMA NDataFollows ==
  ASSUME NEW p \in Publishers, NEW h \in Hosts, drops \in Counts, Followed(p, h)
  PROVE  Followed(NData(p), h)
<1> DEFINE n == NextSeq(p.ses.node)
           x == [p.ses EXCEPT !.drops = drops, !.node = n]
           q == [p EXCEPT !.ses = x]
           m == [k |-> "NDATA", seq |-> n, drops |-> drops]
<1>1. CASE p.ses.drops = drops
  BY <1>1 DEF NData
<1>2. CASE p.ses.drops # drops
  <2>1. p.ses \in Sessions /\ p.lost \in Losses /\ SeqBase \in Nat
    BY CapsAssumption DEF Publishers
  <2>2. n \in Seqs
    BY <2>1, SeqSteps DEF Sessions
  <2>3. NData(p) = Send(q, m)
    BY <1>2 DEF NData, Publishers, Sessions
  <2> HIDE DEF n
  <2>4. /\ x \in Sessions /\ x.node = n /\ x.drops = drops /\ x.dev = p.ses.dev
        /\ x.catalog = p.ses.catalog /\ x.device = p.ses.device
    BY <2>1, <2>2 DEF Sessions
  <2>5. m \in Messages /\ m.k = "NDATA" /\ m.seq = n /\ m.drops = drops
    BY <2>2 DEF Messages, NodeData
  <2> HIDE DEF x, m
  <2>6. \A g, lost : DeviceClaim(p.ses, lost, g) => DeviceClaim(x, lost, g)
    BY <2>4 DEF DeviceClaim, Cached
  <2>7. ASSUME NEW g \in Hosts, Claim(p.ses, p.lost, g), ~HostTakes(g, m).ask
        PROVE  Claim(x, Queueing(p.lost, m.k), Calm(HostTakes(g, m)))
    <3> DEFINE t == Calm(HostTakes(g, m))
               l == Queueing(p.lost, m.k)
    <3>1. /\ l.node = 0 \/ l.node = SeqBase
          /\ l.device = p.lost.device
      BY <2>1, <2>5 DEF Queueing, Kind, Losses
    <3>2. HostTakes(g, m) = [g EXCEPT !.node = n, !.drops = drops]
      BY <2>5, <2>7 DEF HostTakes, Hosts
    <3>3. /\ t.node = n /\ t.drops = drops /\ t.device = g.device /\ t.dev = g.dev
          /\ t.table = g.table /\ t.v = g.v
      BY <3>2 DEF Calm, Hosts
    <3> HIDE DEF t, l
    <3>4. NodeClaim(x, l, t)
      BY <2>1, <2>2, <2>4, <3>1, <3>3 DEF NodeClaim, Apart, Seqs
    <3>5. DeviceClaim(p.ses, l, t)
      BY <2>7, <3>1, <3>3 DEF Claim, DeviceClaim
    <3>6. QED
      BY <2>6, <3>4, <3>5 DEF Claim, t, l
  <2>8. ASSUME NEW g \in Hosts, Claim(p.ses, p.lost, g)
        PROVE  Claim(x, Losing(p.lost, m.k), g)
    <3> DEFINE l == Losing(p.lost, m.k)
    <3>1. l.node = Least(p.lost.node + 1, SeqBase) /\ l.device = p.lost.device
      BY <2>1, <2>5 DEF Losing, Kind, Losses
    <3>2. /\ p.lost.node \in 0..SeqBase /\ g.node \in Seqs /\ p.ses.node \in Seqs
      BY <2>1 DEF Losses, Hosts, Sessions
    <3> HIDE DEF l
    <3>3. l.node < SeqBase => /\ l.node = p.lost.node + 1 /\ p.lost.node < SeqBase
                              /\ l.node # 0
      BY <2>1, <3>1, <3>2 DEF Least
    <3>4. l.node < SeqBase => Apart(g.node, l.node, n)
      BY <2>8, <3>2, <3>3, ApartSteps DEF Claim, NodeClaim, n
    <3>5. NodeClaim(x, l, g)
      BY <2>4, <3>3, <3>4 DEF NodeClaim
    <3>6. DeviceClaim(p.ses, l, g)
      BY <2>8, <3>1 DEF Claim, DeviceClaim
    <3>7. QED
      BY <2>6, <3>5, <3>6 DEF Claim, l
  <2>9. q \in Publishers /\ q.ses = x /\ q.lost = p.lost /\ q.chan = p.chan
    BY <2>4 DEF Publishers
  <2> HIDE DEF q
  <2>10. Follows(p.ses, q.lost, q.chan, h)
    BY <2>9 DEF Followed
  <2>11. Follows(x, Send(q, m).lost, Send(q, m).chan, h)
    BY <2>5, <2>7, <2>8, <2>9, <2>10, SendFollows
  <2>12. Send(q, m).ses = x
    BY <2>5, <2>9, SendTypes
  <2>13. QED
    BY <2>3, <2>11, <2>12 DEF Followed
<1>3. QED
  BY <1>1, <1>2

(* A claim that is carried over from one session to the next.              *)
LEMMA ClaimFollows ==
  ASSUME NEW p \in Publishers, NEW h \in Hosts, NEW x, NEW y,
         Follows(x, p.lost, p.chan, h),
         \A g \in Hosts : Claim(x, p.lost, g) => Claim(y, p.lost, g)
  PROVE  Follows(y, p.lost, p.chan, h)
<1>1. Len(p.chan) \in Nat
  BY DEF Publishers
<1>2. PICK st : /\ Replays(st, h, p.chan)
                /\ h.ask \/ Refuses(st, p.chan) \/ Claim(x, p.lost, st[Len(p.chan) + 1])
  BY DEF Follows
<1>3. st[Len(p.chan) + 1] \in Hosts
  BY <1>1, <1>2 DEF Replays
<1>4. QED
  BY <1>2, <1>3 DEF Follows

(* A new catalog: the host learns it from the DBIRTH, and until then does  *)
(* not take the old one for it.                                            *)
LEMMA ReplaceFollows ==
  ASSUME NEW p \in Publishers, NEW h \in Hosts, NEW c \in Catalogs, born,
         Followed(p, h)
  PROVE  Followed(ReplaceCatalog(p, c), h)
<1> DEFINE old == IF p.ses.catalog # <<>> THEN PublishDdeath(p) ELSE p
           set == [old EXCEPT !.ses = SetCatalog(@, c)]
<1>1. ReplaceCatalog(p, c) = PublishDbirth(set)
  BY DEF ReplaceCatalog
<1>2. p.ses \in Sessions /\ p.lost \in Losses /\ SeqBase \in Nat
  BY CapsAssumption DEF Publishers
<1>3. CASE p.ses.catalog = <<>>
  <2> DEFINE y == SetCatalog(p.ses, c)
  <2>1. y \in Sessions
    BY <1>2, CatalogTypes
  <2>2. /\ y.node = p.ses.node /\ y.drops = p.ses.drops /\ y.dev = p.ses.dev
    BY <1>2 DEF SetCatalog, Sessions
  <2>3. set \in Publishers /\ set.ses = y /\ set.lost = p.lost /\ set.chan = p.chan
    BY <1>3, <2>1 DEF Publishers
  <2> HIDE DEF y, set
  <2>4. ASSUME NEW g \in Hosts, Claim(p.ses, p.lost, g) PROVE Claim(y, p.lost, g)
    <3>1. p.lost.device < SeqBase /\ g.device => p.lost.device # 0
      BY <1>3, <2>4 DEF Claim, DeviceClaim
    <3>2. QED
      BY <2>2, <2>4, <3>1 DEF Claim, NodeClaim, DeviceClaim
  <2>5. Follows(y, p.lost, p.chan, h)
    BY <2>4, ClaimFollows DEF Followed
  <2>6. Followed(set, h)
    BY <2>3, <2>5 DEF Followed
  <2>7. QED
    BY <1>1, <2>3, <2>6, DbirthFollows
<1>4. CASE p.ses.catalog # <<>>
  <2> DEFINE n == NextSeq(p.ses.dev)
             x == [p.ses EXCEPT !.dev = n]
             q == [p EXCEPT !.ses = x]
             m == [k |-> "DDEATH", seq |-> n]
             y == SetCatalog(x, c)
  <2>1. n \in Seqs
    BY <1>2, SeqSteps DEF Sessions
  <2>2. PublishDdeath(p) = Send(q, m)
    BY DEF PublishDdeath, Publishers, Sessions
  <2> HIDE DEF n
  <2>3. x \in Sessions /\ x.node = p.ses.node /\ x.drops = p.ses.drops /\ x.dev = n
    BY <1>2, <2>1 DEF Sessions
  <2>4. m \in Messages /\ m.k = "DDEATH"
    BY <2>1 DEF Messages, DevDeaths
  <2> HIDE DEF x, m
  <2>5. y \in Sessions
    BY <2>3, CatalogTypes
  <2>6. y.node = p.ses.node /\ y.drops = p.ses.drops /\ y.dev = n
    BY <2>3 DEF SetCatalog, Sessions
  <2>7. q \in Publishers /\ q.ses = x /\ q.lost = p.lost /\ q.chan = p.chan
    BY <2>3 DEF Publishers
  <2> HIDE DEF q
  <2>8. Send(q, m) \in Publishers /\ Send(q, m).ses = x
    BY <2>4, <2>7, SendTypes
  <2>9. /\ set \in Publishers /\ set.ses = y /\ set.lost = Send(q, m).lost
        /\ set.chan = Send(q, m).chan
    <3>1. set = [Send(q, m) EXCEPT !.ses = y]
      BY <1>4, <2>2, <2>8
    <3> HIDE DEF set, y
    <3>2. QED
      BY <2>5, <2>8, <3>1 DEF Publishers
  <2> HIDE DEF set, y
  <2>10. ASSUME NEW g \in Hosts, Claim(p.ses, p.lost, g)
         PROVE  Claim(y, Queueing(p.lost, m.k), Calm(HostTakes(g, m)))
    <3> DEFINE t == Calm(HostTakes(g, m))
               l == Queueing(p.lost, m.k)
    <3>1. l.node = p.lost.node
      BY <1>2, <2>4 DEF Queueing, Kind, Losses
    <3>2. t.node = g.node /\ t.drops = g.drops /\ ~t.device
      BY <2>4 DEF HostTakes, Calm, Hosts
    <3> HIDE DEF t, l
    <3>3. NodeClaim(y, l, t) /\ DeviceClaim(y, l, t)
      BY <2>6, <2>10, <3>1, <3>2 DEF Claim, NodeClaim, DeviceClaim
    <3>4. QED
      BY <3>3 DEF Claim, t, l
  <2>11. ASSUME NEW g \in Hosts, Claim(p.ses, p.lost, g)
         PROVE  Claim(y, Losing(p.lost, m.k), g)
    <3> DEFINE l == Losing(p.lost, m.k)
    <3>1. l.device = Least(p.lost.device + 1, SeqBase) /\ l.node = p.lost.node
      BY <1>2, <2>4 DEF Losing, Kind, Losses
    <3>2. p.lost.device \in 0..SeqBase /\ g.dev \in Seqs /\ p.ses.dev \in Seqs
      BY <1>2 DEF Losses, Hosts, Sessions
    <3> HIDE DEF l
    <3>3. l.device < SeqBase => /\ l.device = p.lost.device + 1 /\ p.lost.device < SeqBase
                                /\ l.device # 0
      BY <1>2, <3>1, <3>2 DEF Least
    <3>4. l.device < SeqBase /\ g.device => Apart(g.dev, l.device, n) /\ g.table # <<>>
      BY <2>11, <3>2, <3>3, ApartSteps DEF Claim, DeviceClaim, n
    <3>5. DeviceClaim(y, l, g)
      BY <2>6, <3>3, <3>4 DEF DeviceClaim
    <3>6. NodeClaim(y, l, g)
      BY <2>6, <2>11, <3>1 DEF Claim, NodeClaim
    <3>7. QED
      BY <3>5, <3>6 DEF Claim, l
  <2>12. Follows(p.ses, q.lost, q.chan, h)
    BY <2>7 DEF Followed
  <2>13. Follows(y, Send(q, m).lost, Send(q, m).chan, h)
    BY <2>4, <2>7, <2>10, <2>11, <2>12, SendFollows
  <2>14. Followed(set, h)
    BY <2>9, <2>13 DEF Followed
  <2>15. QED
    BY <1>1, <2>9, <2>14, DbirthFollows
<1>5. QED
  BY <1>3, <1>4

(* A DDATA the host accepts follows on the last message it has, so the     *)
(* aliases mean to the host what they mean to the session.                 *)
LEMMA DataAccepted ==
  ASSUME NEW x \in Sessions, NEW q \in Seq(Samples), Ordered(q),
         NEW lost \in Losses, NEW g \in Hosts, DeviceClaim(x, lost, g),
         lost.device < SeqBase,
         ~HostTakes(g, DataMessage(x, q)).ask
  PROVE  LET y == DataSession(x, q)
             t == Calm(HostTakes(g, DataMessage(x, q)))
         IN /\ t.node = g.node /\ t.drops = g.drops
            /\ Apart(t.dev, 0, y.dev) /\ t.table # <<>> /\ t.table = y.catalog
            /\ \A s \in Range(y.catalog) : t.v[s] = Cached(y, s)
<1> DEFINE m == DataMessage(x, q)
           y == DataSession(x, q)
           c == x.catalog
           n == NextSeq(x.dev)
           D == {a \in DOMAIN c : c[a] \in Known(c, q)}
           w == [a \in D |-> Chosen(q, c[a])]
           at(s) == CHOOSE a \in DOMAIN m.v : g.table[a] = s
           v == [s \in S |-> IF \E a \in DOMAIN m.v : g.table[a] = s
                             THEN m.v[at(s)] ELSE g.v[s]]
<1>1. m.k = "DDATA" /\ m.seq = n /\ m.v = w
  BY DEF DataMessage
<1>2. n \in Seqs /\ x.dev \in Seqs /\ c \in Seq(S)
  BY SeqSteps, CapsAssumption DEF Sessions, S
<1>3. y.dev = n /\ y.catalog = c
  BY DEF DataSession, Sessions
<1>4. \A s \in S : y.device[s] = IF s \in Known(c, q) THEN Chosen(q, s) ELSE x.device[s]
  BY DEF DataSession, Sessions
<1>5. \A s \in Known(c, q) : s \in S /\ Chosen(q, s) \in Values
  <2>1. Range(c) \subseteq S
    BY <1>2 DEF Range
  <2>2. QED
    BY <2>1, LatestIs DEF Known, Ordered
<1> HIDE DEF m, y, v, n, w
<1>6. /\ g.device /\ n = NextSeq(g.dev)
      /\ HostTakes(g, m) = [g EXCEPT !.dev = n, !.v = v]
  <2>1. HostTakes(g, m) =
          IF ~g.device \/ m.seq # NextSeq(g.dev) \/ ~(DOMAIN m.v \subseteq DOMAIN g.table)
          THEN [g EXCEPT !.ask = TRUE, !.device = FALSE]
          ELSE [g EXCEPT !.dev = m.seq, !.v = v]
    BY <1>1 DEF HostTakes, Hosts, v
  <2>2. [g EXCEPT !.ask = TRUE, !.device = FALSE].ask
    BY DEF Hosts
  <2>3. ~HostTakes(g, m).ask
    BY DEF m
  <2>4. QED
    BY <1>1, <2>1, <2>2, <2>3
<1>7. lost.device = 0
  <2>1. lost.device \in 0..SeqBase /\ g.dev \in Seqs
    BY DEF Losses, Hosts
  <2>2. Apart(g.dev, lost.device, x.dev)
    BY <1>6 DEF DeviceClaim
  <2>3. QED
    BY <1>2, <1>6, <2>1, <2>2, ApartSteps DEF n
<1>8. g.table = c /\ g.table # <<>> /\ \A s \in Range(c) : g.v[s] = Cached(x, s)
  BY <1>6, <1>7 DEF DeviceClaim
<1> DEFINE t == Calm(HostTakes(g, m))
<1>9. t.node = g.node /\ t.drops = g.drops /\ t.dev = n /\ t.table = g.table /\ t.v = v
  BY <1>6 DEF Calm, Hosts
<1> HIDE DEF t
<1>10. ASSUME NEW s \in Range(c) PROVE v[s] = Cached(y, s)
  <2>1. s \in S
    BY <1>2 DEF Range
  <2>2. v[s] = IF \E a \in DOMAIN m.v : g.table[a] = s THEN m.v[at(s)] ELSE g.v[s]
    BY <2>1 DEF v
  <2>3. DOMAIN m.v = D /\ \A a \in D : m.v[a] = Chosen(q, c[a])
    BY <1>1 DEF w
  <2>4. CASE s \in Known(c, q)
    <3>1. PICK a \in DOMAIN c : c[a] = s
      BY DEF Range
    <3>2. a \in DOMAIN m.v /\ g.table[a] = s
      BY <1>8, <2>3, <2>4, <3>1
    <3>3. at(s) \in DOMAIN m.v /\ g.table[at(s)] = s
      BY <3>2
    <3>4. m.v[at(s)] = Chosen(q, s)
      BY <1>8, <2>3, <3>3
    <3>5. v[s] = Chosen(q, s)
      BY <2>2, <3>2, <3>4
    <3>6. Cached(y, s) = Chosen(q, s)
      BY <1>4, <1>5, <2>1, <2>4, CapsAssumption DEF Cached, None
    <3>7. QED
      BY <3>5, <3>6
  <2>5. CASE s \notin Known(c, q)
    <3>1. ~\E a \in DOMAIN m.v : g.table[a] = s
      BY <1>8, <2>3, <2>5
    <3>2. v[s] = Cached(x, s)
      BY <1>8, <2>2, <3>1
    <3>3. Cached(x, s) = Cached(y, s)
      BY <1>4, <2>1, <2>5 DEF Cached
    <3>4. QED
      BY <3>2, <3>3
  <2>6. QED
    BY <2>4, <2>5
<1>11. Apart(n, 0, n)
  BY <1>2 DEF Apart, Seqs
<1>12. QED
  BY <1>3, <1>8, <1>9, <1>10, <1>11 DEF t, m, y

(* A DDATA brings the host up to date or is a gap it will see.             *)
LEMMA DDataFollows ==
  ASSUME NEW p \in Publishers, NEW h \in Hosts, NEW q \in Seq(Samples), Ordered(q),
         Followed(p, h)
  PROVE  Followed(DData(p, q), h)
<1> DEFINE y == DataSession(p.ses, q)
           m == DataMessage(p.ses, q)
           r == [p EXCEPT !.ses = y]
<1>1. p.ses \in Sessions /\ p.lost \in Losses /\ SeqBase \in Nat
  BY CapsAssumption DEF Publishers
<1>2. y \in Sessions /\ m \in Messages
  BY <1>1, DataTypes
<1>3. m.k = "DDATA"
  BY DEF DataMessage
<1>4. /\ y.node = p.ses.node /\ y.drops = p.ses.drops /\ y.dev = NextSeq(p.ses.dev)
  BY <1>1 DEF DataSession, Sessions
<1>5. DData(p, q) = p \/ DData(p, q) = Send(r, m)
  BY DDataIs
<1>6. ASSUME NEW g \in Hosts, Claim(p.ses, p.lost, g), ~HostTakes(g, m).ask
      PROVE  Claim(y, Queueing(p.lost, m.k), Calm(HostTakes(g, m)))
  <2> DEFINE t == Calm(HostTakes(g, m))
             l == Queueing(p.lost, m.k)
  <2>1. /\ l.device = IF p.lost.device = SeqBase THEN SeqBase ELSE 0
        /\ l.node = p.lost.node
    BY <1>1, <1>3 DEF Queueing, Kind, Losses
  <2>2. t.node = g.node /\ t.drops = g.drops
    <3> HIDE DEF m
    <3> DEFINE v == [s \in S |-> IF \E a \in DOMAIN m.v : g.table[a] = s
                                 THEN m.v[CHOOSE a \in DOMAIN m.v : g.table[a] = s]
                                 ELSE g.v[s]]
    <3>1. \/ HostTakes(g, m) = [g EXCEPT !.ask = TRUE, !.device = FALSE]
          \/ HostTakes(g, m) = [g EXCEPT !.dev = m.seq, !.v = v]
      BY <1>3 DEF HostTakes, Hosts
    <3> HIDE DEF v
    <3>2. QED
      BY <3>1 DEF Calm, Hosts
  <2>3. l.device < SeqBase =>
          /\ Apart(t.dev, 0, y.dev) /\ t.table # <<>> /\ t.table = y.catalog
          /\ \A s \in Range(y.catalog) : t.v[s] = Cached(y, s)
    <3>1. SUFFICES ASSUME l.device < SeqBase
                   PROVE  /\ Apart(t.dev, 0, y.dev) /\ t.table # <<>> /\ t.table = y.catalog
                          /\ \A s \in Range(y.catalog) : t.v[s] = Cached(y, s)
      OBVIOUS
    <3>2. p.lost.device < SeqBase
      BY <1>1, <2>1, <3>1 DEF Losses
    <3>3. DeviceClaim(p.ses, p.lost, g)
      BY <1>6 DEF Claim
    <3>4. QED
      BY <1>1, <1>6, <3>2, <3>3, DataAccepted
  <2> HIDE DEF t, l, y
  <2>4. NodeClaim(y, l, t)
    BY <1>4, <1>6, <2>1, <2>2 DEF Claim, NodeClaim
  <2>5. l.device < SeqBase => l.device = 0
    BY <1>1, <2>1
  <2>6. DeviceClaim(y, l, t)
    BY <2>3, <2>5 DEF DeviceClaim
  <2>7. QED
    BY <2>4, <2>6 DEF Claim, t, l
<1> HIDE DEF y, m
<1>7. ASSUME NEW g \in Hosts, Claim(p.ses, p.lost, g)
      PROVE  Claim(y, Losing(p.lost, m.k), g)
  <2> DEFINE l == Losing(p.lost, m.k)
  <2>1. l.device = Least(p.lost.device + 1, SeqBase) /\ l.node = p.lost.node
    BY <1>1, <1>3 DEF Losing, Kind, Losses
  <2>2. p.lost.device \in 0..SeqBase /\ g.dev \in Seqs /\ p.ses.dev \in Seqs
    BY <1>1 DEF Losses, Hosts, Sessions
  <2> HIDE DEF l
  <2>3. l.device < SeqBase => /\ l.device = p.lost.device + 1 /\ p.lost.device < SeqBase
                              /\ l.device # 0
    BY <1>1, <2>1, <2>2 DEF Least
  <2>4. l.device < SeqBase /\ g.device => Apart(g.dev, l.device, y.dev) /\ g.table # <<>>
    BY <1>4, <1>7, <2>2, <2>3, ApartSteps DEF Claim, DeviceClaim
  <2>5. DeviceClaim(y, l, g)
    BY <2>3, <2>4 DEF DeviceClaim
  <2>6. NodeClaim(y, l, g)
    BY <1>4, <1>7, <2>1 DEF Claim, NodeClaim
  <2>7. QED
    BY <2>5, <2>6 DEF Claim, l
<1>8. r \in Publishers /\ r.ses = y /\ r.lost = p.lost /\ r.chan = p.chan
  BY <1>2 DEF Publishers
<1> HIDE DEF r
<1>9. Follows(p.ses, r.lost, r.chan, h)
  BY <1>8 DEF Followed
<1>10. Follows(y, Send(r, m).lost, Send(r, m).chan, h)
  BY <1>2, <1>6, <1>7, <1>8, <1>9, SendFollows
<1>11. Send(r, m).ses = y
  BY <1>2, <1>8, SendTypes
<1>12. QED
  BY <1>5, <1>10, <1>11 DEF Followed

(* The births, at a connection or when the host asks for them, start a new *)
(* record whatever was lost before.                                        *)
LEMMA BirthsFollow ==
  ASSUME NEW p \in Publishers, NEW h \in Hosts, drops \in Counts, Replayable(p.chan, h)
  PROVE  Followed(PublishDbirth(PublishNbirth(p)), h)
<1>1. PublishNbirth(p) \in Publishers
  BY NbirthTypes DEF Keeps
<1>2. Followed(PublishNbirth(p), h)
  BY NbirthFollows
<1>3. QED
  BY <1>1, <1>2, DbirthFollows

(* The message that arrives is the first of the replay.                    *)
LEMMA DeliverFollows ==
  ASSUME NEW x, NEW lost, NEW ch \in Seq(Messages), NEW h \in Hosts, ch # <<>>,
         Follows(x, lost, ch, h)
  PROVE  Follows(x, lost, Tail(ch), HostTakes(h, Head(ch)))
<1> DEFINE n == Len(ch)
           m == Head(ch)
           r == Tail(ch)
           h1 == HostTakes(h, m)
<1>1. PICK st : /\ Replays(st, h, ch)
                /\ h.ask \/ Refuses(st, ch) \/ Claim(x, lost, st[Len(ch) + 1])
  BY DEF Follows
<1>2. /\ n \in Nat /\ n >= 1 /\ m = ch[1] /\ m \in Messages
      /\ Len(r) = n - 1 /\ \A i \in 1..(n - 1) : r[i] = ch[i + 1]
  OBVIOUS
<1> HIDE DEF n, m, r
<1> DEFINE sx == [i \in 1..n |-> st[i + 1]]
<1>3. /\ st \in [1..(n + 1) -> Hosts] /\ st[1] = Calm(h)
      /\ \A i \in 1..n : st[i + 1] = Calm(HostTakes(st[i], ch[i]))
  BY <1>1 DEF Replays, n
<1>4. sx \in [1..n -> Hosts] /\ \A i \in 1..n : sx[i] = st[i + 1]
  BY <1>2, <1>3
<1> HIDE DEF sx
<1>5. /\ Calm(h1) = Calm(HostTakes(Calm(h), m))
      /\ h1.ask <=> h.ask \/ HostTakes(Calm(h), m).ask
  BY <1>2, TakesCalm
<1>6. sx[1] = Calm(h1)
  BY <1>2, <1>3, <1>4, <1>5
<1>7. \A i \in 1..(n - 1) : /\ HostTakes(sx[i], r[i]) = HostTakes(st[i + 1], ch[i + 1])
                            /\ sx[i + 1] = Calm(HostTakes(sx[i], r[i]))
  BY <1>2, <1>3, <1>4
<1>8. Replays(sx, h1, r)
  BY <1>2, <1>4, <1>6, <1>7 DEF Replays
<1>9. sx[Len(r) + 1] = st[n + 1]
  BY <1>2, <1>4
<1>10. Refuses(st, ch) => h1.ask \/ Refuses(sx, r)
  <2>1. SUFFICES ASSUME NEW i \in 1..n, HostTakes(st[i], ch[i]).ask
                 PROVE  h1.ask \/ Refuses(sx, r)
    BY DEF Refuses, n
  <2>2. CASE i = 1
    BY <1>2, <1>3, <1>5, <2>1, <2>2
  <2>3. CASE i # 1
    <3>1. i - 1 \in 1..(n - 1) /\ (i - 1) + 1 = i
      BY <1>2, <2>3
    <3>2. HostTakes(sx[i - 1], r[i - 1]).ask
      BY <1>7, <2>1, <3>1
    <3>3. QED
      BY <1>2, <3>1, <3>2 DEF Refuses
  <2>4. QED
    BY <2>2, <2>3
<1>11. h1.ask \/ Refuses(sx, r) \/ Claim(x, lost, sx[Len(r) + 1])
  BY <1>1, <1>5, <1>9, <1>10 DEF n
<1>12. QED
  BY <1>8, <1>11 DEF Follows, m, r

(* The handlers start from the session, the client's queue and the losses. *)
LEMMA PublisherParts ==
  ASSUME TypeInv
  PROVE  /\ Publisher \in Publishers /\ Publisher.ses = ses /\ Publisher.chan = chan
         /\ Publisher.lost = hist.lost
<1>1. ses \in Sessions /\ chan \in Seq(Messages) /\ hist.lost \in Losses
  BY DEF TypeInv
<1>2. QED
  BY <1>1 DEF Publisher, Publishers

(* What a handler publishes becomes the state.                             *)
LEMMA PublishesFollows ==
  ASSUME TypeInv, NEW p \in Publishers, Publishes(p), Followed(p, host')
  PROVE  Follows(ses', hist'.lost, chan', host')
<1>1. ses' = p.ses /\ chan' = p.chan /\ hist'.lost = p.lost
  BY DEF Publishes, TypeInv
<1>2. QED
  BY <1>1 DEF Followed

(* Every step keeps the host following, or ends the session.               *)
LEMMA NextGap ==
  ASSUME BaseInv, GapInv, [Next]_vars
  PROVE  GapInv'
<1> USE DEF BaseInv
<1>1. Publisher \in Publishers /\ host \in Hosts /\ drops \in Counts
  BY PublisherParts DEF TypeInv
<1>2. born => Followed(Publisher, host)
  BY PublisherParts DEF GapInv, Followed
<1>3. CASE UNCHANGED <<ses, born, chan, host, hist>>
  BY <1>3 DEF GapInv
<1>4. CASE \/ Scan \/ BeginDrain \/ ImageChanges \/ PushCatalog \/ TimerBeforeBirth
           \/ UNCHANGED vars
  <2>1. UNCHANGED <<ses, born, chan, host, hist>>
    BY <1>4 DEF Scan, PublishTelemetry, BeginDrain, TimerBeforeBirth, ImageChanges,
      PushCatalog, Change, vars
  <2>2. QED
    BY <1>3, <2>1
<1>5. CASE NewClient \/ Accept \/ PollFails \/ BrokerTimesOut
  <2>1. ~born'
    <3>1. CASE NewClient
      BY <3>1 DEF NewClient
    <3>2. CASE Accept
      BY <3>2 DEF Accept, BornInv
    <3>3. CASE PollFails
      BY <3>3 DEF PollFails, BornInv
    <3>4. CASE BrokerTimesOut
      BY <3>4 DEF BrokerTimesOut, BornInv
    <3>5. QED
      BY <1>5, <3>1, <3>2, <3>3, <3>4
  <2>2. QED
    BY <2>1 DEF GapInv
<1>6. CASE OnConnected
  <2> DEFINE sub == Send(Publisher, [k |-> "SUB"])
             p == PublishDbirth(PublishNbirth(sub))
  <2>1. chan = <<>>
    BY <1>6 DEF OnConnected, BornInv
  <2>2. Replayable(Publisher.chan, host)
    <3> DEFINE st == [i \in 1..1 |-> Calm(host)]
    <3>1. Calm(host) \in Hosts
      BY <1>1 DEF Calm, Hosts
    <3>2. Len(chan) = 0
      BY <2>1
    <3>3. Replays(st, host, chan)
      BY <3>1, <3>2 DEF Replays
    <3>4. QED
      BY <3>3, PublisherParts DEF Replayable
  <2>3. [k |-> "SUB"] \in Messages
    BY DEF Messages
  <2>4. sub \in Publishers /\ Replayable(sub.chan, host)
    BY <1>1, <2>2, <2>3, SendTypes, SendReplay
  <2> HIDE DEF sub
  <2>5. Followed(p, host)
    BY <1>1, <2>4, BirthsFollow
  <2>6. ses' = p.ses /\ chan' = p.chan /\ hist'.lost = p.lost /\ host' = host
    BY <1>6 DEF OnConnected, sub, TypeInv
  <2> HIDE DEF p
  <2>7. QED
    BY <2>5, <2>6 DEF GapInv, Followed
<1>7. CASE ReceiveCatalog
  <2> DEFINE c == Head(queue)
             p == ReplaceCatalog(Publisher, c)
  <2>1. c \in Catalogs
    BY <1>7 DEF ReceiveCatalog, TypeInv
  <2>2. Publishes(p) /\ born' = born /\ host' = host
    BY <1>7 DEF ReceiveCatalog
  <2> HIDE DEF c
  <2>3. p \in Publishers
    BY <1>1, <2>1, ReplaceTypes DEF Keeps, TypeInv
  <2>4. born => Followed(p, host)
    BY <1>1, <1>2, <2>1, ReplaceFollows
  <2> HIDE DEF p
  <2>5. QED
    BY <2>2, <2>3, <2>4, PublishesFollows DEF GapInv
<1>8. CASE TryRecv
  <2>1. UNCHANGED <<ses, born, chan, host>> /\ hist'.lost = hist.lost
    BY <1>8 DEF TryRecv, TypeInv
  <2>2. QED
    BY <2>1 DEF GapInv
<1>9. CASE Drain
  <2> DEFINE n == NData(Publisher)
             p == DData(n, work.samples)
  <2>1. Publishes(p) /\ host' = host /\ born
    BY <1>9 DEF Drain, BornInv
  <2>2. work.samples \in Seq(Samples) /\ Ordered(work.samples)
    BY DEF TypeInv, SampleInv, Ordered
  <2>3. n \in Publishers /\ Followed(n, host)
    BY <1>1, <1>2, <2>1, NDataTypes, NDataFollows DEF Keeps
  <2> HIDE DEF n
  <2>4. p \in Publishers /\ Followed(p, host)
    BY <1>1, <2>2, <2>3, DDataTypes, DDataFollows DEF Keeps
  <2> HIDE DEF p
  <2>5. QED
    BY <2>1, <2>4, PublishesFollows DEF GapInv
<1>10. CASE HandleIncoming
  <2> DEFINE q == [Publisher EXCEPT !.ses = OnRebirth(@)]
             p == PublishDbirth(PublishNbirth(q))
  <2>1. Publishes(p) /\ host' = Calm(host)
    BY <1>10 DEF HandleIncoming, Rebirth, Calm
  <2>2. born
    BY <1>10 DEF HandleIncoming, BornInv
  <2>3. Calm(host) \in Hosts /\ Calm(Calm(host)) = Calm(host)
    BY <1>1 DEF Calm, Hosts
  <2>4. Replayable(chan, Calm(host))
    BY <2>2, <2>3 DEF GapInv, Follows, Replays, Replayable
  <2>5. q \in Publishers /\ q.chan = chan
    <3>1. ses \in Sessions /\ 0 \in Seqs
      BY CapsAssumption DEF TypeInv, Seqs
    <3>2. OnRebirth(ses) \in Sessions
      BY <3>1 DEF OnRebirth, Sessions
    <3>3. q = [Publisher EXCEPT !.ses = OnRebirth(ses)]
      BY PublisherParts DEF Publishers
    <3>4. QED
      BY <1>1, <3>2, <3>3, PublisherParts DEF Publishers
  <2> HIDE DEF q
  <2>6. Followed(p, host')
    BY <1>1, <2>1, <2>3, <2>4, <2>5, BirthsFollow
  <2>7. p \in Publishers
    BY <1>1, <2>5, NbirthTypes, DbirthTypes DEF Keeps
  <2> HIDE DEF p
  <2>8. QED
    BY <2>1, <2>6, <2>7, PublishesFollows DEF GapInv
<1>11. CASE Deliver
  <2>1. /\ chan # <<>> /\ host' = HostTakes(host, Head(chan)) /\ chan' = Tail(chan)
        /\ UNCHANGED <<ses, born, hist>>
    BY <1>11 DEF Deliver
  <2>2. chan \in Seq(Messages)
    BY DEF TypeInv
  <2>3. born => Follows(ses, hist.lost, chan', host')
    BY <1>1, <2>1, <2>2, DeliverFollows DEF GapInv
  <2>4. QED
    BY <2>1, <2>3 DEF GapInv
<1>12. CASE HostAsks
  <2>1. host' = [host EXCEPT !.ask = TRUE] /\ UNCHANGED <<ses, born, chan, hist>>
    BY <1>12 DEF HostAsks, Change
  <2>2. Calm(host') = Calm(host) /\ host'.ask
    BY <1>1, <2>1 DEF Calm, Hosts
  <2>3. QED
    BY <2>1, <2>2 DEF GapInv, Follows, Replays
<1>13. QED
  BY <1>4, <1>5, <1>6, <1>7, <1>8, <1>9, <1>10, <1>11, <1>12
    DEF Next, Service, Surroundings

(* The inductive invariant.                                                *)
THEOREM TelemetryInvariant == Spec => []TelemetryInv
<1>1. Init => TelemetryInv
  BY InitBase DEF Init, GapInv, TelemetryInv, BaseInv
<1>2. TelemetryInv /\ [Next]_vars => TelemetryInv'
  BY NextBase, NextGap DEF TelemetryInv, BaseInv
<1>3. QED
  BY <1>1, <1>2, PTL DEF Spec, SlowSpec

(* A host that saw no gap and has the publisher's last sequence numbers    *)
(* knows the drop counter the node last reported and, by its right name,   *)
(* every value the session last took, unless a birth or SeqBase messages   *)
(* in a row were lost at the full client: for every catalog, every         *)
(* capacity of the client and every order of failures, rebirths and loss.  *)
THEOREM GaplessHostIsCurrent == Spec => []GaplessIsCurrent
<1>1. TelemetryInv => GaplessIsCurrent
  <2>1. SUFFICES ASSUME TelemetryInv, born, chan = <<>>, ~host.ask
                 PROVE  /\ hist.lost.node < SeqBase /\ host.online = ses.bd /\ host.node = ses.node
                             => host.drops = ses.drops
                        /\ hist.lost.device < SeqBase /\ host.device /\ host.dev = ses.dev
                             => /\ host.table = ses.catalog
                                /\ \A s \in Range(ses.catalog) : host.v[s] = Cached(ses, s)
    BY DEF GaplessIsCurrent
  <2>2. Len(chan) = 0 /\ host \in Hosts /\ ses \in Sessions /\ hist.lost \in Losses
    BY <2>1 DEF TelemetryInv, TypeInv
  <2>3. Claim(ses, hist.lost, Calm(host))
    BY <2>1, <2>2 DEF TelemetryInv, GapInv, Follows, Refuses, Replays
  <2>4. /\ Calm(host).node = host.node /\ Calm(host).drops = host.drops
        /\ Calm(host).device = host.device /\ Calm(host).dev = host.dev
        /\ Calm(host).table = host.table /\ Calm(host).v = host.v
    BY <2>2 DEF Calm, Hosts
  <2>5. /\ hist.lost.node \in 0..SeqBase /\ hist.lost.device \in 0..SeqBase
        /\ host.node \in Seqs /\ host.dev \in Seqs /\ ses.node \in Seqs /\ ses.dev \in Seqs
    BY <2>2 DEF Losses, Hosts, Sessions
  <2>6. hist.lost.node < SeqBase /\ host.node = ses.node => hist.lost.node = 0
    BY <2>3, <2>4, <2>5, ApartSteps DEF Claim, NodeClaim
  <2>7. hist.lost.device < SeqBase /\ host.device /\ host.dev = ses.dev
          => hist.lost.device = 0
    BY <2>3, <2>4, <2>5, ApartSteps DEF Claim, DeviceClaim
  <2>8. QED
    BY <2>3, <2>4, <2>6, <2>7 DEF Claim, NodeClaim, DeviceClaim
<1>2. QED
  BY <1>1, TelemetryInvariant, PTL
=============================================================================

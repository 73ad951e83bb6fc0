------------------------------ MODULE Telemetry ------------------------------
(***************************************************************************)
(* The telemetry path: publish_telemetry on the scan thread, the sample    *)
(* ring (plc-scan spsc.rs), the publisher and its Sparkplug session        *)
(* (plc-telemetry), the MQTT worker, and around them the broker and a host *)
(* application that follows the Sparkplug rules.                           *)
(* A sample is its slot and value; quality, force flag and timestamps ride *)
(* along with the value.  The node metrics mode and logic_overruns are     *)
(* handled like telemetry_drops, which stands for the three.               *)
(* Definitions named Mutant... are defective variants of the definition    *)
(* that follows them.                                                      *)
(***************************************************************************)
EXTENDS Integers, Sequences, FiniteSets, SequencesExt

CONSTANTS
    Slots,        \* sequence of the process-image slots, in publishing order
    Analog,       \* the slots that are not BOOL
    Values,       \* values of a slot; 0 is every type's default, -1 stands for none
    Catalogs,     \* tag catalogs: sequences of slots, alias = position
    AnalogPeriod, \* telemetry period of analog slots, in ticks (500 ms)
    DigitalCos,   \* least time between two publications of a BOOL (20 ms)
    RingCap,      \* capacity of the sample ring
    ChanCap,      \* requests the MQTT client queues (16)
    SeqBase,      \* number of Sparkplug sequence numbers (256)
    MaxDrops,     \* bound: drops are counted up to here
    MaxScans,     \* bound: passes of the scan thread
    MaxChanges,   \* bound: changes of the image, catalogs, requests of the host
    MaxFailures   \* bound: connections that fail

ASSUME CapsAssumption ==
    /\ RingCap \in Nat \ {0} /\ ChanCap \in Nat \ {0, 1, 2}
    /\ SeqBase \in Nat /\ SeqBase > ChanCap /\ MaxDrops \in Nat \ {0}
    /\ Analog \subseteq Range(Slots) /\ 0 \in Values /\ <<>> \in Catalogs
    /\ Slots # <<>> /\ Slots \in Seq(Range(Slots)) /\ -1 \notin Values
    /\ \A c \in Catalogs: c \in Seq(Range(Slots))
    /\ AnalogPeriod \in Nat /\ DigitalCos \in Nat
    /\ MaxScans \in Nat /\ MaxChanges \in Nat /\ MaxFailures \in Nat

VARIABLES
    image,        \* process image
    scan,         \* scan thread: slot to publish next, PublishTrack by slot
    ring, drops,  \* sample ring and its drop counter
    queue,        \* catalogs sent to the worker
    work,         \* MQTT worker: program counter, samples drained, session_live
    ses,          \* SessionState
    born,         \* Publisher.born
    chan,         \* requests in the MQTT client, on their way to the broker
    broker,       \* the connection the broker holds: its will, or nothing
    host,         \* what the host application knows
    hist,         \* history: samples received by slot, births, messages lost
    scans, changes, failures

vars == <<image, scan, ring, drops, queue, work, ses, born, chan, broker, host, hist,
          scans, changes, failures>>

S == Range(Slots)
None == -1
Least(a, b) == IF a <= b THEN a ELSE b

(***************************************************************************)
(* The scan thread.                                                        *)
(***************************************************************************)
ShouldPublish(t, s, v) ==
    \/ ~t.ever
    \/ IF s \in Analog THEN t.last # v \/ t.age >= AnalogPeriod
       ELSE t.last # v /\ t.age >= DigitalCos

MutantPushDropOldest(v, contended) ==
    IF contended THEN [ring |-> ring, drops |-> drops]
    ELSE [ring |-> Append(IF Len(ring) >= RingCap THEN Tail(ring) ELSE ring, v),
          drops |-> IF Len(ring) >= RingCap THEN Least(drops + 1, MaxDrops) ELSE drops]

(* try_lock fails while the consumer holds the lock for a pop.             *)
PushDropOldest(v, contended) ==
    IF contended THEN [ring |-> ring, drops |-> Least(drops + 1, MaxDrops)]
    ELSE [ring |-> Append(IF Len(ring) >= RingCap THEN Tail(ring) ELSE ring, v),
          drops |-> IF Len(ring) >= RingCap THEN Least(drops + 1, MaxDrops) ELSE drops]

Marked(t, v) == [last |-> v, age |-> 0, ever |-> TRUE]

(* One slot of a pass over the image; the pass has one now_ms, `ticks`     *)
(* after the last one's.  A contended publish is marked like any other.    *)
PublishTelemetry(ticks, contended) ==
    LET first == scan.next = 1
        s == Slots[scan.next]
        v == image[s]
        aged == [t \in S |-> [scan.track[t] EXCEPT !.age =
                   Least(@ + ticks, IF t \in Analog THEN AnalogPeriod ELSE DigitalCos)]]
        due == ShouldPublish(aged[s], s, v)
        pushed == PushDropOldest([slot |-> s, v |-> v], contended)
    IN /\ IF first THEN scans > 0 /\ scans' = scans - 1 ELSE ticks = 0 /\ UNCHANGED scans
       /\ contended => due /\ work.pc = "recv"
       /\ ring' = IF due THEN pushed.ring ELSE ring
       /\ drops' = IF due THEN pushed.drops ELSE drops
       /\ scan' = [next |-> (scan.next % Len(Slots)) + 1,
                   track |-> IF due THEN [aged EXCEPT ![s] = Marked(@, v)] ELSE aged]
       /\ UNCHANGED <<image, queue, work, ses, born, chan, broker, host, hist, changes, failures>>

(***************************************************************************)
(* SessionState: payloads and sequence numbers.                            *)
(***************************************************************************)
Cached(x, s) == IF x.device[s] = None THEN 0 ELSE x.device[s]
NextSeq(n) == (n + 1) % SeqBase

SetCatalog(x, c) ==
    [x EXCEPT !.catalog = c,
              !.device = [s \in S |-> IF s \in Range(c) THEN @[s] ELSE None]]

(* Catalogs set one after the other: the last one stays, with the values   *)
(* of the slots that are in all of them.                                   *)
SetCatalogs(x, cs) ==
    IF cs = <<>> THEN x
    ELSE [x EXCEPT !.catalog = Last(cs),
                   !.device = [s \in S |-> IF \A c \in Range(cs): s \in Range(c)
                                            THEN @[s] ELSE None]]

MutantPrepareConnect(x) ==
    [x EXCEPT !.bd = IF x.first THEN @ ELSE @ + 1, !.node = 0, !.dev = 0, !.drops = None]

PrepareConnect(x) ==
    [x EXCEPT !.bd = IF x.first THEN @ ELSE @ + 1, !.first = FALSE, !.node = 0, !.dev = 0, !.drops = None]

OnRebirth(x) == [x EXCEPT !.node = 0, !.dev = 0, !.drops = None]

(***************************************************************************)
(* Publisher: a publish is queued, or dropped when the client is full.     *)
(* p gathers what one handler changes.                                     *)
(***************************************************************************)
Kind(k) == IF k \in {"NBIRTH", "NDATA"} THEN "node" ELSE "device"

(* Messages of a kind lost in a row; a lost birth, or SeqBase of them,     *)
(* stay until the next birth is queued.                                    *)
Losing(lost, k) ==
    CASE k = "SUB" -> lost
      [] k = "NBIRTH" -> [node |-> SeqBase, device |-> SeqBase]
      [] k = "DBIRTH" -> [lost EXCEPT !.device = SeqBase]
      [] OTHER -> [lost EXCEPT ![Kind(k)] = Least(@ + 1, SeqBase)]
Queueing(lost, k) ==
    CASE k = "SUB" -> lost
      [] k = "NBIRTH" -> [node |-> 0, device |-> 0]
      [] OTHER -> [lost EXCEPT ![Kind(k)] = IF k # "DBIRTH" /\ @ = SeqBase THEN @ ELSE 0]

Send(p, message) ==
    IF Len(p.chan) < ChanCap
    THEN [p EXCEPT !.chan = Append(@, message), !.lost = Queueing(@, message.k)]
    ELSE [p EXCEPT !.lost = Losing(@, message.k)]

PublishNbirth(p) ==
    Send([p EXCEPT !.ses.node = 0, !.ses.drops = drops],
         [k |-> "NBIRTH", seq |-> 0, bd |-> p.ses.bd, drops |-> drops])

PublishDbirth(p) ==
    LET c == p.ses.catalog IN
    IF c = <<>> THEN p
    ELSE Send([p EXCEPT !.ses.dev = 0],
              [k |-> "DBIRTH", seq |-> 0, table |-> c, v |-> [a \in DOMAIN c |-> Cached(p.ses, c[a])]])

PublishDdeath(p) ==
    Send([p EXCEPT !.ses.dev = NextSeq(@)], [k |-> "DDEATH", seq |-> NextSeq(p.ses.dev)])

Publisher == [ses |-> ses, chan |-> chan, lost |-> hist.lost]

Publishes(p) ==
    /\ ses' = p.ses /\ chan' = p.chan
    /\ hist' = [hist EXCEPT !.lost = p.lost]

ReplaceCatalog(p, c) ==
    LET old == IF born /\ p.ses.catalog # <<>> THEN PublishDdeath(p) ELSE p
        set == [old EXCEPT !.ses = SetCatalog(@, c)]
    IN IF born THEN PublishDbirth(set) ELSE set

NData(p) ==
    IF p.ses.drops = drops THEN p
    ELSE Send([p EXCEPT !.ses.drops = drops, !.ses.node = NextSeq(@)],
              [k |-> "NDATA", seq |-> NextSeq(p.ses.node), drops |-> drops])

MutantAdvance(x) == IF Len(chan) < ChanCap THEN NextSeq(x.dev) ELSE x.dev

Advance(x) == NextSeq(x.dev)

(* The last sample of a slot wins; slots outside the catalog are dropped.  *)
DData(p, samples) ==
    LET c == p.ses.catalog
        of(s) == {n \in DOMAIN samples: samples[n].slot = s}
        latest(s) == samples[CHOOSE n \in of(s): \A k \in of(s): k <= n].v
        known == {s \in Range(c): of(s) # {}}
        seq == Advance(p.ses)
    IN IF known = {} THEN p
       ELSE Send([p EXCEPT !.ses.device = [s \in S |-> IF s \in known THEN latest(s) ELSE @[s]],
                           !.ses.dev = seq],
                 [k |-> "DDATA", seq |-> seq,
                  v |-> [a \in {n \in DOMAIN c: c[n] \in known} |-> latest(c[a])]])

(***************************************************************************)
(* TelemetryService::run.                                                  *)
(***************************************************************************)
Init ==
    /\ image = [s \in S |-> 0]
    /\ scan = [next |-> 1, track |-> [s \in S |-> [last |-> 0, age |-> 0, ever |-> FALSE]]]
    /\ ring = <<>> /\ drops = 0 /\ (queue = <<>> \/ \E c \in Catalogs: queue = <<c>>)
    /\ work = [pc |-> "top", samples |-> <<>>, live |-> FALSE, accepted |-> FALSE]
    /\ ses = PrepareConnect([bd |-> 0, node |-> 0, dev |-> 0, first |-> TRUE, catalog |-> <<>>,
                             drops |-> None, device |-> [s \in S |-> None]])
    /\ born = FALSE /\ chan = <<>> /\ broker = <<>>
    /\ host = [online |-> None, node |-> 0, drops |-> None, device |-> FALSE,
               dev |-> 0, table |-> <<>>, v |-> [s \in S |-> 0], ask |-> FALSE]
    /\ hist = [taken |-> [s \in S |-> None], births |-> {}, lost |-> [node |-> 0, device |-> 0]]
    /\ scans = MaxScans /\ changes = MaxChanges /\ failures = MaxFailures

MutantNewClient ==
    /\ work.pc = "top"
    /\ ses' = SetCatalogs(ses, queue) /\ queue' = <<>> /\ chan' = <<>> /\ born' = FALSE
    /\ work' = [work EXCEPT !.pc = "poll", !.accepted = FALSE]
    /\ UNCHANGED <<image, scan, ring, drops, broker, host, hist, scans, changes, failures>>

(* The top of the outer loop: queued catalogs, a new client with its will. *)
NewClient ==
    /\ work.pc = "top"
    /\ ses' = SetCatalogs(ses, queue) /\ queue' = <<>> /\ chan' = <<>> /\ born' = FALSE
    /\ work' = [work EXCEPT !.pc = "poll", !.live = FALSE, !.accepted = FALSE]
    /\ UNCHANGED <<image, scan, ring, drops, broker, host, hist, scans, changes, failures>>

HostOffline(h, bd) == IF h.online = bd THEN [h EXCEPT !.online = None, !.device = FALSE] ELSE h

(* The broker takes the connection over and publishes the old one's will.  *)
Accept ==
    /\ work.pc = "poll" /\ ~work.accepted
    /\ host' = IF broker = <<>> THEN host ELSE HostOffline(host, broker[1])
    /\ broker' = <<ses.bd>>
    /\ work' = [work EXCEPT !.accepted = TRUE]
    /\ UNCHANGED <<image, scan, ring, drops, queue, ses, born, chan, hist, scans, changes, failures>>

(* CONNACK: subscribe, NBIRTH, DBIRTH, born.                               *)
OnConnected ==
    LET sub == Send(Publisher, [k |-> "SUB"])
        p == PublishDbirth(PublishNbirth(sub))
    IN /\ work.pc = "poll" /\ work.accepted /\ ~work.live
       /\ ses' = p.ses /\ chan' = p.chan
       /\ born' = TRUE
       /\ work' = [work EXCEPT !.live = TRUE]
       /\ hist' = [hist EXCEPT !.births = @ \cup {[will |-> broker[1], bd |-> ses.bd, n |-> Cardinality(@)]},
                               !.lost = p.lost]
       /\ UNCHANGED <<image, scan, ring, drops, queue, broker, host, scans, changes, failures>>

(* poll() fails: what the client still held is lost with it.               *)
PollFails ==
    /\ work.pc = "poll" /\ failures > 0
    /\ failures' = failures - 1
    /\ chan' = <<>>
    /\ ses' = IF work.live THEN PrepareConnect(ses) ELSE ses
    /\ born' = IF work.live THEN FALSE ELSE born
    /\ work' = [work EXCEPT !.pc = "top"]
    /\ UNCHANGED <<image, scan, ring, drops, queue, broker, host, hist, scans, changes>>

(* The broker notices the dead connection by itself.                       *)
BrokerTimesOut ==
    /\ broker # <<>> /\ (work.pc = "top" \/ ~work.accepted)
    /\ broker' = <<>> /\ host' = HostOffline(host, broker[1])
    /\ UNCHANGED <<image, scan, ring, drops, queue, work, ses, born, chan, hist, scans, changes, failures>>

(* select! drops the poll() future when another branch wins, and with it   *)
(* a connection attempt that has not had its CONNACK.                      *)
Interrupted == [work EXCEPT !.accepted = @ /\ work.live]

ReceiveCatalog ==
    /\ work.pc = "poll" /\ queue # <<>>
    /\ Publishes(ReplaceCatalog(Publisher, Head(queue)))
    /\ queue' = Tail(queue)
    /\ work' = Interrupted
    /\ UNCHANGED <<image, scan, ring, drops, born, broker, host, scans, changes, failures>>

(* The 10 ms timer before the births: drain does nothing, and the next     *)
(* poll() connects again.                                                  *)
TimerBeforeBirth ==
    /\ work.pc = "poll" /\ ~born /\ work.accepted
    /\ work' = Interrupted
    /\ UNCHANGED <<image, scan, ring, drops, queue, ses, born, chan, broker, host, hist,
                   scans, changes, failures>>

(* The 10 ms timer after them: drain the ring.                             *)
BeginDrain ==
    /\ work.pc = "poll" /\ born
    /\ work' = [work EXCEPT !.pc = "recv"]
    /\ UNCHANGED <<image, scan, ring, drops, queue, ses, born, chan, broker, host, hist,
                   scans, changes, failures>>

TryRecv ==
    /\ work.pc = "recv" /\ ring # <<>>
    /\ work' = [work EXCEPT !.samples = Append(@, Head(ring))]
    /\ ring' = Tail(ring)
    /\ hist' = [hist EXCEPT !.taken[Head(ring).slot] = Head(ring).v]
    /\ UNCHANGED <<image, scan, drops, queue, ses, born, chan, broker, host, scans, changes, failures>>

Drain ==
    /\ work.pc = "recv" /\ ring = <<>>
    /\ Publishes(DData(NData(Publisher), work.samples))
    /\ work' = [work EXCEPT !.pc = "poll", !.samples = <<>>]
    /\ UNCHANGED <<image, scan, ring, drops, queue, born, broker, host, scans, changes, failures>>

Rebirth(p) == PublishDbirth(PublishNbirth([p EXCEPT !.ses = OnRebirth(@)]))

HandleIncoming ==
    /\ work.pc = "poll" /\ work.live /\ host.ask
    /\ Publishes(Rebirth(Publisher))
    /\ host' = [host EXCEPT !.ask = FALSE]
    /\ UNCHANGED <<image, scan, ring, drops, queue, work, born, broker, scans, changes, failures>>

(***************************************************************************)
(* The host: births reset what it knows, a sequence gap or data without a  *)
(* birth make it ask for a rebirth.                                        *)
(***************************************************************************)
HostTakes(h, m) ==
    CASE m.k = "SUB" -> h
      [] m.k = "NBIRTH" -> [h EXCEPT !.online = m.bd, !.node = 0, !.device = FALSE,
                                     !.drops = m.drops]
      [] m.k = "DBIRTH" -> [h EXCEPT !.device = TRUE, !.dev = 0, !.table = m.table,
                                     !.v = [s \in S |-> IF s \in Range(m.table)
                                              THEN m.v[CHOOSE a \in DOMAIN m.table: m.table[a] = s] ELSE 0]]
      [] m.k = "DDEATH" -> [h EXCEPT !.device = FALSE]
      [] m.k = "NDATA" -> IF m.seq # NextSeq(h.node) THEN [h EXCEPT !.ask = TRUE]
                          ELSE [h EXCEPT !.node = m.seq, !.drops = m.drops]
      [] OTHER -> IF ~h.device \/ m.seq # NextSeq(h.dev) \/ ~(DOMAIN m.v \subseteq DOMAIN h.table)
                  THEN [h EXCEPT !.ask = TRUE, !.device = FALSE]
                  ELSE [h EXCEPT !.dev = m.seq,
                                 !.v = [s \in S |-> IF \E a \in DOMAIN m.v: h.table[a] = s
                                          THEN m.v[CHOOSE a \in DOMAIN m.v: h.table[a] = s] ELSE @[s]]]

Deliver ==
    /\ work.pc = "poll" /\ work.live /\ chan # <<>>
    /\ host' = HostTakes(host, Head(chan))
    /\ chan' = Tail(chan)
    /\ UNCHANGED <<image, scan, ring, drops, queue, work, ses, born, broker, hist, scans, changes, failures>>

(***************************************************************************)
(* The surroundings.                                                       *)
(***************************************************************************)
Change ==
    /\ changes > 0 /\ changes' = changes - 1
    /\ UNCHANGED <<scan, ring, drops, work, ses, born, chan, broker, hist, scans, failures>>

ImageChanges == /\ Change /\ \E s \in S, v \in Values: v # image[s] /\ image' = [image EXCEPT ![s] = v]
                /\ UNCHANGED <<queue, host>>
PushCatalog == Change /\ (\E c \in Catalogs: queue' = Append(queue, c)) /\ UNCHANGED <<image, host>>
HostAsks == Change /\ ~host.ask /\ host' = [host EXCEPT !.ask = TRUE] /\ UNCHANGED <<image, queue>>

Scan == \E t \in 0..1, b \in BOOLEAN: PublishTelemetry(t, b)
Service == NewClient \/ OnConnected \/ ReceiveCatalog \/ TimerBeforeBirth \/ BeginDrain \/ TryRecv \/ Drain
           \/ HandleIncoming \/ Deliver
Surroundings == PollFails \/ BrokerTimesOut \/ ImageChanges \/ PushCatalog \/ HostAsks

Next == Scan \/ Service \/ Accept \/ Surroundings

(* The worker runs and a broker that can be reached accepts (one of Steps  *)
(* is enabled at a time); select! polls the client's event loop between    *)
(* drains, so a queued request is sent in the end.                         *)
Steps == NewClient \/ Accept \/ OnConnected \/ TryRecv \/ Drain
SlowSpec == Init /\ [][Next]_vars /\ WF_work(Steps) /\ SF_chan(Deliver)

(* And of the attempts the broker accepts again and again, one has its     *)
(* CONNACK within the 10 ms of a poll().  The code does nothing to ensure  *)
(* it: a broker that always needs longer never gets a session, which is    *)
(* what telemetry_slow.cfg shows of SlowSpec.                              *)
Spec == SlowSpec /\ SF_work(OnConnected)

(***************************************************************************)
(* Properties.                                                             *)
(***************************************************************************)
Latest(s) ==
    LET all == work.samples \o ring
        of == {n \in DOMAIN all: all[n].slot = s}
    IN IF of = {} THEN hist.taken[s] ELSE all[CHOOSE n \in of: \A k \in of: k <= n].v

(* A telemetry_drops of zero is honest: what the scan recorded as          *)
(* published is in the ring or was received.  No sample disappears in the  *)
(* try_lock or at the full ring without being counted.                     *)
NoSilentLoss == drops = 0 => \A s \in S: scan.track[s].ever => scan.track[s].last = Latest(s)

(* The sequence numbers do their job: a host that has the publisher's last *)
(* sequence number and saw no gap knows the drop counter the node last     *)
(* reported and, for every tag of the catalog by its right name, the value *)
(* the session last took from the ring - unless the birth itself, or       *)
(* SeqBase messages in a row, were dropped at the full client.             *)
GaplessIsCurrent ==
    born /\ chan = <<>> /\ ~host.ask =>
      /\ hist.lost.node < SeqBase /\ host.online = ses.bd /\ host.node = ses.node
         => host.drops = ses.drops
      /\ hist.lost.device < SeqBase /\ host.device /\ host.dev = ses.dev
         => /\ host.table = ses.catalog
            /\ \A s \in Range(ses.catalog): host.v[s] = Cached(ses, s)

(* The will the broker holds names the session of the NBIRTH, and no two   *)
(* sessions that were born share a bdSeq.                                  *)
SessionsNumbered ==
    /\ \A x \in hist.births: x.will = x.bd
    /\ \A x, y \in hist.births: x.n # y.n => x.bd # y.bd

(* When connections stop failing and the broker is now and then faster     *)
(* than the 10 ms timer that drops the attempt, the worker gets a session, *)
(* however many attempts were dropped before, and the host sees the node   *)
(* online for good.                                                        *)
ComesOnline == <>[](host.online = ses.bd /\ born)
=============================================================================

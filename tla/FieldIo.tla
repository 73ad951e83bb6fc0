------------------------------- MODULE FieldIo -------------------------------
(***************************************************************************)
(* The scan thread and the Modbus worker thread around the field: the      *)
(* routed driver (soft-plc-runtime io_route.rs), the Modbus bridge, its    *)
(* worker, mailbox, status and double buffer (plc-io-modbus), the GPIO     *)
(* driver (plc-io-gpio), the simulation driver and the mode gate.          *)
(* The worker takes one step per request on the wire and one per shared    *)
(* cell it writes; the scan takes one per shared cell it touches.          *)
(* Definitions named Mutant... are defective variants of the definition    *)
(* that follows them.                                                      *)
(***************************************************************************)
EXTENDS IoMap

CONSTANTS
    Maps,         \* the io-maps the runtime may be started with
    Limits,       \* protocol limits: readBits, readRegs, writeBits, writeRegs
    TidBase,      \* number of transaction ids (2^16)
    DeviceWords,  \* contents the devices' input registers take
    Programmed,   \* values the program stores into its outputs
    Injected,     \* values injected into the simulation driver
    MaxFaults(_), \* bound by map: failing or duplicated transactions, failing ioctls
    MaxChanges(_) \* bound by map: changes of mode, of the field and of injected inputs

Modes == {"STOP", "RUN", "SIM", "FAULT"}

VARIABLES
    map, stage, plan,  \* the io-map, the driver's lifecycle and the plans
    mode, gate,        \* the engine's mode and its copy for the drivers
    scan,              \* scan thread: program counter, module, snapshot, image to apply
    image,             \* input image: values and quality by slot
    sim,               \* value and quality injected into the simulation driver
    share,             \* by Modbus module: status, double buffer front, mailbox
    worker,            \* the worker thread and its per-module state
    device,            \* by Modbus module: registers, unread answers, last poll's contents
    gpio,              \* claimed requests, kernel output bits, module quality; `rest` is the
                       \* history of modules last written with a safe or SIM image
    pins,              \* level of the GPIO input lines
    polled,            \* history: input vectors of complete polls, by module
    faults, changes    \* what is left of the bounds

vars == <<map, stage, plan, mode, gate, scan, image, sim, share, worker, device,
          gpio, pins, polled, faults, changes>>

Mods == DOMAIN plan.modbus
Gpios == DOMAIN plan.gpio

(***************************************************************************)
(* Plans: one Modbus TCP module or one gpiochip request each.              *)
(***************************************************************************)
Positions(points, output) == {n \in DOMAIN points: points[n].output = output}

(* The requests of write_with in order: coil groups, register groups, then *)
(* a read and a write of the register of every output bit.                 *)
WriteOps(points) ==
    LET coils == CoilGroups(points, Limits)
        regs == RegGroups(points, Limits)
        bits == BitOuts(points)
        bit(n) == [start |-> points[bits[n]].pdu, qty |-> 1, members |-> <<bits[n]>>] IN
    [n \in DOMAIN coils |-> [fc |-> IF Len(coils[n].members) = 1 THEN 5 ELSE 15, at |-> coils[n]]]
    \o [n \in DOMAIN regs |-> [fc |-> IF regs[n].qty = 1 THEN 6 ELSE 16, at |-> regs[n]]]
    \o [n \in 1..(2 * Len(bits)) |-> [fc |-> IF n % 2 = 1 THEN 3 ELSE 6, at |-> bit((n + 1) \div 2)]]

ModbusPlan(module, points) ==
    [points |-> points, policy |-> module.onBad, stale |-> StaleMs(module.cfg),
     reads |-> ReadGroups(points, Limits), coils |-> CoilGroups(points, Limits),
     regs |-> RegGroups(points, Limits), bits |-> BitOuts(points), writes |-> WriteOps(points),
     ins |-> Cardinality(Positions(points, FALSE)),
     outs |-> Cardinality(Positions(points, TRUE))]

(* Output lines default to open drain. *)
GpioPlan(module, points) ==
    LET output == module.bindings[1].plane = "Q" IN
    [points |-> points, input |-> ~output, lines |-> Len(module.cfg.lines),
     policy |-> module.onBad,
     openDrain |-> output /\ module.cfg.drive # <<"push_pull">>]

DriverModules(m, driver) ==
    LET of == {n \in DOMAIN m.modules: m.modules[n].driver = driver} IN Ordered(of, Itself(of))

MapOk(m, r) ==
    /\ r.ok /\ ~GpioClash(m)
    /\ \A n \in DOMAIN m.modules:
         /\ m.modules[n].driver = "modbus_tcp" => ModbusOk(m.modules[n], r.slots[n], r)
         /\ m.modules[n].driver = "gpio" => GpioOk(m.modules[n])

(* Resolve the map, then validate the Modbus and the GPIO modules.         *)
PlanOf(m) ==
    LET r == Resolve(m)
        modbus == DriverModules(m, "modbus_tcp")
        lines == DriverModules(m, "gpio")
    IN IF ~MapOk(m, r)
       THEN [ok |-> FALSE, modbus |-> <<>>, gpio |-> <<>>, inputs |-> 0, outputs |-> 0]
       ELSE [ok |-> TRUE,
             modbus |-> [k \in DOMAIN modbus |->
                           LET of == m.modules[modbus[k]]
                           IN ModbusPlan(of, ModbusPoints(of.bindings, r.slots[modbus[k]], r))],
             gpio |-> [k \in DOMAIN lines |->
                         LET of == m.modules[lines[k]]
                         IN GpioPlan(of, GpioPoints(of.bindings, r.slots[lines[k]], r))],
             inputs |-> r.inputs, outputs |-> r.outputs, safe |-> r.safe]

(* What the parser of the document sees to (IoBinding, serde).             *)
BindingTyped(b) ==
    /\ b.plane \in Planes
    /\ b.slot # <<>> => b.slot[1] \in Nat
    /\ b.bit # <<>> => b.bit[1] \in Nat
    /\ b.safe # <<>> => b.safe[1].v \in Int

IsSeq(s) == Len(s) \in Nat /\ s = [n \in 1..Len(s) |-> s[n]]

ASSUME MapsAssumption ==
    /\ TableSize \in Nat /\ TidBase \in Nat \ {0, 1}
    /\ \A x \in Maps:
         /\ IsSeq(x.modules)
         /\ \A m \in DOMAIN x.modules:
              /\ IsSeq(x.modules[m].bindings)
              /\ \A n \in DOMAIN x.modules[m].bindings: BindingTyped(x.modules[m].bindings[n])

Registers(p) == {<<p.points[n].table, a>>: n \in DOMAIN p.points, a \in 0..TableSize}
InputRegisters(p) ==
    UNION {{<<p.points[n].table, a>>: a \in Span(p.points[n])}: n \in Positions(p.points, FALSE)}
OutputRegisters(p) ==
    UNION {{<<p.points[n].table, a>>: a \in Span(p.points[n])}: n \in Positions(p.points, TRUE)}

(* What a device holds at start: inputs 0, everything else all ones.       *)
Background(p, r) ==
    IF r \in InputRegisters(p) THEN 0 ELSE IF IsBitTable(r[1]) THEN 1 ELSE WordBase - 1

(* One bit of a register, set or cleared.                                  *)
WithBit(reg, bit, on) == reg + (on - BitOf(reg, bit)) * 2^bit

(* A register has WordBits bits, and setting one leaves the others.        *)
ASSUME BitsAssumption ==
    /\ WordBase \in Nat \ {0, 1} /\ WordBits \in Nat
    /\ \A b \in 0..(WordBits - 1): BitOf(WordBase - 1, b) = 1
    /\ \A w \in 0..(WordBase - 1), b \in 0..(WordBits - 1), on \in {0, 1}:
         /\ WithBit(w, b, on) \in 0..(WordBase - 1)
         /\ \A c \in 0..(WordBits - 1) \ {b}: BitOf(WithBit(w, b, on), c) = BitOf(w, c)

(***************************************************************************)
(* GPIO output bits: open drain floats on a logical 1.                     *)
(***************************************************************************)
KernelOutputBits(g, bits) ==
    IF g.openDrain THEN [n \in DOMAIN bits |-> 1 - bits[n]] ELSE bits

PointAt(g, line) == CHOOSE k \in DOMAIN g.points: g.points[k].bit = line
Bound(g) == {g.points[k].bit: k \in DOMAIN g.points}
SafeBits(g) ==
    [n \in 0..(g.lines - 1) |-> IF n \in Bound(g) THEN g.points[PointAt(g, n)].safe ELSE 0]

MutantDesiredBits(g, out, simMode) ==
    IF out.safe THEN SafeBits(g)
    ELSE [n \in 0..(g.lines - 1) |->
            IF n \in Bound(g) /\ out.values[g.points[PointAt(g, n)].slot] # 0 THEN 1 ELSE 0]

DesiredBits(g, out, simMode) ==
    IF simMode \/ out.safe THEN SafeBits(g)
    ELSE [n \in 0..(g.lines - 1) |->
            IF n \in Bound(g) /\ out.values[g.points[PointAt(g, n)].slot] # 0 THEN 1 ELSE 0]

(***************************************************************************)
(* Start: plan, build the drivers, claim the GPIO lines in order (a        *)
(* failing claim releases the earlier ones at their initial values), start *)
(* the worker.                                                             *)
(***************************************************************************)
NoOutput == [values |-> <<>>, safe |-> TRUE]
ShareInit(p) == [q |-> "Bad", age |-> -1, vals |-> [n \in 1..p.ins |-> 0], vq |-> "Bad",
                 armed |-> FALSE, safe |-> FALSE, mail |-> [n \in 1..p.outs |-> 0],
                 inSim |-> FALSE]

Init ==
    /\ map \in Maps
    /\ stage = "new"
    /\ plan = PlanOf(map)
    /\ mode = "STOP" /\ gate = "STOP"
    /\ scan = [pc |-> "idle", m |-> 0, snap |-> <<>>, out |-> NoOutput]
    /\ image = [values |-> [s \in 0..(plan.inputs - 1) |-> 0],
                quality |-> [s \in 0..(plan.inputs - 1) |-> "Good"]]
    /\ sim = [v |-> 0, q |-> "Good"]
    /\ share = [m \in Mods |-> ShareInit(plan.modbus[m])]
    /\ worker = [pc |-> "none", m |-> 0, k |-> 0, next |-> "", mail |-> <<>>, force |-> FALSE,
                 inSim |-> FALSE, stop |-> FALSE, reg |-> 0,
                 last |-> [m \in Mods |-> [n \in 1..plan.modbus[m].ins |-> 0]],
                 conn |-> [m \in Mods |-> FALSE], tid |-> [m \in Mods |-> 1]]
    /\ device = [m \in Mods |-> [regs |-> [r \in Registers(plan.modbus[m]) |-> Background(plan.modbus[m], r)], wire |-> <<>>,
                                 seen |-> [n \in 1..plan.modbus[m].ins |-> 0]]]
    /\ gpio = [claimed |-> FALSE, bits |-> [g \in Gpios |-> SafeBits(plan.gpio[g])],
               q |-> [g \in Gpios |-> "Good"], last |-> [g \in Gpios |-> 0], rest |-> {}]
    /\ pins = [g \in Gpios |-> 0]
    /\ polled = [m \in Mods |-> {}]
    /\ faults = MaxFaults(map) /\ changes = MaxChanges(map)

ClaimBits(g) == KernelOutputBits(plan.gpio[g], SafeBits(plan.gpio[g]))

Requested(failAt) == {g \in Gpios: failAt = 0 \/ g < failAt}

Start(failAt) ==
    /\ stage = "new" /\ plan.ok
    /\ failAt \in 0..Len(plan.gpio) /\ (failAt > 0 => faults > 0)
    /\ stage' = IF failAt = 0 THEN "up" ELSE "failed"
    /\ gpio' = [gpio EXCEPT !.claimed = failAt = 0, !.rest = Requested(failAt),
                            !.bits = [g \in Gpios |-> IF g \in Requested(failAt)
                                                      THEN ClaimBits(g) ELSE @[g]]]
    /\ worker' = IF failAt = 0 /\ Mods # {} THEN [worker EXCEPT !.pc = "idle"] ELSE worker
    /\ faults' = IF failAt = 0 THEN faults ELSE faults - 1
    /\ UNCHANGED <<map, plan, mode, gate, scan, image, sim, share, device, pins, polled, changes>>

(***************************************************************************)
(* The Modbus worker: ModRt::poll of one due module after the other.       *)
(***************************************************************************)
CommsStale(m) == share[m].age > plan.modbus[m].stale

(* mark_good / mark_bad: the status first, then the published inputs.      *)
Marked(m, q) == [share EXCEPT ![m].q = q, ![m].age = IF q = "Good" THEN 0 ELSE @]

WorkerGoto(pc) == [worker EXCEPT !.pc = pc]

(* A failed connect or transaction: drop the socket, mark the module Bad.  *)
FailPoll(m, tid) ==
    /\ share' = Marked(m, "Bad")
    /\ worker' = [worker EXCEPT !.pc = "publish", !.next = "idle", !.conn[m] = FALSE,
                                !.tid[m] = tid, !.mail = <<>>, !.inSim = FALSE,
                                !.force = FALSE, !.reg = 0]

(* The pass over the modules looks at the stop flag between passes only.   *)
Poll(m) ==
    /\ worker.pc = "idle" /\ (~worker.stop \/ worker.m \in 1..(m - 1))
    /\ share' = IF CommsStale(m) THEN Marked(m, "Bad") ELSE share
    /\ worker' = [worker EXCEPT !.m = m, !.k = 1, !.next = "connect",
                                !.pc = IF CommsStale(m) THEN "publish" ELSE "connect"]
    /\ UNCHANGED <<map, stage, plan, mode, gate, scan, image, sim, device, gpio, pins, polled,
                   faults, changes>>

(* DoubleBuffer::publish: the back buffer is swapped in under both locks,  *)
(* so a reader clones either the old or the new front.                     *)
Publish ==
    /\ worker.pc = "publish"
    /\ share' = [share EXCEPT ![worker.m].vals = worker.last[worker.m],
                              ![worker.m].vq = share[worker.m].q]
    /\ worker' = WorkerGoto(worker.next)
    /\ UNCHANGED <<map, stage, plan, mode, gate, scan, image, sim, device, gpio, pins, polled,
                   faults, changes>>

Connect(ok) ==
    LET m == worker.m IN
    /\ worker.pc = "connect"
    /\ ok \/ (faults > 0 /\ ~worker.conn[m])
    /\ IF ok
       THEN /\ worker' = [worker EXCEPT !.pc = "read", !.conn[m] = TRUE]
            /\ device' = IF worker.conn[m] THEN device ELSE [device EXCEPT ![m].wire = <<>>]
            /\ UNCHANGED <<share, faults>>
       ELSE FailPoll(m, worker.tid[m]) /\ faults' = faults - 1 /\ device' = device
    /\ UNCHANGED <<map, stage, plan, mode, gate, scan, image, sim, gpio, pins, polled, changes>>

(* One transaction: what the device executes and answers, and the answer   *)
(* the client accepts.  An answer may be lost, or arrive twice; the copy   *)
(* is then in front of the next one.  The client skips one answer with     *)
(* another transaction id.  An exception answer fails like a lost request. *)
Outcomes == {"ok", "twice", "lost request", "lost answer"}
Executed(o) == o # "lost request"
Answers(o, adu) == CASE o = "ok" -> <<adu>> [] o = "twice" -> <<adu, adu>> [] OTHER -> <<>>

MutantAccepted(wire, tid, fc) ==
    LET ok == Len(wire) > 0 /\ wire[1].fc = fc
    IN [ok |-> ok, data |-> IF ok THEN wire[1].data ELSE <<>>,
        rest |-> IF ok THEN Tail(wire) ELSE wire]

Accepted(wire, tid, fc) ==
    LET n == IF Len(wire) > 0 /\ wire[1].tid # tid THEN 2 ELSE 1
        ok == n <= Len(wire) /\ wire[n].tid = tid /\ wire[n].fc = fc
    IN [ok |-> ok, data |-> IF ok THEN wire[n].data ELSE <<>>,
        rest |-> IF ok THEN SubSeq(wire, n + 1, Len(wire)) ELSE wire]

Transact(m, o, fc, data) ==
    Accepted(device[m].wire \o Answers(o, [tid |-> worker.tid[m], fc |-> fc, data |-> data]),
             worker.tid[m], fc)

NextTid(m) == (worker.tid[m] + 1) % TidBase
Charge(o) == o = "ok" \/ faults > 0
Charged(o) == IF o = "ok" THEN faults ELSE faults - 1

Words(regs, table, start, qty) == [i \in 1..qty |-> regs[<<table, start + i - 1>>]]

(* store_group: decode the members of a group out of one answer.           *)
StoreGroup(last, p, group, data) ==
    LET value(i) ==
          LET pt == p.points[i]
              rel == pt.pdu - group.start
          IN IF IsBitTable(pt.table) THEN DecodeNumber(data[rel + 1] % 2, pt)
             ELSE DecodeRegs(SubSeq(data, rel + 1, rel + pt.words), pt)
        at(n) == {i \in Range(group.members): p.points[i].pos = n}
    IN [n \in DOMAIN last |-> IF at(n) = {} THEN last[n] ELSE value(CHOOSE i \in at(n): TRUE)]

ReadGroup(o) ==
    LET m == worker.m
        p == plan.modbus[m]
        group == p.reads[worker.k]
        table == p.points[group.members[1]].table
        data == Words(device[m].regs, table, group.start, group.qty)
        answer == Transact(m, o, ReadFc(table), data)
    IN /\ worker.pc = "read" /\ worker.k <= Len(p.reads) /\ Charge(o)
       /\ IF answer.ok
          THEN /\ worker' = [worker EXCEPT !.k = @ + 1, !.tid[m] = NextTid(m),
                                           !.last[m] = StoreGroup(@, p, group, answer.data)]
               /\ share' = share
          ELSE FailPoll(m, NextTid(m))
       /\ device' = [device EXCEPT ![m].wire = answer.rest,
                       ![m].seen = IF Executed(o) THEN StoreGroup(@, p, group, data) ELSE @]
       /\ faults' = Charged(o)
       /\ UNCHANGED <<map, stage, plan, mode, gate, scan, image, sim, gpio, pins, polled, changes>>

ReadsDone ==
    LET m == worker.m IN
    /\ worker.pc = "read" /\ worker.k > Len(plan.modbus[m].reads)
    /\ share' = Marked(m, "Good")
    /\ worker' = [worker EXCEPT !.pc = "publish", !.next = "gate"]
    /\ polled' = [polled EXCEPT ![m] = @ \cup {device[m].seen}]
    /\ UNCHANGED <<map, stage, plan, mode, gate, scan, image, sim, device, gpio, pins, faults, changes>>

(* In SIM the outputs are not written. *)
GateCheck ==
    /\ worker.pc = "gate"
    /\ worker' = WorkerGoto(IF gate = "SIM" THEN "idle" ELSE "mail")
    /\ UNCHANGED <<map, stage, plan, mode, gate, scan, image, sim, share, device, gpio, pins,
                   polled, faults, changes>>

(* write_outputs clones the mailbox under its lock, then reads the status. *)
TakeMail ==
    LET s == share[worker.m]
        bad == s.q = "Bad"
        policy == plan.modbus[worker.m].policy
    IN /\ worker.pc = "mail"
       /\ worker' = IF ~s.armed \/ (bad /\ policy = "HoldLast") THEN WorkerGoto("idle")
                    ELSE [worker EXCEPT !.pc = "write", !.k = 1, !.mail = s.mail,
                                        !.force = s.safe \/ bad, !.inSim = s.inSim]
       /\ UNCHANGED <<map, stage, plan, mode, gate, scan, image, sim, share, device, gpio, pins,
                      polled, faults, changes>>

Selected(p, i) == IF worker.force THEN p.points[i].safe ELSE worker.mail[p.points[i].pos]

(* The registers after a write request; a read (3) changes none.           *)
Written(p, op, regs) ==
    LET covers(a) == {i \in Range(op.at.members): a \in Span(p.points[i])}
        on(i) == CoilOn(Selected(p, i), p.points[i])
        word(i, a) == CASE op.fc \in {5, 15} -> on(i)
                        [] p.points[i].raw = "BOOL" -> WithBit(worker.reg, p.points[i].bit, on(i))
                        [] OTHER -> ValueToWords(Selected(p, i), p.points[i])[a - p.points[i].pdu + 1]
        table == p.points[op.at.members[1]].table
    IN [r \in DOMAIN regs |->
          IF op.fc = 3 \/ r[1] # table \/ r[2] \notin op.at.start..(op.at.start + op.at.qty - 1)
          THEN regs[r]
          ELSE IF covers(r[2]) = {} THEN 0
          ELSE word(CHOOSE i \in covers(r[2]): TRUE, r[2])]

(* A request that is executed but not answered leaves the output written.  *)
WriteStep(o) ==
    LET m == worker.m
        p == plan.modbus[m]
        op == p.writes[worker.k]
        data == IF op.fc = 3 THEN Words(device[m].regs, "holding", op.at.start, 1) ELSE <<0>>
        answer == Transact(m, o, op.fc, data)
    IN /\ worker.pc = "write" /\ worker.k <= Len(p.writes) /\ Charge(o)
       /\ device' = [device EXCEPT ![m].wire = answer.rest,
                       ![m].regs = IF Executed(o) THEN Written(p, op, @) ELSE @]
       /\ IF answer.ok
          THEN worker' = [worker EXCEPT !.k = @ + 1, !.tid[m] = NextTid(m), !.reg = answer.data[1]]
               /\ share' = share
          ELSE FailPoll(m, NextTid(m))
       /\ faults' = Charged(o)
       /\ UNCHANGED <<map, stage, plan, mode, gate, scan, image, sim, gpio, pins, polled, changes>>

WritesDone ==
    /\ worker.pc = "write" /\ worker.k > Len(plan.modbus[worker.m].writes)
    /\ worker' = [worker EXCEPT !.pc = "idle", !.mail = <<>>, !.inSim = FALSE, !.force = FALSE, !.reg = 0]
    /\ UNCHANGED <<map, stage, plan, mode, gate, scan, image, sim, share, device, gpio, pins,
                   polled, faults, changes>>

MutantWorkerExit ==
    /\ worker.pc = "idle" /\ worker.stop
    /\ UNCHANGED worker

WorkerExit ==
    /\ worker.pc = "idle" /\ worker.stop
    /\ worker' = WorkerGoto("exited")

WorkerStops ==
    /\ WorkerExit
    /\ UNCHANGED <<map, stage, plan, mode, gate, scan, image, sim, share, device, gpio, pins,
                   polled, faults, changes>>

(***************************************************************************)
(* The scan thread: RoutedDriver::poll_inputs, then apply_outputs.         *)
(***************************************************************************)
OverlayOrGpio(m) == IF m \in Mods THEN "snap" ELSE "gpio"

ScanBegin ==
    /\ stage = "up" /\ scan.pc = "idle"
    /\ gate' = mode
    /\ image' = [values |-> [s \in DOMAIN image.values |-> sim.v],
                 quality |-> [s \in DOMAIN image.values |-> sim.q]]
    /\ scan' = [scan EXCEPT !.m = 1, !.pc = IF mode = "SIM" THEN "gpio" ELSE OverlayOrGpio(1)]
    /\ UNCHANGED <<map, stage, plan, mode, sim, share, worker, device, gpio, pins, polled, faults, changes>>

(* DoubleBuffer::read returns one front buffer whole, retried or not.      *)
ScanSnap ==
    /\ scan.pc = "snap"
    /\ scan' = [scan EXCEPT !.pc = "overlay",
                            !.snap = [vals |-> share[scan.m].vals, q |-> share[scan.m].vq]]
    /\ UNCHANGED <<map, stage, plan, mode, gate, image, sim, share, worker, device, gpio, pins,
                   polled, faults, changes>>

EffectiveQuality(m) ==
    IF share[m].q = "Bad" \/ share[m].age = -1 \/ CommsStale(m) THEN "Bad" ELSE share[m].q

SlotPoint(p, s) == {i \in DOMAIN p.points: ~p.points[i].output /\ p.points[i].slot = s}

OverlayQuality(m) == IF EffectiveQuality(m) = "Bad" THEN "Bad" ELSE scan.snap.q

ScanOverlay ==
    LET p == plan.modbus[scan.m]
        pos(s) == p.points[CHOOSE i \in SlotPoint(p, s): TRUE].pos
    IN /\ scan.pc = "overlay"
       /\ image' = [values |-> [s \in DOMAIN image.values |->
                                  IF SlotPoint(p, s) = {} THEN image.values[s] ELSE scan.snap.vals[pos(s)]],
                    quality |-> [s \in DOMAIN image.values |->
                                  IF SlotPoint(p, s) = {} THEN image.quality[s] ELSE OverlayQuality(scan.m)]]
       /\ scan' = [scan EXCEPT !.m = @ + 1, !.snap = <<>>, !.pc = OverlayOrGpio(scan.m + 1)]
       /\ UNCHANGED <<map, stage, plan, mode, gate, sim, share, worker, device, gpio, pins, polled,
                      faults, changes>>

Failing(fails) == fails = {} \/ faults > 0
Spent(fails) == IF fails = {} THEN faults ELSE faults - 1

(* GpioDriver::poll_inputs: one ioctl per input module; a failing one      *)
(* marks the module Bad and repeats its last bits.                         *)
ScanGpio(fails) ==
    LET reads == IF mode = "SIM" THEN {} ELSE {g \in Gpios: plan.gpio[g].input}
        bits == [g \in Gpios |-> IF g \in reads \ fails THEN pins[g] ELSE gpio.last[g]]
        q == [g \in Gpios |-> IF g \in reads THEN (IF g \in fails THEN "Bad" ELSE "Good") ELSE gpio.q[g]]
        owner(s) == {g \in reads: \E k \in DOMAIN plan.gpio[g].points: plan.gpio[g].points[k].slot = s}
        own(s) == CHOOSE g \in owner(s): TRUE
    IN /\ scan.pc = "gpio" /\ Failing(fails) /\ fails \subseteq reads
       /\ gpio' = [gpio EXCEPT !.last = bits, !.q = q]
       /\ image' = [values |-> [s \in DOMAIN image.values |->
                                  IF owner(s) = {} THEN image.values[s] ELSE bits[own(s)]],
                    quality |-> [s \in DOMAIN image.values |->
                                  IF owner(s) = {} THEN image.quality[s] ELSE q[own(s)]]]
       /\ scan' = [scan EXCEPT !.pc = "logic"]
       /\ faults' = Spent(fails)
       /\ UNCHANGED <<map, stage, plan, mode, gate, sim, share, worker, device, pins, polled, changes>>

(* fill_output_module_state: quality and policy of the module that owns a  *)
(* %Q slot; a slot of no field module keeps the aggregate of the inputs.   *)
SlotBad(s) ==
    LET modbus == {m \in Mods: \E i \in Positions(plan.modbus[m].points, TRUE):
                                 plan.modbus[m].points[i].slot = s}
        lines == {g \in Gpios: /\ ~plan.gpio[g].input
                               /\ \E k \in DOMAIN plan.gpio[g].points: plan.gpio[g].points[k].slot = s}
    IN IF modbus # {}
       THEN \E m \in modbus: EffectiveQuality(m) = "Bad" /\ plan.modbus[m].policy = "ForceSafe"
       ELSE IF lines # {}
       THEN \E g \in lines: gpio.q[g] = "Bad" /\ plan.gpio[g].policy = "ForceSafe"
       ELSE \E t \in DOMAIN image.quality: image.quality[t] = "Bad"

(* The logic, then apply_outputs up to the driver: the effective image of  *)
(* a program that stores v, all safe in STOP and FAULT (stop policy Safe;  *)
(* ScanEngine has the other rules).                                        *)
ScanLogic(v, newMode) ==
    /\ scan.pc = "logic" /\ newMode \in {mode, "FAULT"} /\ (newMode # mode => changes > 0)
    /\ mode' = newMode /\ gate' = newMode
    /\ scan' = [scan EXCEPT !.pc = "post", !.m = 1,
                  !.out = LET safe == newMode \in {"STOP", "FAULT"} IN
                          [safe |-> safe,
                           values |-> [s \in 0..(plan.outputs - 1) |->
                                         IF safe \/ SlotBad(s) THEN plan.safe[s] ELSE v]]]
    /\ changes' = IF newMode = mode THEN changes ELSE changes - 1
    /\ UNCHANGED <<map, stage, plan, image, sim, share, worker, device, gpio, pins, polled, faults>>

MailFor(m) ==
    [n \in 1..plan.modbus[m].outs |->
       scan.out.values[plan.modbus[m].points[CHOOSE i \in DOMAIN plan.modbus[m].points:
                         plan.modbus[m].points[i].output /\ plan.modbus[m].points[i].pos = n].slot]]

MutantPosted(m) ==
    IF scan.out.safe THEN share[m]
    ELSE [share[m] EXCEPT !.armed = TRUE, !.safe = FALSE, !.mail = MailFor(m), !.inSim = mode = "SIM"]

Posted(m) == [share[m] EXCEPT !.armed = TRUE, !.safe = scan.out.safe, !.mail = MailFor(m),
                              !.inSim = mode = "SIM"]

PostMail ==
    /\ scan.pc = "post" /\ scan.m \in Mods
    /\ share' = [share EXCEPT ![scan.m] = Posted(scan.m)]
    /\ scan' = [scan EXCEPT !.m = @ + 1]
    /\ UNCHANGED <<map, stage, plan, mode, gate, image, sim, worker, device, gpio, pins, polled,
                   faults, changes>>

(* GpioDriver::apply_outputs: one ioctl per output module. *)
ApplyGpio(fails) ==
    LET outs == {g \in Gpios: ~plan.gpio[g].input}
        bits(g) == KernelOutputBits(plan.gpio[g], DesiredBits(plan.gpio[g], scan.out, mode = "SIM"))
        rest == mode = "SIM" \/ scan.out.safe
    IN /\ scan.pc = "post" /\ scan.m \notin Mods /\ Failing(fails) /\ fails \subseteq outs
       /\ gpio' = [gpio EXCEPT !.bits = [g \in Gpios |-> IF g \in outs \ fails THEN bits(g) ELSE @[g]],
                               !.q = [g \in Gpios |-> IF g \in fails THEN "Bad"
                                                      ELSE IF g \in outs THEN "Good" ELSE @[g]],
                               !.rest = IF rest THEN @ \cup (outs \ fails) ELSE @ \ (outs \ fails)]
       /\ scan' = [scan EXCEPT !.pc = "idle", !.m = 0, !.out = NoOutput]
       /\ faults' = Spent(fails)
       /\ UNCHANGED <<map, stage, plan, mode, gate, image, sim, share, worker, device, pins, polled, changes>>

(* stop: raise the flag and join the worker, then release the lines.       *)
Stop ==
    /\ stage = "up" /\ scan.pc = "idle" /\ changes > 0
    /\ worker' = [worker EXCEPT !.stop = TRUE]
    /\ scan' = [scan EXCEPT !.pc = "join"]
    /\ changes' = changes - 1
    /\ UNCHANGED <<map, stage, plan, mode, gate, image, sim, share, device, gpio, pins, polled, faults>>

Joined(fails) ==
    LET outs == {g \in Gpios: ~plan.gpio[g].input} IN
    /\ scan.pc = "join" /\ worker.pc \in {"exited", "none"}
    /\ Failing(fails) /\ fails \subseteq outs
    /\ gpio' = [gpio EXCEPT !.claimed = FALSE, !.rest = @ \cup (outs \ fails),
                            !.bits = [g \in Gpios |-> IF g \in outs \ fails THEN ClaimBits(g) ELSE @[g]]]
    /\ scan' = [scan EXCEPT !.pc = "done"]
    /\ stage' = "down"
    /\ faults' = Spent(fails)
    /\ UNCHANGED <<map, plan, mode, gate, image, sim, share, worker, device, pins, polled, changes>>

(***************************************************************************)
(* The surroundings: time, the field, the operator.                        *)
(***************************************************************************)
Tick ==
    /\ \E m \in Mods: share[m].age \in 0..plan.modbus[m].stale
    /\ stage = "up"
    /\ share' = [m \in Mods |-> [share[m] EXCEPT !.age =
                   IF @ \in 0..plan.modbus[m].stale THEN @ + 1 ELSE @]]
    /\ UNCHANGED <<map, stage, plan, mode, gate, scan, image, sim, worker, device, gpio, pins,
                   polled, faults, changes>>

Change ==
    /\ stage = "up" /\ changes > 0 /\ changes' = changes - 1
    /\ UNCHANGED <<map, stage, plan, gate, scan, image, share, worker, gpio, polled, faults>>

LegalModes(m) == CASE m = "STOP" -> {"RUN", "SIM"} [] m = "SIM" -> {"STOP", "RUN"} [] OTHER -> {"STOP"}

SetMode ==
    /\ Change /\ scan.pc = "idle"
    /\ mode' \in LegalModes(mode)
    /\ UNCHANGED <<sim, device, pins>>

FieldChanges ==
    /\ Change
    /\ \E w \in DeviceWords:
         /\ device' = [m \in Mods |-> [device[m] EXCEPT !.regs =
              [r \in DOMAIN @ |-> IF r \in InputRegisters(plan.modbus[m]) THEN w ELSE @[r]]]]
         /\ pins' = [g \in Gpios |-> w % 2]
         /\ device' # device \/ pins' # pins
    /\ UNCHANGED <<mode, sim>>

Inject ==
    /\ Change /\ scan.pc = "idle"
    /\ sim' \in [v: Injected, q: {"Good", "Bad"}] \ {sim}
    /\ UNCHANGED <<mode, device, pins>>

Worker ==
    \/ \E m \in Mods: Poll(m)
    \/ Publish
    \/ \E ok \in BOOLEAN: Connect(ok)
    \/ \E o \in Outcomes: ReadGroup(o)
    \/ ReadsDone
    \/ GateCheck
    \/ TakeMail
    \/ \E o \in Outcomes: WriteStep(o)
    \/ WritesDone
    \/ WorkerStops

Scan ==
    \/ ScanBegin
    \/ ScanSnap
    \/ ScanOverlay
    \/ \E fails \in SUBSET Gpios: ScanGpio(fails)
    \/ \E v \in Programmed, n \in Modes: ScanLogic(v, n)
    \/ PostMail
    \/ \E fails \in SUBSET Gpios: ApplyGpio(fails)
    \/ \E fails \in SUBSET Gpios: Joined(fails)

Surroundings == Tick \/ SetMode \/ FieldChanges \/ Inject

Next == (\E n \in 0..2: Start(n)) \/ Worker \/ Scan \/ Stop \/ Surroundings

(* Both threads run, and every module comes due again and again; the       *)
(* network, the operator and time owe nothing.                             *)
Spec == /\ Init /\ [][Next]_vars
        /\ WF_worker(Worker) /\ WF_scan(Scan)
        /\ \A m \in 1..2: SF_worker(m \in Mods /\ Poll(m))

(***************************************************************************)
(* Properties.                                                             *)
(***************************************************************************)
(* When every input slot of a Modbus module is sampled Good, the values    *)
(* are what one poll found in the device, all its requests answered: never *)
(* a mixture left by a failed poll, an answer to another request, or       *)
(* values the worker had not published.                                    *)
GoodIsWhole ==
    \A m \in Mods:
      LET p == plan.modbus[m]
          ins == Positions(p.points, FALSE)
          sampled == [n \in 1..p.ins |->
                        image.values[p.points[CHOOSE i \in ins: p.points[i].pos = n].slot]]
      IN /\ mode # "SIM" /\ scan.pc = "logic" /\ gate = mode /\ ins # {}
         /\ \A i \in ins: image.quality[p.points[i].slot] = "Good"
         => sampled \in polled[m]

(* The requests of an accepted map touch the planned points only: every    *)
(* point is in exactly one request, whose range is its members' registers. *)
RequestsExact ==
    stage = "new" =>
    \A m \in Mods:
      LET p == plan.modbus[m]
          all == p.reads \o p.coils \o p.regs
          inGroups(i) == {n \in DOMAIN all: i \in Range(all[n].members)}
      IN /\ \A i \in DOMAIN p.points \ Range(p.bits): Cardinality(inGroups(i)) = 1
         /\ \A n \in DOMAIN all:
              /\ all[n].start..(all[n].start + all[n].qty - 1)
                   = UNION {Span(p.points[i]): i \in Range(all[n].members)}
              /\ Cardinality({p.points[i].table: i \in Range(all[n].members)}) = 1

(* Registers that no binding covers, and the other bits of a register an   *)
(* output bit lives in, keep what the device holds.                        *)
OthersKept ==
    \A m \in Mods:
      LET p == plan.modbus[m] IN
      /\ \A r \in DOMAIN device[m].regs \ (InputRegisters(p) \cup OutputRegisters(p)):
           device[m].regs[r] = Background(p, r)
      /\ \A i \in Range(p.bits), b \in 0..(WordBits - 1):
           b # p.points[i].bit => BitOf(device[m].regs[<<"holding", p.points[i].pdu>>], b) = 1

(* The driver leaves the rest of a device alone: its requests are exact,   *)
(* and what they do not cover keeps its value.                             *)
NeighboursKept == RequestsExact /\ OthersKept

Energised(g, n) == gpio.bits[g][n] = IF plan.gpio[g].openDrain THEN 0 ELSE 1

(* An output module last written for a safe image, in SIM, at claim or at  *)
(* release (also the release after another module's claim failed) drives   *)
(* every bound line to its safe_state and leaves the others de-energised.  *)
LinesRestSafe ==
    \A g \in gpio.rest:
      ~plan.gpio[g].input =>
        \A n \in DOMAIN gpio.bits[g]: Energised(g, n) <=> (SafeBits(plan.gpio[g])[n] = 1)

(* The values an io-map's safe_state stands for in the device.             *)
DeviceSafe(m) ==
    LET p == plan.modbus[m] IN
    \A i \in Positions(p.points, TRUE):
      LET pt == p.points[i]
          got == device[m].regs[<<pt.table, pt.pdu>>]
      IN IF IsBitTable(pt.table) THEN got = CoilOn(pt.safe, pt)
         ELSE IF pt.raw = "BOOL" THEN BitOf(got, pt.bit) = CoilOn(pt.safe, pt)
         ELSE Words(device[m].regs, pt.table, pt.pdu, pt.words) = ValueToWords(pt.safe, pt)

(* If the engine stays in STOP with the drivers up, the outputs of every   *)
(* Modbus device reach safe_state and stay there, whatever was lost on the *)
(* wire before: nothing older overtakes the safe image.                    *)
StopReachesField ==
    <>[](mode = "STOP" /\ stage = "up" /\ ~worker.stop)
      => <>[](\A m \in Mods: DeviceSafe(m))

(* stop() returns: the worker sees the flag and exits, the join ends.      *)
StopEnds == (scan.pc = "join") ~> (stage = "down")

(* docs/architecture.md: `SIM` has "no field writes".  The worker never    *)
(* sends a device the outputs that the program computed in SIM.            *)
SimOffField == ~(worker.pc = "write" /\ worker.inSim /\ ~worker.force)
=============================================================================

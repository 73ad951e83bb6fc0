-------------------------------- MODULE IoMap --------------------------------
(***************************************************************************)
(* From the io-map document to the drivers' plans: slot assignment         *)
(* (plc-io map.rs), the checks of the Modbus and GPIO modules, the         *)
(* grouping of registers into requests, and the conversion between raw     *)
(* registers and engineering values.                                       *)
(* Values are integers (BOOL is 0 or 1, REAL is abstracted to the          *)
(* integers); an optional field is a sequence of at most one element.      *)
(* A map is accepted when no check refuses it; which refusal a caller sees *)
(* first is left out.                                                      *)
(* Definitions named Mutant... are defective variants of the definition    *)
(* that follows them.                                                      *)
(***************************************************************************)
EXTENDS Integers, Sequences, FiniteSets, SequencesExt

CONSTANTS
    WordBase,     \* number of values of a register (2^16)
    WordBits,     \* bits of a register (16)
    TableSize,    \* 5-digit references of one table (9999)
    MaxLines      \* lines of one gpiochip request (64)

Planes == {"I", "Q", "M"}
Abs(x) == IF x < 0 THEN -x ELSE x

(* The elements of S by rising key; keys are distinct.                     *)
Rank(S, key, i) == Cardinality({j \in S: key[j] <= key[i]})
Ordered(S, key) == [n \in 1..Cardinality(S) |-> CHOOSE i \in S: Rank(S, key, i) = n]
Itself(S) == [i \in S |-> i]

(***************************************************************************)
(* Numbers.  `as i16` wraps, sat_i16 saturates after rounding.             *)
(***************************************************************************)
Half(ty) == IF ty = "INT" THEN WordBase \div 2 ELSE (WordBase * WordBase) \div 2
WrapTo(ty, n) == ((n + Half(ty)) % (2 * Half(ty))) - Half(ty)
Sat(x, lo, hi) == IF x > hi THEN hi ELSE IF x < lo THEN lo ELSE x
SatTo(ty, x) == Sat(x, -Half(ty), Half(ty) - 1)
RoundDiv(n, d) == (IF (n < 0) = (d < 0) THEN 1 ELSE -1) * ((2 * Abs(n) + Abs(d)) \div (2 * Abs(d)))

(***************************************************************************)
(* IoMap::resolve.                                                         *)
(***************************************************************************)
ParseSafeState(ty, raw) ==
    IF raw = <<>> THEN [ok |-> TRUE, v |-> 0]
    ELSE CASE ty = "BOOL" -> [ok |-> raw[1].bool, v |-> raw[1].v]
           [] ty = "REAL" -> [ok |-> ~raw[1].bool, v |-> raw[1].v]
           [] OTHER -> [ok |-> TRUE, v |-> WrapTo(ty, raw[1].v)]

SlotFor(next, b) == IF b.slot # <<>> THEN b.slot[1] ELSE next[b.plane]

(* The next free slot of a plane is behind every slot given before.        *)
Advance(next, b) ==
    LET slot == SlotFor(next, b)
    IN [next EXCEPT ![b.plane] = IF slot + 1 > @ THEN slot + 1 ELSE @]

(* next_i, next_q and next_m after the first n bindings of a module, and   *)
(* after the first m modules.                                              *)
NextInModule(start, bindings) ==
    LET next[n \in 0..Len(bindings)] ==
          IF n = 0 THEN start ELSE Advance(next[n - 1], bindings[n])
    IN next

NextInMap(modules) ==
    LET next[m \in 0..Len(modules)] ==
          IF m = 0 THEN [p \in Planes |-> 0]
          ELSE LET b == modules[m].bindings IN NextInModule(next[m - 1], b)[Len(b)]
    IN next

SlotsOf(modules) ==
    [m \in DOMAIN modules |->
       LET b == modules[m].bindings
           next == NextInModule(NextInMap(modules)[m - 1], b)
       IN [n \in DOMAIN b |-> SlotFor(next[n - 1], b[n])]]

(* Bindings by module and index.                                           *)
Places(modules) == UNION {{<<m, n>>: n \in DOMAIN modules[m].bindings}: m \in DOMAIN modules}
At(modules, p) == modules[p[1]].bindings[p[2]]
InPlane(modules, plane) == {p \in Places(modules): At(modules, p).plane = plane}

ResolveOk(map, slots) ==
    LET of == map.modules IN
    /\ map.version = 1 /\ of # <<>>
    /\ \A m \in DOMAIN of: of[m].id # "" /\ of[m].driver # ""
    /\ \A p \in Places(of): /\ At(of, p).tag # ""
                            /\ At(of, p).plane = "Q" => ParseSafeState(At(of, p).ty, At(of, p).safe).ok
    /\ \A p, q \in Places(of):
         p # q => /\ At(of, p).tag # At(of, q).tag
                  /\ At(of, p).plane = At(of, q).plane => slots[p[1]][p[2]] # slots[q[1]][q[2]]

(* The length of a plane; a hole is an anonymous BOOL with safe state 0.   *)
PlaneSize(used) == IF used = {} THEN 0 ELSE 1 + Max(used)

SafeAt(modules, slots, slot) ==
    LET owner == {p \in InPlane(modules, "Q"): slots[p[1]][p[2]] = slot}
        b == At(modules, CHOOSE p \in owner: TRUE)
    IN IF owner = {} THEN 0 ELSE ParseSafeState(b.ty, b.safe).v

(* The slots of the bindings, by module, and the sizes of the planes.      *)
Resolve(map) ==
    LET slots == SlotsOf(map.modules)
        used(plane) == {slots[p[1]][p[2]]: p \in InPlane(map.modules, plane)}
    IN [ok |-> ResolveOk(map, slots), slots |-> slots,
        inputs |-> PlaneSize(used("I")), outputs |-> PlaneSize(used("Q")),
        safe |-> [s \in 0..(PlaneSize(used("Q")) - 1) |-> SafeAt(map.modules, slots, s)]]

(***************************************************************************)
(* Modbus: 5-digit references, point checks, overlap check.                *)
(***************************************************************************)
Decode(reg) ==
    CASE reg \in 1..TableSize -> <<"coil", reg - 1>>
      [] reg \in 10001..(10000 + TableSize) -> <<"discrete", reg - 10001>>
      [] reg \in 30001..(30000 + TableSize) -> <<"input", reg - 30001>>
      [] reg \in 40001..(40000 + TableSize) -> <<"holding", reg - 40001>>
      [] OTHER -> <<"none", 0>>

IsBitTable(table) == table \in {"coil", "discrete"}
ReadFc(table) == CASE table = "coil" -> 1 [] table = "discrete" -> 2 [] table = "holding" -> 3 [] OTHER -> 4

RawOf(b) == IF b.raw # <<>> THEN b.raw[1] ELSE b.ty
RawWords(raw) == IF raw \in {"BOOL", "INT", "UINT"} THEN 1 ELSE 2

CheckBit(table, b) ==
    IF IsBitTable(table) THEN b.bit = <<>> /\ RawOf(b) = "BOOL" /\ b.ty = "BOOL"
    ELSE IF RawOf(b) # "BOOL" THEN b.bit = <<>>
    ELSE b.ty = "BOOL" /\ b.bit # <<>> /\ b.bit[1] < WordBits

Address(b) == IF b.reg = <<>> THEN <<"none", 0>> ELSE Decode(b.reg[1])

PointOk(b) ==
    LET table == Address(b)[1] IN
    /\ b.plane # "M" /\ b.ty # "TIME"
    /\ table # "none" /\ (b.regType = <<>> \/ b.regType[1] = table)
    /\ CheckBit(table, b)
    /\ b.plane = "Q" => table \in {"coil", "holding"} /\ b.scale # 0

(* Binding n as a point; its position is among those of its direction.     *)
SameWay(bindings, n) == {k \in DOMAIN bindings: bindings[k].plane = bindings[n].plane}

PlanPoint(bindings, n, slot, r) ==
    LET b == bindings[n]
        at == Address(b)
        output == b.plane = "Q"
    IN [slot |-> slot, output |-> output, table |-> at[1], pdu |-> at[2],
        words |-> IF IsBitTable(at[1]) THEN 1 ELSE RawWords(RawOf(b)),
        raw |-> RawOf(b), bit |-> IF b.bit = <<>> THEN 0 ELSE b.bit[1], ty |-> b.ty,
        scale |-> b.scale, offset |-> b.offset,
        clamp |-> IF output THEN <<>> ELSE b.clamp, safe |-> IF output THEN r.safe[slot] ELSE 0,
        pos |-> Rank(SameWay(bindings, n), Itself(DOMAIN bindings), n)]

Span(p) == p.pdu .. (p.pdu + p.words - 1)

Overlaps(points) ==
    \E i, j \in DOMAIN points:
        /\ i < j /\ points[i].table = points[j].table
        /\ Span(points[i]) \cap Span(points[j]) # {}

(* stale_ms defaults to three poll periods, timeout_ms to one.             *)
StaleMs(cfg) == IF cfg.stale = <<>> THEN 3 * cfg.poll ELSE cfg.stale[1]

ModbusPoints(bindings, slots, r) ==
    [n \in DOMAIN bindings |-> PlanPoint(bindings, n, slots[n], r)]

ModbusOk(module, slots, r) ==
    LET cfg == module.cfg IN
    /\ cfg.poll > 0 /\ cfg.unit \in 1..255
    /\ StaleMs(cfg) >= cfg.poll
    /\ cfg.timeout = <<>> \/ cfg.timeout[1] > 0
    /\ \A n \in DOMAIN module.bindings: PointOk(module.bindings[n])
    /\ ~Overlaps(ModbusPoints(module.bindings, slots, r))

(***************************************************************************)
(* Requests: contiguous points of one table and direction, in address      *)
(* order, up to the protocol's limit per request.                          *)
(***************************************************************************)
MutantContinues(group, p, max) ==
    p.pdu <= group.start + group.qty + 1 /\ p.pdu + p.words - group.start <= max

Continues(group, p, max) ==
    p.pdu = group.start + group.qty /\ p.pdu + p.words - group.start <= max

AddPoint(groups, p, i, max) ==
    IF groups # <<>> /\ Continues(Last(groups), p, max)
    THEN LET g == Last(groups) IN
         Append(Front(groups), [start |-> g.start, qty |-> p.pdu + p.words - g.start,
                                members |-> Append(g.members, i)])
    ELSE Append(groups, [start |-> p.pdu, qty |-> p.words, members |-> <<i>>])

BuildGroups(points, chosen, max) ==
    LET sorted == Ordered(chosen, [i \in chosen |-> points[i].pdu])
        groups[n \in 0..Cardinality(chosen)] ==
          IF n = 0 THEN <<>>
          ELSE AddPoint(groups[n - 1], points[sorted[n]], sorted[n], max)
    IN groups[Cardinality(chosen)]

ReadSet(points, table) == {i \in DOMAIN points: ~points[i].output /\ points[i].table = table}
CoilSet(points) == {i \in DOMAIN points: points[i].output /\ points[i].table = "coil"}
RegSet(points) ==
    {i \in DOMAIN points: points[i].output /\ points[i].table = "holding" /\ points[i].raw # "BOOL"}
BitSet(points) ==
    {i \in DOMAIN points: points[i].output /\ points[i].table = "holding" /\ points[i].raw = "BOOL"}

ReadGroups(points, limit) ==
    LET of(table) == BuildGroups(points, ReadSet(points, table),
                                 IF IsBitTable(table) THEN limit.readBits ELSE limit.readRegs)
    IN of("coil") \o of("discrete") \o of("holding") \o of("input")

CoilGroups(points, limit) == BuildGroups(points, CoilSet(points), limit.writeBits)
RegGroups(points, limit) == BuildGroups(points, RegSet(points), limit.writeRegs)
BitOuts(points) == Ordered(BitSet(points), Itself(BitSet(points)))

(***************************************************************************)
(* Raw registers <-> engineering values.                                   *)
(***************************************************************************)
BitOf(reg, bit) == (reg \div 2^bit) % 2

RawNumber(regs, p) ==
    CASE p.raw = "BOOL" -> BitOf(regs[1], p.bit)
      [] p.raw = "INT" -> WrapTo("INT", regs[1])
      [] p.raw = "UINT" -> regs[1]
      [] OTHER -> WrapTo("DINT", regs[1] * WordBase + regs[2])

Scaled(raw, p) ==
    LET eng == raw * p.scale + p.offset
        lo == IF p.clamp[1] <= p.clamp[2] THEN p.clamp[1] ELSE p.clamp[2]
        hi == IF p.clamp[1] <= p.clamp[2] THEN p.clamp[2] ELSE p.clamp[1]
    IN IF p.clamp = <<>> THEN eng ELSE Sat(eng, lo, hi)

Finish(eng, ty) ==
    CASE ty = "BOOL" -> IF eng # 0 THEN 1 ELSE 0
      [] ty = "INT" -> SatTo("INT", eng)
      [] OTHER -> SatTo("DINT", eng)

DecodeNumber(raw, p) == Finish(IF p.output THEN raw ELSE Scaled(raw, p), p.ty)
DecodeRegs(regs, p) == DecodeNumber(RawNumber(regs, p), p)

CoilOn(v, p) == IF v # p.offset THEN 1 ELSE 0

ValueToWords(v, p) ==
    LET raw == RoundDiv(v - p.offset, p.scale) IN
    CASE p.raw = "BOOL" -> <<CoilOn(v, p)>>
      [] p.raw = "INT" -> <<SatTo("INT", raw) % WordBase>>
      [] p.raw = "UINT" -> <<Sat(raw, 0, WordBase - 1)>>
      [] OTHER -> LET n == SatTo("DINT", raw) % (WordBase * WordBase)
                  IN <<n \div WordBase, n % WordBase>>

(***************************************************************************)
(* GPIO modules.  `bit` indexes the requested lines; a binding without one *)
(* takes the next line not used so far.                                    *)
(***************************************************************************)
GpioBindingOk(b) ==
    /\ b.plane # "M" /\ b.ty = "BOOL"
    /\ b.reg = <<>> /\ b.regType = <<>> /\ b.raw = <<>>
    /\ b.scale = 1 /\ b.offset = 0 /\ b.clamp = <<>>

BitFor(r, b) ==
    IF b.bit # <<>> THEN b.bit[1]
    ELSE CHOOSE n \in r.next..(r.next + Cardinality(r.used)):
           n \notin r.used /\ \A k \in r.next..(n - 1): k \in r.used

TakeLine(r, b) ==
    [used |-> r.used \cup {BitFor(r, b)}, next |-> IF b.bit = <<>> THEN BitFor(r, b) + 1 ELSE r.next]

LineBits(bindings) ==
    LET taken[n \in 0..Len(bindings)] ==
          IF n = 0 THEN [used |-> {}, next |-> 0] ELSE TakeLine(taken[n - 1], bindings[n])
    IN [n \in DOMAIN bindings |-> BitFor(taken[n - 1], bindings[n])]

GpioPoints(bindings, slots, r) ==
    [n \in DOMAIN bindings |->
       [slot |-> slots[n], bit |-> LineBits(bindings)[n],
        safe |-> IF bindings[n].plane = "Q" THEN r.safe[slots[n]] ELSE 0]]

(* One request has one direction, that of its first binding.               *)
GpioOk(module) ==
    LET cfg == module.cfg
        of == module.bindings
        bits == LineBits(of)
    IN /\ Len(cfg.lines) \in 1..MaxLines
       /\ Cardinality(Range(cfg.lines)) = Len(cfg.lines)
       /\ of # <<>>
       /\ \A n \in DOMAIN of: /\ GpioBindingOk(of[n]) /\ of[n].plane = of[1].plane
                              /\ bits[n] < Len(cfg.lines)
       /\ \A n, k \in DOMAIN of: n # k => bits[n] # bits[k]
       /\ of[1].plane = "I" => cfg.drive = <<>>

(* No two GPIO modules share an id or a line of a chip.                    *)
GpioClash(map) ==
    LET gpio == {n \in DOMAIN map.modules: map.modules[n].driver = "gpio"} IN
    \E i, j \in gpio:
      /\ i < j
      /\ LET a == map.modules[i]
             b == map.modules[j]
         IN \/ a.id = b.id
            \/ a.cfg.chip = b.cfg.chip /\ Range(a.cfg.lines) \cap Range(b.cfg.lines) # {}
=============================================================================

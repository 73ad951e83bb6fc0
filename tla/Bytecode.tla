------------------------------ MODULE Bytecode ------------------------------
(***************************************************************************)
(* IR v0.1: tagged values and byte segments (plc-vm value.rs, memory.rs),  *)
(* what the verifier knows of an instruction (plc-ir verify.rs) and the    *)
(* interpreter (plc-vm exec.rs).  A code address is the index of a word:   *)
(* code[pc] is what decode_instruction finds there, also at the operand    *)
(* words of a longer instruction, where a jump may lead.  A byte has       *)
(* ByteBase values, so that an INT (2 bytes) and a DINT (4 bytes) overflow *)
(* on small numbers.  REAL is an integer here.  Definitions named          *)
(* Mutant... are defective variants of the definition that follows them.   *)
(***************************************************************************)
EXTENDS Primitives, SequencesExt

CONSTANTS
    ByteBase,      \* values of one byte (256 in the code)
    MaxStack,      \* operand stack limit (256)
    MaxCallDepth,  \* call frames (32)
    Budget         \* instruction_budget

ASSUME BytecodeAssumption ==
    /\ ByteBase \in Nat \ {0, 1} /\ MaxDint = (ByteBase ^ 4) \div 2 - 1
    /\ MaxStack \in Nat /\ MaxCallDepth \in Nat /\ Budget \in Nat

Types == {"Bool", "Int", "Dint", "Real", "Time", "Lint"}
Width == [Bool |-> 1, Int |-> 2, Dint |-> 4, Real |-> 4, Time |-> 4, Lint |-> 8]
Val(ty, v) == [ty |-> ty, v |-> v]
Bool(b) == Val("Bool", IF b THEN 1 ELSE 0)

(* Two's complement of `w` bytes. *)
Wrap(x, w) ==
    LET n == ByteBase ^ w
        u == x % n
    IN IF u >= n \div 2 THEN u - n ELSE u

AsBool(a) == a.ty = "Bool" /\ a.v # 0
ToStackValue(a) == IF a.ty \in {"Int", "Time", "Lint"} THEN Val("Dint", Wrap(a.v, 4)) ELSE a
FromStackValue(a, preferTime) ==
    IF a.ty = "Dint" /\ preferTime THEN Val("Time", a.v) ELSE a

(* CONV.  REAL to an integer type saturates, an integer to another wraps.  *)
Convert(a, ty) ==
    LET half == (ByteBase ^ Width[ty]) \div 2 IN
    CASE ty = "Bool" -> Bool(a.v # 0)
      [] ty = "Real" -> Val(ty, a.v)
      [] OTHER -> Val(ty, IF a.ty = "Real" THEN Clamp(a.v, -half, half - 1)
                          ELSE Wrap(a.v, Width[ty]))

(***************************************************************************)
(* Byte segments with a start tag per offset.                              *)
(***************************************************************************)
Zeros(n) == [bytes |-> [i \in 0..(n - 1) |-> 0], tags |-> [i \in 0..(n - 1) |-> "Unset"],
             size |-> n]

Store(seg, off, a) ==
    LET w == Width[a.ty]
        u == a.v % (ByteBase ^ w)
        in == off..(off + w - 1)
    IN [seg EXCEPT
         !.bytes = [i \in DOMAIN @ |->
                      IF i \in in THEN (u \div (ByteBase ^ (i - off))) % ByteBase ELSE @[i]],
         !.tags = [i \in DOMAIN @ |->
                     IF i = off THEN a.ty ELSE IF i \in in THEN "Unset" ELSE @[i]]]

StoreFits(seg, off, a) == off + Width[a.ty] <= seg.size

TagAt(seg, off) == IF seg.tags[off] = "Unset" THEN "Bool" ELSE seg.tags[off]

LoadFits(seg, off) == off < seg.size /\ off + Width[TagAt(seg, off)] <= seg.size

(* A never stored offset reads as BOOL. *)
Load(seg, off) ==
    LET ty == TagAt(seg, off)
        low[n \in 0..Width[ty]] ==
          IF n = 0 THEN 0 ELSE low[n - 1] + seg.bytes[off + n - 1] * ByteBase ^ (n - 1)
    IN IF ty = "Bool" THEN Bool(seg.bytes[off] # 0)
       ELSE Val(ty, Wrap(low[Width[ty]], Width[ty]))

(***************************************************************************)
(* Operators.  A result is a value or Err(kind).                           *)
(***************************************************************************)
Err(kind) == [ty |-> "Err", v |-> kind]
TruncDiv(x, y) ==
    LET n == (IF x < 0 THEN -x ELSE x) \div (IF y < 0 THEN -y ELSE y)
    IN IF (x < 0) = (y < 0) THEN n ELSE -n

(* i32 arithmetic, i64 on LINT: wrapping, x / 0 = 0, and MIN / -1 panics. *)
IntArith(op, ty, x, y) ==
    LET w == IF ty = "Lint" THEN 8 ELSE 4 IN
    CASE op = "Add" -> Val(ty, Wrap(x + y, w))
      [] op = "Sub" -> Val(ty, Wrap(x - y, w))
      [] op = "Mul" -> Val(ty, Wrap(x * y, w))
      [] OTHER -> IF y = 0 THEN Val(ty, 0)
                  ELSE IF x = -((ByteBase ^ w) \div 2) /\ y = -1 THEN Err("Panic")
                  ELSE Val(ty, TruncDiv(x, y))

ArithOp(op, a, b) ==
    LET r(ty) == IntArith(op, ty, a.v, b.v) IN
    CASE a.ty = b.ty /\ a.ty \in {"Time", "Dint", "Lint"} -> r(a.ty)
      [] a.ty = "Int" /\ b.ty = "Int" ->
           IF r("Int").ty = "Err" THEN r("Int") ELSE Val("Int", Wrap(r("Int").v, 2))
      [] {a.ty, b.ty} = {"Int", "Dint"} -> r("Dint")
      [] a.ty = "Real" /\ b.ty = "Real" ->
           Val("Real", CASE op = "Add" -> a.v + b.v [] op = "Sub" -> a.v - b.v
                         [] op = "Mul" -> a.v * b.v
                         [] OTHER -> IF b.v = 0 THEN 0 ELSE TruncDiv(a.v, b.v))
      [] OTHER -> Err("Type")

IsDiv0(op, a, b) == op = "Div" /\ a.ty # "Bool" /\ b.ty # "Bool" /\ b.v = 0

ValuesEq(a, b) ==
    IF "Real" \in {a.ty, b.ty} THEN a = b ELSE a.v = b.v

CmpOp(op, a, b) ==
    IF (a.ty = "Real") # (b.ty = "Real") THEN Err("Type")
    ELSE Bool(CASE op = "Lt" -> a.v < b.v [] op = "Le" -> a.v <= b.v
                [] op = "Gt" -> a.v > b.v [] OTHER -> a.v >= b.v)

(* The low n bits of x and y combined bit by bit. *)
Bitwise2(op, x, y, n) ==
    LET ones(k) == ((x \div 2 ^ k) % 2) + ((y \div 2 ^ k) % 2)
        bit(k) == CASE op = "And" -> ones(k) \div 2
                    [] op = "Or" -> (ones(k) + 1) \div 2
                    [] OTHER -> ones(k) % 2
        low[k \in 0..n] == IF k = 0 THEN 0 ELSE low[k - 1] + bit(k - 1) * 2 ^ (k - 1)
    IN low[n]

BitsOf(w) == CHOOSE n \in 0..64: 2 ^ n = ByteBase ^ w

LogicOp(op, a, b) ==
    IF a.ty # b.ty \/ a.ty \notin {"Bool", "Int", "Dint"} THEN Err("Type")
    ELSE IF a.ty = "Bool" THEN Val("Bool", Bitwise2(op, a.v, b.v, 1))
    ELSE LET w == Width[a.ty]
             n == ByteBase ^ w
         IN Val(a.ty, Wrap(Bitwise2(op, a.v % n, b.v % n, BitsOf(w)), w))

Binop(op, a, b) ==
    CASE op \in {"And", "Or", "Xor"} -> LogicOp(op, a, b)
      [] op = "Eq" -> Bool(ValuesEq(a, b))
      [] op = "Ne" -> Bool(~ValuesEq(a, b))
      [] op \in {"Lt", "Le", "Gt", "Ge"} -> CmpOp(op, a, b)
      [] OTHER -> ArithOp(op, a, b)

UnaryOp(op, a) ==
    CASE op = "Not" /\ a.ty = "Bool" -> Bool(a.v = 0)
      [] op = "Not" /\ a.ty \in {"Int", "Dint", "Time", "Lint"} -> Val(a.ty, -a.v - 1)
      [] op = "Neg" /\ a.ty = "Real" -> Val(a.ty, -a.v)
      [] op = "Neg" /\ a.ty \in {"Int", "Dint", "Time", "Lint"} -> Val(a.ty, Wrap(-a.v, Width[a.ty]))
      [] OTHER -> Err("Type")

(***************************************************************************)
(* What the verifier knows of one instruction: the words it takes, the     *)
(* operands it pops, the types it pushes ("Top" = unknown), the checks on  *)
(* its operand and where it may go.  A module is [code, dataSize,          *)
(* retainSize, inputs, outputs, entries].                                  *)
(***************************************************************************)
Binops == {"Add", "Sub", "Mul", "Div", "And", "Or", "Xor",
           "Eq", "Ne", "Lt", "Le", "Gt", "Ge"}
Wide == [PushIDint |-> "Dint", PushIReal |-> "Real", PushTime |-> "Time"]

Opcodes ==
    Binops \cup DOMAIN Wide \cup
    {"Nop", "Halt", "Ret", "PushIBool", "LdData", "StData", "LdRetain", "StRetain", "LdI", "LdIq",
     "LdQ", "StQ", "Neg", "Not", "Jmp", "JmpIf", "JmpIfNot", "Conv", "CallFb"}

(* Words of an instruction, and whether one decodes at an address. *)
Words(i) == IF i.op = "CallFb" THEN 3 ELSE IF i.op \in DOMAIN Wide THEN 2 ELSE 1

Decodes(m, pc) ==
    /\ pc \in 1..Len(m.code) /\ m.code[pc].op \in Opcodes
    /\ pc + Words(m.code[pc]) - 1 <= Len(m.code)

StacksCompatible(s, t) ==
    /\ Len(s) = Len(t)
    /\ \A i \in 1..Len(s): s[i] = "Top" \/ t[i] = "Top" \/ s[i] = t[i]

BinaryType(op, x, y) ==
    LET known == IF x = "Top" THEN y ELSE x
        both == "Top" \notin {x, y}
    IN CASE op \in {"Eq", "Ne", "Lt", "Le", "Gt", "Ge"} -> "Bool"
         [] op \in {"Add", "Sub", "Mul", "Div"} -> IF both /\ x # y THEN "Bad" ELSE known
         [] OTHER -> IF both /\ (x # y \/ x = "Real") THEN "Bad"
                     ELSE IF known = "Top" THEN "Bool" ELSE known

IsUserCall(i) == i.op = "CallFb" /\ i.kind # 0

(* Operands an instruction pops and the types it pushes, bottom first. *)
Pops(i) ==
    CASE i.op \in {"StData", "StRetain", "StQ", "Neg", "Not", "JmpIf", "JmpIfNot", "Conv"} -> 1
      [] i.op \in Binops -> 2
      [] i.op = "CallFb" -> IF i.kind = 0 THEN InputCount(i.id) ELSE 0
      [] OTHER -> 0

Pushes(i, popped) ==
    CASE i.op \in {"PushIBool", "LdIq"} -> <<"Bool">>
      [] i.op \in DOMAIN Wide -> <<Wide[i.op]>>
      [] i.op \in {"LdData", "LdRetain", "LdI", "LdQ"} -> <<"Top">>
      [] i.op \in Binops -> <<BinaryType(i.op, popped[1], popped[2])>>
      [] i.op = "Neg" -> popped
      [] i.op = "Not" -> IF popped[1] = "Top" THEN <<"Bool">> ELSE popped
      [] i.op = "Conv" -> <<i.p>>
      [] i.op = "CallFb" /\ i.kind = 0 ->
           [n \in 1..OutputCount(i.id) |-> IF n = 1 THEN "Bool" ELSE "Time"]
      [] OTHER -> <<>>

SegmentSize(m, op) == IF op \in {"LdData", "StData"} THEN m.dataSize ELSE m.retainSize
CheckOffset(off, size) == size = 0 \/ off < size
CheckJmpTarget(m, target) == target \in 1..Len(m.code)

(* Checks that do not concern the stack. *)
OperandOk(m, i) ==
    CASE i.op \in {"LdData", "StData", "LdRetain", "StRetain"} ->
           CheckOffset(i.p, SegmentSize(m, i.op))
      [] i.op \in {"LdI", "LdIq"} -> i.p < m.inputs
      [] i.op \in {"StQ", "LdQ"} -> i.p < m.outputs
      [] i.op \in {"Jmp", "JmpIf", "JmpIfNot"} -> CheckJmpTarget(m, i.p)
      [] i.op = "Conv" -> i.p \in Types
      [] i.op = "CallFb" -> i.kind # 0 \/ i.id \in Ids
      [] OTHER -> TRUE

(* The addresses control may reach next within the body, where the next    *)
(* instruction is at `next`; a user block is taken to return.              *)
MutantSuccessors(i, next) ==
    CASE i.op \in {"Halt", "Ret"} -> <<>>
      [] i.op \in {"Jmp", "JmpIf", "JmpIfNot"} -> <<i.p>>
      [] OTHER -> <<next>>

Successors(i, next) ==
    CASE i.op \in {"Halt", "Ret"} -> <<>>
      [] i.op = "Jmp" -> <<i.p>>
      [] i.op \in {"JmpIf", "JmpIfNot"} -> <<i.p, next>>
      [] OTHER -> <<next>>

(***************************************************************************)
(* The interpreter.                                                        *)
(***************************************************************************)
LoadVm(m, instances) ==
    [data |-> Zeros(m.dataSize), retain |-> Zeros(m.retainSize),
     inputs |-> [n \in 0..(m.inputs - 1) |-> Bool(FALSE)],
     good |-> [n \in 0..(m.inputs - 1) |-> TRUE],
     outputs |-> [n \in 0..(m.outputs - 1) |-> Bool(FALSE)],
     written |-> {}, prims |-> WithCapacity(instances),
     stack |-> <<>>, frames |-> <<>>, base |-> 0, pc |-> 0, steps |-> 0,
     div0 |-> 0, dirty |-> FALSE, status |-> "ready"]

(* cold_reset_non_retain: everything but the retain segment (and the dirty *)
(* flag and the inputs).                                                   *)
ColdReset(vm, instances) ==
    [vm EXCEPT !.data = Zeros(@.size), !.outputs = [n \in DOMAIN @ |-> Bool(FALSE)],
               !.written = {}, !.prims = WithCapacity(instances),
               !.stack = <<>>, !.frames = <<>>, !.base = 0, !.div0 = 0]

EntryOf(m, name) ==
    CHOOSE n \in 1..Len(m.entries):
      /\ m.entries[n].name = name
      /\ \A k \in 1..(n - 1): m.entries[k].name # name

StartRun(vm, pc) ==
    [vm EXCEPT !.stack = <<>>, !.frames = <<>>, !.base = 0, !.written = {}, !.pc = pc,
               !.steps = 0, !.status = "run"]

Fault(vm, kind) == [vm EXCEPT !.status = kind]
Goto(vm, pc) == [vm EXCEPT !.pc = pc]

Pushed(vm, a) ==
    IF Len(vm.stack) >= MaxStack THEN Fault(vm, "StackOverflow")
    ELSE [vm EXCEPT !.stack = Append(@, a)]

Popped(vm, n) == [vm EXCEPT !.stack = SubSeq(@, 1, Len(@) - n)]

(* RET: back to the caller and to the data base of the frame below. *)
Return(vm) ==
    IF vm.frames = <<>> THEN Fault(vm, "returned")
    ELSE LET below == Front(vm.frames)
         IN [vm EXCEPT !.pc = Last(vm.frames).ret, !.frames = below,
                       !.base = IF below = <<>> THEN 0 ELSE Last(below).base]

(* User blocks are found by their number, the last entry of a number wins. *)
UserHits(m, id) == {n \in 1..Len(m.entries): m.entries[n].fb /\ m.entries[n].id = id}
UserEntry(m, id) == CHOOSE n \in UserHits(m, id): \A k \in UserHits(m, id): k <= n

(* The frame keeps the base of the called instance, and LD/ST inside add   *)
(* it to their offsets.                                                    *)
CallUser(vm, m, i) ==
    IF UserHits(m, i.id) = {} THEN Fault(vm, "UnknownUserFb")
    ELSE IF Len(vm.frames) >= MaxCallDepth THEN Fault(vm, "CallDepth")
    ELSE [vm EXCEPT !.frames = Append(@, [ret |-> vm.pc, base |-> i.base]),
                    !.base = i.base,
                    !.pc = m.entries[UserEntry(m, i.id)].pc]

(* The first output ends on top of the stack. *)
PushOutputs(vm, id, out) ==
    IF Len(vm.stack) + Len(out) > MaxStack THEN Fault(vm, "StackOverflow")
    ELSE [vm EXCEPT
           !.stack = @ \o Reverse([n \in 1..Len(out) |->
                             FromStackValue(out[n], id \in {"TON", "TOF", "TP"} /\ n = 2)])]

CallPrim(vm, i, now) ==
    LET n == InputCount(i.id)
        args == SubSeq(vm.stack, Len(vm.stack) - n + 1, Len(vm.stack))
        r == CallPrimitive(vm.prims, i.id, i.base, [k \in 1..n |-> ToStackValue(args[k])], now)
    IN IF ~r.ok THEN Fault(vm, "Primitive")
       ELSE PushOutputs([Popped(vm, n) EXCEPT !.prims = r.store], i.id, r.out)

(* LD/ST of a data or retain offset relative to the current base. *)
LoadOp(vm, seg, off) ==
    IF ~(off < seg.size) THEN Fault(vm, "Bounds")
    ELSE IF ~LoadFits(seg, off) THEN Fault(vm, "Bounds")
    ELSE Pushed(vm, Load(seg, off))

StoreOp(vm, seg, off) ==
    LET a == Last(vm.stack) IN
    IF ~StoreFits(vm[seg], off, a) THEN Fault(vm, "Bounds")
    ELSE [Popped(vm, 1) EXCEPT ![seg] = Store(@, off, a),
                               !.dirty = @ \/ seg = "retain"]

Top(vm, n) == vm.stack[Len(vm.stack) - n]

(* Instruction i, its operands on the stack and the program counter behind *)
(* it (a step that fails does not show the program counter).               *)
Execute(vm, m, i, now) ==
    LET op == i.op
    IN CASE op = "Halt" -> Fault(vm, "halted")
         [] op = "Ret" -> Return(vm)
         [] op = "PushIBool" -> Pushed(vm, Bool(i.p # 0))
         [] op \in DOMAIN Wide -> Pushed(vm, Val(Wide[op], i.p))
         [] op = "LdData" -> LoadOp(vm, vm.data, vm.base + i.p)
         [] op = "LdRetain" -> LoadOp(vm, vm.retain, vm.base + i.p)
         [] op = "StData" -> StoreOp(vm, "data", vm.base + i.p)
         [] op = "StRetain" -> StoreOp(vm, "retain", vm.base + i.p)
         [] op = "LdI" -> Pushed(vm, vm.inputs[i.p])
         [] op = "LdIq" -> Pushed(vm, Bool(vm.good[i.p]))
         [] op = "LdQ" -> Pushed(vm, vm.outputs[i.p])
         [] op = "StQ" -> [Popped(vm, 1) EXCEPT !.outputs[i.p] = Top(vm, 0),
                                                  !.written = @ \cup {i.p}]
         [] op \in Binops ->
              LET r == Binop(op, Top(vm, 1), Top(vm, 0))
              IN IF r.ty = "Err" THEN Fault(vm, r.v)
                 ELSE [Pushed(Popped(vm, 2), r) EXCEPT
                        !.div0 = IF IsDiv0(op, Top(vm, 1), Top(vm, 0)) THEN @ + 1 ELSE @]
         [] op \in {"Neg", "Not"} ->
              LET r == UnaryOp(op, Top(vm, 0))
              IN IF r.ty = "Err" THEN Fault(vm, r.v) ELSE Pushed(Popped(vm, 1), r)
         [] op = "Jmp" -> Goto(vm, i.p)
         [] op = "JmpIf" -> Popped(IF AsBool(Top(vm, 0)) THEN Goto(vm, i.p) ELSE vm, 1)
         [] op = "JmpIfNot" -> Popped(IF AsBool(Top(vm, 0)) THEN vm ELSE Goto(vm, i.p), 1)
         [] op = "Conv" -> Pushed(Popped(vm, 1), Convert(Top(vm, 0), i.p))
         [] op = "CallFb" -> IF i.kind = 0 THEN CallPrim(vm, i, now) ELSE CallUser(vm, m, i)
         [] OTHER -> vm

(* One pass of the loop of run_at. *)
VmStep(vm0, m, now) ==
    LET vm == [vm0 EXCEPT !.steps = @ + 1] IN
    IF vm.steps > Budget THEN Fault(vm, "Budget")
    ELSE IF ~Decodes(m, vm.pc) THEN Fault(vm, "Decode")
    ELSE LET i == m.code[vm.pc] IN
         IF Len(vm.stack) < Pops(i) THEN Fault(vm, "StackUnderflow")
         ELSE Execute(Goto(vm, vm.pc + Words(i)), m, i, now)

=============================================================================

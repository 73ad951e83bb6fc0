------------------------------ MODULE MCFieldIo ------------------------------
(***************************************************************************)
(* Instances of FieldIo: a Modbus device with inputs in two tables and     *)
(* outputs of the three kinds, a pair of GPIO modules, and a family of     *)
(* small maps that exercise planning.  Registers have two bits.            *)
(***************************************************************************)
EXTENDS FieldIo

Binding(tag, plane, ty, reg, raw, bit, safe) ==
    [tag |-> tag, plane |-> plane, ty |-> ty, slot |-> <<>>, bit |-> bit, reg |-> reg,
     regType |-> <<>>, raw |-> raw, scale |-> 1, offset |-> 0, clamp |-> <<>>, safe |-> safe]

Num(v) == <<[bool |-> FALSE, v |-> v]>>
True == <<[bool |-> TRUE, v |-> 1]>>

Modbus(bindings, policy) ==
    [driver |-> "modbus_tcp", id |-> "remote", onBad |-> policy, bindings |-> bindings,
     cfg |-> [poll |-> 1, stale |-> <<1>>, timeout |-> <<>>, unit |-> 1]]

Lines(id, lines, drive, bindings) ==
    [driver |-> "gpio", id |-> id, onBad |-> "ForceSafe", bindings |-> bindings,
     cfg |-> [chip |-> "gpiochip0", lines |-> lines, drive |-> drive]]

Map(modules) == [version |-> 1, modules |-> modules]

(* Two read requests of one table and one write request.                   *)
Sensors == Map(<<Modbus(<<
    Binding("level", "I", "INT", <<30001>>, <<>>, <<>>, <<>>),
    Binding("weight", "I", "INT", <<30003>>, <<>>, <<>>, <<>>)>>, "ForceSafe")>>)

(* A coil, and a bit of a register that is read and written back.          *)
Actuators(policy) == Map(<<Modbus(<<
    Binding("motor", "Q", "BOOL", <<1>>, <<>>, <<>>, True),
    Binding("lamp", "Q", "BOOL", <<40003>>, <<>>, <<1>>, <<>>)>>, policy)>>)

(* An open-drain module whose second line is bound, a push-pull module,    *)
(* and an input module.                                                    *)
Local == Map(<<
    Lines("relays", <<4, 5>>, <<>>, <<Binding("horn", "Q", "BOOL", <<>>, <<>>, <<1>>, True)>>),
    Lines("drive", <<6>>, <<"push_pull">>, <<Binding("valve", "Q", "BOOL", <<>>, <<>>, <<>>, <<>>)>>),
    Lines("buttons", <<7>>, <<>>, <<Binding("start", "I", "BOOL", <<>>, <<>>, <<>>, <<>>)>>)>>)

(* Maps of three bindings over neighbouring registers: contiguous, apart,  *)
(* overlapping, of one or two words, a coil, a bit, a read-only table.     *)
Point(tag, plane, ty, reg, bit) == Binding(tag, plane, ty, <<reg>>, <<>>, bit, <<>>)
Planned == {Map(<<Modbus(<<a, b, c>>, "ForceSafe")>>):
    a \in {[Point("a", "Q", ty, 40001, <<>>) EXCEPT !.scale = 2, !.safe = Num(-3)]: ty \in {"INT", "DINT"}},
    b \in {Point("b", plane, ty, reg, <<>>): plane \in {"I", "Q"}, ty \in {"INT", "DINT"},
                                          reg \in {40002, 40003}},
    c \in {Point("c", "Q", "BOOL", 2, <<>>), Point("c", "Q", "BOOL", 40004, <<1>>),
            Point("c", "Q", "INT", 30001, <<>>), Point("c", "Q", "DINT", 40003, <<>>)}}

(* Two devices behind one worker.                                          *)
Pair == Map(<<Modbus(<<Binding("left", "Q", "BOOL", <<1>>, <<>>, <<>>, True)>>, "ForceSafe"),
              Modbus(<<Binding("right", "Q", "BOOL", <<1>>, <<>>, <<>>, <<>>)>>, "HoldLast")>>)

Sense == Sensors
Act == Actuators("HoldLast")
MCMaps == {Sense, Act, Local, Pair} \cup Planned
SimMaps == {Act}
MCMaxFaults(m) == CASE m = Sense -> 1 [] m = Act -> 1 [] m = Local -> 1 [] OTHER -> 0
MCMaxChanges(m) == CASE m = Sense -> 1 [] m = Act -> 2 [] m = Local -> 3 [] m = Pair -> 1 [] OTHER -> 0
MCLimits == [readBits |-> 3, readRegs |-> 2, writeBits |-> 3, writeRegs |-> 3]
====

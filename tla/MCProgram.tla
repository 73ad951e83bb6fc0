----------------------------- MODULE MCProgram -----------------------------
(* Projects for the model checker: a family of generated assignments and   *)
(* hand-written programs for control flow, native blocks and user blocks.  *)
EXTENDS Program

B(v) == Val("Bool", v)
D(v) == Val("Dint", v)
lit(ty, v) == [k |-> "lit", ty |-> ty, v |-> v]
num(v) == lit("Dint", v)
nm(n) == [k |-> "name", path |-> <<<<"id", n>>>>]
fld(n, f) == [k |-> "name", path |-> <<<<"id", n>>, <<"id", f>>>>]
bin(op, l, r) == [k |-> "bin", op |-> op, l |-> l, r |-> r]
un(op, e) == [k |-> "un", op |-> op, e |-> e]
set(n, e) == [k |-> "assign", lhs |-> nm(n), rhs |-> e]
call(n, ins, outs) == [k |-> "fbcall", callee |-> <<<<"id", n>>>>, ins |-> ins, outs |-> outs]
arg(n, e) == [name |-> n, e |-> e]
out(n, d) == [name |-> n, dest |-> nm(d)]
if1(c, body, els) == [k |-> "if", branches |-> <<[cond |-> c, body |-> body]>>, els |-> els]

var(n, ty) == [n |-> n, at |-> <<>>, ty |-> [k |-> "named", n |-> ty], init |-> <<>>]
at(n, plane, slot, ty) == [var(n, ty) EXCEPT !.at = <<<<plane, slot>>>>]
sec(kind, vs) == [kind |-> kind, vars |-> vs]
prog(secs, body) == [fb |-> FALSE, name |-> "Main", vars |-> secs, body |-> body]
block(n, secs, body) == [fb |-> TRUE, name |-> n, vars |-> secs, body |-> body]
proj(units, ins, watch) ==
    [units |-> units, tasks |-> <<[name |-> "task.main", program |-> "Main"]>>,
     tags |-> <<[kind |-> "I", slot |-> 1], [kind |-> "Q", slot |-> 0]>>, max |-> 2,
     ins |-> ins, watch |-> watch, bads |-> {{}}, gaps |-> {1}, scans |-> 2, colds |-> 0]

Io == sec("global", <<at("a", "I", 0, "BOOL"), at("b", "I", 1, "BOOL"), at("q", "Q", 0, "BOOL"),
                      at("p", "Q", 1, "BOOL")>>)
BoolPairs == {<<B(x), B(y)>>: x, y \in 0..1}
IoD == sec("global", <<at("a", "I", 0, "BOOL"), at("d", "I", 1, "DINT"), at("q", "Q", 0, "BOOL")>>)

(* Every expression op1(op2(x, y), z) and op1(x, op2(y, z)) over a BOOL, a  *)
(* DINT and a literal, well typed or not, assigned to a variable.           *)
Leaves == {nm("a"), nm("d"), num(2)}
Ops == {"Or", "And", "Xor", "Lt", "Add", "Div"}
Exprs ==
    {bin(o, bin(i, x, y), z): o, i \in Ops, x, y, z \in Leaves} \cup
    {bin(o, x, bin(i, y, z)): o, i \in Ops, x, y, z \in Leaves} \cup
    {un(o, bin(i, x, y)): o \in {"Not", "Neg"}, i \in Ops, x, y \in Leaves} \cup
    {bin(i, un(o, x), y): o \in {"Not", "Neg"}, i \in Ops, x, y \in Leaves}
Assignments ==
    {proj(<<prog(<<IoD, sec("var", <<var("x", "DINT")>>)>>, <<set("x", e)>>)>>,
          {<<B(1), D(MinDint)>>, <<B(0), D(-1)>>}, {}): e \in Exprs}

(* Branches, early return, constants, retain, arrays, quality. *)
Logic ==
    proj(<<prog(<<Io, sec("var", <<var("m", "BOOL"), var("n", "DINT"),
                       [var("arr", "BOOL") EXCEPT !.ty = [k |-> "array", upper |-> 2, elem |-> "BOOL"]]>>),
                  sec("constant", <<[var("lim", "DINT") EXCEPT !.init = <<num(3)>>]>>),
                  sec("retain", <<var("r", "DINT"), var("s", "BOOL")>>)>>,
         << if1(bin("Xor", nm("m"), [k |-> "qgood", e |-> nm("a")]),
                <<set("n", num(1)), set("m", un("Not", nm("a")))>>,
                << <<set("n", bin("Add", nm("n"), nm("lim")))>> >>),
            [k |-> "if", branches |->
               <<[cond |-> bin("And", nm("a"), bin("Gt", nm("n"), num(2))), body |-> <<set("r", nm("n"))>>],
                 [cond |-> bin("Or", nm("b"), bin("Eq", nm("r"), num(0))),
                  body |-> <<set("s", nm("b")), set("r", num(5)), [k |-> "return"]>>]>>,
             els |-> << <<set("q", [k |-> "name", path |-> <<<<"id", "arr">>, <<"ix", num(1)>>>>])>> >>],
            set("p", nm("s")), [k |-> "empty"] >>)>>, BoolPairs, {})

(* Bounded loops, nested and with an undeclared variable. *)
Loops ==
    proj(<<prog(<<Io, sec("var", <<var("n", "DINT"), var("t", "DINT")>>)>>,
         << set("n", num(0)),
            [k |-> "for", var |-> "i", from |-> num(1), to |-> num(2), by |-> <<>>, max |-> <<>>,
             body |-> <<[k |-> "while", cond |-> bin("Ge", bin("Mul", nm("i"), num(2)), num(0)),
                         max |-> <<2>>, body |-> <<set("n", bin("Add", nm("n"), num(1)))>>],
                        set("t", bin("Sub", nm("n"), nm("i")))>>] >>)>>,
         {<<B(0), B(0)>>}, {})

(* A stepped loop over a declared variable, CASE with ranges and ELSE. *)
Cases ==
    proj(<<prog(<<Io, sec("var", <<var("n", "DINT"), var("t", "DINT")>>)>>,
         << set("t", num(0)),
            [k |-> "for", var |-> "n", from |-> num(0), to |-> num(2), by |-> <<num(2)>>, max |-> <<9>>,
             body |-> <<if1(nm("a"), <<set("t", bin("Add", nm("t"), nm("n")))>>, <<>>)>>],
            [k |-> "case", sel |-> bin("Add", nm("t"), num(1)),
             arms |-> <<[labels |-> <<1, 2>>, body |-> <<set("q", nm("b"))>>],
                        [labels |-> <<5, 3, 9>>, body |-> <<if1(nm("b"), <<[k |-> "return"]>>, <<>>)>>]>>,
             els |-> << <<set("p", lit("Bool", 1))>> >>] >>)>>,
         BoolPairs, {})

Timers ==
    proj(<<prog(<<Io, sec("var", <<var("on", "TON"), var("of", "TOF"), var("pu", "TP"), var("e", "TIME")>>)>>,
         << call("on", <<arg("IN", nm("a")), arg("PT", lit("Time", 3))>>, <<out("Q", "q"), out("ET", "e")>>),
            call("of", <<arg("", nm("a")), arg("", lit("Time", 3))>>, <<>>),
            call("pu", <<arg("PT", lit("Time", 3)), arg("IN", nm("a"))>>, <<>>),
            set("p", bin("And", fld("of", "Q"), fld("pu", "Q"))) >>)>>,
         {<<B(x), B(0)>>: x \in 0..1},
         {[n |-> "on", id |-> "TON", a |-> 0, pt |-> 3], [n |-> "of", id |-> "TOF", a |-> 0, pt |-> 3],
          [n |-> "pu", id |-> "TP", a |-> 0, pt |-> 3]})

Counters ==
    LET ab == <<arg("", nm("a")), arg("", nm("b"))>>
        w(n, id) == [n |-> n, id |-> id, a |-> 0, b |-> 1, pt |-> 2]
    IN proj(<<prog(<<Io, sec("var", <<var("u", "CTU"), var("v", "CTD"), var("rs", "RS"), var("sr", "SR"),
                          var("rt", "R_TRIG"), var("ft", "F_TRIG"), var("pid", "PID")>>)>>,
         << call("u", Append(ab, arg("", num(2))), <<out("Q", "q")>>),
            call("v", Append(ab, arg("PV", num(2))), <<>>),
            call("rs", ab, <<>>), call("sr", ab, <<out("Q", "p")>>),
            call("rt", <<arg("CLK", nm("a"))>>, <<>>), call("ft", <<arg("CLK", nm("a"))>>, <<>>),
            call("pid", <<arg("PV", lit("Real", 1)), arg("SP", lit("Real", 9)), arg("ENABLE", nm("b"))>>,
                 <<>>) >>)>>,
         BoolPairs, {w("u", "CTU"), w("v", "CTD"), w("rs", "RS"), w("sr", "SR"), w("rt", "R_TRIG"),
                     w("ft", "F_TRIG")})

(* Two user blocks, one used twice, without temporaries in their bodies. *)
Acc == block("Acc", <<sec("input", <<var("up", "BOOL"), var("by", "DINT")>>),
                      sec("output", <<var("sum", "DINT")>>), sec("var", <<var("set", "BOOL")>>)>>,
             << if1(un("Not", nm("set")), <<set("sum", num(0)), set("set", lit("Bool", 1))>>, <<>>),
                if1(nm("up"), <<set("sum", bin("Add", nm("sum"), nm("by")))>>,
                    << <<[k |-> "return"]>> >>),
                set("sum", bin("Add", nm("sum"), num(1))) >>)
Flip == block("Flip", <<sec("input", <<var("x", "BOOL")>>), sec("output", <<var("y", "BOOL")>>)>>,
              << set("y", bin("Xor", nm("x"), nm("y"))) >>)
Blocks ==
    proj(<<Acc, Flip, prog(<<Io, sec("var", <<var("f", "Flip"), var("one", "Acc"), var("two", "Acc"),
                                     var("t", "DINT")>>)>>,
         << call("one", <<arg("", nm("a")), arg("", num(3))>>, <<out("sum", "t")>>),
            call("two", <<arg("by", fld("one", "sum")), arg("up", nm("b"))>>, <<>>),
            call("f", <<arg("x", bin("Ge", fld("two", "sum"), nm("t")))>>, <<out("y", "q")>>) >>)>>,
         BoolPairs, {})

(* A block with a temporary in its body, instantiated behind other data. *)
BlockWithAnd ==
    proj(<<block("Both", <<sec("input", <<var("x", "BOOL"), var("z", "BOOL")>>),
                           sec("output", <<var("y", "BOOL")>>)>>,
                 << set("y", bin("And", nm("x"), nm("z"))) >>),
           prog(<<Io, sec("var", <<var("n1", "DINT"), var("n2", "DINT"), var("n3", "DINT"),
                      var("n4", "DINT"), var("f", "Both")>>)>>,
         << call("f", <<arg("x", nm("a")), arg("z", nm("b"))>>, <<out("y", "q")>>) >>)>>, BoolPairs, {})

(* A block with retained fields, built and verified but not scanned: they   *)
(* lie on the program's own (RetainedFieldsPlaced).                         *)
Keeping ==
    proj(<<block("Keep", <<sec("input", <<var("x", "BOOL")>>),
                           sec("retain", <<var("on", "BOOL"), var("n", "DINT")>>)>>,
                 << if1(nm("x"), <<set("n", bin("Add", nm("n"), num(1)))>>, <<>>),
                    set("on", nm("x")) >>),
           prog(<<Io, sec("retain", <<var("r", "DINT"), var("s", "BOOL")>>), sec("var", <<var("k", "Keep")>>)>>,
         << call("k", <<arg("x", nm("a"))>>, <<>>), set("r", num(1)) >>)>>, BoolPairs, {})

Handwritten ==
    {[Logic EXCEPT !.bads = {{}, {0}}, !.colds = 1], Loops, Cases,
     [Timers EXCEPT !.gaps = {1, 2, 4}, !.scans = 5], [Counters EXCEPT !.scans = 4, !.colds = 1],
     [Blocks EXCEPT !.scans = 3], [Keeping EXCEPT !.scans = 0]}
AllProjects == Assignments \cup Handwritten
OnlyBlockWithAnd == {BlockWithAnd}
OnlyKeeping == {Keeping}
=============================================================================

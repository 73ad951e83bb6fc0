--------------------------- MODULE SourceSemantics ---------------------------
(***************************************************************************)
(* The reference side of the compiler's correctness: what an ST project    *)
(* means, defined directly on the syntax tree, and the text of a tree.     *)
(* Nothing here is taken from the compiler: no offsets, temps, labels or   *)
(* stack.  The machine's values and operators (Bytecode) and the native    *)
(* blocks (Primitives) are shared.                                         *)
(*                                                                         *)
(* An environment is [vars, prims, ins, good, outs, written, div0, now,    *)
(* decls, units, args, st, v]: vars maps <<instance, name>> to a value (unset    *)
(* names are absent and read as FALSE), st is "run", "ret" or a fault.     *)
(***************************************************************************)
EXTENDS Bytecode

Stop(env, st) == IF env.st = "run" THEN [env EXCEPT !.st = st] ELSE env
Yield(env, a) ==
    IF a.ty = "Err" THEN Stop(env, a.v) ELSE [env EXCEPT !.v = a]
Bind(f, key, a) == [x \in DOMAIN f \cup {key} |-> IF x = key THEN a ELSE f[x]]

(* The declarations of a unit by name, with the kind of their section. *)
DeclsOf(unit) ==
    LET all == FlattenSeq([s \in 1..Len(unit.vars) |->
                 [i \in 1..Len(unit.vars[s].vars) |->
                    [kind |-> unit.vars[s].kind, var |-> unit.vars[s].vars[i]]]])
    IN [n \in {d.var.n: d \in Range(all)} |-> CHOOSE d \in Range(all): d.var.n = n]

Slot(env, n, plane) ==
    n \in DOMAIN env.decls /\ env.decls[n].var.at # <<>> /\ env.decls[n].var.at[1][1] = plane

(* s is the block instance whose body runs, [inst, names], or the program. *)
KeyOf(s, n) == IF n \in s.names THEN <<s.inst, n>> ELSE <<"", n>>

Get(env, key) == IF key \in DOMAIN env.vars THEN env.vars[key] ELSE Bool(FALSE)

Read(env, s, n) ==
    CASE n \in s.names -> Get(env, <<s.inst, n>>)
      [] n \notin s.names /\ Slot(env, n, "I") -> env.ins[env.decls[n].var.at[1][2]]
      [] n \notin s.names /\ Slot(env, n, "Q") -> env.outs[env.decls[n].var.at[1][2]]
      [] OTHER -> IF n \in DOMAIN env.decls /\ env.decls[n].kind = "constant"
                  THEN Val(env.decls[n].var.init[1].ty, env.decls[n].var.init[1].v)
                  ELSE Get(env, <<"", n>>)

Write(env, s, path) ==
    LET n == path[1][2]
        slot == env.decls[n].var.at[1][2]
    IN IF env.st # "run" THEN env
       ELSE IF Len(path) = 2 THEN [env EXCEPT !.vars = Bind(@, <<n, path[2][2]>>, env.v)]
       ELSE IF n \notin s.names /\ Slot(env, n, "Q")
       THEN [env EXCEPT !.outs[slot] = env.v, !.written = @ \cup {slot}]
       ELSE [env EXCEPT !.vars = Bind(@, KeyOf(s, n), env.v)]

(***************************************************************************)
(* Expressions.                                                            *)
(***************************************************************************)
RECURSIVE Value(_, _, _), Run(_, _, _), Loop(_, _, _, _), ForLoop(_, _, _, _, _, _)

Negated(r, op) == IF r.st # "run" THEN r ELSE Yield(r, UnaryOp(op, r.v))

Combined(r, op, left) ==
    IF r.st # "run" \/ op \in {"And", "Or"} THEN r
    ELSE Yield([r EXCEPT !.div0 = IF IsDiv0(op, left, r.v) THEN @ + 1 ELSE @],
               Binop(op, left, r.v))

(* l holds the left operand; AND and OR look at the right one only when needed. *)
RightOf(l, s, e) ==
    IF l.st # "run" THEN l
    ELSE IF e.op = "And" /\ ~AsBool(l.v) THEN Yield(l, Bool(FALSE))
    ELSE IF e.op = "Or" /\ AsBool(l.v) THEN Yield(l, Bool(TRUE))
    ELSE Combined(Value(l, s, e.r), e.op, l.v)

Value(env, s, e) ==
    IF env.st # "run" THEN env
    ELSE CASE e.k = "lit" -> Yield(env, Val(e.ty, e.v))
           [] e.k = "name" ->
                Yield(env, IF Len(e.path) = 1 THEN Read(env, s, e.path[1][2])
                           ELSE IF e.path[2][1] = "id" THEN Get(env, <<e.path[1][2], e.path[2][2]>>)
                           ELSE Bool(FALSE))       \* array elements are never written
           [] e.k = "qgood" ->
                Yield(env, Bool(env.good[env.decls[e.e.path[1][2]].var.at[1][2]]))
           [] e.k = "un" -> Negated(Value(env, s, e.e), e.op)
           [] OTHER -> RightOf(Value(env, s, e.l), s, e)

(***************************************************************************)
(* Calls: arguments, the block, then the outputs that are asked for.       *)
(***************************************************************************)
CopyOuts(env, s, call, inst) ==
    FoldLeft(LAMBDA en, o: Write(Yield(en, Get(en, <<inst, o.name>>)), s, o.dest.path),
             env, call.outs)

(* Arguments in order; a positional one stands for the next input name. *)
ArgName(call, names, i) ==
    IF call.ins[i].name # "" THEN call.ins[i].name
    ELSE names[Cardinality({j \in 1..i: call.ins[j].name = ""})]

CallNative(env, s, call, inst, id) ==
    LET names == InputNames(id)
        arg(n) == CHOOSE i \in 1..Len(call.ins): ArgName(call, names, i) = names[n]
        ev == FoldLeftDomain(LAMBDA en, n: LET a == Value(en, s, call.ins[arg(n)].e)
                                           IN [a EXCEPT !.args = Append(@, ToStackValue(a.v))],
                             [env EXCEPT !.args = <<>>], names)
        old == IF inst \in DOMAIN env.prims THEN env.prims[inst] ELSE Inst(id)
        new == Eval(id, old, ev.args, env.now)
        outs == Outputs(id, new)
        named == CASE id \in {"TON", "TOF", "TP"} -> <<"Q", "ET">>
                   [] id \in {"CTU", "CTD"} -> <<"Q", "CV">>
                   [] OTHER -> IF id = "PID" THEN <<"OUT">> ELSE <<"Q">>
        stored == FoldLeftDomain(LAMBDA f, n: Bind(f, <<inst, named[n]>>,
                                   FromStackValue(outs[n], named[n] = "ET")), env.vars, outs)
    IN IF ev.st # "run" THEN ev
       ELSE IF ~InputsTyped(id, ev.args) THEN Stop(ev, "Primitive")
       ELSE CopyOuts([ev EXCEPT !.prims = Bind(@, inst, new), !.vars = stored], s, call, inst)

CallBlock(env, s, call, inst, fb) ==
    LET names == SelectSeq(fb.order, LAMBDA n: fb.decls[n].kind = "input")
        copied == FoldLeftDomain(LAMBDA en, i:
                    LET a == Value(en, s, call.ins[i].e)
                    IN IF a.st # "run" THEN a
                       ELSE [a EXCEPT !.vars = Bind(@, <<inst, ArgName(call, names, i)>>, a.v)],
                    env, call.ins)
        ran == Run(copied, [inst |-> inst, names |-> DOMAIN fb.decls, unit |-> fb.name], fb.body)
    IN CopyOuts(IF ran.st = "ret" THEN [ran EXCEPT !.st = "run"] ELSE ran, s, call, inst)

CallInst(env, s, call) ==
    LET n == call.callee[1][2]
        ty == env.units[IF n \in s.names THEN s.unit ELSE ""].decls[n].var.ty.n
    IN IF ty \in Ids THEN CallNative(env, s, call, n, ty)
       ELSE CallBlock(env, s, call, n, env.units[ty])

(***************************************************************************)
(* Statements.                                                             *)
(***************************************************************************)
Holds(env) == env.st = "run" /\ AsBool(env.v)

RECURSIVE RunIf(_, _, _, _)
RunIf(env, s, st, i) ==
    IF i > Len(st.branches) THEN IF st.els = <<>> THEN env ELSE Run(env, s, st.els[1])
    ELSE LET c == Value(env, s, st.branches[i].cond)
         IN IF c.st # "run" THEN c
            ELSE IF AsBool(c.v) THEN Run(c, s, st.branches[i].body) ELSE RunIf(c, s, st, i + 1)

RunCase(env, s, st) ==
    LET sel == Value(env, s, st.sel)
        hits == {i \in 1..Len(st.arms): \E l \in Range(st.arms[i].labels):
                                          ValuesEq(sel.v, Val("Dint", l))}
    IN IF sel.st # "run" THEN sel
       ELSE IF hits # {} THEN Run(sel, s, st.arms[CHOOSE i \in hits: \A j \in hits: i <= j].body)
       ELSE IF st.els = <<>> THEN sel ELSE Run(sel, s, st.els[1])

(* At most n iterations. *)
Loop(env, s, st, n) ==
    LET c == Value(env, s, st.cond)
    IN IF n = 0 THEN env ELSE IF ~Holds(c) THEN c ELSE Loop(Run(c, s, st.body), s, st, n - 1)

ForLoop(env, s, st, to, by, n) ==
    LET more == Value(env, s, [k |-> "bin", op |-> "Gt", l |-> [k |-> "name", path |-> <<<<"id", st.var>>>>],
                               r |-> to])
        body == Run(env, s, st.body)
        next == Value(body, s, [k |-> "bin", op |-> "Add", l |-> [k |-> "name", path |-> <<<<"id", st.var>>>>],
                                r |-> by])
    IN IF n = 0 \/ env.st # "run" THEN env
       ELSE IF more.st # "run" THEN more
       ELSE IF AsBool(more.v) THEN env
       ELSE IF next.st # "run" THEN next
       ELSE ForLoop(Write(next, s, <<<<"id", st.var>>>>), s, st, to, by, n - 1)

(* The limits are evaluated once, as literals of the loop that follows. *)
RunFor(env, s, st) ==
    LET from == Write(Value(env, s, st.from), s, <<<<"id", st.var>>>>)
        to == Value(from, s, st.to)
        by == IF st.by = <<>> THEN Yield(to, Val("Dint", 1)) ELSE Value(to, s, st.by[1])
        lit(a) == [k |-> "lit", ty |-> a.ty, v |-> a.v]
        n == IF st.max # <<>> THEN st.max[1] ELSE st.to.v - st.from.v + 1
    IN IF by.st # "run" THEN by ELSE ForLoop(by, s, st, lit(to.v), lit(by.v), n)

RunStmt(env, s, st) ==
    CASE st.k = "empty" -> env
      [] st.k = "return" -> Stop(env, "ret")
      [] st.k = "assign" -> Write(Value(env, s, st.rhs), s, st.lhs.path)
      [] st.k = "fbcall" -> CallInst(env, s, st)
      [] st.k = "if" -> RunIf(env, s, st, 1)
      [] st.k = "case" -> RunCase(env, s, st)
      [] st.k = "while" -> Loop(env, s, st, st.max[1])
      [] OTHER -> RunFor(env, s, st)

Run(env, s, body) ==
    FoldLeft(LAMBDA en, st: IF en.st # "run" THEN en ELSE RunStmt(en, s, st), env, body)

(***************************************************************************)
(* One scan of a program.                                                  *)
(***************************************************************************)
(* What lasts between scans. *)
Memory(slots) ==
    [vars |-> <<>>, prims |-> <<>>, outs |-> [n \in slots |-> Bool(FALSE)],
     written |-> {}, div0 |-> 0, st |-> "run"]

Lasting(env) ==
    [vars |-> env.vars, prims |-> env.prims, outs |-> env.outs, written |-> env.written,
     div0 |-> env.div0, st |-> env.st]

ScanOnce(mem, fbs, prog, ins, good, now) ==
    LET unit(u) == [name |-> u.name, decls |-> DeclsOf(u), body |-> u.body,
                    order |-> FlattenSeq([i \in 1..Len(u.vars) |->
                                [j \in 1..Len(u.vars[i].vars) |-> u.vars[i].vars[j].n]])]
        env == [vars |-> mem.vars, prims |-> mem.prims, ins |-> ins, good |-> good,
                outs |-> mem.outs, written |-> {}, div0 |-> mem.div0, now |-> now,
                args |-> <<>>, st |-> "run", v |-> Bool(FALSE), decls |-> DeclsOf(prog),
                units |-> [n \in {""} \cup {u.name: u \in fbs} |->
                             unit(IF n = "" THEN prog ELSE CHOOSE u \in fbs: u.name = n)]]
    IN Lasting(Run(env, [inst |-> "", names |-> {}, unit |-> ""], prog.body))

(***************************************************************************)
(* The text of a project: the tokens of a tree with the fewest brackets.   *)
(***************************************************************************)
RECURSIVE ExprText(_, _), StmtsText(_)

KwT(words) == [i \in 1..Len(words) |-> <<"kw", words[i]>>]
SymT(s) == <<<<"sym", s>>>>
IdT(n) == <<<<"id", n>>>>

OpText ==
    [Or |-> <<1, "kw", "OR">>, And |-> <<2, "kw", "AND">>, Xor |-> <<3, "kw", "XOR">>,
     Eq |-> <<4, "sym", "=">>, Ne |-> <<4, "sym", "<>">>, Lt |-> <<4, "sym", "<">>,
     Le |-> <<4, "sym", "<=">>, Gt |-> <<4, "sym", ">">>, Ge |-> <<4, "sym", ">=">>,
     Add |-> <<5, "sym", "+">>, Sub |-> <<5, "sym", "-">>, Mul |-> <<6, "sym", "*">>,
     Div |-> <<6, "sym", "/">>, Mod |-> <<6, "kw", "MOD">>]

LitText(e) ==
    CASE e.ty = "Bool" -> KwT(<<IF e.v = 1 THEN "TRUE" ELSE "FALSE">>)
      [] e.ty = "Dint" -> <<<<"int", e.v>>>>
      [] OTHER -> <<<<IF e.ty = "Real" THEN "real" ELSE "time", e.v>>>>

PathText(path) ==
    IdT(path[1][2]) \o
    FlattenSeq([i \in 1..(Len(path) - 1) |->
                  IF path[i + 1][1] = "id" THEN SymT(".") \o IdT(path[i + 1][2])
                  ELSE SymT("[") \o ExprText(path[i + 1][2], 1) \o SymT("]")])

ExprText(e, level) ==
    CASE e.k = "lit" -> LitText(e)
      [] e.k = "name" -> PathText(e.path)
      [] e.k = "qgood" -> IdT("Q_GOOD") \o SymT("(") \o ExprText(e.e, 1) \o SymT(")")
      [] e.k = "un" -> (IF e.op = "Not" THEN KwT(<<"NOT">>) ELSE SymT("-")) \o ExprText(e.e, 7)
      [] OTHER ->
           LET o == OpText[e.op]
               text == ExprText(e.l, o[1]) \o <<<<o[2], o[3]>>>> \o ExprText(e.r, o[1] + 1)
           IN IF o[1] < level THEN SymT("(") \o text \o SymT(")") ELSE text

Joined(parts, sep) ==
    FlattenSeq([i \in 1..Len(parts) |-> IF i = 1 THEN parts[i] ELSE SymT(sep) \o parts[i]])

CallText(c) ==
    PathText(c.callee) \o SymT("(") \o
    Joined([i \in 1..Len(c.ins) |-> (IF c.ins[i].name = "" THEN <<>> ELSE IdT(c.ins[i].name) \o SymT(":="))
                                    \o ExprText(c.ins[i].e, 1)]
           \o [i \in 1..Len(c.outs) |-> IdT(c.outs[i].name) \o SymT("=>") \o ExprText(c.outs[i].dest, 1)],
           ",") \o SymT(")")

(* Consecutive labels are written as a range. *)
LabelText(ls) ==
    IF Len(ls) > 1 /\ \A i \in 1..Len(ls): ls[i] = ls[1] + i - 1
    THEN <<<<"int", ls[1]>>, <<"sym", "..">>, <<"int", ls[Len(ls)]>>>>
    ELSE Joined([i \in 1..Len(ls) |-> <<<<"int", ls[i]>>>>], ",")

MaxText(max) ==
    IF max = <<>> THEN <<>>
    ELSE SymT("{") \o IdT("max_iter") \o SymT(":=") \o <<<<"int", max[1]>>>> \o SymT("}")

ElseText(els) == IF els = <<>> THEN <<>> ELSE KwT(<<"ELSE">>) \o StmtsText(els[1])

StmtText(st) ==
    CASE st.k = "empty" -> SymT(";")
      [] st.k = "return" -> KwT(<<"RETURN">>) \o SymT(";")
      [] st.k = "assign" -> ExprText(st.lhs, 1) \o SymT(":=") \o ExprText(st.rhs, 1) \o SymT(";")
      [] st.k = "fbcall" -> CallText(st) \o SymT(";")
      [] st.k = "if" ->
           FlattenSeq([i \in 1..Len(st.branches) |->
              KwT(<<IF i = 1 THEN "IF" ELSE "ELSIF">>) \o ExprText(st.branches[i].cond, 1)
              \o KwT(<<"THEN">>) \o StmtsText(st.branches[i].body)])
           \o ElseText(st.els) \o KwT(<<"END_IF">>) \o SymT(";")
      [] st.k = "case" ->
           KwT(<<"CASE">>) \o ExprText(st.sel, 1) \o KwT(<<"OF">>)
           \o FlattenSeq([i \in 1..Len(st.arms) |->
                LabelText(st.arms[i].labels) \o SymT(":") \o StmtsText(st.arms[i].body)])
           \o ElseText(st.els) \o KwT(<<"END_CASE">>)
      [] st.k = "while" ->
           MaxText(st.max) \o KwT(<<"WHILE">>) \o ExprText(st.cond, 1) \o KwT(<<"DO">>)
           \o StmtsText(st.body) \o KwT(<<"END_WHILE">>) \o SymT(";")
      [] OTHER ->
           MaxText(st.max) \o KwT(<<"FOR">>) \o IdT(st.var) \o SymT(":=") \o ExprText(st.from, 1)
           \o KwT(<<"TO">>) \o ExprText(st.to, 1)
           \o (IF st.by = <<>> THEN <<>> ELSE KwT(<<"BY">>) \o ExprText(st.by[1], 1))
           \o KwT(<<"DO">>) \o StmtsText(st.body) \o KwT(<<"END_FOR">>)

StmtsText(body) == FlattenSeq([i \in 1..Len(body) |-> StmtText(body[i])])

TypeText(n) == IF n \in {"BOOL", "INT", "DINT", "REAL", "TIME"} THEN KwT(<<n>>) ELSE IdT(n)

VarText(v) ==
    IdT(v.n) \o (IF v.at = <<>> THEN <<>> ELSE KwT(<<"AT">>) \o <<<<"addr", v.at[1]>>>>) \o SymT(":")
    \o (IF v.ty.k = "named" THEN TypeText(v.ty.n)
        ELSE KwT(<<"ARRAY">>) \o SymT("[") \o <<<<"int", 0>>>> \o SymT("..") \o <<<<"int", v.ty.upper>>>>
             \o SymT("]") \o KwT(<<"OF">>) \o TypeText(v.ty.elem))
    \o (IF v.init = <<>> THEN <<>> ELSE SymT(":=") \o ExprText(v.init[1], 1)) \o SymT(";")

SectionText(s) ==
    KwT(CASE s.kind = "var" -> <<"VAR">> [] s.kind = "input" -> <<"VAR_INPUT">>
          [] s.kind = "output" -> <<"VAR_OUTPUT">> [] s.kind = "retain" -> <<"VAR_RETAIN">>
          [] s.kind = "global" -> <<"VAR_GLOBAL">> [] OTHER -> <<"VAR_GLOBAL", "CONSTANT">>)
    \o FlattenSeq([i \in 1..Len(s.vars) |-> VarText(s.vars[i])]) \o KwT(<<"END_VAR">>)

UnitText(u) ==
    KwT(<<IF u.fb THEN "FUNCTION_BLOCK" ELSE "PROGRAM">>) \o IdT(u.name)
    \o FlattenSeq([i \in 1..Len(u.vars) |-> SectionText(u.vars[i])]) \o StmtsText(u.body)
    \o KwT(<<IF u.fb THEN "END_FUNCTION_BLOCK" ELSE "END_PROGRAM">>)

Text(units) == FlattenSeq([i \in 1..Len(units) |-> UnitText(units[i])])

=============================================================================

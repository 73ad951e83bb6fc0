------------------------------ MODULE Compiler ------------------------------
(***************************************************************************)
(* Symbol binding, storage layout and lowering of the ST subset to IR      *)
(* (plc-compiler bind.rs).  An optional part of the syntax tree is a       *)
(* sequence of at most one element.  Errors are sticky: the first one is   *)
(* kept in `err` and decides the outcome, as `?` does in the code.         *)
(*                                                                         *)
(* Definitions named Mutant... are defective variants of the definition    *)
(* that follows them; no specification uses them.                          *)
(***************************************************************************)
EXTENDS Bytecode

CONSTANTS MaxArrayElems, MaxLoopDefault

ElemNames == [BOOL |-> "Bool", INT |-> "Int", DINT |-> "Dint", REAL |-> "Real", TIME |-> "Time"]
AlignOf == [Bool |-> 1, Int |-> 2, Dint |-> 4, Real |-> 4, Time |-> 4]

WithErr(r, e) == IF r.err = "" THEN [r EXCEPT !.err = e] ELSE r
Check(r, cond, e) == IF cond THEN r ELSE WithErr(r, e)

(***************************************************************************)
(* Types and their storage.                                                *)
(***************************************************************************)
ResolveType(ty) ==
    IF ty.k = "array" THEN [k |-> "array", t |-> ElemNames[ty.elem], len |-> ty.upper + 1]
    ELSE IF ty.n \in DOMAIN ElemNames THEN [k |-> "elem", t |-> ElemNames[ty.n]]
    ELSE IF ty.n \in Ids THEN [k |-> "prim", id |-> ty.n]
    ELSE [k |-> "fb", fb |-> ty.n]

TypeError(ty) ==
    IF ty.k # "array" THEN ""
    ELSE IF ty.upper + 1 > MaxArrayElems THEN "ELayout"
    ELSE IF ty.elem \notin DOMAIN ElemNames THEN "EType" ELSE ""

ByteSize(td, layouts) ==
    CASE td.k = "elem" -> Width[td.t]
      [] td.k = "array" -> Width[td.t] * td.len
      [] td.k = "prim" -> 4 * OutputCount(td.id)
      [] OTHER -> layouts[td.fb].size

Align(td) == IF td.k \in {"elem", "array"} THEN AlignOf[td.t] ELSE 4

IrElem(td) == IF td.k = "elem" THEN td.t ELSE "Bool"    \* unwrap_or(Bool)

Aligned(cursor, a) == IF cursor % a = 0 THEN cursor ELSE cursor + a - (cursor % a)

(* Allocator::alloc on the cursor of one segment ("data" or "retain"). *)
Alloc(r, seg, size, align) ==
    LET off == Aligned(r[seg], align) IN [r EXCEPT ![seg] = off + size, !.off = off]

PrimOutTypes(id) ==
    CASE id \in {"TON", "TOF", "TP"} -> <<<<"Q", "Bool">>, <<"ET", "Time">>>>
      [] id \in {"CTU", "CTD"} -> <<<<"Q", "Bool">>, <<"CV", "Dint">>>>
      [] id = "PID" -> <<<<"OUT", "Real">>>>
      [] OTHER -> <<<<"Q", "Bool">>>>

(* alloc_prim_outputs: the storage symbol of a new primitive instance. *)
RECURSIVE AllocOutputs(_, _, _)
AllocOutputs(r, types, outs) ==
    IF types = <<>> THEN [r EXCEPT !.sym = [@ EXCEPT !.outs = outs]]
    ELSE LET t == types[1][2]
             a == Alloc(r, "data", Width[t], AlignOf[t])
         IN AllocOutputs(a, Tail(types), Append(outs, [name |-> types[1][1], off |-> a.off, t |-> t]))

BindPrim(r, id, max) ==
    LET n == r.prims[id]
        sym == [k |-> "prim", id |-> id, inst |-> n, outs |-> <<>>]
    IN AllocOutputs([Check(r, n < max, "ELayout") EXCEPT !.prims[id] = n + 1, !.sym = sym],
                    PrimOutTypes(id), <<>>)

(***************************************************************************)
(* Layout of the user function blocks: fields relative to the instance     *)
(* base, nested instances listed for the body.                             *)
(***************************************************************************)
LayoutStart == [data |-> 0, retain |-> 0, off |-> 0, fields |-> <<>>, inputs |-> <<>>,
                instances |-> <<>>, err |-> ""]

LayoutVar(r, kind, v, known) ==
    LET td == ResolveType(v.ty)
        late == td.k = "fb" /\ td.fb \notin DOMAIN known
        field(a, retain) == Append(a.fields, [name |-> v.n, td |-> td, off |-> a.off,
                                              retain |-> retain])
        data == Alloc(r, "data", ByteSize(td, known), Align(td))
        nv == Alloc(r, "retain", Width[IrElem(td)], AlignOf[IrElem(td)])
    IN CASE TypeError(v.ty) # "" -> WithErr(r, TypeError(v.ty))
         [] late -> WithErr(r, "EUndefined")
         [] kind = "global" -> WithErr(r, "EExcluded")
         [] kind = "retain" -> IF td.k # "elem" THEN WithErr(r, "EType")
                               ELSE [nv EXCEPT !.fields = field(nv, TRUE)]
         [] kind \in {"var", "constant"} /\ td.k \in {"prim", "fb"} ->
              [r EXCEPT !.instances = Append(@, [name |-> v.n, td |-> td])]
         [] OTHER -> [data EXCEPT !.fields = field(data, FALSE),
                                  !.inputs = IF kind = "input" THEN Append(@, v.n) ELSE @]

(* All variables of a unit with the kind of their section, in order. *)
VarsOf(unit) ==
    FlattenSeq([s \in 1..Len(unit.vars) |->
                  [i \in 1..Len(unit.vars[s].vars) |->
                     [kind |-> unit.vars[s].kind, v |-> unit.vars[s].vars[i]]]])

LayoutOf(r, fb) ==
    [err |-> r.err, fields |-> r.fields, inputs |-> r.inputs, instances |-> r.instances,
     size |-> Larger(r.data, 4), body |-> fb.body, id |-> -1]

LayoutUserFb(fb, known) ==
    LayoutOf(FoldLeft(LAMBDA a, x: IF a.err # "" THEN a ELSE LayoutVar(a, x.kind, x.v, known),
                      LayoutStart, VarsOf(fb)), fb)

(* Lay out what is ready until nothing is pending or no round makes progress. *)
RECURSIVE LayoutAll(_, _)

(* One round: tried holds the layout of every pending block, or its error. *)
LayoutRound(pending, known, tried) ==
    LET ready == {fb \in pending: tried[fb].err = ""}
    IN IF pending = {} THEN [err |-> "", layouts |-> known]
       ELSE IF ready = {} THEN [err |-> tried[CHOOSE fb \in pending: TRUE].err, layouts |-> known]
       ELSE LayoutAll(pending \ ready,
              [n \in DOMAIN known \cup {fb.name: fb \in ready} |->
                 IF n \in DOMAIN known THEN known[n]
                 ELSE tried[CHOOSE fb \in ready: fb.name = n]])

LayoutAll(pending, known) ==
    LayoutRound(pending, known, [fb \in pending |-> LayoutUserFb(fb, known)])

(* check_fb_recursion: a block that holds itself through its variables. *)
FbRecursion(fbs) ==
    LET names == {fb.name: fb \in fbs}
        uses(n) == {x.v.ty.n: x \in {y \in Range(VarsOf(CHOOSE fb \in fbs: fb.name = n)):
                                       y.v.ty.k = "named" /\ y.v.ty.n \in names}}
        reach[k \in 0..Cardinality(names), n \in names] ==
            IF k = 0 THEN uses(n) ELSE reach[k - 1, n] \cup UNION {uses(t): t \in reach[k - 1, n]}
    IN \E n \in names: n \in reach[Cardinality(names), n]

(***************************************************************************)
(* Binding of the program variables.                                       *)
(***************************************************************************)
BindStart == [data |-> 0, retain |-> 0, off |-> 0, sym |-> <<>>, globals |-> <<>>,
              prims |-> [id \in Ids |-> 0], inputs |-> 0, outputs |-> 0,
              retainSyms |-> <<>>, err |-> ""]

Put(f, n, s) == [x \in DOMAIN f \cup {n} |-> IF x = n THEN s ELSE f[x]]

BindTag(r, tag) ==
    IF tag.kind = "I" THEN [r EXCEPT !.inputs = Larger(@, tag.slot + 1)]
    ELSE [r EXCEPT !.outputs = Larger(@, tag.slot + 1)]

MutantBindRetain(r, v, t) ==
    [r EXCEPT !.sym = [k |-> "retain", off |-> r.retain, t |-> t],
              !.retainSyms = Append(@, [name |-> v.n, t |-> t, off |-> r.retain])]

BindRetain(r, v, t) ==
    LET a == Alloc(r, "retain", Width[t], AlignOf[t])
    IN [a EXCEPT !.sym = [k |-> "retain", off |-> a.off, t |-> t],
                 !.retainSyms = Append(@, [name |-> v.n, t |-> t, off |-> a.off])]

BindData(r, td, layouts) ==
    LET a == Alloc(r, "data", ByteSize(td, layouts), Align(td))
    IN [a EXCEPT !.sym = [k |-> "data", off |-> a.off, td |-> td]]

(* A variable AT a direct address: %R ignores its index and is allocated. *)
BindAt(r, v, td, layouts) ==
    LET slot == v.at[1][2] IN
    CASE v.at[1][1] = "I" ->
           [r EXCEPT !.inputs = Larger(@, slot + 1),
                     !.sym = [k |-> "input", slot |-> slot, t |-> td.t]]
      [] v.at[1][1] = "Q" ->
           [r EXCEPT !.outputs = Larger(@, slot + 1),
                     !.sym = [k |-> "output", slot |-> slot, t |-> td.t]]
      [] v.at[1][1] = "R" -> BindRetain(r, v, td.t)
      [] OTHER -> BindData(r, td, layouts)

BindInst(r, fb, layouts) ==
    LET a == Alloc(r, "data", layouts[fb].size, 4)
    IN [a EXCEPT !.sym = [k |-> "inst", fb |-> fb, base |-> a.off]]

(* The symbol of a variable, by its address, its section and its type. *)
BindSymbol(r, kind, v, td, layouts, max) ==
    LET elem == td.k = "elem" IN
    CASE v.at # <<>> -> IF elem \/ v.at[1][1] = "M" THEN BindAt(r, v, td, layouts)
                        ELSE WithErr(r, "EType")
      [] v.at = <<>> /\ kind = "constant" ->
           IF elem /\ v.init # <<>> /\ v.init[1].k = "lit"
           THEN [r EXCEPT !.sym = [k |-> "const", lit |-> v.init[1]]]
           ELSE WithErr(r, "EType")
      [] v.at = <<>> /\ kind = "retain" ->
           IF elem THEN BindRetain(r, v, td.t) ELSE WithErr(r, "EType")
      [] td.k = "prim" -> BindPrim(r, td.id, max)
      [] td.k = "fb" -> IF td.fb \notin DOMAIN layouts THEN WithErr(r, "EUndefined")
                        ELSE BindInst(r, td.fb, layouts)
      [] OTHER -> BindData(r, td, layouts)

AddGlobal(r, n) == IF r.err # "" THEN r ELSE [r EXCEPT !.globals = Put(@, n, r.sym)]

BindVar(r, kind, v, layouts, max) ==
    IF r.err # "" THEN r
    ELSE IF v.n \in DOMAIN r.globals
    THEN Check(r, kind \in {"global", "retain", "constant"} /\ v.at # <<>>, "EDuplicate")
    ELSE IF TypeError(v.ty) # "" THEN WithErr(r, TypeError(v.ty))
    ELSE AddGlobal(BindSymbol(r, kind, v, ResolveType(v.ty), layouts, max), v.n)

BindProgram(r, p, layouts, max) ==
    FoldLeft(LAMBDA a, x: BindVar(a, x.kind, x.v, layouts, max), r, VarsOf(p))

(***************************************************************************)
(* Code generation.  `cg` threads the emitted code, the labels, the temp   *)
(* cursor and the type of the expression emitted last.                     *)
(***************************************************************************)
Codegen(layouts, globals, reversed) ==
    [reversed |-> reversed, code |-> <<>>, entries |-> <<>>, labels |-> <<>>, extra |-> 0, cursor |-> 0, off |-> 0,
     locals |-> <<>>, globals |-> globals, layouts |-> layouts, ty |-> "Bool", err |-> ""]

(* An instruction and its operand words, to which no label ever leads. *)
EmitInstr(cg, i) ==
    [cg EXCEPT !.code = Append(@, i) \o [n \in 1..(Words(i) - 1) |-> [op |-> "operand", p |-> 0]]]
Emit(cg, op, p) == EmitInstr(cg, [op |-> op, p |-> p])
EmitCall(cg, kind, id, base) ==
    EmitInstr(cg, [op |-> "CallFb", kind |-> kind, id |-> id, base |-> base])
Typed(cg, t) == [cg EXCEPT !.ty = t]

(* Labels are numbered; a jump holds the number until Finish patches it. *)
FreshLabel(cg) == [cg EXCEPT !.labels = Append(@, 0)]
PlaceLabel(cg, l) == [cg EXCEPT !.labels[l] = Len(cg.code) + 1]

BeginEntry(cg, name, fb, id) ==
    [cg EXCEPT !.entries = Append(@, [name |-> name, pc |-> Len(cg.code) + 1, fb |-> fb, id |-> id])]

Known(cg, n) == n \in DOMAIN cg.locals \cup DOMAIN cg.globals
Lookup(cg, n) == IF n \in DOMAIN cg.locals THEN cg.locals[n] ELSE cg.globals[n]

(* Bytes of the data segment a symbol ends at, for the placement of temps. *)
DataEnd(sym, layouts) ==
    CASE sym.k = "data" -> sym.off + ByteSize(sym.td, layouts)
      [] sym.k = "prim" -> Last(sym.outs).off + Width[Last(sym.outs).t]
      [] sym.k = "inst" -> sym.base + layouts[sym.fb].size
      [] OTHER -> 0

MutantAllocTemp(cg, t) ==
    LET base == FoldSet(Larger, cg.cursor, {DataEnd(cg.globals[n], cg.layouts): n \in DOMAIN cg.globals})
        off == Aligned(base, AlignOf[t])
    IN [cg EXCEPT !.off = off, !.extra = off + Width[t]]

(* A temp after every global's data and every earlier temp. *)
AllocTemp(cg, t) ==
    LET base == FoldSet(Larger, Larger(cg.extra, cg.cursor),
                        {DataEnd(cg.globals[n], cg.layouts): n \in DOMAIN cg.globals})
        off == Aligned(base, AlignOf[t])
    IN [cg EXCEPT !.off = off, !.cursor = off + Width[t], !.extra = off + Width[t]]

Field(layout, f) ==
    LET hits == {n \in 1..Len(layout.fields): layout.fields[n].name = f}
    IN IF hits = {} THEN <<>> ELSE <<layout.fields[CHOOSE n \in hits: TRUE]>>

PrimOut(sym, f) == SelectSeq(sym.outs, LAMBDA o: o.name = f)

(* LD/ST of a field of a user block instance. *)
LdField(cg, base, f) ==
    IF f.retain THEN Emit(cg, "LdRetain", f.off) ELSE Emit(cg, "LdData", base + f.off)
StField(cg, base, f) ==
    IF f.retain THEN Emit(cg, "StRetain", f.off) ELSE Emit(cg, "StData", base + f.off)

(***************************************************************************)
(* Loads and stores of names.                                              *)
(***************************************************************************)
LoadField(cg, sym, f) ==
    CASE sym.k = "prim" ->
           IF PrimOut(sym, f) = <<>> THEN WithErr(cg, "EUndefined")
           ELSE Typed(Emit(cg, "LdData", PrimOut(sym, f)[1].off), PrimOut(sym, f)[1].t)
      [] sym.k = "inst" ->
           LET hit == Field(cg.layouts[sym.fb], f) IN
           IF hit = <<>> THEN WithErr(cg, "EUndefined")
           ELSE Typed(LdField(cg, sym.base, hit[1]), IrElem(hit[1].td))
      [] OTHER -> WithErr(cg, "EType")

EmitLiteral(cg, lit) ==
    Typed(CASE lit.ty = "Bool" -> Emit(cg, "PushIBool", lit.v)
            [] lit.ty = "Dint" -> Emit(cg, "PushIDint", Wrap(lit.v, 4))
            [] lit.ty = "Real" -> Emit(cg, "PushIReal", lit.v)
            [] OTHER -> Emit(cg, "PushTime", lit.v), lit.ty)

IsIntLiteral(e) == e.k = "lit" /\ e.ty = "Dint"

(* Segments of a path after the first selector are not looked at. *)
EmitLoadPath(cg, path) ==
    LET root == path[1][2]
        sym == Lookup(cg, root)
        data(off, t) == Typed(Emit(cg, "LdData", off), t)
    IN CASE ~Known(cg, root) -> WithErr(cg, "EUndefined")
         [] Len(path) = 1 /\ Known(cg, root) ->
              CASE sym.k = "input" -> Typed(Emit(cg, "LdI", sym.slot), sym.t)
                [] sym.k = "output" -> Typed(Emit(cg, "LdQ", sym.slot), sym.t)
                [] sym.k = "data" /\ sym.td.k = "elem" -> data(sym.off, sym.td.t)
                [] sym.k = "retain" -> Typed(Emit(cg, "LdRetain", sym.off), sym.t)
                [] sym.k = "const" -> EmitLiteral(cg, sym.lit)
                [] OTHER -> WithErr(cg, "EType")
         [] path[2][1] = "id" -> LoadField(cg, sym, path[2][2])
         [] OTHER ->
              IF sym.k = "data" /\ sym.td.k = "array" /\ IsIntLiteral(path[2][2])
              THEN data(sym.off + path[2][2].v * Width[sym.td.t], sym.td.t)
              ELSE WithErr(cg, "EType")

(* An element of an array is never a store target: the selector must be a name. *)
EmitStore(cg, lhs) ==
    LET root == lhs.path[1][2]
        sym == Lookup(cg, root)
        f == lhs.path[2][2]
    IN CASE lhs.k # "name" -> WithErr(cg, "EType")
         [] lhs.k = "name" /\ ~Known(cg, root) -> WithErr(cg, "EUndefined")
         [] lhs.k = "name" /\ Known(cg, root) /\ Len(lhs.path) = 1 ->
              CASE sym.k = "output" -> Emit(cg, "StQ", sym.slot)
                [] sym.k = "data" -> Emit(cg, "StData", sym.off)
                [] sym.k = "retain" -> Emit(cg, "StRetain", sym.off)
                [] OTHER -> WithErr(cg, "EType")
         [] lhs.path[2][1] = "ix" -> WithErr(cg, "EType")
         [] sym.k = "prim" -> IF PrimOut(sym, f) = <<>> THEN WithErr(cg, "EUndefined")
                              ELSE Emit(cg, "StData", PrimOut(sym, f)[1].off)
         [] sym.k = "inst" ->
              IF Field(cg.layouts[sym.fb], f) = <<>> THEN WithErr(cg, "EUndefined")
              ELSE StField(cg, sym.base, Field(cg.layouts[sym.fb], f)[1])
         [] OTHER -> WithErr(cg, "EType")

(***************************************************************************)
(* Expressions.                                                            *)
(***************************************************************************)
Comparisons == {"Eq", "Ne", "Lt", "Le", "Gt", "Ge"}

RECURSIVE EmitExpr(_, _)

(* AND and OR jump over their right side; the left value goes through a    *)
(* temp because the machine has no duplicate instruction.                  *)
ShortTest(t, op) ==
    Emit(Emit(Emit(t, "StData", t.off), "LdData", t.off),
         IF op = "And" THEN "JmpIfNot" ELSE "JmpIf", Len(t.labels))

ShortEnd(cg, op, skip) ==
    LET r == PlaceLabel(Emit(cg, "Jmp", skip - 1), skip)
    IN Typed(PlaceLabel(Emit(r, "PushIBool", IF op = "And" THEN 0 ELSE 1), skip - 1), "Bool")

EmitShortCircuit(l, e) ==
    LET t == AllocTemp(Check(l, l.ty = "Bool", "EType"), "Bool")
    IN ShortEnd(EmitExpr(ShortTest(t, e.op), e.r), e.op, Len(l.labels))

EmitOperator(r, e, ty) ==
    LET c == Check(Check(r, e.op # "Mod", "EExcluded"), e.op = "Xor" \/ ty = r.ty, "EType")
    IN Typed(Emit(c, e.op, 0), IF e.op \in Comparisons THEN "Bool" ELSE ty)

(* l is the code with the left operand emitted. *)
EmitBinary(l, e) ==
    IF e.op \in {"And", "Or"} THEN EmitShortCircuit(FreshLabel(FreshLabel(l)), e)
    ELSE EmitOperator(EmitExpr(l, e.r), e, l.ty)

EmitUnary(r, op) == Typed(Emit(r, op, 0), IF op = "Not" THEN "Bool" ELSE r.ty)

EmitExpr(cg, e) ==
    CASE e.k = "lit" -> EmitLiteral(cg, e)
      [] e.k = "name" -> EmitLoadPath(cg, e.path)
      [] e.k = "qgood" ->
           IF e.e.k # "name" THEN WithErr(cg, "EType")
           ELSE IF ~Known(cg, e.e.path[1][2]) THEN WithErr(cg, "EUndefined")
           ELSE LET sym == Lookup(cg, e.e.path[1][2])
                IN IF sym.k = "input" THEN Typed(Emit(cg, "LdIq", sym.slot), "Bool")
                   ELSE WithErr(cg, "EType")
      [] e.k = "un" -> EmitUnary(EmitExpr(cg, e.e), e.op)
      [] e.k = "bin" -> EmitBinary(EmitExpr(cg, e.l), e)
      [] OTHER -> WithErr(cg, "EType")     \* a call has no value

(***************************************************************************)
(* Calls.  An argument is [name, e] with name "" when it is positional; EN *)
(* and ENO cannot be written (the parser takes them for expressions).      *)
(***************************************************************************)
EmitAll(cg, es) == FoldLeft(EmitExpr, cg, es)

(* The expression bound to input n: the last argument that names it, or    *)
(* the one at its position.                                                *)
ArgFor(call, names, n) ==
    LET positional == {i \in 1..Len(call.ins): call.ins[i].name = ""}
        rank(i) == Cardinality({j \in positional: j <= i})
        hits == {i \in 1..Len(call.ins): IF i \in positional THEN rank(i) = n
                                         ELSE call.ins[i].name = names[n]}
    IN IF hits = {} THEN <<>> ELSE <<call.ins[CHOOSE i \in hits: \A j \in hits: j <= i].e>>

ArgError(call, names) ==
    IF Cardinality({i \in 1..Len(call.ins): call.ins[i].name = ""}) > Len(names) THEN "EType"
    ELSE IF \E i \in 1..Len(call.ins): call.ins[i].name \notin {""} \cup Range(names)
    THEN "EUndefined" ELSE ""

EmitOuts(cg, sym, outs) ==
    FoldLeft(LAMBDA g, o: EmitStore(LoadField(g, sym, o.name), o.dest), cg, outs)

CallPrimitiveFb(cg, sym, call) ==
    LET names == InputNames(sym.id)
        args == [n \in 1..Len(names) |-> ArgFor(call, names, n)]
        pushed == EmitAll(cg, FlattenSeq(args))
        called == EmitCall(pushed, 0, sym.id, sym.inst)
        stored == FoldLeft(LAMBDA g, o: Emit(g, "StData", o.off), called, sym.outs)
    IN IF ArgError(call, names) # "" THEN WithErr(cg, ArgError(call, names))
       ELSE IF \E n \in 1..Len(names): args[n] = <<>> THEN WithErr(cg, "EType")
       ELSE EmitOuts(stored, sym, call.outs)

(* Copy-in through the fields of the instance, call, copy-out.  The named  *)
(* arguments come from a hash map: the last of a name, in the order of the *)
(* source or the reverse (all orders of two).  The number of a block whose *)
(* body is not emitted yet is not known: 0 is used.                        *)
CallUserFb(cg, sym, call) ==
    LET layout == cg.layouts[sym.fb]
        positional == SelectSeq(call.ins, LAMBDA a: a.name = "")
        kept == FoldLeft(LAMBDA all, a: Append(SelectSeq(all, LAMBDA x: x.name # a.name), a),
                         <<>>, SelectSeq(call.ins, LAMBDA a: a.name # ""))
        named == IF cg.reversed THEN Reverse(kept) ELSE kept
        in(g, name, e) == StField(EmitExpr(g, e), sym.base, Field(layout, name)[1])
        copied == FoldLeftDomain(LAMBDA g, n: in(g, layout.inputs[n], positional[n].e),
                                 cg, positional)
        filled == FoldLeft(LAMBDA g, a: in(g, a.name, a.e), copied, named)
    IN IF Len(positional) > Len(layout.inputs) THEN WithErr(cg, "EType")
       ELSE IF \E n \in 1..Len(named): Field(layout, named[n].name) = <<>>
       THEN WithErr(cg, "EUndefined")
       ELSE EmitOuts(EmitCall(filled, 1, Larger(layout.id, 0), sym.base), sym, call.outs)

EmitFbCall(cg, call) ==
    IF Len(call.callee) # 1 THEN WithErr(cg, "EParse")
    ELSE IF ~Known(cg, call.callee[1][2]) THEN WithErr(cg, "EUndefined")
    ELSE LET sym == Lookup(cg, call.callee[1][2])
         IN CASE sym.k = "prim" -> CallPrimitiveFb(cg, sym, call)
              [] sym.k = "inst" -> CallUserFb(cg, sym, call)
              [] OTHER -> WithErr(cg, "EType")

(***************************************************************************)
(* Statements.                                                             *)
(***************************************************************************)
RECURSIVE EmitBody(_, _)

(* Leave for label l unless the condition just emitted holds. *)
Unless(c, l) == Emit(Check(c, c.ty = "Bool", "EType"), "JmpIfNot", l)

EmitElse(cg, els, end) == PlaceLabel(IF els # <<>> THEN EmitBody(cg, els[1]) ELSE cg, end)

EmitBranch(g, st, i, end) ==
    LET next == Len(g.labels)
        b == EmitBody(Unless(EmitExpr(g, st.branches[i].cond), next), st.branches[i].body)
        last == i = Len(st.branches) /\ st.els = <<>>
    IN PlaceLabel(IF last THEN b ELSE Emit(b, "Jmp", end), next)

EmitBranches(cg, st) ==
    EmitElse(FoldLeftDomain(LAMBDA g, i: EmitBranch(FreshLabel(g), st, i, Len(cg.labels)),
                            cg, st.branches), st.els, Len(cg.labels))

EmitIf(cg, st) == EmitBranches(FreshLabel(cg), st)

EmitLabel(g, tmp, label, op, target) ==
    Emit(Emit(Emit(Emit(g, "LdData", tmp), "PushIDint", label), "Eq", 0), op, target)

EmitArm(g, a, tmp, end) ==
    LET next == Len(g.labels)
        body == next - 1
        tested == FoldLeftDomain(
                    LAMBDA h, i: IF i = Len(a.labels)
                                 THEN EmitLabel(h, tmp, a.labels[i], "JmpIfNot", next)
                                 ELSE EmitLabel(h, tmp, a.labels[i], "JmpIf", body), g, a.labels)
    IN PlaceLabel(Emit(EmitBody(PlaceLabel(tested, body), a.body), "Jmp", end), next)

EmitArms(cg, st, tmp) ==
    EmitElse(FoldLeft(LAMBDA g, a: EmitArm(FreshLabel(FreshLabel(g)), a, tmp, Len(cg.labels)),
                      cg, st.arms), st.els, Len(cg.labels))

(* t has the temp of the selector, whose value is on the stack. *)
EmitSelected(t, st) == EmitArms(FreshLabel(Emit(t, "StData", t.off)), st, t.off)
EmitSelector(s, st) ==
    EmitSelected(AllocTemp(Check(s, s.ty \in {"Int", "Dint"}, "EType"), s.ty), st)
EmitCase(cg, st) == EmitSelector(EmitExpr(cg, st.sel), st)

(* The head of a loop: leave when the iteration counter is used up. *)
LoopHead(cg, counter, head, end) ==
    Emit(Emit(Emit(Emit(PlaceLabel(cg, head), "LdData", counter), "PushIDint", 0), "Eq", 0),
         "JmpIf", end)

LoopTail(cg, counter, head, end) ==
    PlaceLabel(
      Emit(Emit(Emit(Emit(Emit(cg, "LdData", counter), "PushIDint", 1), "Sub", 0),
                "StData", counter), "Jmp", head), end)

(* t has the iteration counter and the labels head and end of a loop. *)
EmitCounter(t, max) ==
    LoopHead(Emit(Emit(t, "PushIDint", Wrap(max, 4)), "StData", t.off),
             t.off, Len(t.labels) - 1, Len(t.labels))
LoopStart(cg) == FreshLabel(FreshLabel(AllocTemp(cg, "Dint")))

WhileLoop(t, st) ==
    LET end == Len(t.labels)
        c == Unless(EmitExpr(EmitCounter(t, st.max[1]), st.cond), end)
    IN LoopTail(EmitBody(c, st.body), t.off, end - 1, end)

EmitWhile(cg, st) ==
    IF st.max = <<>> THEN WithErr(cg, "EUnboundedLoop") ELSE WhileLoop(LoopStart(cg), st)

(* Iteration bound of a FOR: the attribute, or the distance of its literal *)
(* limits when it steps by one.                                            *)
ForBound(st) ==
    IF st.max # <<>> THEN st.max[1]
    ELSE IF /\ IsIntLiteral(st.from) /\ IsIntLiteral(st.to)
            /\ st.by = <<>> \/ st.by = <<[k |-> "lit", ty |-> "Dint", v |-> 1]>>
    THEN IF st.to.v >= st.from.v /\ st.to.v - st.from.v + 1 <= MaxLoopDefault
         THEN st.to.v - st.from.v + 1 ELSE -1
    ELSE -1

(* An undeclared FOR variable becomes a DINT temp of the unit. *)
ForVar(cg, var) ==
    LET t == AllocTemp(cg, "Dint") IN
    IF Known(cg, var)
    THEN IF Lookup(cg, var).k = "data" THEN [cg EXCEPT !.off = Lookup(cg, var).off]
         ELSE WithErr(cg, "EType")
    ELSE [t EXCEPT !.locals = Put(@, var, [k |-> "data", off |-> t.off,
                                          td |-> [k |-> "elem", t |-> "Dint"]])]

(* var, to and by are the offsets of the variable, the limit and the step. *)
ForLeave(cg, var, to, end) ==
    Emit(Emit(Emit(Emit(cg, "LdData", var), "LdData", to), "Gt", 0), "JmpIf", end)
ForStep(cg, var, by) ==
    Emit(Emit(Emit(Emit(cg, "LdData", var), "LdData", by), "Add", 0), "StData", var)

ForCode(t, st, var, to, by) ==
    LET end == Len(t.labels)
        test == ForLeave(EmitCounter(t, ForBound(st)), var, to, end)
    IN LoopTail(ForStep(EmitBody(test, st.body), var, by), t.off, end - 1, end)

ForBy(t, st, var, to) ==
    ForCode(LoopStart(Emit(IF st.by = <<>> THEN Emit(t, "PushIDint", 1) ELSE EmitExpr(t, st.by[1]),
                           "StData", t.off)), st, var, to, t.off)
ForTo(t, st, var) ==
    ForBy(AllocTemp(Emit(EmitExpr(t, st.to), "StData", t.off), "Dint"), st, var, t.off)
ForFrom(v, st) ==
    ForTo(AllocTemp(Emit(EmitExpr(v, st.from), "StData", v.off), "Dint"), st, v.off)

EmitFor(cg, st) ==
    IF ForBound(st) = -1 THEN WithErr(cg, "EUnboundedLoop") ELSE ForFrom(ForVar(cg, st.var), st)

EmitStmt(cg, st) ==
    CASE st.k = "empty" -> cg
      [] st.k = "return" -> Emit(cg, "Ret", 0)
      [] st.k = "assign" -> EmitStore(EmitExpr(cg, st.rhs), st.lhs)
      [] st.k = "fbcall" -> EmitFbCall(cg, st)
      [] st.k = "if" -> EmitIf(cg, st)
      [] st.k = "case" -> EmitCase(cg, st)
      [] st.k = "while" -> EmitWhile(cg, st)
      [] OTHER -> EmitFor(cg, st)

EmitBody(cg, body) ==
    FoldLeft(LAMBDA g, st: IF g.err # "" THEN g ELSE EmitStmt(g, st), cg, body)

(***************************************************************************)
(* A whole project.  `order` is the order in which the bodies of the user  *)
(* blocks are emitted and `reversed` that of the named arguments (the      *)
(* iteration orders of hash maps).                                         *)
(***************************************************************************)
(* Nested instances are allocated once per block type, after the globals. *)
NestedInstance(r, inst, layouts, max) ==
    IF inst.td.k = "prim"
    THEN LET a == BindPrim(r, inst.td.id, max)
         IN [a EXCEPT !.locals = Put(@, inst.name, a.sym)]
    ELSE LET a == Alloc(r, "data", layouts[inst.td.fb].size, 4)
         IN [a EXCEPT !.locals = Put(@, inst.name,
                                    [k |-> "inst", fb |-> inst.td.fb, base |-> a.off])]

FieldSymbols(layout) ==
    LET f(n) == CHOOSE x \in Range(layout.fields): x.name = n
    IN [n \in {x.name: x \in Range(layout.fields)} |->
          IF f(n).retain THEN [k |-> "retain", off |-> f(n).off, t |-> IrElem(f(n).td)]
          ELSE [k |-> "data", off |-> f(n).off, td |-> f(n).td]]

(* r.cg is the code so far, r the allocator. *)
EmitFbBody(r, name, id, max) ==
    LET layout == r.cg.layouts[name]
        a == FoldLeft(LAMBDA x, i: NestedInstance(x, i, r.cg.layouts, max),
                      [r EXCEPT !.locals = FieldSymbols(layout)], layout.instances)
        g == [BeginEntry(r.cg, name, TRUE, id) EXCEPT !.layouts[name].id = id,
                                                      !.locals = a.locals]
        done == Emit(EmitBody(g, layout.body), "Ret", 0)
    IN [a EXCEPT !.cg = [done EXCEPT !.locals = <<>>]]

EmitTask(cg, name, prog) ==
    [Emit(EmitBody(BeginEntry(cg, name, FALSE, -1), prog.body), "Halt", 0) EXCEPT !.locals = <<>>]

(* Patch the jumps and fix the segment sizes. *)
Finish(cg, r) ==
    [code |-> [n \in 1..Len(cg.code) |->
                 IF cg.code[n].op \in {"Jmp", "JmpIf", "JmpIfNot"}
                 THEN [cg.code[n] EXCEPT !.p = cg.labels[@]] ELSE cg.code[n]],
     entries |-> cg.entries, dataSize |-> Larger(Larger(r.data, cg.extra), 16),
     retainSize |-> r.retain, inputs |-> r.inputs, outputs |-> r.outputs]

(* Duplicate unit names are refused; programs are taken in name order. *)
Collect(units) ==
    [fbs |-> SelectSeq(units, LAMBDA u: u.fb), programs |-> SelectSeq(units, LAMBDA u: ~u.fb),
     err |-> IF \E i, j \in 1..Len(units): i < j /\ units[i].name = units[j].name
                                               /\ units[i].fb = units[j].fb
             THEN "EDuplicate" ELSE ""]

Named(units, n) == CHOOSE u \in Range(units): u.name = n

(* The stages of a build, each with what the one before it made. *)
Failed(e) == [ok |-> FALSE, err |-> e]

(* What is packaged once verify_module has accepted the module. *)
CompileManifest(m, cg, bound) ==
    [ok |-> TRUE, module |-> m, globals |-> bound.globals,
     layouts |-> cg.layouts, retainSyms |-> bound.retainSyms]

CompileTasks(fbs, cg, bound) ==
    IF fbs.err # "" THEN Failed(fbs.err)
    ELSE IF cg.err # "" THEN Failed(cg.err)
    ELSE CompileManifest(Finish(cg, fbs), cg, bound)

CompileBodies(fbs, bound, proj) ==
    CompileTasks(fbs, FoldLeft(LAMBDA g, t: EmitTask(g, t.name, Named(proj.programs, t.program)),
                               fbs.cg, proj.tasks), bound)

CompileBound(bound, layouts, proj, order, reversed) ==
    LET start == [data |-> bound.data, retain |-> bound.retain, off |-> 0, sym |-> <<>>,
                  prims |-> bound.prims, err |-> "", locals |-> <<>>,
                  inputs |-> bound.inputs, outputs |-> bound.outputs,
                  cg |-> Codegen(layouts, bound.globals, reversed)]
    IN IF bound.err # "" THEN Failed(bound.err)
       ELSE IF \E t \in Range(proj.tasks): \A p \in Range(proj.programs): p.name # t.program
       THEN Failed("EProject")
       ELSE CompileBodies(FoldLeftDomain(LAMBDA r, n: EmitFbBody(r, order[n], n - 1, proj.max),
                                         start, order), bound, proj)

CompileLaid(laid, proj, order, reversed) ==
    IF laid.err # "" THEN Failed(laid.err)
    ELSE IF FbRecursion(Range(proj.fbs)) THEN Failed("ERecursion")
    ELSE CompileBound(FoldLeft(LAMBDA r, p: BindProgram(r, p, laid.layouts, proj.max),
                               FoldLeft(BindTag, BindStart, proj.tags), proj.programs),
                      laid.layouts, proj, order, reversed)

Compile(proj, order, reversed) ==
    CompileLaid(LayoutAll(Range(proj.fbs), <<>>), proj, order, reversed)

=============================================================================

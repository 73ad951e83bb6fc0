------------------------------ MODULE Program ------------------------------
(***************************************************************************)
(* The life of a user program: parsed, compiled, verified, loaded and then *)
(* scanned; verifier and machine are the actions of VerifiedVm.  A project *)
(* is its source [units, tasks, tags, max] and how it is exercised: ins,   *)
(* the input images the field may show (a value per slot), bads, the sets  *)
(* of slots with Bad quality, gaps, the milliseconds between two scans,    *)
(* scans and colds, the bounds on scans and cold starts, and watch, the    *)
(* native blocks wired straight to slots.  `ref` follows the same scans    *)
(* with the reference semantics.                                           *)
(***************************************************************************)
EXTENDS Compiler, Parser, SourceSemantics, VerifiedVm

CONSTANTS Projects       \* the projects to build

VARIABLES
    project,       \* the chosen project
    parsed,        \* result of the parser
    built,         \* result of the compiler
    now,           \* sampled monotonic milliseconds
    ref,           \* environment of the reference semantics
    samples,       \* scans since the last cold start: [now, in]
    colds          \* cold starts so far

own == <<project, parsed, built, now, ref, samples, colds>>
vars == <<own, vmVars>>

(* `stage` of VerifiedVm is "source" and "parsed" before there is a module. *)
Init ==
    /\ project \in Projects
    /\ stage = "source" /\ parsed = None /\ built = None
    /\ now = 0 /\ ref = None /\ samples = <<>> /\ colds = 0
    /\ ir = None /\ check = Unchecked /\ seen = <<>> /\ vm = None /\ marks = <<>>

ParseResult(p) == [units |-> IF p.err = "" THEN p.out[1] ELSE <<>>, err |-> p.err]

ParseSource ==
    /\ stage = "source"
    /\ parsed' = ParseResult(Parse(Text(project.units)))
    /\ stage' = IF parsed'.err = "" THEN "parsed" ELSE "rejected"
    /\ UNCHANGED <<project, built, now, ref, samples, colds, ir, check, seen, vm, marks>>

Orders(names) == {s \in [1..Cardinality(names) -> names]: Range(s) = names}

(* The orders of the block bodies and of named arguments are those of hash  *)
(* maps.  What it makes goes to verify_module, whose steps follow.          *)
CompileLoaded ==
    /\ stage = "parsed"
    /\ LET c == Collect(parsed.units)
           proj == [fbs |-> c.fbs, programs |-> c.programs, tasks |-> project.tasks,
                    tags |-> project.tags, max |-> project.max]
       IN \E order \in Orders({u.name: u \in Range(c.fbs)}),
             reversed \in IF c.fbs = <<>> THEN {FALSE} ELSE BOOLEAN:
            built' = IF c.err # "" THEN [ok |-> FALSE, err |-> c.err]
                     ELSE Compile(proj, order, reversed)
    /\ stage' = IF built'.ok THEN "verify" ELSE "rejected"
    /\ ir' = IF built'.ok THEN built'.module ELSE None
    /\ seen' = IF built'.ok THEN Unseen(built'.module) ELSE <<>>
    /\ parsed' = None
    /\ UNCHANGED <<project, now, ref, samples, colds, check, vm, marks>>

Verify == (NextEntry \/ Visit) /\ UNCHANGED own

Prog == LET name == project.tasks[1].program
        IN CHOOSE u \in Range(project.units): ~u.fb /\ u.name = name

FreshRef == Memory(0..(built.module.outputs - 1))

(* Vm::load verifies the module again, to the same end. *)
LoadModule ==
    /\ LoadVerified(project.max)
    /\ ref' = FreshRef
    /\ UNCHANGED <<project, parsed, built, now, samples, colds>>

Resting == stage = "loaded" /\ vm.status \in {"ready", "halted", "returned"}

(* run_task_at on a new input image. *)
BeginScan(in, bad, gap) ==
    LET good == [n \in 0..(ir.inputs - 1) |-> n \notin bad]
        ins == [n \in 0..(ir.inputs - 1) |-> in[n + 1]]
    IN /\ Resting /\ Len(samples) < project.scans
       /\ now' = now + gap
       /\ samples' = Append(samples, [now |-> now', in |-> in])
       /\ BeginRun(EntryOf(ir, project.tasks[1].name), ins, good)
       /\ ref' = ScanOnce(ref, {u \in Range(project.units): u.fb}, Prog, ins, good, now')
       /\ UNCHANGED <<project, parsed, built, colds>>

Step == RunStep(now) /\ UNCHANGED own

RetainNames == {n \in DOMAIN built.globals: built.globals[n].k = "retain"}

(* cold_reset_non_retain between two scans. *)
ColdStart ==
    /\ Resting /\ samples # <<>> /\ colds < project.colds
    /\ ResetVm(project.max)
    /\ ref' = [FreshRef EXCEPT !.vars = [k \in DOMAIN ref.vars \cap {<<"", n>>: n \in RetainNames}
                                           |-> ref.vars[k]]]
    /\ samples' = <<>> /\ colds' = colds + 1
    /\ UNCHANGED <<project, parsed, built, now>>

Next ==
    \/ ParseSource
    \/ CompileLoaded
    \/ Verify
    \/ LoadModule
    \/ stage = "loaded" /\ \E in \in project.ins, bad \in project.bads, gap \in project.gaps:
                             BeginScan(in, bad, gap)
    \/ Step
    \/ ColdStart

Spec == Init /\ [][Next]_vars

-----------------------------------------------------------------------------
(* The parser gives back the tree a text was written from: precedence, left *)
(* association, the nesting of IF, CASE and loops, ranges of CASE labels    *)
(* (parse_expr to parse_mul, parse_stmt, parse_case, parse_unit).           *)
ParseRoundTrip == stage = "parsed" => parsed.units = project.units

(* What a scan leaves in memory. *)
Held(seg, off, key) ==
    IF key \in DOMAIN ref.vars
    THEN LoadFits(seg, off) /\ seg.tags[off] # "Unset" /\ Load(seg, off) = ref.vars[key]
    ELSE seg.tags[off] = "Unset"

SameSymbol(n, s) ==
    CASE s.k = "data" -> s.td.k = "array" \/ Held(vm.data, s.off, <<"", n>>)
      [] s.k = "retain" -> Held(vm.retain, s.off, <<"", n>>)
      [] s.k = "prim" -> \A o \in Range(s.outs): Held(vm.data, o.off, <<n, o.name>>)
      [] s.k = "inst" -> \A f \in Range(built.layouts[s.fb].fields):
                           Held(vm.data, s.base + f.off, <<n, f.name>>)
      [] OTHER -> TRUE

Outcome(st) == CASE st = "run" -> "halted" [] st = "ret" -> "returned" [] OTHER -> st

(* The compiled program computes what the source means: at the end of every *)
(* scan each variable, block output, block field, output slot and the count *)
(* of divisions by zero is the one the reference semantics gives, and a     *)
(* scan faults exactly when the source does, so never on an unknown block,  *)
(* on the call depth or on the budget, which no source has (emit_stmt,      *)
(* emit_expr, run_at).  Its calls and returns leave no operands behind.     *)
ScanMatchesSource ==
    stage = "loaded" /\ vm.status \notin {"ready", "run"} =>
      /\ BareCalls
      /\ vm.status = Outcome(ref.st)
      /\ vm.status \notin {"StackOverflow", "UnknownUserFb", "CallDepth", "Budget"}
      /\ vm.status \in {"halted", "returned"} =>
           /\ \A n \in DOMAIN built.globals: SameSymbol(n, built.globals[n])
           /\ vm.outputs = ref.outs /\ vm.written = ref.written /\ vm.div0 = ref.div0

(* Byte ranges of the symbols of one segment. *)
Ranges(seg) ==
    LET of(n) == LET s == built.globals[n] IN
          CASE s.k = seg -> IF seg = "data" THEN {<<<<n, "">>, s.off, ByteSize(s.td, built.layouts)>>}
                            ELSE {<<<<n, "">>, s.off, Width[s.t]>>}
            [] s.k = "prim" /\ seg = "data" -> {<<<<n, o.name>>, o.off, Width[o.t]>>: o \in Range(s.outs)}
            [] s.k = "inst" /\ seg = "data" -> {<<<<n, "">>, s.base, built.layouts[s.fb].size>>}
            [] OTHER -> {}
    IN UNION {of(n): n \in DOMAIN built.globals}

Apart(x, y) == x = y \/ x[2] + x[3] <= y[2] \/ y[2] + y[3] <= x[2]

(* No two variables of the program share a byte and none lies outside its   *)
(* segment; the retain map of the manifest names the same ranges; in every  *)
(* block no two fields of a segment overlap, and the data fields lie in the *)
(* instance (Allocator::alloc, layout_user_fb).  Two kinds of storage are   *)
(* not placed by this: temporaries (VerifiedInBounds) and the retained      *)
(* fields of a block against anything outside it (RetainedFieldsPlaced).    *)
SymbolsDisjoint ==
    stage = "built" =>
      LET sizes == [data |-> built.module.dataSize, retain |-> built.module.retainSize]
          fields(l, retain) == {<<f.name, f.off, ByteSize(f.td, built.layouts)>>:
                                  f \in {g \in Range(l.fields): g.retain = retain}}
      IN /\ \A seg \in {"data", "retain"}:
              /\ \A x, y \in Ranges(seg): Apart(x, y)
              /\ \A x \in Ranges(seg): x[2] + x[3] <= sizes[seg]
         /\ \A l \in Range(built.layouts):
              /\ \A retain \in BOOLEAN: \A x, y \in fields(l, retain): Apart(x, y)
              /\ \A x \in fields(l, FALSE): x[2] + x[3] <= l.size
         /\ {<<<<r.name, "">>, r.off, Width[r.t]>>: r \in Range(built.retainSyms)} = Ranges("retain")

(* The retained fields of the instances are apart from each other and from  *)
(* the program's retain variables, inside the segment.  The code does not   *)
(* see to it: layout_user_fb counts them from offset 0 of the segment       *)
(* (bind.rs:598, 641), where the program's own begin, and they are neither  *)
(* added to its size nor named in the manifest.  fb_retain.cfg shows it.    *)
RetainedFieldsPlaced ==
    stage = "built" =>
      LET insts == {n \in DOMAIN built.globals: built.globals[n].k = "inst"}
          of(n) == {<<<<n, f.name>>, f.off, ByteSize(f.td, built.layouts)>>:
                      f \in {g \in Range(built.layouts[built.globals[n].fb].fields): g.retain}}
          all == Ranges("retain") \cup UNION {of(n): n \in insts}
      IN \A x, y \in all: Apart(x, y) /\ x[2] + x[3] <= built.module.retainSize

-----------------------------------------------------------------------------
(* The inputs a watched block saw, by scan. *)
On(slot, j) == AsBool(samples[j].in[slot + 1])
Rises(slot, j) == On(slot, j) /\ (j = 1 \/ ~On(slot, j - 1))
Falls(slot, j) == ~On(slot, j) /\ j > 1 /\ On(slot, j - 1)
Last1(S) == CHOOSE j \in S: \A i \in S: i <= j
Age(s, j) == samples[j].now - samples[s].now
Out(w, name) ==
    Load(vm.data, (CHOOSE o \in Range(built.globals[w.n].outs): o.name = name).off)

TonHolds(w, k) ==
    LET off == {j \in 1..k: ~On(w.a, j)}
        start == IF off = {} THEN 1 ELSE Last1(off) + 1
        et == Smaller(Age(start, k), w.pt)
    IN IF ~On(w.a, k) THEN Out(w, "Q") = Bool(FALSE) /\ Out(w, "ET") = Val("Time", 0)
       ELSE Out(w, "Q") = Bool(et >= w.pt) /\ Out(w, "ET") = Val("Time", et)

(* ET of a delay or pulse that began at sample s: it shows PT once at its end. *)
Shown(w, s, k) ==
    Val("Time", IF \E j \in s..(k - 1): Age(s, j) >= w.pt THEN 0 ELSE Smaller(Age(s, k), w.pt))

TofHolds(w, k) ==
    LET on == {j \in 1..k: On(w.a, j)}
        fell == on # {} /\ ~On(w.a, k)
    IN /\ Out(w, "Q") = Bool(on # {} /\ (On(w.a, k) \/ Age(Last1(on) + 1, k) < w.pt))
       /\ Out(w, "ET") = IF fell THEN Shown(w, Last1(on) + 1, k) ELSE Val("Time", 0)

(* A pulse starts at a rising edge unless one still ran a sample earlier. *)
TpHolds(w, k) ==
    LET starts[j \in 0..k] ==
          IF j = 0 THEN {}
          ELSE starts[j - 1] \cup
               IF Rises(w.a, j) /\ \A s \in starts[j - 1]: Age(s, j - 1) >= w.pt THEN {j} ELSE {}
    IN /\ Out(w, "Q") = Bool(\E s \in starts[k]: Age(s, k) < w.pt)
       /\ Out(w, "ET") = IF starts[k] = {} THEN Val("Time", 0) ELSE Shown(w, Last1(starts[k]), k)

CountHolds(w, k) ==
    LET resets == {j \in 1..k: IF w.id = "CTU" THEN On(w.b, j) ELSE Rises(w.b, j)}
        from == IF resets = {} THEN 0 ELSE Last1(resets)
        edges == Cardinality({j \in (from + 1)..k: Rises(w.a, j)})
        cv == IF w.id = "CTU" THEN edges ELSE (IF resets = {} THEN 0 ELSE w.pt) - edges
    IN /\ Out(w, "CV") = Val("Dint", cv)
       /\ Out(w, "Q") = Bool(IF w.id = "CTU" THEN cv >= w.pt ELSE cv <= 0)

LatchHolds(w, k) ==
    LET acts == {j \in 1..k: On(w.a, j) \/ On(w.b, j)}
        j == Last1(acts)
    IN Out(w, "Q") = Bool(acts # {} /\ IF w.id = "RS" THEN ~On(w.b, j) ELSE On(w.a, j))

(* Every block shows what the history of its inputs demands, whatever the *)
(* times between the scans were: timers by the age of the last edge,        *)
(* counters the edges since their last reset or load, RS and SR the last    *)
(* command with reset or set dominant, the triggers exactly the edges       *)
(* (timer.rs, counter.rs, latch.rs, edge.rs).                               *)
PrimitivesFollowSamples ==
    stage = "loaded" /\ vm.status = "halted" /\ samples # <<>> =>
      \A w \in project.watch:
        LET k == Len(samples) IN
        CASE w.id = "TON" -> TonHolds(w, k)
          [] w.id = "TOF" -> TofHolds(w, k)
          [] w.id = "TP" -> TpHolds(w, k)
          [] w.id \in {"CTU", "CTD"} -> CountHolds(w, k)
          [] w.id \in {"RS", "SR"} -> LatchHolds(w, k)
          [] w.id = "R_TRIG" -> Out(w, "Q") = Bool(Rises(w.a, k))
          [] w.id = "F_TRIG" -> Out(w, "Q") = Bool(Falls(w.a, k))
          [] OTHER -> TRUE

(* docs/architecture.md:1306, verifier rule 4: "LD/ST offsets within segment *)
(* sizes": a verified program would then never fault on an offset.          *)
VerifiedInBounds == stage = "loaded" => vm.status # "Bounds"

=============================================================================

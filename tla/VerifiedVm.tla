----------------------------- MODULE VerifiedVm -----------------------------
(***************************************************************************)
(* A module of bytecode is verified (verify_module), loaded (Vm::load) and *)
(* run.  The verifier interprets each entry over stacks of types: a step   *)
(* here is one pass of the worklist loop of verify_entry.  A step of the   *)
(* machine is one pass of the loop of run_at.                              *)
(***************************************************************************)
EXTENDS Bytecode

VARIABLES
    stage,         \* "verify", "built" (accepted), "rejected", "loaded"
    ir,            \* the module
    check,         \* the verifier: entry e, its worklist, ended_ok
    seen,          \* per entry, the first stack of types met at an address
    vm,            \* the virtual machine
    marks          \* history: per body entered and not left, its entry e and
                   \* the height h of the stack when it was entered

vmVars == <<stage, ir, check, seen, vm, marks>>

None == [none |-> TRUE]

Item(pc, stack, depth) == [pc |-> pc, stack |-> stack, depth |-> depth]

(* Before the first entry of m. *)
Unchecked == [e |-> 0, work |-> <<>>, ended |-> TRUE]
Unseen(m) == [e \in 1..Len(m.entries) |-> <<>>]

VmInit(m) ==
    /\ stage = "verify" /\ ir = m /\ check = Unchecked /\ seen = Unseen(m)
    /\ vm = None /\ marks = <<>>

(***************************************************************************)
(* The verifier.                                                           *)
(***************************************************************************)
NextEntry ==
    LET n == check.e + 1
        more == n <= Len(ir.entries)
        ok == check.ended /\ (more => ir.entries[n].pc \in 1..Len(ir.code))
    IN /\ stage = "verify" /\ check.work = <<>>
       /\ stage' = IF ~ok THEN "rejected" ELSE IF more THEN "verify" ELSE "built"
       /\ check' = IF ok /\ more
                   THEN [e |-> n, work |-> <<Item(ir.entries[n].pc, <<>>, 0)>>, ended |-> FALSE]
                   ELSE check
       /\ UNCHANGED <<ir, seen, vm, marks>>

Operands(i, stack) == SubSeq(stack, Len(stack) - Pops(i) + 1, Len(stack))
After(i, stack) == SubSeq(stack, 1, Len(stack) - Pops(i)) \o Pushes(i, Operands(i, stack))

(* The instruction at a new address is accepted with the stack w brings. *)
Accepts(m, isFb, w) ==
    LET i == m.code[w.pc] IN
    /\ Decodes(m, w.pc)
    /\ ~(i.op = "Halt" /\ isFb)
    /\ OperandOk(m, i)
    /\ Pops(i) <= Len(w.stack)
    /\ i.op \in {"JmpIf", "JmpIfNot"} => Last(w.stack) \in {"Top", "Bool"}
    /\ "Bad" \notin Range(After(i, w.stack))
    /\ Len(After(i, w.stack)) <= MaxStack

(* What is left to visit behind it. *)
Follow(i, w) ==
    LET to == Successors(i, w.pc + Words(i))
        depth == IF IsUserCall(i) THEN w.depth + 1 ELSE w.depth
    IN [k \in 1..Len(to) |-> Item(to[k], After(i, w.stack), depth)]

WithStack(s, pc, stack) ==
    [p \in DOMAIN s \cup {pc} |-> IF p = pc THEN stack ELSE s[p]]

Visit ==
    LET w == Last(check.work)
        rest == Front(check.work)
        s == seen[check.e]
        i == ir.code[w.pc]
        met == w.pc \in DOMAIN s
        ok == /\ w.depth <= MaxCallDepth
              /\ IF met THEN StacksCompatible(s[w.pc], w.stack)
                 ELSE Accepts(ir, ir.entries[check.e].fb, w)
    IN /\ stage = "verify" /\ check.work # <<>>
       /\ stage' = IF ok THEN "verify" ELSE "rejected"
       /\ check' = IF ~ok THEN check
                   ELSE IF met THEN [check EXCEPT !.work = rest]
                   ELSE [check EXCEPT !.work = rest \o Follow(i, w),
                                      !.ended = @ \/ i.op \in {"Halt", "Ret"}]
       /\ seen' = IF ok /\ ~met THEN [seen EXCEPT ![check.e] = WithStack(s, w.pc, w.stack)]
                  ELSE seen
       /\ UNCHANGED <<ir, vm, marks>>

(***************************************************************************)
(* The machine.  Its module is the one the verifier accepted.              *)
(***************************************************************************)
LoadVerified(instances) ==
    /\ stage = "built" /\ stage' = "loaded"
    /\ vm' = LoadVm(ir, instances)
    /\ UNCHANGED <<ir, check, seen, marks>>

(* A run of entry n on a new input image. *)
BeginRun(n, in, good) ==
    /\ stage = "loaded" /\ vm.status # "run"
    /\ vm' = StartRun([vm EXCEPT !.inputs = in, !.good = good], ir.entries[n].pc)
    /\ marks' = <<[e |-> n, h |-> 0]>>
    /\ UNCHANGED <<stage, ir, check, seen>>

RunStep(now) ==
    /\ stage = "loaded" /\ vm.status = "run"
    /\ vm' = VmStep(vm, ir, now)
    /\ marks' = IF Len(vm'.frames) > Len(vm.frames)
                THEN Append(marks, [e |-> UserEntry(ir, ir.code[vm.pc].id), h |-> Len(vm.stack)])
                ELSE IF Len(vm'.frames) < Len(vm.frames) THEN Front(marks)
                ELSE marks
    /\ UNCHANGED <<stage, ir, check, seen>>

(* cold_reset_non_retain between two runs. *)
ResetVm(instances) ==
    /\ stage = "loaded" /\ vm.status # "run"
    /\ vm' = [ColdReset(vm, instances) EXCEPT !.status = "ready"]
    /\ UNCHANGED <<stage, ir, check, seen, marks>>

VmNext ==
    \/ NextEntry
    \/ Visit
    \/ \E instances \in Nat: LoadVerified(instances) \/ ResetVm(instances)
    \/ \E n \in 1..Len(ir.entries): \E in, good: BeginRun(n, in, good)
    \/ \E now \in Nat: RunStep(now)

(* Any module, any images and any times. *)
VmSpec(m) == VmInit(m) /\ [][VmNext]_vmVars

-----------------------------------------------------------------------------
(* No verified call of a user block and no RET has operands on the stack.   *)
(* The verifier does not ask for it (verify.rs:322), the compiler sees to   *)
(* it: calls are statements.                                                *)
BareCalls ==
    \A e \in DOMAIN seen: \A pc \in DOMAIN seen[e]:
      ir.code[pc].op = "Ret" \/ IsUserCall(ir.code[pc]) => seen[e][pc] = <<>>

(* A module the verifier accepted never underflows the stack and never runs *)
(* off its code, whatever its inputs, in its own body or in a called one:   *)
(* each address reached is one verify_entry visited for the body's entry,   *)
(* with at least the operands it found there above the height the body was  *)
(* entered with.  If no call and no RET leaves operands behind, the depth   *)
(* is exactly the verifier's, and the stack never overflows.                *)
StackSafe ==
    stage = "loaded" =>
      LET t == Last(marks)
          depth == Len(seen[t.e][vm.pc])
      IN /\ vm.status \notin {"StackUnderflow", "Decode"}
         /\ vm.status = "run" => /\ vm.pc \in DOMAIN seen[t.e]
                                 /\ t.h + depth <= Len(vm.stack)
         /\ BareCalls => /\ vm.status # "StackOverflow"
                         /\ vm.status = "run" => Len(vm.stack) = depth

=============================================================================

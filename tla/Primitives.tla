----------------------------- MODULE Primitives -----------------------------
(***************************************************************************)
(* The native function blocks of plc-fb-primitives as operators: an        *)
(* instance is a record, an evaluation maps the instance, its inputs and   *)
(* the sampled monotonic time to the new instance and its outputs.         *)
(* REAL is abstracted to the integers (only sums, differences and clamps   *)
(* occur).  Definitions named Mutant... are defective variants of the      *)
(* definition that follows them.                                           *)
(***************************************************************************)
EXTENDS Integers, Sequences

CONSTANTS
    MaxDint,      \* i32::MAX
    PidLimit      \* out_max of a default PID instance, -out_min

MinDint == -MaxDint - 1

Smaller(a, b) == IF a < b THEN a ELSE b
Larger(a, b) == IF a > b THEN a ELSE b
Clamp(x, lo, hi) == Larger(lo, Smaller(x, hi))

(* Elapsed time since `start`, saturated to the TIME range and to PT. *)
EtFromDelta(start, now, pt) ==
    Smaller(Smaller(Larger(now - start, 0), MaxDint), Larger(pt, 0))

Inst(id) ==
    CASE id = "TON" -> [q |-> FALSE, et |-> 0, start |-> 0, running |-> FALSE]
      [] id = "TOF" -> [q |-> FALSE, et |-> 0, fall |-> 0, delaying |-> FALSE]
      [] id = "TP" -> [q |-> FALSE, et |-> 0, start |-> 0, running |-> FALSE, prevIn |-> FALSE]
      [] id = "CTU" -> [q |-> FALSE, cv |-> 0, prevCu |-> FALSE]
      [] id = "CTD" -> [q |-> FALSE, cv |-> 0, prevCd |-> FALSE, prevLd |-> FALSE]
      [] id \in {"RS", "SR"} -> [q |-> FALSE]
      [] id \in {"R_TRIG", "F_TRIG"} -> [q |-> FALSE, prev |-> FALSE]
      [] OTHER -> [out |-> 0, lastErr |-> 0, last |-> 0, initialized |-> FALSE]

(***************************************************************************)
(* Timers.                                                                 *)
(***************************************************************************)
MutantTon(s, in, pt0, now) ==
    LET pt == Larger(pt0, 0) IN
    IF ~in THEN [s EXCEPT !.q = FALSE, !.et = 0]
    ELSE IF ~s.running
    THEN [q |-> pt = 0, et |-> 0, start |-> now, running |-> TRUE]
    ELSE LET et == EtFromDelta(s.start, now, pt)
         IN [s EXCEPT !.et = et, !.q = et >= pt]

Ton(s, in, pt0, now) ==
    LET pt == Larger(pt0, 0) IN
    IF ~in THEN Inst("TON")
    ELSE IF ~s.running
    THEN [q |-> pt = 0, et |-> 0, start |-> now, running |-> TRUE]
    ELSE LET et == EtFromDelta(s.start, now, pt)
         IN [s EXCEPT !.et = et, !.q = et >= pt]

Tof(s, in, pt0, now) ==
    LET pt == Larger(pt0, 0)
        fall == IF s.delaying THEN s.fall ELSE now
        et == EtFromDelta(fall, now, pt)
    IN IF in THEN [q |-> TRUE, et |-> 0, fall |-> 0, delaying |-> FALSE]
       ELSE IF ~(s.q \/ s.delaying) THEN [s EXCEPT !.q = FALSE, !.et = 0]
       ELSE [q |-> et < pt, et |-> et, fall |-> fall, delaying |-> et < pt]

Tp(s, in, pt0, now) ==
    LET pt == Larger(pt0, 0)
        starts == ~s.running /\ in /\ ~s.prevIn
        run == s.running \/ starts
        start == IF starts THEN now ELSE s.start
        et == EtFromDelta(start, now, pt)
    IN IF starts /\ pt = 0     \* a pulse of one sample
       THEN [q |-> TRUE, et |-> 0, start |-> now, running |-> FALSE, prevIn |-> in]
       ELSE IF run
       THEN [q |-> et < pt, et |-> et, start |-> start, running |-> et < pt, prevIn |-> in]
       ELSE [s EXCEPT !.q = FALSE, !.et = 0, !.prevIn = in]

(***************************************************************************)
(* Counters, latches, edge detectors.                                      *)
(***************************************************************************)
Ctu(s, cu, r, pv) ==
    LET cv == IF r THEN 0
              ELSE IF cu /\ ~s.prevCu /\ s.cv < MaxDint THEN s.cv + 1
              ELSE s.cv
    IN [q |-> cv >= pv, cv |-> cv, prevCu |-> cu]

Ctd(s, cd, ld, pv) ==
    LET cv == IF ld /\ ~s.prevLd THEN pv
              ELSE IF cd /\ ~s.prevCd /\ s.cv > MinDint THEN s.cv - 1
              ELSE s.cv
    IN [q |-> cv <= 0, cv |-> cv, prevCd |-> cd, prevLd |-> ld]

Rs(s, set, reset) == [q |-> (set \/ s.q) /\ ~reset]
Sr(s, set, reset) == [q |-> set \/ (s.q /\ ~reset)]
RTrig(s, clk) == [q |-> clk /\ ~s.prev, prev |-> clk]
FTrig(s, clk) == [q |-> ~clk /\ s.prev, prev |-> clk]

(* The default gains (kp = 1, ki = kd = 0), which nothing in the runtime   *)
(* changes: the integral and derivative terms are zero on every path.      *)
Pid(s, pv, sp, enable, now) ==
    IF ~enable THEN s
    ELSE [out |-> Clamp(sp - pv, -PidLimit, PidLimit), lastErr |-> sp - pv,
          last |-> now, initialized |-> TRUE]

(***************************************************************************)
(* Dispatch: stack scalars are [ty, v] with ty Bool, Dint or Real.         *)
(***************************************************************************)
Ids == {"TON", "TOF", "TP", "CTU", "CTD", "RS", "SR", "R_TRIG", "F_TRIG", "PID"}

InputNames(id) ==
    CASE id \in {"TON", "TOF", "TP"} -> <<"IN", "PT">>
      [] id = "CTU" -> <<"CU", "R", "PV">>
      [] id = "CTD" -> <<"CD", "LD", "PV">>
      [] id \in {"RS", "SR"} -> <<"S", "R">>
      [] id \in {"R_TRIG", "F_TRIG"} -> <<"CLK">>
      [] OTHER -> <<"PV", "SP", "ENABLE">>

InputCount(id) == Len(InputNames(id))
OutputCount(id) == IF id \in {"TON", "TOF", "TP", "CTU", "CTD"} THEN 2 ELSE 1

(* as_bool is defined on Bool only; as_dint on Dint and Bool; as_real on all. *)
InputsTyped(id, in) ==
    LET bools == CASE id \in {"TON", "TOF", "TP"} -> {1}
                   [] id \in {"CTU", "CTD", "RS", "SR"} -> {1, 2}
                   [] id \in {"R_TRIG", "F_TRIG"} -> {1}
                   [] OTHER -> {3}
        dints == CASE id \in {"TON", "TOF", "TP"} -> {2}
                   [] id \in {"CTU", "CTD"} -> {3}
                   [] OTHER -> {}
    IN /\ \A i \in bools: in[i].ty = "Bool"
       /\ \A i \in dints: in[i].ty \in {"Bool", "Dint"}

Eval(id, s, in, now) ==
    LET b(i) == in[i].v # 0
        d(i) == in[i].v
    IN CASE id = "TON" -> Ton(s, b(1), d(2), now)
         [] id = "TOF" -> Tof(s, b(1), d(2), now)
         [] id = "TP" -> Tp(s, b(1), d(2), now)
         [] id = "CTU" -> Ctu(s, b(1), b(2), d(3))
         [] id = "CTD" -> Ctd(s, b(1), b(2), d(3))
         [] id = "RS" -> Rs(s, b(1), b(2))
         [] id = "SR" -> Sr(s, b(1), b(2))
         [] id = "R_TRIG" -> RTrig(s, b(1))
         [] id = "F_TRIG" -> FTrig(s, b(1))
         [] OTHER -> Pid(s, d(1), d(2), b(3), now)

Outputs(id, s) ==
    LET q == [ty |-> "Bool", v |-> IF id # "PID" /\ s.q THEN 1 ELSE 0]
    IN CASE id \in {"TON", "TOF", "TP"} -> <<q, [ty |-> "Dint", v |-> s.et]>>
         [] id \in {"CTU", "CTD"} -> <<q, [ty |-> "Dint", v |-> s.cv]>>
         [] id = "PID" -> <<[ty |-> "Real", v |-> s.out]>>
         [] OTHER -> <<q>>

(* `store` maps a primitive kind to the sequence of its instances (index 0 *)
(* of the pool is element 1).                                              *)
CallPrimitive(store, id, instance, in, now) ==
    IF instance >= Len(store[id]) THEN [ok |-> FALSE, err |-> "BadInstance"]
    ELSE IF ~InputsTyped(id, in) THEN [ok |-> FALSE, err |-> "TypeMismatch"]
    ELSE LET s == Eval(id, store[id][instance + 1], in, now)
         IN [ok |-> TRUE, store |-> [store EXCEPT ![id][instance + 1] = s],
             out |-> Outputs(id, s)]

WithCapacity(n) == [id \in Ids |-> [i \in 1..n |-> Inst(id)]]
=============================================================================

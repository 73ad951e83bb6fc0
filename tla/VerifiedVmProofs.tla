-------------------------- MODULE VerifiedVmProofs --------------------------
(***************************************************************************)
(* Verified bytecode keeps to its stack, for every module, whatever its    *)
(* images and times.                                                       *)
(***************************************************************************)
EXTENDS VerifiedVm, TLAPS, WellFoundedInduction

(***************************************************************************)
(* Sequences of anything.                                                  *)
(***************************************************************************)
IsSeq(s) == s \in Seq(Range(s))

(* A sequence over some set is a sequence.                                 *)
LEMMA SeqIsSeq ==
  ASSUME NEW S, NEW s \in Seq(S)
  PROVE  IsSeq(s) /\ Len(s) \in Nat /\ DOMAIN s = 1..Len(s)
<1>1. Len(s) \in Nat /\ DOMAIN s = 1..Len(s) /\ s \in [1..Len(s) -> S]
  OBVIOUS
<1>2. s \in [1..Len(s) -> Range(s)]
  BY <1>1 DEF Range
<1>3. QED
  BY <1>1, <1>2 DEF IsSeq

(* Its length and its domain.                                              *)
LEMMA SeqLen ==
  ASSUME NEW s, IsSeq(s)
  PROVE  Len(s) \in Nat /\ DOMAIN s = 1..Len(s)
BY SeqIsSeq DEF IsSeq

(* The empty sequence.                                                     *)
LEMMA SeqEmpty ==
  ASSUME NEW s, s = <<>>
  PROVE  IsSeq(s) /\ Len(s) = 0 /\ DOMAIN s = {}
<1>1. s \in Seq(Nat) /\ Len(s) = 0
  OBVIOUS
<1>2. IsSeq(s) /\ DOMAIN s = 1..Len(s)
  BY <1>1, SeqIsSeq
<1>3. QED
  BY <1>1, <1>2

(* A function on 1..n.                                                     *)
LEMMA FunctionSeq ==
  ASSUME NEW n \in Nat, NEW s, DOMAIN s = 1..n, s = [k \in 1..n |-> s[k]]
  PROVE  IsSeq(s) /\ Len(s) = n
<1>1. s \in [1..n -> Range(s)]
  BY DEF Range
<1>2. s \in Seq(Range(s)) /\ Len(s) = n
  BY <1>1
<1>3. QED
  BY <1>2 DEF IsSeq

(* A larger set of members.                                                *)
LEMMA SeqWider ==
  ASSUME NEW S, NEW T, S \subseteq T, NEW s \in Seq(S)
  PROVE  s \in Seq(T)
<1>1. s \in [1..Len(s) -> T] /\ Len(s) \in Nat
  OBVIOUS
<1>2. QED
  BY <1>1

(* Append.                                                                 *)
LEMMA AppendSeq ==
  ASSUME NEW s, IsSeq(s), NEW x
  PROVE  /\ IsSeq(Append(s, x)) /\ Len(Append(s, x)) = Len(s) + 1
         /\ \A k \in 1..Len(s) : Append(s, x)[k] = s[k]
         /\ Append(s, x)[Len(s) + 1] = x
<1> DEFINE T == Range(s) \cup {x}
<1>1. s \in Seq(T) /\ x \in T
  BY SeqWider DEF IsSeq
<1> HIDE DEF T
<1>2. /\ Append(s, x) \in Seq(T) /\ Len(Append(s, x)) = Len(s) + 1
      /\ \A k \in 1..Len(s) : Append(s, x)[k] = s[k]
      /\ Append(s, x)[Len(s) + 1] = x
  BY <1>1
<1>3. QED
  BY <1>2, SeqIsSeq

(* Concatenation.                                                          *)
LEMMA ConcatSeq ==
  ASSUME NEW s, IsSeq(s), NEW t, IsSeq(t)
  PROVE  /\ IsSeq(s \o t) /\ Len(s \o t) = Len(s) + Len(t)
         /\ \A k \in 1..Len(s) : (s \o t)[k] = s[k]
         /\ \A k \in 1..Len(t) : (s \o t)[Len(s) + k] = t[k]
<1> DEFINE T == Range(s) \cup Range(t)
<1>1. s \in Seq(T) /\ t \in Seq(T)
  BY SeqWider DEF IsSeq
<1> HIDE DEF T
<1>2. /\ s \o t \in Seq(T) /\ Len(s \o t) = Len(s) + Len(t)
      /\ \A k \in 1..Len(s) : (s \o t)[k] = s[k]
      /\ \A k \in 1..Len(t) : (s \o t)[Len(s) + k] = t[k]
  BY <1>1
<1>3. QED
  BY <1>2, SeqIsSeq

(* A prefix.                                                               *)
LEMMA PrefixSeq ==
  ASSUME NEW s, IsSeq(s), NEW n \in 0..Len(s)
  PROVE  /\ IsSeq(SubSeq(s, 1, n)) /\ Len(SubSeq(s, 1, n)) = n
         /\ \A k \in 1..n : SubSeq(s, 1, n)[k] = s[k]
<1>1. s \in Seq(Range(s)) /\ Len(s) \in Nat
  BY SeqLen DEF IsSeq
<1>2. /\ SubSeq(s, 1, n) \in Seq(Range(s)) /\ Len(SubSeq(s, 1, n)) = n
      /\ \A k \in 1..n : SubSeq(s, 1, n)[k] = s[k]
  BY <1>1
<1>3. QED
  BY <1>2, SeqIsSeq

(* The last n members.                                                     *)
LEMMA SuffixSeq ==
  ASSUME NEW s, IsSeq(s), NEW n \in 0..Len(s)
  PROVE  /\ IsSeq(SubSeq(s, Len(s) - n + 1, Len(s)))
         /\ Len(SubSeq(s, Len(s) - n + 1, Len(s))) = n
<1>1. s \in Seq(Range(s)) /\ Len(s) \in Nat
  BY SeqLen DEF IsSeq
<1>2. /\ SubSeq(s, Len(s) - n + 1, Len(s)) \in Seq(Range(s))
      /\ Len(SubSeq(s, Len(s) - n + 1, Len(s))) = n
  BY <1>1
<1>3. QED
  BY <1>2, SeqIsSeq

(* All but the last member, and the last one.                              *)
LEMMA FrontSeq ==
  ASSUME NEW s, IsSeq(s), s # <<>>
  PROVE  /\ Len(s) \in Nat \ {0}
         /\ IsSeq(Front(s)) /\ Len(Front(s)) = Len(s) - 1
         /\ \A k \in 1..(Len(s) - 1) : Front(s)[k] = s[k]
         /\ Last(s) = s[Len(s)]
<1>1. Len(s) \in Nat \ {0}
  <2>1. s \in Seq(Range(s))
    BY DEF IsSeq
  <2>2. QED
    BY <2>1
<1>2. Front(s) = SubSeq(s, 1, Len(s) - 1) /\ Len(s) - 1 \in 0..Len(s)
  BY <1>1 DEF Front
<1>3. QED
  BY <1>1, <1>2, PrefixSeq DEF Last

(* The members in reverse.                                                 *)
LEMMA ReverseSeq ==
  ASSUME NEW s, IsSeq(s)
  PROVE  IsSeq(Reverse(s)) /\ Len(Reverse(s)) = Len(s)
<1>1. Len(s) \in Nat
  BY SeqLen
<1> DEFINE r == Reverse(s)
<1>2. DOMAIN r = 1..Len(s) /\ r = [k \in 1..Len(s) |-> r[k]]
  BY DEF Reverse
<1> HIDE DEF r
<1>3. QED
  BY <1>1, <1>2, FunctionSeq DEF r

(***************************************************************************)
(* What an instruction does to the depth of the stack.                     *)
(***************************************************************************)
Grows(i) ==
  CASE i.op \in {"PushIBool", "LdIq", "LdData", "LdRetain", "LdI", "LdQ", "Neg", "Not", "Conv"} -> 1
    [] i.op \in DOMAIN Wide -> 1
    [] i.op \in Binops -> 1
    [] i.op = "CallFb" /\ i.kind = 0 -> OutputCount(i.id)
    [] OTHER -> 0

Known(i) == i.op = "CallFb" => i.kind # 0 \/ i.id \in Ids
Depth(i, n) == n - Pops(i) + Grows(i)

(* The wide pushes.                                                        *)
LEMMA WideOps == DOMAIN Wide = {"PushIDint", "PushIReal", "PushTime"}
BY DEF Wide

(* Numbers of operands.                                                    *)
LEMMA Counts ==
  ASSUME NEW i, Known(i)
  PROVE  Pops(i) \in Nat /\ Grows(i) \in Nat
<1>1. \A id \in Ids : InputCount(id) \in Nat /\ OutputCount(id) \in Nat
  BY DEF Ids, InputCount, InputNames, OutputCount
<1>2. Pops(i) \in Nat
  BY <1>1 DEF Pops, Known, Binops
<1>3. Grows(i) \in Nat
  BY <1>1, WideOps DEF Grows, Known, Binops
<1>4. QED
  BY <1>2, <1>3

(* Pushes pushes as many types as the instruction grows the stack by.      *)
LEMMA PushesLen ==
  ASSUME NEW i, Known(i), NEW p, IsSeq(p), Len(p) = Pops(i)
  PROVE  IsSeq(Pushes(i, p)) /\ Len(Pushes(i, p)) = Grows(i)
<1>1. ASSUME NEW x PROVE IsSeq(<<x>>) /\ Len(<<x>>) = 1
  <2>1. <<x>> \in Seq({x}) /\ Len(<<x>>) = 1
    OBVIOUS
  <2>2. QED
    BY <2>1, SeqIsSeq
<1>2. CASE i.op \in {"PushIBool", "LdIq"}
  <2>1. Pushes(i, p) = <<"Bool">> /\ Grows(i) = 1
    BY <1>2, WideOps DEF Pushes, Grows, Binops
  <2>2. QED
    BY <1>1, <2>1
<1>3. CASE i.op \in DOMAIN Wide
  <2>1. Pushes(i, p) = <<Wide[i.op]>> /\ Grows(i) = 1
    BY <1>3, WideOps DEF Pushes, Grows, Binops
  <2>2. QED
    BY <1>1, <2>1
<1>4. CASE i.op \in {"LdData", "LdRetain", "LdI", "LdQ"}
  <2>1. Pushes(i, p) = <<"Top">> /\ Grows(i) = 1
    BY <1>4, WideOps DEF Pushes, Grows, Binops
  <2>2. QED
    BY <1>1, <2>1
<1>5. CASE i.op \in Binops
  <2>1. Pushes(i, p) = <<BinaryType(i.op, p[1], p[2])>> /\ Grows(i) = 1
    BY <1>5, WideOps DEF Pushes, Grows, Binops
  <2>2. QED
    BY <1>1, <2>1
<1>6. CASE i.op \in {"Neg", "Not"}
  <2>1. Pops(i) = 1 /\ Grows(i) = 1
    BY <1>6, WideOps DEF Pops, Grows, Binops
  <2>2. Pushes(i, p) = p \/ Pushes(i, p) = <<"Bool">>
    BY <1>6, WideOps DEF Pushes, Binops
  <2>3. QED
    BY <1>1, <2>1, <2>2
<1>7. CASE i.op = "Conv"
  <2>1. Pushes(i, p) = <<i.p>> /\ Grows(i) = 1
    BY <1>7, WideOps DEF Pushes, Grows, Binops
  <2>2. QED
    BY <1>1, <2>1
<1>8. CASE i.op = "CallFb" /\ i.kind = 0
  <2> DEFINE r == [n \in 1..OutputCount(i.id) |-> IF n = 1 THEN "Bool" ELSE "Time"]
  <2>1. Pushes(i, p) = r /\ Grows(i) = OutputCount(i.id)
    BY <1>8, WideOps DEF Pushes, Grows, Binops
  <2>2. OutputCount(i.id) \in Nat
    BY DEF OutputCount
  <2>3. DOMAIN r = 1..OutputCount(i.id) /\ r = [n \in 1..OutputCount(i.id) |-> r[n]]
    OBVIOUS
  <2> HIDE DEF r
  <2>4. QED
    BY <2>1, <2>2, <2>3, FunctionSeq
<1>9. CASE /\ i.op \notin {"PushIBool", "LdIq", "LdData", "LdRetain", "LdI", "LdQ", "Neg", "Not", "Conv"}
           /\ i.op \notin DOMAIN Wide /\ i.op \notin Binops
           /\ ~(i.op = "CallFb" /\ i.kind = 0)
  <2>1. Pushes(i, p) = <<>> /\ Grows(i) = 0
    BY <1>9 DEF Pushes, Grows
  <2>2. QED
    BY <2>1, SeqEmpty
<1>10. QED
  BY <1>2, <1>3, <1>4, <1>5, <1>6, <1>7, <1>8, <1>9

(* The depth the verifier computes.                                        *)
LEMMA AfterLen ==
  ASSUME NEW i, Known(i), NEW s, IsSeq(s), Pops(i) <= Len(s)
  PROVE  IsSeq(After(i, s)) /\ Len(After(i, s)) = Depth(i, Len(s))
<1>1. Pops(i) \in Nat /\ Len(s) \in Nat
  BY Counts, SeqLen
<1>2. /\ IsSeq(SubSeq(s, 1, Len(s) - Pops(i)))
      /\ Len(SubSeq(s, 1, Len(s) - Pops(i))) = Len(s) - Pops(i)
  <2>1. Len(s) - Pops(i) \in 0..Len(s)
    BY <1>1
  <2>2. QED
    BY <2>1, PrefixSeq
<1>3. IsSeq(Operands(i, s)) /\ Len(Operands(i, s)) = Pops(i)
  <2>1. Pops(i) \in 0..Len(s)
    BY <1>1
  <2>2. QED
    BY <2>1, SuffixSeq DEF Operands
<1>4. /\ IsSeq(Pushes(i, Operands(i, s))) /\ Len(Pushes(i, Operands(i, s))) = Grows(i)
  BY <1>3, PushesLen
<1>5. QED
  BY <1>2, <1>4, ConcatSeq DEF After, Depth
(***************************************************************************)
(* One instruction of the machine.                                         *)
(***************************************************************************)
Shape(v) ==
  /\ {"stack", "frames", "pc", "status"} \subseteq DOMAIN v
  /\ IsSeq(v.stack) /\ IsSeq(v.frames)

Wrong == {"StackUnderflow", "Decode"}

(* The run ends; with an overflow only if the result has no room.          *)
Ended(v, i, r) ==
  /\ Shape(r) /\ r.status \notin Wrong \cup {"run"}
  /\ r.status = "StackOverflow" => Depth(i, Len(v.stack)) > MaxStack

(* The run goes on in the same body.                                       *)
Moved(v, i, next, r) ==
  /\ Shape(r) /\ r.status = v.status /\ r.frames = v.frames
  /\ Len(r.stack) = Depth(i, Len(v.stack))
  /\ \E k \in 1..Len(Successors(i, next)) : r.pc = Successors(i, next)[k]

(* The run enters a user block.                                            *)
Entered(v, m, i, next, r) ==
  /\ IsUserCall(i) /\ UserHits(m, i.id) # {}
  /\ Shape(r) /\ r.status = v.status /\ r.stack = v.stack
  /\ \E b : r.frames = Append(v.frames, [ret |-> next, base |-> b])
  /\ r.pc = m.entries[UserEntry(m, i.id)].pc

(* The run leaves one.                                                     *)
Left(v, i, r) ==
  /\ i.op = "Ret" /\ v.frames # <<>>
  /\ Shape(r) /\ r.status = v.status /\ r.stack = v.stack
  /\ r.frames = Front(v.frames) /\ r.pc = Last(v.frames).ret

Outcomes(v, m, i, next, r) ==
  Ended(v, i, r) \/ Moved(v, i, next, r) \/ Entered(v, m, i, next, r) \/ Left(v, i, r)

(* An early end.                                                           *)
LEMMA FaultEnds ==
  ASSUME NEW v, Shape(v), NEW i, NEW kind,
         kind \notin Wrong \cup {"run", "StackOverflow"}
  PROVE  Ended(v, i, Fault(v, kind))
BY DEF Shape, Ended, Fault

(* Pop.                                                                    *)
LEMMA PopShape ==
  ASSUME NEW v, Shape(v), NEW n \in Nat, n <= Len(v.stack)
  PROVE  /\ Shape(Popped(v, n)) /\ Popped(v, n).status = v.status
         /\ Popped(v, n).frames = v.frames /\ Popped(v, n).pc = v.pc
         /\ Len(Popped(v, n).stack) = Len(v.stack) - n
<1> DEFINE st == SubSeq(v.stack, 1, Len(v.stack) - n)
<1>1. IsSeq(st) /\ Len(st) = Len(v.stack) - n
  <2>1. Len(v.stack) \in Nat
    BY SeqLen DEF Shape
  <2>2. Len(v.stack) - n \in 0..Len(v.stack)
    BY <2>1
  <2>3. QED
    BY <2>2, PrefixSeq DEF Shape
<1>2. Popped(v, n) = [v EXCEPT !.stack = st]
  BY DEF Popped
<1> HIDE DEF st
<1>3. QED
  BY <1>1, <1>2 DEF Shape

(* Push.                                                                   *)
LEMMA PushShape ==
  ASSUME NEW v, Shape(v), NEW a
  PROVE  /\ Shape(Pushed(v, a)) /\ Pushed(v, a).frames = v.frames
         /\ Len(v.stack) >= MaxStack => Pushed(v, a).status = "StackOverflow"
         /\ Len(v.stack) < MaxStack => /\ Pushed(v, a).status = v.status
                                       /\ Pushed(v, a).pc = v.pc
                                       /\ Len(Pushed(v, a).stack) = Len(v.stack) + 1
<1>1. Len(v.stack) \in Nat /\ MaxStack \in Nat
  BY SeqLen, BytecodeAssumption DEF Shape
<1>2. CASE Len(v.stack) >= MaxStack
  <2>1. Pushed(v, a) = Fault(v, "StackOverflow")
    BY <1>2 DEF Pushed
  <2>2. QED
    BY <1>1, <1>2, <2>1 DEF Fault, Shape
<1>3. CASE Len(v.stack) < MaxStack
  <2> DEFINE st == Append(v.stack, a)
  <2>1. IsSeq(st) /\ Len(st) = Len(v.stack) + 1
    BY AppendSeq DEF Shape
  <2>2. Pushed(v, a) = [v EXCEPT !.stack = st]
    BY <1>1, <1>3 DEF Pushed
  <2> HIDE DEF st
  <2>3. QED
    BY <1>1, <1>3, <2>1, <2>2 DEF Shape
<1>4. QED
  BY <1>1, <1>2, <1>3

(* Push after pops: an instruction that leaves one value.                  *)
LEMMA PushMoves ==
  ASSUME NEW v, Shape(v), v.status = "run", NEW a, NEW i, Known(i), Grows(i) = 1,
         Pops(i) <= Len(v.stack), Successors(i, v.pc) = <<v.pc>>,
         NEW u, Shape(u), u.status = v.status, u.frames = v.frames, u.pc = v.pc,
         Len(u.stack) = Len(v.stack) - Pops(i)
  PROVE  Ended(v, i, Pushed(u, a)) \/ Moved(v, i, v.pc, Pushed(u, a))
<1>1. Len(v.stack) \in Nat /\ MaxStack \in Nat /\ Pops(i) \in Nat
  BY SeqLen, BytecodeAssumption, Counts DEF Shape
<1>2. Depth(i, Len(v.stack)) = Len(u.stack) + 1
  BY <1>1 DEF Depth
<1>3. CASE Len(u.stack) >= MaxStack
  BY <1>1, <1>2, <1>3, PushShape DEF Ended, Wrong
<1>4. CASE Len(u.stack) < MaxStack
  <2>1. Len(Successors(i, v.pc)) = 1 /\ Successors(i, v.pc)[1] = v.pc
    OBVIOUS
  <2>2. QED
    BY <1>1, <1>2, <1>4, <2>1, PushShape DEF Moved
<1>5. QED
  BY <1>1, <1>3, <1>4

(* The kinds of result of a binary operator.                               *)
LEMMA BinopKinds ==
  ASSUME NEW op, NEW a, NEW b
  PROVE  Binop(op, a, b).ty = "Err" => Binop(op, a, b).v \in {"Type", "Panic"}
<1>1. ASSUME NEW ty, ty # "Err"
      PROVE  IntArith(op, ty, a.v, b.v).ty = "Err" => IntArith(op, ty, a.v, b.v).v = "Panic"
  BY <1>1 DEF IntArith, Err, Val
<1>2. ArithOp(op, a, b).ty = "Err" => ArithOp(op, a, b).v \in {"Type", "Panic"}
  BY <1>1 DEF ArithOp, Err, Val
<1>3. LogicOp(op, a, b).ty = "Err" => LogicOp(op, a, b).v = "Type"
  BY DEF LogicOp, Err, Val
<1>4. CmpOp(op, a, b).ty = "Err" => CmpOp(op, a, b).v = "Type"
  BY DEF CmpOp, Err, Val, Bool
<1>5. \A x : Bool(x).ty # "Err"
  BY DEF Bool, Val
<1>6. QED
  BY <1>2, <1>3, <1>4, <1>5 DEF Binop

(* The kinds of result of a unary operator.                                *)
LEMMA UnaryKinds ==
  ASSUME NEW op, NEW a
  PROVE  UnaryOp(op, a).ty = "Err" => UnaryOp(op, a).v = "Type"
BY DEF UnaryOp, Err, Val, Bool
(* A native block pushes as many values as it has outputs.                 *)
LEMMA OutputsLen ==
  ASSUME NEW id \in Ids, NEW s
  PROVE  IsSeq(Outputs(id, s)) /\ Len(Outputs(id, s)) = OutputCount(id)
<1>1. ASSUME NEW x PROVE IsSeq(<<x>>) /\ Len(<<x>>) = 1
  <2>1. <<x>> \in Seq({x}) /\ Len(<<x>>) = 1
    OBVIOUS
  <2>2. QED
    BY <2>1, SeqIsSeq
<1>2. ASSUME NEW x, NEW y PROVE IsSeq(<<x, y>>) /\ Len(<<x, y>>) = 2
  <2>1. <<x, y>> \in Seq({x, y}) /\ Len(<<x, y>>) = 2
    OBVIOUS
  <2>2. QED
    BY <2>1, SeqIsSeq
<1> DEFINE q == [ty |-> "Bool", v |-> IF id # "PID" /\ s.q THEN 1 ELSE 0]
<1>3. CASE id \in {"TON", "TOF", "TP"}
  <2>1. Outputs(id, s) = <<q, [ty |-> "Dint", v |-> s.et]>> /\ OutputCount(id) = 2
    BY <1>3 DEF Outputs, OutputCount
  <2>2. QED
    BY <1>2, <2>1
<1>4. CASE id \in {"CTU", "CTD"}
  <2>1. Outputs(id, s) = <<q, [ty |-> "Dint", v |-> s.cv]>> /\ OutputCount(id) = 2
    BY <1>4 DEF Outputs, OutputCount
  <2>2. QED
    BY <1>2, <2>1
<1>5. CASE id = "PID"
  <2>1. Outputs(id, s) = <<[ty |-> "Real", v |-> s.out]>> /\ OutputCount(id) = 1
    BY <1>5 DEF Outputs, OutputCount
  <2>2. QED
    BY <1>1, <2>1
<1>6. CASE id \in {"RS", "SR", "R_TRIG", "F_TRIG"}
  <2>1. Outputs(id, s) = <<q>> /\ OutputCount(id) = 1
    BY <1>6 DEF Outputs, OutputCount
  <2>2. QED
    BY <1>1, <2>1
<1>7. QED
  BY <1>3, <1>4, <1>5, <1>6 DEF Ids

(* A call of a native block.                                               *)
LEMMA PrimMoves ==
  ASSUME NEW v, Shape(v), v.status = "run", NEW i, Known(i), NEW now,
         i.op = "CallFb", i.kind = 0, Pops(i) <= Len(v.stack)
  PROVE  Ended(v, i, CallPrim(v, i, now)) \/ Moved(v, i, v.pc, CallPrim(v, i, now))
<1>1. /\ i.id \in Ids /\ Pops(i) = InputCount(i.id) /\ Grows(i) = OutputCount(i.id)
      /\ Successors(i, v.pc) = <<v.pc>>
  BY WideOps DEF Known, Pops, Grows, Successors, Binops
<1>2. Len(v.stack) \in Nat /\ MaxStack \in Nat /\ Pops(i) \in Nat /\ Grows(i) \in Nat
  BY SeqLen, BytecodeAssumption, Counts DEF Shape
<1> DEFINE n == InputCount(i.id)
           args == SubSeq(v.stack, Len(v.stack) - n + 1, Len(v.stack))
           r == CallPrimitive(v.prims, i.id, i.base, [k \in 1..n |-> ToStackValue(args[k])], now)
           u == [Popped(v, n) EXCEPT !.prims = r.store]
<1>3. CASE ~r.ok
  <2>1. CallPrim(v, i, now) = Fault(v, "Primitive")
    BY <1>3 DEF CallPrim
  <2>2. QED
    BY <2>1, FaultEnds DEF Wrong
<1>4. CASE r.ok
  <2>1. CallPrim(v, i, now) = PushOutputs(u, i.id, r.out)
    BY <1>4 DEF CallPrim
  <2>2. \E s : r.out = Outputs(i.id, s)
    BY <1>4 DEF CallPrimitive
  <2>3. IsSeq(r.out) /\ Len(r.out) = Grows(i)
    BY <1>1, <2>2, OutputsLen
  <2>4. /\ Shape(u) /\ u.status = v.status /\ u.frames = v.frames /\ u.pc = v.pc
        /\ Len(u.stack) = Len(v.stack) - Pops(i)
    <3>1. /\ Shape(Popped(v, n)) /\ Popped(v, n).status = v.status
          /\ Popped(v, n).frames = v.frames /\ Popped(v, n).pc = v.pc
          /\ Len(Popped(v, n).stack) = Len(v.stack) - n
      BY <1>1, <1>2, PopShape
    <3> DEFINE p == Popped(v, n)
               x == r.store
    <3> HIDE DEF p, x, n
    <3>2. /\ u.status = p.status /\ u.frames = p.frames /\ u.pc = p.pc /\ u.stack = p.stack
          /\ {"stack", "frames", "pc", "status"} \subseteq DOMAIN u
      <4>1. {"stack", "frames", "pc", "status"} \subseteq DOMAIN p
        BY <3>1 DEF p, Shape
      <4>2. u = [p EXCEPT !.prims = x]
        BY DEF p, x
      <4>3. QED
        BY <4>1, <4>2
    <3>3. QED
      BY <1>1, <3>1, <3>2 DEF Shape, p, n
  <2> DEFINE o == r.out
             out == [k \in 1..Len(o) |->
                       FromStackValue(o[k], i.id \in {"TON", "TOF", "TP"} /\ k = 2)]
             st == u.stack \o Reverse(out)
  <2>5. IsSeq(st) /\ Len(st) = Len(u.stack) + Grows(i)
    <3>1. IsSeq(out) /\ Len(out) = Grows(i)
      <4> HIDE DEF r, u
      <4>1. Len(o) \in Nat /\ DOMAIN out = 1..Len(o) /\ out = [k \in 1..Len(o) |-> out[k]]
        BY <1>2, <2>3
      <4> HIDE DEF out
      <4>2. QED
        BY <2>3, <4>1, FunctionSeq
    <3>2. IsSeq(Reverse(out)) /\ Len(Reverse(out)) = Grows(i)
      <4> HIDE DEF out
      <4>1. QED
        BY <3>1, ReverseSeq
    <3>3. IsSeq(u.stack)
      BY <2>4 DEF Shape
    <3> DEFINE back == Reverse(out)
               us == u.stack
    <3> HIDE DEF back, us
    <3>4. IsSeq(us \o back) /\ Len(us \o back) = Len(us) + Len(back)
      BY <3>2, <3>3, ConcatSeq DEF back, us
    <3>5. QED
      BY <3>2, <3>4 DEF back, us
  <2>6. Depth(i, Len(v.stack)) = Len(u.stack) + Len(o)
    <3> HIDE DEF u, r
    <3>1. QED
      BY <1>2, <2>3, <2>4 DEF Depth
  <2>7. CASE Len(u.stack) + Len(o) > MaxStack
    <3>1. PushOutputs(u, i.id, o) = Fault(u, "StackOverflow")
      BY <2>7 DEF PushOutputs
    <3> HIDE DEF u, o
    <3>2. QED
      BY <2>1, <2>4, <2>6, <2>7, <3>1 DEF Ended, Fault, Shape, Wrong, o
  <2>8. CASE ~(Len(u.stack) + Len(o) > MaxStack)
    <3>1. PushOutputs(u, i.id, o) = [u EXCEPT !.stack = st]
      BY <2>8 DEF PushOutputs
    <3> DEFINE w == [u EXCEPT !.stack = st]
    <3>2. CallPrim(v, i, now) = w
      BY <2>1, <3>1
    <3>3. Len(Successors(i, v.pc)) = 1 /\ Successors(i, v.pc)[1] = v.pc
      BY <1>1
    <3> HIDE DEF u, st, o
    <3>4. /\ w.stack = st /\ w.pc = v.pc /\ w.status = v.status /\ w.frames = v.frames
          /\ {"stack", "frames", "pc", "status"} \subseteq DOMAIN w
      BY <2>4 DEF Shape
    <3>5. Shape(w)
      BY <2>4, <2>5, <3>4 DEF Shape
    <3> HIDE DEF w
    <3>6. Len(w.stack) = Depth(i, Len(v.stack))
      BY <2>3, <2>5, <2>6, <3>4 DEF o
    <3>7. QED
      BY <3>2, <3>3, <3>4, <3>5, <3>6 DEF Moved
  <2>9. QED
    BY <2>7, <2>8
<1>5. QED
  BY <1>3, <1>4
(* Loads push one value.                                                   *)
LEMMA LoadMoves ==
  ASSUME NEW v, Shape(v), v.status = "run", NEW i, Known(i),
         i.op \in {"LdData", "LdRetain"}, NEW seg, NEW off
  PROVE  Ended(v, i, LoadOp(v, seg, off)) \/ Moved(v, i, v.pc, LoadOp(v, seg, off))
<1>1. Pops(i) = 0 /\ Grows(i) = 1 /\ Successors(i, v.pc) = <<v.pc>>
  BY WideOps DEF Pops, Grows, Successors, Binops
<1>2. Len(v.stack) \in Nat
  BY SeqLen DEF Shape
<1>3. CASE LoadOp(v, seg, off) = Fault(v, "Bounds")
  BY <1>3, FaultEnds DEF Wrong
<1>4. CASE LoadOp(v, seg, off) = Pushed(v, Load(seg, off))
  <2>1. Len(v.stack) = Len(v.stack) - Pops(i) /\ Pops(i) <= Len(v.stack)
    BY <1>1, <1>2
  <2>2. QED
    BY <1>1, <1>4, <2>1, PushMoves
<1>5. QED
  BY <1>3, <1>4 DEF LoadOp

(* A step to the next instruction with n operands popped.                  *)
LEMMA NextMoves ==
  ASSUME NEW v, Shape(v), v.status = "run", NEW i, Known(i), Grows(i) = 0,
         Pops(i) <= Len(v.stack), NEW r, Shape(r),
         r.status = v.status, r.frames = v.frames, Len(r.stack) = Len(v.stack) - Pops(i),
         \E k \in 1..Len(Successors(i, v.pc)) : r.pc = Successors(i, v.pc)[k]
  PROVE  Moved(v, i, v.pc, r)
<1>1. Len(v.stack) \in Nat /\ Pops(i) \in Nat
  BY SeqLen, Counts DEF Shape
<1>2. Len(r.stack) = Depth(i, Len(v.stack))
  BY <1>1 DEF Depth
<1>3. QED
  BY <1>2 DEF Moved

(* Stores pop one value.                                                   *)
LEMMA StoreMoves ==
  ASSUME NEW v, Shape(v), v.status = "run", NEW i, Known(i), Pops(i) <= Len(v.stack),
         i.op \in {"StData", "StRetain"}, NEW seg \in {"data", "retain"}, NEW off
  PROVE  Ended(v, i, StoreOp(v, seg, off)) \/ Moved(v, i, v.pc, StoreOp(v, seg, off))
<1>1. Pops(i) = 1 /\ Grows(i) = 0 /\ Successors(i, v.pc) = <<v.pc>>
  BY WideOps DEF Pops, Grows, Successors, Binops
<1> DEFINE a == Last(v.stack)
           p == Popped(v, 1)
           r == StoreOp(v, seg, off)
<1>2. CASE ~StoreFits(v[seg], off, a)
  <2>1. r = Fault(v, "Bounds")
    BY <1>2 DEF StoreOp
  <2>2. QED
    BY <2>1, FaultEnds DEF Wrong
<1>3. CASE StoreFits(v[seg], off, a)
  <2>1. r = [p EXCEPT ![seg] = Store(@, off, a), !.dirty = @ \/ seg = "retain"]
    BY <1>3 DEF StoreOp
  <2>2. r.stack = p.stack /\ r.pc = p.pc /\ r.status = p.status /\ r.frames = p.frames
        /\ {"stack", "frames", "pc", "status"} \subseteq DOMAIN r
    <3>1. {"stack", "frames", "pc", "status"} \subseteq DOMAIN p
      BY <1>1, PopShape DEF Shape
    <3> HIDE DEF p, r, a
    <3>2. CASE seg = "data"
      BY <2>1, <3>1, <3>2
    <3>3. CASE seg = "retain"
      BY <2>1, <3>1, <3>3
    <3>4. QED
      BY <3>2, <3>3
  <2>3. /\ Shape(p) /\ p.status = v.status /\ p.frames = v.frames /\ p.pc = v.pc
        /\ Len(p.stack) = Len(v.stack) - Pops(i)
    BY <1>1, PopShape
  <2>4. Len(Successors(i, v.pc)) = 1 /\ Successors(i, v.pc)[1] = v.pc
    BY <1>1
  <2> HIDE DEF p, r
  <2>5. Shape(r)
    BY <2>2, <2>3 DEF Shape
  <2>6. Moved(v, i, v.pc, r)
    BY <1>1, <2>2, <2>3, <2>4, <2>5, NextMoves
  <2>7. QED
    BY <2>6 DEF r
<1>4. QED
  BY <1>2, <1>3

(* RET.                                                                    *)
LEMMA ReturnLeaves ==
  ASSUME NEW v, Shape(v), v.status = "run", NEW i, i.op = "Ret"
  PROVE  Ended(v, i, Return(v)) \/ Left(v, i, Return(v))
<1>1. CASE v.frames = <<>>
  <2>1. Return(v) = Fault(v, "returned")
    BY <1>1 DEF Return
  <2>2. QED
    BY <2>1, FaultEnds DEF Wrong
<1>2. CASE v.frames # <<>>
  <2> DEFINE f == Front(v.frames)
             b == IF f = <<>> THEN 0 ELSE Last(f).base
             pc == Last(v.frames).ret
  <2>1. Return(v) = [v EXCEPT !.pc = pc, !.frames = f, !.base = b]
    BY <1>2 DEF Return
  <2>2. IsSeq(f)
    BY <1>2, FrontSeq DEF Shape
  <2> HIDE DEF b
  <2>3. QED
    BY <1>2, <2>1, <2>2 DEF Left, Shape
<1>3. QED
  BY <1>1, <1>2

(* A call of a user block.                                                 *)
LEMMA CallEnters ==
  ASSUME NEW v, Shape(v), v.status = "run", NEW m, NEW i, IsUserCall(i)
  PROVE  Ended(v, i, CallUser(v, m, i)) \/ Entered(v, m, i, v.pc, CallUser(v, m, i))
<1>1. CASE UserHits(m, i.id) = {} \/ Len(v.frames) >= MaxCallDepth
  <2>1. \E kind \in {"UnknownUserFb", "CallDepth"} : CallUser(v, m, i) = Fault(v, kind)
    BY <1>1 DEF CallUser
  <2>2. QED
    BY <2>1, FaultEnds DEF Wrong
<1>2. CASE ~(UserHits(m, i.id) = {} \/ Len(v.frames) >= MaxCallDepth)
  <2> DEFINE f == Append(v.frames, [ret |-> v.pc, base |-> i.base])
             pc == m.entries[UserEntry(m, i.id)].pc
  <2>1. CallUser(v, m, i) = [v EXCEPT !.frames = f, !.base = i.base, !.pc = pc]
    BY <1>2 DEF CallUser
  <2>2. IsSeq(f)
    BY AppendSeq DEF Shape
  <2> DEFINE r == [v EXCEPT !.frames = f, !.base = i.base, !.pc = pc]
  <2>3. \E b : f = Append(v.frames, [ret |-> v.pc, base |-> b])
    OBVIOUS
  <2> HIDE DEF f
  <2>4. /\ r.frames = f /\ r.pc = pc /\ r.stack = v.stack /\ r.status = v.status
        /\ {"stack", "frames", "pc", "status"} \subseteq DOMAIN r
    BY DEF Shape
  <2>5. Shape(r)
    BY <2>2, <2>4 DEF Shape
  <2> HIDE DEF r
  <2>6. Entered(v, m, i, v.pc, r)
    BY <1>2, <2>3, <2>4, <2>5 DEF Entered
  <2>7. QED
    BY <2>1, <2>6 DEF r
<1>3. QED
  BY <1>1, <1>2
(* What an instruction may do, its operands being on the stack.            *)
LEMMA ExecuteOutcome ==
  ASSUME NEW v, Shape(v), v.status = "run", NEW m, NEW i, Known(i),
         Pops(i) <= Len(v.stack), NEW now
  PROVE  Outcomes(v, m, i, v.pc, Execute(v, m, i, now))
<1> DEFINE r == Execute(v, m, i, now)
<1>1. Len(v.stack) \in Nat /\ Pops(i) \in Nat
  BY SeqLen, Counts DEF Shape
<1>2. ASSUME NEW pc
      PROVE  /\ Shape(Goto(v, pc)) /\ Goto(v, pc).status = v.status /\ Goto(v, pc).pc = pc
             /\ Goto(v, pc).frames = v.frames /\ Goto(v, pc).stack = v.stack
  BY DEF Goto, Shape
<1>3. CASE i.op = "Halt"
  <2>1. r = Fault(v, "halted")
    BY <1>3, WideOps DEF Execute, Binops
  <2>2. QED
    BY <2>1, FaultEnds DEF Outcomes, Wrong
<1>4. CASE i.op = "Ret"
  <2>1. r = Return(v)
    BY <1>4, WideOps DEF Execute, Binops
  <2>2. QED
    BY <1>4, <2>1, ReturnLeaves DEF Outcomes
<1>5. CASE i.op = "PushIBool" \/ i.op \in DOMAIN Wide \/ i.op \in {"LdI", "LdIq", "LdQ"}
  <2>1. \E a : r = Pushed(v, a)
    <3>1. CASE i.op = "PushIBool"
      <4>1. r = Pushed(v, Bool(i.p # 0))
        BY <3>1, WideOps DEF Execute, Binops
      <4>2. QED
        BY <4>1
    <3>2. CASE i.op \in DOMAIN Wide
      <4>1. r = Pushed(v, Val(Wide[i.op], i.p))
        BY <3>2, WideOps DEF Execute, Binops
      <4>2. QED
        BY <4>1
    <3>3. CASE i.op = "LdI"
      <4>1. r = Pushed(v, v.inputs[i.p])
        BY <3>3, WideOps DEF Execute, Binops
      <4>2. QED
        BY <4>1
    <3>4. CASE i.op = "LdIq"
      <4>1. r = Pushed(v, Bool(v.good[i.p]))
        BY <3>4, WideOps DEF Execute, Binops
      <4>2. QED
        BY <4>1
    <3>5. CASE i.op = "LdQ"
      <4>1. r = Pushed(v, v.outputs[i.p])
        BY <3>5, WideOps DEF Execute, Binops
      <4>2. QED
        BY <4>1
    <3>6. QED
      BY <1>5, <3>1, <3>2, <3>3, <3>4, <3>5
  <2>2. Pops(i) = 0 /\ Grows(i) = 1 /\ Successors(i, v.pc) = <<v.pc>>
    BY <1>5, WideOps DEF Pops, Grows, Successors, Binops
  <2>3. Len(v.stack) = Len(v.stack) - Pops(i)
    BY <1>1, <2>2
  <2> HIDE DEF r
  <2>4. QED
    BY <2>1, <2>2, <2>3, PushMoves DEF Outcomes, r
<1>6. CASE i.op \in {"LdData", "LdRetain"}
  <2>1. \E seg, off : r = LoadOp(v, seg, off)
    <3>1. CASE i.op = "LdData"
      <4>1. r = LoadOp(v, v.data, v.base + i.p)
        BY <3>1, WideOps DEF Execute, Binops
      <4>2. QED
        BY <4>1
    <3>2. CASE i.op = "LdRetain"
      <4>1. r = LoadOp(v, v.retain, v.base + i.p)
        BY <3>2, WideOps DEF Execute, Binops
      <4>2. QED
        BY <4>1
    <3>3. QED
      BY <1>6, <3>1, <3>2
  <2>2. QED
    BY <1>6, <2>1, LoadMoves DEF Outcomes
<1>7. CASE i.op \in {"StData", "StRetain"}
  <2>1. \E seg \in {"data", "retain"} : \E off : r = StoreOp(v, seg, off)
    <3>1. CASE i.op = "StData"
      <4>1. r = StoreOp(v, "data", v.base + i.p)
        BY <3>1, WideOps DEF Execute, Binops
      <4>2. QED
        BY <4>1
    <3>2. CASE i.op = "StRetain"
      <4>1. r = StoreOp(v, "retain", v.base + i.p)
        BY <3>2, WideOps DEF Execute, Binops
      <4>2. QED
        BY <4>1
    <3>3. QED
      BY <1>7, <3>1, <3>2
  <2>2. QED
    BY <1>7, <2>1, StoreMoves DEF Outcomes
<1>8. CASE i.op = "StQ"
  <2> DEFINE p == Popped(v, 1)
  <2>1. r = [p EXCEPT !.outputs[i.p] = Top(v, 0), !.written = @ \cup {i.p}]
    BY <1>8, WideOps DEF Execute, Binops
  <2>2. Pops(i) = 1 /\ Grows(i) = 0 /\ Successors(i, v.pc) = <<v.pc>>
    BY <1>8, WideOps DEF Pops, Grows, Successors, Binops
  <2>3. /\ Shape(p) /\ p.status = v.status /\ p.frames = v.frames /\ p.pc = v.pc
        /\ Len(p.stack) = Len(v.stack) - Pops(i)
    BY <1>1, <2>2, PopShape
  <2> DEFINE outs == [p.outputs EXCEPT ![i.p] = Top(v, 0)]
             wr == p.written \cup {i.p}
  <2>4. r = [p EXCEPT !.outputs = outs, !.written = wr]
    BY <2>1
  <2> HIDE DEF outs, wr, p, r
  <2>5. /\ r.stack = p.stack /\ r.pc = p.pc /\ r.status = p.status /\ r.frames = p.frames
        /\ {"stack", "frames", "pc", "status"} \subseteq DOMAIN r
    BY <2>3, <2>4 DEF Shape
  <2>6. Shape(r)
    BY <2>3, <2>5 DEF Shape
  <2>7. Len(Successors(i, v.pc)) = 1 /\ Successors(i, v.pc)[1] = v.pc
    BY <2>2
  <2>8. \E k \in 1..Len(Successors(i, v.pc)) : r.pc = Successors(i, v.pc)[k]
    BY <2>3, <2>5, <2>7
  <2>9. r.status = v.status /\ r.frames = v.frames /\ Len(r.stack) = Len(v.stack) - Pops(i)
    BY <2>3, <2>5
  <2>10. Moved(v, i, v.pc, r)
    BY <2>2, <2>6, <2>8, <2>9, NextMoves
  <2>11. QED
    BY <2>10 DEF Outcomes, r
<1>9. CASE i.op \in Binops
  <2> DEFINE b == Binop(i.op, Top(v, 1), Top(v, 0))
             d == IsDiv0(i.op, Top(v, 1), Top(v, 0))
             p == Pushed(Popped(v, 2), b)
  <2>1. r = IF b.ty = "Err" THEN Fault(v, b.v)
            ELSE [p EXCEPT !.div0 = IF d THEN @ + 1 ELSE @]
    BY <1>9, WideOps DEF Execute, Binops
  <2>2. Pops(i) = 2 /\ Grows(i) = 1 /\ Successors(i, v.pc) = <<v.pc>>
    BY <1>9, WideOps DEF Pops, Grows, Successors, Binops
  <2>3. CASE b.ty = "Err"
    <3>1. b.v \in {"Type", "Panic"}
      BY <2>3, BinopKinds
    <3> HIDE DEF b
    <3>2. QED
      BY <2>1, <2>3, <3>1, FaultEnds DEF Outcomes, Wrong
  <2>4. CASE b.ty # "Err"
    <3>1. Ended(v, i, p) \/ Moved(v, i, v.pc, p)
      <4> HIDE DEF b
      <4>1. QED
        BY <1>1, <2>2, PopShape, PushMoves
    <3> DEFINE c == IF d THEN p.div0 + 1 ELSE p.div0
    <3>2. r = [p EXCEPT !.div0 = c]
      BY <2>1, <2>4
    <3> HIDE DEF p, c, r
    <3>3. Shape(p)
      BY <3>1 DEF Ended, Moved
    <3>4. /\ r.stack = p.stack /\ r.pc = p.pc /\ r.status = p.status /\ r.frames = p.frames
          /\ Shape(r)
      BY <3>2, <3>3 DEF Shape
    <3>5. QED
      BY <3>1, <3>4 DEF Outcomes, Ended, Moved, r
  <2>5. QED
    BY <2>3, <2>4
<1>10. CASE i.op \in {"Neg", "Not"}
  <2> DEFINE b == UnaryOp(i.op, Top(v, 0))
  <2>1. r = IF b.ty = "Err" THEN Fault(v, b.v) ELSE Pushed(Popped(v, 1), b)
    BY <1>10, WideOps DEF Execute, Binops
  <2>2. Pops(i) = 1 /\ Grows(i) = 1 /\ Successors(i, v.pc) = <<v.pc>>
    BY <1>10, WideOps DEF Pops, Grows, Successors, Binops
  <2>3. b.ty = "Err" => b.v = "Type"
    BY UnaryKinds
  <2>4. CASE b.ty = "Err"
    <3> HIDE DEF b
    <3>1. QED
      BY <2>1, <2>3, <2>4, FaultEnds DEF Outcomes, Wrong
  <2>5. CASE b.ty # "Err"
    <3> HIDE DEF b, r
    <3>1. r = Pushed(Popped(v, 1), b)
      BY <2>1, <2>5
    <3>2. Ended(v, i, Pushed(Popped(v, 1), b)) \/ Moved(v, i, v.pc, Pushed(Popped(v, 1), b))
      BY <1>1, <2>2, PopShape, PushMoves
    <3>3. QED
      BY <3>1, <3>2 DEF Outcomes, r
  <2>6. QED
    BY <2>4, <2>5
<1>11. CASE i.op = "Jmp"
  <2>1. r = Goto(v, i.p)
    BY <1>11, WideOps DEF Execute, Binops
  <2>2. Pops(i) = 0 /\ Grows(i) = 0 /\ Successors(i, v.pc) = <<i.p>>
    BY <1>11, WideOps DEF Pops, Grows, Successors, Binops
  <2>3. Len(Successors(i, v.pc)) = 1 /\ Successors(i, v.pc)[1] = i.p
    BY <2>2
  <2> HIDE DEF r
  <2>4. QED
    BY <1>1, <1>2, <2>1, <2>2, <2>3, NextMoves DEF Outcomes, r
<1>12. CASE i.op \in {"JmpIf", "JmpIfNot"}
  <2>1. \E u \in {Goto(v, i.p), v} : r = Popped(u, 1)
    <3>1. CASE i.op = "JmpIf"
      <4>1. r = Popped(IF AsBool(Top(v, 0)) THEN Goto(v, i.p) ELSE v, 1)
        BY <3>1, WideOps DEF Execute, Binops
      <4>2. QED
        BY <4>1
    <3>2. CASE i.op = "JmpIfNot"
      <4>1. r = Popped(IF AsBool(Top(v, 0)) THEN v ELSE Goto(v, i.p), 1)
        BY <3>2, WideOps DEF Execute, Binops
      <4>2. QED
        BY <4>1
    <3>3. QED
      BY <1>12, <3>1, <3>2
  <2>2. Pops(i) = 1 /\ Grows(i) = 0 /\ Successors(i, v.pc) = <<i.p, v.pc>>
    BY <1>12, WideOps DEF Pops, Grows, Successors, Binops
  <2>3. /\ Len(Successors(i, v.pc)) = 2 /\ Successors(i, v.pc)[1] = i.p
        /\ Successors(i, v.pc)[2] = v.pc
    BY <2>2
  <2> HIDE DEF r
  <2>4. PICK u \in {Goto(v, i.p), v} : r = Popped(u, 1)
    BY <2>1
  <2>5. /\ Shape(r) /\ r.status = v.status /\ r.frames = v.frames /\ r.pc \in {i.p, v.pc}
        /\ Len(r.stack) = Len(v.stack) - Pops(i)
    <3>1. /\ Shape(u) /\ u.status = v.status /\ u.pc \in {i.p, v.pc}
          /\ u.frames = v.frames /\ u.stack = v.stack
      BY <1>2
    <3>2. 1 \in Nat /\ 1 <= Len(u.stack)
      BY <2>2, <3>1
    <3>3. /\ Shape(Popped(u, 1)) /\ Popped(u, 1).status = u.status
          /\ Popped(u, 1).frames = u.frames /\ Popped(u, 1).pc = u.pc
          /\ Len(Popped(u, 1).stack) = Len(u.stack) - 1
      BY <3>1, <3>2, PopShape
    <3>4. QED
      BY <2>2, <2>4, <3>1, <3>3
  <2>6. \E k \in 1..Len(Successors(i, v.pc)) : r.pc = Successors(i, v.pc)[k]
    BY <2>3, <2>5
  <2>7. QED
    BY <2>2, <2>5, <2>6, NextMoves DEF Outcomes, r
<1>13. CASE i.op = "Conv"
  <2> DEFINE b == Convert(Top(v, 0), i.p)
  <2>1. r = Pushed(Popped(v, 1), b)
    BY <1>13, WideOps DEF Execute, Binops
  <2>2. Pops(i) = 1 /\ Grows(i) = 1 /\ Successors(i, v.pc) = <<v.pc>>
    BY <1>13, WideOps DEF Pops, Grows, Successors, Binops
  <2> HIDE DEF b, r
  <2>3. QED
    BY <1>1, <2>1, <2>2, PopShape, PushMoves DEF Outcomes, r
<1>14. CASE i.op = "CallFb"
  <2>1. r = IF i.kind = 0 THEN CallPrim(v, i, now) ELSE CallUser(v, m, i)
    BY <1>14, WideOps DEF Execute, Binops
  <2>2. QED
    BY <1>14, <2>1, PrimMoves, CallEnters DEF Outcomes, IsUserCall
<1>15. CASE i.op \notin {"Halt", "Ret", "PushIBool", "LdI", "LdIq", "LdQ", "LdData", "LdRetain",
                         "StData", "StRetain", "StQ", "Neg", "Not", "Jmp", "JmpIf", "JmpIfNot",
                         "Conv", "CallFb"} \cup DOMAIN Wide \cup Binops
  <2>1. r = v
    BY <1>15 DEF Execute
  <2>2. Pops(i) = 0 /\ Grows(i) = 0 /\ Successors(i, v.pc) = <<v.pc>>
    BY <1>15 DEF Pops, Grows, Successors
  <2>3. Len(Successors(i, v.pc)) = 1 /\ Successors(i, v.pc)[1] = v.pc
    BY <2>2
  <2> HIDE DEF r
  <2>4. QED
    BY <1>1, <1>2, <2>1, <2>2, <2>3, NextMoves DEF Outcomes, r
<1>16. QED
  BY <1>3, <1>4, <1>5, <1>6, <1>7, <1>8, <1>9, <1>10, <1>11, <1>12, <1>13, <1>14, <1>15
(***************************************************************************)
(* The verifier.  Whatever an address may go on to has been met with the   *)
(* depth it hands on, or is still on the worklist with it.                 *)
(***************************************************************************)
To(i, pc) == Successors(i, pc + Words(i))

Covered(s, work, q, n) ==
  \/ q \in DOMAIN s /\ Len(s[q]) = n
  \/ \E k \in 1..Len(work) : work[k].pc = q /\ Len(work[k].stack) = n

Handed(m, s, work, pc) ==
  LET to == To(m.code[pc], pc) IN
  \A k \in 1..Len(to) : Covered(s, work, to[k], Depth(m.code[pc], Len(s[pc])))

AddressOk(m, s, pc) ==
  /\ Decodes(m, pc) /\ IsSeq(s[pc]) /\ Known(m.code[pc])
  /\ Pops(m.code[pc]) <= Len(s[pc]) /\ Depth(m.code[pc], Len(s[pc])) <= MaxStack

BodyOk(m, s, work, e) ==
  /\ \A pc \in DOMAIN s : AddressOk(m, s, pc) /\ Handed(m, s, work, pc)
  /\ Covered(s, work, m.entries[e].pc, 0)

WorkOk(work) == IsSeq(work) /\ \A k \in 1..Len(work) : IsSeq(work[k].stack)

CheckInv ==
  /\ IsSeq(ir.code) /\ IsSeq(ir.entries)
  /\ {"e", "work", "ended"} \subseteq DOMAIN check
  /\ check.e \in 0..Len(ir.entries) /\ WorkOk(check.work)
  /\ check.e = 0 => check.work = <<>>
  /\ DOMAIN seen = 1..Len(ir.entries)
  /\ \A e \in 1..Len(ir.entries) :
       IF e <= check.e THEN BodyOk(ir, seen[e], IF e = check.e THEN check.work ELSE <<>>, e)
       ELSE seen[e] = <<>>
  /\ stage \in {"built", "loaded"} => check.e = Len(ir.entries) /\ check.work = <<>>

(* An item met before with its depth can go.                               *)
LEMMA CoveredMet ==
  ASSUME NEW s, NEW work, WorkOk(work), work # <<>>,
         Last(work).pc \in DOMAIN s, Len(s[Last(work).pc]) = Len(Last(work).stack),
         NEW q, NEW n, Covered(s, work, q, n)
  PROVE  Covered(s, Front(work), q, n)
<1>1. /\ Len(work) \in Nat \ {0} /\ Len(Front(work)) = Len(work) - 1
      /\ \A k \in 1..(Len(work) - 1) : Front(work)[k] = work[k]
      /\ Last(work) = work[Len(work)]
  BY FrontSeq DEF WorkOk
<1>2. CASE q \in DOMAIN s /\ Len(s[q]) = n
  BY <1>2 DEF Covered
<1>3. ASSUME NEW k \in 1..Len(work), work[k].pc = q, Len(work[k].stack) = n
      PROVE  Covered(s, Front(work), q, n)
  <2>1. CASE k = Len(work)
    BY <1>1, <1>3, <2>1 DEF Covered
  <2>2. CASE k # Len(work)
    <3>1. k \in 1..Len(Front(work)) /\ Front(work)[k] = work[k]
      BY <1>1, <2>2
    <3>2. QED
      BY <1>3, <3>1 DEF Covered
  <2>3. QED
    BY <2>1, <2>2
<1>4. QED
  BY <1>2, <1>3 DEF Covered

(* An item met now is recorded, with what follows it on the worklist.      *)
LEMMA CoveredNew ==
  ASSUME NEW s, NEW work, WorkOk(work), work # <<>>, NEW more, IsSeq(more),
         Last(work).pc \notin DOMAIN s, NEW q, NEW n, Covered(s, work, q, n)
  PROVE  Covered(WithStack(s, Last(work).pc, Last(work).stack), Front(work) \o more, q, n)
<1> DEFINE w == Last(work)
           t == WithStack(s, w.pc, w.stack)
           new == Front(work) \o more
<1>1. /\ Len(work) \in Nat \ {0} /\ IsSeq(Front(work)) /\ Len(Front(work)) = Len(work) - 1
      /\ \A k \in 1..(Len(work) - 1) : Front(work)[k] = work[k]
      /\ w = work[Len(work)]
  BY FrontSeq DEF WorkOk
<1>2. /\ Len(new) = Len(work) - 1 + Len(more) /\ Len(more) \in Nat
      /\ \A k \in 1..(Len(work) - 1) : new[k] = work[k]
  <2>1. Len(more) \in Nat
    BY SeqLen
  <2> DEFINE fr == Front(work)
  <2>2. IsSeq(fr) /\ Len(fr) = Len(work) - 1
    BY <1>1
  <2>3. \A k \in 1..(Len(work) - 1) : fr[k] = work[k]
    BY <1>1
  <2> HIDE DEF fr
  <2>4. Len(fr \o more) = Len(fr) + Len(more) /\ \A k \in 1..Len(fr) : (fr \o more)[k] = fr[k]
    BY <2>2, ConcatSeq
  <2>5. /\ Len(fr \o more) = Len(work) - 1 + Len(more)
        /\ \A k \in 1..(Len(work) - 1) : (fr \o more)[k] = work[k]
    BY <2>2, <2>3, <2>4
  <2>6. QED
    BY <2>1, <2>5 DEF fr
<1>3. /\ w.pc \in DOMAIN t /\ t[w.pc] = w.stack
      /\ \A p \in DOMAIN s : p \in DOMAIN t /\ t[p] = s[p]
  BY DEF WithStack
<1> HIDE DEF w, t, new
<1>4. CASE q \in DOMAIN s /\ Len(s[q]) = n
  BY <1>3, <1>4 DEF Covered, t, new, w
<1>5. ASSUME NEW k \in 1..Len(work), work[k].pc = q, Len(work[k].stack) = n
      PROVE  Covered(t, new, q, n)
  <2>1. CASE k = Len(work)
    BY <1>1, <1>3, <1>5, <2>1 DEF Covered
  <2>2. CASE k # Len(work)
    <3>1. k \in 1..(Len(work) - 1)
      BY <1>1, <2>2
    <3>2. k \in 1..Len(new) /\ new[k] = work[k]
      BY <1>1, <1>2, <3>1
    <3>3. QED
      BY <1>5, <3>2 DEF Covered
  <2>3. QED
    BY <2>1, <2>2
<1>6. Covered(t, new, q, n)
  BY <1>4, <1>5 DEF Covered, t, new, w
<1>7. QED
  BY <1>6 DEF t, new, w

(* Accepted: the instruction, its operands and its depth are in order, and *)
(* what follows it carries that depth.                                     *)
LEMMA AcceptedFollows ==
  ASSUME NEW m, NEW isFb, NEW w, IsSeq(w.stack), Accepts(m, isFb, w)
  PROVE  LET i == m.code[w.pc]
             to == To(i, w.pc)
             f == Follow(i, w)
         IN /\ Decodes(m, w.pc) /\ Known(i) /\ Pops(i) <= Len(w.stack)
            /\ Depth(i, Len(w.stack)) <= MaxStack
            /\ WorkOk(f) /\ Len(f) = Len(to)
            /\ \A k \in 1..Len(to) : /\ f[k].pc = to[k]
                                     /\ Len(f[k].stack) = Depth(i, Len(w.stack))
<1> DEFINE i == m.code[w.pc]
           to == To(i, w.pc)
           f == Follow(i, w)
           d == IF IsUserCall(i) THEN w.depth + 1 ELSE w.depth
<1>1. /\ Decodes(m, w.pc) /\ OperandOk(m, i) /\ Pops(i) <= Len(w.stack)
      /\ Len(After(i, w.stack)) <= MaxStack
  BY DEF Accepts
<1>2. Known(i)
  BY <1>1 DEF OperandOk, Known
<1>3. IsSeq(After(i, w.stack)) /\ Len(After(i, w.stack)) = Depth(i, Len(w.stack))
  BY <1>1, <1>2, AfterLen
<1>4. Len(to) \in Nat
  BY DEF To, Successors
<1> DEFINE a == After(i, w.stack)
           g == [k \in 1..Len(to) |-> Item(to[k], a, d)]
<1>5. f = g
  BY DEF Follow, To
<1> HIDE DEF i, to, f, d, a
<1>6. DOMAIN g = 1..Len(to) /\ g = [k \in 1..Len(to) |-> g[k]]
  OBVIOUS
<1>7. \A k \in 1..Len(to) : g[k].pc = to[k] /\ g[k].stack = a
  BY DEF Item
<1> HIDE DEF g
<1>8. IsSeq(g) /\ Len(g) = Len(to)
  BY <1>4, <1>6, FunctionSeq
<1>9. IsSeq(a) /\ Len(a) = Depth(i, Len(w.stack))
  BY <1>3 DEF a, i
<1>10. WorkOk(g)
  BY <1>7, <1>8, <1>9 DEF WorkOk
<1>11. /\ Decodes(m, w.pc) /\ Known(i) /\ Pops(i) <= Len(w.stack)
       /\ Depth(i, Len(w.stack)) <= MaxStack
  BY <1>1, <1>2, <1>3 DEF i
<1>12. /\ WorkOk(f) /\ Len(f) = Len(to)
       /\ \A k \in 1..Len(to) : /\ f[k].pc = to[k]
                                /\ Len(f[k].stack) = Depth(i, Len(w.stack))
  BY <1>5, <1>7, <1>8, <1>9, <1>10
<1>13. QED
  BY <1>11, <1>12 DEF i, to, f

(* A pass over an item met before.                                         *)
LEMMA BodyMet ==
  ASSUME NEW m, NEW s, NEW work, WorkOk(work), work # <<>>, NEW e, BodyOk(m, s, work, e),
         Last(work).pc \in DOMAIN s, StacksCompatible(s[Last(work).pc], Last(work).stack)
  PROVE  WorkOk(Front(work)) /\ BodyOk(m, s, Front(work), e)
<1>1. Len(s[Last(work).pc]) = Len(Last(work).stack)
  BY DEF StacksCompatible
<1>2. WorkOk(Front(work))
  <2>1. /\ Len(work) \in Nat \ {0} /\ IsSeq(Front(work)) /\ Len(Front(work)) = Len(work) - 1
        /\ \A k \in 1..(Len(work) - 1) : Front(work)[k] = work[k]
    BY FrontSeq DEF WorkOk
  <2>2. QED
    BY <2>1 DEF WorkOk
<1>3. \A q, n : Covered(s, work, q, n) => Covered(s, Front(work), q, n)
  BY <1>1, CoveredMet
<1>4. \A pc \in DOMAIN s : Handed(m, s, Front(work), pc)
  BY <1>3 DEF BodyOk, Handed
<1>5. QED
  BY <1>2, <1>3, <1>4 DEF BodyOk

(* A pass over a new address.                                              *)
LEMMA BodyNew ==
  ASSUME NEW m, NEW s, NEW work, WorkOk(work), work # <<>>, NEW e, BodyOk(m, s, work, e),
         Last(work).pc \notin DOMAIN s, NEW isFb, Accepts(m, isFb, Last(work))
  PROVE  LET w == Last(work)
             new == Front(work) \o Follow(m.code[w.pc], w)
         IN WorkOk(new) /\ BodyOk(m, WithStack(s, w.pc, w.stack), new, e)
<1> DEFINE w == Last(work)
           i == m.code[w.pc]
           to == To(i, w.pc)
           f == Follow(i, w)
           new == Front(work) \o f
           t == WithStack(s, w.pc, w.stack)
<1>1. /\ Len(work) \in Nat \ {0} /\ IsSeq(Front(work)) /\ Len(Front(work)) = Len(work) - 1
      /\ \A k \in 1..(Len(work) - 1) : Front(work)[k] = work[k]
      /\ w = work[Len(work)]
  BY FrontSeq DEF WorkOk
<1>2. IsSeq(w.stack)
  BY <1>1 DEF WorkOk
<1>3. /\ Decodes(m, w.pc) /\ Known(i) /\ Pops(i) <= Len(w.stack)
      /\ Depth(i, Len(w.stack)) <= MaxStack
      /\ WorkOk(f) /\ Len(f) = Len(to)
      /\ \A k \in 1..Len(to) : f[k].pc = to[k] /\ Len(f[k].stack) = Depth(i, Len(w.stack))
  BY <1>2, AcceptedFollows
<1>4. \A q, n : Covered(s, work, q, n) => Covered(t, new, q, n)
  BY <1>3, CoveredNew DEF WorkOk
<1>5. /\ DOMAIN t = DOMAIN s \cup {w.pc} /\ t[w.pc] = w.stack
      /\ \A p \in DOMAIN s : t[p] = s[p]
  BY DEF WithStack
<1>6. /\ IsSeq(new) /\ Len(new) = Len(work) - 1 + Len(f) /\ Len(f) \in Nat
      /\ \A k \in 1..(Len(work) - 1) : new[k] = work[k]
      /\ \A k \in 1..Len(f) : new[Len(work) - 1 + k] = f[k]
  <2>1. IsSeq(f) /\ Len(f) \in Nat
    BY <1>3, SeqLen DEF WorkOk
  <2> DEFINE fr == Front(work)
  <2>2. IsSeq(fr) /\ Len(fr) = Len(work) - 1
    BY <1>1
  <2>3. \A k \in 1..(Len(work) - 1) : fr[k] = work[k]
    BY <1>1
  <2> HIDE DEF fr, f
  <2>4. /\ IsSeq(fr \o f) /\ Len(fr \o f) = Len(fr) + Len(f)
        /\ \A k \in 1..Len(fr) : (fr \o f)[k] = fr[k]
        /\ \A k \in 1..Len(f) : (fr \o f)[Len(fr) + k] = f[k]
    <3> HIDE DEF to, i, w, new, t
    <3>1. IsSeq(f) /\ IsSeq(fr)
      BY <2>1, <2>2
    <3>2. QED
      BY <3>1, ConcatSeq
  <2>5. /\ IsSeq(fr \o f) /\ Len(fr \o f) = Len(work) - 1 + Len(f)
        /\ \A k \in 1..(Len(work) - 1) : (fr \o f)[k] = work[k]
        /\ \A k \in 1..Len(f) : (fr \o f)[Len(work) - 1 + k] = f[k]
    BY <2>2, <2>3, <2>4
  <2>6. QED
    BY <2>1, <2>5 DEF fr
<1> HIDE DEF w, i, to, f, new, t
<1>7. WorkOk(new)
  <2> SUFFICES ASSUME NEW k \in 1..Len(new) PROVE IsSeq(new[k].stack)
    BY <1>6 DEF WorkOk
  <2>1. CASE k <= Len(work) - 1
    <3>1. k \in 1..Len(work) /\ new[k] = work[k]
      BY <1>1, <1>6, <2>1
    <3>2. QED
      BY <3>1 DEF WorkOk
  <2>2. CASE ~(k <= Len(work) - 1)
    <3> DEFINE j == k - (Len(work) - 1)
    <3>1. j \in 1..Len(f) /\ k = Len(work) - 1 + j
      BY <1>1, <1>6, <2>2
    <3> HIDE DEF j
    <3>2. new[k] = f[j]
      BY <1>6, <3>1
    <3>3. QED
      BY <1>3, <3>1, <3>2 DEF WorkOk
  <2>3. QED
    BY <2>1, <2>2
<1>8. ASSUME NEW pc \in DOMAIN t PROVE AddressOk(m, t, pc) /\ Handed(m, t, new, pc)
  <2>1. CASE pc \in DOMAIN s
    <3>1. t[pc] = s[pc]
      BY <1>5, <2>1
    <3>2. AddressOk(m, s, pc) /\ Handed(m, s, work, pc)
      BY <2>1 DEF BodyOk
    <3>3. AddressOk(m, t, pc)
      BY <3>1, <3>2 DEF AddressOk
    <3>4. Handed(m, t, new, pc)
      BY <1>4, <3>1, <3>2 DEF Handed
    <3>5. QED
      BY <3>3, <3>4
  <2>2. CASE pc \notin DOMAIN s
    <3>1. pc = w.pc /\ t[pc] = w.stack /\ m.code[pc] = i /\ To(m.code[pc], pc) = to
      BY <1>5, <2>2 DEF i, to
    <3>2. AddressOk(m, t, pc)
      BY <1>2, <1>3, <3>1 DEF AddressOk
    <3>3. ASSUME NEW k \in 1..Len(to)
          PROVE  Covered(t, new, to[k], Depth(i, Len(w.stack)))
      <4>1. k \in 1..Len(f)
        BY <1>3
      <4>2. Len(work) - 1 + k \in 1..Len(new) /\ new[Len(work) - 1 + k] = f[k]
        BY <1>1, <1>6, <4>1
      <4>3. QED
        BY <1>3, <4>2 DEF Covered
    <3>4. Handed(m, t, new, pc)
      BY <3>1, <3>3 DEF Handed
    <3>5. QED
      BY <3>2, <3>4
  <2>3. QED
    BY <2>1, <2>2
<1>9. Covered(t, new, m.entries[e].pc, 0)
  BY <1>4 DEF BodyOk
<1>10. BodyOk(m, t, new, e)
  BY <1>8, <1>9 DEF BodyOk
<1>11. QED
  BY <1>7, <1>10 DEF w, i, f, new, t
(* The next entry, or the end of the verification.                         *)
LEMMA NextEntryKeeps == CheckInv /\ NextEntry => CheckInv'
<1> SUFFICES ASSUME CheckInv, NextEntry PROVE CheckInv'
  OBVIOUS
<1>1. /\ stage = "verify" /\ check.work = <<>> /\ seen' = seen /\ ir' = ir
      /\ Len(ir.entries) \in Nat /\ check.e \in 0..Len(ir.entries)
  BY SeqLen DEF NextEntry, CheckInv
<1> DEFINE n == check.e + 1
<1>2. CASE check' = check
  <2>1. stage' \in {"built", "loaded"} => check.e = Len(ir.entries)
    BY <1>1, <1>2 DEF NextEntry
  <2>2. QED
    BY <1>1, <1>2, <2>1 DEF CheckInv
<1>3. CASE check' # check
  <2> DEFINE c == [e |-> n, work |-> <<Item(ir.entries[n].pc, <<>>, 0)>>, ended |-> FALSE]
             item == Item(ir.entries[n].pc, <<>>, 0)
  <2>1. check' = c /\ stage' = "verify" /\ n <= Len(ir.entries)
    BY <1>3 DEF NextEntry
  <2>2. c.e = n /\ c.work = <<item>> /\ {"e", "work", "ended"} \subseteq DOMAIN c
    OBVIOUS
  <2>3. item.pc = ir.entries[n].pc /\ item.stack = <<>> /\ IsSeq(item.stack) /\ Len(item.stack) = 0
    BY SeqEmpty DEF Item
  <2> HIDE DEF c, item
  <2>4. IsSeq(<<item>>) /\ Len(<<item>>) = 1 /\ <<item>>[1] = item
    <3>1. <<item>> \in Seq({item}) /\ Len(<<item>>) = 1 /\ <<item>>[1] = item
      OBVIOUS
    <3>2. QED
      BY <3>1, SeqIsSeq
  <2>5. WorkOk(c.work)
    BY <2>2, <2>3, <2>4 DEF WorkOk
  <2>6. ASSUME NEW e \in 1..Len(ir.entries)
        PROVE  IF e <= n THEN BodyOk(ir, seen[e], IF e = n THEN c.work ELSE <<>>, e)
               ELSE seen[e] = <<>>
    <3>1. CASE e < n
      <4>1. e <= check.e /\ e <= n /\ e # n
        BY <1>1, <3>1
      <4>2. BodyOk(ir, seen[e], IF e = check.e THEN check.work ELSE <<>>, e)
        BY <4>1 DEF CheckInv
      <4>3. BodyOk(ir, seen[e], <<>>, e)
        BY <1>1, <4>2
      <4>4. QED
        BY <4>1, <4>3
    <3>2. CASE e = n
      <4>1. ~(e <= check.e) /\ e <= n
        BY <1>1, <3>2
      <4>2. seen[e] = <<>>
        BY <4>1 DEF CheckInv
      <4>3. DOMAIN seen[e] = {}
        BY <4>2, SeqEmpty
      <4>4. Covered(seen[e], c.work, ir.entries[e].pc, 0)
        BY <2>2, <2>3, <2>4, <3>2 DEF Covered
      <4>5. QED
        BY <3>2, <4>1, <4>3, <4>4 DEF BodyOk
    <3>3. CASE e > n
      <4>1. ~(e <= check.e) /\ ~(e <= n)
        BY <1>1, <3>3
      <4>2. QED
        BY <4>1 DEF CheckInv
    <3>4. QED
      BY <1>1, <3>1, <3>2, <3>3
  <2>7. n \in 0..Len(ir.entries) /\ n # 0
    BY <1>1, <2>1
  <2> HIDE DEF n
  <2>8. QED
    BY <1>1, <2>1, <2>2, <2>5, <2>6, <2>7 DEF CheckInv
<1>4. QED
  BY <1>2, <1>3

(* One pass of the worklist loop.                                          *)
LEMMA VisitKeeps == CheckInv /\ Visit => CheckInv'
<1> SUFFICES ASSUME CheckInv, Visit PROVE CheckInv'
  OBVIOUS
<1> DEFINE w == Last(check.work)
           s == seen[check.e]
           i == ir.code[w.pc]
           n == check.e
           work == check.work
<1>1. /\ stage = "verify" /\ work # <<>> /\ ir' = ir
      /\ Len(ir.entries) \in Nat /\ n \in 1..Len(ir.entries) /\ WorkOk(work)
  <2>1. stage = "verify" /\ work # <<>> /\ ir' = ir
    BY DEF Visit
  <2>2. Len(ir.entries) \in Nat /\ n \in 0..Len(ir.entries) /\ n # 0 /\ WorkOk(work)
    BY <2>1, SeqLen DEF CheckInv
  <2>3. QED
    BY <2>1, <2>2
<1>2. BodyOk(ir, s, work, n)
  BY <1>1 DEF CheckInv
<1>3. CASE check' = check /\ seen' = seen
  <2>1. stage' \in {"verify", "rejected"}
    BY DEF Visit
  <2>2. QED
    BY <1>1, <1>3, <2>1 DEF CheckInv
<1>4. ASSUME NEW c, NEW t, NEW new, check' = c, stage' = "verify", NEW u, seen' = u,
             DOMAIN u = 1..Len(ir.entries), u[n] = t,
             \A e \in 1..Len(ir.entries) : e # n => u[e] = seen[e],
             {"e", "work", "ended"} \subseteq DOMAIN c, c.e = n, c.work = new,
             WorkOk(new), BodyOk(ir, t, new, n)
      PROVE  CheckInv'
  <2> HIDE DEF w, s, i, work
  <2>1. ASSUME NEW e \in 1..Len(ir.entries)
        PROVE  IF e <= n THEN BodyOk(ir, u[e], IF e = n THEN new ELSE <<>>, e)
               ELSE u[e] = <<>>
    <3>1. CASE e = n
      <4>1. e <= n
        BY <1>1, <3>1
      <4>2. QED
        BY <1>4, <3>1, <4>1
    <3>2. CASE e # n
      BY <1>4, <3>2 DEF CheckInv
    <3>3. QED
      BY <3>1, <3>2
  <2>2. n \in 0..Len(ir.entries) /\ n # 0
    BY <1>1
  <2>3. QED
    BY <1>1, <1>4, <2>1, <2>2 DEF CheckInv
<1>5. {"e", "work", "ended"} \subseteq DOMAIN check
  BY DEF CheckInv
<1>6. CASE w.pc \in DOMAIN s
  <2>1. CASE stage' # "verify"
    BY <1>3, <1>6, <2>1 DEF Visit
  <2>2. CASE stage' = "verify"
    <3>1. StacksCompatible(s[w.pc], w.stack)
      BY <1>6, <2>2 DEF Visit
    <3>2. check' = [check EXCEPT !.work = Front(work)] /\ seen' = seen
      BY <1>6, <2>2 DEF Visit
    <3>3. WorkOk(Front(work)) /\ BodyOk(ir, s, Front(work), n)
      BY <1>1, <1>2, <1>6, <3>1, BodyMet
    <3>4. DOMAIN seen = 1..Len(ir.entries)
      BY DEF CheckInv
    <3> DEFINE c == [check EXCEPT !.work = Front(work)]
    <3>5. {"e", "work", "ended"} \subseteq DOMAIN c /\ c.e = n /\ c.work = Front(work)
      BY <1>5
    <3> HIDE DEF c
    <3>6. check' = c
      BY <3>2 DEF c
    <3>7. QED
      BY <1>4, <2>2, <3>2, <3>3, <3>4, <3>5, <3>6
  <2>3. QED
    BY <2>1, <2>2
<1>7. CASE w.pc \notin DOMAIN s
  <2>1. CASE stage' # "verify"
    BY <1>3, <1>7, <2>1 DEF Visit
  <2>2. CASE stage' = "verify"
    <3> DEFINE new == Front(work) \o Follow(i, w)
               t == WithStack(s, w.pc, w.stack)
               b == check.ended \/ i.op \in {"Halt", "Ret"}
               c == [check EXCEPT !.work = new, !.ended = b]
    <3>1. Accepts(ir, ir.entries[n].fb, w)
      BY <1>7, <2>2 DEF Visit
    <3>2. check' = c /\ seen' = [seen EXCEPT ![n] = t]
      BY <1>7, <2>2 DEF Visit
    <3>3. WorkOk(new) /\ BodyOk(ir, t, new, n)
      BY <1>1, <1>2, <1>7, <3>1, BodyNew
    <3> HIDE DEF new, t, b
    <3>4. {"e", "work", "ended"} \subseteq DOMAIN c /\ c.e = n /\ c.work = new
      BY <1>5
    <3> DEFINE u == [seen EXCEPT ![n] = t]
    <3>5. /\ DOMAIN u = 1..Len(ir.entries) /\ u[n] = t
          /\ \A e \in 1..Len(ir.entries) : e # n => u[e] = seen[e]
      BY <1>1 DEF CheckInv
    <3> HIDE DEF c, u
    <3>6. seen' = u
      BY <3>2 DEF u
    <3>7. QED
      BY <1>4, <2>2, <3>2, <3>3, <3>4, <3>5, <3>6
  <2>3. QED
    BY <2>1, <2>2
<1>8. QED
  BY <1>6, <1>7
(***************************************************************************)
(* The machine: every body that is not left keeps its height, and finds at *)
(* its return address what the verifier found there.                       *)
(***************************************************************************)
Runs(v, mk) ==
  LET n == Len(mk) IN
  /\ IsSeq(mk) /\ n = Len(v.frames) + 1
  /\ \A k \in 1..n : mk[k].e \in 1..Len(ir.entries) /\ mk[k].h \in Nat
  /\ \A k \in 1..Len(v.frames) :
       /\ v.frames[k].ret \in DOMAIN seen[mk[k].e]
       /\ mk[k].h + Len(seen[mk[k].e][v.frames[k].ret]) <= mk[k + 1].h
  /\ v.pc \in DOMAIN seen[mk[n].e]
  /\ mk[n].h + Len(seen[mk[n].e][v.pc]) <= Len(v.stack)
  /\ BareCalls => /\ Len(v.stack) = Len(seen[mk[n].e][v.pc])
                  /\ \A k \in 1..Len(v.frames) : Len(seen[mk[k].e][v.frames[k].ret]) = 0

Safe(v, mk) ==
  /\ Shape(v) /\ v.status \notin Wrong
  /\ BareCalls => v.status # "StackOverflow"
  /\ v.status = "run" => Runs(v, mk)

MachineInv == stage = "loaded" => Safe(vm, marks)

(* What the verifier leaves behind.                                        *)
LEMMA Verified ==
  ASSUME CheckInv, stage = "loaded", NEW e \in 1..Len(ir.entries)
  PROVE  /\ ir.entries[e].pc \in DOMAIN seen[e] /\ Len(seen[e][ir.entries[e].pc]) = 0
         /\ \A pc \in DOMAIN seen[e] :
              LET i == ir.code[pc]
                  to == To(i, pc)
              IN /\ Decodes(ir, pc) /\ Known(i) /\ IsSeq(seen[e][pc])
                 /\ Len(seen[e][pc]) \in Nat
                 /\ Pops(i) <= Len(seen[e][pc]) /\ Depth(i, Len(seen[e][pc])) <= MaxStack
                 /\ \A k \in 1..Len(to) : /\ to[k] \in DOMAIN seen[e]
                                          /\ Len(seen[e][to[k]]) = Depth(i, Len(seen[e][pc]))
<1>1. BodyOk(ir, seen[e], <<>>, e)
  <2>1. e <= check.e /\ check.work = <<>>
    BY DEF CheckInv
  <2>2. QED
    BY <2>1 DEF CheckInv
<1>2. \A q, n : Covered(seen[e], <<>>, q, n) => q \in DOMAIN seen[e] /\ Len(seen[e][q]) = n
  <2>1. ASSUME NEW x, x = <<>> PROVE 1..Len(x) = {}
    BY <2>1, SeqEmpty
  <2>2. QED
    BY <2>1 DEF Covered
<1>3. ir.entries[e].pc \in DOMAIN seen[e] /\ Len(seen[e][ir.entries[e].pc]) = 0
  BY <1>1, <1>2 DEF BodyOk
<1>4. ASSUME NEW pc \in DOMAIN seen[e]
      PROVE  LET i == ir.code[pc]
                 to == To(i, pc)
             IN /\ Decodes(ir, pc) /\ Known(i) /\ IsSeq(seen[e][pc])
                /\ Len(seen[e][pc]) \in Nat
                /\ Pops(i) <= Len(seen[e][pc]) /\ Depth(i, Len(seen[e][pc])) <= MaxStack
                /\ \A k \in 1..Len(to) : /\ to[k] \in DOMAIN seen[e]
                                         /\ Len(seen[e][to[k]]) = Depth(i, Len(seen[e][pc]))
  <2>1. AddressOk(ir, seen[e], pc) /\ Handed(ir, seen[e], <<>>, pc)
    BY <1>1 DEF BodyOk
  <2>2. /\ Decodes(ir, pc) /\ Known(ir.code[pc]) /\ IsSeq(seen[e][pc])
        /\ Pops(ir.code[pc]) <= Len(seen[e][pc])
        /\ Depth(ir.code[pc], Len(seen[e][pc])) <= MaxStack
    BY <2>1 DEF AddressOk
  <2>3. Len(seen[e][pc]) \in Nat
    BY <2>2, SeqLen
  <2>4. \A k \in 1..Len(To(ir.code[pc], pc)) :
           Covered(seen[e], <<>>, To(ir.code[pc], pc)[k], Depth(ir.code[pc], Len(seen[e][pc])))
    BY <2>1 DEF Handed
  <2>5. QED
    BY <1>2, <2>2, <2>3, <2>4
<1>5. QED
  BY <1>3, <1>4

(* The entry a call finds is one of the module's.                          *)
LEMMA UserEntryExists ==
  ASSUME IsSeq(ir.entries), NEW id, UserHits(ir, id) # {}
  PROVE  UserEntry(ir, id) \in 1..Len(ir.entries)
<1> DEFINE S == UserHits(ir, id)
           b == Len(ir.entries)
           T == {b - x : x \in S}
           R == OpToRel(<, Nat)
<1>1. b \in Nat /\ S \subseteq 1..b /\ S # {}
  BY SeqLen DEF UserHits
<1> HIDE DEF S, b
<1>2. T \subseteq Nat /\ T # {}
  <2>1. \A x \in S : b - x \in Nat
    BY <1>1
  <2>2. QED
    BY <1>1, <2>1
<1>3. \A y, x \in Nat : y < x => <<y, x>> \in R
  BY DEF OpToRel
<1> HIDE DEF T, R
<1>4. PICK x \in T : \A y \in T : ~(<<y, x>> \in R)
  BY <1>2, NatLessThanWellFounded, WFMin DEF R
<1>5. \A y \in T : ~(y < x)
  BY <1>2, <1>3, <1>4
<1>6. PICK n \in S : x = b - n
  BY DEF T
<1>7. \A k \in S : k <= n
  <2> SUFFICES ASSUME NEW k \in S PROVE k <= n
    OBVIOUS
  <2>1. b - k \in T
    BY DEF T
  <2>2. QED
    BY <1>1, <1>5, <1>6, <2>1
<1>8. UserEntry(ir, id) \in S
  BY <1>6, <1>7 DEF UserEntry, S
<1>9. QED
  BY <1>1, <1>8 DEF b

(* The body that runs.                                                     *)
LEMMA TopBody ==
  ASSUME NEW v, NEW mk, Shape(v), Runs(v, mk)
  PROVE  LET n == Len(mk)
             e == mk[n].e
         IN /\ IsSeq(mk) /\ n = Len(v.frames) + 1 /\ Len(v.frames) \in Nat
            /\ e \in 1..Len(ir.entries) /\ mk[n].h \in Nat /\ v.pc \in DOMAIN seen[e]
            /\ mk[n].h + Len(seen[e][v.pc]) <= Len(v.stack)
            /\ BareCalls => Len(v.stack) = Len(seen[e][v.pc])
<1>1. Len(v.frames) \in Nat
  BY SeqLen DEF Shape
<1>2. Len(mk) = Len(v.frames) + 1
  BY DEF Runs
<1>3. Len(mk) \in 1..Len(mk)
  BY <1>1, <1>2
<1>4. QED
  BY <1>1, <1>2, <1>3 DEF Runs

(* A step within a body.                                                   *)
LEMMA MovedRuns ==
  ASSUME CheckInv, stage = "loaded", NEW v, NEW mk, Shape(v), Runs(v, mk), v.status = "run",
         NEW r, Moved(v, ir.code[v.pc], v.pc + Words(ir.code[v.pc]), r)
  PROVE  Runs(r, mk)
<1> DEFINE n == Len(mk)
           e == mk[n].e
           i == ir.code[v.pc]
<1>1. /\ IsSeq(mk) /\ n = Len(v.frames) + 1 /\ Len(v.frames) \in Nat
      /\ e \in 1..Len(ir.entries) /\ mk[n].h \in Nat /\ v.pc \in DOMAIN seen[e]
      /\ mk[n].h + Len(seen[e][v.pc]) <= Len(v.stack)
      /\ BareCalls => Len(v.stack) = Len(seen[e][v.pc])
  BY TopBody
<1>2. PICK k \in 1..Len(To(i, v.pc)) : r.pc = To(i, v.pc)[k]
  BY DEF Moved, To
<1>3. /\ Known(i) /\ Len(seen[e][v.pc]) \in Nat
      /\ r.pc \in DOMAIN seen[e] /\ Len(seen[e][r.pc]) = Depth(i, Len(seen[e][v.pc]))
  BY <1>1, <1>2, Verified
<1>4. Len(r.stack) = Depth(i, Len(v.stack)) /\ r.frames = v.frames
  BY DEF Moved
<1>5. Len(v.stack) \in Nat /\ Pops(i) \in Nat /\ Grows(i) \in Nat
  BY <1>3, SeqLen, Counts DEF Shape
<1>6. mk[n].h + Len(seen[e][r.pc]) <= Len(r.stack)
  <2> DEFINE h == mk[n].h
             a == Len(seen[e][v.pc])
             z == Len(v.stack)
  <2>1. h \in Nat /\ a \in Nat /\ z \in Nat /\ h + a <= z
    BY <1>1, <1>3, <1>5
  <2>2. Len(seen[e][r.pc]) = Depth(i, a) /\ Len(r.stack) = Depth(i, z)
    BY <1>3, <1>4
  <2> HIDE DEF h, a, z
  <2>3. h + Depth(i, a) <= Depth(i, z)
    BY <1>5, <2>1 DEF Depth
  <2>4. QED
    BY <2>2, <2>3 DEF h
<1>7. BareCalls => Len(r.stack) = Len(seen[e][r.pc])
  BY <1>1, <1>3, <1>4
<1>8. QED
  BY <1>3, <1>4, <1>6, <1>7 DEF Runs

(* A call of a user block.                                                 *)
LEMMA EnteredRuns ==
  ASSUME CheckInv, stage = "loaded", NEW v, NEW mk, Shape(v), Runs(v, mk), v.status = "run",
         NEW r, Entered(v, ir, ir.code[v.pc], v.pc + Words(ir.code[v.pc]), r)
  PROVE  /\ Len(r.frames) = Len(v.frames) + 1
         /\ Runs(r, Append(mk, [e |-> UserEntry(ir, ir.code[v.pc].id), h |-> Len(v.stack)]))
<1> DEFINE n == Len(mk)
           e == mk[n].e
           i == ir.code[v.pc]
           d == UserEntry(ir, i.id)
           top == [e |-> d, h |-> Len(v.stack)]
           new == Append(mk, top)
<1>1. /\ IsSeq(mk) /\ n = Len(v.frames) + 1 /\ Len(v.frames) \in Nat
      /\ e \in 1..Len(ir.entries) /\ mk[n].h \in Nat /\ v.pc \in DOMAIN seen[e]
      /\ mk[n].h + Len(seen[e][v.pc]) <= Len(v.stack)
      /\ BareCalls => Len(v.stack) = Len(seen[e][v.pc])
  BY TopBody
<1>2. IsUserCall(i) /\ UserHits(ir, i.id) # {} /\ r.stack = v.stack /\ r.pc = ir.entries[d].pc
  BY DEF Entered
<1>3. Pops(i) = 0 /\ Grows(i) = 0 /\ To(i, v.pc) = <<v.pc + Words(i)>>
  BY <1>2, WideOps DEF IsUserCall, Pops, Grows, To, Successors, Binops
<1>4. Len(To(i, v.pc)) = 1 /\ To(i, v.pc)[1] = v.pc + Words(i)
  BY <1>3
<1>5. /\ Len(seen[e][v.pc]) \in Nat /\ v.pc + Words(i) \in DOMAIN seen[e]
      /\ Len(seen[e][v.pc + Words(i)]) = Depth(i, Len(seen[e][v.pc]))
  <2>1. /\ Len(seen[e][v.pc]) \in Nat
        /\ \A k \in 1..Len(To(i, v.pc)) :
             /\ To(i, v.pc)[k] \in DOMAIN seen[e]
             /\ Len(seen[e][To(i, v.pc)[k]]) = Depth(i, Len(seen[e][v.pc]))
    BY <1>1, Verified
  <2>2. 1 \in 1..Len(To(i, v.pc))
    BY <1>4
  <2>3. QED
    BY <1>4, <2>1, <2>2
<1>6. Len(seen[e][v.pc + Words(i)]) = Len(seen[e][v.pc])
  BY <1>3, <1>5 DEF Depth
<1>7. d \in 1..Len(ir.entries)
  BY <1>2, UserEntryExists DEF CheckInv
<1>8. r.pc \in DOMAIN seen[d] /\ Len(seen[d][r.pc]) = 0
  BY <1>2, <1>7, Verified
<1>9. BareCalls => Len(seen[e][v.pc]) = 0
  <2>1. BareCalls => seen[e][v.pc] = <<>>
    BY <1>1, <1>2 DEF BareCalls, CheckInv
  <2>2. QED
    BY <2>1, SeqEmpty
<1>10. PICK b : r.frames = Append(v.frames, [ret |-> v.pc + Words(i), base |-> b])
  BY DEF Entered
<1>11. /\ Len(r.frames) = Len(v.frames) + 1
       /\ \A k \in 1..Len(v.frames) : r.frames[k] = v.frames[k]
       /\ r.frames[Len(v.frames) + 1].ret = v.pc + Words(i)
  <2> DEFINE x == [ret |-> v.pc + Words(i), base |-> b]
             fr == v.frames
  <2>1. x.ret = v.pc + Words(i) /\ IsSeq(fr)
    BY DEF Shape
  <2>2. r.frames = Append(fr, x)
    BY <1>10
  <2> HIDE DEF x, fr
  <2>3. /\ Len(r.frames) = Len(fr) + 1
        /\ \A k \in 1..Len(fr) : r.frames[k] = fr[k]
        /\ r.frames[Len(fr) + 1] = x
    BY <2>1, <2>2, AppendSeq
  <2>4. QED
    BY <2>1, <2>3 DEF fr
<1>12. top.e = d /\ top.h = Len(v.stack)
  OBVIOUS
<1> HIDE DEF top
<1>13. /\ IsSeq(new) /\ Len(new) = n + 1
       /\ \A k \in 1..n : new[k] = mk[k]
       /\ new[n + 1] = top
  BY <1>1, AppendSeq
<1>14. Len(v.stack) \in Nat
  BY SeqLen DEF Shape
<1> HIDE DEF new, d
<1>15. \A k \in 1..Len(new) : new[k].e \in 1..Len(ir.entries) /\ new[k].h \in Nat
  <2> SUFFICES ASSUME NEW k \in 1..Len(new)
               PROVE  new[k].e \in 1..Len(ir.entries) /\ new[k].h \in Nat
    OBVIOUS
  <2>1. CASE k \in 1..n
    BY <1>13, <2>1 DEF Runs
  <2>2. CASE k = n + 1
    BY <1>7, <1>12, <1>13, <1>14, <2>2
  <2>3. QED
    BY <1>1, <1>13, <2>1, <2>2
<1>16. ASSUME NEW k \in 1..Len(r.frames)
       PROVE  /\ r.frames[k].ret \in DOMAIN seen[new[k].e]
              /\ new[k].h + Len(seen[new[k].e][r.frames[k].ret]) <= new[k + 1].h
              /\ BareCalls => Len(seen[new[k].e][r.frames[k].ret]) = 0
  <2>1. CASE k \in 1..Len(v.frames)
    <3>1. new[k] = mk[k] /\ new[k + 1] = mk[k + 1] /\ r.frames[k] = v.frames[k]
      BY <1>1, <1>11, <1>13, <2>1
    <3>2. QED
      BY <2>1, <3>1 DEF Runs
  <2>2. CASE k = n
    <3>1. new[k] = mk[n] /\ new[k + 1] = top /\ r.frames[k].ret = v.pc + Words(i)
      BY <1>1, <1>11, <1>13, <2>2
    <3>2. QED
      BY <1>1, <1>5, <1>6, <1>9, <1>12, <1>14, <3>1
  <2>3. QED
    BY <1>1, <1>11, <2>1, <2>2
<1>17. Runs(r, new)
  <2>1. new[Len(new)] = top /\ Len(new) = Len(r.frames) + 1
    BY <1>1, <1>11, <1>13
  <2>2. r.pc \in DOMAIN seen[top.e] /\ top.h + Len(seen[top.e][r.pc]) <= Len(r.stack)
    <3>1. r.pc \in DOMAIN seen[top.e] /\ Len(seen[top.e][r.pc]) = 0
      BY <1>8, <1>12
    <3>2. top.h = Len(r.stack) /\ top.h \in Nat
      BY <1>2, <1>12, <1>14
    <3>3. QED
      BY <3>1, <3>2
  <2>3. BareCalls => Len(r.stack) = Len(seen[top.e][r.pc])
    BY <1>1, <1>2, <1>8, <1>9, <1>12
  <2>4. QED
    BY <1>13, <1>15, <1>16, <2>1, <2>2, <2>3 DEF Runs
<1>18. QED
  BY <1>11, <1>17 DEF new, top, d
(* A return to the caller.                                                 *)
LEMMA LeftRuns ==
  ASSUME CheckInv, stage = "loaded", NEW v, NEW mk, Shape(v), Runs(v, mk), v.status = "run",
         NEW r, Left(v, ir.code[v.pc], r)
  PROVE  Len(r.frames) = Len(v.frames) - 1 /\ Runs(r, Front(mk))
<1> DEFINE n == Len(mk)
           e == mk[n].e
           i == ir.code[v.pc]
           z == Len(v.frames)
           new == Front(mk)
           c == mk[z].e
<1>1. /\ IsSeq(mk) /\ n = z + 1 /\ z \in Nat
      /\ e \in 1..Len(ir.entries) /\ mk[n].h \in Nat /\ v.pc \in DOMAIN seen[e]
      /\ mk[n].h + Len(seen[e][v.pc]) <= Len(v.stack)
      /\ BareCalls => Len(v.stack) = Len(seen[e][v.pc])
  BY TopBody
<1>2. /\ i.op = "Ret" /\ v.frames # <<>> /\ r.stack = v.stack
      /\ r.frames = Front(v.frames) /\ r.pc = Last(v.frames).ret
  BY DEF Left
<1>3. /\ z \in Nat \ {0} /\ Len(r.frames) = z - 1
      /\ \A k \in 1..(z - 1) : r.frames[k] = v.frames[k]
      /\ r.pc = v.frames[z].ret
  <2>1. /\ Len(v.frames) \in Nat \ {0} /\ Len(Front(v.frames)) = Len(v.frames) - 1
        /\ \A k \in 1..(Len(v.frames) - 1) : Front(v.frames)[k] = v.frames[k]
        /\ Last(v.frames) = v.frames[Len(v.frames)]
    BY <1>2, FrontSeq DEF Shape
  <2>2. QED
    BY <1>2, <2>1
<1>4. mk # <<>>
  BY <1>1, <1>3, SeqEmpty
<1>5. /\ IsSeq(new) /\ Len(new) = z /\ \A k \in 1..z : new[k] = mk[k]
  <2>1. /\ IsSeq(Front(mk)) /\ Len(Front(mk)) = Len(mk) - 1
        /\ \A k \in 1..(Len(mk) - 1) : Front(mk)[k] = mk[k]
    BY <1>1, <1>4, FrontSeq
  <2>2. Len(mk) - 1 = z
    BY <1>1
  <2>3. QED
    BY <2>1, <2>2
<1>6. /\ z \in 1..z /\ z \in 1..n /\ c \in 1..Len(ir.entries) /\ mk[z].h \in Nat
      /\ r.pc \in DOMAIN seen[c] /\ mk[z].h + Len(seen[c][r.pc]) <= mk[n].h
      /\ BareCalls => Len(seen[c][r.pc]) = 0
  <2>1. z \in 1..z /\ z \in 1..n
    BY <1>1, <1>3
  <2>2. QED
    BY <1>1, <1>3, <2>1 DEF Runs
<1>7. Len(seen[e][v.pc]) \in Nat /\ Len(seen[c][r.pc]) \in Nat /\ Len(v.stack) \in Nat
  <2>1. Len(v.stack) \in Nat
    BY SeqLen DEF Shape
  <2>2. QED
    BY <1>1, <1>6, <2>1, Verified
<1>8. BareCalls => Len(seen[e][v.pc]) = 0
  <2>1. BareCalls => seen[e][v.pc] = <<>>
    BY <1>1, <1>2 DEF BareCalls, CheckInv
  <2>2. QED
    BY <2>1, SeqEmpty
<1> HIDE DEF new, c, e, i
<1>9. mk[z].h + Len(seen[c][r.pc]) <= Len(r.stack)
  <2> DEFINE p == mk[z].h + Len(seen[c][r.pc])
             h == mk[n].h
             a == Len(seen[e][v.pc])
  <2>1. p \in Nat /\ h \in Nat /\ a \in Nat /\ p <= h /\ h + a <= Len(v.stack)
    BY <1>1, <1>6, <1>7
  <2> HIDE DEF p, h, a
  <2>2. p <= Len(v.stack)
    BY <1>7, <2>1
  <2>3. QED
    BY <1>2, <2>2 DEF p
<1>10. \A k \in 1..z : new[k].e \in 1..Len(ir.entries) /\ new[k].h \in Nat
  <2> SUFFICES ASSUME NEW k \in 1..z PROVE new[k].e \in 1..Len(ir.entries) /\ new[k].h \in Nat
    OBVIOUS
  <2>1. k \in 1..n /\ new[k] = mk[k]
    BY <1>1, <1>5
  <2>2. QED
    BY <2>1 DEF Runs
<1>11. ASSUME NEW k \in 1..Len(r.frames)
       PROVE  /\ r.frames[k].ret \in DOMAIN seen[new[k].e]
              /\ new[k].h + Len(seen[new[k].e][r.frames[k].ret]) <= new[k + 1].h
              /\ BareCalls => Len(seen[new[k].e][r.frames[k].ret]) = 0
  <2>1. k \in 1..z /\ k + 1 \in 1..z
    BY <1>3
  <2>2. new[k] = mk[k] /\ new[k + 1] = mk[k + 1] /\ r.frames[k] = v.frames[k]
    BY <1>3, <1>5, <2>1
  <2>3. QED
    BY <2>1, <2>2 DEF Runs
<1>12. Len(new) = Len(r.frames) + 1 /\ new[Len(new)] = mk[z]
  BY <1>3, <1>5, <1>6
<1>13. BareCalls => Len(r.stack) = Len(seen[c][r.pc])
  BY <1>1, <1>2, <1>6, <1>8
<1>14. Runs(r, new)
  BY <1>5, <1>6, <1>9, <1>10, <1>11, <1>12, <1>13 DEF Runs, c
<1>15. QED
  BY <1>3, <1>14 DEF new

(* A step of the machine.                                                  *)
LEMMA StepSafe ==
  ASSUME CheckInv, stage = "loaded", Safe(vm, marks), vm.status = "run", NEW now,
         NEW r, r = VmStep(vm, ir, now), NEW mk,
         mk = IF Len(r.frames) > Len(vm.frames)
              THEN Append(marks, [e |-> UserEntry(ir, ir.code[vm.pc].id), h |-> Len(vm.stack)])
              ELSE IF Len(r.frames) < Len(vm.frames) THEN Front(marks) ELSE marks
  PROVE  Safe(r, mk)
<1> DEFINE v == [vm EXCEPT !.steps = @ + 1]
           i == ir.code[vm.pc]
           e == marks[Len(marks)].e
           next == vm.pc + Words(i)
<1>1. Shape(vm) /\ Runs(vm, marks)
  BY DEF Safe
<1>2. /\ v.stack = vm.stack /\ v.frames = vm.frames /\ v.pc = vm.pc /\ v.status = "run" /\ Shape(v)
  BY <1>1 DEF Shape
<1>3. r = IF v.steps > Budget THEN Fault(v, "Budget")
          ELSE IF ~Decodes(ir, v.pc) THEN Fault(v, "Decode")
          ELSE IF Len(v.stack) < Pops(ir.code[v.pc]) THEN Fault(v, "StackUnderflow")
          ELSE Execute(Goto(v, v.pc + Words(ir.code[v.pc])), ir, ir.code[v.pc], now)
  BY DEF VmStep
<1> HIDE DEF v
<1>4. /\ e \in 1..Len(ir.entries) /\ vm.pc \in DOMAIN seen[e]
      /\ marks[Len(marks)].h \in Nat /\ marks[Len(marks)].h + Len(seen[e][vm.pc]) <= Len(vm.stack)
      /\ BareCalls => Len(vm.stack) = Len(seen[e][vm.pc])
  BY <1>1, TopBody
<1>5. /\ Decodes(ir, vm.pc) /\ Known(i) /\ Len(seen[e][vm.pc]) \in Nat
      /\ Pops(i) <= Len(seen[e][vm.pc]) /\ Depth(i, Len(seen[e][vm.pc])) <= MaxStack
  BY <1>4, Verified
<1>6. Len(vm.stack) \in Nat /\ Pops(i) \in Nat /\ Grows(i) \in Nat /\ MaxStack \in Nat
  BY <1>1, <1>5, SeqLen, Counts, BytecodeAssumption DEF Shape
<1>7. Pops(i) <= Len(vm.stack)
  <2> DEFINE h == marks[Len(marks)].h
             a == Len(seen[e][vm.pc])
             z == Len(vm.stack)
             p == Pops(i)
  <2>1. h \in Nat /\ a \in Nat /\ z \in Nat /\ p \in Nat /\ h + a <= z /\ p <= a
    BY <1>4, <1>5, <1>6
  <2> HIDE DEF h, a, z, p
  <2>2. p <= z
    BY <2>1
  <2>3. QED
    BY <2>2 DEF p, z
<1>8. BareCalls => ~(Depth(i, Len(vm.stack)) > MaxStack)
  <2>1. Depth(i, Len(vm.stack)) \in Int
    BY <1>6 DEF Depth
  <2>2. BareCalls => Depth(i, Len(vm.stack)) <= MaxStack
    BY <1>4, <1>5
  <2>3. QED
    BY <1>6, <2>1, <2>2
<1>9. CASE v.steps > Budget
  <2>1. r = Fault(v, "Budget")
    BY <1>3, <1>9
  <2>2. Shape(r) /\ r.status = "Budget"
    BY <1>2, <2>1 DEF Fault, Shape
  <2>3. QED
    BY <2>2 DEF Safe, Wrong
<1>10. CASE ~(v.steps > Budget)
  <2> DEFINE g == Goto(v, next)
  <2>1. r = Execute(g, ir, i, now)
    <3>1. Decodes(ir, v.pc) /\ ir.code[v.pc] = i /\ ~(Len(v.stack) < Pops(i))
      BY <1>2, <1>5, <1>6, <1>7
    <3>2. QED
      BY <1>2, <1>3, <1>10, <3>1
  <2>2. Outcomes(v, ir, i, next, r)
    <3>1. /\ g.stack = v.stack /\ g.frames = v.frames /\ g.pc = next /\ g.status = "run"
          /\ Shape(g)
      BY <1>2 DEF Goto, Shape
    <3> HIDE DEF g
    <3>2. Outcomes(g, ir, i, g.pc, r)
      BY <1>2, <1>5, <1>7, <2>1, <3>1, ExecuteOutcome
    <3> HIDE DEF next, i
    <3>3. QED
      BY <1>2, <3>1, <3>2 DEF Outcomes, Ended, Moved, Entered, Left
  <2>3. Runs(v, marks)
    BY <1>1, <1>2 DEF Runs
  <2>4. Len(v.frames) \in Nat
    BY <1>2, SeqLen DEF Shape
  <2>5. CASE Ended(v, i, r)
    BY <1>2, <1>8, <2>5 DEF Ended, Safe, Wrong
  <2>6. CASE Moved(v, i, next, r)
    <3>1. Runs(r, marks)
      BY <1>2, <2>3, <2>6, MovedRuns
    <3>2. mk = marks
      BY <1>2, <2>4, <2>6 DEF Moved
    <3>3. QED
      BY <1>2, <2>6, <3>1, <3>2 DEF Moved, Safe, Wrong
  <2>7. CASE Entered(v, ir, i, next, r)
    <3> DEFINE new == Append(marks, [e |-> UserEntry(ir, ir.code[v.pc].id), h |-> Len(v.stack)])
    <3>1. Len(r.frames) = Len(v.frames) + 1 /\ Runs(r, new)
      BY <1>2, <2>3, <2>7, EnteredRuns
    <3>2. Len(r.frames) > Len(vm.frames)
      BY <1>2, <2>4, <3>1
    <3>3. mk = new
      BY <1>2, <3>2
    <3> HIDE DEF new
    <3>4. QED
      BY <1>2, <2>7, <3>1, <3>3 DEF Entered, Safe, Wrong
  <2>8. CASE Left(v, i, r)
    <3>1. Len(r.frames) = Len(v.frames) - 1 /\ Runs(r, Front(marks))
      BY <1>2, <2>3, <2>8, LeftRuns
    <3>2. ~(Len(r.frames) > Len(vm.frames)) /\ Len(r.frames) < Len(vm.frames)
      BY <1>2, <2>4, <3>1
    <3>3. mk = Front(marks)
      BY <3>2
    <3>4. QED
      BY <1>2, <2>8, <3>1, <3>3 DEF Left, Safe, Wrong
  <2>9. QED
    BY <2>2, <2>5, <2>6, <2>7, <2>8 DEF Outcomes
<1>11. QED
  BY <1>9, <1>10

(* A run begins.                                                           *)
LEMMA BeginSafe ==
  ASSUME CheckInv, stage = "loaded", Safe(vm, marks), NEW n \in 1..Len(ir.entries),
         NEW in, NEW good, NEW r,
         r = StartRun([vm EXCEPT !.inputs = in, !.good = good], ir.entries[n].pc)
  PROVE  Safe(r, <<[e |-> n, h |-> 0]>>)
<1> DEFINE v == [vm EXCEPT !.inputs = in, !.good = good]
           top == [e |-> n, h |-> 0]
           mk == <<top>>
<1>1. {"stack", "frames", "pc", "status"} \subseteq DOMAIN v
  BY DEF Safe, Shape
<1> HIDE DEF v
<1>2. /\ r.stack = <<>> /\ r.frames = <<>> /\ r.pc = ir.entries[n].pc /\ r.status = "run"
      /\ {"stack", "frames", "pc", "status"} \subseteq DOMAIN r
  BY <1>1 DEF StartRun, v
<1>3. /\ Shape(r) /\ Len(r.stack) = 0 /\ Len(r.frames) = 0
  BY <1>2, SeqEmpty DEF Shape
<1>4. top.e = n /\ top.h = 0
  OBVIOUS
<1> HIDE DEF top
<1>5. IsSeq(mk) /\ Len(mk) = 1 /\ mk[1] = top
  <2>1. mk \in Seq({top}) /\ Len(mk) = 1 /\ mk[1] = top
    OBVIOUS
  <2>2. QED
    BY <2>1, SeqIsSeq
<1>6. r.pc \in DOMAIN seen[n] /\ Len(seen[n][r.pc]) = 0
  BY <1>2, Verified
<1> HIDE DEF mk
<1>7. Runs(r, mk)
  <2>1. /\ Len(mk) = Len(r.frames) + 1 /\ mk[Len(mk)] = top
        /\ \A k \in 1..Len(mk) : mk[k] = top
    BY <1>3, <1>5
  <2>2. top.h + Len(seen[top.e][r.pc]) <= Len(r.stack) /\ Len(r.stack) = Len(seen[top.e][r.pc])
    BY <1>3, <1>4, <1>6
  <2>3. \A k \in 1..Len(r.frames) : FALSE
    BY <1>3
  <2>4. top.e \in 1..Len(ir.entries) /\ top.h \in Nat /\ r.pc \in DOMAIN seen[top.e]
    BY <1>4, <1>6
  <2>5. QED
    BY <1>5, <2>1, <2>2, <2>3, <2>4 DEF Runs
<1>8. Safe(r, mk)
  BY <1>2, <1>3, <1>7 DEF Safe, Wrong
<1>9. QED
  BY <1>8 DEF mk, top
(***************************************************************************)
(* The theorem.                                                            *)
(***************************************************************************)
Inv == CheckInv /\ MachineInv

(* Every module starts right.                                              *)
LEMMA InitInv ==
  ASSUME NEW m, IsSeq(m.code), IsSeq(m.entries)
  PROVE  VmInit(m) => Inv
<1> SUFFICES ASSUME VmInit(m) PROVE Inv
  OBVIOUS
<1>1. /\ stage = "verify" /\ ir = m /\ check = Unchecked /\ seen = Unseen(m)
  BY DEF VmInit
<1>2. Len(ir.entries) \in Nat /\ IsSeq(ir.code) /\ IsSeq(ir.entries)
  BY <1>1, SeqLen
<1>3. check.e = 0 /\ check.work = <<>> /\ {"e", "work", "ended"} \subseteq DOMAIN check
  BY <1>1 DEF Unchecked
<1>4. WorkOk(check.work)
  <2>1. IsSeq(check.work) /\ Len(check.work) = 0
    BY <1>3, SeqEmpty
  <2>2. QED
    BY <2>1 DEF WorkOk
<1>5. DOMAIN seen = 1..Len(ir.entries) /\ \A e \in 1..Len(ir.entries) : seen[e] = <<>> /\ ~(e <= check.e)
  BY <1>1, <1>2, <1>3 DEF Unseen
<1>6. CheckInv
  BY <1>1, <1>2, <1>3, <1>4, <1>5 DEF CheckInv
<1>7. QED
  BY <1>1, <1>6 DEF Inv, MachineInv

(* A step of the machine leaves the verifier's results alone.              *)
LEMMA MachineKeeps ==
  ASSUME CheckInv, UNCHANGED <<ir, check, seen>>, stage \in {"built", "loaded"},
         stage' \in {"built", "loaded"}
  PROVE  CheckInv'
BY DEF CheckInv

(* With the module and the addresses the same, so is what is safe.         *)
LEMMA SafeNext ==
  ASSUME UNCHANGED <<ir, seen>>, Safe(vm', marks')
  PROVE  Safe(vm, marks)'
BY DEF Safe, Runs, BareCalls

(* Every step keeps the invariant.                                         *)
LEMMA NextInv == Inv /\ [VmNext]_vmVars => Inv'
<1> SUFFICES ASSUME Inv, [VmNext]_vmVars PROVE Inv'
  OBVIOUS
<1>1. CheckInv /\ MachineInv
  BY DEF Inv
<1>2. CASE NextEntry
  <2>1. CheckInv'
    BY <1>1, <1>2, NextEntryKeeps
  <2>2. stage' # "loaded"
    BY <1>2 DEF NextEntry
  <2>3. QED
    BY <2>1, <2>2 DEF Inv, MachineInv
<1>3. CASE Visit
  <2>1. CheckInv'
    BY <1>1, <1>3, VisitKeeps
  <2>2. stage' # "loaded"
    BY <1>3 DEF Visit
  <2>3. QED
    BY <2>1, <2>2 DEF Inv, MachineInv
<1>4. ASSUME NEW k \in Nat, LoadVerified(k) PROVE Inv'
  <2>1. stage = "built" /\ stage' = "loaded" /\ UNCHANGED <<ir, check, seen>> /\ vm' = LoadVm(ir, k)
    BY <1>4 DEF LoadVerified
  <2>2. CheckInv'
    BY <1>1, <2>1, MachineKeeps
  <2> DEFINE r == LoadVm(ir, k)
  <2>3. r.stack = <<>> /\ r.frames = <<>> /\ r.status = "ready"
        /\ {"stack", "frames", "pc", "status"} \subseteq DOMAIN r
    BY DEF LoadVm
  <2> HIDE DEF r
  <2>4. Shape(r)
    BY <2>3, SeqEmpty DEF Shape
  <2>5. Safe(r, marks')
    BY <2>3, <2>4 DEF Safe, Wrong
  <2>6. Safe(vm', marks')
    BY <2>1, <2>5 DEF r
  <2>7. QED
    BY <2>1, <2>2, <2>6, SafeNext DEF Inv, MachineInv
<1>5. ASSUME NEW k \in Nat, ResetVm(k) PROVE Inv'
  <2>1. /\ stage = "loaded" /\ stage' = "loaded" /\ UNCHANGED <<ir, check, seen>>
        /\ vm' = [ColdReset(vm, k) EXCEPT !.status = "ready"]
    BY <1>5 DEF ResetVm
  <2>2. CheckInv'
    BY <1>1, <2>1, MachineKeeps
  <2>3. Shape(vm)
    BY <1>1, <2>1 DEF MachineInv, Safe
  <2> DEFINE c == ColdReset(vm, k)
             r == [c EXCEPT !.status = "ready"]
  <2>4. c.stack = <<>> /\ c.frames = <<>> /\ {"stack", "frames", "pc", "status"} \subseteq DOMAIN c
    BY <2>3 DEF ColdReset, Shape
  <2> HIDE DEF c
  <2>5. r.stack = <<>> /\ r.frames = <<>> /\ r.status = "ready"
        /\ {"stack", "frames", "pc", "status"} \subseteq DOMAIN r
    BY <2>4
  <2> HIDE DEF r
  <2>6. Shape(r)
    BY <2>5, SeqEmpty DEF Shape
  <2>7. Safe(r, marks')
    BY <2>5, <2>6 DEF Safe, Wrong
  <2>8. Safe(vm', marks')
    BY <2>1, <2>7 DEF r, c
  <2>9. QED
    BY <2>1, <2>2, <2>8, SafeNext DEF Inv, MachineInv
<1>6. ASSUME NEW n \in 1..Len(ir.entries), NEW in, NEW good, BeginRun(n, in, good) PROVE Inv'
  <2>1. /\ stage = "loaded" /\ stage' = "loaded" /\ UNCHANGED <<ir, check, seen>>
        /\ vm' = StartRun([vm EXCEPT !.inputs = in, !.good = good], ir.entries[n].pc)
        /\ marks' = <<[e |-> n, h |-> 0]>>
    BY <1>6 DEF BeginRun
  <2>2. CheckInv'
    BY <1>1, <2>1, MachineKeeps
  <2>3. Safe(vm', marks')
    BY <1>1, <2>1, BeginSafe DEF MachineInv
  <2>4. QED
    BY <2>1, <2>2, <2>3, SafeNext DEF Inv, MachineInv
<1>7. ASSUME NEW now \in Nat, RunStep(now) PROVE Inv'
  <2>1. /\ stage = "loaded" /\ stage' = "loaded" /\ UNCHANGED <<ir, check, seen>>
        /\ vm.status = "run" /\ vm' = VmStep(vm, ir, now)
        /\ marks' = IF Len(vm'.frames) > Len(vm.frames)
                    THEN Append(marks, [e |-> UserEntry(ir, ir.code[vm.pc].id), h |-> Len(vm.stack)])
                    ELSE IF Len(vm'.frames) < Len(vm.frames) THEN Front(marks) ELSE marks
    BY <1>7 DEF RunStep
  <2>2. CheckInv'
    BY <1>1, <2>1, MachineKeeps
  <2>3. Safe(vm', marks')
    BY <1>1, <2>1, StepSafe DEF MachineInv
  <2>4. QED
    BY <2>1, <2>2, <2>3, SafeNext DEF Inv, MachineInv
<1>8. CASE UNCHANGED vmVars
  <2>1. CheckInv'
    BY <1>1, <1>8 DEF CheckInv, vmVars
  <2>2. MachineInv'
    BY <1>1, <1>8 DEF MachineInv, Safe, Runs, BareCalls, vmVars
  <2>3. QED
    BY <2>1, <2>2 DEF Inv
<1>9. QED
  BY <1>2, <1>3, <1>4, <1>5, <1>6, <1>7, <1>8 DEF VmNext

(* The invariant gives StackSafe.                                          *)
LEMMA InvSafe == Inv => StackSafe
<1> SUFFICES ASSUME Inv, stage = "loaded" PROVE StackSafe
  BY DEF StackSafe
<1>1. Safe(vm, marks)
  BY DEF Inv, MachineInv
<1>2. CASE vm.status # "run"
  BY <1>1, <1>2 DEF Safe, StackSafe, Wrong
<1>3. CASE vm.status = "run"
  <2>1. Shape(vm) /\ Runs(vm, marks)
    BY <1>1, <1>3 DEF Safe
  <2> DEFINE t == marks[Len(marks)]
  <2>2. /\ vm.pc \in DOMAIN seen[t.e] /\ t.h + Len(seen[t.e][vm.pc]) <= Len(vm.stack)
        /\ BareCalls => Len(vm.stack) = Len(seen[t.e][vm.pc])
    BY <2>1, TopBody
  <2>3. Last(marks) = t
    BY DEF Last
  <2> HIDE DEF t
  <2>4. QED
    BY <1>1, <2>2, <2>3 DEF Safe, StackSafe, Wrong
<1>4. QED
  BY <1>2, <1>3

(* A module the verifier accepted never underflows the stack, never leaves *)
(* its code and, where calls and returns leave no operands, never          *)
(* overflows: for every module that is code and entries in sequence, every *)
(* input image, every time and every interleaving of runs and cold resets  *)
(* (verify_entry against run_at).                                          *)
THEOREM VerifiedStackSafe ==
  ASSUME NEW m, IsSeq(m.code), IsSeq(m.entries)
  PROVE  VmSpec(m) => []StackSafe
<1>1. VmInit(m) => Inv
  BY InitInv
<1>2. QED
  BY <1>1, NextInv, InvSafe, PTL DEF VmSpec
=============================================================================

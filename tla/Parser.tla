------------------------------- MODULE Parser -------------------------------
(***************************************************************************)
(* The recursive descent parser of the ST subset (plc-compiler parse.rs).  *)
(* A token is <<kind, text>> with kind "kw", "sym", "id", "int", "real",   *)
(* "time", "addr" or "eof"; the lexer is abstracted to that sequence.  The *)
(* parser state is [ts, i, out, err]: a rule leaves what it returns on top *)
(* of the stack `out`, where the rule that called it takes it from.  The   *)
(* first error is kept, moves the parser to the end of its input and makes *)
(* every later step do nothing, as `?` does in the code.                   *)
(*                                                                         *)
(* Definitions named Mutant... are defective variants of the definition    *)
(* that follows them; no specification uses them.                          *)
(***************************************************************************)
EXTENDS Integers, Sequences, SequencesExt

At(p) == p.ts[p.i]
Bump(p) == IF p.i < Len(p.ts) THEN [p EXCEPT !.i = @ + 1] ELSE p
Fail(p, e) == IF p.err # "" THEN p ELSE [p EXCEPT !.err = e, !.i = Len(p.ts)]

Kw(p, word) == At(p) = <<"kw", word>>
Sym(p, s) == At(p) = <<"sym", s>>
Expect(p, tok) == IF At(p) = tok THEN Bump(p) ELSE Fail(p, "EParse")
ExpectKw(p, word) == Expect(p, <<"kw", word>>)
ExpectSym(p, s) == Expect(p, <<"sym", s>>)
SkipSemi(p) == IF Sym(p, ";") THEN Bump(p) ELSE p

(* The stack of results; Nth(p, 1) is the newest. *)
Nth(p, n) == p.out[Len(p.out) - n + 1]
Reduce(p, n, v) ==           \* the newest n results become v
    IF p.err # "" THEN p ELSE [p EXCEPT !.out = Append(SubSeq(@, 1, Len(@) - n), v)]
Push(p, v) == Reduce(p, 0, v)
Drop(p) == IF p.err # "" THEN p ELSE [p EXCEPT !.out = Front(@)]
Some(p) == Reduce(p, 1, <<Nth(p, 1)>>)
Into(p) == Reduce(p, 2, Append(Nth(p, 2), Nth(p, 1)))
AddTo(p, field) == Reduce(p, 2, [Nth(p, 2) EXCEPT ![field] = Append(@, Nth(p, 1))])
Rec(p, names) ==             \* one result per field name, in this order
    Reduce(p, Len(names), [f \in Range(names) |->
                             Nth(p, Len(names) + 1 - CHOOSE i \in 1..Len(names): names[i] = f)])
Node(p, kind, names) == Rec(Push(p, kind), Append(names, "k"))

ExpectKind(p, kind) ==       \* expect_ident, expect(IntLit)
    IF At(p)[1] = kind THEN Push(Bump(p), At(p)[2]) ELSE Fail(p, "EParse")

Excluded == {"VAR_IN_OUT", "VAR_EXTERNAL", "REF_TO", "ADR", "STRING", "WSTRING", "REPEAT",
             "UNTIL", "END_REPEAT", "EXIT", "CONTINUE", "METHOD", "CLASS", "INTERFACE",
             "CONFIGURATION", "RESOURCE", "LINT", "LREAL"}

CheckExcluded(p) ==
    IF At(p)[1] = "kw" /\ At(p)[2] \in Excluded THEN Fail(p, "EExcluded") ELSE p

(***************************************************************************)
(* Expressions: six left associative levels, weakest first.                *)
(***************************************************************************)
Levels == << [OR |-> "Or"], [AND |-> "And"], [XOR |-> "Xor"],
             ("=" :> "Eq") @@ ("<>" :> "Ne") @@ ("<" :> "Lt") @@ ("<=" :> "Le")
               @@ (">" :> "Gt") @@ (">=" :> "Ge"),
             ("+" :> "Add") @@ ("-" :> "Sub"),
             ("*" :> "Mul") @@ ("/" :> "Div") @@ ("MOD" :> "Mod") >>

RECURSIVE ParseLevel(_, _), ParseOperands(_, _), ParseUnary(_), ParseSuffixes(_), ParseArgs(_)

IsOperator(p, n) == At(p)[1] \in {"kw", "sym"} /\ At(p)[2] \in DOMAIN Levels[n]

ParseExpr(p) == ParseLevel(p, 1)

(* parse_or, parse_and, parse_xor, parse_compare, parse_add, parse_mul. *)
ParseLevel(p, n) ==
    IF n > Len(Levels) THEN ParseUnary(p) ELSE ParseOperands(ParseLevel(p, n + 1), n)

MutantParseOperands(left, n) ==
    IF ~IsOperator(left, n) THEN left
    ELSE Node(ParseLevel(Push(Bump(left), Levels[n][At(left)[2]]), n), "bin", <<"l", "op", "r">>)

ParseOperands(left, n) ==
    IF ~IsOperator(left, n) THEN left
    ELSE ParseOperands(Node(ParseLevel(Push(Bump(left), Levels[n][At(left)[2]]), n + 1),
                            "bin", <<"l", "op", "r">>), n)

Name(text) == [k |-> "name", path |-> <<<<"id", text>>>>]

ParsePrimary(p) ==
    LET t == At(p)
        lit(ty, v) == Push(Bump(p), [k |-> "lit", ty |-> ty, v |-> v])
    IN CASE t \in {<<"kw", "TRUE">>, <<"kw", "FALSE">>} ->
              lit("Bool", IF t[2] = "TRUE" THEN 1 ELSE 0)
         [] t[1] = "int" -> lit("Dint", t[2])
         [] t[1] = "real" -> lit("Real", t[2])
         [] t[1] = "time" -> lit("Time", t[2])
         [] t[1] = "id" ->
              IF t[2] = "Q_GOOD" /\ Sym(Bump(p), "(")
              THEN ExpectSym(Node(ParseExpr(Bump(Bump(p))), "qgood", <<"e">>), ")")
              ELSE Push(Bump(p), Name(t[2]))
         [] t = <<"sym", "(">> -> ExpectSym(ParseExpr(Bump(p)), ")")
         [] t \in {<<"kw", "EN">>, <<"kw", "ENO">>} -> Push(Bump(p), Name(t[2]))
         [] OTHER -> Fail(p, "EParse")

(* One argument: name := e, name => e (only after an identifier), or e. *)
ParseArg(p) ==
    LET follows(s) == At(p)[1] = "id" /\ Sym(Bump(p), s)
        e == IF follows("=>") \/ follows(":=") THEN Push(Bump(Bump(p)), At(p)[2]) ELSE Push(p, "")
    IN AddTo(Rec(ParseExpr(e), <<"name", IF follows("=>") THEN "dest" ELSE "e">>),
             IF follows("=>") THEN "outs" ELSE "ins")

MoreArgs(p) == IF Sym(p, ",") THEN ParseArgs(Bump(p)) ELSE p
ParseArgs(p) == MoreArgs(ParseArg(p))

FinishFbCall(p) ==
    LET open == Bump(Reduce(p, 1, [k |-> "fbcall", callee |-> Nth(p, 1).path,
                                   ins |-> <<>>, outs |-> <<>>]))
    IN IF Nth(p, 1).k # "name" THEN Fail(p, "EParse")
       ELSE ExpectSym(IF Sym(open, ")") THEN open ELSE ParseArgs(open), ")")

(* The newest result becomes a segment of the name below it. *)
Segment(p, kind) ==
    IF p.err # "" \/ Nth(p, 2).k # "name" THEN Fail(p, "EParse")
    ELSE Reduce(p, 2, [Nth(p, 2) EXCEPT !.path = Append(@, <<kind, Nth(p, 1)>>)])

(* Field, index and call suffixes; a field name may be a keyword. *)
ParseSuffixes(p) ==
    CASE Sym(p, ".") ->
           IF At(Bump(p))[1] \notin {"id", "kw"} THEN Fail(p, "EParse")
           ELSE ParseSuffixes(Segment(Push(Bump(Bump(p)), At(Bump(p))[2]), "id"))
      [] Sym(p, "[") -> ParseSuffixes(Segment(ExpectSym(ParseExpr(Bump(p)), "]"), "ix"))
      [] Sym(p, "(") -> ParseSuffixes(FinishFbCall(p))
      [] OTHER -> p

ParseUnary(p) ==
    IF Kw(p, "NOT") \/ Sym(p, "-")
    THEN Node(ParseUnary(Push(Bump(p), IF Kw(p, "NOT") THEN "Not" ELSE "Neg")), "un", <<"op", "e">>)
    ELSE ParseSuffixes(ParsePrimary(CheckExcluded(p)))

(***************************************************************************)
(* Statements.                                                             *)
(***************************************************************************)
RECURSIVE ParseStmtList(_, _), ParseBranches(_), ParseLabels(_), ParseArms(_)

Stops(p, stop) == At(p)[1] = "eof" \/ At(p) \in stop \/ (<<"int", 0>> \in stop /\ At(p)[1] = "int")
EndOf(words) == {<<"kw", w>>: w \in words}
Body(p, stop) == ParseStmtList(Push(p, <<>>), stop)

ParseElse(p, end) ==
    IF Kw(p, "ELSE") THEN Some(Body(Bump(p), EndOf({end}))) ELSE Push(p, <<>>)

(* p stands behind IF or ELSIF. *)
MoreBranches(p) == IF Kw(p, "ELSIF") THEN ParseBranches(Bump(p)) ELSE p
ParseBranches(p) ==
    MoreBranches(Into(Rec(Body(ExpectKw(ParseExpr(p), "THEN"), EndOf({"ELSIF", "ELSE", "END_IF"})),
                          <<"cond", "body">>)))

ParseIf(p) ==
    SkipSemi(ExpectKw(Node(ParseElse(ParseBranches(Push(Bump(p), <<>>)), "END_IF"),
                           "if", <<"branches", "els">>), "END_IF"))

(* Labels of one arm; a range stands for all its numbers. *)
LabelEnd(p) == IF Sym(p, "..") THEN ExpectKind(Bump(p), "int") ELSE Push(p, Nth(p, 1))
AddLabels(p) ==
    IF p.err = "" /\ Nth(p, 1) < Nth(p, 2) THEN Fail(p, "EParse")
    ELSE Reduce(p, 3, Nth(p, 3) \o [n \in 1..(Nth(p, 1) - Nth(p, 2) + 1) |-> Nth(p, 2) + n - 1])
MoreLabels(p) == IF Sym(p, ",") THEN ParseLabels(Bump(p)) ELSE p
ParseLabels(p) == MoreLabels(AddLabels(LabelEnd(ExpectKind(p, "int"))))

ParseArms(p) ==
    IF Kw(p, "END_CASE") \/ Kw(p, "ELSE") \/ p.err # "" THEN p
    ELSE ParseArms(Into(Rec(Body(ExpectSym(ParseLabels(Push(p, <<>>)), ":"),
                                 EndOf({"ELSE", "END_CASE"}) \cup {<<"int", 0>>}),
                            <<"labels", "body">>)))

ParseCase(p) ==
    SkipSemi(ExpectKw(
      Node(ParseElse(ParseArms(Push(ExpectKw(ParseExpr(Bump(p)), "OF"), <<>>)), "END_CASE"),
           "case", <<"sel", "arms", "els">>), "END_CASE"))

(* { max_iter := N } *)
MaxIterName(p) ==
    IF p.err = "" /\ Nth(p, 1) # "max_iter" THEN Fail(p, "EParse")
    ELSE ExpectKind(ExpectSym(Drop(p), ":="), "int")
ParseMaxIter(p) == Some(ExpectSym(MaxIterName(ExpectKind(Bump(p), "id")), "}"))

(* WHILE and FOR find their iteration bound on the stack. *)
ParseWhile(p) ==
    SkipSemi(ExpectKw(Node(Body(ExpectKw(ParseExpr(Bump(p)), "DO"), EndOf({"END_WHILE"})),
                           "while", <<"max", "cond", "body">>), "END_WHILE"))

ParseBy(p) == IF Kw(p, "BY") THEN Some(ParseExpr(Bump(p))) ELSE Push(p, <<>>)
ForHead(p) ==
    ParseBy(ParseExpr(ExpectKw(ParseExpr(ExpectSym(ExpectKind(Bump(p), "id"), ":=")), "TO")))
ParseFor(p) ==
    SkipSemi(ExpectKw(Node(Body(ExpectKw(ForHead(p), "DO"), EndOf({"END_FOR"})),
                           "for", <<"max", "var", "from", "to", "by", "body">>), "END_FOR"))

(* An assignment, or an expression that turned out to be a call. *)
FinishSimple(p) ==
    IF Sym(p, ":=") THEN ExpectSym(Node(ParseExpr(Bump(p)), "assign", <<"lhs", "rhs">>), ";")
    ELSE IF p.err = "" /\ Nth(p, 1).k = "fbcall" THEN ExpectSym(p, ";")
    ELSE Fail(p, "EParse")
ParseSimple(p) == FinishSimple(ParseExpr(p))

(* The statement behind an optional bound; only loops keep the bound. *)
BoundedStmt(p) ==
    CASE p.err # "" -> p
      [] Kw(p, "IF") -> ParseIf(Drop(p))
      [] Kw(p, "CASE") -> ParseCase(Drop(p))
      [] Kw(p, "WHILE") -> ParseWhile(p)
      [] Kw(p, "FOR") -> ParseFor(p)
      [] Kw(p, "RETURN") -> ExpectSym(Push(Bump(Drop(p)), [k |-> "return"]), ";")
      [] Sym(p, ";") -> Push(Bump(Drop(p)), [k |-> "empty"])
      [] OTHER -> IF Nth(p, 1) # <<>> THEN Fail(p, "EParse") ELSE ParseSimple(Drop(p))

MaxIter(p) == IF Sym(p, "{") THEN ParseMaxIter(p) ELSE Push(p, <<>>)
ParseStmt(p) == BoundedStmt(MaxIter(CheckExcluded(p)))

ParseStmtList(p, stop) ==
    IF Stops(p, stop) THEN p ELSE ParseStmtList(Into(ParseStmt(p)), stop)

(***************************************************************************)
(* Declarations.                                                           *)
(***************************************************************************)
RECURSIVE ParseType(_), ParseVars(_), ParseUnitBody(_), ParseUnits(_)

TypeWords == {"BOOL", "INT", "DINT", "REAL", "TIME"}

(* The lower bound of an array must be 0; the upper one is left on the stack. *)
LowerBound(p) == IF p.err = "" /\ Nth(p, 1) # 0 THEN Fail(p, "EParse") ELSE Drop(p)
UpperBound(p) ==
    ExpectKind(ExpectSym(LowerBound(ExpectKind(ExpectSym(Bump(p), "["), "int")), ".."), "int")
ElemName(p) == Reduce(p, 1, Nth(p, 1).n)

TypeAt(p) ==
    IF Kw(p, "ARRAY")
    THEN Node(ElemName(ParseType(ExpectKw(ExpectSym(UpperBound(p), "]"), "OF"))),
              "array", <<"upper", "elem">>)
    ELSE IF At(p)[1] = "id" \/ At(p) \in EndOf(TypeWords)
    THEN Node(Push(Bump(p), At(p)[2]), "named", <<"n">>)
    ELSE Fail(p, "EParse")
ParseType(p) == TypeAt(CheckExcluded(p))

ParseAt(p) == IF Kw(p, "AT") THEN Some(ExpectKind(Bump(p), "addr")) ELSE Push(p, <<>>)
ParseInit(p) == IF Sym(p, ":=") THEN Some(ParseExpr(Bump(p))) ELSE Push(p, <<>>)

ParseVarDecl(p) ==
    ExpectSym(Rec(ParseInit(ParseType(ExpectSym(ParseAt(ExpectKind(p, "id")), ":"))),
                  <<"n", "at", "ty", "init">>), ";")

ParseVars(p) ==
    IF Kw(p, "END_VAR") \/ p.err # "" THEN ExpectKw(p, "END_VAR")
    ELSE ParseVars(Into(ParseVarDecl(CheckExcluded(p))))

Sections == [VAR |-> "var", VAR_INPUT |-> "input", VAR_OUTPUT |-> "output",
             VAR_RETAIN |-> "retain", VAR_GLOBAL |-> "global"]

ParseVarSection(p) ==
    LET const == Kw(Bump(p), "CONSTANT") /\ At(p)[2] \in {"VAR", "VAR_GLOBAL"}
        start == Push(IF const THEN Bump(Bump(p)) ELSE Bump(p),
                      IF const THEN "constant" ELSE Sections[At(p)[2]])
    IN Rec(ParseVars(Push(start, <<>>)), <<"kind", "vars">>)

(* parse_program and parse_fb: sections and statements in any order, added *)
(* to the unit on the stack.                                               *)
UnitItem(p) ==
    CASE p.err # "" -> p
      [] At(p) \in EndOf(DOMAIN Sections) -> ParseUnitBody(AddTo(ParseVarSection(p), "vars"))
      [] Kw(p, IF Nth(p, 1).fb THEN "END_FUNCTION_BLOCK" ELSE "END_PROGRAM") -> Bump(p)
      [] Kw(p, "FUNCTION_BLOCK") -> Fail(p, "EExcluded")
      [] OTHER -> ParseUnitBody(AddTo(ParseStmt(p), "body"))
ParseUnitBody(p) == UnitItem(CheckExcluded(p))

NewUnit(p) == Rec(Push(Push(p, <<>>), <<>>), <<"fb", "name", "vars", "body">>)
UnitAt(p) ==
    IF p.err # "" \/ At(p)[1] = "eof" THEN p
    ELSE IF Kw(p, "PROGRAM") \/ Kw(p, "FUNCTION_BLOCK")
    THEN ParseUnits(Into(ParseUnitBody(NewUnit(
           ExpectKind(Bump(Push(p, Kw(p, "FUNCTION_BLOCK"))), "id")))))
    ELSE Fail(p, "EParse")
ParseUnits(p) == UnitAt(CheckExcluded(p))

(* The declarations of a source text, in order, or the first error. *)
Parse(tokens) ==
    ParseUnits([ts |-> Append(tokens, <<"eof", "">>), i |-> 1, out |-> <<<<>>>>, err |-> ""])

=============================================================================

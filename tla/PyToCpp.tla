------------------------------ MODULE PyToCpp ------------------------------
(***************************************************************************)
(* transpiler/python_ast_visitor.py and the body of Transpiler in          *)
(* transpiler_core.py: how the body of compute() becomes C++, what a C++   *)
(* compiler says of the result, and what the two programs compute.         *)
(*                                                                         *)
(* A syntax tree is a record whose field k names the node.  Numbers are    *)
(* counted in halves, so that 1 and 0.5 differ; neighbours are a sequence  *)
(* of numbers.  Text is abstracted to the tree a C++ parser reads from it, *)
(* except that the text of a comparison is kept as its sequence of         *)
(* conjuncts: visit_Compare joins them by && without parentheses, so what  *)
(* is written around it binds to the first or the last conjunct only.      *)
(* Strings, None, lambdas and assignments to anything but a name are left  *)
(* out.                                                                    *)
(*                                                                         *)
(* The operators are recursive and this module is only model-checked.      *)
(***************************************************************************)
EXTENDS Integers, Sequences, FiniteSets, SequencesExt

CONSTANTS
  Header,       \* the header of each primitive (_FCPP_PRIMITIVES)
  Globals,      \* the value of each foldable <<root, attribute>> of compute.__globals__
  Fuel          \* rounds of a while loop after which it counts as endless

Num(v)           == [k |-> "num", t |-> "int", v |-> 2 * v]
Halves(h)          == [k |-> "num", t |-> "double", v |-> h]    \* h halves
Boolean(v)       == [k |-> "true", t |-> "bool", v |-> 2 * v]
Name(x)          == [k |-> "name", x |-> x]
Bin(op, l, r)    == [k |-> "bin", op |-> op, sub |-> <<l, r>>]
Cmp(ops, es)     == [k |-> "cmp", ops |-> ops, sub |-> es]
Un(op, e)        == [k |-> "un", op |-> op, sub |-> <<e>>]
Bool(op, es)     == [k |-> "bool", op |-> op, sub |-> es]
IfExp(c, a, b)   == [k |-> "if", sub |-> <<c, a, b>>]
Call(f, es)      == [k |-> "call", op |-> f, sub |-> es]
Index(e, i)      == [k |-> "index", sub |-> <<e, i>>]
Tuple(es)        == [k |-> "tuple", sub |-> es]
Attr(x, a)       == [k |-> "attr", x |-> x, a |-> a]
Method(e, m, es) == [k |-> "method", op |-> m, sub |-> <<e>> \o es]
SetOf(es)        == [k |-> "set", sub |-> es]
Other(v)         == [k |-> "other", t |-> "int", v |-> 2 * v]  \* a node the visitor has no method for
Hole             == [k |-> "hole"]               \* text no C++ compiler accepts

Sub(e) == IF "sub" \in DOMAIN e THEN e.sub ELSE <<>>

RECURSIVE Parts(_)
Parts(e) == {e} \cup UNION {Parts(Sub(e)[i]) : i \in DOMAIN Sub(e)}

\* The nodes the visitor comes to: of frozenset() only the elements of a literal.
Literals(e) == IF e.sub # <<>> /\ e.sub[1].k = "set" THEN e.sub[1].sub ELSE <<>>
RECURSIVE Met(_)
Met(e) ==
  LET sub == IF e.k = "call" /\ e.op = "frozenset" THEN Literals(e)
             ELSE IF e.k = "set" THEN <<>> ELSE Sub(e)
  IN  {e} \cup UNION {Met(sub[i]) : i \in DOMAIN sub}

----------------------------------------------------------------------------
(* Translation of expressions.                                             *)

BinOps == {"+", "-", "*", "/", "%", "**"}
CmpOps == {"<", ">", "==", "!=", "<=", ">="}
UnOps  == {"not", "-", "+"}

\* Mutant: only the full names are remapped.
RenamedFullNames(x) == IF x = "neighbors" THEN "neighbor_states" ELSE x

\* The parameters of compute() are renamed in the whole text, by word.
Renamed(x) == CASE x \in {"self_state", "state", "s"}            -> "self_state"
                [] x \in {"neighbors", "nbrs", "neighborhood"}   -> "neighbor_states"
                [] OTHER                                         -> x

Whole(c) == CASE Len(c) = 0 -> Hole [] Len(c) = 1 -> c[1] [] OTHER -> Bool("and", c)

\* The conjuncts of "l op r", op binding tighter than &&.
Glue(l, r, Op(_, _)) ==
  IF l = <<>> \/ r = <<>> THEN <<Hole>>
  ELSE Front(l) \o <<Op(Last(l), Head(r))>> \o Tail(r)

RECURSIVE Cpp(_)
Text(e) == Whole(Cpp(e))
Texts(es) == [i \in DOMAIN es |-> Text(es[i])]

CppCompare(e) ==
  LET Conjunct(i) ==
        IF e.ops[i] \in CmpOps
          THEN <<Whole(Glue(Cpp(e.sub[i]), Cpp(e.sub[i + 1]),
                            LAMBDA l, r : Cmp(<<e.ops[i]>>, <<l, r>>)))>>
          ELSE <<>>
  IN  FlattenSeq([i \in DOMAIN e.ops |-> Conjunct(i)])

CppUnary(e) ==
  LET c == Cpp(e.sub[1])
  IN  IF e.op \notin UnOps THEN Num(0)
      ELSE IF c = <<>> THEN Hole ELSE Whole(<<Un(e.op, Head(c))>> \o Tail(c))

CppBinary(e) ==
  CASE e.op = "**"        -> Bin("**", Text(e.sub[1]), Text(e.sub[2]))
    [] e.op \notin BinOps -> Num(0)
    [] OTHER              -> Whole(Glue(Cpp(e.sub[1]), Cpp(e.sub[2]),
                                        LAMBDA l, r : Bin(e.op, l, r)))

\* str(True) is no C++ literal.
CppLeaf(e) == CASE e.k = "true" -> Name("True") [] e.k = "name" -> Name(Renamed(e.x)) [] OTHER -> e

\* A chain that resolves in compute.__globals__ becomes its number.
CppAttribute(e) ==
  IF <<e.x, e.a>> \in DOMAIN Globals THEN Num(Globals[<<e.x, e.a>>])
  ELSE Attr(Renamed(e.x), Renamed(e.a))

\* The C++ name of a built-in is taken to be its own, and CALL is left out; the
\* rest keep their names.
CppCall(e) ==
  CASE e.op = "frozenset" -> Call("set_t", Texts(Literals(e)))
    [] e.op = "self_uid"  -> Attr("node", "uid")
    [] e.op \in {"min_hood", "max_hood"} /\ Len(e.sub) = 1 /\ e.sub[1].k = "tuple"
                          -> Call(e.op, <<Call("make_tuple", Texts(e.sub[1].sub))>>)
    [] OTHER              -> Call(Renamed(e.op), Texts(e.sub))

Cpp(e) ==
  CASE e.k \in {"num", "true", "name"}             -> <<CppLeaf(e)>>
    [] e.k = "attr"                                -> <<CppAttribute(e)>>
    [] e.k = "bin"                                 -> <<CppBinary(e)>>
    [] e.k = "cmp"                                 -> CppCompare(e)
    [] e.k = "un"                                  -> <<CppUnary(e)>>
    [] e.k \in {"bool", "if", "index", "tuple", "method"} -> <<[e EXCEPT !.sub = Texts(@)]>>
    [] e.k = "call"                                -> <<CppCall(e)>>
    [] OTHER                                       -> <<Num(0)>>

\* The nodes of an expression that visitor.errors tells of.
ExprErrors(e) ==
  {p \in Met(e) :   \/ p.k \in {"other", "set"}
                    \/ p.k = "bin" /\ p.op \notin BinOps
                    \/ p.k = "un" /\ p.op \notin UnOps
                    \/ p.k = "cmp" /\ \E i \in DOMAIN p.ops : p.ops[i] \notin CmpOps}

----------------------------------------------------------------------------
(* Translation of statements.  d holds the names assigned so far in the    *)
(* text, declared_vars.                                                    *)

Assign(x, e)          == [k |-> "assign", x |-> x, e |-> e]
Unpack(xs, es)        == [k |-> "unpack", xs |-> xs, es |-> es]
Aug(x, op, e)         == [k |-> "aug", x |-> x, op |-> op, e |-> e]
If(c, a, b)           == [k |-> "ifs", e |-> c, body |-> a, els |-> b]
While(c, a, b)        == [k |-> "while", e |-> c, body |-> a, els |-> b]
For(x, args, a, b)    == [k |-> "for", x |-> x, args |-> args, body |-> a, els |-> b]
ForEach(x, e, a)      == [k |-> "foreach", x |-> x, e |-> e, body |-> a]
Match(e, cases)       == [k |-> "match", e |-> e, cases |-> cases]
Case(pats, g, a)      == [pats |-> pats, guard |-> g, body |-> a]
Return(e)             == [k |-> "return", e |-> e]
Nothing               == [k |-> "nothing"]           \* what a bare return gives
ExprOnly(e)           == [k |-> "expr", e |-> e]
Jump(j)               == [k |-> j]      \* pass, break, continue, and try, with, assert: "odd"

Wild    == Name("_")
Capture == Name("case")                 \* case y: and the other patterns
Literal(p) == p.k \in {"num", "attr", "un"}
NoGuard == Num(1)

RECURSIVE Declared(_)
Declared(b) ==
  UNION {LET s == b[i] IN
         CASE s.k = "assign"                           -> {s.x}
           [] s.k = "ifs"                              -> Declared(s.body) \cup Declared(s.els)
           [] s.k \in {"while", "for"}                 -> Declared(s.body)
           [] s.k = "match" -> UNION {Declared(s.cases[j].body) : j \in DOMAIN s.cases}
           [] OTHER                                    -> {} : i \in DOMAIN b}

RECURSIVE Statements(_, _)

\* Mutant: the loop goes on for one round more.
CppForInclusive(s, d) ==
  LET x == Renamed(s.x)
  IN  [k |-> "cfor", x |-> x, from |-> Num(0),
       e |-> Cmp(<<"<=">>, <<Name(x), Text(Last(s.args))>>),
       next |-> <<Aug(x, "+", Num(1))>>, body |-> Statements(s.body, d)]

\* visit_For on range(): the bound is written into the loop's condition.
CppFor(s, d) ==
  LET n == Len(s.args)
      from == IF n = 1 THEN Num(0) ELSE Text(s.args[1])
      to   == IF n = 1 THEN Text(s.args[1]) ELSE Text(s.args[2])
      step == IF n = 3 THEN Text(s.args[3]) ELSE Num(1)
      x    == Renamed(s.x)
  IN  [k |-> "cfor", x |-> x, from |-> from, e |-> Cmp(<<"<">>, <<Name(x), to>>),
       next |-> <<Aug(x, "+", step)>>, body |-> Statements(s.body, d)]

\* visit_Match: a switch, with a default added unless a case wrote one.
CppMatch(s, d) ==
  LET Before(j) == d \cup UNION {Declared(s.cases[i].body) : i \in 1..(j - 1)}
      Labels(c) == IF c.pats = <<Wild>> THEN <<Wild>>
                   ELSE Texts(SelectSeq(c.pats, Literal))
      One(j) ==
        LET c == s.cases[j]
            body == Statements(c.body, Before(j))
            guarded == IF c.guard = NoGuard THEN body
                       ELSE <<If(Text(c.guard), body, <<>>)>>
        IN  IF Labels(c) = <<>> THEN <<>> ELSE <<[pats |-> Labels(c), body |-> guarded]>>
      cases == FlattenSeq([j \in DOMAIN s.cases |-> One(j)])
      hasDefault == \E j \in DOMAIN cases : cases[j].pats = <<Wild>>
  IN  [k |-> "switch", e |-> Text(s.e),
       cases |-> IF hasDefault THEN cases
                 ELSE Append(cases, [pats |-> <<Wild>>, body |-> <<>>])]

Statement(s, d) ==
  CASE s.k = "assign" -> <<[k |-> IF s.x \in d THEN "assign" ELSE "auto",
                            x |-> Renamed(s.x), e |-> Text(s.e)]>>
    [] s.k = "aug"    -> <<Aug(Renamed(s.x), IF s.op \in BinOps \ {"**"} THEN s.op ELSE "+", Text(s.e))>>
    [] s.k = "ifs"    -> <<If(Text(s.e), Statements(s.body, d),
                              Statements(s.els, d \cup Declared(s.body)))>>
    [] s.k = "while"  -> <<While(Text(s.e), Statements(s.body, d), <<>>)>>
    [] s.k = "for"    -> <<CppFor(s, d)>>
    [] s.k = "match"  -> <<CppMatch(s, d)>>
    [] s.k = "return" -> <<IF s.e = Nothing THEN s ELSE Return(Text(s.e))>>
    [] s.k = "expr"   -> <<ExprOnly(Text(s.e))>>
    [] s.k \in {"break", "continue", "odd"} -> <<s>>
    [] OTHER          -> <<>>                       \* pass, unpack, foreach

Statements(b, d) ==
  FlattenSeq([i \in DOMAIN b |-> Statement(b[i], d \cup Declared(SubSeq(b, 1, i - 1)))])

\* _transpile_method_body: an empty text becomes "return self_state;".
Transpiled(b) ==
  LET c == Statements(b, {})
  IN  IF c = <<>> THEN <<Return(Name("self_state"))>> ELSE c

----------------------------------------------------------------------------
(* Every statement of a body, nested ones included, and its expressions.   *)

Cases(s)  == IF "cases" \in DOMAIN s THEN ToSet(s.cases) ELSE {}
Patterns(s) == UNION {ToSet(c.pats) : c \in Cases(s)}
BodiesIn(s)   ==                          \* the bodies in it, in the order of the text
  (IF "body" \in DOMAIN s THEN <<s.body>> ELSE <<>>)
    \o (IF "els" \in DOMAIN s THEN <<s.els>> ELSE <<>>)
    \o (IF "cases" \in DOMAIN s THEN [j \in DOMAIN s.cases |-> s.cases[j].body] ELSE <<>>)
Bodies(s) == ToSet(BodiesIn(s))
Exprs(s)  == {c.guard : c \in {d \in Cases(s) : "guard" \in DOMAIN d}}
        \cup (IF "e" \in DOMAIN s THEN {s.e} ELSE {})
        \cup (IF "args" \in DOMAIN s THEN ToSet(s.args) ELSE {})
        \cup (IF "es" \in DOMAIN s THEN ToSet(s.es) ELSE {})

RECURSIVE All(_)
All(b)      == ToSet(b) \cup UNION {UNION {All(c) : c \in Bodies(s)} : s \in ToSet(b)}
AllExprs(b) == UNION {Exprs(s) : s \in All(b)}
AllParts(b) == UNION {Parts(e) : e \in AllExprs(b)}

\* What visitor.errors tells of; nothing reads it.
Errors(b) ==
  UNION {ExprErrors(e) : e \in AllExprs(b)}
    \cup {s \in All(b) : \/ s.k \in {"odd", "unpack", "foreach"}
                         \/ s.k = "match" /\ \E c \in Cases(s) :
                              \/ Capture \in ToSet(c.pats)
                              \/ Wild \in ToSet(c.pats) /\ Len(c.pats) > 1}
=============================================================================

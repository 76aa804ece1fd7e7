-------------------------- MODULE ProgramSemantics --------------------------
(***************************************************************************)
(* The two languages transpiler/python_ast_visitor.py stands between, as   *)
(* far as its nodes go: what Python computes for the body of compute(),    *)
(* whether g++ accepts the body of compute_next_state(), and what the      *)
(* compiled function returns.  L is "py" or "cpp".                         *)
(*                                                                         *)
(* An environment is a sequence of scopes, the innermost last; Python has  *)
(* one.  A number is [t, v]: its type and how many halves it is.  Python's *)
(* float is the double, C++ has std::size_t besides, for which WordSize    *)
(* takes the place of 2^64.  What a program computes is <<x>>; <<>> is a   *)
(* failure, and stands for numbers that are no halves.  The headers that   *)
(* <fcpp/fcpp.hpp> brings in are taken to hold std::max and the rest;      *)
(* lists in braces are followed into max and min only, not into variables, *)
(* and fields, methods and sets not at all.                                *)
(***************************************************************************)
EXTENDS PyToCpp

One == 2
WordSize == One * 65536
Numeric == {"bool", "int", "size", "double"}
VectorOf(t) == IF t = "double" THEN "doubles" ELSE "ints"
Vectors == {"doubles", "ints"}
Element(t) == IF t = "doubles" THEN "double" ELSE "int"

Value(t, v) == [t |-> t, v |-> v]
Truth(b)  == Value("bool", IF b THEN One ELSE 0)
Abs(n)    == IF n < 0 THEN -n ELSE n
Sign(n)   == IF n < 0 THEN -1 ELSE 1
Trunc(a, b) == Sign(a) * Sign(b) * (Abs(a) \div Abs(b))
Floor(a, b) == IF b > 0 THEN a \div b ELSE (-a) \div (-b)
Exact(a, b) == IF Trunc(a, b) * b = a THEN <<Trunc(a, b)>> ELSE <<>>

\* C++ conversions: to the wider type of two operands, and to a given type.
Common(t, u) == IF "double" \in {t, u} THEN "double" ELSE IF "size" \in {t, u} THEN "size" ELSE "int"
ConvertTo(t, x) ==
  LET whole == One * Trunc(x.v, One) IN
  CASE t = "bool" -> Truth(x.v # 0)
    [] t = "int"  -> Value(t, IF 2 * whole < WordSize THEN whole ELSE whole - WordSize)
    [] t = "size" -> Value(t, whole % WordSize)
    [] OTHER      -> Value(t, x.v)

Scopes(env, x) == {i \in DOMAIN env : x \in DOMAIN env[i]}
Lookup(env, x) == IF Scopes(env, x) = {} THEN <<>> ELSE <<env[Max(Scopes(env, x))][x]>>
Define(env, x, v) == [env EXCEPT ![Len(env)] = (x :> v) @@ @]
Store(L, env, x, v) ==
  IF Scopes(env, x) = {} THEN Define(env, x, v)
  ELSE [env EXCEPT ![Max(Scopes(env, x))][x] = IF L = "py" THEN v ELSE ConvertTo(@.t, v)]
\* What a name is initialised with does not see another variable of the name.
Without(env, x) == [i \in DOMAIN env |-> [y \in DOMAIN env[i] \ {x} |-> env[i][y]]]
TypesIn(env) == [i \in DOMAIN env |-> [x \in DOMAIN env[i] |-> env[i][x].t]]

----------------------------------------------------------------------------
(* The C++ type of an expression, "none" when g++ refuses it.  sc gives    *)
(* the names of every scope their types.  compute_next_state() has no node *)
(* and no CALL, so a primitive is refused there like an unknown name; so   *)
(* are methods and fields, the state being a number.                       *)

CallType(f, ts, inner) ==     \* inner: the types inside of a list in braces
  LET one == Len(ts) = 1 /\ ts[1] \in Numeric IN
  CASE f \in {"max", "min"} ->
         LET us == IF ts = <<"braces">> THEN inner ELSE ts IN
         IF (ts = <<"braces">> \/ Len(ts) = 2) /\ ToSet(us) \subseteq Numeric /\ Cardinality(ToSet(us)) = 1
           THEN us[1] ELSE "none"
    [] f = "abs" /\ one /\ ts[1] # "size"              -> Common(ts[1], "int")
    [] f = "len" /\ Len(ts) = 1 /\ ts[1] \in Vectors   -> "size"
    [] f = "sum" /\ Len(ts) = 1 /\ ts[1] \in Vectors   -> "int"    \* that of the initial 0
    [] f \in {"bool", "int"} /\ one                    -> f
    [] f = "float" /\ one                              -> "double"
    [] OTHER                                           -> "none"

RECURSIVE TypeOf(_, _)
TypeOf(sc, e) ==
  LET ts == [i \in DOMAIN Sub(e) |-> TypeOf(sc, Sub(e)[i])]
      numbers == ToSet(ts) \subseteq Numeric
  IN
  CASE e.k = "num"   -> e.t
    [] e.k = "name"  -> IF Scopes(sc, e.x) = {} THEN "none" ELSE sc[Max(Scopes(sc, e.x))][e.x]
    [] e.k = "attr"  -> IF <<e.x, e.a>> \in DOMAIN Globals THEN "int" ELSE "none"
    [] e.k = "call"  -> CallType(e.op, ts, IF ts = <<"braces">>
                                             THEN [i \in DOMAIN e.sub[1].sub |-> TypeOf(sc, e.sub[1].sub[i])]
                                             ELSE <<>>)
    [] e.k = "index" -> IF ts[1] \in Vectors /\ ts[2] \in Numeric THEN Element(ts[1]) ELSE "none"
    [] e.k \in {"true", "method", "set", "other", "hole", "nothing"} \/ ~numbers -> "none"
    [] e.k = "tuple" -> "braces"
    [] e.k = "bin"   -> IF e.op = "**" THEN "double"
                        ELSE IF e.op = "%" /\ "double" \in ToSet(ts) THEN "none"
                        ELSE Common(ts[1], ts[2])
    [] e.k \in {"cmp", "bool"} -> "bool"
    [] e.k = "un"    -> IF e.op = "not" THEN "bool" ELSE Common(ts[1], "int")
    [] e.k = "if"    -> IF ts[2] = ts[3] THEN ts[2] ELSE Common(ts[2], ts[3])

----------------------------------------------------------------------------
(* Evaluation.                                                             *)

\* The result of the two operands, of which C++ has made numbers of type t.
Result(L, t, op, os) ==
  LET a == os[1].v
      b == os[2].v
  IN
  CASE op = "+" -> <<a + b>>
    [] op = "-" -> <<a - b>>
    [] op = "*" -> Exact(a * b, One)
    [] op = "**" -> IF b < 0 \/ b % One # 0 \/ a % One # 0 THEN <<>> ELSE <<One * (a \div One) ^ (b \div One)>>
    [] b = 0 -> <<>>
    [] op = "/" /\ (L = "py" \/ t = "double") -> Exact(One * a, b)
    [] op = "/"  -> <<One * Trunc(a, b)>>
    [] op = "//" -> <<One * Floor(a, b)>>
    [] OTHER     -> <<a - b * (IF L = "py" THEN Floor(a, b) ELSE Trunc(a, b))>>

Operands(L, op, x, y) ==
  IF L = "py" \/ op = "**" THEN <<x, y>> ELSE <<ConvertTo(Common(x.t, y.t), x), ConvertTo(Common(x.t, y.t), y)>>
Typed(t, r) ==
  IF r = <<>> THEN <<>> ELSE <<IF t = "size" THEN ConvertTo(t, Value("int", r[1])) ELSE Value(t, r[1])>>
Arith(L, op, x, y) ==
  LET t == Common(x.t, y.t) IN
  Typed(IF op = (IF L = "py" THEN "/" ELSE "**") THEN "double" ELSE t,
        Result(L, t, op, Operands(L, op, x, y)))

Ordered(op, os) ==
  LET a == os[1].v
      b == os[2].v
  IN  CASE op = "<" -> a < b [] op = ">" -> a > b [] op = "==" -> a = b
        [] op = "!=" -> a # b [] op = "<=" -> a <= b [] op = ">=" -> a >= b
Compare(L, op, x, y) ==
  IF op = "in" THEN \E i \in DOMAIN y.v : y.v[i].v = x.v ELSE Ordered(op, Operands(L, op, x, y))

\* max, min: of one argument or of several, the first of the best.
Best(f, xs) ==
  LET Better(x, y) == IF f = "max" THEN x.v < y.v ELSE y.v < x.v
  IN  IF xs = <<>> THEN <<>>
      ELSE <<FoldLeft(LAMBDA x, y : IF Better(x, y) THEN y ELSE x, xs[1], xs)>>
\* std::accumulate adds up in the type of its initial value, the int 0.
Total(L, xs) ==
  LET Kept(x) == IF L = "py" THEN x ELSE ConvertTo("int", x)
  IN  FoldLeft(LAMBDA x, y : Kept(Arith(L, "+", x, y)[1]), Value("int", 0), xs)

Library(L, f, xs) ==
  CASE f \in {"max", "min"} -> Best(f, IF Len(xs) = 1 THEN xs[1].v ELSE xs)
    [] f = "abs"   -> <<Value(Common(xs[1].t, "int"), Abs(xs[1].v))>>
    [] f = "len"   -> <<Value(IF L = "py" THEN "int" ELSE "size", One * Len(xs[1].v))>>
    [] f = "sum"   -> <<Total(L, xs[1].v)>>
    [] f = "bool"  -> <<Truth(xs[1].v # 0)>>
    [] f = "int"   -> <<Value("int", One * Trunc(xs[1].v, One))>>
    [] f = "float" -> <<Value("double", xs[1].v)>>
    [] OTHER       -> <<>>        \* primitives, which g++ refuses, and unknown functions

\* and, or: Python returns the operand that decides, C++ a truth value.
Decide(L, op, vs) ==
  LET ends == {i \in DOMAIN vs : vs[i] = <<>> \/ (vs[i][1].v # 0) = (op = "or")}
      i == IF ends = {} THEN Len(vs) ELSE Min(ends)
  IN  IF vs[i] = <<>> \/ L = "py" THEN vs[i] ELSE <<Truth(vs[i][1].v # 0)>>

\* C++ gives both branches of a conditional expression one type.
Branch(L, env, e, x) ==
  IF L = "py" \/ x = <<>> THEN x ELSE <<ConvertTo(TypeOf(TypesIn(env), e), x[1])>>

\* An index that is no whole number is none for Python; C++ cuts it off.
At(L, xs, i) ==
  LET n == Trunc(i.v, One) IN
  IF (L = "py" => i.t # "double") /\ n \in (IF L = "py" THEN -Len(xs) ELSE 0) .. (Len(xs) - 1)
    THEN <<xs[IF n < 0 THEN n + Len(xs) + 1 ELSE n + 1]>> ELSE <<>>

\* The value of a node from those of its parts.
Combine(L, env, e, vs) ==
  LET x(i) == vs[i][1] IN
  CASE e.k \in {"num", "other", "true"} -> <<Value(e.t, e.v)>>
    [] e.k = "name" -> Lookup(env, e.x)
    [] e.k = "attr" -> IF <<e.x, e.a>> \in DOMAIN Globals THEN <<Value("int", One * Globals[<<e.x, e.a>>])>> ELSE <<>>
    [] e.k = "bool" -> Decide(L, e.op, vs)
    [] e.k = "if"   -> IF vs[1] = <<>> THEN <<>> ELSE Branch(L, env, e, IF x(1).v # 0 THEN vs[2] ELSE vs[3])
    [] e.k \in {"method", "nothing"} \/ \E i \in DOMAIN vs : vs[i] = <<>> -> <<>>
    [] e.k = "bin"  -> Arith(L, e.op, x(1), x(2))
    [] e.k = "cmp"  -> <<Truth(\A i \in DOMAIN e.ops : Compare(L, e.ops[i], x(i), x(i + 1)))>>
    [] e.k = "un"   -> IF e.op = "not" THEN <<Truth(x(1).v = 0)>>
                       ELSE Arith(L, IF e.op = "-" THEN "-" ELSE "+", Value("int", 0), x(1))
    [] e.k = "index" -> At(L, x(1).v, x(2))
    [] e.k \in {"tuple", "set"} -> <<Value("braces", [i \in DOMAIN vs |-> x(i)])>>
    [] e.k = "call" -> Library(L, e.op, [i \in DOMAIN vs |-> x(i)])

RECURSIVE Eval(_, _, _)
Eval(L, env, e) == Combine(L, env, e, [i \in DOMAIN Sub(e) |-> Eval(L, env, Sub(e)[i])])

----------------------------------------------------------------------------
(* Execution.  An outcome is the environment, how control leaves ("next",  *)
(* "break", "continue", "return", "error", "endless") and what is returned.*)

Out(env, ctl) == [env |-> env, ctl |-> ctl, v |-> Value("int", 0)]
Given(v, env, Then(_)) == IF v = <<>> THEN Out(env, "error") ELSE Then(v[1])

RECURSIVE Run(_, _, _)

Block(L, env, b) ==
  IF L = "py" THEN Run(L, env, b)
  ELSE LET r == Run(L, Append(env, <<>>), b) IN [r EXCEPT !.env = SubSeq(@, 1, Len(env))]

\* The rounds of a loop: done on "break"; "next" when the condition ends it.
RECURSIVE Rounds(_, _, _, _, _)
Rounds(L, env, s, after, fuel) ==
  Given(Eval(L, env, s.e), env, LAMBDA t :
    IF t.v = 0 THEN Out(env, "next")
    ELSE IF fuel = 0 THEN Out(env, "endless")
    ELSE LET r == Block(L, env, s.body) IN
         IF r.ctl \in {"next", "continue"}
           THEN LET u == Run(L, r.env, after) IN
                IF u.ctl = "next" THEN Rounds(L, u.env, s, after, fuel - 1) ELSE u
           ELSE r)

RECURSIVE ForEachIn(_, _, _)
ForEachIn(env, s, vs) ==
  IF vs = <<>> THEN Out(env, "next")
  ELSE LET r == Run("py", Store("py", env, s.x, Head(vs)), s.body)
       IN  IF r.ctl \in {"next", "continue"} THEN ForEachIn(r.env, s, Tail(vs)) ELSE r

\* else of a Python loop runs unless break left it.
EndLoop(L, r, els) ==
  CASE r.ctl = "break" -> [r EXCEPT !.ctl = "next"]
    [] r.ctl = "next"  -> Run(L, r.env, els)
    [] OTHER           -> r

RangeValues(as) ==
  LET n == Len(as)
      from == IF n = 1 THEN 0 ELSE as[1].v
      to   == IF n = 1 THEN as[1].v ELSE as[2].v
      step == IF n = 3 THEN as[3].v ELSE One
      count == IF (to - from) * step <= 0 THEN 0
               ELSE (Abs(to - from) + Abs(step) - 1) \div Abs(step)
  IN  [i \in 1..count |-> Value("int", from + (i - 1) * step)]
\* range() takes whole numbers only, and no step of zero.
InRange(as) == (\A i \in DOMAIN as : as[i].t # "double") /\ (Len(as) = 3 => as[3].v # 0)

Hits(L, env, pattern, v) == LET p == Eval(L, env, pattern) IN p # <<>> /\ p[1].v = v.v
Take(L, env, cases, v) ==       \* the cases whose pattern and guard hold, in order
  {j \in DOMAIN cases :
     LET c == cases[j] IN
     /\ \E i \in DOMAIN c.pats :
          \/ c.pats[i] \in {Wild, Capture}
          \/ Literal(c.pats[i]) /\ Hits(L, env, c.pats[i], v)
     /\ LET g == Eval(L, env, c.guard) IN g # <<>> /\ g[1].v # 0}

\* default: comes last whatever its place.
Switch(env, s, v) ==
  LET named == {j \in DOMAIN s.cases : \E i \in DOMAIN s.cases[j].pats :
                  /\ s.cases[j].pats[i] # Wild
                  /\ Hits("cpp", env, s.cases[j].pats[i], v)}
      other == {j \in DOMAIN s.cases : s.cases[j].pats = <<Wild>>}
      j == IF named # {} THEN Min(named) ELSE Min(other)
      r == Block("cpp", env, s.cases[j].body)
  IN  IF r.ctl = "break" THEN [r EXCEPT !.ctl = "next"] ELSE r

\* What a statement with one expression evaluates, and what it does with it.
Subject(s) ==
  CASE s.k = "aug"  -> Bin(s.op, Name(s.x), s.e)
    [] s.k = "cfor" -> s.from
    [] OTHER        -> s.e
With(L, env, s, v) ==
  CASE s.k \in {"assign", "aug"} -> Out(Store(L, env, s.x, v), "next")
    [] s.k = "auto"    -> Out(Define(env, s.x, v), "next")
    [] s.k = "ifs"     -> Block(L, env, IF v.v # 0 THEN s.body ELSE s.els)
    [] s.k = "cfor"    -> LET r == Rounds(L, Append(env, s.x :> ConvertTo("int", v)), s, s.next, Fuel)
                          IN  EndLoop(L, [r EXCEPT !.env = SubSeq(@, 1, Len(env))], <<>>)
    [] s.k = "foreach" -> EndLoop(L, ForEachIn(env, s, v.v), <<>>)
    [] s.k = "match"   -> LET js == Take(L, env, s.cases, v)
                          IN  IF js = {} THEN Out(env, "next") ELSE Run(L, env, s.cases[Min(js)].body)
    [] s.k = "switch"  -> Switch(env, s, v)
    [] s.k = "return"  -> [Out(env, "return") EXCEPT
                             !.v = IF L = "py" THEN v ELSE ConvertTo(env[1].self_state.t, v)]
    [] s.k = "expr"    -> Out(env, "next")
OneSubject == {"assign", "aug", "auto", "ifs", "cfor", "foreach", "match", "switch", "return", "expr"}

\* A statement with several: vs are their values.
WithAll(L, env, s, vs) ==
  LET as == [i \in DOMAIN vs |-> vs[i][1]] IN
  IF <<>> \in ToSet(vs) THEN Out(env, "error")
  ELSE IF s.k = "unpack" THEN Out(Store(L, Store(L, env, s.xs[1], as[1]), s.xs[2], as[2]), "next")
  ELSE IF ~InRange(as) THEN Out(env, "error")
  ELSE EndLoop(L, ForEachIn(env, s, RangeValues(as)), s.els)

Step(L, env, s) ==
  CASE s.k \in OneSubject -> Given(Eval(L, IF s.k = "cfor" THEN Without(env, s.x) ELSE env, Subject(s)), env,
                                   LAMBDA v : With(L, env, s, v))
    [] s.k \in {"unpack", "for"} -> LET es == IF s.k = "for" THEN s.args ELSE s.es
                                    IN  WithAll(L, env, s, [i \in DOMAIN es |-> Eval(L, env, es[i])])
    [] s.k = "while" -> EndLoop(L, Rounds(L, env, s, <<>>, Fuel), s.els)
    [] s.k \in {"break", "continue"} -> Out(env, s.k)
    [] OTHER         -> Out(env, "next")

GoOn(L, r, b) == IF r.ctl = "next" THEN Run(L, r.env, b) ELSE r
Run(L, env, b) == IF b = <<>> THEN Out(env, "next") ELSE GoOn(L, Step(L, env, Head(b)), Tail(b))

----------------------------------------------------------------------------
(* What g++ accepts.  sc is the sequence of the scopes' names and types.   *)

Params == {"self_state", "neighbor_states"}       \* const references
Number(sc, e) == TypeOf(sc, e) \in Numeric
Holds(sc, x, e) ==            \* a variable of this name takes the value
  /\ Scopes(sc, x) # {}
  /\ LET t == TypeOf(sc, Name(x)) IN TypeOf(sc, e) = t \/ (t \in Numeric /\ Number(sc, e))

RECURSIVE BodyOK(_, _)

\* The subject is an integer, the labels are integer constants it can hold and
\* differ, and no jump passes an initialisation.
SwitchOK(sc, s) ==
  LET labels == FlattenSeq([j \in DOMAIN s.cases |-> s.cases[j].pats])
      Constant(p) == p = Wild \/ \A q \in Parts(p) : q.k = "un" \/ (q.k = "num" /\ q.t = "int")
  IN  /\ TypeOf(sc, s.e) \in {"int", "bool", "size"}
      /\ TypeOf(sc, s.e) = "size" => \A i \in DOMAIN labels : labels[i].k # "un"
      /\ \A i \in DOMAIN labels : Constant(labels[i])
      /\ \A i, j \in DOMAIN labels : i # j => labels[i] # labels[j]
      /\ \A j \in DOMAIN s.cases :
           /\ BodyOK(Append(sc, <<>>), s.cases[j].body)
           /\ j < Len(s.cases) => \A i \in DOMAIN s.cases[j].body :
                                     s.cases[j].body[i].k # "auto"

InitType(sc, s) == TypeOf(Without(sc, s.x), s.e)

StatementOK(sc, s) ==
  CASE s.k = "auto"   -> s.x \notin DOMAIN Last(sc) /\ InitType(sc, s) \in Numeric \cup Vectors
    [] s.k \in {"assign", "aug"} ->
         /\ \E i \in Scopes(sc, s.x) : s.x \in Params => i > 1
         /\ Holds(sc, s.x, IF s.k = "aug" THEN Bin(s.op, Name(s.x), s.e) ELSE s.e)
    [] s.k \in {"ifs", "while"} ->
         Number(sc, s.e) /\ BodyOK(Append(sc, <<>>), s.body) /\ BodyOK(Append(sc, <<>>), s.els)
    [] s.k = "cfor"   -> LET inside == Append(sc, s.x :> "int") IN
                         Number(inside, s.from) /\ Number(inside, s.e)
                           /\ BodyOK(inside, s.next \o s.body)
    [] s.k = "switch" -> SwitchOK(sc, s)
    [] s.k = "return" -> Number(sc, s.e)
    [] s.k = "expr"   -> TypeOf(sc, s.e) \in Numeric \cup Vectors
    [] OTHER          -> s.k # "odd"

BodyOK(sc, b) ==
  \/ b = <<>>
  \/ /\ StatementOK(sc, Head(b))
     /\ BodyOK(IF Head(b).k = "auto" THEN Define(sc, Head(b).x, InitType(sc, Head(b))) ELSE sc, Tail(b))

\* The body of a compute_next_state() whose state is of type t.
Compiles(t, c) == BodyOK(<<[self_state |-> t, neighbor_states |-> VectorOf(t)]>>, c)
=============================================================================

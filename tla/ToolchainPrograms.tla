-------------------------- MODULE ToolchainPrograms --------------------------
(***************************************************************************)
(* The classes that go through Toolchain: what the visitor returns for     *)
(* them, the rules they have to keep, and what holds of the code that      *)
(* comes out.                                                              *)
(*                                                                         *)
(* The operators are recursive and this module is only model-checked.      *)
(***************************************************************************)
EXTENDS Toolchain, ProgramSemantics

CONSTANTS
  States,       \* per type, numbers a node's state takes when programs are compared
  Hoods         \* and the sequences of its neighbours' states; all in halves

\* visitor.used_primitives, filled from the nodes the visitor comes to.
RECURSIVE Visited(_)
Visited(b) ==
  UNION {LET s == b[i] IN
         IF s.k \in {"foreach", "unpack"} THEN {}
         ELSE UNION {Met(e) : e \in Exprs(s)}
                \cup UNION {Visited(c) : c \in IF s.k \in {"for", "while"} THEN {s.body}
                                               ELSE Bodies(s)} : i \in DOMAIN b}
UsedPrimitives(b) == {p.op : p \in {q \in Visited(b) : q.k = "call"}} \cap DOMAIN Header

PrimitiveHeaders(b) == {Header[p] : p \in UsedPrimitives(b)}

----------------------------------------------------------------------------
(* The types of a program, as C++ will have them: of the state, and of a   *)
(* name that of its first assignment.                                      *)

PlainState == job.type \in {Ann("float", <<>>), Ann("int", <<>>)}
StateType  == IF job.type = Ann("float", <<>>) THEN "double" ELSE "int"

RECURSIVE NameTypes(_, _)
NameTypes(g, b) ==
  IF b = <<>> THEN g
  ELSE LET s   == Head(b)
           own == CASE s.k = "assign" -> s.x :> TypeOf(<<g>>, s.e)
                    [] s.k = "for"    -> s.x :> "int"
                    [] OTHER          -> <<>>
       IN  NameTypes(FoldLeft(NameTypes, g @@ own, BodiesIn(s)), Tail(b))
TypesOf(b) ==
  <<NameTypes((job.sig.params[1] :> StateType) @@ (job.sig.params[2] :> VectorOf(StateType)), b)>>

NamesIn(e) == {p.x : p \in {q \in Parts(e) : q.k = "name"}}
AugValue(s) == Bin(s.op, Name(s.x), s.e)
Computed(b) == AllParts(b) \cup {AugValue(s) : s \in {t \in All(b) : t.k = "aug"}}
Natural(e) == e.k = "num" /\ e.t = "int" /\ e.v >= 0

----------------------------------------------------------------------------
(* The rules a program has to keep for its C++ to mean what it means.      *)

AsNumbers(b) ==           \* the expressions whose number matters, not only its truth
  UNION {Exprs(s) : s \in {t \in All(b) : t.k \notin {"ifs", "while", "match"}}}
    \cup {s.e : s \in {t \in All(b) : t.k = "match"}}
    \cup UNION {ToSet(q.sub) : q \in {r \in AllParts(b) :
                  \/ r.k \in {"bin", "cmp", "index"}
                  \/ r.k \in {"un", "call"} /\ r.op \notin {"not", "bool"}}}
    \cup UNION {{q.sub[2], q.sub[3]} : q \in {r \in AllParts(b) : r.k = "if"}}

NothingIgnored(b) ==      \* by visitor.errors, or without a word
  /\ Errors(b) = {}
  /\ \A s \in All(b) : /\ s.k = "aug" => s.op \in BinOps \ {"**"}
                       /\ s.k \in {"for", "while"} => s.els = <<>>
NoShadow(b) ==
  \A s \in All(b) : /\ s.k = "assign" => Renamed(s.x) \notin Params
                    /\ s.k = "for" => Renamed(s.x) \notin Declared(b) \cup Params
SteadyRange(b) ==
  \A s \in All(b) : s.k = "for" =>
    /\ \A i \in DOMAIN s.args : \A x \in NamesIn(s.args[i]) :
         /\ x # s.x
         /\ \A t \in All(s.body) : t.k \in {"assign", "aug", "for"} => t.x # x
    /\ \A t \in All(s.body) : t.k = "aug" => t.x # s.x
    /\ Len(s.args) = 3 => Natural(s.args[3]) /\ s.args[3].v > 0
GuardLast(b) ==
  \A s \in All(b) : s.k = "match" => \A j \in 1..(Len(s.cases) - 1) : s.cases[j].guard = NoGuard
NoBreakInMatch(b) ==
  \A s \in All(b) : s.k = "match" =>
    \A t \in UNION {All(c.body) : c \in Cases(s)} : t.k # "break"
PlainNumbers(b) ==
  \A p \in AllParts(b) :
    /\ p.k = "bool" => p \notin AsNumbers(b)
    /\ p.k \in {"bin", "cmp", "un"} =>
         \A i \in DOMAIN p.sub : p.sub[i].k = "cmp" => Len(p.sub[i].ops) = 1

\* A variable keeps its first type, and a float is not returned as an int.
TypeStable(b) ==
  LET ty == TypesOf(b) IN
  \A s \in All(b) :
    /\ s.k \in {"assign", "aug"} => TypeOf(ty, IF s.k = "aug" THEN AugValue(s) ELSE s.e) = TypeOf(ty, Name(s.x))
    /\ s.k = "return" => TypeOf(ty, s.e) = StateType \/ StateType = "double"

\* No division of whole numbers, no remainder, no sum of floats in an int, and
\* std::size_t only where it cannot meet what is negative.
Unsigned(ty, p) ==
  LET ts == {TypeOf(ty, p.sub[i]) : i \in DOMAIN p.sub} IN
  "size" \in ts /\ "double" \notin ts
LosesNothing(b) ==
  LET ty == TypesOf(b)
      Up(s) == Len(s.args) = 1 \/ Natural(s.args[1])    \* a range from a natural number
  IN
  /\ \A p \in Computed(b) :
       /\ p.k = "bin" => p.op # "%" /\ (p.op = "/" => "double" \in {TypeOf(ty, p.sub[1]), TypeOf(ty, p.sub[2])})
       /\ p.k \in {"bin", "cmp"} /\ Unsigned(ty, p) =>
            /\ \A i \in DOMAIN p.sub : TypeOf(ty, p.sub[i]) = "size" \/ Natural(p.sub[i])
            /\ p.k = "bin" => p.op \in {"+", "*", "**"}
       /\ p.k = "un" /\ Unsigned(ty, p) => p.op = "not"
       /\ p.k = "if" => "size" \notin {TypeOf(ty, p.sub[2]), TypeOf(ty, p.sub[3])}
       /\ p.k = "call" /\ p.op = "sum" => TypeOf(ty, p.sub[1]) = "ints"
       /\ p.k = "index" => \/ Natural(p.sub[2])
                           \/ \E s \in All(b) : s.k = "for" /\ Up(s) /\ p.sub[2] = Name(s.x)
  /\ \A s \in All(b) : s.k = "for" /\ (\E i \in DOMAIN s.args : TypeOf(ty, s.args[i]) = "size") => Up(s)

Disciplined(b) ==
  /\ NothingIgnored(b) /\ NoShadow(b) /\ SteadyRange(b) /\ GuardLast(b) /\ PlainNumbers(b)
  /\ TypeStable(b) /\ LosesNothing(b)

\* Every name is assigned at the top level first, and read only after that.
Scoped(b) ==
  \A i \in DOMAIN b :
    LET known == {b[j].x : j \in {h \in 1..(i - 1) : b[h].k = "assign"}}
        loop  == IF b[i].k = "for" THEN {b[i].x} ELSE {}
    IN  /\ b[i].k = "assign" => NamesIn(b[i].e) \subseteq (known \cup ToSet(job.sig.params)) \ {b[i].x}
        /\ \A s \in All(<<b[i]>>) :
             /\ s.k \in {"assign", "aug"} => s.x \in known \/ (s = b[i] /\ s.k = "assign")
             /\ s.k \in {"assign", "for"} => Renamed(s.x) \notin Params
             /\ UNION {NamesIn(e) : e \in Exprs(s)}
                  \subseteq known \cup ToSet(job.sig.params) \cup (IF s = b[i] THEN {} ELSE loop)
             /\ s.k = "match" =>
                  \A c, d \in Cases(s) : \A p \in ToSet(c.pats), q \in ToSet(d.pats) :
                    c # d => Text(p) # Text(q)

\* Every expression has a type, and one that its place allows.
WellTyped(b) ==
  LET ty == TypesOf(b)
      IsNumber(e) == TypeOf(ty, e) \in Numeric
  IN
  \A s \in All(b) :
    CASE s.k = "assign" -> /\ TypeOf(ty, s.e) \in Numeric \cup Vectors
                           /\ \/ TypeOf(ty, Name(s.x)) = TypeOf(ty, s.e)
                              \/ IsNumber(Name(s.x)) /\ IsNumber(s.e)
      [] s.k = "expr"  -> TypeOf(ty, s.e) \in Numeric \cup Vectors
      [] s.k = "aug"   -> IsNumber(AugValue(s))
      [] s.k = "match" -> /\ TypeOf(ty, s.e) \in {"int", "bool"}
                          /\ \A e \in Exprs(s) : IsNumber(e)
                          /\ \A p \in Patterns(s) : p.k \in {"num", "un"} => TypeOf(ty, p) = "int"
      [] OTHER         -> \A e \in Exprs(s) : IsNumber(e)

----------------------------------------------------------------------------
(* Properties.                                                             *)

Python(s, n) == Run("py", <<(job.sig.params[1] :> s) @@ (job.sig.params[2] :> n)>>, job.body)
Cplus(s, n)  == Run("cpp", <<[self_state |-> s, neighbor_states |-> n]>>, out.code)
Vector(h)    == Value(VectorOf(StateType), [i \in DOMAIN h |-> Value(StateType, h[i])])
Agree(py, cpp) == py.ctl = "return" => cpp.ctl = "return" /\ cpp.v.v = py.v.v
SameResult ==
  \A h \in States[StateType], n \in Hoods[StateType] :
    LET s == Value(StateType, h) IN Agree(Python(s, Vector(n)), Cplus(s, Vector(n)))

\* A program over a numeric state that keeps the rules and that g++ accepts
\* returns in C++ the number it returns in Python, whatever the state and the
\* neighbours, int, double, std::size_t and bool converted as C++ does (visit_*,
\* _transpile_method_body).
CompiledAgrees ==
  Generated /\ PlainState /\ Disciplined(job.body) /\ NoBreakInMatch(job.body)
    /\ Compiles(StateType, out.code)
    => SameResult

\* Violated: the same with break allowed wherever Python allows it.  In a match
\* inside of a loop it ends the switch and not the loop (visit_Break).
BreakAgrees ==
  Generated /\ PlainState /\ Disciplined(job.body) /\ Compiles(StateType, out.code) => SameResult

\* A program over a numeric state that keeps the rules of scope, whose
\* expressions have types and that uses no primitive is accepted by g++: no
\* parameter is left under its Python name, no name is declared twice or out of
\* sight, no operand is lost and no text binds to another operand in a way that
\* has no type (visit_Assign, visit_Match, param_remap).
ScopedCompiles ==
  Generated /\ PlainState /\ NothingIgnored(job.body) /\ Scoped(job.body) /\ WellTyped(job.body)
    => Compiles(StateType, out.code)

\* Violated: a program that uses a primitive in compute(), as TUTORIAL_simple.md
\* does at line 148, is accepted.  compute_next_state() has neither a node nor CALL.
PrimitivesCompile ==
  Generated /\ PlainState /\ NothingIgnored(job.body) /\ Scoped(job.body)
    /\ UsedPrimitives(job.body) # {}
    => Compiles(StateType, out.code)
=============================================================================

---------------------------- MODULE MCToolchain ----------------------------
(***************************************************************************)
(* The jobs TLC takes through Toolchain: all small expressions, bodies     *)
(* built from a list of statements, signatures, types, texts and trees.    *)
(***************************************************************************)
EXTENDS ToolchainPrograms

MCHeader  == [nbr |-> "basics.hpp", gossip |-> "collection.hpp"]
MCGlobals == [r \in {<<"Role", "A">>, <<"Role", "B">>} |-> IF r[2] = "A" THEN 1 ELSE 2]

S == Name("self_state")
X == Name("x")
N == Name("neighbors")
I == Name("i")

\* Expressions of one operator over two numbers and the state, and of two.
Atoms == {Num(0), Num(2), S}
Lt == {<<"<">>, <<"==">>, <<"in">>}
Small(A, B) ==
       {Bin(op, a, b) : op \in {"-", "//", "%"}, a \in A, b \in B}
  \cup {Cmp(ops, <<a, b>>) : ops \in Lt, a \in A, b \in B}
  \cup {Bool(op, <<a, b>>) : op \in {"and", "or"}, a \in A, b \in B}
LongCmps == {Cmp(<<"<", o>>, <<Num(0), a, b>>) : o \in {"<=", "in"}, a, b \in Atoms}
Exprs1 == (Small(Atoms, Atoms) \ {Cmp(<<"in">>, <<a, b>>) : a, b \in Atoms}) \cup LongCmps
       \cup {Un(op, S) : op \in {"not", "-", "~"}}
       \cup {Call("max", <<S, Num(1)>>), Call("abs", <<S>>), Call("len", <<N>>), Call("sum", <<N>>),
             Call("max", <<N>>), Call("nbr", <<S>>), Index(Tuple(<<S, Num(2)>>), Num(1)), Call("helper", <<S>>), Index(N, Num(0)),
             Index(N, Un("-", Num(1))), Attr("Role", "B"), Other(3), Boolean(1),
             Bin("**", S, Num(2)), Bin("/", S, Num(2)), Bin("/", S, Halves(4)), Halves(1), Name("y"),
             Call("float", <<S>>), Call("int", <<S>>), Call("self_uid", <<>>), Call("max", <<S, Halves(3)>>),
             Call("max", <<Tuple(<<S, Halves(3), S>>)>>), Call("frozenset", <<SetOf(<<S>>)>>), Call("frozenset", <<Call("nbr", <<S>>)>>),
             Call("min_hood", <<Tuple(<<S, Num(1)>>)>>), Method(S, "size", <<>>), SetOf(<<S>>), Tuple(<<S>>),
             Bin("+", Call("len", <<N>>), Num(1)), Bin("-", Call("len", <<N>>), Num(1)), N}
Sound == {e \in Exprs1 : ~(e.k = "cmp" /\ \E i \in DOMAIN e.ops : e.ops[i] = "in")}
Exprs2 == {Un("not", e) : e \in Sound} \cup {Bin("+", S, e) : e \in Sound}
       \cup {Cmp(<<"<">>, <<e, S>>) : e \in Sound} \cup {Bool("or", <<e, S>>) : e \in Sound}
       \cup {IfExp(e, Num(5), S) : e \in Sound} \cup {IfExp(S, e, Num(5)) : e \in Sound}
       \cup {Call("bool", <<e>>) : e \in Sound}

\* Statements; those of Inner also stand in the body of a conditional or a loop.
Below == Cmp(<<"<">>, <<S, Num(1)>>)
Inner == {Assign("x", Num(5)), Assign("x", S), Assign("x", Halves(1)), Assign("y", Call("len", <<N>>)), Aug("x", "+", S), Aug("x", "/", Num(2)),
          ExprOnly(Call("nbr", <<S>>)), ExprOnly(X), Return(Nothing), Aug("x", "+", Index(N, I)), Assign("y", Num(6)), Assign("i", Num(7)), Assign("self_state", Num(8)),
          Aug("x", "+", I), Aug("x", "//", Num(2)), Aug("x", "+", Num(1)),
          Unpack(<<"x", "y">>, <<Num(3), Num(4)>>), Return(X), Jump("pass"), Jump("odd")}
Blocks == {<<s>> : s \in Inner}
Leaving == {<<If(Below, <<Jump(j)>>, <<>>), Aug("x", "+", Num(3))>> : j \in {"break", "continue"}}
Matches(a, g) == {Match(S, <<Case(<<Num(0), Attr("Role", "A")>>, g, a), Case(<<Num(3)>>, NoGuard, <<Aug("x", "+", Num(2))>>)>>),
                  Match(S, <<Case(<<Num(0), Num(1)>>, g, a), Case(<<Wild>>, NoGuard, <<Assign("x", Num(9))>>)>>),
                  Match(S, <<Case(<<Attr("Role", "A")>>, NoGuard, <<Aug("x", "+", Num(2))>>), Case(<<Wild>>, g, a)>>)}
Compound ==
       {If(Below, a, b) : a, b \in Blocks \cup {<<>>}}
  \cup {For("i", as, a, els) : as \in {<<Num(2)>>, <<S, Num(2)>>, <<Num(2), Num(0), Un("-", Num(1))>>, <<Num(0), X, Num(2)>>,
                                     <<Call("len", <<N>>)>>, <<Bin("-", Call("len", <<N>>), Num(1))>>, <<S, Call("len", <<N>>)>>},
                               a \in Blocks \cup Leaving, els \in {<<>>, <<Assign("x", Num(7))>>}}
  \cup {While(Cmp(<<"<">>, <<X, Num(3)>>), a, <<>>) : a \in Blocks \cup Leaving}
  \cup {ForEach("i", N, a) : a \in Blocks}
  \cup UNION {Matches(a, g) : a \in Blocks, g \in {NoGuard, Below}}
  \cup {For("i", <<Num(2)>>, <<m, Aug("x", "+", Num(1))>>, <<>>) : m \in Matches(<<Jump("break")>>, NoGuard)}
  \cup {Match(S, <<Case(<<Capture>>, NoGuard, <<Assign("x", Num(1))>>)>>),
        Match(S, <<Case(<<Num(0), Wild>>, NoGuard, <<Assign("x", Num(1))>>)>>)}
Simple1 == {<<Assign("x", e)>> : e \in {Num(0), Halves(0), S}}
Bodies1 == {<<Return(e)>> : e \in Sound \cup Exprs2}
      \cup {<<s>> : s \in {Jump("pass"), Jump("odd")}}
      \cup {<<If(e, <<Return(Num(1))>>, <<>>), Return(Num(0))>> : e \in Sound}
Bodies2 == {a \o <<c>> \o <<Return(X)>> : a \in Simple1, c \in Compound \cup Inner}
      \cup {<<c, Return(X)>> : c \in Compound}
      \cup {<<Assign("x", Num(0)), Assign("i", Num(4)), c, Return(Bin("+", X, I))>> : c \in Compound}

Methods == {"initial_state", "compute"}
Valid(p) == Sig(Methods, 0, TRUE, p, TRUE)
Usual == Valid(<<"self_state", "neighbors">>)
Line(said, v) == [said |-> said, v |-> v]
Constant == <<Line(FALSE, 0), Line(TRUE, 0)>>
Float == Ann("float", <<>>)
Integer == Ann("int", <<>>)

Signatures ==
  {Sig(has, n, ann, p, cann) : has \in SUBSET Methods, n \in {0, 1}, ann, cann \in BOOLEAN,
     p \in {<<"self_state", "neighbors">>, <<"s", "nbrs">>, <<"me", "nbrs">>, <<"state">>}}
Flat == {Ann(k, <<>>) : k \in {"float", "int", "str", "bytes", "list", "dict", "forward", "CppAny"}}
   \cup {Class("dataclass", "Empty", <<>>), Class("class", "Foreign", <<>>)}
Nested(A) ==
       {Ann(k, <<a>>) : k \in {"list", "set", "frozenset", "CppVector", "CppOptional", "CppPair"}, a \in A}
  \cup {Ann(k, <<a>>) : k \in {"CppUnorderedSet", "CppMultiSet", "CppMdSpan"}, a \in A}
  \cup {Ann(k, <<Float, a>>) : k \in {"CppUnorderedMap", "CppMultiMap", "CppExpected"}, a \in A}
  \cup {Ann("tuple", <<a, b>>) : a, b \in A} \cup {Ann("dict", <<Ann("str", <<>>), a>>) : a \in A}
  \cup {Ann("Union", <<a, NoneType>>) : a \in A} \cup {Ann("Union", <<a, Float>>) : a \in A}
  \cup {Ann("CppVariant", <<a, Float>>) : a \in A}
Types1 == Flat \cup Nested(Flat) \cup {Ann("list", <<t>>) : t \in Nested(Flat)}
Inside == Class("dataclass", "Inside", <<Float>>)
Types2 == Types1 \cup {Ann("tuple", <<NoneType, a>>) : a \in Nested({Float})} \cup {Class("dataclass", "State", <<a, Float>>) : a \in Types1 \cup {Inside}}

\* Every annotation that stands in one of these, and how deep it is.
MCTypes == Types2 \cup {NoneType, Inside}
RECURSIVE Depth(_)
Depth(t) == Max({0} \cup {Depth(t.args[i]) + 1 : i \in DOMAIN t.args})
MCHeight == [t \in MCTypes |-> Depth(t)]

MCClasses ==
       {ClassJob(Usual, t, Constant, b) : t \in {Float, Integer}, b \in Bodies1 \cup Bodies2}
  \cup {ClassJob(Valid(<<p, q>>), Float, Constant, <<c, Return(Name(p))>>) :
          p \in StateNames, q \in NbrNames, c \in {Assign(y, Num(1)) : y \in {"s", "state", "nbrs", "z"}}}
  \cup {ClassJob(sig, Float, Constant, <<Return(Num(0))>>) : sig \in Signatures}
  \cup {ClassJob(Usual, t, Constant, <<Return(Num(0))>>) : t \in Types2}

MCStates == [double |-> {-2, 0, 1, 2, 6}, int |-> {-2, 0, 2, 6}]
MCHoods == [double |-> {<<>>, <<3, -1>>}, int |-> {<<>>, <<4, -2>>}]

MCInts == {"1", "2"}
MCKeywords == {"def", "initial_state", "compute"}
MCWords == MCKeywords \cup {"f", "s", "n", "x"}
MCPrims == {"nbr"}
MCTexts == UNION {[1..n -> {"1", "x", "+", "<", "nbr", "(", ")", ","}] : n \in 1..5}
      \cup UNION {[1..n -> {"1", "x", "+", "nbr", "(", ")", "=", ";"}] : n \in 0..5}
Leaf == {Node("int", "1", <<>>), Node("name", "x", <<>>)}
Grow(A, B) == {Node("binop", op, <<a, b>>) : op \in {"+", "*", "<"}, a \in A, b \in B}
         \cup {Node("call", "nbr", <<a>>) : a \in A} \cup {Node("call", "nbr", <<a, b>>) : a \in A, b \in B}
MCSyntax == LET one == Leaf \cup Grow(Leaf, Leaf) \cup {Node("call", "nbr", <<>>)}
           IN  one \cup Grow(one, Leaf) \cup Grow(Leaf, one)
RECURSIVE Deep(_)
Deep(a) == Max({0} \cup {Deep(a.ch[i]) + 1 : i \in DOMAIN a.ch})
MCRank == [a \in MCSyntax |-> Deep(a)]
=============================================================================

------------------------------ MODULE CppTypes ------------------------------
(***************************************************************************)
(* python_dsl/types: the C++ type AggregateType.infer() gives a Python     *)
(* annotation, the headers it asks for, and the struct that is declared.   *)
(*                                                                         *)
(* An annotation is a record: k names its constructor, args are its type   *)
(* arguments (the fields' types for a dataclass), and name is the name of  *)
(* a class.  Of a C++ type only the names in it are kept: a compiler has   *)
(* to know each of them, however they are nested.                          *)
(***************************************************************************)
EXTENDS Integers, Sequences

CONSTANTS
  Types,        \* the annotations, with all that are written inside of them
  Height        \* how deep each one is

Ann(k, args)      == [k |-> k, args |-> args, name |-> k]
Class(k, n, args) == [k |-> k, args |-> args, name |-> n]   \* "dataclass" or "class"
NoneType == Ann("None", <<>>)

\* An annotation is a finite tree: what names its own class inside of it is a
\* string, "forward".
ASSUME TypesAreTrees ==
  /\ Height \in [Types -> Nat]
  /\ \A t \in Types : /\ t.args \in Seq(Types)
                      /\ \A i \in DOMAIN t.args : Height[t.args[i]] < Height[t]

Type(c, sub) == {c} \cup UNION {sub[i] : i \in DOMAIN sub}

\* PYTHON_TO_CPP
Builtin == [float |-> {"double"}, int |-> {"int"}, bool |-> {"bool"}, str |-> {"string"},
            bytes |-> {"vector", "uint8_t"}]

\* The header each C++ name lives in, for the names that need one.
HeaderOf == [vector |-> "<vector>", tuple |-> "<tuple>", map |-> "<map>", multimap |-> "<map>",
             set |-> "<set>", multiset |-> "<set>", unordered_set |-> "<unordered_set>",
             unordered_map |-> "<unordered_map>", string |-> "<string>",
             optional |-> "<optional>", variant |-> "<variant>", any |-> "<any>",
             span |-> "<span>", mdspan |-> "<mdspan>", expected |-> "<expected>",
             pair |-> "<utility>", uint8_t |-> "<cstdint>"]
Asks(cs) == {HeaderOf[c] : c \in cs \cap DOMAIN HeaderOf}

\* The template a generic annotation becomes, and how many of its arguments are
\* looked at (0: all); without them (typing.List) it becomes the names in Bare.
Generic == [list |-> <<"vector", 1>>, set |-> <<"set", 1>>, frozenset |-> <<"set", 1>>,
            dict |-> <<"map", 2>>, tuple |-> <<"tuple", 0>>]
Bare == [list |-> {"vector", "double"}, set |-> {"set", "double"},
         frozenset |-> {"set", "double"}, dict |-> {"map", "string", "double"}]

\* The proxies: template and number of arguments (0: at least two).
Proxy == [CppVector |-> <<"vector", 1>>, CppSet |-> <<"set", 1>>,
          CppUnorderedSet |-> <<"unordered_set", 1>>, CppMultiSet |-> <<"multiset", 1>>,
          CppOptional |-> <<"optional", 1>>, CppSpan |-> <<"span", 1>>,
          CppMdSpan |-> <<"mdspan", 1>>, CppMap |-> <<"map", 2>>,
          CppUnorderedMap |-> <<"unordered_map", 2>>, CppMultiMap |-> <<"multimap", 2>>,
          CppPair |-> <<"pair", 2>>, CppExpected |-> <<"expected", 2>>,
          CppVariant |-> <<"variant", 0>>]

Inferred(type, inc) == [ok |-> TRUE, type |-> type, inc |-> inc, fields |-> <<>>]
Refused == [ok |-> FALSE, type |-> {}, inc |-> {}, fields |-> <<>>]

\* Mutant: the arguments' headers are forgotten.
OverOwnHeader(c, rs) ==
  IF \E i \in DOMAIN rs : ~rs[i].ok THEN Refused
  ELSE Inferred(Type(c, [i \in DOMAIN rs |-> rs[i].type]), Asks({c}))

\* A template over inferred arguments, with their headers merged into its own.
Over(c, rs) ==
  IF \E i \in DOMAIN rs : ~rs[i].ok THEN Refused
  ELSE Inferred(Type(c, [i \in DOMAIN rs |-> rs[i].type]),
                Asks({c}) \cup UNION {rs[i].inc : i \in DOMAIN rs})

InferGeneric(t, rs) ==
  LET n == Generic[t.k][2]
  IN  IF Len(t.args) < n THEN Inferred(Bare[t.k], Asks(Bare[t.k]))
      ELSE Over(Generic[t.k][1], IF n = 0 THEN rs ELSE [i \in 1..n |-> rs[i]])

\* The argument that is not None, of a union of it with None.
Half(t) == {i \in 1..2 : Len(t.args) = 2 /\ t.args[i] # NoneType /\ t.args[3 - i] = NoneType}

InferUnion(t, rs) ==
  IF Half(t) # {} THEN Over("optional", [j \in {1} |-> rs[CHOOSE i \in Half(t) : TRUE]])
  ELSE Over("variant", rs)

InferProxy(t, rs) ==
  LET n == Proxy[t.k][2]
  IN  IF (n = 0 /\ Len(t.args) >= 2) \/ (n > 0 /\ Len(t.args) = n) THEN Over(Proxy[t.k][1], rs)
      ELSE Refused

InferStruct(t, rs) ==
  IF \E i \in DOMAIN rs : ~rs[i].ok THEN Refused
  ELSE [Inferred({t.name}, UNION {rs[i].inc : i \in DOMAIN rs})
          EXCEPT !.fields = [i \in DOMAIN rs |-> rs[i].type]]

\* What infer() makes of t, given what it makes of t's arguments.
InferWith(t, rs) ==
  CASE t.k \in DOMAIN Builtin   -> Inferred(Builtin[t.k], Asks(Builtin[t.k]))
    [] t.k \in DOMAIN Generic   -> InferGeneric(t, rs)
    [] t.k = "Union"            -> InferUnion(t, rs)
    [] t.k \in DOMAIN Proxy     -> InferProxy(t, rs)
    [] t.k = "CppAny"           -> IF t.args = <<>> THEN Over("any", <<>>) ELSE Refused
    [] t.k = "dataclass"        -> InferStruct(t, rs)
    [] t.k = "forward"          -> Refused     \* a string, not a type
    [] OTHER                    -> Inferred({t.name}, {})

Infer[t \in Types] == InferWith(t, [i \in DOMAIN t.args |-> Infer[t.args[i]]])

----------------------------------------------------------------------------
(* generate(): the declaration of the state's struct.                      *)

DeclaresStruct(r) == r.fields # <<>>

\* g++ knows every name: a type of the language, a name whose header is there,
\* or the struct that is declared.
Basic == {"double", "int", "bool"}
Knows(names, includes) ==
  \A n \in names : n \in Basic \/ (n \in DOMAIN HeaderOf /\ HeaderOf[n] \in includes)
TypeCompiles(r, includes) ==
  /\ DeclaresStruct(r) \/ Knows(r.type, includes)
  /\ \A i \in DOMAIN r.fields : Knows(r.fields[i], includes)

\* The arguments a type is built of: None is only the other half of an optional.
StandardKinds == UNION {DOMAIN Builtin, DOMAIN Generic, DOMAIN Proxy, {"Union", "CppAny"}}
Kept(t) == IF t.k = "Union" /\ Half(t) # {} THEN Half(t) ELSE DOMAIN t.args

\* Annotations of built-in and library types alone.
Standard[t \in Types] == t.k \in StandardKinds /\ \A i \in Kept(t) : Standard[t.args[i]]

\* One of these, or a dataclass with fields of them.
Simple(t) ==
  IF t.k = "dataclass" THEN t.args # <<>> /\ \A i \in DOMAIN t.args : Standard[t.args[i]]
  ELSE Standard[t]
=============================================================================

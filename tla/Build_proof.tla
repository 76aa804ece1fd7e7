---------------------------- MODULE Build_proof -----------------------------
(***************************************************************************)
(* From a class or a text to a binary.  For any classes and any state      *)
(* types: code is generated for valid classes alone, and what it declares  *)
(* of the state compiles.  For any texts and any trees: the fallback       *)
(* parser follows the grammar, and a tree that is written out is read back *)
(* and kept by ast_to_dsl() (Toolchain).  For any programs and processes,  *)
(* as long as nothing disturbs the cache: it returns complete binaries and *)
(* compiles no recorded program again (BuildCache).                        *)
(***************************************************************************)
EXTENDS Toolchain, BuildCache, WellFoundedInduction, SequenceTheorems, TLAPS

-----------------------------------------------------------------------------
(* Annotations are trees: induction, and the recursive functions exist.    *)

\* A set of numbers has a least one.
LEMMA LeastNumber ==
  ASSUME NEW S \in SUBSET Nat, S # {}
  PROVE  \E m \in S : \A n \in S : m <= n
<1> DEFINE R == {p \in Nat \X Nat : p[1] < p[2]}
<1>1. IsWellFoundedOn(R, Nat) BY NatLessThanWellFounded DEF OpToRel
<1>2. PICK m \in S : \A n \in S : <<n, m>> \notin R
  <2> HIDE DEF R
  <2> QED BY <1>1, WFMin
<1>3. ASSUME NEW n \in S PROVE m <= n
  <2>1. m \in Nat /\ n \in Nat /\ <<n, m>> \in Nat \X Nat OBVIOUS
  <2>2. ~(n < m) BY <1>2, <2>1
  <2>3. QED BY <2>1, <2>2
<1>4. QED BY <1>3

\* What holds of an annotation as soon as it holds of all its arguments, holds.
LEMMA HeightInduction ==
  ASSUME NEW G, \A t \in Types : (\A i \in DOMAIN t.args : t.args[i] \in G) => t \in G
  PROVE  Types \subseteq G
<1> SUFFICES ASSUME NEW w \in Types, w \notin G PROVE FALSE OBVIOUS
<1> DEFINE S == {n \in Nat : \E t \in Types : t \notin G /\ Height[t] = n}
<1>1. Height[w] \in S BY TypesAreTrees
<1>2. PICK m \in S : \A n \in S : m <= n
  <2>1. S \in SUBSET Nat /\ S # {} BY <1>1
  <2> HIDE DEF S
  <2> QED BY <2>1, LeastNumber
<1>3. PICK t \in Types : t \notin G /\ Height[t] = m BY <1>2
<1>4. ASSUME NEW i \in DOMAIN t.args PROVE t.args[i] \in G
  <2>1. t.args[i] \in Types BY TypesAreTrees
  <2>2. Height[t.args[i]] \in Nat /\ Height[t.args[i]] < Height[t] BY <2>1, TypesAreTrees
  <2>3. QED BY <1>2, <1>3, <2>1, <2>2
<1>5. QED BY <1>3, <1>4

\* infer() returns: what it makes of an annotation is made of what it makes of
\* the arguments.
LEMMA InferIs ==
  \A t \in Types : Infer[t] = InferWith(t, [i \in DOMAIN t.args |-> Infer[t.args[i]]])
<1> DEFINE E(f, t) == InferWith(t, [i \in DOMAIN t.args |-> f[t.args[i]]])
           Below(k) == {t \in Types : Height[t] < k}
           Sol(f, k) == f = [t \in Below(k) |-> E(f, t)]
<1>a. ASSUME NEW t \in Types, NEW i \in DOMAIN t.args
      PROVE  t.args[i] \in Types /\ Height[t] \in Nat /\ Height[t.args[i]] \in Nat
             /\ Height[t.args[i]] < Height[t]
  BY TypesAreTrees
<1>e. ASSUME NEW t, NEW f, NEW g, \A i \in DOMAIN t.args : f[t.args[i]] = g[t.args[i]]
      PROVE  E(f, t) = E(g, t)
  <2>1. [i \in DOMAIN t.args |-> f[t.args[i]]] = [i \in DOMAIN t.args |-> g[t.args[i]]] BY <1>e
  <2>2. QED BY <2>1
<1>1. ASSUME NEW k \in Nat, NEW l \in Nat, NEW f, NEW g, Sol(f, k), Sol(g, l),
             NEW t \in Types, Height[t] < k, Height[t] < l
      PROVE  f[t] = g[t]
  <2> DEFINE G == {u \in Types : Height[u] < k /\ Height[u] < l => f[u] = g[u]}
  <2>1. ASSUME NEW u \in Types, \A i \in DOMAIN u.args : u.args[i] \in G PROVE u \in G
    <3> SUFFICES ASSUME Height[u] < k, Height[u] < l PROVE f[u] = g[u] OBVIOUS
    <3>1. f[u] = E(f, u) /\ g[u] = E(g, u) BY <1>1
    <3>2. \A i \in DOMAIN u.args : f[u.args[i]] = g[u.args[i]]
      <4> TAKE i \in DOMAIN u.args
      <4>1. Height[u.args[i]] < k /\ Height[u.args[i]] < l BY <1>a
      <4>2. QED BY <2>1, <4>1
    <3>3. QED BY <3>1, <3>2, <1>e
  <2>2. Types \subseteq G
    <3> HIDE DEF G
    <3> QED BY <2>1, HeightInduction
  <2>3. QED BY <2>2, <1>1
<1>2. ASSUME NEW k \in Nat, NEW f, Sol(f, k) PROVE \E g : Sol(g, k + 1)
  <2> DEFINE g == [t \in Below(k + 1) |-> E(f, t)]
  <2>1. ASSUME NEW t \in Below(k + 1) PROVE E(f, t) = E(g, t)
    <3>1. \A i \in DOMAIN t.args : f[t.args[i]] = g[t.args[i]]
      <4> TAKE i \in DOMAIN t.args
      <4> DEFINE u == t.args[i]
      <4>1. u \in Types /\ Height[u] \in Nat /\ Height[u] < k BY <1>a
      <4>2. u \in Below(k) /\ u \in Below(k + 1) BY <4>1
      <4>3. f[u] = E(f, u) BY <1>2, <4>2
      <4>4. g[u] = E(f, u) BY <4>2
      <4>5. QED BY <4>3, <4>4
    <3> HIDE DEF g
    <3>2. QED BY <3>1, <1>e
  <2>2. g = [t \in Below(k + 1) |-> E(g, t)]
    <3>1. \A t \in Below(k + 1) : E(f, t) = E(g, t) BY <2>1
    <3> HIDE DEF E, Below
    <3>2. QED BY <3>1
  <2>3. QED BY <2>2
<1>3. \E f : Sol(f, 0)
  <2>1. Below(0) = {} BY TypesAreTrees
  <2>2. Sol([t \in {} |-> t], 0) BY <2>1
  <2>3. QED BY <2>2
<1>4. \A k \in Nat : \E f : Sol(f, k)
  <2> HIDE DEF Sol
  <2> DEFINE K == {k \in Nat : \A f : ~Sol(f, k)}
  <2> SUFFICES ASSUME K # {} PROVE FALSE OBVIOUS
  <2>1. PICK k \in K : \A n \in K : k <= n
    <3>1. K \in SUBSET Nat OBVIOUS
    <3> HIDE DEF K
    <3> QED BY <3>1, LeastNumber
  <2>2. k \in Nat /\ \A f : ~Sol(f, k) OBVIOUS
  <2>3. k # 0 BY <2>2, <1>3
  <2>4. k - 1 \in Nat /\ k - 1 \notin K
    <3>1. k - 1 \in Nat /\ ~(k <= k - 1) BY <2>2, <2>3
    <3> HIDE DEF K
    <3>2. QED BY <2>1, <3>1
  <2>5. PICK f : Sol(f, k - 1) BY <2>4
  <2>6. \E g : Sol(g, (k - 1) + 1) BY <2>4, <2>5, <1>2
  <2>7. (k - 1) + 1 = k BY <2>2
  <2>8. QED BY <2>2, <2>6, <2>7
<1> DEFINE F(t) == CHOOSE f : Sol(f, Height[t] + 1)
           h == [t \in Types |-> F(t)[t]]
<1>5. ASSUME NEW t \in Types PROVE Height[t] + 1 \in Nat /\ Sol(F(t), Height[t] + 1)
  <2>1. Height[t] + 1 \in Nat BY TypesAreTrees
  <2>2. \E f : Sol(f, Height[t] + 1) BY <2>1, <1>4
  <2> HIDE DEF Sol
  <2>3. QED BY <2>1, <2>2
<1> HIDE DEF F
<1>6. ASSUME NEW t \in Types PROVE h[t] = E(h, t)
  <2>1. F(t)[t] = E(F(t), t)
    <3>1. t \in Below(Height[t] + 1) BY TypesAreTrees
    <3>2. QED BY <3>1, <1>5
  <2>2. \A i \in DOMAIN t.args : F(t)[t.args[i]] = h[t.args[i]]
    <3> TAKE i \in DOMAIN t.args
    <3>1. PICK u : u = t.args[i] OBVIOUS
    <3>2. u \in Types /\ Height[u] \in Nat /\ Height[t] \in Nat /\ Height[u] < Height[t] BY <1>a, <3>1
    <3>3. Height[u] < Height[t] + 1 /\ Height[u] < Height[u] + 1 BY <3>2
    <3>4. F(t)[u] = F(u)[u]
      <4>1. Height[t] + 1 \in Nat /\ Sol(F(t), Height[t] + 1) BY <1>5
      <4>2. Height[u] + 1 \in Nat /\ Sol(F(u), Height[u] + 1) BY <1>5, <3>2
      <4> HIDE DEF Sol
      <4>3. QED BY <1>1, <3>2, <3>3, <4>1, <4>2
    <3>5. QED BY <3>1, <3>2, <3>4
  <2> HIDE DEF h
  <2>3. E(F(t), t) = E(h, t) BY <2>2, <1>e
  <2>4. h[t] = F(t)[t] BY DEF h
  <2>5. QED BY <2>1, <2>3, <2>4
<1>7. h = [t \in Types |-> E(h, t)]
  <2>1. h = [t \in Types |-> h[t]] OBVIOUS
  <2> HIDE DEF h, E
  <2>2. QED BY <2>1, <1>6
<1>8. Infer = [t \in Types |-> E(Infer, t)]
  <2> HIDE DEF h
  <2>1. Infer = CHOOSE f : f = [t \in Types |-> E(f, t)] BY DEF Infer
  <2> HIDE DEF E
  <2>2. QED BY <2>1, <1>7
<1>9. QED BY <1>8
LEMMA KeptAreArguments == \A t \in Types : Kept(t) \subseteq DOMAIN t.args
<1> SUFFICES ASSUME NEW t \in Types PROVE Kept(t) \subseteq DOMAIN t.args OBVIOUS
<1>1. t.args \in Seq(Types) BY TypesAreTrees
<1>2. Len(t.args) = 2 => DOMAIN t.args = 1 .. 2 BY <1>1
<1>3. QED BY <1>2 DEF Kept, Half

\* The same for Standard.
LEMMA StandardIs ==
  \A t \in Types : Standard[t] = (t.k \in StandardKinds /\ \A i \in Kept(t) : Standard[t.args[i]])
<1> DEFINE E(f, t) == t.k \in StandardKinds /\ \A i \in Kept(t) : f[t.args[i]]
           Below(k) == {t \in Types : Height[t] < k}
           Sol(f, k) == f = [t \in Below(k) |-> E(f, t)]
<1>a. ASSUME NEW t \in Types, NEW i \in DOMAIN t.args
      PROVE  t.args[i] \in Types /\ Height[t] \in Nat /\ Height[t.args[i]] \in Nat
             /\ Height[t.args[i]] < Height[t]
  BY TypesAreTrees
<1>e. ASSUME NEW t \in Types, NEW f, NEW g, \A i \in DOMAIN t.args : f[t.args[i]] = g[t.args[i]]
      PROVE  E(f, t) = E(g, t)
  <2>1. Kept(t) \subseteq DOMAIN t.args BY KeptAreArguments
  <2>2. QED BY <2>1, <1>e
<1>1. ASSUME NEW k \in Nat, NEW l \in Nat, NEW f, NEW g, Sol(f, k), Sol(g, l),
             NEW t \in Types, Height[t] < k, Height[t] < l
      PROVE  f[t] = g[t]
  <2> DEFINE G == {u \in Types : Height[u] < k /\ Height[u] < l => f[u] = g[u]}
  <2>1. ASSUME NEW u \in Types, \A i \in DOMAIN u.args : u.args[i] \in G PROVE u \in G
    <3> SUFFICES ASSUME Height[u] < k, Height[u] < l PROVE f[u] = g[u] OBVIOUS
    <3>1. f[u] = E(f, u) /\ g[u] = E(g, u) BY <1>1
    <3>2. \A i \in DOMAIN u.args : f[u.args[i]] = g[u.args[i]]
      <4> TAKE i \in DOMAIN u.args
      <4>1. Height[u.args[i]] < k /\ Height[u.args[i]] < l BY <1>a
      <4>2. QED BY <2>1, <4>1
    <3>3. QED BY <3>1, <3>2, <1>e
  <2>2. Types \subseteq G
    <3> HIDE DEF G
    <3> QED BY <2>1, HeightInduction
  <2>3. QED BY <2>2, <1>1
<1>2. ASSUME NEW k \in Nat, NEW f, Sol(f, k) PROVE \E g : Sol(g, k + 1)
  <2> DEFINE g == [t \in Below(k + 1) |-> E(f, t)]
  <2>1. ASSUME NEW t \in Below(k + 1) PROVE E(f, t) = E(g, t)
    <3>1. \A i \in DOMAIN t.args : f[t.args[i]] = g[t.args[i]]
      <4> TAKE i \in DOMAIN t.args
      <4> DEFINE u == t.args[i]
      <4>1. u \in Types /\ Height[u] \in Nat /\ Height[u] < k BY <1>a
      <4>2. u \in Below(k) /\ u \in Below(k + 1) BY <4>1
      <4>3. f[u] = E(f, u) BY <1>2, <4>2
      <4>4. g[u] = E(f, u) BY <4>2
      <4>5. QED BY <4>3, <4>4
    <3> HIDE DEF g
    <3>2. QED BY <3>1, <1>e
  <2>2. g = [t \in Below(k + 1) |-> E(g, t)]
    <3>1. \A t \in Below(k + 1) : E(f, t) = E(g, t) BY <2>1
    <3> HIDE DEF E, Below
    <3>2. QED BY <3>1
  <2>3. QED BY <2>2
<1>3. \E f : Sol(f, 0)
  <2>1. Below(0) = {} BY TypesAreTrees
  <2>2. Sol([t \in {} |-> t], 0) BY <2>1
  <2>3. QED BY <2>2
<1>4. \A k \in Nat : \E f : Sol(f, k)
  <2> HIDE DEF Sol
  <2> DEFINE K == {k \in Nat : \A f : ~Sol(f, k)}
  <2> SUFFICES ASSUME K # {} PROVE FALSE OBVIOUS
  <2>1. PICK k \in K : \A n \in K : k <= n
    <3>1. K \in SUBSET Nat OBVIOUS
    <3> HIDE DEF K
    <3> QED BY <3>1, LeastNumber
  <2>2. k \in Nat /\ \A f : ~Sol(f, k) OBVIOUS
  <2>3. k # 0 BY <2>2, <1>3
  <2>4. k - 1 \in Nat /\ k - 1 \notin K
    <3>1. k - 1 \in Nat /\ ~(k <= k - 1) BY <2>2, <2>3
    <3> HIDE DEF K
    <3>2. QED BY <2>1, <3>1
  <2>5. PICK f : Sol(f, k - 1) BY <2>4
  <2>6. \E g : Sol(g, (k - 1) + 1) BY <2>4, <2>5, <1>2
  <2>7. (k - 1) + 1 = k BY <2>2
  <2>8. QED BY <2>2, <2>6, <2>7
<1> DEFINE F(t) == CHOOSE f : Sol(f, Height[t] + 1)
           h == [t \in Types |-> F(t)[t]]
<1>5. ASSUME NEW t \in Types PROVE Height[t] + 1 \in Nat /\ Sol(F(t), Height[t] + 1)
  <2>1. Height[t] + 1 \in Nat BY TypesAreTrees
  <2>2. \E f : Sol(f, Height[t] + 1) BY <2>1, <1>4
  <2> HIDE DEF Sol
  <2>3. QED BY <2>1, <2>2
<1> HIDE DEF F
<1>6. ASSUME NEW t \in Types PROVE h[t] = E(h, t)
  <2>1. F(t)[t] = E(F(t), t)
    <3>1. t \in Below(Height[t] + 1) BY TypesAreTrees
    <3>2. QED BY <3>1, <1>5
  <2>2. \A i \in DOMAIN t.args : F(t)[t.args[i]] = h[t.args[i]]
    <3> TAKE i \in DOMAIN t.args
    <3>1. PICK u : u = t.args[i] OBVIOUS
    <3>2. u \in Types /\ Height[u] \in Nat /\ Height[t] \in Nat /\ Height[u] < Height[t] BY <1>a, <3>1
    <3>3. Height[u] < Height[t] + 1 /\ Height[u] < Height[u] + 1 BY <3>2
    <3>4. F(t)[u] = F(u)[u]
      <4>1. Height[t] + 1 \in Nat /\ Sol(F(t), Height[t] + 1) BY <1>5
      <4>2. Height[u] + 1 \in Nat /\ Sol(F(u), Height[u] + 1) BY <1>5, <3>2
      <4> HIDE DEF Sol
      <4>3. QED BY <1>1, <3>2, <3>3, <4>1, <4>2
    <3>5. QED BY <3>1, <3>2, <3>4
  <2> HIDE DEF h
  <2>3. E(F(t), t) = E(h, t) BY <2>2, <1>e
  <2>4. h[t] = F(t)[t] BY DEF h
  <2>5. QED BY <2>1, <2>3, <2>4
<1>7. h = [t \in Types |-> E(h, t)]
  <2>1. h = [t \in Types |-> h[t]] OBVIOUS
  <2> HIDE DEF h, E
  <2>2. QED BY <2>1, <1>6
<1>8. Standard = [t \in Types |-> E(Standard, t)]
  <2> HIDE DEF h
  <2>1. Standard = CHOOSE f : f = [t \in Types |-> E(f, t)] BY DEF Standard
  <2> HIDE DEF E
  <2>2. QED BY <2>1, <1>7
<1>9. QED BY <1>8
-----------------------------------------------------------------------------
(* What infer() asks for is what its type needs.                           *)

Sound(r) == r.fields = <<>> /\ Knows(r.type, r.inc)

OtherKinds == {"Union", "CppAny", "dataclass", "forward"}

LEMMA NamesHaveHeaders ==
  /\ \A k \in DOMAIN Builtin : Builtin[k] \subseteq Basic \cup DOMAIN HeaderOf
  /\ \A k \in DOMAIN Generic : Generic[k][1] \in DOMAIN HeaderOf /\ Generic[k][2] \in {0, 1, 2}
  /\ \A k \in DOMAIN Generic : Generic[k][2] # 0 => Bare[k] \subseteq Basic \cup DOMAIN HeaderOf
  /\ \A k \in DOMAIN Proxy : Proxy[k][1] \in DOMAIN HeaderOf
  /\ {"optional", "variant", "any"} \subseteq DOMAIN HeaderOf
<1>1. \A k \in DOMAIN Builtin : Builtin[k] \subseteq Basic \cup DOMAIN HeaderOf
  BY DEF Builtin, Basic, HeaderOf
<1>2. \A k \in DOMAIN Generic : Generic[k][1] \in DOMAIN HeaderOf /\ Generic[k][2] \in {0, 1, 2}
  BY DEF Generic, HeaderOf
<1>3. \A k \in DOMAIN Generic : Generic[k][2] # 0 => Bare[k] \subseteq Basic \cup DOMAIN HeaderOf
  BY DEF Generic, Bare, Basic, HeaderOf
<1>4. \A k \in DOMAIN Proxy : Proxy[k][1] \in DOMAIN HeaderOf
  BY DEF Proxy, HeaderOf
<1>5. {"optional", "variant", "any"} \subseteq DOMAIN HeaderOf BY DEF HeaderOf
<1>6. QED BY <1>1, <1>2, <1>3, <1>4, <1>5

\* The kinds of annotation exclude each other.
LEMMA KindsApart ==
  /\ \A k \in DOMAIN Builtin : k \notin DOMAIN Generic \cup DOMAIN Proxy \cup OtherKinds
  /\ \A k \in DOMAIN Generic : k \notin DOMAIN Proxy \cup OtherKinds
  /\ \A k \in DOMAIN Proxy : k \notin OtherKinds
<1>1. \A k \in DOMAIN Builtin : k \notin DOMAIN Generic \cup DOMAIN Proxy \cup OtherKinds
  BY DEF Builtin, Generic, Proxy, OtherKinds
<1>2. \A k \in DOMAIN Generic : k \notin DOMAIN Proxy \cup OtherKinds
  BY DEF Generic, Proxy, OtherKinds
<1>3. \A k \in DOMAIN Proxy : k \notin OtherKinds BY DEF Proxy, OtherKinds
<1>4. QED BY <1>1, <1>2, <1>3

LEMMA AskedIsKnown ==
  ASSUME NEW cs, cs \subseteq Basic \cup DOMAIN HeaderOf
  PROVE  Knows(cs, Asks(cs))
BY DEF Knows, Asks

\* A template over sound types is sound: its own header and theirs are merged.
LEMMA OverSound ==
  ASSUME NEW c \in DOMAIN HeaderOf, NEW rs, \A i \in DOMAIN rs : rs[i].ok => Sound(rs[i]),
         Over(c, rs).ok
  PROVE  Sound(Over(c, rs))
<1> DEFINE sub == [i \in DOMAIN rs |-> rs[i].type]
           inc == Asks({c}) \cup UNION {rs[i].inc : i \in DOMAIN rs}
<1>1. \A i \in DOMAIN rs : rs[i].ok BY DEF Over, Refused
<1>2. Over(c, rs) = Inferred(Type(c, sub), inc) BY <1>1 DEF Over
<1>3. Knows({c}, inc) BY DEF Knows, Asks
<1>4. ASSUME NEW i \in DOMAIN rs PROVE Knows(rs[i].type, inc)
  BY <1>1 DEF Knows, Sound
<1>5. Knows(Type(c, sub), inc)
  <2>1. \A n \in Type(c, sub) : n = c \/ \E i \in DOMAIN rs : n \in rs[i].type BY DEF Type
  <2> HIDE DEF sub, inc
  <2>2. QED BY <2>1, <1>3, <1>4 DEF Knows
<1>6. QED BY <1>2, <1>5 DEF Inferred, Sound

LEMMA StandardSound ==
  ASSUME NEW t \in Types, Standard[t], Infer[t].ok
  PROVE  Sound(Infer[t])
<1> DEFINE G == {u \in Types : Standard[u] /\ Infer[u].ok => Sound(Infer[u])}
<1>1. ASSUME NEW u \in Types, \A i \in DOMAIN u.args : u.args[i] \in G PROVE u \in G
  <2> SUFFICES ASSUME Standard[u], Infer[u].ok PROVE Sound(Infer[u]) OBVIOUS
  <2>1. PICK rs : rs = [i \in DOMAIN u.args |-> Infer[u.args[i]]] OBVIOUS
  <2>2. Infer[u] = InferWith(u, rs) BY <2>1, InferIs
  <2>3. u.k \in StandardKinds /\ \A i \in Kept(u) : Standard[u.args[i]] BY StandardIs
  <2>4. DOMAIN rs = DOMAIN u.args /\ u.args \in Seq(Types) BY <2>1, TypesAreTrees
  <2>5. ASSUME NEW i \in Kept(u), i \in DOMAIN u.args, rs[i].ok PROVE Sound(rs[i])
    BY <1>1, <2>1, <2>3, <2>5
  <2>6. u.k # "Union" => Kept(u) = DOMAIN u.args BY DEF Kept
  <2>7. CASE u.k \in DOMAIN Builtin
    <3>1. Infer[u] = Inferred(Builtin[u.k], Asks(Builtin[u.k])) 
      BY <2>2, <2>7, KindsApart DEF InferWith, OtherKinds
    <3>2. QED BY <3>1, <2>7, NamesHaveHeaders, AskedIsKnown DEF Inferred, Sound
  <2>8. CASE u.k \in DOMAIN Generic
    <3>1. u.k # "Union" BY <2>8, KindsApart DEF OtherKinds
    <3>2. Infer[u] = InferGeneric(u, rs) BY <2>2, <2>8, KindsApart DEF InferWith, OtherKinds
    <3> DEFINE n == Generic[u.k][2]
               c == Generic[u.k][1]
    <3>3. c \in DOMAIN HeaderOf /\ n \in {0, 1, 2} /\ Len(u.args) \in Nat
      BY <2>4, <2>8, NamesHaveHeaders
    <3>4. CASE Len(u.args) < n
      <4>1. Infer[u] = Inferred(Bare[u.k], Asks(Bare[u.k])) BY <3>2, <3>4 DEF InferGeneric
      <4>2. n # 0 BY <3>3, <3>4
      <4>3. Bare[u.k] \subseteq Basic \cup DOMAIN HeaderOf BY <2>8, <4>2, NamesHaveHeaders
      <4>4. QED BY <4>1, <4>3, AskedIsKnown DEF Inferred, Sound
    <3>5. CASE ~(Len(u.args) < n)
      <4>1. PICK us : us = IF n = 0 THEN rs ELSE [i \in 1 .. n |-> rs[i]] OBVIOUS
      <4>2. Infer[u] = Over(c, us) BY <3>2, <3>5, <4>1 DEF InferGeneric
      <4>3. \A i \in DOMAIN us : i \in DOMAIN u.args /\ us[i] = rs[i]
        <5>1. DOMAIN u.args = 1 .. Len(u.args) BY <2>4
        <5> HIDE DEF n
        <5>2. QED BY <5>1, <4>1, <2>4, <3>3, <3>5
      <4>4. \A i \in DOMAIN us : us[i].ok => Sound(us[i]) BY <4>3, <2>5, <2>6, <3>1
      <4> HIDE DEF c, n
      <4>5. QED BY <4>2, <4>4, <3>3, OverSound
    <3>6. QED BY <3>4, <3>5
  <2>9. CASE u.k = "Union"
    <3>1. Infer[u] = InferUnion(u, rs) BY <2>2, <2>9, KindsApart DEF InferWith, OtherKinds
    <3>2. CASE Half(u) = {}
      <4>1. Infer[u] = Over("variant", rs) BY <3>1, <3>2 DEF InferUnion
      <4>2. \A i \in DOMAIN rs : rs[i].ok => Sound(rs[i]) BY <2>4, <2>5, <2>9, <3>2 DEF Kept
      <4>3. QED BY <4>1, <4>2, OverSound, NamesHaveHeaders
    <3>3. CASE Half(u) # {}
      <4>1. PICK h : h = CHOOSE i \in Half(u) : TRUE OBVIOUS
      <4>2. h \in Half(u) BY <3>3, <4>1
      <4>3. PICK us : us = [j \in {1} |-> rs[h]] OBVIOUS
      <4>4. Infer[u] = Over("optional", us) BY <3>1, <3>3, <4>1, <4>3 DEF InferUnion
      <4>5. h \in Kept(u) /\ h \in DOMAIN u.args BY <4>2, <2>9, <3>3, KeptAreArguments DEF Kept
      <4>6. \A i \in DOMAIN us : us[i].ok => Sound(us[i]) BY <4>3, <4>5, <2>5
      <4>7. QED BY <4>4, <4>6, OverSound, NamesHaveHeaders
    <3>4. QED BY <3>2, <3>3
  <2>10. CASE u.k \in DOMAIN Proxy
    <3>1. u.k # "Union" BY <2>10, KindsApart DEF OtherKinds
    <3>2. Infer[u] = InferProxy(u, rs) BY <2>2, <2>10, KindsApart DEF InferWith, OtherKinds
    <3> DEFINE c == Proxy[u.k][1]
    <3>3. c \in DOMAIN HeaderOf BY <2>10, NamesHaveHeaders
    <3>4. Infer[u] = Over(c, rs) BY <3>2 DEF InferProxy, Refused
    <3>5. \A i \in DOMAIN rs : rs[i].ok => Sound(rs[i]) BY <2>4, <2>5, <2>6, <3>1
    <3> HIDE DEF c
    <3>6. QED BY <3>3, <3>4, <3>5, OverSound
  <2>11. CASE u.k = "CppAny"
    <3>1. Infer[u] = IF u.args = <<>> THEN Over("any", <<>>) ELSE Refused
      BY <2>2, <2>11, KindsApart DEF InferWith, OtherKinds
    <3>2. Infer[u] = Over("any", <<>>) BY <3>1 DEF Refused
    <3>3. PICK us : us = <<>> OBVIOUS
    <3>4. \A i \in DOMAIN us : us[i].ok => Sound(us[i]) BY <3>3
    <3>5. QED BY <3>2, <3>3, <3>4, OverSound, NamesHaveHeaders
  <2>12. QED BY <2>3, <2>7, <2>8, <2>9, <2>10, <2>11 DEF StandardKinds
<1>2. Types \subseteq G
  <2> HIDE DEF G
  <2> QED BY <1>1, HeightInduction
<1>3. QED BY <1>2

\* What g++ makes of a simple type with the headers infer() asked for, or more.
LEMMA SimpleCompiles ==
  ASSUME NEW t \in Types, Simple(t), Infer[t].ok, NEW includes, Infer[t].inc \subseteq includes
  PROVE  TypeCompiles(Infer[t], includes)
<1>1. CASE t.k # "dataclass"
  <2>1. Sound(Infer[t]) BY <1>1, StandardSound DEF Simple
  <2>2. QED BY <2>1 DEF Sound, Knows, TypeCompiles
<1>2. CASE t.k = "dataclass"
  <2>1. PICK rs : rs = [i \in DOMAIN t.args |-> Infer[t.args[i]]] OBVIOUS
  <2>2. Infer[t] = InferStruct(t, rs)
    BY <1>2, <2>1, InferIs, KindsApart DEF InferWith, OtherKinds
  <2>3. /\ \A i \in DOMAIN rs : rs[i].ok
        /\ Infer[t] = [Inferred({t.name}, UNION {rs[i].inc : i \in DOMAIN rs})
                        EXCEPT !.fields = [i \in DOMAIN rs |-> rs[i].type]]
    BY <2>2 DEF InferStruct, Refused
  <2>4. /\ Infer[t].fields = [i \in DOMAIN rs |-> rs[i].type]
        /\ Infer[t].inc = UNION {rs[i].inc : i \in DOMAIN rs}
    BY <2>3 DEF Inferred
  <2>5. t.args \in Seq(Types) /\ t.args # <<>> BY <1>2, TypesAreTrees DEF Simple
  <2>6. DeclaresStruct(Infer[t])
    <3>1. 1 \in DOMAIN t.args BY <2>5
    <3>2. DOMAIN Infer[t].fields = DOMAIN t.args BY <2>1, <2>4
    <3>3. QED BY <3>1, <3>2 DEF DeclaresStruct
  <2>7. ASSUME NEW i \in DOMAIN rs PROVE Knows(rs[i].type, includes)
    <3>1. t.args[i] \in Types /\ Standard[t.args[i]] BY <1>2, <2>1, <2>5 DEF Simple
    <3>2. Sound(rs[i]) BY <3>1, <2>1, <2>3, StandardSound
    <3>3. rs[i].inc \subseteq includes BY <2>4
    <3>4. QED BY <3>2, <3>3 DEF Sound, Knows
  <2>8. QED BY <2>4, <2>6, <2>7 DEF TypeCompiles
<1>3. QED BY <1>1, <1>2

-----------------------------------------------------------------------------
(* The stages.                                                             *)

\* The inductive invariant: who is past the constructor was valid and marked,
\* and carries the type infer() gave; generate() adds to its headers only.
ToolInv ==
  /\ ToolTypeOK
  /\ job.kind = "class" => job \in Classes
  /\ stage \in {"typed", "generated"} =>
       job.kind = "class" /\ marked /\ Passes(job.sig, TRUE) /\ Infer[job.type].ok
  /\ stage = "typed" => out = Infer[job.type]
  /\ stage = "generated" => out.type = Infer[job.type] /\ Infer[job.type].inc \subseteq out.includes

LEMMA ToolInvInit == ToolInit => ToolInv
<1> SUFFICES ASSUME ToolInit PROVE ToolInv OBVIOUS
<1>1. job.kind \in {"class", "text", "tree"} /\ (job.kind = "class" => job \in Classes)
  BY ClassesGiven DEF ToolInit
<1>2. stage = "given" /\ marked = FALSE BY DEF ToolInit
<1>3. QED BY <1>1, <1>2 DEF ToolInv, ToolTypeOK, Stages

LEMMA ToolInvNext == ToolInv /\ [ToolNext]_toolVars => ToolInv'
<1> SUFFICES ASSUME ToolInv, [ToolNext]_toolVars PROVE ToolInv' OBVIOUS
<1> USE DEF ToolInv, ToolTypeOK, Stages
<1>1. CASE Decorate BY <1>1 DEF Decorate, Refuse
<1>2. CASE Construct BY <1>2 DEF Construct, Passes
<1>3. CASE Generate
  <2>1. job' = job /\ marked' = marked /\ stage = "typed" /\ stage' = "generated" BY <1>3 DEF Generate
  <2>2. out'.type = out /\ out'.includes = out.inc \cup HeadersOf(job.body) BY <1>3 DEF Generate
  <2>3. QED BY <2>1, <2>2
<1>4. CASE Parse BY <1>4 DEF Parse
<1>5. CASE Convert BY <1>5 DEF Convert
<1>6. CASE UNCHANGED toolVars BY <1>6 DEF toolVars
<1>7. QED BY <1>1, <1>2, <1>3, <1>4, <1>5, <1>6 DEF ToolNext

LEMMA ToolInvAlways == ToolSpec => []ToolInv
BY ToolInvInit, ToolInvNext, PTL DEF ToolSpec

\* The toolchain is type-correct.
THEOREM ToolTyping == ToolSpec => []ToolTypeOK
<1>1. ToolInv => ToolTypeOK BY DEF ToolInv
<1>2. QED BY <1>1, ToolInvAlways, PTL

\* Code is generated for valid and marked classes alone.
THEOREM GeneratedIsValid == ToolSpec => []OnlyValidGenerated
<1>1. ToolInv => OnlyValidGenerated BY DEF ToolInv, OnlyValidGenerated, Generated
<1>2. QED BY <1>1, ToolInvAlways, PTL

\* A state type of known classes compiles, however deep it is nested.
THEOREM StateTypesCompile == ToolSpec => []TypesCompile
<1>1. ASSUME ToolInv PROVE TypesCompile
  <2> SUFFICES ASSUME stage = "generated", Simple(job.type)
               PROVE  TypeCompiles(out.type, out.includes)
    BY DEF TypesCompile, Generated
  <2>1. job.type \in Types /\ Infer[job.type].ok BY <1>1, ClassesGiven DEF ToolInv
  <2>2. out.type = Infer[job.type] /\ Infer[job.type].inc \subseteq out.includes BY <1>1 DEF ToolInv
  <2>3. QED BY <2>1, <2>2, SimpleCompiles
<1>2. QED BY <1>1, ToolInvAlways, PTL

-----------------------------------------------------------------------------
(* Recursive functions of the parser: loops, flattened texts, expressions  *)
(* and trees.                                                              *)

\* Induction: what holds of zero and of every successor holds of every number.
LEMMA NumberInduction ==
  ASSUME NEW G, 0 \in G, \A n \in Nat : n \in G => n + 1 \in G
  PROVE  Nat \subseteq G
<1> SUFFICES ASSUME Nat \ G # {} PROVE FALSE OBVIOUS
<1>1. PICK m \in Nat \ G : \A n \in Nat \ G : m <= n
  <2>1. Nat \ G \in SUBSET Nat OBVIOUS
  <2>2. QED BY <2>1, LeastNumber
<1>2. m # 0 /\ m - 1 \in Nat /\ ~(m <= m - 1) /\ (m - 1) + 1 = m OBVIOUS
<1>3. m - 1 \in G BY <1>1, <1>2
<1>4. QED BY <1>2, <1>3

\* A loop of the parser: every round starts from what the one before it left.
LEMMA LoopIs ==
  ASSUME NEW toks, NEW O, NEW seps, NEW kind, NEW first
  PROVE  /\ Loop(toks, O, seps, kind, first)[0] = first
         /\ \A n \in Nat : Loop(toks, O, seps, kind, first)[n + 1] =
                           MoreItems(toks, O, seps, kind, Loop(toks, O, seps, kind, first)[n])
<1> DEFINE E(f, n) == IF n = 0 THEN first ELSE MoreItems(toks, O, seps, kind, f[n - 1])
           Sol(f, k) == f = [n \in 0 .. k |-> E(f, n)]
<1>1. ASSUME NEW k \in Nat, NEW l \in Nat, NEW f, NEW g, Sol(f, k), Sol(g, l)
      PROVE  \A n \in Nat : n <= k /\ n <= l => f[n] = g[n]
  <2> DEFINE G == {n \in Nat : n <= k /\ n <= l => f[n] = g[n]}
  <2>1. 0 \in G
    <3>1. 0 \in 0 .. k /\ 0 \in 0 .. l OBVIOUS
    <3>2. f[0] = first /\ g[0] = first BY <1>1, <3>1
    <3>3. QED BY <3>2
  <2>2. ASSUME NEW n \in Nat, n \in G PROVE n + 1 \in G
    <3> SUFFICES ASSUME n + 1 <= k, n + 1 <= l PROVE f[n + 1] = g[n + 1] OBVIOUS
    <3>1. n + 1 \in 0 .. k /\ n + 1 \in 0 .. l /\ n + 1 # 0 /\ (n + 1) - 1 = n OBVIOUS
    <3>2. f[n] = g[n] BY <2>2
    <3>3. f[n + 1] = E(f, n + 1) /\ g[n + 1] = E(g, n + 1) BY <1>1, <3>1
    <3>4. QED BY <3>1, <3>2, <3>3
  <2>3. Nat \subseteq G
    <3> HIDE DEF G
    <3> QED BY <2>1, <2>2, NumberInduction
  <2>4. QED BY <2>3
<1>2. \A k \in Nat : \E f : Sol(f, k)
  <2> DEFINE G == {k \in Nat : \E f : Sol(f, k)}
  <2>1. 0 \in G
    <3> DEFINE f == [n \in 0 .. 0 |-> first]
    <3>1. \A n \in 0 .. 0 : E(f, n) = first OBVIOUS
    <3>2. Sol(f, 0) BY <3>1
    <3>3. QED BY <3>2
  <2>2. ASSUME NEW k \in Nat, k \in G PROVE k + 1 \in G
    <3>1. PICK f : Sol(f, k) BY <2>2
    <3> DEFINE g == [n \in 0 .. k + 1 |-> E(f, n)]
    <3>2. \A n \in 0 .. k : g[n] = f[n]
      <4>1. \A n \in 0 .. k : n \in 0 .. k + 1 /\ f[n] = E(f, n) BY <3>1
      <4> HIDE DEF E
      <4>2. QED BY <4>1
    <3>3. \A n \in 0 .. k + 1 : E(f, n) = E(g, n)
      <4> TAKE n \in 0 .. k + 1
      <4>1. CASE n = 0 BY <4>1
      <4>2. CASE n # 0
        <5>1. n - 1 \in 0 .. k BY <4>2
        <5>2. g[n - 1] = f[n - 1] BY <3>2, <5>1
        <5> HIDE DEF g
        <5>3. QED BY <4>2, <5>2
      <4>3. QED BY <4>1, <4>2
    <3>4. Sol(g, k + 1)
      <4> HIDE DEF E
      <4>1. g = [n \in 0 .. k + 1 |-> E(g, n)] BY <3>3
      <4>2. QED BY <4>1
    <3> HIDE DEF g, Sol
    <3>5. QED BY <3>4
  <2>3. Nat \subseteq G
    <3> HIDE DEF G
    <3> QED BY <2>1, <2>2, NumberInduction
  <2> HIDE DEF Sol
  <2>4. QED BY <2>3
<1> DEFINE F(k) == CHOOSE f : Sol(f, k)
           h == [n \in Nat |-> F(n)[n]]
<1>3. ASSUME NEW n \in Nat PROVE Sol(F(n), n)
  <2> HIDE DEF Sol
  <2>1. QED BY <1>2
<1> HIDE DEF F
<1>4. ASSUME NEW n \in Nat PROVE h[n] = E(h, n)
  <2>0. F(n)[n] = E(F(n), n)
    <3>1. n \in 0 .. n OBVIOUS
    <3>2. QED BY <1>3, <3>1
  <2>1. CASE n = 0 BY <2>0, <2>1
  <2>2. CASE n # 0
    <3>1. n - 1 \in Nat /\ n - 1 <= n - 1 /\ n - 1 <= n BY <2>2
    <3>2. F(n)[n - 1] = F(n - 1)[n - 1]
      <4>1. Sol(F(n), n) /\ Sol(F(n - 1), n - 1) BY <1>3, <3>1
      <4> HIDE DEF Sol
      <4>2. QED BY <1>1, <3>1, <4>1
    <3>3. h[n - 1] = F(n)[n - 1] BY <3>1, <3>2
    <3>4. h[n] = F(n)[n] OBVIOUS
    <3> HIDE DEF h
    <3>5. QED BY <2>0, <2>2, <3>3, <3>4
  <2>3. QED BY <2>1, <2>2
<1>5. h = [n \in Nat |-> E(h, n)]
  <2>1. h = [n \in Nat |-> h[n]] OBVIOUS
  <2> HIDE DEF h, E
  <2>2. QED BY <2>1, <1>4
<1> DEFINE L == Loop(toks, O, seps, kind, first)
<1>6. L = [n \in Nat |-> E(L, n)]
  <2> HIDE DEF h
  <2>1. L = CHOOSE f : f = [n \in Nat |-> E(f, n)] BY DEF Loop
  <2> HIDE DEF E, L
  <2>2. QED BY <2>1, <1>5
<1>7. L[0] = first
  <2> HIDE DEF L
  <2> QED BY <1>6
<1>8. ASSUME NEW n \in Nat PROVE L[n + 1] = MoreItems(toks, O, seps, kind, L[n])
  <2>1. n + 1 \in Nat /\ n + 1 # 0 /\ (n + 1) - 1 = n OBVIOUS
  <2> HIDE DEF L
  <2>2. QED BY <1>6, <2>1
<1>9. QED BY <1>7, <1>8

\* FlattenSeq puts one sequence after the other.
LEMMA FlattenIs ==
  ASSUME NEW seqs, Len(seqs) \in Nat \ {0}
  PROVE  \E f : /\ f[1] = seqs[1]
                /\ \A i \in 2 .. Len(seqs) : f[i] = f[i - 1] \o seqs[i]
                /\ FlattenSeq(seqs) = f[Len(seqs)]
<1> DEFINE N == Len(seqs)
           E(f, i) == IF i = 1 THEN seqs[i] ELSE f[i - 1] \o seqs[i]
           Sol(f, k) == f = [i \in 1 .. k |-> E(f, i)]
<1>1. \A k \in Nat : \E f : Sol(f, k)
  <2> DEFINE G == {k \in Nat : \E f : Sol(f, k)}
  <2>1. 0 \in G
    <3>1. Sol([i \in {} |-> i], 0)
      <4>1. 1 .. 0 = {} OBVIOUS
      <4>2. QED BY <4>1
    <3> HIDE DEF Sol
    <3>2. QED BY <3>1
  <2>2. ASSUME NEW k \in Nat, k \in G PROVE k + 1 \in G
    <3>1. PICK f : Sol(f, k) BY <2>2
    <3> DEFINE g == [i \in 1 .. k + 1 |-> E(f, i)]
    <3>2. \A i \in 1 .. k : g[i] = f[i]
      <4>0. f = [i \in 1 .. k |-> E(f, i)] BY <3>1
      <4> HIDE DEF E
      <4>1. \A i \in 1 .. k : f[i] = E(f, i) BY <4>0
      <4>2. \A i \in 1 .. k : i \in 1 .. k + 1 OBVIOUS
      <4>3. QED BY <4>1, <4>2
    <3>3. \A i \in 1 .. k + 1 : E(f, i) = E(g, i)
      <4> TAKE i \in 1 .. k + 1
      <4>1. CASE i = 1 BY <4>1
      <4>2. CASE i # 1
        <5>1. i - 1 \in 1 .. k BY <4>2
        <5>2. g[i - 1] = f[i - 1] BY <3>2, <5>1
        <5> HIDE DEF g
        <5>3. QED BY <4>2, <5>2
      <4>3. QED BY <4>1, <4>2
    <3>4. Sol(g, k + 1)
      <4> HIDE DEF E
      <4>1. g = [i \in 1 .. k + 1 |-> E(g, i)] BY <3>3
      <4>2. QED BY <4>1
    <3> HIDE DEF g, Sol
    <3>5. QED BY <3>4
  <2>3. Nat \subseteq G
    <3> HIDE DEF G
    <3> QED BY <2>1, <2>2, NumberInduction
  <2> HIDE DEF Sol
  <2>4. QED BY <2>3
<1> DEFINE f == CHOOSE g : g = [i \in 1 .. N |-> E(g, i)]
<1>2. f = [i \in 1 .. N |-> E(f, i)]
  <2>1. \E g : g = [i \in 1 .. N |-> E(g, i)] BY <1>1
  <2> HIDE DEF E, N
  <2>2. QED BY <2>1
<1>3. FlattenSeq(seqs) = f[N] BY DEF FlattenSeq
<1> HIDE DEF f
<1>4. f[1] = seqs[1]
  <2>1. 1 \in 1 .. N OBVIOUS
  <2>2. QED BY <1>2, <2>1
<1>5. \A i \in 2 .. N : f[i] = f[i - 1] \o seqs[i]
  <2> TAKE i \in 2 .. N
  <2>1. i \in 1 .. N /\ i # 1 OBVIOUS
  <2>2. QED BY <1>2, <2>1
<1>6. QED BY <1>3, <1>4, <1>5

\* What stands in the first sequence stands in the whole.
LEMMA FlattenType ==
  ASSUME NEW S, NEW seqs, Len(seqs) \in Nat \ {0}, \A i \in 1 .. Len(seqs) : seqs[i] \in Seq(S)
  PROVE  /\ FlattenSeq(seqs) \in Seq(S)
         /\ \A k \in DOMAIN seqs[1] : \E j \in DOMAIN FlattenSeq(seqs) :
              FlattenSeq(seqs)[j] = seqs[1][k]
<1>1. PICK f : /\ f[1] = seqs[1]
               /\ \A i \in 2 .. Len(seqs) : f[i] = f[i - 1] \o seqs[i]
               /\ FlattenSeq(seqs) = f[Len(seqs)]
  BY FlattenIs
<1> DEFINE G == {i \in Nat : i + 1 <= Len(seqs) =>
                   /\ f[i + 1] \in Seq(S) /\ Len(f[i + 1]) >= Len(seqs[1])
                   /\ \A j \in DOMAIN seqs[1] : f[i + 1][j] = seqs[1][j]}
<1>0. seqs[1] \in Seq(S) OBVIOUS
<1>2. 0 \in G BY <1>0, <1>1
<1>3. ASSUME NEW i \in Nat, i \in G PROVE i + 1 \in G
  <2> SUFFICES ASSUME (i + 1) + 1 <= Len(seqs)
               PROVE  /\ f[(i + 1) + 1] \in Seq(S) /\ Len(f[(i + 1) + 1]) >= Len(seqs[1])
                      /\ \A j \in DOMAIN seqs[1] : f[(i + 1) + 1][j] = seqs[1][j]
    OBVIOUS
  <2>1. /\ f[i + 1] \in Seq(S) /\ Len(f[i + 1]) >= Len(seqs[1])
        /\ \A j \in DOMAIN seqs[1] : f[i + 1][j] = seqs[1][j]
    BY <1>3
  <2>2. (i + 1) + 1 \in 2 .. Len(seqs) /\ ((i + 1) + 1) - 1 = i + 1 /\ (i + 1) + 1 \in 1 .. Len(seqs) OBVIOUS
  <2>3. f[(i + 1) + 1] = f[i + 1] \o seqs[(i + 1) + 1] BY <1>1, <2>2
  <2>4. seqs[(i + 1) + 1] \in Seq(S) BY <2>2
  <2> DEFINE s == f[i + 1]
             t == seqs[(i + 1) + 1]
  <2>5. DOMAIN seqs[1] \subseteq DOMAIN s BY <1>0, <2>1
  <2> HIDE DEF s, t
  <2>6. s \in Seq(S) /\ t \in Seq(S) BY <2>1, <2>4 DEF s, t
  <2>7. s \o t \in Seq(S) /\ Len(s \o t) = Len(s) + Len(t) /\ \A j \in DOMAIN s : (s \o t)[j] = s[j]
    BY <2>6
  <2>8. Len(s) \in Nat /\ Len(t) \in Nat /\ Len(seqs[1]) \in Nat BY <2>6, <1>0
  <2>9. Len(s) >= Len(seqs[1]) /\ \A j \in DOMAIN seqs[1] : s[j] = seqs[1][j] BY <2>1 DEF s
  <2>10. Len(s \o t) >= Len(seqs[1]) BY <2>7, <2>8, <2>9
  <2>11. \A j \in DOMAIN seqs[1] : (s \o t)[j] = seqs[1][j] BY <2>5, <2>7, <2>9
  <2>12. f[(i + 1) + 1] = s \o t BY <2>3 DEF s, t
  <2>13. QED BY <2>7, <2>10, <2>11, <2>12
<1>4. Nat \subseteq G
  <2> HIDE DEF G
  <2> QED BY <1>2, <1>3, NumberInduction
<1>5. Len(seqs) - 1 \in G /\ (Len(seqs) - 1) + 1 = Len(seqs)
  <2> HIDE DEF G
  <2> QED BY <1>4
<1>6. /\ f[Len(seqs)] \in Seq(S) /\ Len(f[Len(seqs)]) >= Len(seqs[1])
      /\ \A j \in DOMAIN seqs[1] : f[Len(seqs)][j] = seqs[1][j]
  BY <1>5
<1>7. DOMAIN seqs[1] \subseteq DOMAIN f[Len(seqs)] BY <1>0, <1>6
<1>8. QED BY <1>1, <1>6, <1>7

\* Sequences of one element each give the sequence of the elements.
LEMMA FlattenSingles ==
  ASSUME NEW S, NEW s \in Seq(S)
  PROVE  FlattenSeq([i \in DOMAIN s |-> <<s[i]>>]) = s
<1> DEFINE seqs == [i \in DOMAIN s |-> <<s[i]>>]
<1>0. DOMAIN s = 1 .. Len(s) /\ Len(s) \in Nat OBVIOUS
<1>1. Len(seqs) = Len(s)
  <2>1. DOMAIN seqs = 1 .. Len(s) BY <1>0
  <2>2. seqs \in Seq(Seq(S)) BY <1>0
  <2> HIDE DEF seqs
  <2>3. QED BY <1>0, <2>1, <2>2
<1>2. CASE Len(s) = 0
  <2>1. s = <<>> BY <1>2
  <2>2. seqs = <<>> BY <2>1
  <2> HIDE DEF seqs
  <2>3. QED BY <1>1, <1>2, <2>1, <2>2 DEF FlattenSeq, seqs
<1>3. CASE Len(s) # 0
  <2>1. \A i \in 1 .. Len(s) : seqs[i] = <<s[i]>> BY <1>0
  <2> HIDE DEF seqs
  <2>2. PICK f : /\ f[1] = seqs[1]
                 /\ \A i \in 2 .. Len(seqs) : f[i] = f[i - 1] \o seqs[i]
                 /\ FlattenSeq(seqs) = f[Len(seqs)]
    BY <1>0, <1>1, <1>3, FlattenIs
  <2> DEFINE G == {i \in Nat : i + 1 <= Len(s) =>
                     /\ f[i + 1] \in Seq(S) /\ Len(f[i + 1]) = i + 1
                     /\ \A j \in 1 .. i + 1 : f[i + 1][j] = s[j]}
  <2>3. 0 \in G
    <3>1. f[1] = <<s[1]>> /\ s[1] \in S BY <1>3, <2>1, <2>2
    <3> DEFINE e == s[1]
    <3> HIDE DEF e
    <3>2. f[1] = <<e>> /\ e \in S BY <3>1 DEF e
    <3>3. <<e>> \in Seq(S) /\ Len(<<e>>) = 1 /\ \A j \in 1 .. 0 + 1 : <<e>>[j] = s[j] BY <3>2 DEF e
    <3> DEFINE w == <<e>>
    <3>a. f[0 + 1] = w /\ w \in Seq(S) /\ Len(w) = 1
      <4>1. f[0 + 1] = f[1] OBVIOUS
      <4>2. QED BY <4>1, <3>2, <3>3
    <3> HIDE DEF w
    <3>4. f[0 + 1] \in Seq(S) /\ Len(f[0 + 1]) = 0 + 1 BY <3>a
    <3>5. \A j \in 1 .. 0 + 1 : f[0 + 1][j] = s[j] BY <3>2, <3>3
    <3>6. QED BY <3>4, <3>5
  <2>4. ASSUME NEW i \in Nat, i \in G PROVE i + 1 \in G
    <3> SUFFICES ASSUME (i + 1) + 1 <= Len(s)
                 PROVE  /\ f[(i + 1) + 1] \in Seq(S) /\ Len(f[(i + 1) + 1]) = (i + 1) + 1
                        /\ \A j \in 1 .. (i + 1) + 1 : f[(i + 1) + 1][j] = s[j]
      OBVIOUS
    <3>1. /\ f[i + 1] \in Seq(S) /\ Len(f[i + 1]) = i + 1
          /\ \A j \in 1 .. i + 1 : f[i + 1][j] = s[j]
      BY <2>4
    <3>2. /\ (i + 1) + 1 \in 2 .. Len(seqs) /\ ((i + 1) + 1) - 1 = i + 1
          /\ (i + 1) + 1 \in 1 .. Len(s)
      BY <1>0, <1>1
    <3>3. f[(i + 1) + 1] = f[i + 1] \o <<s[(i + 1) + 1]>> BY <2>1, <2>2, <3>2
    <3>4. s[(i + 1) + 1] \in S BY <3>2
    <3> DEFINE a == f[i + 1]
               e == s[(i + 1) + 1]
    <3> HIDE DEF a, e
    <3>5. a \in Seq(S) /\ e \in S /\ Len(a) = i + 1 /\ \A j \in 1 .. i + 1 : a[j] = s[j] BY <3>1, <3>4 DEF a, e
    <3>6. /\ a \o <<e>> \in Seq(S) /\ Len(a \o <<e>>) = (i + 1) + 1
          /\ \A j \in 1 .. i + 1 : (a \o <<e>>)[j] = a[j]
          /\ (a \o <<e>>)[(i + 1) + 1] = e
      <4>1. <<e>> \in Seq(S) /\ Len(<<e>>) = 1 /\ <<e>>[1] = e BY <3>5
      <4>2. a \o <<e>> \in Seq(S) /\ Len(a \o <<e>>) = Len(a) + 1 BY <3>5, <4>1, ConcatProperties
      <4>3. \A j \in 1 .. Len(a) + 1 : (a \o <<e>>)[j] = IF j <= Len(a) THEN a[j] ELSE <<e>>[j - Len(a)]
        BY <3>5, <4>1, ConcatProperties
      <4>4. QED BY <3>5, <4>1, <4>2, <4>3
    <3>7. \A j \in 1 .. (i + 1) + 1 : (a \o <<e>>)[j] = s[j]
      <4> TAKE j \in 1 .. (i + 1) + 1
      <4>1. CASE j = (i + 1) + 1 BY <4>1, <3>6 DEF e
      <4>2. CASE j # (i + 1) + 1
        <5>1. j \in 1 .. i + 1 BY <4>2
        <5>2. QED BY <5>1, <3>5, <3>6
      <4>3. QED BY <4>1, <4>2
    <3>8. f[(i + 1) + 1] = a \o <<e>> BY <3>3 DEF a, e
    <3>9. QED BY <3>6, <3>7, <3>8
  <2>5. Nat \subseteq G
    <3> HIDE DEF G
    <3> QED BY <2>3, <2>4, NumberInduction
  <2>6. Len(s) - 1 \in G /\ (Len(s) - 1) + 1 = Len(s)
    <3> HIDE DEF G
    <3> QED BY <1>0, <1>3, <2>5
  <2>7. f[Len(s)] \in Seq(S) /\ Len(f[Len(s)]) = Len(s) /\ \A j \in 1 .. Len(s) : f[Len(s)][j] = s[j]
    BY <2>6
  <2>8. f[Len(s)] = s BY <2>7
  <2>9. QED BY <1>1, <2>2, <2>8 DEF seqs
<1>4. QED BY <1>2, <1>3

\* What the parser returns at a position is made of what it returns to the right.
LEMMA ExprIs ==
  ASSUME NEW by, NEW toks, Len(toks) \in Nat
  PROVE  \A p \in Positions(toks) :
           Expr(by, toks)[p] =
             BinaryExpr(by, toks, [q \in p + 1 .. Len(toks) + 1 |-> Expr(by, toks)[q]])[p]
<1> DEFINE N == Len(toks)
           Rest(f, p) == [q \in p + 1 .. N + 1 |-> f[q]]
           E(f, p) == BinaryExpr(by, toks, Rest(f, p))[p]
           Sol(f, m) == f = [p \in m .. N + 1 |-> E(f, p)]
<1>1. \A k \in Nat : k <= N + 1 => \E f : Sol(f, N + 2 - k)
  <2> DEFINE G == {k \in Nat : k <= N + 1 => \E f : Sol(f, N + 2 - k)}
  <2>1. 0 \in G
    <3>1. Sol([p \in {} |-> p], N + 2 - 0)
      <4>1. N + 2 - 0 .. N + 1 = {} OBVIOUS
      <4>2. QED BY <4>1
    <3> HIDE DEF Sol
    <3>2. QED BY <3>1
  <2>2. ASSUME NEW k \in Nat, k \in G PROVE k + 1 \in G
    <3> SUFFICES ASSUME k + 1 <= N + 1 PROVE \E f : Sol(f, N + 2 - (k + 1)) OBVIOUS
    <3> DEFINE m == N + 2 - (k + 1)
    <3>0. m \in Nat /\ m + 1 = N + 2 - k /\ m <= N + 1 OBVIOUS
    <3>1. PICK f : Sol(f, m + 1)
      <4>1. \E f : Sol(f, N + 2 - k) BY <2>2
      <4> HIDE DEF Sol, m
      <4>2. QED BY <3>0, <4>1
    <3> HIDE DEF m
    <3> DEFINE g == [p \in m .. N + 1 |-> E(f, p)]
    <3>2. \A p \in m + 1 .. N + 1 : g[p] = f[p]
      <4>1. f = [p \in m + 1 .. N + 1 |-> E(f, p)] BY <3>1
      <4> HIDE DEF E
      <4>2. \A p \in m + 1 .. N + 1 : f[p] = E(f, p) BY <4>1
      <4>3. \A p \in m + 1 .. N + 1 : p \in m .. N + 1 BY <3>0
      <4>4. QED BY <4>2, <4>3
    <3>3. \A p \in m .. N + 1 : Rest(f, p) = Rest(g, p)
      <4> TAKE p \in m .. N + 1
      <4>1. \A q \in p + 1 .. N + 1 : q \in m + 1 .. N + 1 BY <3>0
      <4> HIDE DEF g
      <4>2. QED BY <3>2, <4>1
    <3>4. g = [p \in m .. N + 1 |-> E(g, p)]
      <4> HIDE DEF Rest
      <4>1. \A p \in m .. N + 1 : E(f, p) = E(g, p) BY <3>3
      <4> HIDE DEF E
      <4>2. QED BY <4>1
    <3>5. Sol(g, m) BY <3>4
    <3> HIDE DEF g, Sol
    <3>6. QED BY <3>5 DEF m
  <2>3. Nat \subseteq G
    <3> HIDE DEF G
    <3> QED BY <2>1, <2>2, NumberInduction
  <2> HIDE DEF Sol
  <2>4. QED BY <2>3
<1>2. \E f : f = [p \in 1 .. N + 1 |-> E(f, p)]
  <2>1. N + 1 \in Nat /\ N + 1 <= N + 1 /\ N + 2 - (N + 1) = 1 OBVIOUS
  <2>2. \E f : Sol(f, 1)
    <3> HIDE DEF Sol
    <3> QED BY <1>1, <2>1
  <2>3. QED BY <2>2
<1> DEFINE X == Expr(by, toks)
<1>3. X = CHOOSE f : f = [p \in 1 .. N + 1 |-> E(f, p)] BY DEF Expr, Positions
<1>4. X = [p \in 1 .. N + 1 |-> E(X, p)]
  <2> HIDE DEF E, X
  <2>1. QED BY <1>2, <1>3
<1>5. \A p \in 1 .. N + 1 : X[p] = E(X, p)
  <2> HIDE DEF E, X
  <2>1. QED BY <1>4
<1>6. QED BY <1>5 DEF Positions

\* What holds of a tree as soon as it holds of all that are less deep, holds.
LEMMA RankInduction ==
  ASSUME NEW G,
         \A a \in Syntax : (\A b \in Syntax : Rank[b] < Rank[a] => b \in G) => a \in G
  PROVE  Syntax \subseteq G
<1> SUFFICES ASSUME NEW w \in Syntax, w \notin G PROVE FALSE OBVIOUS
<1> DEFINE S == {n \in Nat : \E a \in Syntax : a \notin G /\ Rank[a] = n}
<1>1. Rank[w] \in S BY SyntaxTrees
<1>2. PICK m \in S : \A n \in S : m <= n
  <2>1. S \in SUBSET Nat /\ S # {} BY <1>1
  <2> HIDE DEF S
  <2> QED BY <2>1, LeastNumber
<1>3. PICK a \in Syntax : a \notin G /\ Rank[a] = m BY <1>2
<1>4. ASSUME NEW b \in Syntax, Rank[b] < Rank[a] PROVE b \in G
  <2>1. Rank[b] \in Nat /\ Rank[a] \in Nat BY SyntaxTrees
  <2>2. QED BY <1>2, <1>3, <1>4, <2>1
<1>5. QED BY <1>3, <1>4

\* The text of a tree is made of the texts of its children.
LEMMA UnparseIs ==
  \A a \in Syntax : Unparse[a] = Spelled(a, [i \in DOMAIN a.ch |-> Unparse[a.ch[i]]])
<1> DEFINE E(f, a) == Spelled(a, [i \in DOMAIN a.ch |-> f[a.ch[i]]])
           Below(k) == {a \in Syntax : Rank[a] < k}
           Sol(f, k) == f = [a \in Below(k) |-> E(f, a)]
<1>a. ASSUME NEW a \in Syntax, NEW i \in DOMAIN a.ch
      PROVE  a.ch[i] \in Syntax /\ Rank[a] \in Nat /\ Rank[a.ch[i]] \in Nat
             /\ Rank[a.ch[i]] < Rank[a]
  BY SyntaxTrees
<1>e. ASSUME NEW a, NEW f, NEW g, \A i \in DOMAIN a.ch : f[a.ch[i]] = g[a.ch[i]]
      PROVE  E(f, a) = E(g, a)
  <2>1. [i \in DOMAIN a.ch |-> f[a.ch[i]]] = [i \in DOMAIN a.ch |-> g[a.ch[i]]] BY <1>e
  <2>2. QED BY <2>1
<1>1. ASSUME NEW k \in Nat, NEW l \in Nat, NEW f, NEW g, Sol(f, k), Sol(g, l),
             NEW a \in Syntax, Rank[a] < k, Rank[a] < l
      PROVE  f[a] = g[a]
  <2> DEFINE G == {u \in Syntax : Rank[u] < k /\ Rank[u] < l => f[u] = g[u]}
  <2>1. ASSUME NEW u \in Syntax, \A i \in DOMAIN u.ch : u.ch[i] \in G PROVE u \in G
    <3> SUFFICES ASSUME Rank[u] < k, Rank[u] < l PROVE f[u] = g[u] OBVIOUS
    <3>1. f[u] = E(f, u) /\ g[u] = E(g, u) BY <1>1
    <3>2. \A i \in DOMAIN u.ch : f[u.ch[i]] = g[u.ch[i]]
      <4> TAKE i \in DOMAIN u.ch
      <4>1. Rank[u.ch[i]] < k /\ Rank[u.ch[i]] < l BY <1>a
      <4>2. QED BY <2>1, <4>1
    <3>3. QED BY <3>1, <3>2, <1>e
  <2>2. Syntax \subseteq G
    <3> HIDE DEF G
    <3>1. \A u \in Syntax : (\A b \in Syntax : Rank[b] < Rank[u] => b \in G) => u \in G BY <2>1, <1>a
    <3>2. QED BY <3>1, RankInduction
  <2>3. QED BY <2>2, <1>1
<1>2. ASSUME NEW k \in Nat, NEW f, Sol(f, k) PROVE \E g : Sol(g, k + 1)
  <2> DEFINE g == [a \in Below(k + 1) |-> E(f, a)]
  <2>1. ASSUME NEW a \in Below(k + 1) PROVE E(f, a) = E(g, a)
    <3>1. \A i \in DOMAIN a.ch : f[a.ch[i]] = g[a.ch[i]]
      <4> TAKE i \in DOMAIN a.ch
      <4> DEFINE u == a.ch[i]
      <4>1. u \in Syntax /\ Rank[u] \in Nat /\ Rank[u] < k BY <1>a
      <4>2. u \in Below(k) /\ u \in Below(k + 1) BY <4>1
      <4>3. f[u] = E(f, u) BY <1>2, <4>2
      <4>4. g[u] = E(f, u) BY <4>2
      <4>5. QED BY <4>3, <4>4
    <3> HIDE DEF g
    <3>2. QED BY <3>1, <1>e
  <2>2. g = [a \in Below(k + 1) |-> E(g, a)]
    <3>1. \A a \in Below(k + 1) : E(f, a) = E(g, a) BY <2>1
    <3> HIDE DEF E, Below
    <3>2. QED BY <3>1
  <2>3. QED BY <2>2
<1>3. \E f : Sol(f, 0)
  <2>1. Below(0) = {} BY SyntaxTrees
  <2>2. Sol([a \in {} |-> a], 0) BY <2>1
  <2>3. QED BY <2>2
<1>4. \A k \in Nat : \E f : Sol(f, k)
  <2> HIDE DEF Sol
  <2> DEFINE K == {k \in Nat : \A f : ~Sol(f, k)}
  <2> SUFFICES ASSUME K # {} PROVE FALSE OBVIOUS
  <2>1. PICK k \in K : \A n \in K : k <= n
    <3>1. K \in SUBSET Nat OBVIOUS
    <3> HIDE DEF K
    <3> QED BY <3>1, LeastNumber
  <2>2. k \in Nat /\ \A f : ~Sol(f, k) OBVIOUS
  <2>3. k # 0 BY <2>2, <1>3
  <2>4. k - 1 \in Nat /\ k - 1 \notin K
    <3>1. k - 1 \in Nat /\ ~(k <= k - 1) BY <2>2, <2>3
    <3> HIDE DEF K
    <3>2. QED BY <2>1, <3>1
  <2>5. PICK f : Sol(f, k - 1) BY <2>4
  <2>6. \E g : Sol(g, (k - 1) + 1) BY <2>4, <2>5, <1>2
  <2>7. (k - 1) + 1 = k BY <2>2
  <2>8. QED BY <2>2, <2>6, <2>7
<1> DEFINE F(a) == CHOOSE f : Sol(f, Rank[a] + 1)
           h == [a \in Syntax |-> F(a)[a]]
<1>5. ASSUME NEW a \in Syntax PROVE Rank[a] + 1 \in Nat /\ Sol(F(a), Rank[a] + 1)
  <2>1. Rank[a] + 1 \in Nat BY SyntaxTrees
  <2>2. \E f : Sol(f, Rank[a] + 1) BY <2>1, <1>4
  <2> HIDE DEF Sol
  <2>3. QED BY <2>1, <2>2
<1> HIDE DEF F
<1>6. ASSUME NEW a \in Syntax PROVE h[a] = E(h, a)
  <2>1. F(a)[a] = E(F(a), a)
    <3>1. a \in Below(Rank[a] + 1) BY SyntaxTrees
    <3>2. QED BY <3>1, <1>5
  <2>2. \A i \in DOMAIN a.ch : F(a)[a.ch[i]] = h[a.ch[i]]
    <3> TAKE i \in DOMAIN a.ch
    <3>1. PICK u : u = a.ch[i] OBVIOUS
    <3>2. u \in Syntax /\ Rank[u] \in Nat /\ Rank[a] \in Nat /\ Rank[u] < Rank[a] BY <1>a, <3>1
    <3>3. Rank[u] < Rank[a] + 1 /\ Rank[u] < Rank[u] + 1 BY <3>2
    <3>4. F(a)[u] = F(u)[u]
      <4>1. Rank[a] + 1 \in Nat /\ Sol(F(a), Rank[a] + 1) BY <1>5
      <4>2. Rank[u] + 1 \in Nat /\ Sol(F(u), Rank[u] + 1) BY <1>5, <3>2
      <4> HIDE DEF Sol
      <4>3. QED BY <1>1, <3>2, <3>3, <4>1, <4>2
    <3>5. QED BY <3>1, <3>2, <3>4
  <2> HIDE DEF h
  <2>3. E(F(a), a) = E(h, a) BY <2>2, <1>e
  <2>4. h[a] = F(a)[a] BY DEF h
  <2>5. QED BY <2>1, <2>3, <2>4
<1>7. h = [a \in Syntax |-> E(h, a)]
  <2>1. h = [a \in Syntax |-> h[a]] OBVIOUS
  <2> HIDE DEF h, E
  <2>2. QED BY <2>1, <1>6
<1>8. Unparse = [a \in Syntax |-> E(Unparse, a)]
  <2> HIDE DEF h
  <2>1. Unparse = CHOOSE f : f = [a \in Syntax |-> E(f, a)] BY DEF Unparse
  <2> HIDE DEF E
  <2>2. QED BY <2>1, <1>7
<1>9. QED BY <1>8
\* What becomes of a tree is made of what becomes of the children that are kept.
LEMMA DslIs ==
  ASSUME NEW c,
         \A a \in Syntax : \A i \in DOMAIN c[a] : c[a][i] \in Syntax /\ Rank[c[a][i]] < Rank[a]
  PROVE  \A a \in Syntax :
           ExprDsl(c)[a] = Entry(a.n, a.v, [i \in DOMAIN c[a] |-> ExprDsl(c)[c[a][i]]])
<1> DEFINE E(f, a) == Entry(a.n, a.v, [i \in DOMAIN c[a] |-> f[c[a][i]]])
           Below(k) == {a \in Syntax : Rank[a] < k}
           Sol(f, k) == f = [a \in Below(k) |-> E(f, a)]
<1>a. ASSUME NEW a \in Syntax, NEW i \in DOMAIN c[a]
      PROVE  c[a][i] \in Syntax /\ Rank[a] \in Nat /\ Rank[c[a][i]] \in Nat
             /\ Rank[c[a][i]] < Rank[a]
  BY SyntaxTrees
<1>e. ASSUME NEW a, NEW f, NEW g, \A i \in DOMAIN c[a] : f[c[a][i]] = g[c[a][i]]
      PROVE  E(f, a) = E(g, a)
  <2>1. [i \in DOMAIN c[a] |-> f[c[a][i]]] = [i \in DOMAIN c[a] |-> g[c[a][i]]] BY <1>e
  <2>2. QED BY <2>1
<1>1. ASSUME NEW k \in Nat, NEW l \in Nat, NEW f, NEW g, Sol(f, k), Sol(g, l),
             NEW a \in Syntax, Rank[a] < k, Rank[a] < l
      PROVE  f[a] = g[a]
  <2> DEFINE G == {u \in Syntax : Rank[u] < k /\ Rank[u] < l => f[u] = g[u]}
  <2>1. ASSUME NEW u \in Syntax, \A i \in DOMAIN c[u] : c[u][i] \in G PROVE u \in G
    <3> SUFFICES ASSUME Rank[u] < k, Rank[u] < l PROVE f[u] = g[u] OBVIOUS
    <3>1. f[u] = E(f, u) /\ g[u] = E(g, u) BY <1>1
    <3>2. \A i \in DOMAIN c[u] : f[c[u][i]] = g[c[u][i]]
      <4> TAKE i \in DOMAIN c[u]
      <4>1. Rank[c[u][i]] < k /\ Rank[c[u][i]] < l BY <1>a
      <4>2. QED BY <2>1, <4>1
    <3>3. QED BY <3>1, <3>2, <1>e
  <2>2. Syntax \subseteq G
    <3> HIDE DEF G
    <3>1. \A u \in Syntax : (\A b \in Syntax : Rank[b] < Rank[u] => b \in G) => u \in G BY <2>1, <1>a
    <3>2. QED BY <3>1, RankInduction
  <2>3. QED BY <2>2, <1>1
<1>2. ASSUME NEW k \in Nat, NEW f, Sol(f, k) PROVE \E g : Sol(g, k + 1)
  <2> DEFINE g == [a \in Below(k + 1) |-> E(f, a)]
  <2>1. ASSUME NEW a \in Below(k + 1) PROVE E(f, a) = E(g, a)
    <3>1. \A i \in DOMAIN c[a] : f[c[a][i]] = g[c[a][i]]
      <4> TAKE i \in DOMAIN c[a]
      <4> DEFINE u == c[a][i]
      <4>1. u \in Syntax /\ Rank[u] \in Nat /\ Rank[u] < k BY <1>a
      <4>2. u \in Below(k) /\ u \in Below(k + 1) BY <4>1
      <4>3. f[u] = E(f, u) BY <1>2, <4>2
      <4>4. g[u] = E(f, u) BY <4>2
      <4>5. QED BY <4>3, <4>4
    <3> HIDE DEF g
    <3>2. QED BY <3>1, <1>e
  <2>2. g = [a \in Below(k + 1) |-> E(g, a)]
    <3>1. \A a \in Below(k + 1) : E(f, a) = E(g, a) BY <2>1
    <3> HIDE DEF E, Below
    <3>2. QED BY <3>1
  <2>3. QED BY <2>2
<1>3. \E f : Sol(f, 0)
  <2>1. Below(0) = {} BY SyntaxTrees
  <2>2. Sol([a \in {} |-> a], 0) BY <2>1
  <2>3. QED BY <2>2
<1>4. \A k \in Nat : \E f : Sol(f, k)
  <2> HIDE DEF Sol
  <2> DEFINE K == {k \in Nat : \A f : ~Sol(f, k)}
  <2> SUFFICES ASSUME K # {} PROVE FALSE OBVIOUS
  <2>1. PICK k \in K : \A n \in K : k <= n
    <3>1. K \in SUBSET Nat OBVIOUS
    <3> HIDE DEF K
    <3> QED BY <3>1, LeastNumber
  <2>2. k \in Nat /\ \A f : ~Sol(f, k) OBVIOUS
  <2>3. k # 0 BY <2>2, <1>3
  <2>4. k - 1 \in Nat /\ k - 1 \notin K
    <3>1. k - 1 \in Nat /\ ~(k <= k - 1) BY <2>2, <2>3
    <3> HIDE DEF K
    <3>2. QED BY <2>1, <3>1
  <2>5. PICK f : Sol(f, k - 1) BY <2>4
  <2>6. \E g : Sol(g, (k - 1) + 1) BY <2>4, <2>5, <1>2
  <2>7. (k - 1) + 1 = k BY <2>2
  <2>8. QED BY <2>2, <2>6, <2>7
<1> DEFINE F(a) == CHOOSE f : Sol(f, Rank[a] + 1)
           h == [a \in Syntax |-> F(a)[a]]
<1>5. ASSUME NEW a \in Syntax PROVE Rank[a] + 1 \in Nat /\ Sol(F(a), Rank[a] + 1)
  <2>1. Rank[a] + 1 \in Nat BY SyntaxTrees
  <2>2. \E f : Sol(f, Rank[a] + 1) BY <2>1, <1>4
  <2> HIDE DEF Sol
  <2>3. QED BY <2>1, <2>2
<1> HIDE DEF F
<1>6. ASSUME NEW a \in Syntax PROVE h[a] = E(h, a)
  <2>1. F(a)[a] = E(F(a), a)
    <3>1. a \in Below(Rank[a] + 1) BY SyntaxTrees
    <3>2. QED BY <3>1, <1>5
  <2>2. \A i \in DOMAIN c[a] : F(a)[c[a][i]] = h[c[a][i]]
    <3> TAKE i \in DOMAIN c[a]
    <3>1. PICK u : u = c[a][i] OBVIOUS
    <3>2. u \in Syntax /\ Rank[u] \in Nat /\ Rank[a] \in Nat /\ Rank[u] < Rank[a] BY <1>a, <3>1
    <3>3. Rank[u] < Rank[a] + 1 /\ Rank[u] < Rank[u] + 1 BY <3>2
    <3>4. F(a)[u] = F(u)[u]
      <4>1. Rank[a] + 1 \in Nat /\ Sol(F(a), Rank[a] + 1) BY <1>5
      <4>2. Rank[u] + 1 \in Nat /\ Sol(F(u), Rank[u] + 1) BY <1>5, <3>2
      <4> HIDE DEF Sol
      <4>3. QED BY <1>1, <3>2, <3>3, <4>1, <4>2
    <3>5. QED BY <3>1, <3>2, <3>4
  <2> HIDE DEF h
  <2>3. E(F(a), a) = E(h, a) BY <2>2, <1>e
  <2>4. h[a] = F(a)[a] BY DEF h
  <2>5. QED BY <2>1, <2>3, <2>4
<1>7. h = [a \in Syntax |-> E(h, a)]
  <2>1. h = [a \in Syntax |-> h[a]] OBVIOUS
  <2> HIDE DEF h, E
  <2>2. QED BY <2>1, <1>6
<1>8. ExprDsl(c) = [a \in Syntax |-> E(ExprDsl(c), a)]
  <2> HIDE DEF h
  <2>1. ExprDsl(c) = CHOOSE f : f = [a \in Syntax |-> E(f, a)] BY DEF ExprDsl
  <2> HIDE DEF E
  <2>2. QED BY <2>1, <1>7
<1>9. QED BY <1>8

\* What holds of a position as soon as it holds of all to its right, holds.
LEMMA PositionInduction ==
  ASSUME NEW N \in Nat, NEW G,
         \A p \in 1 .. N + 1 : (\A q \in p + 1 .. N + 1 : q \in G) => p \in G
  PROVE  1 .. N + 1 \subseteq G
<1> DEFINE K == {k \in Nat : \A q \in 1 .. N + 1 : q > N + 1 - k => q \in G}
<1>1. 0 \in K OBVIOUS
<1>2. ASSUME NEW k \in Nat, k \in K PROVE k + 1 \in K
  <2> SUFFICES ASSUME NEW q \in 1 .. N + 1, q > N + 1 - (k + 1) PROVE q \in G OBVIOUS
  <2>1. \A x \in q + 1 .. N + 1 : x \in 1 .. N + 1 /\ x > N + 1 - k OBVIOUS
  <2>2. \A x \in q + 1 .. N + 1 : x \in G BY <1>2, <2>1
  <2>3. QED BY <2>2
<1>3. Nat \subseteq K
  <2> HIDE DEF K
  <2> QED BY <1>1, <1>2, NumberInduction
<1>4. N + 1 \in K
  <2> HIDE DEF K
  <2> QED BY <1>3
<1>5. \A q \in 1 .. N + 1 : q > N + 1 - (N + 1) OBVIOUS
<1>6. QED BY <1>4, <1>5

-----------------------------------------------------------------------------
(* The parser moves to the right, and its loops come to an end.            *)

Moving(toks, O, p) ==
  \A q \in Positions(toks) : q >= p /\ O[q].ok => O[q].pos \in q + 1 .. Len(toks) + 1
Ended(toks, seps, l) == l.ok => Peek(toks, l.pos) \notin seps

\* An item may also be nothing: a round takes a token before it.
Going(toks, O, p) ==
  \A q \in Positions(toks) : q >= p /\ O[q].ok => O[q].pos \in q .. Len(toks) + 1

\* Every round ends to the right of the one before it, or is the last.
LEMMA LoopAdvances ==
  ASSUME NEW S, NEW toks \in Seq(S), NEW O, NEW seps, NEW kind, NEW first, NEW p \in Nat,
         "EOF" \notin seps, Going(toks, O, p), first.ok => first.pos \in p .. Len(toks) + 1
  PROVE  LET L == Loop(toks, O, seps, kind, first)
         IN  \A n \in Nat : L[n].ok =>
               /\ first.ok /\ L[n].pos \in first.pos .. Len(toks) + 1
               /\ Peek(toks, L[n].pos) \in seps => L[n].pos >= first.pos + n
<1> DEFINE L == Loop(toks, O, seps, kind, first)
           N == Len(toks)
           J(n) == L[n].ok =>
                     /\ first.ok /\ L[n].pos \in first.pos .. N + 1
                     /\ Peek(toks, L[n].pos) \in seps => L[n].pos >= first.pos + n
<1>0. L[0] = first /\ \A n \in Nat : L[n + 1] = MoreItems(toks, O, seps, kind, L[n])
  <2>1. L[0] = first BY LoopIs
  <2>2. \A n \in Nat : L[n + 1] = MoreItems(toks, O, seps, kind, L[n]) BY LoopIs
  <2>3. QED BY <2>1, <2>2
<1>n. N \in Nat /\ DOMAIN toks = 1 .. N OBVIOUS
<1> HIDE DEF L
<1> DEFINE G == {n \in Nat : J(n)}
<1>1. 0 \in G
  <2>1. J(0)
    <3> SUFFICES ASSUME first.ok PROVE first.pos \in first.pos .. N + 1 /\ first.pos >= first.pos + 0 BY <1>0
    <3>1. first.pos \in p .. N + 1 OBVIOUS
    <3>2. QED BY <3>1, <1>n
  <2>2. QED BY <2>1
<1>2. ASSUME NEW n \in Nat, n \in G PROVE n + 1 \in G
  <2> DEFINE l == L[n]
  <2>j. J(n) BY <1>2
  <2>1. L[n + 1] = MoreItems(toks, O, seps, kind, L[n]) BY <1>0
  <2>2. CASE ~L[n].ok \/ Peek(toks, L[n].pos) \notin seps
    <3>1. L[n + 1] = L[n] BY <2>1, <2>2 DEF MoreItems
    <3>2. J(n + 1) BY <3>1, <2>2, <2>j
    <3>3. QED BY <3>2
  <2>3. CASE L[n].ok /\ Peek(toks, L[n].pos) \in seps
    <3>1. PICK q : q = L[n].pos OBVIOUS
    <3>2. q \in 1 .. N BY <2>3, <3>1 DEF Peek
    <3>3. first.ok /\ first.pos \in p .. N + 1 /\ q \in first.pos .. N + 1 /\ q >= first.pos + n
      BY <2>j, <2>3, <3>1
    <3>4. q + 1 \in Positions(toks) /\ q + 1 >= p BY <3>2, <3>3, <1>n DEF Positions
    <3>5. PICK r : r = O[q + 1] OBVIOUS
    <3>6. r.ok => r.pos \in q + 1 .. N + 1 BY <3>4, <3>5 DEF Going
    <3>7. L[n + 1] = IF r.ok THEN Got(Joined(kind, L[n].node, toks[q], r.node), r.pos) ELSE Bad
      BY <2>1, <2>3, <3>1, <3>5 DEF MoreItems
    <3>8. CASE r.ok
      <4>1. L[n + 1].pos = r.pos BY <3>7, <3>8 DEF Got
      <4>2. r.pos >= first.pos + (n + 1) /\ r.pos \in first.pos .. N + 1 BY <3>2, <3>3, <3>6, <3>8
      <4>3. J(n + 1) BY <3>3, <4>1, <4>2
      <4>4. QED BY <4>3
    <3>9. CASE ~r.ok
      <4>1. ~L[n + 1].ok BY <3>7, <3>9 DEF Bad
      <4>2. QED BY <4>1
    <3>10. QED BY <3>8, <3>9
  <2>4. QED BY <2>2, <2>3
<1>3. Nat \subseteq G
  <2> HIDE DEF G
  <2> QED BY <1>1, <1>2, NumberInduction
<1>4. \A n \in Nat : J(n)
  <2> HIDE DEF J
  <2> QED BY <1>3
<1>5. QED BY <1>4 DEF L

\* The loop has ended when it is left, and it is left as soon as it has ended.
LEMMA LoopStops ==
  ASSUME NEW S, NEW toks \in Seq(S), NEW O, NEW seps, NEW kind, NEW first, NEW p \in Nat,
         "EOF" \notin seps, Going(toks, O, p), first.ok => first.pos \in p .. Len(toks) + 1
  PROVE  /\ Items(toks, O, seps, kind, first).ok =>
              first.ok /\ Items(toks, O, seps, kind, first).pos \in first.pos .. Len(toks) + 1
         /\ Ended(toks, seps, Items(toks, O, seps, kind, first))
         /\ \E n \in Nat : Items(toks, O, seps, kind, first) = Loop(toks, O, seps, kind, first)[n]
         /\ \A m \in Nat : Ended(toks, seps, Loop(toks, O, seps, kind, first)[m]) =>
              Items(toks, O, seps, kind, first) = Loop(toks, O, seps, kind, first)[m]
<1> DEFINE L == Loop(toks, O, seps, kind, first)
           N == Len(toks)
           k == Left(toks, first)
<1>0. L[0] = first /\ \A n \in Nat : L[n + 1] = MoreItems(toks, O, seps, kind, L[n])
  <2>1. L[0] = first BY LoopIs
  <2>2. \A n \in Nat : L[n + 1] = MoreItems(toks, O, seps, kind, L[n]) BY LoopIs
  <2>3. QED BY <2>1, <2>2
<1>n. N \in Nat /\ DOMAIN toks = 1 .. N OBVIOUS
<1>1. \A n \in Nat : L[n].ok =>
        /\ first.ok /\ L[n].pos \in first.pos .. N + 1
        /\ Peek(toks, L[n].pos) \in seps => L[n].pos >= first.pos + n
  BY LoopAdvances
<1>2. Items(toks, O, seps, kind, first) = L[k] BY DEF Items
<1> HIDE DEF L
<1>3. k \in Nat BY <1>n DEF Left
<1>4. Ended(toks, seps, L[k])
  <2> SUFFICES ASSUME L[k].ok, Peek(toks, L[k].pos) \in seps PROVE FALSE BY DEF Ended
  <2>1. first.ok /\ L[k].pos >= first.pos + k BY <1>1, <1>3
  <2>2. first.pos \in p .. N + 1 /\ k = N + 1 - first.pos BY <2>1 DEF Left
  <2>3. L[k].pos \in 1 .. N BY <1>n DEF Peek
  <2> HIDE DEF k
  <2>4. QED BY <2>1, <2>2, <2>3, <1>n
<1>5. ASSUME NEW m \in Nat, Ended(toks, seps, L[m])
      PROVE  \A n \in Nat : L[m + n] = L[m]
  <2> DEFINE G == {n \in Nat : L[m + n] = L[m]}
  <2>1. 0 \in G
    <3>1. m + 0 = m OBVIOUS
    <3>2. QED BY <3>1
  <2>2. ASSUME NEW n \in Nat, n \in G PROVE n + 1 \in G
    <3>1. m + n \in Nat /\ (m + n) + 1 = m + (n + 1) OBVIOUS
    <3>2. L[m + n] = L[m] BY <2>2
    <3>3. L[(m + n) + 1] = MoreItems(toks, O, seps, kind, L[m]) BY <1>0, <3>1, <3>2
    <3>4. MoreItems(toks, O, seps, kind, L[m]) = L[m] BY <1>5 DEF MoreItems, Ended
    <3>5. QED BY <3>1, <3>3, <3>4
  <2>3. Nat \subseteq G
    <3> HIDE DEF G
    <3> QED BY <2>1, <2>2, NumberInduction
  <2>4. QED BY <2>3
<1> HIDE DEF k
<1>6. ASSUME NEW m \in Nat, Ended(toks, seps, L[m]) PROVE L[k] = L[m]
  <2>1. CASE k >= m
    <3>1. k - m \in Nat /\ m + (k - m) = k BY <1>3, <2>1
    <3>2. L[m + (k - m)] = L[m] BY <1>5, <1>6, <3>1
    <3>3. QED BY <3>1, <3>2
  <2>2. CASE ~(k >= m)
    <3>1. m - k \in Nat /\ k + (m - k) = m BY <1>3, <2>2
    <3>2. L[k + (m - k)] = L[k] BY <1>3, <1>4, <1>5, <3>1
    <3>3. QED BY <3>1, <3>2
  <2>3. QED BY <2>1, <2>2
<1>7. L[k].ok => first.ok /\ L[k].pos \in first.pos .. N + 1 BY <1>1, <1>3
<1>8. QED BY <1>2, <1>3, <1>4, <1>6, <1>7 DEF L

LEMMA MovingGoes ==
  ASSUME NEW toks, Len(toks) \in Nat, NEW O, NEW p, Moving(toks, O, p)
  PROVE  Going(toks, O, p)
<1> SUFFICES ASSUME NEW q \in Positions(toks), q >= p, O[q].ok
             PROVE  O[q].pos \in q .. Len(toks) + 1
  BY DEF Going
<1>1. q \in Nat BY DEF Positions
<1>2. O[q].pos \in q + 1 .. Len(toks) + 1 BY DEF Moving
<1>3. QED BY <1>1, <1>2

\* The same of a loop whose items have tokens.
LEMMA LoopMoves ==
  ASSUME NEW S, NEW toks \in Seq(S), NEW O, NEW seps, NEW kind, NEW first, NEW p \in Nat,
         "EOF" \notin seps, Moving(toks, O, p), first.ok => first.pos \in p .. Len(toks) + 1
  PROVE  LET L == Loop(toks, O, seps, kind, first)
         IN  \A n \in Nat : L[n].ok =>
               /\ first.ok /\ L[n].pos \in first.pos .. Len(toks) + 1
               /\ Peek(toks, L[n].pos) \in seps => L[n].pos >= first.pos + n
<1>1. Len(toks) \in Nat OBVIOUS
<1>2. Going(toks, O, p) BY <1>1, MovingGoes
<1>3. QED BY <1>2, LoopAdvances

LEMMA LoopEnds ==
  ASSUME NEW S, NEW toks \in Seq(S), NEW O, NEW seps, NEW kind, NEW first, NEW p \in Nat,
         "EOF" \notin seps, Moving(toks, O, p), first.ok => first.pos \in p .. Len(toks) + 1
  PROVE  /\ Items(toks, O, seps, kind, first).ok =>
              first.ok /\ Items(toks, O, seps, kind, first).pos \in first.pos .. Len(toks) + 1
         /\ Ended(toks, seps, Items(toks, O, seps, kind, first))
         /\ \E n \in Nat : Items(toks, O, seps, kind, first) = Loop(toks, O, seps, kind, first)[n]
         /\ \A m \in Nat : Ended(toks, seps, Loop(toks, O, seps, kind, first)[m]) =>
              Items(toks, O, seps, kind, first) = Loop(toks, O, seps, kind, first)[m]
<1>1. Len(toks) \in Nat OBVIOUS
<1>2. Going(toks, O, p) BY <1>1, MovingGoes
<1>3. QED BY <1>2, LoopStops

\* A loop that has nothing to do is its start.
LEMMA LoopIdle ==
  ASSUME NEW S, NEW toks \in Seq(S), NEW O, NEW seps, NEW kind, NEW first, NEW p \in Nat,
         "EOF" \notin seps, Moving(toks, O, p), first.ok => first.pos \in p .. Len(toks) + 1,
         Ended(toks, seps, first)
  PROVE  Items(toks, O, seps, kind, first) = first
<1>1. Loop(toks, O, seps, kind, first)[0] = first BY LoopIs
<1>2. 0 \in Nat OBVIOUS
<1>3. Ended(toks, seps, Loop(toks, O, seps, kind, first)[0]) BY <1>1
<1>4. QED BY <1>1, <1>2, <1>3, LoopEnds

LEMMA MovingOn ==
  ASSUME NEW toks, NEW O, NEW p \in Nat, NEW q \in Nat, p <= q, Moving(toks, O, p)
  PROVE  Moving(toks, O, q)
<1> SUFFICES ASSUME NEW x \in Positions(toks), x >= q, O[x].ok
             PROVE  O[x].pos \in x + 1 .. Len(toks) + 1
  BY DEF Moving
<1>1. Len(toks) \in Int => x \in Int BY DEF Positions
<1>2. CASE x \in Int BY <1>2 DEF Moving
<1>3. QED BY <1>2 DEF Positions

\* A token that is not the end of the text.
LEMMA PeekIn ==
  ASSUME NEW S, NEW toks \in Seq(S), NEW p, Peek(toks, p) # "EOF"
  PROVE  p \in 1 .. Len(toks) /\ p + 1 \in Positions(toks) /\ Peek(toks, p) = toks[p]
<1>1. p \in DOMAIN toks BY DEF Peek
<1>2. DOMAIN toks = 1 .. Len(toks) /\ Len(toks) \in Nat OBVIOUS
<1>3. p \in 1 .. Len(toks) BY <1>1, <1>2
<1>4. QED BY <1>1, <1>2, <1>3 DEF Peek, Positions

LEMMA ClosedMoves ==
  ASSUME NEW S, NEW toks \in Seq(S), NEW r, NEW p \in Nat,
         r.ok => r.pos \in p .. Len(toks) + 1, Closed(toks, r).ok
  PROVE  Closed(toks, r).pos \in p + 1 .. Len(toks) + 1
<1>1. r.ok /\ Peek(toks, r.pos) = ")" BY DEF Closed, Bad
<1>2. r.pos \in 1 .. Len(toks) BY <1>1, PeekIn
<1>3. Closed(toks, r).pos = r.pos + 1 BY <1>1 DEF Closed, Got
<1>4. r.pos \in p .. Len(toks) + 1 BY <1>1
<1>5. Len(toks) \in Nat OBVIOUS
<1>6. QED BY <1>2, <1>3, <1>4, <1>5

\* Punctuation and operators are no words.
LEMMA SignsApart ==
  ASSUME NEW t \in OneChar \cup DOMAIN TwoChars \cup {"EOF"}
  PROVE  t \notin Ints /\ t \notin Words /\ t \notin Primitives
BY LexemesApart

LEMMA AtomIs ==
  ASSUME NEW by, NEW toks, NEW R, NEW p
  PROVE  /\ Peek(toks, p) = "(" => Atom(by, toks, R, p) = Closed(toks, R[p + 1])
         /\ Peek(toks, p) \in Ints =>
              Atom(by, toks, R, p) = Got(Node("int", Peek(toks, p), <<>>), p + 1)
         /\ Peek(toks, p) \in Names(by) =>
              Atom(by, toks, R, p) = Got(Node("name", Peek(toks, p), <<>>), p + 1)
<1> DEFINE t == Peek(toks, p)
<1>1. "(" \notin Ints /\ "(" \notin Names(by)
  <2>1. "(" \in OneChar \cup DOMAIN TwoChars \cup {"EOF"} BY DEF OneChar
  <2>2. "(" \notin Ints /\ "(" \notin Words BY <2>1, SignsApart
  <2>3. QED BY <2>2 DEF Names
<1>2. t \in Names(by) => t \notin Ints BY LexemesApart DEF Names
<1> HIDE DEF t
<1>3. Atom(by, toks, R, p) =
        CASE t = "("         -> Closed(toks, R[p + 1])
          [] t \in Ints      -> Got(Node("int", t, <<>>), p + 1)
          [] t \in Names(by) -> Got(Node("name", t, <<>>), p + 1)
          [] OTHER           -> Bad
  BY DEF Atom, t
<1> DEFINE A == Atom(by, toks, R, p)
<1> HIDE DEF A
<1>4. /\ t = "(" => A = Closed(toks, R[p + 1])
      /\ t \in Ints => A = Got(Node("int", t, <<>>), p + 1)
      /\ t \in Names(by) => A = Got(Node("name", t, <<>>), p + 1)
  BY <1>1, <1>2, <1>3 DEF A
<1>5. QED BY <1>4 DEF A, t

\* An operand ends to the right of its start if what is to its right does.
LEMMA CallMoves ==
  ASSUME NEW S, NEW toks \in Seq(S), NEW by, NEW R, NEW p \in Positions(toks),
         Moving(toks, R, p + 1), CallExpr(by, toks, R, p).ok
  PROVE  CallExpr(by, toks, R, p).pos \in p + 1 .. Len(toks) + 1
<1>n. Len(toks) \in Nat /\ p \in Nat /\ p >= 1 BY DEF Positions
<1>1. CASE ~Called(by, toks, p)
  <2>1. CallExpr(by, toks, R, p) = Atom(by, toks, R, p) BY <1>1 DEF CallExpr
  <2>2. CASE Peek(toks, p) = "("
    <3>1. p \in 1 .. Len(toks) /\ p + 1 \in Positions(toks) BY <2>2, PeekIn
    <3>2. Atom(by, toks, R, p) = Closed(toks, R[p + 1]) BY <2>2, AtomIs
    <3>3. R[p + 1].ok => R[p + 1].pos \in p + 2 .. Len(toks) + 1
      <4>1. p + 1 >= p + 1 /\ (p + 1) + 1 = p + 2 BY <1>n
      <4>2. QED BY <3>1, <4>1 DEF Moving
    <3>4. Closed(toks, R[p + 1]).pos \in (p + 2) + 1 .. Len(toks) + 1
      <4>1. p + 2 \in Nat BY <1>n
      <4>2. Closed(toks, R[p + 1]).ok BY <2>1, <3>2
      <4> DEFINE r == R[p + 1]
      <4> HIDE DEF r
      <4>3. QED BY <3>3, <4>1, <4>2, ClosedMoves DEF r
    <3>5. QED BY <2>1, <3>2, <3>4, <1>n
  <2>3. CASE Peek(toks, p) # "("
    <3>1. Peek(toks, p) \in Ints \cup Words BY <2>1, <2>3 DEF Atom, Bad, Names
    <3>2. Peek(toks, p) # "EOF" BY <3>1, LexemesApart
    <3>3. p \in 1 .. Len(toks) BY <3>2, PeekIn
    <3>4. Atom(by, toks, R, p).pos = p + 1 BY <2>1, <2>3 DEF Atom, Bad, Got
    <3>5. QED BY <2>1, <3>3, <3>4
  <2>4. QED BY <2>2, <2>3
<1>2. CASE Called(by, toks, p)
  <2> DEFINE a == Arguments(toks, R, p + 2)
             c == Closed(toks, a)
  <2>1. Peek(toks, p + 1) = "(" /\ c.ok /\ CallExpr(by, toks, R, p).pos = c.pos
    BY <1>2 DEF CallExpr, Bad, Got
  <2>2. p + 1 \in 1 .. Len(toks) /\ p + 2 \in Positions(toks)
    <3>1. p + 1 \in 1 .. Len(toks) BY <2>1, PeekIn
    <3>2. QED BY <3>1, <1>n DEF Positions
  <2>3. a.ok => a.pos \in p + 2 .. Len(toks) + 1
    <3>1. CASE Peek(toks, p + 2) = ")" BY <3>1, <2>2, <1>n DEF Arguments, Got
    <3>2. CASE Peek(toks, p + 2) # ")" /\ R[p + 2].ok
      <4> DEFINE f == Got(<<R[p + 2].node>>, R[p + 2].pos)
      <4>1. a = Items(toks, R, {","}, "argument", f) BY <3>2 DEF Arguments
      <4>2. Moving(toks, R, p + 2)
        <5>1. p + 1 \in Nat /\ p + 2 \in Nat /\ p + 1 <= p + 2 BY <1>n
        <5>2. QED BY <5>1, MovingOn
      <4>3. f.pos \in (p + 2) + 1 .. Len(toks) + 1
        <5>1. p + 2 >= p + 2 BY <1>n
        <5>2. R[p + 2].pos \in (p + 2) + 1 .. Len(toks) + 1 BY <2>2, <3>2, <4>2, <5>1 DEF Moving
        <5>3. QED BY <5>2 DEF Got
      <4>4. p + 2 \in Nat /\ "EOF" \notin {","} BY <1>n
      <4>5. f.pos \in p + 2 .. Len(toks) + 1 BY <4>3, <1>n
      <4> HIDE DEF f
      <4>6. Items(toks, R, {","}, "argument", f).ok =>
              Items(toks, R, {","}, "argument", f).pos \in f.pos .. Len(toks) + 1
        BY <4>2, <4>4, <4>5, LoopEnds
      <4> DEFINE i == Items(toks, R, {","}, "argument", f)
      <4> HIDE DEF i, a
      <4>7. a = i BY <4>1 DEF i
      <4>8. i.ok => i.pos \in f.pos .. Len(toks) + 1 BY <4>6 DEF i
      <4>9. QED BY <4>5, <4>7, <4>8, <1>n
    <3>3. CASE Peek(toks, p + 2) # ")" /\ ~R[p + 2].ok BY <3>3 DEF Arguments, Bad
    <3>4. QED BY <3>1, <3>2, <3>3
  <2>4. c.pos \in (p + 2) + 1 .. Len(toks) + 1
    <3>1. p + 2 \in Nat BY <1>n
    <3> HIDE DEF a
    <3>2. QED BY <2>1, <2>3, <3>1, ClosedMoves
  <2> HIDE DEF c
  <2>5. QED BY <2>1, <2>4, <1>n
<1>3. QED BY <1>1, <1>2

\* A chain of operators ends to the right of its start, and with no operator.
LEMMA ChainMoves ==
  ASSUME NEW S, NEW toks \in Seq(S), NEW O, NEW ops, NEW p \in Nat,
         "EOF" \notin ops, Moving(toks, O, p)
  PROVE  /\ Moving(toks, Chains(toks, O, ops), p)
         /\ \A q \in Positions(toks) : q >= p => Ended(toks, ops, Chains(toks, O, ops)[q])
<1> SUFFICES ASSUME NEW q \in Positions(toks), q >= p
             PROVE  /\ Chains(toks, O, ops)[q].ok => Chains(toks, O, ops)[q].pos \in q + 1 .. Len(toks) + 1
                    /\ Ended(toks, ops, Chains(toks, O, ops)[q])
  BY DEF Moving
<1>n. Len(toks) \in Nat /\ q \in Nat BY DEF Positions
<1> DEFINE first == O[q]
           i == Items(toks, O, ops, "binop", first)
<1>1. Chains(toks, O, ops)[q] = i BY DEF Chains
<1>2. first.ok => first.pos \in q + 1 .. Len(toks) + 1 BY DEF Moving
<1>3. first.ok => first.pos \in p .. Len(toks) + 1 BY <1>2, <1>n
<1> HIDE DEF first
<1>4. (i.ok => first.ok /\ i.pos \in first.pos .. Len(toks) + 1) /\ Ended(toks, ops, i)
  BY <1>3, LoopEnds
<1> HIDE DEF i
<1>5. i.ok => i.pos \in q + 1 .. Len(toks) + 1 BY <1>2, <1>4, <1>n
<1>6. QED BY <1>1, <1>4, <1>5

LEMMA BinaryMoves ==
  ASSUME NEW S, NEW toks \in Seq(S), NEW by \in {"parser", "grammar"}, NEW R,
         NEW p \in Positions(toks), Moving(toks, R, p + 1)
  PROVE  /\ Moving(toks, Level0(by, toks, R), p)
         /\ Moving(toks, Level1(by, toks, R), p)
         /\ Moving(toks, BinaryExpr(by, toks, R), p)
<1>n. p \in Nat /\ Len(toks) \in Nat BY DEF Positions
<1>1. Moving(toks, Level0(by, toks, R), p)
  <2> SUFFICES ASSUME NEW q \in Positions(toks), q >= p, Level0(by, toks, R)[q].ok
               PROVE  Level0(by, toks, R)[q].pos \in q + 1 .. Len(toks) + 1
    BY DEF Moving
  <2>1. Level0(by, toks, R)[q] = CallExpr(by, toks, R, q) BY DEF Level0
  <2>2. Moving(toks, R, q + 1)
    <3>1. p + 1 \in Nat /\ q + 1 \in Nat /\ p + 1 <= q + 1 BY <1>n DEF Positions
    <3>2. QED BY <3>1, MovingOn
  <2>3. QED BY <2>1, <2>2, CallMoves
<1>2. \A i \in DOMAIN Levels(by) : "EOF" \notin Levels(by)[i] BY DEF Levels, Arithmetic
<1>3. 1 \in DOMAIN Levels(by) /\ (Len(Levels(by)) # 1 => 2 \in DOMAIN Levels(by)) BY DEF Levels
<1>4. Moving(toks, Level1(by, toks, R), p) BY <1>n, <1>1, <1>2, <1>3, ChainMoves DEF Level1
<1>5. Moving(toks, BinaryExpr(by, toks, R), p)
  <2>1. CASE Len(Levels(by)) = 1 BY <1>4, <2>1 DEF BinaryExpr
  <2>2. CASE Len(Levels(by)) # 1
    <3>1. BinaryExpr(by, toks, R) = Chains(toks, Level1(by, toks, R), Levels(by)[2]) BY <2>2 DEF BinaryExpr
    <3>2. "EOF" \notin Levels(by)[2] BY <1>2, <1>3, <2>2
    <3>3. QED BY <1>n, <1>4, <3>1, <3>2, ChainMoves
  <2>3. QED BY <2>1, <2>2
<1>6. QED BY <1>1, <1>4, <1>5

\* What _parse_expr() returned to the right of a position.
Rest(by, toks, p) == [q \in p + 1 .. Len(toks) + 1 |-> Expr(by, toks)[q]]

\* An expression that is read has at least one token.
LEMMA ExprMoves ==
  ASSUME NEW S, NEW toks \in Seq(S), NEW by \in {"parser", "grammar"}
  PROVE  /\ \A p \in Positions(toks) : Expr(by, toks)[p].ok =>
              Expr(by, toks)[p].pos \in p + 1 .. Len(toks) + 1
         /\ \A p \in Positions(toks) : Moving(toks, Rest(by, toks, p), p + 1)
<1> DEFINE N == Len(toks)
           G == {p \in 1 .. N + 1 : Expr(by, toks)[p].ok => Expr(by, toks)[p].pos \in p + 1 .. N + 1}
<1>n. N \in Nat OBVIOUS
<1>1. ASSUME NEW p \in 1 .. N + 1, \A q \in p + 1 .. N + 1 : q \in G
      PROVE  Moving(toks, Rest(by, toks, p), p + 1)
  <2> SUFFICES ASSUME NEW q \in Positions(toks), q >= p + 1, Rest(by, toks, p)[q].ok
               PROVE  Rest(by, toks, p)[q].pos \in q + 1 .. Len(toks) + 1
    BY DEF Moving
  <2>1. q \in p + 1 .. N + 1 BY <1>n DEF Positions
  <2>2. Rest(by, toks, p)[q] = Expr(by, toks)[q] BY <2>1 DEF Rest
  <2>3. q \in G BY <1>1, <2>1
  <2>4. QED BY <2>2, <2>3
<1>2. ASSUME NEW p \in 1 .. N + 1, \A q \in p + 1 .. N + 1 : q \in G
      PROVE  p \in G
  <2>1. p \in Positions(toks) BY DEF Positions
  <2>2. Moving(toks, Rest(by, toks, p), p + 1) BY <1>1, <1>2
  <2>3. Moving(toks, BinaryExpr(by, toks, Rest(by, toks, p)), p) BY <2>1, <2>2, BinaryMoves
  <2>4. Expr(by, toks)[p] = BinaryExpr(by, toks, Rest(by, toks, p))[p] BY <2>1, <1>n, ExprIs DEF Rest
  <2>5. p >= p BY <1>n
  <2>6. Expr(by, toks)[p].ok => Expr(by, toks)[p].pos \in p + 1 .. N + 1
    BY <2>1, <2>3, <2>4, <2>5 DEF Moving
  <2>7. QED BY <2>6
<1>3. 1 .. N + 1 \subseteq G
  <2> HIDE DEF G, N
  <2> QED BY <1>n, <1>2, PositionInduction
<1>4. \A p \in Positions(toks) : p \in G BY <1>3 DEF Positions
<1>5. ASSUME NEW p \in Positions(toks) PROVE Moving(toks, Rest(by, toks, p), p + 1)
  <2>1. p \in 1 .. N + 1 BY DEF Positions
  <2>2. \A q \in p + 1 .. N + 1 : q \in 1 .. N + 1 BY <2>1, <1>n
  <2>3. \A q \in p + 1 .. N + 1 : q \in G
    <3> HIDE DEF G
    <3> QED BY <1>3, <2>2
  <2> HIDE DEF G
  <2>4. QED BY <1>1, <2>1, <2>3
<1>6. \A p \in Positions(toks) : Expr(by, toks)[p].ok => Expr(by, toks)[p].pos \in p + 1 .. N + 1 BY <1>4
<1>7. QED BY <1>5, <1>6

-----------------------------------------------------------------------------
(* One level of operators or two: the same as long as no arithmetic comes  *)
(* after a comparison.                                                     *)

Operators == Arithmetic \cup {"==", "!=", "<", ">"}
LEMMA LevelsAre ==
  /\ Levels("parser")[1] = Operators /\ Len(Levels("parser")) = 1
  /\ Levels("grammar")[1] = Arithmetic
  /\ Levels("grammar")[2] = Comparisons /\ Len(Levels("grammar")) = 2
<1>1. Comparisons = {"==", "!=", "<", ">", "<=", ">="} BY DEF Comparisons, TwoChars
<1>2. "grammar" # "parser" OBVIOUS
<1>3. QED BY <1>1, <1>2 DEF Levels, Operators

\* The tokens from b on: no operator that the tokeniser splits, no keyword, no
\* call of a name, no arithmetic operator after a comparison.
PlainFrom(toks, b) ==
  \A i \in b .. Len(toks) :
    /\ toks[i] \notin DOMAIN TwoChars \cup Keywords
    /\ toks[i] \in Words => Peek(toks, i + 1) # "("
    /\ toks[i] \in Comparisons => \A j \in i + 1 .. Len(toks) : toks[j] \notin Arithmetic

LEMMA CallSame ==
  ASSUME NEW S, NEW toks \in Seq(S), NEW b \in Positions(toks), PlainFrom(toks, b), NEW R,
         NEW q \in Positions(toks), q >= b
  PROVE  CallExpr("parser", toks, R, q) = CallExpr("grammar", toks, R, q)
<1> DEFINE t == Peek(toks, q)
<1>n. b \in Nat /\ q \in Nat /\ Len(toks) \in Nat BY DEF Positions
<1>g. "grammar" # "parser" OBVIOUS
<1>1. t \in Names("parser") <=> t \in Names("grammar")
  <2>1. CASE t \in Words
    <3>1. t # "EOF" BY <2>1, SignsApart
    <3>2. q \in 1 .. Len(toks) /\ t = toks[q] BY <3>1, PeekIn
    <3>3. q \in b .. Len(toks) BY <3>2, <1>n
    <3>4. t \notin Keywords BY <3>2, <3>3 DEF PlainFrom
    <3>5. QED BY <2>1, <3>4, <1>g DEF Names
  <2>2. CASE t \notin Words BY <2>2, <1>g DEF Names
  <2>3. QED BY <2>1, <2>2
<1>2. Called("parser", toks, q) <=> Called("grammar", toks, q)
  <2>1. t \in Names("grammar") => Peek(toks, q + 1) # "("
    <3> SUFFICES ASSUME t \in Words PROVE Peek(toks, q + 1) # "(" BY <1>g DEF Names
    <3>1. t # "EOF" BY SignsApart
    <3>2. q \in 1 .. Len(toks) /\ t = toks[q] BY <3>1, PeekIn
    <3>3. q \in b .. Len(toks) BY <3>2, <1>n
    <3>4. QED BY <3>2, <3>3 DEF PlainFrom
  <2>2. QED BY <2>1, <1>g DEF Called
<1>3. Atom("parser", toks, R, q) = Atom("grammar", toks, R, q) BY <1>1 DEF Atom
<1>4. QED BY <1>2, <1>3 DEF CallExpr

\* The chain of the parser is the chain of comparisons between the chains of
\* arithmetic, given that both see the same operands.
LEMMA ChainSame ==
  ASSUME NEW S, NEW toks \in Seq(S), NEW b \in Positions(toks), PlainFrom(toks, b),
         NEW p \in Positions(toks), p >= b, NEW C, NEW D,
         \A q \in Positions(toks) : q >= p => C[q] = D[q],
         Moving(toks, C, p), Moving(toks, D, p)
  PROVE  Chains(toks, C, Operators)[p] = Chains(toks, Chains(toks, D, Arithmetic), Comparisons)[p]
<1> DEFINE A == Chains(toks, D, Arithmetic)
           F == Loop(toks, C, Operators, "binop", C[p])
           H == Loop(toks, D, Arithmetic, "binop", D[p])
           K == Loop(toks, A, Comparisons, "binop", A[p])
           N == Len(toks)
<1>n. b \in Nat /\ p \in Nat /\ N \in Nat /\ p >= p BY DEF Positions
<1>e. "EOF" \notin Operators /\ "EOF" \notin Arithmetic /\ "EOF" \notin Comparisons
  BY DEF Operators, Arithmetic, Comparisons, TwoChars
<1>o. /\ Arithmetic \subseteq Operators /\ Operators \subseteq Arithmetic \cup Comparisons
      /\ Comparisons \ DOMAIN TwoChars \subseteq Operators
  BY DEF Operators, Comparisons, TwoChars
<1>1. /\ F[0] = C[p] /\ \A n \in Nat : F[n + 1] = MoreItems(toks, C, Operators, "binop", F[n])
      /\ H[0] = D[p] /\ \A n \in Nat : H[n + 1] = MoreItems(toks, D, Arithmetic, "binop", H[n])
      /\ K[0] = A[p] /\ \A n \in Nat : K[n + 1] = MoreItems(toks, A, Comparisons, "binop", K[n])
  BY LoopIs
<1>2. Moving(toks, A, p) /\ \A q \in Positions(toks) : q >= p => Ended(toks, Arithmetic, A[q])
  BY <1>n, <1>e, ChainMoves
<1>3. /\ C[p].ok => C[p].pos \in p + 1 .. N + 1
      /\ D[p].ok => D[p].pos \in p + 1 .. N + 1
      /\ A[p].ok => A[p].pos \in p + 1 .. N + 1
  BY <1>2, <1>n DEF Moving
<1>4. /\ C[p].ok => C[p].pos \in p .. N + 1
      /\ D[p].ok => D[p].pos \in p .. N + 1
      /\ A[p].ok => A[p].pos \in p .. N + 1
  BY <1>3, <1>n
<1>5. /\ \A n \in Nat : H[n].ok => H[n].pos \in p + 1 .. N + 1
      /\ \A n \in Nat : K[n].ok => K[n].pos \in p + 1 .. N + 1
  <2>1. \A n \in Nat : H[n].ok => D[p].ok /\ H[n].pos \in D[p].pos .. N + 1
    BY <1>4, <1>n, <1>e, LoopMoves
  <2>2. \A n \in Nat : K[n].ok => A[p].ok /\ K[n].pos \in A[p].pos .. N + 1
    BY <1>2, <1>4, <1>n, <1>e, LoopMoves
  <2> HIDE DEF H, K, A
  <2>3. QED BY <2>1, <2>2, <1>3, <1>n
<1>6. /\ Ended(toks, Operators, Chains(toks, C, Operators)[p])
      /\ \A m \in Nat : Ended(toks, Operators, F[m]) => Chains(toks, C, Operators)[p] = F[m]
  <2>1. Chains(toks, C, Operators)[p] = Items(toks, C, Operators, "binop", C[p]) BY DEF Chains
  <2>2. QED BY <2>1, <1>4, <1>n, <1>e, LoopEnds
<1>7. \E n \in Nat : A[p] = H[n]
  <2>1. A[p] = Items(toks, D, Arithmetic, "binop", D[p]) BY DEF Chains
  <2>2. QED BY <2>1, <1>4, <1>n, <1>e, LoopEnds
<1>8. /\ Ended(toks, Comparisons, Chains(toks, A, Comparisons)[p])
      /\ \E n \in Nat : Chains(toks, A, Comparisons)[p] = K[n]
  <2>1. Chains(toks, A, Comparisons)[p] = Items(toks, A, Comparisons, "binop", A[p]) BY DEF Chains
  <2> HIDE DEF A
  <2>2. QED BY <2>1, <1>2, <1>4, <1>n, <1>e, LoopEnds
\* After a comparison the chain of arithmetic is an operand.
<1>9. ASSUME NEW i \in p .. N, toks[i] \in Comparisons
      PROVE  /\ toks[i] \in Operators /\ A[i + 1] = C[i + 1]
             /\ C[i + 1].ok => Peek(toks, C[i + 1].pos) \notin Arithmetic
  <2>0. i \in b .. N /\ i + 1 \in Positions(toks) /\ i + 1 >= p /\ i + 1 \in Nat BY <1>n DEF Positions
  <2>1. toks[i] \in Operators BY <1>9, <1>o, <2>0 DEF PlainFrom
  <2>2. C[i + 1] = D[i + 1] BY <2>0
  <2>3. D[i + 1].ok => D[i + 1].pos \in (i + 1) + 1 .. N + 1 BY <2>0 DEF Moving
  <2>4. Ended(toks, Arithmetic, D[i + 1])
    <3> SUFFICES ASSUME D[i + 1].ok, Peek(toks, D[i + 1].pos) \in Arithmetic PROVE FALSE BY DEF Ended
    <3>1. PICK j : j = D[i + 1].pos OBVIOUS
    <3>2. j \in 1 .. N /\ Peek(toks, j) = toks[j] BY <3>1, <1>e, PeekIn
    <3>3. j \in i + 1 .. N BY <2>0, <2>3, <3>1, <3>2
    <3>4. toks[j] \notin Arithmetic BY <1>9, <2>0, <3>3 DEF PlainFrom
    <3>5. QED BY <3>1, <3>2, <3>4
  <2>5. A[i + 1] = D[i + 1]
    <3>1. A[i + 1] = Items(toks, D, Arithmetic, "binop", D[i + 1]) BY <2>0 DEF Chains
    <3>2. D[i + 1].ok => D[i + 1].pos \in p .. N + 1 BY <2>0, <2>3, <1>n
    <3>3. QED BY <2>4, <3>1, <3>2, <1>n, <1>e, LoopIdle
  <2>6. QED BY <2>1, <2>2, <2>4, <2>5 DEF Ended
<1> HIDE DEF F, H, K, A
<1>10. \A n \in Nat : \E m \in Nat : F[m] = H[n]
  <2> DEFINE G == {n \in Nat : \E m \in Nat : F[m] = H[n]}
  <2>1. 0 \in G
    <3>1. C[p] = D[p] /\ 0 \in Nat BY <1>n
    <3>2. QED BY <1>1, <3>1
  <2>2. ASSUME NEW n \in Nat, n \in G PROVE n + 1 \in G
    <3>1. PICK m \in Nat : F[m] = H[n] BY <2>2
    <3>2. /\ F[m + 1] = MoreItems(toks, C, Operators, "binop", H[n])
          /\ H[n + 1] = MoreItems(toks, D, Arithmetic, "binop", H[n])
      BY <1>1, <3>1
    <3>3. CASE ~H[n].ok \/ Peek(toks, H[n].pos) \notin Arithmetic
      <4>1. H[n + 1] = H[n] BY <3>2, <3>3 DEF MoreItems
      <4>2. QED BY <3>1, <4>1
    <3>4. CASE H[n].ok /\ Peek(toks, H[n].pos) \in Arithmetic
      <4>1. H[n].pos \in 1 .. N BY <3>4, <1>e, PeekIn
      <4>2. H[n].pos + 1 \in Positions(toks) /\ H[n].pos + 1 >= p BY <4>1, <3>4, <1>5, <1>n DEF Positions
      <4>3. C[H[n].pos + 1] = D[H[n].pos + 1] BY <4>2
      <4>4. F[m + 1] = H[n + 1] BY <3>2, <3>4, <4>3, <1>o DEF MoreItems
      <4>5. m + 1 \in Nat /\ n + 1 \in Nat OBVIOUS
      <4>6. QED BY <4>4, <4>5
    <3>5. QED BY <3>3, <3>4
  <2>3. Nat \subseteq G
    <3> HIDE DEF G
    <3> QED BY <2>1, <2>2, NumberInduction
  <2>4. QED BY <2>3
<1>11. \A n \in Nat : (\E m \in Nat : F[m] = K[n]) /\ Ended(toks, Arithmetic, K[n])
  <2> DEFINE G == {n \in Nat : (\E m \in Nat : F[m] = K[n]) /\ Ended(toks, Arithmetic, K[n])}
  <2>1. 0 \in G
    <3>1. \E m \in Nat : F[m] = K[0] BY <1>1, <1>7, <1>10
    <3>2. Ended(toks, Arithmetic, K[0]) BY <1>1, <1>2, <1>n
    <3>3. QED BY <3>1, <3>2
  <2>2. ASSUME NEW n \in Nat, n \in G PROVE n + 1 \in G
    <3>1. PICK m \in Nat : F[m] = K[n] BY <2>2
    <3>a. Ended(toks, Arithmetic, K[n]) BY <2>2
    <3>2. /\ F[m + 1] = MoreItems(toks, C, Operators, "binop", K[n])
          /\ K[n + 1] = MoreItems(toks, A, Comparisons, "binop", K[n])
      BY <1>1, <3>1
    <3>3. CASE ~K[n].ok \/ Peek(toks, K[n].pos) \notin Comparisons
      <4>1. K[n + 1] = K[n] BY <3>2, <3>3 DEF MoreItems
      <4>2. QED BY <3>1, <3>a, <4>1
    <3>4. CASE K[n].ok /\ Peek(toks, K[n].pos) \in Comparisons
      <4>0. PICK i : i = K[n].pos OBVIOUS
      <4>1. i \in 1 .. N /\ Peek(toks, i) = toks[i] BY <3>4, <4>0, <1>e, PeekIn
      <4>2. i \in p .. N BY <4>0, <4>1, <3>4, <1>5, <1>n
      <4>3. /\ toks[i] \in Operators /\ A[i + 1] = C[i + 1]
            /\ C[i + 1].ok => Peek(toks, C[i + 1].pos) \notin Arithmetic
        BY <1>9, <3>4, <4>0, <4>1, <4>2
      <4>4. F[m + 1] = K[n + 1] BY <3>2, <3>4, <4>0, <4>1, <4>3 DEF MoreItems
      <4>5. Ended(toks, Arithmetic, K[n + 1])
        <5>1. CASE C[i + 1].ok
          <6>1. K[n + 1].pos = C[i + 1].pos BY <3>2, <3>4, <4>0, <4>3, <5>1 DEF MoreItems, Got
          <6>2. QED BY <4>3, <5>1, <6>1 DEF Ended
        <5>2. CASE ~C[i + 1].ok
          <6>1. K[n + 1] = Bad BY <3>2, <3>4, <4>0, <4>3, <5>2 DEF MoreItems
          <6>2. QED BY <6>1 DEF Ended, Bad
        <5>3. QED BY <5>1, <5>2
      <4>6. m + 1 \in Nat /\ n + 1 \in Nat OBVIOUS
      <4>7. QED BY <4>4, <4>5, <4>6
    <3>5. QED BY <3>3, <3>4
  <2>3. Nat \subseteq G
    <3> HIDE DEF G
    <3> QED BY <2>1, <2>2, NumberInduction
  <2>4. QED BY <2>3
<1> DEFINE g == Chains(toks, A, Comparisons)[p]
<1>12. PICK n \in Nat : g = K[n] BY <1>8
<1>13. PICK m \in Nat : F[m] = g BY <1>11, <1>12
<1>14. Ended(toks, Operators, g)
  <2>1. Ended(toks, Comparisons, g) /\ Ended(toks, Arithmetic, g) BY <1>8, <1>11, <1>12
  <2>2. QED BY <2>1, <1>o DEF Ended
<1>15. Chains(toks, C, Operators)[p] = g BY <1>6, <1>13, <1>14
<1>16. QED BY <1>15 DEF A

\* The parser and the grammar file read the same from every position.
LEMMA SameExpr ==
  ASSUME NEW S, NEW toks \in Seq(S), NEW b \in Positions(toks), PlainFrom(toks, b)
  PROVE  \A p \in b .. Len(toks) + 1 : Expr("parser", toks)[p] = Expr("grammar", toks)[p]
<1> DEFINE N == Len(toks)
           G == {p \in 1 .. N + 1 : p >= b => Expr("parser", toks)[p] = Expr("grammar", toks)[p]}
<1>n. N \in Nat /\ b \in Nat /\ b >= 1 BY DEF Positions
<1>1. ASSUME NEW p \in 1 .. N + 1, \A q \in p + 1 .. N + 1 : q \in G
      PROVE  p \in G
  <2> SUFFICES ASSUME p >= b PROVE Expr("parser", toks)[p] = Expr("grammar", toks)[p] OBVIOUS
  <2> DEFINE R == Rest("parser", toks, p)
             C == Level0("parser", toks, R)
             D == Level0("grammar", toks, R)
  <2>0. p \in Positions(toks) /\ p \in Nat BY DEF Positions
  <2>1. R = Rest("grammar", toks, p)
    <3>1. \A q \in p + 1 .. N + 1 : q >= b BY <1>n, <2>0
    <3>2. \A q \in p + 1 .. N + 1 : Expr("parser", toks)[q] = Expr("grammar", toks)[q] BY <1>1, <3>1
    <3>3. QED BY <3>2 DEF Rest
  <2>2. Moving(toks, R, p + 1) BY <2>0, ExprMoves
  <2>3. Moving(toks, C, p) /\ Moving(toks, D, p) BY <2>0, <2>2, BinaryMoves
  <2>4. \A q \in Positions(toks) : q >= p => C[q] = D[q]
    <3> TAKE q \in Positions(toks)
    <3> HAVE q >= p
    <3>1. q >= b BY <1>n, <2>0 DEF Positions
    <3>2. QED BY <3>1, CallSame DEF Level0
  <2>5. Expr("parser", toks)[p] = Chains(toks, C, Operators)[p]
    <3>1. Expr("parser", toks)[p] = BinaryExpr("parser", toks, R)[p] BY <2>0, <1>n, ExprIs DEF Rest
    <3>2. QED BY <3>1, LevelsAre DEF BinaryExpr, Level1
  <2>6. Expr("grammar", toks)[p] = Chains(toks, Chains(toks, D, Arithmetic), Comparisons)[p]
    <3>1. Expr("grammar", toks)[p] = BinaryExpr("grammar", toks, R)[p] BY <2>0, <2>1, <1>n, ExprIs DEF Rest
    <3>2. QED BY <3>1, LevelsAre DEF BinaryExpr, Level1
  <2> HIDE DEF C, D
  <2>7. QED BY <2>0, <2>3, <2>4, <2>5, <2>6, ChainSame
<1>2. 1 .. N + 1 \subseteq G
  <2> HIDE DEF G, N
  <2> QED BY <1>n, <1>1, PositionInduction
<1>3. \A p \in b .. N + 1 : p \in 1 .. N + 1 /\ p >= b BY <1>n
<1>4. QED BY <1>2, <1>3

-----------------------------------------------------------------------------
(* The program around an expression.                                       *)

Plain == Lexemes \ DOMAIN TwoChars

\* Lexemes that stay whole are tokens.
LEMMA TokensAre ==
  ASSUME NEW text \in Seq(Plain)
  PROVE  Tokens(text) = text
<1> DEFINE E(i) == CASE text[i] \in DOMAIN TwoChars -> TwoChars[text[i]]
                     [] text[i] \in Lexemes \ DOMAIN TwoChars -> <<text[i]>>
                     [] OTHER -> <<>>
<1>1. \A i \in DOMAIN text : E(i) = <<text[i]>>
  <2> TAKE i \in DOMAIN text
  <2>1. text[i] \in Plain OBVIOUS
  <2>2. PICK t : t = text[i] OBVIOUS
  <2>3. t \in Lexemes \ DOMAIN TwoChars /\ t \notin DOMAIN TwoChars BY <2>1, <2>2 DEF Plain
  <2> HIDE DEF E
  <2>4. E(i) = CASE t \in DOMAIN TwoChars -> TwoChars[t]
                 [] t \in Lexemes \ DOMAIN TwoChars -> <<t>>
                 [] OTHER -> <<>>
    BY <2>2 DEF E
  <2>5. E(i) = <<t>> BY <2>3, <2>4
  <2>6. QED BY <2>2, <2>5
<1>2. Tokens(text) = FlattenSeq([i \in DOMAIN text |-> E(i)]) BY DEF Tokens
<1> HIDE DEF E
<1>3. [i \in DOMAIN text |-> E(i)] = [i \in DOMAIN text |-> <<text[i]>>] BY <1>1
<1>4. FlattenSeq([i \in DOMAIN text |-> <<text[i]>>]) = text BY FlattenSingles
<1>5. QED BY <1>2, <1>3, <1>4

LEMMA FrameIs ==
  ASSUME NEW text \in Seq(Plain)
  PROVE  /\ Frame(text) \in Seq(Plain) /\ Len(Frame(text)) = 13 + Len(text)
         /\ \A j \in 1 .. Len(text) : Frame(text)[13 + j] = text[j]
         /\ Frame(text)[1] = "def" /\ Frame(text)[2] = "f" /\ Frame(text)[3] = ":"
         /\ Frame(text)[4] = "initial_state" /\ Frame(text)[5] = ":" /\ Frame(text)[6] = "1"
         /\ Frame(text)[7] = "compute" /\ Frame(text)[8] = "(" /\ Frame(text)[9] = "s"
         /\ Frame(text)[10] = "," /\ Frame(text)[11] = "n" /\ Frame(text)[12] = ")"
         /\ Frame(text)[13] = ":"
<1> DEFINE h == <<"def", "f", ":", "initial_state", ":", "1",
                  "compute", "(", "s", ",", "n", ")", ":">>
<1>1. /\ Len(h) = 13
      /\ h[1] = "def" /\ h[2] = "f" /\ h[3] = ":" /\ h[4] = "initial_state" /\ h[5] = ":"
      /\ h[6] = "1" /\ h[7] = "compute" /\ h[8] = "(" /\ h[9] = "s" /\ h[10] = ","
      /\ h[11] = "n" /\ h[12] = ")" /\ h[13] = ":"
  OBVIOUS
<1>2. h \in Seq(Plain)
  <2>1. {":", "(", ",", ")"} \subseteq Plain BY DEF Plain, Lexemes, OneChar, TwoChars
  <2>2. {"def", "f", "initial_state", "compute", "s", "n"} \subseteq Words /\ "1" \in Ints
    BY ProgramsGiven, LexemesApart
  <2>3. Words \subseteq Plain /\ Ints \subseteq Plain BY LexemesApart DEF Plain, Lexemes
  <2>4. /\ "def" \in Plain /\ "f" \in Plain /\ ":" \in Plain /\ "initial_state" \in Plain
        /\ "1" \in Plain /\ "compute" \in Plain /\ "(" \in Plain /\ "s" \in Plain
        /\ "," \in Plain /\ "n" \in Plain /\ ")" \in Plain
    BY <2>1, <2>2, <2>3
  <2>5. DOMAIN h = 1 .. 13 OBVIOUS
  <2>6. h = [i \in 1 .. 13 |-> h[i]] BY <2>5
  <2> HIDE DEF h
  <2>7. \A i \in 1 .. 13 : h[i] \in Plain
    <3> TAKE i \in 1 .. 13
    <3>1. i \in 1 .. 6 \/ i \in 7 .. 13 OBVIOUS
    <3>2. CASE i \in 1 .. 6
      <4>1. i = 1 \/ i = 2 \/ i = 3 \/ i = 4 \/ i = 5 \/ i = 6 BY <3>2
      <4>2. QED BY <4>1, <2>4, <1>1
    <3>3. CASE i \in 7 .. 13
      <4>1. i = 7 \/ i = 8 \/ i = 9 \/ i = 10 \/ i = 11 \/ i = 12 \/ i = 13 BY <3>3
      <4>2. QED BY <4>1, <2>4, <1>1
    <3>4. QED BY <3>1, <3>2, <3>3
  <2>8. h \in [1 .. 13 -> Plain] BY <2>6, <2>7
  <2>9. 13 \in Nat /\ Seq(Plain) = UNION {[1 .. n -> Plain] : n \in Nat} BY SeqDef
  <2>10. QED BY <2>8, <2>9
<1>3. Frame(text) = h \o text BY DEF Frame
<1> HIDE DEF h
<1>n. Len(text) \in Nat OBVIOUS
<1>4. /\ h \o text \in Seq(Plain) /\ Len(h \o text) = 13 + Len(text)
      /\ \A i \in 1 .. 13 + Len(text) : (h \o text)[i] = IF i <= 13 THEN h[i] ELSE text[i - 13]
  <2>1. Len(h) = 13 BY <1>1
  <2>2. /\ h \o text \in Seq(Plain) /\ Len(h \o text) = Len(h) + Len(text)
        /\ \A i \in 1 .. Len(h) + Len(text) :
             (h \o text)[i] = IF i <= Len(h) THEN h[i] ELSE text[i - Len(h)]
    BY <1>2, ConcatProperties
  <2>3. QED BY <2>1, <2>2
<1>5. \A i \in 1 .. 13 : (h \o text)[i] = h[i]
  <2>1. \A i \in 1 .. 13 : i \in 1 .. 13 + Len(text) /\ i <= 13 BY <1>n
  <2>2. QED BY <1>4, <2>1
<1>6. \A j \in 1 .. Len(text) : (h \o text)[13 + j] = text[j]
  <2> TAKE j \in 1 .. Len(text)
  <2>1. 13 + j \in 1 .. 13 + Len(text) /\ ~(13 + j <= 13) /\ (13 + j) - 13 = j BY <1>n
  <2>2. QED BY <1>4, <2>1
<1> DEFINE f == h \o text
<1> HIDE DEF f
<1>7. \A i \in 1 .. 13 : f[i] = h[i] BY <1>5 DEF f
<1>8. /\ f[1] = h[1] /\ f[2] = h[2] /\ f[3] = h[3] /\ f[4] = h[4] /\ f[5] = h[5] /\ f[6] = h[6]
      /\ f[7] = h[7] /\ f[8] = h[8] /\ f[9] = h[9] /\ f[10] = h[10] /\ f[11] = h[11]
      /\ f[12] = h[12] /\ f[13] = h[13]
  BY <1>7
<1>9. Frame(text) = f BY <1>3 DEF f
<1>10. f \in Seq(Plain) /\ Len(f) = 13 + Len(text) /\ \A j \in 1 .. Len(text) : f[13 + j] = text[j]
  BY <1>4, <1>6 DEF f
<1>11. QED BY <1>1, <1>8, <1>9, <1>10

\* A chain without an operator is its operand.
LEMMA ExprOne ==
  ASSUME NEW S, NEW toks \in Seq(S), NEW p \in Positions(toks), NEW r,
         CallExpr("parser", toks, Rest("parser", toks, p), p) = r,
         r.ok => Peek(toks, r.pos) \notin Operators
  PROVE  Expr("parser", toks)[p] = r
<1> DEFINE R == Rest("parser", toks, p)
           C == Level0("parser", toks, R)
<1>n. p \in Nat /\ p >= p /\ Len(toks) \in Nat BY DEF Positions
<1>1. Expr("parser", toks)[p] = Chains(toks, C, Operators)[p]
  <2>1. Expr("parser", toks)[p] = BinaryExpr("parser", toks, R)[p] BY <1>n, ExprIs DEF Rest
  <2>2. QED BY <2>1, LevelsAre DEF BinaryExpr, Level1
<1>2. Moving(toks, C, p) BY ExprMoves, BinaryMoves
<1>3. C[p] = r BY DEF Level0
<1>4. Chains(toks, C, Operators)[p] = Items(toks, C, Operators, "binop", r) BY <1>3 DEF Chains
<1>5. r.ok => r.pos \in p .. Len(toks) + 1
  <2>1. r.ok => r.pos \in p + 1 .. Len(toks) + 1 BY <1>2, <1>3, <1>n DEF Moving
  <2>2. QED BY <2>1, <1>n
<1>6. "EOF" \notin Operators BY DEF Operators, Arithmetic
<1> HIDE DEF C
<1>7. Items(toks, C, Operators, "binop", r) = r BY <1>2, <1>5, <1>6, <1>n, LoopIdle DEF Ended
<1>8. QED BY <1>1, <1>4, <1>7

LEMMA HeadersRead ==
  ASSUME NEW toks, NEW p \in Nat
  PROVE  /\ Reads(toks, p, Header1) <=>
              /\ Peek(toks, p) # "EOF" /\ Peek(toks, p + 1) = ":"
              /\ Peek(toks, p + 2) = "initial_state" /\ Peek(toks, p + 3) = ":"
         /\ Reads(toks, p, Header2) <=>
              /\ Peek(toks, p) = "compute" /\ Peek(toks, p + 1) = "(" /\ Peek(toks, p + 2) # "EOF"
              /\ Peek(toks, p + 3) = "," /\ Peek(toks, p + 4) # "EOF" /\ Peek(toks, p + 5) = ")"
              /\ Peek(toks, p + 6) = ":"
<1> DEFINE P(i) == Peek(toks, p + i - 1)
           ReadsAll(xs) == \A i \in DOMAIN xs : IF xs[i] = "any" THEN P(i) # "EOF" ELSE P(i) = xs[i]
<1>1. /\ P(1) = Peek(toks, p) /\ P(2) = Peek(toks, p + 1) /\ P(3) = Peek(toks, p + 2)
      /\ P(4) = Peek(toks, p + 3) /\ P(5) = Peek(toks, p + 4) /\ P(6) = Peek(toks, p + 5)
      /\ P(7) = Peek(toks, p + 6)
  <2>1. /\ p + 1 - 1 = p /\ p + 2 - 1 = p + 1 /\ p + 3 - 1 = p + 2 /\ p + 4 - 1 = p + 3
        /\ p + 5 - 1 = p + 4 /\ p + 6 - 1 = p + 5 /\ p + 7 - 1 = p + 6
    OBVIOUS
  <2>2. QED BY <2>1
<1>2. \A xs : Reads(toks, p, xs) <=> ReadsAll(xs) BY DEF Reads
<1> HIDE DEF P
<1>3. ReadsAll(Header1) <=> P(1) # "EOF" /\ P(2) = ":" /\ P(3) = "initial_state" /\ P(4) = ":"
  <2>1. /\ DOMAIN Header1 = 1 .. 4 /\ Header1[1] = "any" /\ Header1[2] = ":"
        /\ Header1[3] = "initial_state" /\ Header1[4] = ":"
    BY DEF Header1
  <2>2. \A i : i \in 1 .. 4 <=> i = 1 \/ i = 2 \/ i = 3 \/ i = 4 OBVIOUS
  <2>3. QED BY <2>1, <2>2
<1>4. ReadsAll(Header2) <=>
        /\ P(1) = "compute" /\ P(2) = "(" /\ P(3) # "EOF" /\ P(4) = "," /\ P(5) # "EOF"
        /\ P(6) = ")" /\ P(7) = ":"
  <2>1. /\ DOMAIN Header2 = 1 .. 7 /\ Header2[1] = "compute" /\ Header2[2] = "(" /\ Header2[3] = "any"
        /\ Header2[4] = "," /\ Header2[5] = "any" /\ Header2[6] = ")" /\ Header2[7] = ":"
    BY DEF Header2
  <2>2. \A i : i \in 1 .. 7 <=> i = 1 \/ i = 2 \/ i = 3 \/ i = 4 \/ i = 5 \/ i = 6 \/ i = 7 OBVIOUS
  <2> DEFINE Right(i) == IF Header2[i] = "any" THEN P(i) # "EOF" ELSE P(i) = Header2[i]
  <2>3. ReadsAll(Header2) <=> \A i \in 1 .. 7 : Right(i) BY <2>1
  <2>4. /\ Right(1) <=> P(1) = "compute"
        /\ Right(2) <=> P(2) = "("
        /\ Right(3) <=> P(3) # "EOF"
        /\ Right(4) <=> P(4) = ","
        /\ Right(5) <=> P(5) # "EOF"
        /\ Right(6) <=> P(6) = ")"
        /\ Right(7) <=> P(7) = ":"
    BY <2>1
  <2> HIDE DEF Right, ReadsAll
  <2>5. QED BY <2>2, <2>3, <2>4
<1> HIDE DEF ReadsAll
<1>5. QED BY <1>1, <1>2, <1>3, <1>4

\* A function that is read has tokens.
LEMMA FunctionMoves ==
  ASSUME NEW S, NEW toks \in Seq(S)
  PROVE  Moving(toks, [p \in Positions(toks) |-> ParseFunction(toks, p)], 1)
<1> SUFFICES ASSUME NEW q \in Positions(toks), ParseFunction(toks, q).ok
             PROVE  ParseFunction(toks, q).pos \in q + 1 .. Len(toks) + 1
  BY DEF Moving
<1> DEFINE i == Expr("parser", toks)[q + 4]
           c == Expr("parser", toks)[i.pos + 7]
<1>n. q \in Nat /\ Len(toks) \in Nat BY DEF Positions
<1>1. Reads(toks, q, Header1) /\ i.ok /\ Reads(toks, i.pos, Header2) /\ c.ok
  BY DEF ParseFunction, Bad
<1>2. ParseFunction(toks, q).pos = c.pos BY <1>1 DEF ParseFunction, Got
<1>3. q + 3 \in 1 .. Len(toks) BY <1>1, <1>n, HeadersRead, PeekIn
<1>4. q + 4 \in Positions(toks) BY <1>3, <1>n DEF Positions
<1>5. i.pos \in (q + 4) + 1 .. Len(toks) + 1 BY <1>1, <1>4, ExprMoves
<1>p. PICK j : j = i.pos OBVIOUS
<1>6. j \in Nat /\ j > q BY <1>5, <1>p, <1>n
<1>7. j + 6 \in 1 .. Len(toks)
  <2>1. Reads(toks, j, Header2) BY <1>1, <1>p
  <2>2. Peek(toks, j + 6) = ":" BY <2>1, <1>6, HeadersRead
  <2>3. QED BY <2>2, PeekIn
<1>8. j + 7 \in Positions(toks) BY <1>6, <1>7, <1>n DEF Positions
<1> DEFINE d == Expr("parser", toks)[j + 7]
<1>9. d = c BY <1>p
<1>10. d.pos \in (j + 7) + 1 .. Len(toks) + 1
  <2>1. d.ok BY <1>1, <1>9
  <2>2. QED BY <2>1, <1>8, ExprMoves
<1> HIDE DEF c, d
<1>11. QED BY <1>2, <1>6, <1>9, <1>10, <1>n

\* The text of an expression is read in its program, and nothing else is.
LEMMA ParseFrame ==
  ASSUME NEW text \in Seq(Plain), \A i \in DOMAIN text : text[i] # "def"
  PROVE  /\ ParseString(Frame(text)).ok <=>
              /\ Expr("parser", Frame(text))[14].ok
              /\ Expr("parser", Frame(text))[14].pos > Len(Frame(text))
         /\ ParseString(Frame(text)).ok =>
              ParseString(Frame(text)).node =
                Node("program", "none", <<FunctionNode("f", Node("int", "1", <<>>),
                                                       Expr("parser", Frame(text))[14].node)>>)
<1> DEFINE toks == Frame(text)
           N == Len(toks)
           e == Expr("parser", toks)[14]
           functions == [p \in Positions(toks) |-> ParseFunction(toks, p)]
           L == Loop(toks, functions, {"def"}, "function", Got(<<>>, 1))
           one == FunctionNode("f", Node("int", "1", <<>>), e.node)
           fs == Items(toks, functions, {"def"}, "function", Got(<<>>, 1))
<1>1. toks \in Seq(Plain) /\ N = 13 + Len(text) BY FrameIs
<1>t. \A j \in 1 .. Len(text) : toks[13 + j] = text[j] BY FrameIs
<1>h. /\ toks[1] = "def" /\ toks[2] = "f" /\ toks[3] = ":" /\ toks[4] = "initial_state" /\ toks[5] = ":"
      /\ toks[6] = "1" /\ toks[7] = "compute" /\ toks[8] = "(" /\ toks[9] = "s" /\ toks[10] = ","
      /\ toks[11] = "n" /\ toks[12] = ")" /\ toks[13] = ":"
  BY FrameIs
<1>2. ParseString(toks) = ParseProgram(toks) BY <1>1, TokensAre DEF ParseString
<1> HIDE DEF toks
<1>n. Len(text) \in Nat /\ N \in Nat /\ N >= 13 /\ DOMAIN toks = 1 .. N /\ DOMAIN text = 1 .. Len(text)
  <2>1. Len(text) \in Nat /\ DOMAIN text = 1 .. Len(text) OBVIOUS
  <2>2. N \in Nat /\ DOMAIN toks = 1 .. N BY <1>1
  <2>3. QED BY <1>1, <2>1, <2>2
<1>3. \A i \in 1 .. 13 : Peek(toks, i) = toks[i] BY <1>n DEF Peek
<1>4. /\ Peek(toks, 1) = "def" /\ Peek(toks, 2) = "f" /\ Peek(toks, 3) = ":"
      /\ Peek(toks, 4) = "initial_state" /\ Peek(toks, 5) = ":" /\ Peek(toks, 6) = "1"
      /\ Peek(toks, 7) = "compute" /\ Peek(toks, 8) = "(" /\ Peek(toks, 9) = "s"
      /\ Peek(toks, 10) = "," /\ Peek(toks, 11) = "n" /\ Peek(toks, 12) = ")"
      /\ Peek(toks, 13) = ":"
  <2> DEFINE P(i) == Peek(toks, i)
  <2>1. \A i \in 1 .. 13 : P(i) = toks[i] BY <1>3
  <2> HIDE DEF P
  <2>2. /\ P(1) = toks[1] /\ P(2) = toks[2] /\ P(3) = toks[3] /\ P(4) = toks[4] /\ P(5) = toks[5]
        /\ P(6) = toks[6] /\ P(7) = toks[7] /\ P(8) = toks[8] /\ P(9) = toks[9] /\ P(10) = toks[10]
        /\ P(11) = toks[11] /\ P(12) = toks[12] /\ P(13) = toks[13]
    BY <2>1
  <2>3. QED BY <1>h, <2>2 DEF P
<1>5. Expr("parser", toks)[6] = Got(Node("int", "1", <<>>), 7)
  <2>1. "1" \in Ints /\ "1" \notin Primitives BY ProgramsGiven, LexemesApart
  <2>2. ~Called("parser", toks, 6) BY <1>4, <2>1 DEF Called
  <2> DEFINE R == Rest("parser", toks, 6)
             r == Got(Node("int", "1", <<>>), 7)
  <2>3. Atom("parser", toks, R, 6) = r
    <3>1. 6 + 1 = 7 OBVIOUS
    <3>2. Peek(toks, 6) \in Ints => Atom("parser", toks, R, 6) = Got(Node("int", Peek(toks, 6), <<>>), 6 + 1)
      BY AtomIs
    <3>3. Peek(toks, 6) = "1" BY <1>4
    <3> HIDE DEF R
    <3>4. QED BY <2>1, <3>1, <3>2, <3>3
  <2>4. CallExpr("parser", toks, R, 6) = r BY <2>2, <2>3 DEF CallExpr
  <2>5. r.pos = 7 BY DEF Got
  <2>6. Peek(toks, r.pos) \notin Operators BY <1>4, <2>5 DEF Operators, Arithmetic
  <2>7. 6 \in Positions(toks) BY <1>n DEF Positions
  <2> HIDE DEF r, R
  <2>8. CallExpr("parser", toks, Rest("parser", toks, 6), 6) = r BY <2>4 DEF R
  <2>9. Expr("parser", toks)[6] = r BY <1>1, <2>6, <2>7, <2>8, ExprOne
  <2>10. QED BY <2>9 DEF r
<1>6. functions[2] = IF e.ok THEN Got(one, e.pos) ELSE Bad
  <2>1. 2 \in Positions(toks) /\ 2 + 4 = 6 /\ 7 + 7 = 14 BY <1>n DEF Positions
  <2>2. Reads(toks, 2, Header1)
    <3>1. 2 \in Nat /\ 2 + 1 = 3 /\ 2 + 2 = 4 /\ 2 + 3 = 5 OBVIOUS
    <3>2. QED BY <1>4, <3>1, HeadersRead
  <2>3. Reads(toks, 7, Header2)
    <3>1. 7 \in Nat /\ 7 + 1 = 8 /\ 7 + 2 = 9 /\ 7 + 3 = 10 /\ 7 + 4 = 11 /\ 7 + 5 = 12 /\ 7 + 6 = 13 OBVIOUS
    <3>2. QED BY <1>4, <3>1, HeadersRead
  <2>4. functions[2] = ParseFunction(toks, 2) BY <2>1
  <2> DEFINE i == Expr("parser", toks)[6]
  <2>5. i.ok /\ i.pos = 7 /\ i.node = Node("int", "1", <<>>) BY <1>5 DEF Got
  <2>6. ParseFunction(toks, 2) =
          IF Reads(toks, 2, Header1) /\ i.ok /\ Reads(toks, i.pos, Header2)
             /\ Expr("parser", toks)[i.pos + 7].ok
          THEN Got(FunctionNode(toks[2], i.node, Expr("parser", toks)[i.pos + 7].node),
                   Expr("parser", toks)[i.pos + 7].pos)
          ELSE Bad
    BY <2>1 DEF ParseFunction
  <2> HIDE DEF i
  <2>7. QED BY <1>h, <2>1, <2>2, <2>3, <2>4, <2>5, <2>6
<1>7. Moving(toks, functions, 1) BY <1>1, FunctionMoves
<1>8. L[0] = Got(<<>>, 1) /\ L[1] = MoreItems(toks, functions, {"def"}, "function", L[0])
  <2>1. 0 \in Nat /\ 0 + 1 = 1 OBVIOUS
  <2> HIDE DEF functions
  <2>2. QED BY <2>1, LoopIs
<1> HIDE DEF functions, L
<1>9. L[1] = IF e.ok THEN Got(<<one>>, e.pos) ELSE Bad
  <2>1. L[0].ok /\ L[0].pos = 1 /\ L[0].node = <<>> BY <1>8 DEF Got
  <2>2. L[1] = IF functions[2].ok
                THEN Got(Joined("function", <<>>, "def", functions[2].node), functions[2].pos) ELSE Bad
    <3>0. toks[1] = "def" BY <1>h
    <3>1. 1 + 1 = 2 OBVIOUS
    <3>2. QED BY <1>4, <1>8, <2>1, <3>0, <3>1 DEF MoreItems
  <2>3. \A x : Joined("function", <<>>, "def", x) = <<x>> BY DEF Joined
  <2>4. CASE e.ok
    <3>1. functions[2].ok /\ functions[2].node = one /\ functions[2].pos = e.pos BY <1>6, <2>4 DEF Got
    <3>2. QED BY <2>2, <2>3, <2>4, <3>1
  <2>5. CASE ~e.ok
    <3>1. ~functions[2].ok BY <1>6, <2>5 DEF Bad
    <3>2. QED BY <2>2, <2>5, <3>1
  <2>6. QED BY <2>4, <2>5
<1>10. Ended(toks, {"def"}, L[1])
  <2> SUFFICES ASSUME L[1].ok, Peek(toks, L[1].pos) = "def" PROVE FALSE BY DEF Ended
  <2>1. e.ok /\ L[1].pos = e.pos BY <1>9 DEF Got, Bad
  <2>2. 14 \in Positions(toks) BY <1>n DEF Positions
  <2>3. e.pos \in 14 + 1 .. N + 1 BY <1>1, <2>1, <2>2, ExprMoves
  <2>4. PICK q : q = e.pos OBVIOUS
  <2>5. q \in 1 .. N /\ toks[q] = "def"
    <3>1. Peek(toks, q) = "def" BY <2>1, <2>4
    <3>2. QED BY <1>1, <3>1, PeekIn
  <2>6. q - 13 \in 1 .. Len(text) /\ 13 + (q - 13) = q
    <3>0. q \in 14 + 1 .. N + 1 BY <2>3, <2>4
    <3>1. q \in 15 .. N BY <3>0, <2>5, <1>n
    <3> HIDE DEF e
    <3>2. QED BY <1>1, <1>n, <3>1
  <2>7. text[q - 13] = "def" BY <1>t, <2>5, <2>6
  <2>8. QED BY <1>n, <2>6, <2>7
<1>11. fs = L[1]
  <2>1. Got(<<>>, 1).pos = 1 BY DEF Got
  <2> DEFINE g == Got(<<>>, 1)
  <2>2. g.ok => g.pos \in 1 .. N + 1 BY <2>1, <1>n
  <2>3. 1 \in Nat /\ "EOF" \notin {"def"} OBVIOUS
  <2> HIDE DEF g
  <2>4. Ended(toks, {"def"}, Loop(toks, functions, {"def"}, "function", g)[1]) BY <1>10 DEF L, g
  <2>5. Items(toks, functions, {"def"}, "function", g) = Loop(toks, functions, {"def"}, "function", g)[1]
    BY <1>1, <1>7, <2>2, <2>3, <2>4, LoopEnds
  <2>6. QED BY <2>5 DEF L, g
<1>12. ParseProgram(toks) =
         IF fs.ok /\ fs.pos > N THEN Got(Node("program", "none", fs.node), fs.pos) ELSE Bad
  BY DEF ParseProgram, functions
<1> HIDE DEF fs, e, one
<1>13. CASE e.ok
  <2>1. fs.ok /\ fs.pos = e.pos /\ fs.node = <<one>> BY <1>9, <1>11, <1>13 DEF Got
  <2>2. CASE e.pos > N BY <1>2, <1>12, <1>13, <2>1, <2>2 DEF Got, toks, e, one
  <2>3. CASE ~(e.pos > N) BY <1>2, <1>12, <1>13, <2>1, <2>3 DEF Bad, toks, e
  <2>4. QED BY <2>2, <2>3
<1>14. CASE ~e.ok
  <2>1. ~fs.ok BY <1>9, <1>11, <1>14 DEF Bad
  <2>2. QED BY <1>2, <1>12, <1>14, <2>1 DEF Bad, toks, e
<1>15. QED BY <1>13, <1>14

\* A text is read in its program as the grammar reads it.
LEMMA TextSame ==
  ASSUME NEW text \in Programs, PlainText(text), ArithmeticFirst(text)
  PROVE  /\ text \in Seq(Plain) /\ \A i \in DOMAIN text : text[i] # "def"
         /\ Expr("parser", Frame(text))[14] = Expr("grammar", Frame(text))[14]
<1> DEFINE toks == Frame(text)
           N == Len(toks)
<1>1. text \in Seq(Lexemes) /\ DOMAIN text = 1 .. Len(text) /\ Len(text) \in Nat
  <2>1. text \in Seq(Lexemes) BY ProgramsGiven
  <2>2. QED BY <2>1
<1>2. \A i \in 1 .. Len(text) :
        /\ text[i] \in Plain /\ text[i] \notin DOMAIN TwoChars \cup Keywords
        /\ text[i] \in Words => i = Len(text) \/ text[i + 1] # "("
  <2> TAKE i \in 1 .. Len(text)
  <2>1. text[i] \in Lexemes BY <1>1
  <2>2. QED BY <1>1, <2>1 DEF PlainText, Plain
<1>3. text \in Seq(Plain)
  <2>1. text = [i \in 1 .. Len(text) |-> text[i]] BY <1>1
  <2>2. text \in [1 .. Len(text) -> Plain] BY <1>2, <2>1
  <2>3. Seq(Plain) = UNION {[1 .. n -> Plain] : n \in Nat} BY SeqDef
  <2>4. QED BY <1>1, <2>2, <2>3
<1>4. toks \in Seq(Plain) /\ N = 13 + Len(text) BY <1>3, FrameIs
<1>5. \A j \in 1 .. Len(text) : toks[13 + j] = text[j] BY <1>3, FrameIs
<1> HIDE DEF toks
<1>n. N \in Nat /\ N >= 13 /\ DOMAIN toks = 1 .. N BY <1>1, <1>4
<1>6. PlainFrom(toks, 14)
  <2> SUFFICES ASSUME NEW i \in 14 .. N
               PROVE  /\ toks[i] \notin DOMAIN TwoChars \cup Keywords
                      /\ toks[i] \in Words => Peek(toks, i + 1) # "("
                      /\ toks[i] \in Comparisons => \A j \in i + 1 .. N : toks[j] \notin Arithmetic
    BY DEF PlainFrom
  <2>1. \A j \in 14 .. N : j - 13 \in 1 .. Len(text) /\ toks[j] = text[j - 13]
    <3> TAKE j \in 14 .. N
    <3>1. j - 13 \in 1 .. Len(text) /\ 13 + (j - 13) = j BY <1>1, <1>4
    <3>2. QED BY <1>5, <3>1
  <2>2. toks[i] \notin DOMAIN TwoChars \cup Keywords BY <1>2, <2>1
  <2>3. toks[i] \in Words => Peek(toks, i + 1) # "("
    <3> SUFFICES ASSUME toks[i] \in Words, Peek(toks, i + 1) = "(" PROVE FALSE OBVIOUS
    <3>1. i + 1 \in 1 .. N /\ toks[i + 1] = "(" BY <1>4, PeekIn
    <3>2. i + 1 \in 14 .. N /\ (i + 1) - 13 = (i - 13) + 1 BY <3>1
    <3>3. text[(i - 13) + 1] = "(" BY <2>1, <3>1, <3>2
    <3>4. i - 13 \in 1 .. Len(text) /\ i - 13 # Len(text) BY <1>1, <1>4, <3>2
    <3>5. text[i - 13] \in Words BY <2>1
    <3>6. QED BY <1>2, <3>3, <3>4, <3>5
  <2>4. ASSUME toks[i] \in Comparisons, NEW j \in i + 1 .. N PROVE toks[j] \notin Arithmetic
    <3>1. j \in 14 .. N /\ i - 13 < j - 13 BY <1>n
    <3>2. i - 13 \in DOMAIN text /\ j - 13 \in DOMAIN text /\ toks[i] = text[i - 13] /\ toks[j] = text[j - 13]
      BY <1>1, <2>1, <3>1
    <3>3. QED BY <2>4, <3>1, <3>2 DEF ArithmeticFirst
  <2>5. QED BY <2>2, <2>3, <2>4
<1>7. 14 \in Positions(toks) /\ 14 \in 14 .. N + 1 BY <1>n DEF Positions
<1>8. Expr("parser", toks)[14] = Expr("grammar", toks)[14] BY <1>4, <1>6, <1>7, SameExpr
<1>9. \A i \in DOMAIN text : text[i] # "def" BY <1>1, <1>2, ProgramsGiven
<1>10. QED BY <1>3, <1>8, <1>9 DEF toks

-----------------------------------------------------------------------------
(* The statements of the grammar file that a text stands for.              *)

\* A name before "=" is an expression of its own for both.
LEMMA NameAlone ==
  ASSUME NEW S, NEW toks \in Seq(S), NEW p \in Positions(toks),
         Peek(toks, p) \in Words, Peek(toks, p + 1) = "="
  PROVE  Expr("parser", toks)[p].ok /\ Expr("parser", toks)[p].pos = p + 1
<1> DEFINE R == Rest("parser", toks, p)
           r == Got(Node("name", Peek(toks, p), <<>>), p + 1)
<1>1. /\ Peek(toks, p) \notin Primitives /\ Peek(toks, p) \notin Ints /\ Peek(toks, p) # "("
      /\ Names("parser") = Words
  BY LexemesApart, SignsApart DEF Names, OneChar
<1>2. ~Called("parser", toks, p) BY <1>1 DEF Called
<1>3. Atom("parser", toks, R, p) = r
  <2> HIDE DEF R
  <2>1. QED BY <1>1, AtomIs
<1>4. CallExpr("parser", toks, R, p) = r BY <1>2, <1>3 DEF CallExpr
<1>5. r.ok /\ r.pos = p + 1 BY DEF Got
<1>6. Peek(toks, r.pos) \notin Operators BY <1>5 DEF Operators, Arithmetic
<1> HIDE DEF r, R
<1>7. CallExpr("parser", toks, Rest("parser", toks, p), p) = r BY <1>4 DEF R
<1>8. Expr("parser", toks)[p] = r BY <1>6, <1>7, ExprOne
<1>9. QED BY <1>5, <1>8

\* The text from p on is one expression exactly if it is read to its end as one.
LEMMA OneStatement ==
  ASSUME NEW toks \in Seq(Plain), NEW p \in Positions(toks), p >= 2,
         Expr("parser", toks)[p] = Expr("grammar", toks)[p]
  PROVE  LET g == Expr("grammar", toks)[p]
             s == Stmts(toks, p)
         IN  /\ s.ok /\ OneExpression(s.node) <=> g.ok /\ g.pos > Len(toks)
             /\ s.ok /\ OneExpression(s.node) => s.node[1].ch = <<g.node>>
<1> DEFINE N == Len(toks)
           E == Expr("grammar", toks)
           g == E[p]
           T(q) == Stmt(toks, E, q)
           O == [q \in 2 .. N + 1 |-> T(q - 1)]
           first == Got(<<>>, p)
           L == Loop(toks, O, Lexemes, "statement", first)
           s == Items(toks, O, Lexemes, "statement", first)
           assigned(q) == Peek(toks, q) \in Names("grammar") /\ Peek(toks, q + 1) = "="
           one == s.ok /\ OneExpression(s.node)
<1>n. N \in Nat /\ DOMAIN toks = 1 .. N /\ p \in 1 .. N + 1 /\ Positions(toks) = 1 .. N + 1 /\ p \in Nat
  BY DEF Positions
<1>p. Plain \subseteq Lexemes /\ "EOF" \notin Lexemes
  <2>1. Plain \subseteq Lexemes BY DEF Plain
  <2>2. "EOF" \notin OneChar \cup DOMAIN TwoChars BY DEF OneChar, TwoChars
  <2>3. "EOF" \notin Ints \cup Words \cup Primitives BY LexemesApart
  <2>4. QED BY <2>1, <2>2, <2>3 DEF Lexemes
<1>t. \A q \in 1 .. N : Peek(toks, q) \in Lexemes BY <1>n, <1>p DEF Peek
<1>u. \A q : Peek(toks, q) \in Lexemes => q \in 1 .. N BY <1>n, <1>p DEF Peek
<1>s. Stmts(toks, p) = s BY DEF Stmts
<1>e. \A q \in 1 .. N + 1 : E[q].ok => E[q].pos \in q + 1 .. N + 1 BY ExprMoves, <1>n
<1>w. {";", "="} \subseteq Lexemes BY DEF Lexemes, OneChar
<1>1. ASSUME NEW q \in 1 .. N, T(q).ok
      PROVE  /\ T(q).pos \in q + 1 .. N + 1
             /\ ~assigned(q) => /\ E[q].ok /\ T(q).node.ch = <<E[q].node>>
                                /\ T(q).node.n = (IF Peek(toks, E[q].pos) = ";" THEN "ended" ELSE "expr")
                                /\ T(q).pos = (IF Peek(toks, E[q].pos) = ";" THEN E[q].pos + 1 ELSE E[q].pos)
             /\ assigned(q) => T(q).node.n = "assign"
  <2> DEFINE a == IF assigned(q) THEN q + 2 ELSE q
             e == E[a]
  <2>1. a \in q .. N + 1
    <3>1. assigned(q) => q + 1 \in 1 .. N BY <1>u, <1>w
    <3> HIDE DEF assigned
    <3>2. QED BY <3>1, <1>n
  <2>2. e.ok
    <3> HIDE DEF E
    <3>1. QED BY <1>1 DEF Stmt, Bad
  <2>3. T(q) = Got(Node(IF assigned(q) THEN "assign" ELSE IF Peek(toks, e.pos) = ";" THEN "ended" ELSE "expr",
                        IF assigned(q) THEN toks[q] ELSE "none", <<e.node>>),
                   IF Peek(toks, e.pos) = ";" THEN e.pos + 1 ELSE e.pos)
    <3> HIDE DEF E
    <3>1. QED BY <2>2 DEF Stmt
  <2>4. e.pos \in q + 1 .. N + 1
    <3>1. e.pos \in a + 1 .. N + 1 BY <1>e, <1>n, <2>1, <2>2
    <3> HIDE DEF a, e
    <3>2. QED BY <3>1, <2>1, <1>n
  <2>5. Peek(toks, e.pos) = ";" => e.pos \in 1 .. N BY <1>u, <1>w
  <2>9. ~assigned(q) => e = E[q] OBVIOUS
  <2> HIDE DEF e, T, assigned
  <2>a. PICK n, v, c, at : /\ c = <<e.node>>
                           /\ n = (IF assigned(q) THEN "assign" ELSE IF Peek(toks, e.pos) = ";" THEN "ended" ELSE "expr")
                           /\ v = (IF assigned(q) THEN toks[q] ELSE "none")
                           /\ at = (IF Peek(toks, e.pos) = ";" THEN e.pos + 1 ELSE e.pos)
    OBVIOUS
  <2>b. T(q) = Got(Node(n, v, c), at) BY <2>3, <2>a
  <2>c. T(q).pos = at /\ T(q).node.ch = c /\ T(q).node.n = n BY <2>b DEF Got, Node
  <2>6. T(q).pos = IF Peek(toks, e.pos) = ";" THEN e.pos + 1 ELSE e.pos BY <2>a, <2>c
  <2>7. T(q).pos \in q + 1 .. N + 1
    <3>1. PICK x : x = e.pos OBVIOUS
    <3>2. at = IF Peek(toks, x) = ";" THEN x + 1 ELSE x BY <2>a, <3>1
    <3>3. x \in q + 1 .. N + 1 /\ (Peek(toks, x) = ";" => x \in 1 .. N) BY <2>4, <2>5, <3>1
    <3>4. at \in q + 1 .. N + 1
      <4>1. CASE Peek(toks, x) = ";"
        <5>1. at = x + 1 BY <3>2, <4>1
        <5>2. x \in q + 1 .. N + 1 /\ x \in 1 .. N BY <3>3, <4>1
        <5>3. N \in Nat BY <1>n
        <5>4. QED BY <5>1, <5>2, <5>3
      <4>2. CASE Peek(toks, x) # ";" BY <3>2, <3>3, <4>2, <1>n
      <4>3. QED BY <4>1, <4>2
    <3>5. QED BY <2>c, <3>4
  <2>8. /\ T(q).node.ch = <<e.node>>
        /\ T(q).node.n = IF assigned(q) THEN "assign" ELSE IF Peek(toks, e.pos) = ";" THEN "ended" ELSE "expr"
    BY <2>a, <2>c
  <2>10. QED BY <2>2, <2>6, <2>7, <2>8, <2>9
<1>2. ~assigned(p) /\ g.ok => T(p).ok
  <2> HIDE DEF E
  <2>1. QED BY DEF Stmt, Got
<1>3. assigned(p) => g.ok /\ g.pos = p + 1 /\ p + 1 \in 1 .. N
  <2> SUFFICES ASSUME assigned(p) PROVE g.ok /\ g.pos = p + 1 /\ p + 1 \in 1 .. N OBVIOUS
  <2>1. Peek(toks, p) \in Words BY DEF Names
  <2>2. p + 1 \in 1 .. N BY <1>u, <1>w
  <2>3. QED BY <2>1, <2>2, NameAlone
<1>4. Going(toks, O, p)
  <2> SUFFICES ASSUME NEW q \in Positions(toks), q >= p, O[q].ok PROVE O[q].pos \in q .. N + 1
    BY DEF Going
  <2>1. q \in 2 .. N + 1 /\ q - 1 \in 1 .. N BY <1>n
  <2>2. O[q] = T(q - 1) BY <2>1
  <2>3. T(q - 1).pos \in (q - 1) + 1 .. N + 1 BY <1>1, <2>1, <2>2
  <2> HIDE DEF O, T
  <2>4. QED BY <2>1, <2>2, <2>3
<1>5. first.ok /\ first.pos = p /\ first.node = <<>> BY DEF Got
<1> HIDE DEF first
<1>6. L[0] = first /\ \A n \in Nat : L[n + 1] = MoreItems(toks, O, Lexemes, "statement", L[n])
  <2>1. L[0] = first BY LoopIs
  <2>2. \A n \in Nat : L[n + 1] = MoreItems(toks, O, Lexemes, "statement", L[n]) BY LoopIs
  <2>3. QED BY <2>1, <2>2
<1>7. /\ Ended(toks, Lexemes, s)
      /\ \E n \in Nat : s = L[n]
      /\ \A m \in Nat : Ended(toks, Lexemes, L[m]) => s = L[m]
  <2>1. first.pos \in p .. N + 1 BY <1>5, <1>n
  <2> HIDE DEF O
  <2>2. QED BY <1>4, <1>n, <1>p, <2>1, LoopStops
<1> HIDE DEF L, s
\* A round that is not the last adds the statement at its position.
<1>8. ASSUME NEW n \in Nat, NEW q \in 1 .. N, L[n].ok, L[n].pos = q
      PROVE  L[n + 1] = IF T(q).ok THEN Got(Append(L[n].node, T(q).node), T(q).pos) ELSE Bad
  <2>1. q + 1 \in 2 .. N + 1 /\ (q + 1) - 1 = q BY <1>n
  <2>2. O[q + 1] = T(q) BY <2>1
  <2>3. Peek(toks, L[n].pos) \in Lexemes BY <1>8, <1>t
  <2>4. L[n + 1] = MoreItems(toks, O, Lexemes, "statement", L[n]) BY <1>6
  <2> HIDE DEF O, T
  <2>5. QED BY <1>8, <2>2, <2>3, <2>4 DEF MoreItems, Joined
<1>9. ASSUME NEW n \in Nat, L[n].ok => L[n].pos = N + 1 PROVE s = L[n]
  <2>1. N + 1 \notin 1 .. N BY <1>n
  <2>2. L[n].ok => Peek(toks, L[n].pos) \notin Lexemes BY <1>9, <1>u, <2>1
  <2>3. QED BY <1>7, <2>2 DEF Ended
<1>10. CASE p = N + 1
  <2>1. s = first BY <1>5, <1>6, <1>9, <1>10
  <2>2. ~OneExpression(s.node) BY <1>5, <2>1 DEF OneExpression
  <2>3. ~g.ok BY <1>e, <1>n, <1>10
  <2>4. QED BY <1>s, <2>2, <2>3
<1>11. CASE p \in 1 .. N
  <2>1. L[1] = IF T(p).ok THEN Got(<<T(p).node>>, T(p).pos) ELSE Bad
    <3>1. L[0].ok /\ L[0].pos = p /\ L[0].node = <<>> /\ 0 \in Nat /\ 0 + 1 = 1 BY <1>5, <1>6
    <3>2. \A x : Append(<<>>, x) = <<x>> OBVIOUS
    <3> HIDE DEF T
    <3>3. QED BY <1>8, <1>11, <3>1, <3>2
  <2>g. g.ok => g.pos \in p + 1 .. N + 1 BY <1>e, <1>n
  <2>2. CASE ~T(p).ok
    <3>1. L[1] = Bad BY <2>1, <2>2
    <3>2. ~s.ok BY <1>9, <3>1 DEF Bad
    <3>3. ~(g.ok /\ g.pos > N)
      <4>1. CASE assigned(p)
        <5>1. g.pos = p + 1 /\ p + 1 \in 1 .. N BY <1>3, <4>1
        <5> HIDE DEF g
        <5>2. QED BY <5>1, <1>n
      <4>2. CASE ~assigned(p) BY <1>2, <2>2, <4>2
      <4>3. QED BY <4>1, <4>2
    <3>4. QED BY <1>s, <3>2, <3>3
  <2>3. ASSUME T(p).ok
        PROVE  /\ ~assigned(p) => /\ g.ok /\ T(p).node.ch = <<g.node>>
                                  /\ T(p).node.n = (IF Peek(toks, g.pos) = ";" THEN "ended" ELSE "expr")
                                  /\ T(p).pos = (IF Peek(toks, g.pos) = ";" THEN g.pos + 1 ELSE g.pos)
               /\ assigned(p) => T(p).node.n = "assign"
               /\ T(p).pos \in p + 1 .. N + 1
               /\ L[1].ok /\ L[1].pos = T(p).pos /\ L[1].node = <<T(p).node>>
    <3>1. L[1].ok /\ L[1].pos = T(p).pos /\ L[1].node = <<T(p).node>> BY <2>1, <2>3 DEF Got
    <3> HIDE DEF T, assigned
    <3>2. QED BY <1>1, <1>11, <2>3, <3>1
  <2>4. CASE T(p).ok /\ T(p).pos = N + 1
    <3>1. s = L[1] BY <1>9, <2>3, <2>4
    <3>2. one <=> T(p).node.n = "expr"
      <4> HIDE DEF T
      <4>1. PICK x : x = T(p).node OBVIOUS
      <4>2. s.ok /\ s.node = <<x>> BY <2>3, <2>4, <3>1, <4>1
      <4>3. OneExpression(s.node) <=> x.n = "expr" BY <4>2 DEF OneExpression
      <4>4. QED BY <4>1, <4>2, <4>3
    <3>3. CASE assigned(p)
      <4>1. ~one BY <2>3, <2>4, <3>2, <3>3
      <4>2. g.pos = p + 1 /\ p + 1 \in 1 .. N BY <1>3, <3>3
      <4> HIDE DEF g, one
      <4>3. QED BY <1>s, <4>1, <4>2, <1>n DEF one, g
    <3>4. CASE ~assigned(p) /\ Peek(toks, g.pos) = ";"
      <4>1. ~one BY <2>3, <2>4, <3>2, <3>4
      <4>2. g.pos \in 1 .. N BY <1>u, <1>w, <3>4
      <4>3. ~(g.pos > N)
        <5> HIDE DEF g
        <5>1. QED BY <4>2, <1>n
      <4>4. QED BY <1>s, <4>1, <4>3
    <3>5. CASE ~assigned(p) /\ Peek(toks, g.pos) # ";"
      <4> HIDE DEF T, assigned, g
      <4>1. one /\ g.ok /\ g.pos = N + 1 /\ s.node = <<T(p).node>> /\ T(p).node.ch = <<g.node>>
        BY <2>3, <2>4, <3>1, <3>2, <3>5
      <4>2. g.pos > N BY <4>1, <1>n
      <4>3. s.node[1].ch = <<g.node>> BY <4>1
      <4> HIDE DEF one
      <4>4. QED BY <1>s, <4>1, <4>2, <4>3 DEF one, g
    <3>6. QED BY <3>3, <3>4, <3>5
  <2>5. CASE T(p).ok /\ T(p).pos \in 1 .. N
    <3> DEFINE Nodes == {T(q).node : q \in 1 .. N}
               J(n) == L[n + 2].ok => /\ L[n + 2].node \in Seq(Nodes) /\ Len(L[n + 2].node) >= 2
                                      /\ L[n + 2].pos \in 1 .. N + 1
               G == {n \in Nat : J(n)}
    <3>0. \A q \in 1 .. N : T(q).node \in Nodes OBVIOUS
    <3>a. \A x \in Seq(Nodes), q \in 1 .. N :
            Append(x, T(q).node) \in Seq(Nodes) /\ Len(Append(x, T(q).node)) = Len(x) + 1
      <4> HIDE DEF Nodes, T
      <4>1. QED BY <3>0
    <3> HIDE DEF Nodes
    <3>b. \A q \in 1 .. N : T(q).ok => T(q).pos \in 1 .. N + 1
      <4> TAKE q \in 1 .. N
      <4>1. T(q).ok => T(q).pos \in q + 1 .. N + 1 BY <1>1
      <4> HIDE DEF T
      <4>2. QED BY <4>1, <1>n
    <3>c. ASSUME NEW n \in Nat, L[n].ok, L[n].pos \in 1 .. N, L[n].node \in Seq(Nodes)
          PROVE  L[n + 1].ok => /\ L[n + 1].node \in Seq(Nodes)
                                /\ Len(L[n + 1].node) = Len(L[n].node) + 1
                                /\ L[n + 1].pos \in 1 .. N + 1
      <4>1. PICK q \in 1 .. N : q = L[n].pos BY <3>c
      <4>2. L[n + 1] = IF T(q).ok THEN Got(Append(L[n].node, T(q).node), T(q).pos) ELSE Bad
        BY <1>8, <3>c, <4>1
      <4> HIDE DEF T
      <4>3. CASE T(q).ok
        <5>1. L[n + 1].node = Append(L[n].node, T(q).node) /\ L[n + 1].pos = T(q).pos
          BY <4>2, <4>3 DEF Got
        <5>2. QED BY <3>a, <3>b, <3>c, <4>3, <5>1
      <4>4. CASE ~T(q).ok BY <4>2, <4>4 DEF Bad
      <4>5. QED BY <4>3, <4>4
    <3> HIDE DEF T
    <3>1. 0 \in G
      <4>1. L[1].ok /\ L[1].pos \in 1 .. N /\ L[1].node = <<T(p).node>> BY <2>3, <2>5
      <4>2. L[1].node \in Seq(Nodes) /\ Len(L[1].node) = 1 BY <3>0, <1>11, <4>1
      <4>3. 1 \in Nat /\ 1 + 1 = 2 /\ 0 + 2 = 2 OBVIOUS
      <4>4. L[1 + 1].ok => /\ L[1 + 1].node \in Seq(Nodes)
                           /\ Len(L[1 + 1].node) = Len(L[1].node) + 1
                           /\ L[1 + 1].pos \in 1 .. N + 1
        BY <3>c, <4>1, <4>2
      <4> HIDE DEF L
      <4>6. L[2].ok => L[2].node \in Seq(Nodes) /\ Len(L[2].node) >= 2 /\ L[2].pos \in 1 .. N + 1
        <5>1. 1 + 1 = 2 OBVIOUS
        <5>2. L[2].ok => /\ L[2].node \in Seq(Nodes) /\ Len(L[2].node) = Len(L[1].node) + 1
                         /\ L[2].pos \in 1 .. N + 1
          BY <4>4, <5>1
        <5>3. Len(L[1].node) + 1 = 2 BY <4>2
        <5>4. \A k : k = 2 => k >= 2 OBVIOUS
        <5>5. QED BY <5>2, <5>3, <5>4
      <4>7. J(0) BY <4>3, <4>6
      <4>5. QED BY <4>7
    <3>2. ASSUME NEW n \in Nat, n \in G PROVE n + 1 \in G
      <4>1. n + 2 \in Nat /\ (n + 1) + 2 = (n + 2) + 1 /\ J(n) BY <3>2
      <4>2. L[(n + 2) + 1] = MoreItems(toks, O, Lexemes, "statement", L[n + 2]) BY <1>6, <4>1
      <4>3. CASE L[n + 2].ok /\ L[n + 2].pos \in 1 .. N
        <5>1. L[n + 2].node \in Seq(Nodes) /\ Len(L[n + 2].node) >= 2 BY <4>1, <4>3
        <5>2. L[(n + 2) + 1].ok =>
                /\ L[(n + 2) + 1].node \in Seq(Nodes)
                /\ Len(L[(n + 2) + 1].node) = Len(L[n + 2].node) + 1
                /\ L[(n + 2) + 1].pos \in 1 .. N + 1
          BY <3>c, <4>1, <4>3, <5>1
        <5>3. Len(L[n + 2].node) + 1 >= 2
          <6>1. Len(L[n + 2].node) \in Nat BY <5>1
          <6>2. QED BY <5>1, <6>1
        <5>4. J(n + 1) BY <4>1, <5>2, <5>3
        <5>5. QED BY <5>4
      <4>4. CASE ~(L[n + 2].ok /\ L[n + 2].pos \in 1 .. N)
        <5>1. ~L[n + 2].ok \/ Peek(toks, L[n + 2].pos) \notin Lexemes BY <1>u, <4>4
        <5>2. L[(n + 2) + 1] = L[n + 2] BY <4>2, <5>1 DEF MoreItems
        <5>3. J(n + 1) BY <4>1, <5>2
        <5>4. QED BY <5>3
      <4>5. QED BY <4>3, <4>4
    <3>3. Nat \subseteq G
      <4> HIDE DEF G
      <4>1. QED BY <3>1, <3>2, NumberInduction
    <3>4. ~one
      <4>1. PICK m \in Nat : s = L[m] BY <1>7
      <4>2. m # 0
        <5>1. L[0].ok /\ L[0].pos = p BY <1>5, <1>6
        <5>2. ~Ended(toks, Lexemes, L[0]) BY <5>1, <1>11, <1>t DEF Ended
        <5>3. QED BY <1>7, <4>1, <5>2
      <4>3. m # 1
        <5>1. L[1].ok /\ L[1].pos \in 1 .. N BY <2>3, <2>5
        <5>2. ~Ended(toks, Lexemes, L[1]) BY <5>1, <1>t DEF Ended
        <5>3. QED BY <1>7, <4>1, <5>2
      <4>4. m - 2 \in Nat /\ (m - 2) + 2 = m BY <4>2, <4>3
      <4>5. J(m - 2)
        <5> HIDE DEF J
        <5>1. QED BY <3>3, <4>4
      <4>6. s.ok => Len(s.node) >= 2 BY <4>1, <4>4, <4>5
      <4>7. PICK k : k = Len(s.node) OBVIOUS
      <4>8. ~(k >= 2 /\ k = 1) OBVIOUS
      <4>9. QED BY <4>6, <4>7, <4>8 DEF OneExpression
    <3>5. ~(g.ok /\ g.pos > N)
      <4>1. CASE assigned(p)
        <5>1. g.pos = p + 1 /\ p + 1 \in 1 .. N BY <1>3, <4>1
        <5> HIDE DEF g
        <5>2. QED BY <5>1, <1>n
      <4>2. CASE ~assigned(p)
        <5>1. T(p).pos = IF Peek(toks, g.pos) = ";" THEN g.pos + 1 ELSE g.pos BY <2>3, <2>5, <4>2
        <5>2. g.ok => g.pos \in Int BY <2>g
        <5>3. PICK x, at : x = g.pos /\ at = T(p).pos OBVIOUS
        <5>4. at \in 1 .. N /\ at = (IF Peek(toks, x) = ";" THEN x + 1 ELSE x) BY <2>5, <5>1, <5>3
        <5>5. ASSUME x \in Int PROVE ~(x > N)
          <6>1. at = x + 1 \/ at = x BY <5>4
          <6>2. at \in 1 .. N /\ N \in Nat BY <5>4, <1>n
          <6>3. QED BY <5>5, <6>1, <6>2
        <5> HIDE DEF g, T
        <5>6. QED BY <5>2, <5>3, <5>5
      <4>3. QED BY <4>1, <4>2
    <3> HIDE DEF one, g
    <3>6. QED BY <1>s, <3>4, <3>5 DEF one, g
  <2>s. ASSUME T(p).ok PROVE T(p).pos = N + 1 \/ T(p).pos \in 1 .. N
    <3>1. T(p).pos \in p + 1 .. N + 1 BY <2>3, <2>s
    <3> HIDE DEF T
    <3>2. QED BY <3>1, <1>n
  <2>6. QED BY <2>2, <2>4, <2>5, <2>s
<1>12. QED BY <1>10, <1>11, <1>n

-----------------------------------------------------------------------------
(* The text of a tree.                                                     *)

Clear == Plain \ Keywords
Spoken == Ints \cup Words \cup Primitives

LEMMA ClearWords ==
  /\ {"(", ")", ",", "+", "-", "*", "/", "<", ">"} \subseteq Clear
  /\ Ints \subseteq Clear /\ Primitives \subseteq Clear /\ Words \ Keywords \subseteq Clear
  /\ Clear \subseteq Plain /\ "def" \notin Clear
<1>1. {"(", ")", ",", "+", "-", "*", "/", "<", ">"} \subseteq OneChar \ DOMAIN TwoChars
  BY DEF OneChar, TwoChars
<1>2. OneChar \ DOMAIN TwoChars \subseteq Clear BY LexemesApart DEF Clear, Plain, Lexemes
<1>3. /\ Ints \subseteq Clear /\ Primitives \subseteq Clear /\ Words \ Keywords \subseteq Clear
  BY LexemesApart DEF Clear, Plain, Lexemes
<1>4. Clear \subseteq Plain /\ "def" \notin Clear BY ProgramsGiven DEF Clear
<1> HIDE DEF Clear
<1>5. {"(", ")", ",", "+", "-", "*", "/", "<", ">"} \subseteq Clear BY <1>1, <1>2
<1>6. QED BY <1>3, <1>4, <1>5

\* The arguments of a call, with commas between.
Listed(a) ==
  FlattenSeq([i \in DOMAIN a.ch |-> Unparse[a.ch[i]] \o (IF i < Len(a.ch) THEN <<",">> ELSE <<>>)])

LEMMA ListedIs ==
  ASSUME NEW a \in Syntax, \A i \in DOMAIN a.ch : Unparse[a.ch[i]] \in Seq(Clear)
  PROVE  /\ Listed(a) \in Seq(Clear)
         /\ Len(a.ch) = 0 => Listed(a) = <<>>
         /\ Len(a.ch) = 1 => Listed(a) = Unparse[a.ch[1]]
         /\ Len(a.ch) > 1 => \E j \in DOMAIN Listed(a) : Listed(a)[j] = ","
<1>n. PICK n : n = Len(a.ch) OBVIOUS
<1> DEFINE comma == ","
           sep == <<comma>>
           E(i) == Unparse[a.ch[i]] \o (IF i < n THEN sep ELSE <<>>)
           seqs == [i \in DOMAIN a.ch |-> E(i)]
<1> SUFFICES /\ Listed(a) \in Seq(Clear)
             /\ n = 0 => Listed(a) = <<>>
             /\ n = 1 => Listed(a) = Unparse[a.ch[1]]
             /\ n > 1 => \E j \in DOMAIN Listed(a) : Listed(a)[j] = comma
  BY <1>n
<1>1. a.ch \in Seq(Syntax) /\ n \in Nat /\ DOMAIN a.ch = 1 .. n
  <2>1. a.ch \in Seq(Syntax) BY SyntaxTrees
  <2>2. QED BY <1>n, <2>1
<1>2. Listed(a) = FlattenSeq(seqs) BY <1>n DEF Listed
<1>c. comma \in Clear BY ClearWords
<1> HIDE DEF comma
<1>s1. sep \in Seq(Clear) BY <1>c
<1>s2. Len(sep) = 1 /\ sep[1] = comma OBVIOUS
<1>s. sep \in Seq(Clear) /\ Len(sep) = 1 /\ sep[1] = comma BY <1>s1, <1>s2
<1> HIDE DEF sep
<1>3. \A i \in 1 .. n : E(i) \in Seq(Clear)
  <2> TAKE i \in 1 .. n
  <2>1. Unparse[a.ch[i]] \in Seq(Clear) BY <1>1
  <2>3. <<>> \in Seq(Clear) OBVIOUS
  <2>4. (IF i < n THEN sep ELSE <<>>) \in Seq(Clear) BY <1>s, <2>3
  <2>5. QED BY <2>1, <2>4, ConcatProperties
<1>4. \A i \in 1 .. n : seqs[i] = E(i) BY <1>1
<1>4a. n = 1 => E(1) = Unparse[a.ch[1]] \o <<>> OBVIOUS
<1>4b. n > 1 => E(1) = Unparse[a.ch[1]] \o sep OBVIOUS
<1> HIDE DEF E
<1>5. seqs = [i \in 1 .. n |-> E(i)] BY <1>1
<1>6. seqs \in Seq(Seq(Clear)) /\ Len(seqs) = n
  <2>1. seqs \in [1 .. n -> Seq(Clear)] BY <1>3, <1>5
  <2>2. Seq(Seq(Clear)) = UNION {[1 .. m -> Seq(Clear)] : m \in Nat} BY SeqDef
  <2>3. seqs \in Seq(Seq(Clear)) BY <1>1, <2>1, <2>2
  <2>4. DOMAIN seqs = 1 .. n BY <1>5
  <2> HIDE DEF seqs
  <2>5. QED BY <1>1, <2>3, <2>4
<1> HIDE DEF seqs
<1>7. CASE n = 0
  <2>1. seqs = <<>> BY <1>6, <1>7
  <2>2. FlattenSeq(seqs) = seqs BY <1>6, <1>7 DEF FlattenSeq
  <2>3. <<>> \in Seq(Clear) OBVIOUS
  <2>4. Listed(a) = <<>> BY <1>2, <2>1, <2>2
  <2>5. n # 1 /\ ~(n > 1) BY <1>7
  <2>6. QED BY <2>3, <2>4, <2>5
<1>8. CASE n # 0
  <2>1. Len(seqs) \in Nat \ {0} /\ \A i \in 1 .. Len(seqs) : seqs[i] \in Seq(Clear)
    BY <1>1, <1>3, <1>4, <1>6, <1>8
  <2> DEFINE l == FlattenSeq(seqs)
  <2>2. /\ l \in Seq(Clear)
        /\ (\E j \in DOMAIN seqs[1] : seqs[1][j] = comma) => \E j \in DOMAIN l : l[j] = comma
    <3>1. Len(seqs) \in Nat \ {0} BY <2>1
    <3>2. \A i \in 1 .. Len(seqs) : seqs[i] \in Seq(Clear) BY <2>1
    <3>3. FlattenSeq(seqs) \in Seq(Clear) BY <3>1, <3>2, FlattenType
    <3>4. \A k \in DOMAIN seqs[1] : \E j \in DOMAIN FlattenSeq(seqs) :
            FlattenSeq(seqs)[j] = seqs[1][k]
      BY <3>1, <3>2, FlattenType
    <3>5. QED BY <3>3, <3>4
  <2>2a. PICK f : f[1] = seqs[1] /\ l = f[Len(seqs)] BY <2>1, FlattenIs
  <2> HIDE DEF l
  <2>l. Listed(a) = l BY <1>2 DEF l
  <2>3. 1 \in 1 .. n BY <1>1, <1>8
  <2>4. seqs[1] = E(1) BY <1>4, <2>3
  <2> DEFINE u == Unparse[a.ch[1]]
  <2>u. u \in Seq(Clear) BY <1>1, <2>3
  <2>5. CASE n = 1
    <3>1. E(1) = u \o <<>> BY <2>5, <1>4a
    <3> HIDE DEF u
    <3>3. E(1) = u BY <2>u, <3>1, ConcatEmptySeq
    <3>4. l = seqs[1] BY <1>6, <2>2a, <2>5
    <3>5. Listed(a) = u /\ Listed(a) \in Seq(Clear) BY <2>2, <2>4, <2>l, <3>3, <3>4
    <3>6. QED BY <2>5, <3>5 DEF u
  <2>6. CASE n > 1
    <3>1. E(1) = u \o sep BY <2>6, <1>4b
    <3> HIDE DEF u
    <3>2. /\ u \o sep \in Seq(Clear) /\ Len(u \o sep) = Len(u) + Len(sep)
          /\ \A i \in 1 .. Len(u) + Len(sep) :
               (u \o sep)[i] = IF i <= Len(u) THEN u[i] ELSE sep[i - Len(u)]
      BY <1>s, <2>u, ConcatProperties
    <3>3. Len(u) \in Nat BY <2>u
    <3>4. /\ Len(u) + 1 \in 1 .. Len(u) + Len(sep) /\ ~(Len(u) + 1 <= Len(u))
          /\ (Len(u) + 1) - Len(u) = 1
      BY <1>s, <3>3
    <3>5. (u \o sep)[Len(u) + 1] = comma BY <1>s, <3>2, <3>4
    <3>6. DOMAIN (u \o sep) = 1 .. Len(u) + Len(sep) BY <3>2
    <3>7. \E j \in DOMAIN seqs[1] : seqs[1][j] = comma BY <2>4, <3>1, <3>4, <3>5, <3>6
    <3>8. \E j \in DOMAIN l : l[j] = comma BY <2>2, <3>7
    <3>9. QED BY <2>2, <2>6, <2>l, <3>8
  <2>7. QED BY <1>1, <1>8, <2>5, <2>6
<1>9. QED BY <1>7, <1>8

\* The text of a tree, by the kind of its root.
LEMMA SpelledIs ==
  ASSUME NEW a \in Syntax
  PROVE  /\ a.n = "binop" =>
              Unparse[a] = Unparse[a.ch[1]] \o <<a.v>> \o Operand(a.ch[2], Unparse[a.ch[2]])
         /\ a.n = "call" => Unparse[a] = <<a.v, "(">> \o Listed(a) \o <<")">>
         /\ a.n \notin {"binop", "call"} => Unparse[a] = <<a.v>>
<1> DEFINE texts == [i \in DOMAIN a.ch |-> Unparse[a.ch[i]]]
<1>1. Unparse[a] = Spelled(a, texts) BY UnparseIs
<1>2. a.ch \in Seq(Syntax) /\ Writable(a) BY SyntaxTrees
<1>t. \A i \in DOMAIN a.ch : texts[i] = Unparse[a.ch[i]] OBVIOUS
<1> HIDE DEF texts
<1>3. CASE a.n = "binop"
  <2>1. Unparse[a] = texts[1] \o <<a.v>> \o Operand(a.ch[2], texts[2])
    BY <1>1, <1>3 DEF Spelled
  <2>2. 1 \in DOMAIN a.ch /\ 2 \in DOMAIN a.ch
    <3>1. Len(a.ch) = 2 BY <1>2, <1>3 DEF Writable
    <3>2. QED BY <1>2, <3>1
  <2>3. QED BY <1>3, <1>t, <2>1, <2>2
<1>4. CASE a.n = "call"
  <2> DEFINE T(i) == texts[i] \o (IF i < Len(a.ch) THEN <<",">> ELSE <<>>)
             U(i) == Unparse[a.ch[i]] \o (IF i < Len(a.ch) THEN <<",">> ELSE <<>>)
  <2>1. Unparse[a] = <<a.v, "(">> \o FlattenSeq([i \in DOMAIN a.ch |-> T(i)]) \o <<")">>
    BY <1>1, <1>4 DEF Spelled
  <2>2. \A i \in DOMAIN a.ch : T(i) = U(i) BY <1>t
  <2>3. Listed(a) = FlattenSeq([i \in DOMAIN a.ch |-> U(i)]) BY DEF Listed
  <2> HIDE DEF T, U
  <2>4. [i \in DOMAIN a.ch |-> T(i)] = [i \in DOMAIN a.ch |-> U(i)] BY <2>2
  <2>5. Unparse[a] = <<a.v, "(">> \o Listed(a) \o <<")">> BY <2>1, <2>3, <2>4
  <2>6. QED BY <1>4, <2>5
<1>5. CASE a.n \notin {"binop", "call"}
  <2>1. Unparse[a] = <<a.v>> BY <1>1, <1>5 DEF Spelled
  <2>2. QED BY <1>5, <2>1
<1>6. QED BY <1>3, <1>4, <1>5

\* The children of a tree are trees, and not as deep.
LEMMA ChildrenAre ==
  ASSUME NEW a \in Syntax, NEW i \in DOMAIN a.ch
  PROVE  a.ch[i] \in Syntax /\ Rank[a.ch[i]] < Rank[a]
<1>1. a.ch \in Seq(Syntax) /\ Rank[a.ch[i]] < Rank[a] BY SyntaxTrees
<1>2. QED BY <1>1

\* One token is a text, and two are, put together.
LEMMA TextOne ==
  ASSUME NEW S, NEW c \in S
  PROVE  <<c>> \in Seq(S) /\ Len(<<c>>) = 1 /\ <<c>>[1] = c
OBVIOUS

\* The text of a tree has tokens, and starts with a word or a number.
LEMMA UnparseType ==
  \A a \in Syntax : /\ Unparse[a] \in Seq(Clear)
                    /\ Len(Unparse[a]) >= 1
                    /\ Unparse[a][1] \in Spoken
<1> DEFINE Good(a) == Unparse[a] \in Seq(Clear) /\ Len(Unparse[a]) >= 1 /\ Unparse[a][1] \in Spoken
           G == {a \in Syntax : Good(a)}
<1>1. ASSUME NEW a \in Syntax, \A b \in Syntax : Rank[b] < Rank[a] => b \in G PROVE a \in G
  <2>1. \A i \in DOMAIN a.ch : Good(a.ch[i]) BY <1>1, ChildrenAre
  <2>2. a.ch \in Seq(Syntax) /\ Writable(a) BY SyntaxTrees
  <2>3. CASE a.n = "binop"
    <3> DEFINE u == Unparse[a.ch[1]]
               w == Unparse[a.ch[2]]
               s == <<a.v>>
               o == Operand(a.ch[2], w)
    <3>1. Len(a.ch) = 2 /\ a.v \in {"+", "-", "*", "/", "<", ">"} BY <2>2, <2>3 DEF Writable
    <3>2. 1 \in DOMAIN a.ch /\ 2 \in DOMAIN a.ch BY <2>2, <3>1
    <3>3. Unparse[a] = u \o s \o o BY <2>3, SpelledIs
    <3>4. u \in Seq(Clear) /\ Len(u) >= 1 /\ u[1] \in Spoken /\ w \in Seq(Clear) BY <2>1, <3>2
    <3>5. s \in Seq(Clear)
      <4>1. a.v \in Clear BY <3>1, ClearWords
      <4>2. QED BY <4>1
    <3> HIDE DEF u, w, s
    <3>6. o \in Seq(Clear)
      <4> DEFINE l == <<"(">>
                 r == <<")">>
      <4>1. l \in Seq(Clear) /\ r \in Seq(Clear)
        <5>1. "(" \in Clear /\ ")" \in Clear BY ClearWords
        <5>2. QED BY <5>1, TextOne
      <4>2. o = IF a.ch[2].n = "binop" THEN l \o w \o r ELSE w BY DEF Operand
      <4> HIDE DEF l, r, o
      <4>3. l \o w \in Seq(Clear) BY <4>1, <3>4, ConcatProperties
      <4>4. (l \o w) \o r \in Seq(Clear) BY <4>1, <4>3, ConcatProperties
      <4>5. QED BY <3>4, <4>2, <4>4
    <3> HIDE DEF o
    <3>7. /\ u \o s \in Seq(Clear) /\ Len(u \o s) = Len(u) + Len(s)
          /\ \A i \in 1 .. Len(u) + Len(s) : (u \o s)[i] = IF i <= Len(u) THEN u[i] ELSE s[i - Len(u)]
      BY <3>4, <3>5, ConcatProperties
    <3>8. Len(u) \in Nat /\ Len(s) \in Nat /\ Len(o) \in Nat BY <3>4, <3>5, <3>6
    <3>9. (u \o s)[1] = u[1]
      <4>1. 1 \in 1 .. Len(u) + Len(s) /\ 1 <= Len(u) BY <3>4, <3>8
      <4>2. QED BY <3>7, <4>1
    <3> DEFINE us == u \o s
    <3>10. us \in Seq(Clear) /\ Len(us) = Len(u) + Len(s) /\ us[1] = u[1] BY <3>7, <3>9
    <3> HIDE DEF us
    <3>11. /\ us \o o \in Seq(Clear) /\ Len(us \o o) = Len(us) + Len(o)
           /\ \A i \in 1 .. Len(us) + Len(o) : (us \o o)[i] = IF i <= Len(us) THEN us[i] ELSE o[i - Len(us)]
      <4>1. us \in Seq(Clear) BY <3>10
      <4>2. QED BY <3>6, <4>1, ConcatProperties
    <3>12. 1 \in 1 .. Len(us) + Len(o) /\ 1 <= Len(us) BY <3>4, <3>8, <3>10
    <3>13. (us \o o)[1] = u[1] BY <3>10, <3>11, <3>12
    <3>14. Unparse[a] = us \o o BY <3>3 DEF us
    <3>15. Good(a) BY <3>4, <3>8, <3>10, <3>11, <3>13, <3>14
    <3>16. QED BY <3>15
  <2>4. CASE a.n = "call"
    <3> DEFINE l == <<a.v, "(">>
               m == Listed(a)
               r == <<")">>
    <3>1. a.v \in Primitives BY <2>2, <2>4 DEF Writable
    <3>2. Unparse[a] = l \o m \o r BY <2>4, SpelledIs
    <3>3. m \in Seq(Clear) BY <2>1, ListedIs
    <3>4. r \in Seq(Clear)
      <4>1. ")" \in Clear BY ClearWords
      <4>2. QED BY <4>1, TextOne
    <3>5. l \in Seq(Clear) /\ Len(l) = 2 /\ l[1] = a.v
      <4>1. "(" \in Clear /\ a.v \in Clear BY <3>1, ClearWords
      <4>2. PICK c : c = "(" OBVIOUS
      <4>3. <<a.v, c>> \in Seq(Clear) BY <4>1, <4>2
      <4>4. QED BY <4>2, <4>3
    <3> HIDE DEF l, m, r
    <3>6. /\ l \o m \in Seq(Clear) /\ Len(l \o m) = Len(l) + Len(m)
          /\ \A i \in 1 .. Len(l) + Len(m) : (l \o m)[i] = IF i <= Len(l) THEN l[i] ELSE m[i - Len(l)]
      BY <3>3, <3>5, ConcatProperties
    <3>7. Len(m) \in Nat /\ Len(r) \in Nat BY <3>3, <3>4
    <3>8. (l \o m)[1] = l[1]
      <4>1. 1 \in 1 .. Len(l) + Len(m) /\ 1 <= Len(l) BY <3>5, <3>7
      <4>2. QED BY <3>6, <4>1
    <3> DEFINE lm == l \o m
    <3>9. lm \in Seq(Clear) /\ Len(lm) = 2 + Len(m) /\ lm[1] = a.v BY <3>5, <3>6, <3>8
    <3> HIDE DEF lm
    <3>10. /\ lm \o r \in Seq(Clear) /\ Len(lm \o r) = Len(lm) + Len(r)
           /\ \A i \in 1 .. Len(lm) + Len(r) : (lm \o r)[i] = IF i <= Len(lm) THEN lm[i] ELSE r[i - Len(lm)]
      <4>1. lm \in Seq(Clear) BY <3>9
      <4>2. QED BY <3>4, <4>1, ConcatProperties
    <3>11. 1 \in 1 .. Len(lm) + Len(r) /\ 1 <= Len(lm) BY <3>7, <3>9
    <3>12. (lm \o r)[1] = a.v BY <3>9, <3>10, <3>11
    <3>13. Unparse[a] = lm \o r BY <3>2 DEF lm
    <3>14. a.v \in Spoken BY <3>1 DEF Spoken
    <3>15. Good(a) BY <3>7, <3>9, <3>10, <3>12, <3>13, <3>14
    <3>16. QED BY <3>15
  <2>5. CASE a.n \notin {"binop", "call"}
    <3>1. Unparse[a] = <<a.v>> BY <2>5, SpelledIs
    <3>2. a.v \in Ints \/ a.v \in Words \ Keywords BY <2>2, <2>5 DEF Writable
    <3>3. a.v \in Clear BY <3>2, ClearWords
    <3>4. a.v \in Spoken BY <3>2 DEF Spoken
    <3>5. PICK v : v = a.v OBVIOUS
    <3>6. <<v>> \in Seq(Clear) /\ Len(<<v>>) = 1 /\ <<v>>[1] = v BY <3>3, <3>5, TextOne
    <3>7. Good(a) BY <3>1, <3>4, <3>5, <3>6
    <3>8. QED BY <3>7
  <2>6. QED BY <2>3, <2>4, <2>5
<1>2. Syntax \subseteq G
  <2> HIDE DEF G
  <2> QED BY <1>1, RankInduction
<1>3. QED BY <1>2

-----------------------------------------------------------------------------
(* A tree that is written out is read back.                                *)

\* A text stands at a position, and has no comma.
Stands(toks, p, s) ==
  \A i \in 1 .. Len(s) : /\ p + i - 1 \in 1 .. Len(toks)
                         /\ Peek(toks, p + i - 1) = s[i]
                         /\ s[i] # ","

LEMMA StandsParts ==
  ASSUME NEW S, NEW toks, NEW p \in Nat, NEW s \in Seq(S), NEW t \in Seq(S), Stands(toks, p, s \o t)
  PROVE  Stands(toks, p, s) /\ Stands(toks, p + Len(s), t)
<1>n. Len(s) \in Nat /\ Len(t) \in Nat OBVIOUS
<1>1. /\ Len(s \o t) = Len(s) + Len(t)
      /\ \A i \in 1 .. Len(s) + Len(t) : (s \o t)[i] = IF i <= Len(s) THEN s[i] ELSE t[i - Len(s)]
  BY ConcatProperties
<1> DEFINE w == s \o t
<1>2. \A i \in 1 .. Len(s) + Len(t) :
        p + i - 1 \in 1 .. Len(toks) /\ Peek(toks, p + i - 1) = w[i] /\ w[i] # ","
  BY <1>1 DEF Stands
<1>3. \A i \in 1 .. Len(s) : w[i] = s[i]
  <2> TAKE i \in 1 .. Len(s)
  <2>1. i \in 1 .. Len(s) + Len(t) /\ i <= Len(s) BY <1>n
  <2>2. QED BY <1>1, <2>1
<1>4. \A i \in 1 .. Len(t) : w[Len(s) + i] = t[i]
  <2> TAKE i \in 1 .. Len(t)
  <2>1. Len(s) + i \in 1 .. Len(s) + Len(t) /\ ~(Len(s) + i <= Len(s)) /\ (Len(s) + i) - Len(s) = i BY <1>n
  <2>2. QED BY <1>1, <2>1
<1> HIDE DEF w
<1>5. Stands(toks, p, s)
  <2> SUFFICES ASSUME NEW i \in 1 .. Len(s)
               PROVE p + i - 1 \in 1 .. Len(toks) /\ Peek(toks, p + i - 1) = s[i] /\ s[i] # ","
    BY DEF Stands
  <2>1. i \in 1 .. Len(s) + Len(t) BY <1>n
  <2>2. QED BY <1>2, <1>3, <2>1
<1>6. Stands(toks, p + Len(s), t)
  <2> SUFFICES ASSUME NEW i \in 1 .. Len(t)
               PROVE /\ p + Len(s) + i - 1 \in 1 .. Len(toks)
                     /\ Peek(toks, p + Len(s) + i - 1) = t[i] /\ t[i] # ","
    BY DEF Stands
  <2>1. Len(s) + i \in 1 .. Len(s) + Len(t) /\ p + (Len(s) + i) - 1 = p + Len(s) + i - 1 BY <1>n
  <2>2. QED BY <1>2, <1>4, <2>1
<1>7. QED BY <1>5, <1>6

LEMMA StandsOne ==
  ASSUME NEW toks, NEW p \in Nat, NEW c, Stands(toks, p, <<c>>)
  PROVE  p \in 1 .. Len(toks) /\ Peek(toks, p) = c
<1>1. 1 \in 1 .. Len(<<c>>) /\ p + 1 - 1 = p /\ <<c>>[1] = c OBVIOUS
<1>2. QED BY <1>1 DEF Stands

\* What stands to the right of a position as _parse_expr() reads it.
Agrees(toks, R, p) == \A q \in Positions(toks) : q >= p => R[q] = Expr("parser", toks)[q]

LEMMA AgreesOn ==
  ASSUME NEW S, NEW toks \in Seq(S), NEW R, NEW p \in Nat, Agrees(toks, R, p)
  PROVE  /\ \A q \in Nat : p <= q => Agrees(toks, R, q)
         /\ Moving(toks, R, p)
<1>n. Len(toks) \in Nat OBVIOUS
<1>1. ASSUME NEW q \in Nat, p <= q PROVE Agrees(toks, R, q)
  <2> SUFFICES ASSUME NEW x \in Positions(toks), x >= q PROVE R[x] = Expr("parser", toks)[x] BY DEF Agrees
  <2>1. x \in Nat BY <1>n DEF Positions
  <2>2. x >= p BY <1>1, <2>1
  <2>3. QED BY <2>2 DEF Agrees
<1>2. Moving(toks, R, p)
  <2> SUFFICES ASSUME NEW x \in Positions(toks), x >= p, R[x].ok PROVE R[x].pos \in x + 1 .. Len(toks) + 1
    BY DEF Moving
  <2>1. R[x] = Expr("parser", toks)[x] BY DEF Agrees
  <2>2. QED BY <2>1, ExprMoves
<1>3. QED BY <1>1, <1>2

\* The text of a tree at p is read as the tree: as an operand, as the chain of
\* operators that has got so far, and as an expression.
AsOperand(toks, a, p) ==
  a.n # "binop" =>
    \A R : Agrees(toks, R, p + 1) =>
      CallExpr("parser", toks, R, p) = Got(a, p + Len(Unparse[a]))
AsChain(toks, a, p) ==
  \A R : Agrees(toks, R, p + 1) =>
    \E m \in Nat : Loop(toks, Level0("parser", toks, R), Operators, "binop",
                        CallExpr("parser", toks, R, p))[m] = Got(a, p + Len(Unparse[a]))
AsExpr(toks, a, p) ==
  Peek(toks, p + Len(Unparse[a])) \notin Operators =>
    Expr("parser", toks)[p] = Got(a, p + Len(Unparse[a]))
ReadBack(toks, a) ==
  \A p \in Positions(toks) : Stands(toks, p, Unparse[a]) =>
    AsOperand(toks, a, p) /\ AsChain(toks, a, p) /\ AsExpr(toks, a, p)

\* An operand is a chain without operators.
LEMMA OperandChain ==
  ASSUME NEW toks, NEW a, NEW p, a.n # "binop", AsOperand(toks, a, p)
  PROVE  AsChain(toks, a, p)
<1> SUFFICES ASSUME NEW R, Agrees(toks, R, p + 1)
             PROVE  \E m \in Nat : Loop(toks, Level0("parser", toks, R), Operators, "binop",
                        CallExpr("parser", toks, R, p))[m] = Got(a, p + Len(Unparse[a]))
  BY DEF AsChain
<1>1. CallExpr("parser", toks, R, p) = Got(a, p + Len(Unparse[a])) BY DEF AsOperand
<1>2. Loop(toks, Level0("parser", toks, R), Operators, "binop", CallExpr("parser", toks, R, p))[0]
        = CallExpr("parser", toks, R, p)
  BY LoopIs
<1>3. 0 \in Nat OBVIOUS
<1>4. QED BY <1>1, <1>2, <1>3

\* A chain that no operator follows is the expression.
LEMMA ChainExpr ==
  ASSUME NEW S, NEW toks \in Seq(S), NEW a, NEW p \in Positions(toks), AsChain(toks, a, p)
  PROVE  AsExpr(toks, a, p)
<1> DEFINE R == Rest("parser", toks, p)
           C == Level0("parser", toks, R)
           e == p + Len(Unparse[a])
<1> SUFFICES ASSUME Peek(toks, e) \notin Operators PROVE Expr("parser", toks)[p] = Got(a, e)
  BY DEF AsExpr
<1>n. p \in Nat /\ p >= p /\ Len(toks) \in Nat BY DEF Positions
<1>1. Agrees(toks, R, p + 1)
  <2> SUFFICES ASSUME NEW q \in Positions(toks), q >= p + 1 PROVE R[q] = Expr("parser", toks)[q]
    BY DEF Agrees
  <2>1. q \in p + 1 .. Len(toks) + 1 BY <1>n DEF Positions
  <2>2. QED BY <2>1 DEF Rest
<1>2. Expr("parser", toks)[p] = Chains(toks, C, Operators)[p]
  <2>1. Expr("parser", toks)[p] = BinaryExpr("parser", toks, R)[p] BY <1>n, ExprIs DEF Rest
  <2>2. QED BY <2>1, LevelsAre DEF BinaryExpr, Level1
<1>3. Moving(toks, C, p) BY ExprMoves, BinaryMoves
<1> DEFINE first == CallExpr("parser", toks, R, p)
<1>4. C[p] = first BY DEF Level0
<1>5. PICK m \in Nat : Loop(toks, C, Operators, "binop", first)[m] = Got(a, e) BY <1>1 DEF AsChain
<1>6. Chains(toks, C, Operators)[p] = Items(toks, C, Operators, "binop", first) BY <1>4 DEF Chains
<1>7. first.ok => first.pos \in p .. Len(toks) + 1
  <2>1. first.ok => first.pos \in p + 1 .. Len(toks) + 1 BY <1>3, <1>4, <1>n DEF Moving
  <2>2. QED BY <2>1, <1>n
<1>8. "EOF" \notin Operators BY DEF Operators, Arithmetic
<1> HIDE DEF C, first, e
<1>9. Ended(toks, Operators, Loop(toks, C, Operators, "binop", first)[m]) BY <1>5 DEF Ended, Got
<1>10. Items(toks, C, Operators, "binop", first) = Loop(toks, C, Operators, "binop", first)[m]
  BY <1>3, <1>7, <1>8, <1>9, <1>n, LoopEnds
<1>11. QED BY <1>2, <1>5, <1>6, <1>10

\* A number or a name.
LEMMA LeafRead ==
  ASSUME NEW S, NEW toks \in Seq(S), NEW a \in Syntax, a.n \notin {"binop", "call"},
         NEW p \in Positions(toks), Stands(toks, p, Unparse[a])
  PROVE  AsOperand(toks, a, p)
<1> SUFFICES ASSUME NEW R PROVE CallExpr("parser", toks, R, p) = Got(a, p + Len(Unparse[a]))
  BY DEF AsOperand
<1>n. p \in Nat BY DEF Positions
<1>1. a = Node(a.n, a.v, a.ch) /\ Writable(a) BY SyntaxTrees
<1>2. \/ a.n = "int" /\ a.v \in Ints /\ a.ch = <<>>
      \/ a.n = "name" /\ a.v \in Words /\ a.ch = <<>>
  BY <1>1 DEF Writable
<1>3. Unparse[a] = <<a.v>> BY SpelledIs
<1>4. Peek(toks, p) = a.v BY <1>3, <1>n, StandsOne
<1>5. Len(Unparse[a]) = 1 BY <1>3
<1>6. ~Called("parser", toks, p) BY <1>2, <1>4, LexemesApart DEF Called
<1>7. CallExpr("parser", toks, R, p) = Atom("parser", toks, R, p) BY <1>6 DEF CallExpr
<1>8. Names("parser") = Words BY DEF Names
<1>9. Atom("parser", toks, R, p) = Got(a, p + 1) BY <1>1, <1>2, <1>4, <1>8, AtomIs
<1>10. QED BY <1>5, <1>7, <1>9

\* Where the parts of a call stand; without a comma it has one argument at most.
LEMMA CallStands ==
  ASSUME NEW toks, NEW a \in Syntax, a.n = "call", NEW p \in Nat, Stands(toks, p, Unparse[a])
  PROVE  /\ Peek(toks, p) = a.v /\ Peek(toks, p + 1) = "(" /\ p + 1 \in 1 .. Len(toks)
         /\ Stands(toks, p + 2, Listed(a))
         /\ Listed(a) \in Seq(Clear)
         /\ Peek(toks, p + 2 + Len(Listed(a))) = ")"
         /\ p + 2 + Len(Listed(a)) \in 1 .. Len(toks)
         /\ p + Len(Unparse[a]) = p + 2 + Len(Listed(a)) + 1
         /\ Len(a.ch) = 0 => Listed(a) = <<>>
         /\ Len(a.ch) = 1 => Listed(a) = Unparse[a.ch[1]]
         /\ Len(a.ch) = 0 \/ Len(a.ch) = 1
<1>n. p \in Nat OBVIOUS
<1>1. /\ a = Node("call", a.v, a.ch) /\ a.v \in Primitives /\ a.ch \in Seq(Syntax)
      /\ Len(a.ch) \in Nat /\ DOMAIN a.ch = 1 .. Len(a.ch)
  <2>1. a = Node(a.n, a.v, a.ch) /\ Writable(a) /\ a.ch \in Seq(Syntax) BY SyntaxTrees
  <2>2. QED BY <2>1 DEF Writable
<1> DEFINE l == <<a.v, "(">>
           s == Listed(a)
           r == <<")">>
<1>2. Unparse[a] = (l \o s) \o r BY SpelledIs
<1>3. \A i \in DOMAIN a.ch : Unparse[a.ch[i]] \in Seq(Clear) BY ChildrenAre, UnparseType
<1>4. /\ s \in Seq(Clear)
      /\ Len(a.ch) = 0 => s = <<>>
      /\ Len(a.ch) = 1 => s = Unparse[a.ch[1]]
      /\ Len(a.ch) > 1 => \E j \in DOMAIN s : s[j] = ","
  BY <1>3, ListedIs
<1>4a. s \in Seq(Clear) BY <1>4
<1>1a. Len(a.ch) \in Nat BY <1>1
<1>5. l \in Seq(Clear) /\ Len(l) = 2 /\ l[1] = a.v /\ l[2] = "("
  <2>1. "(" \in Clear /\ a.v \in Clear BY <1>1, ClearWords
  <2>2. PICK c : c = "(" OBVIOUS
  <2>3. <<a.v, c>> \in Seq(Clear) BY <2>1, <2>2
  <2>4. QED BY <2>2, <2>3
<1>6. r \in Seq(Clear) /\ Len(r) = 1 /\ r[1] = ")"
  <2>1. ")" \in Clear BY ClearWords
  <2>2. QED BY <2>1, TextOne
<1>r. Stands(toks, p + Len(l \o s), r) => Peek(toks, p + Len(l \o s)) = ")"
                                          /\ p + Len(l \o s) \in 1 .. Len(toks)
  <2>1. l \o s \in Seq(Clear) BY <1>4, <1>5, ConcatProperties
  <2> DEFINE q == p + Len(l \o s)
  <2>2. q \in Nat
    <3> DEFINE x == l \o s
    <3>1. x \in Seq(Clear) BY <2>1
    <3> HIDE DEF x
    <3>2. Len(x) \in Nat BY <3>1
    <3>3. QED BY <3>2, <1>n DEF x
  <2> HIDE DEF q, l, s
  <2>3. Stands(toks, q, r) => Peek(toks, q) = ")" /\ q \in 1 .. Len(toks) BY <2>2, StandsOne
  <2>4. QED BY <2>3 DEF q
<1> HIDE DEF l, s, r
<1>7. l \o s \in Seq(Clear) /\ Len(l \o s) = 2 + Len(s) /\ Len(s) \in Nat
      /\ Len((l \o s) \o r) = 2 + Len(s) + 1
  <2>1. l \o s \in Seq(Clear) /\ Len(l \o s) = Len(l) + Len(s) BY <1>4, <1>5, ConcatProperties
  <2>2. Len((l \o s) \o r) = Len(l \o s) + Len(r) BY <1>6, <2>1, ConcatProperties
  <2>3. Len(s) \in Nat BY <1>4a
  <2>4. QED BY <1>5, <1>6, <2>1, <2>2, <2>3
<1>8. Stands(toks, p, l \o s) /\ Stands(toks, p + Len(l \o s), r)
  <2>1. l \o s \in Seq(Clear) BY <1>7
  <2>2. Stands(toks, p, (l \o s) \o r) BY <1>2
  <2> DEFINE x == l \o s
  <2> HIDE DEF x
  <2>3. x \in Seq(Clear) /\ Stands(toks, p, x \o r) BY <2>1, <2>2 DEF x
  <2>4. Stands(toks, p, x) /\ Stands(toks, p + Len(x), r) BY <1>n, <1>6, <2>3, StandsParts
  <2>5. QED BY <2>4 DEF x
<1>9. Stands(toks, p, l) /\ Stands(toks, p + 2, s)
  <2>1. Stands(toks, p, l) /\ Stands(toks, p + Len(l), s) BY <1>n, <1>4, <1>5, <1>8, StandsParts
  <2>2. QED BY <1>5, <2>1
<1>10. Peek(toks, p) = a.v /\ Peek(toks, p + 1) = "(" /\ p + 1 \in 1 .. Len(toks)
  <2>1. 1 \in 1 .. Len(l) /\ 2 \in 1 .. Len(l) /\ p + 1 - 1 = p /\ p + 2 - 1 = p + 1 BY <1>5, <1>n
  <2>2. Peek(toks, p) = l[1] /\ Peek(toks, p + 1) = l[2] /\ p + 1 \in 1 .. Len(toks) BY <1>9, <2>1 DEF Stands
  <2>3. QED BY <1>5, <2>2
<1> DEFINE e == p + 2 + Len(s)
<1>e. p + Len(l \o s) = e /\ p + Len(Unparse[a]) = e + 1 /\ e \in Nat BY <1>2, <1>7, <1>n
<1>11. Peek(toks, e) = ")" /\ e \in 1 .. Len(toks) BY <1>e, <1>r, <1>8
<1>12. Len(a.ch) = 0 \/ Len(a.ch) = 1
  <2>1. Len(a.ch) = 0 \/ Len(a.ch) = 1 \/ Len(a.ch) > 1
    <3>1. PICK k : k = Len(a.ch) OBVIOUS
    <3>2. k \in Nat BY <1>1a, <3>1
    <3>3. k = 0 \/ k = 1 \/ k > 1 BY <3>2
    <3>4. QED BY <3>1, <3>3
  <2>2. CASE Len(a.ch) > 1
    <3>1. PICK j \in DOMAIN s : s[j] = "," BY <1>4, <2>2
    <3>2. j \in 1 .. Len(s) BY <1>4a
    <3>3. QED BY <1>9, <3>1, <3>2 DEF Stands
  <2>3. QED BY <2>1, <2>2
<1>13. Listed(a) = s BY DEF s
<1> HIDE DEF e
<1>14. e = p + 2 + Len(s) BY DEF e
<1>15. QED BY <1>4, <1>9, <1>10, <1>11, <1>12, <1>13, <1>14, <1>e

\* A call, given that its argument is read back.
LEMMA CallRead ==
  ASSUME NEW S, NEW toks \in Seq(S), NEW a \in Syntax, a.n = "call",
         NEW p \in Positions(toks), Stands(toks, p, Unparse[a]),
         \A i \in DOMAIN a.ch : ReadBack(toks, a.ch[i])
  PROVE  AsOperand(toks, a, p)
<1> SUFFICES ASSUME NEW R, Agrees(toks, R, p + 1)
             PROVE  CallExpr("parser", toks, R, p) = Got(a, p + Len(Unparse[a]))
  BY DEF AsOperand
<1>n. p \in Nat BY DEF Positions
<1>1. /\ a = Node("call", a.v, a.ch) /\ a.v \in Primitives /\ a.ch \in Seq(Syntax)
      /\ Len(a.ch) \in Nat /\ DOMAIN a.ch = 1 .. Len(a.ch)
  <2>1. a = Node(a.n, a.v, a.ch) /\ Writable(a) /\ a.ch \in Seq(Syntax) BY SyntaxTrees
  <2>2. QED BY <2>1 DEF Writable
<1> DEFINE s == Listed(a)
           e == p + 2 + Len(s)
<1>p1. Peek(toks, p) = a.v BY <1>n, CallStands
<1>p2. Peek(toks, p + 1) = "(" /\ p + 1 \in 1 .. Len(toks) BY <1>n, CallStands
<1>p3. Stands(toks, p + 2, s) BY <1>n, CallStands
<1>p4. s \in Seq(Clear) BY <1>n, CallStands
<1>p5. Peek(toks, e) = ")" BY <1>n, CallStands
<1>p6. e \in 1 .. Len(toks) BY <1>n, CallStands
<1>p7. p + Len(Unparse[a]) = e + 1 BY <1>n, CallStands
<1>p8. Len(a.ch) = 0 => s = <<>> BY <1>n, CallStands
<1>p9. Len(a.ch) = 1 => s = Unparse[a.ch[1]] BY <1>n, CallStands
<1>p10. Len(a.ch) = 0 \/ Len(a.ch) = 1 BY <1>n, CallStands
<1>2. Len(a.ch) = 0 \/ Len(a.ch) = 1 BY <1>p10
<1> HIDE DEF s
<1>4. (Len(a.ch) = 0 => s = <<>>) /\ (Len(a.ch) = 1 => s = Unparse[a.ch[1]]) BY <1>p8, <1>p9
<1>4a. s \in Seq(Clear) BY <1>p4
<1>7. Len(s) \in Nat BY <1>4a
<1>9. Stands(toks, p + 2, s) BY <1>p3
<1>10. Peek(toks, p) = a.v /\ Peek(toks, p + 1) = "(" /\ p + 1 \in 1 .. Len(toks) BY <1>p1, <1>p2
<1>11. Peek(toks, e) = ")" /\ e \in 1 .. Len(toks) BY <1>p5, <1>p6
<1>e. p + Len(Unparse[a]) = e + 1 BY <1>p7
<1>12. toks[p] = a.v
  <2>1. a.v # "EOF" BY <1>1, LexemesApart
  <2>2. QED BY <1>10, <2>1, PeekIn
<1> DEFINE c == Arguments(toks, R, p + 2)
<1>13. c = Got(a.ch, e)
  <2>1. Len(a.ch) = 0 \/ Len(a.ch) = 1 BY <1>2
  <2>2. CASE Len(a.ch) = 0
    <3>1. a.ch = <<>> /\ Len(s) = 0 BY <1>1, <1>4, <2>2
    <3>2. e = p + 2 BY <3>1, <1>n
    <3> HIDE DEF e
    <3>3. QED BY <1>11, <3>1, <3>2 DEF Arguments
  <2>3. CASE Len(a.ch) = 1
    <3> DEFINE b == a.ch[1]
               u == Unparse[b]
    <3>1. 1 \in DOMAIN a.ch /\ b \in Syntax BY <1>1, <2>3, ChildrenAre
    <3>2. a.ch = <<b>> BY <1>1, <2>3
    <3>3. u \in Seq(Clear) /\ Len(u) >= 1 /\ u[1] \in Spoken BY <3>1, UnparseType
    <3>4. s = u BY <1>4, <2>3
    <3>5. ReadBack(toks, b) BY <3>1
    <3> HIDE DEF b
    <3>6. p + 2 \in Positions(toks) BY <1>n, <1>10, <1>11, <3>3 DEF Positions
    <3>7. AsExpr(toks, b, p + 2) BY <1>9, <3>4, <3>5, <3>6 DEF ReadBack
    <3>8. ")" \notin Operators /\ ")" \notin {","} BY DEF Operators, Arithmetic
    <3>9. Expr("parser", toks)[p + 2] = Got(b, e)
      <4>1. p + 2 + Len(Unparse[b]) = e BY <3>4
      <4> HIDE DEF e, u
      <4>2. Peek(toks, p + 2 + Len(Unparse[b])) \notin Operators BY <1>11, <3>8, <4>1
      <4>3. QED BY <3>7, <4>1, <4>2 DEF AsExpr
    <3>10. R[p + 2] = Got(b, e)
      <4>1. p + 2 >= p + 1 BY <1>n
      <4>2. QED BY <3>6, <3>9, <4>1 DEF Agrees
    <3>11. Peek(toks, p + 2) # ")"
      <4>1. 1 \in 1 .. Len(s) /\ p + 2 + 1 - 1 = p + 2 BY <1>7, <1>n, <3>3, <3>4
      <4>2. Peek(toks, p + 2) = s[1] BY <1>9, <4>1 DEF Stands
      <4>3. s[1] \in Spoken BY <3>3, <3>4
      <4>4. ")" \notin Spoken
        <5>1. ")" \in OneChar \cup DOMAIN TwoChars \cup {"EOF"} BY DEF OneChar
        <5>2. QED BY <5>1, SignsApart DEF Spoken
      <4>5. QED BY <4>2, <4>3, <4>4
    <3> DEFINE first == Got(<<b>>, e)
    <3>12. c = Items(toks, R, {","}, "argument", first)
      <4>1. R[p + 2].ok /\ R[p + 2].node = b /\ R[p + 2].pos = e BY <3>10 DEF Got
      <4>2. QED BY <3>11, <4>1 DEF Arguments
    <3>13. Items(toks, R, {","}, "argument", first) = first
      <4>1. Moving(toks, R, p + 1) BY <1>n, AgreesOn
      <4>2. first.ok => first.pos \in p + 1 .. Len(toks) + 1 BY <1>7, <1>11, <1>n DEF Got
      <4>3. Ended(toks, {","}, first) BY <1>11, <3>8 DEF Ended, Got
      <4>4. "EOF" \notin {","} /\ p + 1 \in Nat BY <1>n
      <4> HIDE DEF first
      <4>5. QED BY <4>1, <4>2, <4>3, <4>4, LoopIdle
    <3>14. QED BY <3>2, <3>12, <3>13
  <2>4. QED BY <2>1, <2>2, <2>3
<1>14. Called("parser", toks, p) BY <1>1, <1>10 DEF Called
<1> HIDE DEF e
<1>15. Closed(toks, c) = Got(a.ch, e + 1)
  <2> HIDE DEF c
  <2>1. c.ok /\ c.node = a.ch /\ c.pos = e BY <1>13 DEF Got
  <2>2. QED BY <1>11, <2>1 DEF Closed
<1>16. CallExpr("parser", toks, R, p) = Got(Node("call", a.v, a.ch), e + 1)
  <2> DEFINE d == Closed(toks, c)
  <2>1. d.ok /\ d.node = a.ch /\ d.pos = e + 1 BY <1>15 DEF Got
  <2>2. QED BY <1>10, <1>12, <1>14, <2>1 DEF CallExpr
<1>17. QED BY <1>1, <1>16, <1>e

\* Where the parts of a right operand in parentheses stand.
LEMMA OperandStands ==
  ASSUME NEW toks, NEW b \in Syntax, b.n = "binop",
         NEW p \in Nat, Stands(toks, p, Operand(b, Unparse[b])),
         NEW e, e = p + 1 + Len(Unparse[b])
  PROVE  /\ Peek(toks, p) = "(" /\ Stands(toks, p + 1, Unparse[b])
         /\ Peek(toks, e) = ")" /\ e \in 1 .. Len(toks)
         /\ Len(Operand(b, Unparse[b])) = 2 + Len(Unparse[b])
<1>n. p \in Nat OBVIOUS
<1>b. b.n = "binop" OBVIOUS
<1> DEFINE u == Unparse[b]
           l == <<"(">>
           r == <<")">>
<1>e. e = p + 1 + Len(u) OBVIOUS
<1>1. Operand(b, u) = (l \o u) \o r BY <1>b DEF Operand
<1>2. l \in Seq(Clear) /\ Len(l) = 1 /\ r \in Seq(Clear) /\ Len(r) = 1
  <2>1. "(" \in Clear /\ ")" \in Clear BY ClearWords
  <2>2. QED BY <2>1, TextOne
<1>3. u \in Seq(Clear) /\ Len(u) >= 1 BY UnparseType
<1>p. \A q \in Nat : /\ Stands(toks, q, l) => Peek(toks, q) = "("
                     /\ Stands(toks, q, r) => Peek(toks, q) = ")" /\ q \in 1 .. Len(toks)
  BY StandsOne
<1>u. Len(u) \in Nat BY <1>3
<1>k. PICK k \in Nat : k = Len(u) BY <1>u
<1>f. e = p + 1 + k /\ e \in Nat
  <2>1. e = p + 1 + k BY <1>e, <1>k
  <2>2. p + 1 + k \in Nat BY <1>n
  <2>3. QED BY <2>1, <2>2
<1> HIDE DEF l, r, u
<1>4. l \o u \in Seq(Clear) /\ Len(l \o u) = 1 + Len(u) BY <1>2, <1>3, ConcatProperties
<1>5. Len((l \o u) \o r) = 2 + Len(u)
  <2>1. Len((l \o u) \o r) = Len(l \o u) + Len(r) BY <1>2, <1>4, ConcatProperties
  <2>2. QED BY <1>2, <1>4, <1>u, <2>1
<1>6. Stands(toks, p, l \o u) /\ Stands(toks, p + Len(l \o u), r)
  <2> DEFINE x == l \o u
  <2> HIDE DEF x
  <2>1. x \in Seq(Clear) /\ Stands(toks, p, x \o r) BY <1>1, <1>4 DEF u, x
  <2>2. Stands(toks, p, x) /\ Stands(toks, p + Len(x), r) BY <1>n, <1>2, <2>1, StandsParts
  <2>3. QED BY <2>2 DEF x
<1>7. Stands(toks, p, l) /\ Stands(toks, p + 1, u)
  <2>1. Stands(toks, p, l) /\ Stands(toks, p + Len(l), u) BY <1>n, <1>2, <1>3, <1>6, StandsParts
  <2>2. QED BY <1>2, <2>1
<1>8. p + Len(l \o u) = e /\ e \in Nat
  <2>2. PICK j : j = Len(l \o u) OBVIOUS
  <2>3. j = 1 + k BY <1>4, <1>k, <2>2
  <2>4. p + j = p + 1 + k BY <1>n, <2>3
  <2>5. QED BY <1>f, <2>2, <2>4
<1>9. Peek(toks, p) = "(" /\ Peek(toks, e) = ")" /\ e \in 1 .. Len(toks) BY <1>n, <1>p, <1>6, <1>7, <1>8
<1>10. Len(Operand(b, Unparse[b])) = 2 + Len(Unparse[b]) BY <1>1, <1>5 DEF u
<1>11. QED BY <1>7, <1>9, <1>10 DEF u

\* The right operand of an operator: a plain one, or one in parentheses.
LEMMA OperandRead ==
  ASSUME NEW S, NEW toks \in Seq(S), NEW b \in Syntax, ReadBack(toks, b),
         NEW p \in Positions(toks), Stands(toks, p, Operand(b, Unparse[b])),
         NEW R, Agrees(toks, R, p + 1)
  PROVE  CallExpr("parser", toks, R, p) = Got(b, p + Len(Operand(b, Unparse[b])))
<1>n. p \in Nat /\ Len(toks) \in Nat BY DEF Positions
<1> DEFINE u == Unparse[b]
<1>1. CASE b.n # "binop"
  <2>1. Operand(b, u) = u BY <1>1 DEF Operand
  <2>2. AsOperand(toks, b, p) BY <2>1 DEF ReadBack
  <2>3. QED BY <1>1, <2>1, <2>2 DEF AsOperand
<1>2. CASE b.n = "binop"
  <2> DEFINE e == p + 1 + Len(u)
  <2>u. Len(u) \in Nat
    <3>1. u \in Seq(Clear) BY UnparseType
    <3>2. QED BY <3>1
  <2>s. /\ Peek(toks, p) = "(" /\ Stands(toks, p + 1, u)
        /\ Peek(toks, e) = ")" /\ e \in 1 .. Len(toks)
        /\ p + Len(Operand(b, u)) = e + 1
    <3>1. Peek(toks, p) = "(" BY <1>n, <1>2, OperandStands
    <3>2. Stands(toks, p + 1, u) BY <1>n, <1>2, OperandStands
    <3>3. Peek(toks, e) = ")" BY <1>n, <1>2, <2>u, OperandStands
    <3>4. e \in 1 .. Len(toks) BY <1>n, <1>2, OperandStands
    <3>5. p + Len(Operand(b, u)) = e + 1
      <4>1. Len(Operand(b, u)) = 2 + Len(u) BY <1>n, <1>2, OperandStands
      <4> HIDE DEF u
      <4>2. QED BY <1>n, <2>u, <4>1
    <3>6. QED BY <3>1, <3>2, <3>3, <3>4, <3>5
  <2> HIDE DEF u
  <2>7. Stands(toks, p + 1, u) BY <2>s
  <2>9. Peek(toks, p) = "(" /\ Peek(toks, e) = ")" /\ e \in 1 .. Len(toks) BY <2>s
  <2>10. p + 1 \in Positions(toks) BY <1>n, <2>9, <2>u DEF Positions
  <2>11. ~Called("parser", toks, p)
    <3>1. "(" \in OneChar \cup DOMAIN TwoChars \cup {"EOF"} BY DEF OneChar
    <3>2. "(" \notin Primitives BY <3>1, SignsApart
    <3>3. QED BY <2>9, <3>2 DEF Called
  <2>12. CallExpr("parser", toks, R, p) = Closed(toks, R[p + 1])
    <3>1. CallExpr("parser", toks, R, p) = Atom("parser", toks, R, p) BY <2>11 DEF CallExpr
    <3>2. QED BY <2>9, <3>1, AtomIs
  <2>13. R[p + 1] = Got(b, e)
    <3>1. AsExpr(toks, b, p + 1) BY <2>7, <2>10 DEF ReadBack, u
    <3>2. ")" \notin Operators BY DEF Operators, Arithmetic
    <3>3. Expr("parser", toks)[p + 1] = Got(b, e)
      <4>1. p + 1 + Len(Unparse[b]) = e BY DEF u
      <4> HIDE DEF e
      <4>2. QED BY <2>9, <3>1, <3>2, <4>1 DEF AsExpr
    <3>4. p + 1 >= p + 1 BY <1>n
    <3>5. QED BY <2>10, <3>3, <3>4 DEF Agrees
  <2> HIDE DEF e
  <2>14. Closed(toks, R[p + 1]) = Got(b, e + 1)
    <3> DEFINE c == R[p + 1]
    <3> HIDE DEF c
    <3>1. c.ok /\ c.node = b /\ c.pos = e BY <2>13 DEF Got, c
    <3>2. QED BY <2>9, <3>1 DEF Closed, c
  <2>15. p + Len(Operand(b, Unparse[b])) = e + 1 BY <2>s DEF u
  <2>16. QED BY <2>12, <2>14, <2>15
<1>3. QED BY <1>1, <1>2

\* The text of an operator has the texts of its operands and the sign.
LEMMA BinopLength ==
  ASSUME NEW a \in Syntax, a.n = "binop"
  PROVE  /\ Len(Unparse[a]) = Len(Unparse[a.ch[1]]) + 1 + Len(Operand(a.ch[2], Unparse[a.ch[2]]))
         /\ Operand(a.ch[2], Unparse[a.ch[2]]) \in Seq(Clear)
<1> DEFINE b == a.ch[1]
           c == a.ch[2]
           u == Unparse[b]
           v == <<a.v>>
           o == Operand(c, Unparse[c])
<1>1. Len(a.ch) = 2 /\ a.v \in {"+", "-", "*", "/", "<", ">"} /\ a.ch \in Seq(Syntax)
  <2>1. Writable(a) /\ a.ch \in Seq(Syntax) BY SyntaxTrees
  <2>2. QED BY <2>1 DEF Writable
<1>3. b \in Syntax /\ c \in Syntax
  <2>1. 1 \in DOMAIN a.ch /\ 2 \in DOMAIN a.ch BY <1>1
  <2>2. QED BY <2>1, ChildrenAre
<1>4. Unparse[a] = (u \o v) \o o BY SpelledIs
<1>5. u \in Seq(Clear) BY <1>3, UnparseType
<1>6. v \in Seq(Clear) /\ Len(v) = 1
  <2>1. a.v \in Clear BY <1>1, ClearWords
  <2>2. QED BY <2>1, TextOne
<1>7. o \in Seq(Clear)
  <2> DEFINE l == <<"(">>
             r == <<")">>
             w == Unparse[c]
  <2>1. l \in Seq(Clear) /\ r \in Seq(Clear)
    <3>1. "(" \in Clear /\ ")" \in Clear BY ClearWords
    <3>2. QED BY <3>1, TextOne
  <2>2. w \in Seq(Clear) BY <1>3, UnparseType
  <2>3. o = IF c.n = "binop" THEN (l \o w) \o r ELSE w BY DEF Operand
  <2> HIDE DEF l, r, o, w
  <2>4. l \o w \in Seq(Clear) BY <2>1, <2>2, ConcatProperties
  <2>5. (l \o w) \o r \in Seq(Clear) BY <2>1, <2>4, ConcatProperties
  <2>6. QED BY <2>2, <2>3, <2>5
<1> HIDE DEF u, v, o
<1>8. Len(Unparse[a]) = Len(u) + 1 + Len(o)
  <2>1. Len(u) \in Nat /\ Len(o) \in Nat BY <1>5, <1>7
  <2>2. u \o v \in Seq(Clear) /\ Len(u \o v) = Len(u) + Len(v) BY <1>5, <1>6, ConcatProperties
  <2> DEFINE x == u \o v
  <2>3. x \in Seq(Clear) BY <2>2
  <2>4. Len(x) = Len(u) + 1 BY <1>6, <2>2
  <2>5. Unparse[a] = x \o o BY <1>4
  <2> HIDE DEF x
  <2>6. Len(x \o o) = Len(x) + Len(o) BY <1>7, <2>3, ConcatProperties
  <2>7. QED BY <2>1, <2>4, <2>5, <2>6
<1>9. QED BY <1>7, <1>8 DEF u, o

\* Where the parts of an operator's text stand.
LEMMA BinopStands ==
  ASSUME NEW toks, NEW a \in Syntax, a.n = "binop", NEW p \in Nat, Stands(toks, p, Unparse[a]),
         NEW e, e = p + Len(Unparse[a.ch[1]]), NEW o, o = Operand(a.ch[2], Unparse[a.ch[2]])
  PROVE  /\ Stands(toks, p, Unparse[a.ch[1]]) /\ Peek(toks, e) = a.v /\ e \in 1 .. Len(toks)
         /\ Stands(toks, e + 1, o)
<1>n. p \in Nat OBVIOUS
<1> DEFINE b == a.ch[1]
           c == a.ch[2]
           u == Unparse[b]
           v == <<a.v>>
<1>1. Len(a.ch) = 2 /\ a.v \in {"+", "-", "*", "/", "<", ">"} /\ a.ch \in Seq(Syntax)
  <2>1. Writable(a) /\ a.ch \in Seq(Syntax) BY SyntaxTrees
  <2>2. QED BY <2>1 DEF Writable
<1>3. b \in Syntax /\ c \in Syntax
  <2>1. 1 \in DOMAIN a.ch /\ 2 \in DOMAIN a.ch BY <1>1
  <2>2. QED BY <2>1, ChildrenAre
<1>4. Unparse[a] = (u \o v) \o o BY SpelledIs
<1>5. u \in Seq(Clear) BY <1>3, UnparseType
<1>6. v \in Seq(Clear) /\ Len(v) = 1
  <2>1. a.v \in Clear BY <1>1, ClearWords
  <2>2. QED BY <2>1, TextOne
<1>7. o \in Seq(Clear) BY BinopLength
<1>v. \A q \in Nat : Stands(toks, q, v) => Peek(toks, q) = a.v /\ q \in 1 .. Len(toks) BY StandsOne
<1> HIDE DEF v
<1>8. Stands(toks, p, u) /\ Peek(toks, e) = a.v /\ e \in 1 .. Len(toks) /\ Stands(toks, e + 1, o)
  <2>0. e = p + Len(u) OBVIOUS
  <2> HIDE DEF u
  <2>1. Len(u) \in Nat /\ Len(o) \in Nat BY <1>5, <1>7
  <2> DEFINE x == u \o v
  <2>2. x \in Seq(Clear) /\ Len(x) = Len(u) + 1
    <3>1. x \in Seq(Clear) /\ Len(x) = Len(u) + Len(v) BY <1>5, <1>6, ConcatProperties
    <3>2. QED BY <1>6, <3>1
  <2>3. Stands(toks, p, x \o o) /\ Len(x \o o) = Len(x) + Len(o)
    <3>1. x \in Seq(Clear) BY <2>2
    <3>2. Unparse[a] = x \o o BY <1>4
    <3> HIDE DEF x
    <3>3. Len(x \o o) = Len(x) + Len(o) BY <1>7, <3>1, ConcatProperties
    <3>4. QED BY <3>2, <3>3
  <2>x. x \in Seq(Clear) BY <2>2
  <2>4. Stands(toks, p, x) /\ Stands(toks, p + Len(x), o)
    <3> HIDE DEF x
    <3>1. QED BY <1>n, <1>7, <2>x, <2>3, StandsParts
  <2>5. Stands(toks, p, u) /\ Stands(toks, e, v) BY <1>n, <1>5, <1>6, <2>0, <2>4, StandsParts
  <2>l. Len(x) = Len(u) + 1 BY <2>2
  <2>6. e \in Nat /\ p + Len(x) = e + 1
    <3> HIDE DEF x
    <3>1. QED BY <1>n, <2>0, <2>1, <2>l
  <2>7. Peek(toks, e) = a.v /\ e \in 1 .. Len(toks) BY <1>v, <2>5, <2>6
  <2>8. QED BY <2>4, <2>5, <2>6, <2>7
<1>9. QED BY <1>8

\* An operator between two trees: one more round of the loop of the first.
LEMMA BinopRead ==
  ASSUME NEW S, NEW toks \in Seq(S), NEW a \in Syntax, a.n = "binop",
         NEW p \in Positions(toks), Stands(toks, p, Unparse[a]),
         \A i \in DOMAIN a.ch : ReadBack(toks, a.ch[i])
  PROVE  AsChain(toks, a, p)
<1> SUFFICES ASSUME NEW R, Agrees(toks, R, p + 1)
             PROVE  \E m \in Nat : Loop(toks, Level0("parser", toks, R), Operators, "binop",
                        CallExpr("parser", toks, R, p))[m] = Got(a, p + Len(Unparse[a]))
  BY DEF AsChain
<1>n. p \in Nat /\ Len(toks) \in Nat BY DEF Positions
<1> DEFINE b == a.ch[1]
           c == a.ch[2]
           u == Unparse[b]
           o == Operand(c, Unparse[c])
           C == Level0("parser", toks, R)
           L == Loop(toks, C, Operators, "binop", CallExpr("parser", toks, R, p))
<1>1. /\ a = Node("binop", a.v, a.ch) /\ a.ch \in Seq(Syntax) /\ Len(a.ch) = 2
      /\ a.v \in {"+", "-", "*", "/", "<", ">"}
  <2>1. a = Node(a.n, a.v, a.ch) /\ Writable(a) /\ a.ch \in Seq(Syntax) BY SyntaxTrees
  <2>2. QED BY <2>1 DEF Writable
<1>2. 1 \in DOMAIN a.ch /\ 2 \in DOMAIN a.ch /\ a.ch = <<b, c>> BY <1>1
<1>3. b \in Syntax /\ c \in Syntax /\ ReadBack(toks, b) /\ ReadBack(toks, c) BY <1>2, ChildrenAre
<1> DEFINE e == p + Len(u)
<1>5. u \in Seq(Clear) BY <1>3, UnparseType
<1>8. Stands(toks, p, u) /\ Peek(toks, e) = a.v /\ e \in 1 .. Len(toks) /\ Stands(toks, e + 1, o)
      /\ p + Len(Unparse[a]) = e + 1 + Len(o)
  <2>1. Stands(toks, p, u) BY <1>n, BinopStands
  <2>2. Peek(toks, e) = a.v BY <1>n, BinopStands
  <2>3. e \in 1 .. Len(toks) BY <1>n, BinopStands
  <2>4. Stands(toks, e + 1, o) BY <1>n, BinopStands
  <2>5. p + Len(Unparse[a]) = e + 1 + Len(o)
    <3>1. Len(u) \in Nat BY <1>5
    <3>2. o \in Seq(Clear) /\ Len(Unparse[a]) = Len(u) + 1 + Len(o) BY BinopLength
    <3>3. Len(o) \in Nat BY <3>2
    <3> HIDE DEF u, o
    <3>4. QED BY <1>n, <3>1, <3>2, <3>3
  <2>6. QED BY <2>1, <2>2, <2>3, <2>4, <2>5
<1> HIDE DEF b, c
<1>9. AsChain(toks, b, p) BY <1>3, <1>8 DEF ReadBack
<1>10. PICK m \in Nat : L[m] = Got(b, e) BY <1>9 DEF AsChain
<1>11. L[m + 1] = MoreItems(toks, C, Operators, "binop", L[m]) BY LoopIs
<1>12. a.v \in Operators /\ toks[e] = a.v
  <2>1. a.v \in Operators BY <1>1 DEF Operators, Arithmetic
  <2>2. "EOF" \notin Operators BY DEF Operators, Arithmetic
  <2> HIDE DEF e
  <2>3. Peek(toks, e) # "EOF" BY <1>8, <2>1, <2>2
  <2>4. QED BY <1>8, <2>1, <2>3, PeekIn
<1>13. e + 1 \in Positions(toks) BY <1>8, <1>n DEF Positions
<1>14. C[e + 1] = Got(c, e + 1 + Len(o))
  <2>1. C[e + 1] = CallExpr("parser", toks, R, e + 1) BY <1>13 DEF Level0
  <2>2. Agrees(toks, R, (e + 1) + 1)
    <3>1. e + 1 \in Nat /\ (e + 1) + 1 \in Nat /\ p + 1 \in Nat /\ p + 1 <= (e + 1) + 1
      <4>1. Len(u) \in Nat BY <1>5
      <4> HIDE DEF u
      <4>2. QED BY <1>n, <4>1
    <3> HIDE DEF e
    <3>2. QED BY <3>1, AgreesOn
  <2> DEFINE f == e + 1
  <2> HIDE DEF C, e
  <2>3. CallExpr("parser", toks, R, f) = Got(c, f + Len(Operand(c, Unparse[c])))
    <3>1. f \in Positions(toks) /\ Agrees(toks, R, f + 1) BY <1>13, <2>2
    <3>2. Stands(toks, f, Operand(c, Unparse[c])) BY <1>8
    <3> HIDE DEF f
    <3>3. QED BY <1>3, <3>1, <3>2, OperandRead
  <2>4. QED BY <2>1, <2>3
<1> DEFINE z == e + 1 + Len(o)
           r == C[e + 1]
<1>15. r.ok /\ r.node = c /\ r.pos = z BY <1>14 DEF Got
<1>16. L[m].ok /\ L[m].node = b /\ L[m].pos = e BY <1>10 DEF Got
<1>17. MoreItems(toks, C, Operators, "binop", L[m]) = Got(Joined("binop", b, a.v, c), z)
  <2>1. C[L[m].pos + 1] = r BY <1>16
  <2> DEFINE l == L[m]
  <2> HIDE DEF L, C, e, z, r
  <2>2. Peek(toks, l.pos) \in Operators /\ toks[l.pos] = a.v BY <1>8, <1>12, <1>16
  <2>3. QED BY <1>15, <1>16, <2>1, <2>2 DEF MoreItems
<1>18. Joined("binop", b, a.v, c) = a
  <2>1. Joined("binop", b, a.v, c) = Node("binop", a.v, <<b, c>>) BY DEF Joined
  <2>2. QED BY <1>1, <1>2, <2>1 DEF b, c
<1>19. L[m + 1] = Got(a, p + Len(Unparse[a])) /\ m + 1 \in Nat BY <1>8, <1>11, <1>17, <1>18
<1>20. QED BY <1>19

\* A tree that is written out is read back.
LEMMA RoundTrip ==
  ASSUME NEW S, NEW toks \in Seq(S)
  PROVE  \A a \in Syntax : ReadBack(toks, a)
<1> DEFINE G == {a \in Syntax : ReadBack(toks, a)}
<1>1. ASSUME NEW a \in Syntax, \A b \in Syntax : Rank[b] < Rank[a] => b \in G PROVE a \in G
  <2>1. \A i \in DOMAIN a.ch : ReadBack(toks, a.ch[i]) BY <1>1, ChildrenAre
  <2> SUFFICES ASSUME NEW p \in Positions(toks), Stands(toks, p, Unparse[a])
               PROVE  AsOperand(toks, a, p) /\ AsChain(toks, a, p) /\ AsExpr(toks, a, p)
    BY DEF ReadBack
  <2>2. AsOperand(toks, a, p) BY <2>1, LeafRead, CallRead DEF AsOperand
  <2>3. AsChain(toks, a, p)
    <3>1. CASE a.n = "binop" BY <2>1, <3>1, BinopRead
    <3>2. CASE a.n # "binop" BY <2>2, <3>2, OperandChain
    <3>3. QED BY <3>1, <3>2
  <2>4. AsExpr(toks, a, p) BY <2>3, ChainExpr
  <2>5. QED BY <2>2, <2>3, <2>4
<1>2. Syntax \subseteq G
  <2> HIDE DEF G
  <2> QED BY <1>1, RankInduction
<1>3. QED BY <1>2

\* The children of a tree stand where the tree does, and a call has one at most.
LEMMA ChildrenStand ==
  ASSUME NEW toks, NEW a \in Syntax, NEW p \in Nat, Stands(toks, p, Unparse[a])
  PROVE  /\ a.n = "call" => Len(a.ch) = 0 \/ Len(a.ch) = 1
         /\ \A i \in DOMAIN a.ch : \E q \in Nat : Stands(toks, q, Unparse[a.ch[i]])
<1>0. a.ch \in Seq(Syntax) /\ Writable(a) BY SyntaxTrees
<1>1. CASE a.n = "call"
  <2>1. Len(a.ch) = 0 \/ Len(a.ch) = 1 BY <1>1, CallStands
  <2>2. ASSUME NEW i \in DOMAIN a.ch PROVE \E q \in Nat : Stands(toks, q, Unparse[a.ch[i]])
    <3>1. PICK n : n = Len(a.ch) OBVIOUS
    <3>1a. i \in 1 .. n /\ n \in Nat BY <1>0, <3>1
    <3>1b. n = 0 \/ n = 1 BY <2>1, <3>1
    <3>1c. n = 1 /\ i = 1 BY <3>1a, <3>1b
    <3>2. Len(a.ch) = 1 /\ i = 1 BY <3>1, <3>1c
    <3>3. Listed(a) = Unparse[a.ch[1]] BY <1>1, <3>2, CallStands
    <3>4. Stands(toks, p + 2, Listed(a)) BY <1>1, CallStands
    <3>5. p + 2 \in Nat OBVIOUS
    <3>6. QED BY <3>2, <3>3, <3>4, <3>5
  <2>3. QED BY <2>1, <2>2
<1>2. CASE a.n = "binop"
  <2> DEFINE b == a.ch[1]
             c == a.ch[2]
  <2>1. Len(a.ch) = 2 BY <1>0, <1>2 DEF Writable
  <2>2. 1 \in DOMAIN a.ch /\ 2 \in DOMAIN a.ch /\ DOMAIN a.ch = {1, 2} BY <1>0, <2>1
  <2>3. b \in Syntax /\ c \in Syntax BY <2>2, ChildrenAre
  <2>4. PICK e : e = p + Len(Unparse[b]) OBVIOUS
  <2>5. PICK o : o = Operand(c, Unparse[c]) OBVIOUS
  <2>6. Stands(toks, p, Unparse[b]) /\ Stands(toks, e + 1, o) /\ e \in 1 .. Len(toks)
    BY <1>2, <2>4, <2>5, BinopStands
  <2>7. e \in Nat
    <3>1. Unparse[b] \in Seq(Clear) BY <2>3, UnparseType
    <3>2. Len(Unparse[b]) \in Nat BY <3>1
    <3>3. QED BY <2>4, <3>2
  <2>8. \E q \in Nat : Stands(toks, q, Unparse[c])
    <3>1. e + 1 \in Nat /\ (e + 1) + 1 \in Nat BY <2>7
    <3>2. CASE c.n = "binop"
      <4>1. Stands(toks, e + 1, Operand(c, Unparse[c])) BY <2>5, <2>6
      <4>2. PICK f : f = e + 1 OBVIOUS
      <4>3. f \in Nat /\ Stands(toks, f, Operand(c, Unparse[c])) BY <3>1, <4>1, <4>2
      <4> HIDE DEF c
      <4>4. Stands(toks, f + 1, Unparse[c]) BY <2>3, <3>2, <4>3, OperandStands
      <4>5. f + 1 \in Nat BY <4>3
      <4>6. QED BY <4>4, <4>5
    <3>3. CASE c.n # "binop"
      <4>1. o = Unparse[c] BY <2>5, <3>3 DEF Operand
      <4>2. QED BY <2>6, <3>1, <4>1
    <3>4. QED BY <3>2, <3>3
  <2>9. ASSUME NEW i \in DOMAIN a.ch PROVE \E q \in Nat : Stands(toks, q, Unparse[a.ch[i]])
    <3>1. CASE i = 1 BY <2>6, <3>1
    <3>2. CASE i = 2 BY <2>8, <3>2
    <3>3. QED BY <2>2, <3>1, <3>2
  <2>10. QED BY <1>2, <2>9
<1>3. CASE a.n \notin {"call", "binop"}
  <2>1. a.ch = <<>> BY <1>0, <1>3 DEF Writable
  <2>2. DOMAIN a.ch = {} BY <2>1
  <2>3. QED BY <1>3, <2>2
<1>4. QED BY <1>1, <1>2, <1>3

NoComma(s) == \A i \in DOMAIN s : s[i] # ","

\* A text without a comma stands where it starts.
LEMMA StandsItself ==
  ASSUME NEW a \in Syntax, NEW u, u = Unparse[a], NoComma(u)
  PROVE  Stands(u, 1, u)
<1>1. u \in Seq(Clear) BY UnparseType
<1>2. DOMAIN u = 1 .. Len(u) /\ Len(u) \in Nat BY <1>1
<1>3. \A i \in 1 .. Len(u) : u[i] # "," BY <1>2 DEF NoComma
<1> SUFFICES ASSUME NEW i \in 1 .. Len(u)
             PROVE  1 + i - 1 \in 1 .. Len(u) /\ Peek(u, 1 + i - 1) = u[i] /\ u[i] # ","
  BY DEF Stands
<1>4. 1 + i - 1 = i BY <1>2
<1>5. QED BY <1>2, <1>3, <1>4 DEF Peek

\* Where no call has a second argument, all children are kept.
LEMMA DslSame ==
  ASSUME NEW toks
  PROVE  \A a \in Syntax : (\E p \in Nat : Stands(toks, p, Unparse[a])) =>
            ExprDsl(KeptChildren)[a] = ExprDsl(AllChildren)[a]
<1> DEFINE K == ExprDsl(KeptChildren)
           A == ExprDsl(AllChildren)
           Same(a) == (\E p \in Nat : Stands(toks, p, Unparse[a])) => K[a] = A[a]
           G == {a \in Syntax : Same(a)}
<1>k. \A a \in Syntax : KeptChildren[a] = IF a.n = "call" /\ a.ch # <<>> THEN <<a.ch[1]>> ELSE a.ch
  BY DEF KeptChildren
<1>a. \A a \in Syntax : AllChildren[a] = a.ch BY DEF AllChildren
<1>1. \A a \in Syntax : \A i \in DOMAIN KeptChildren[a] :
        KeptChildren[a][i] \in Syntax /\ Rank[KeptChildren[a][i]] < Rank[a]
  <2> TAKE a \in Syntax
  <2>0. a.ch \in Seq(Syntax) BY SyntaxTrees
  <2> TAKE i \in DOMAIN KeptChildren[a]
  <2>1. CASE a.n = "call" /\ a.ch # <<>>
    <3>1. KeptChildren[a] = <<a.ch[1]>> BY <1>k, <2>1
    <3>2. i = 1 BY <3>1
    <3>3. 1 \in DOMAIN a.ch BY <2>0, <2>1
    <3>4. a.ch[1] \in Syntax /\ Rank[a.ch[1]] < Rank[a] BY <3>3, ChildrenAre
    <3>5. QED BY <3>1, <3>2, <3>4
  <2>2. CASE ~(a.n = "call" /\ a.ch # <<>>)
    <3>1. KeptChildren[a] = a.ch BY <1>k, <2>2
    <3>2. QED BY <3>1, ChildrenAre
  <2>3. QED BY <2>1, <2>2
<1>2. \A a \in Syntax : \A i \in DOMAIN AllChildren[a] :
        AllChildren[a][i] \in Syntax /\ Rank[AllChildren[a][i]] < Rank[a]
  BY <1>a, ChildrenAre
<1>3. \A a \in Syntax : K[a] = Entry(a.n, a.v, [i \in DOMAIN KeptChildren[a] |-> K[KeptChildren[a][i]]])
  <2> HIDE DEF K
  <2> QED BY <1>1, DslIs DEF K
<1>4. \A a \in Syntax : A[a] = Entry(a.n, a.v, [i \in DOMAIN AllChildren[a] |-> A[AllChildren[a][i]]])
  <2> HIDE DEF A
  <2> QED BY <1>2, DslIs DEF A
<1> HIDE DEF K, A
<1>5. ASSUME NEW a \in Syntax, \A b \in Syntax : Rank[b] < Rank[a] => b \in G PROVE a \in G
  <2> SUFFICES ASSUME NEW p \in Nat, Stands(toks, p, Unparse[a]) PROVE K[a] = A[a] OBVIOUS
  <2>0. a.ch \in Seq(Syntax) BY SyntaxTrees
  <2>1. /\ a.n = "call" => Len(a.ch) = 0 \/ Len(a.ch) = 1
        /\ \A i \in DOMAIN a.ch : \E q \in Nat : Stands(toks, q, Unparse[a.ch[i]])
    BY ChildrenStand
  <2>2. KeptChildren[a] = a.ch
    <3>1. CASE a.n = "call" /\ a.ch # <<>>
      <4>1. Len(a.ch) = 1 BY <2>0, <2>1, <3>1
      <4>2. a.ch = <<a.ch[1]>> BY <2>0, <4>1
      <4>3. QED BY <1>k, <3>1, <4>2
    <3>2. CASE ~(a.n = "call" /\ a.ch # <<>>) BY <1>k, <3>2
    <3>3. QED BY <3>1, <3>2
  <2>3. \A i \in DOMAIN a.ch : K[a.ch[i]] = A[a.ch[i]] BY <1>5, <2>1, ChildrenAre
  <2>4. [i \in DOMAIN a.ch |-> K[a.ch[i]]] = [i \in DOMAIN a.ch |-> A[a.ch[i]]] BY <2>3
  <2>5. K[a] = Entry(a.n, a.v, [i \in DOMAIN a.ch |-> K[a.ch[i]]]) BY <1>3, <2>2
  <2>6. A[a] = Entry(a.n, a.v, [i \in DOMAIN a.ch |-> A[a.ch[i]]]) BY <1>4, <1>a
  <2>7. QED BY <2>4, <2>5, <2>6
<1>6. Syntax \subseteq G
  <2> HIDE DEF G
  <2> QED BY <1>5, RankInduction
<1>7. \A a \in Syntax : Same(a)
  <2> HIDE DEF Same
  <2> QED BY <1>6
<1>8. QED BY <1>7 DEF K, A

\* A tree that is written out is read back from its program.
LEMMA TreeRead ==
  ASSUME NEW a \in Syntax, NEW t, t = Unparse[a], NoComma(t)
  PROVE  /\ ParseString(Frame(t)).ok
         /\ ParseString(Frame(t)).node =
              Node("program", "none", <<FunctionNode("f", Node("int", "1", <<>>), a)>>)
<1> DEFINE toks == Frame(t)
           N == Len(toks)
<1>1. t \in Seq(Clear) BY UnparseType
<1>2. \A i \in DOMAIN t : t[i] # "," BY DEF NoComma
<1>n. Len(t) \in Nat /\ DOMAIN t = 1 .. Len(t) BY <1>1
<1>3. \A i \in 1 .. Len(t) : t[i] \in Clear BY <1>1
<1>4. t \in Seq(Plain) /\ \A i \in DOMAIN t : t[i] # "def"
  <2>1. Clear \subseteq Plain /\ "def" \notin Clear BY ClearWords
  <2>2. t \in Seq(Plain)
    <3>1. Seq(Plain) = UNION {[1 .. n -> Plain] : n \in Nat} BY SeqDef
    <3>2. t \in [1 .. Len(t) -> Clear] BY <1>1
    <3>3. t \in [1 .. Len(t) -> Plain] BY <2>1, <3>2
    <3>4. QED BY <1>n, <3>1, <3>3
  <2>3. QED BY <1>3, <1>n, <2>1, <2>2
<1>5. toks \in Seq(Plain) /\ N = 13 + Len(t) /\ \A j \in 1 .. Len(t) : toks[13 + j] = t[j]
  BY <1>4, FrameIs
<1>6. /\ ParseString(toks).ok <=> Expr("parser", toks)[14].ok /\ Expr("parser", toks)[14].pos > N
      /\ ParseString(toks).ok => ParseString(toks).node =
           Node("program", "none", <<FunctionNode("f", Node("int", "1", <<>>), Expr("parser", toks)[14].node)>>)
  BY <1>4, ParseFrame
<1> HIDE DEF toks
<1>t. toks \in Seq(Plain) BY <1>5
<1>7. DOMAIN toks = 1 .. N /\ N \in Nat BY <1>t
<1>8. Stands(toks, 14, t)
  <2> SUFFICES ASSUME NEW i \in 1 .. Len(t)
               PROVE  14 + i - 1 \in 1 .. N /\ Peek(toks, 14 + i - 1) = t[i] /\ t[i] # ","
    BY DEF Stands
  <2>1. 14 + i - 1 = 13 + i /\ 13 + i \in 1 .. N BY <1>5, <1>n
  <2>2. QED BY <1>2, <1>5, <1>7, <1>n, <2>1 DEF Peek
<1>9. 14 \in Positions(toks) BY <1>5, <1>7, <1>n DEF Positions
<1>10. AsExpr(toks, a, 14)
  <2>1. ReadBack(toks, a) BY <1>t, RoundTrip
  <2>2. QED BY <1>8, <1>9, <2>1 DEF ReadBack
<1>11. Peek(toks, 14 + Len(t)) = "EOF"
  <2>1. 14 + Len(t) \notin 1 .. N BY <1>5, <1>n
  <2>2. QED BY <1>7, <2>1 DEF Peek
<1>12. "EOF" \notin Operators BY DEF Operators, Arithmetic
<1>13. Expr("parser", toks)[14] = Got(a, 14 + Len(t)) BY <1>10, <1>11, <1>12 DEF AsExpr
<1>14. Expr("parser", toks)[14].ok /\ Expr("parser", toks)[14].node = a
       /\ Expr("parser", toks)[14].pos > N
  <2>1. 14 + Len(t) > N BY <1>5, <1>n
  <2>2. QED BY <1>13, <2>1 DEF Got
<1>15. /\ ParseString(toks).ok
       /\ ParseString(toks).node = Node("program", "none", <<FunctionNode("f", Node("int", "1", <<>>), a)>>)
  BY <1>6, <1>14
<1>16. QED BY <1>15 DEF toks

-----------------------------------------------------------------------------
(* The jobs that are texts or trees.                                       *)

\* What a text job has come to is what parse_string() makes of its text, and
\* ast_to_dsl() of that.
ParseInv ==
  /\ job.kind = "text" => job.text \in Programs
  /\ job.kind = "tree" => job.tree \in Syntax /\ job.text = Unparse[job.tree]
  /\ stage \in {"parsed", "unparsed", "converted"} =>
       (stage # "unparsed" <=> ParseString(Frame(job.text)).ok)
  /\ stage = "parsed" => out = ParseString(Frame(job.text)).node
  /\ stage = "converted" => out = ToDsl(ParseString(Frame(job.text)).node)

LEMMA ParseInvHolds == ToolSpec => []ParseInv
<1>1. ToolInit => ParseInv
  <2> SUFFICES ASSUME ToolInit PROVE ParseInv OBVIOUS
  <2>1. stage = "given" BY DEF ToolInit
  <2>2. CASE job \in Classes
    <3>1. job.kind = "class" BY <2>2, ClassesGiven
    <3>2. QED BY <2>1, <3>1 DEF ParseInv
  <2>3. CASE \E t \in Programs : job = [kind |-> "text", text |-> t]
    <3>1. job.kind = "text" /\ job.text \in Programs BY <2>3
    <3>2. QED BY <2>1, <3>1 DEF ParseInv
  <2>4. CASE \E a \in Syntax : job = [kind |-> "tree", tree |-> a, text |-> Unparse[a]]
    <3>1. job.kind = "tree" /\ job.tree \in Syntax /\ job.text = Unparse[job.tree] BY <2>4
    <3>2. QED BY <2>1, <3>1 DEF ParseInv
  <2>5. QED BY <2>2, <2>3, <2>4 DEF ToolInit
<1>2. ParseInv /\ [ToolNext]_toolVars => ParseInv'
  <2> SUFFICES ASSUME ParseInv, [ToolNext]_toolVars PROVE ParseInv' OBVIOUS
  <2> USE DEF ParseInv
  <2>1. CASE Decorate BY <2>1 DEF Decorate, Refuse
  <2>2. CASE Construct BY <2>2 DEF Construct
  <2>3. CASE Generate BY <2>3 DEF Generate
  <2>4. CASE Parse
    <3> DEFINE r == ParseString(Frame(job.text))
    <3>1. UNCHANGED job BY <2>4 DEF Parse
    <3>2. (r.ok /\ stage' = "parsed" /\ out' = r.node) \/ (~r.ok /\ stage' = "unparsed")
      BY <2>4 DEF Parse
    <3>3. QED BY <3>1, <3>2
  <2>5. CASE Convert BY <2>5 DEF Convert
  <2>6. CASE UNCHANGED toolVars BY <2>6 DEF toolVars
  <2>7. QED BY <2>1, <2>2, <2>3, <2>4, <2>5, <2>6 DEF ToolNext
<1>3. QED BY <1>1, <1>2, PTL DEF ToolSpec

\* For every set of texts: one that both understand alike is read by the
\* fallback parser as the grammar file reads it, if it is one expression there,
\* and refused otherwise.
THEOREM TextsFollowGrammar == ToolSpec => []FollowsGrammar
<1>1. ParseInv => FollowsGrammar
  <2> SUFFICES ASSUME ParseInv, job.kind = "text", stage \in {"parsed", "unparsed"},
                      PlainText(job.text), ArithmeticFirst(job.text),
                      NEW s, s = Stmts(Frame(job.text), 14),
                      NEW one, one = (s.ok /\ OneExpression(s.node))
               PROVE  /\ (stage = "parsed") = one
                      /\ one => s.node[1].ch = <<Body(out)>>
    BY DEF FollowsGrammar
  <2>1. PICK t \in Programs : t = job.text BY DEF ParseInv
  <2> DEFINE g == Expr("grammar", Frame(t))[14]
             r == ParseString(Frame(t))
  <2>2. /\ t \in Seq(Plain) /\ \A i \in DOMAIN t : t[i] # "def"
        /\ Expr("parser", Frame(t))[14] = g
    BY <2>1, TextSame
  <2>3. /\ r.ok <=> g.ok /\ g.pos > Len(Frame(t))
        /\ r.ok => r.node = Node("program", "none", <<FunctionNode("f", Node("int", "1", <<>>), g.node)>>)
    BY <2>2, ParseFrame
  <2>4. (stage = "parsed" <=> r.ok) /\ (stage = "parsed" => out = r.node) BY <2>1 DEF ParseInv
  <2>5. /\ one <=> g.ok /\ g.pos > Len(Frame(t))
        /\ one => s.node[1].ch = <<g.node>>
    <3>1. Frame(t) \in Seq(Plain) /\ Len(Frame(t)) = 13 + Len(t) BY <2>2, FrameIs
    <3>2. 14 \in Positions(Frame(t)) /\ 14 >= 2
      <4>1. Len(t) \in Nat BY <2>2
      <4>2. QED BY <3>1, <4>1 DEF Positions
    <3>3. QED BY <2>1, <2>2, <3>1, <3>2, OneStatement
  <2> HIDE DEF r, g
  <2>6. (stage = "parsed") <=> one BY <2>3, <2>4, <2>5
  <2>7. ASSUME r.ok PROVE Body(out) = g.node
    <3>1. out = Node("program", "none", <<FunctionNode("f", Node("int", "1", <<>>), g.node)>>)
      BY <2>3, <2>4, <2>7
    <3>2. QED BY <3>1 DEF Body, Node, FunctionNode
  <2>8. one \in BOOLEAN BY DEF OneExpression
  <2>9. (stage = "parsed") = one BY <2>6, <2>8
  <2>10. QED BY <2>3, <2>5, <2>7, <2>9
<1>2. QED BY <1>1, ParseInvHolds, PTL

\* For every set of trees: one that is written out is read back, and the tree of
\* ast_to_dsl() is the whole of it unless a call has a second argument.
THEOREM TreesAreKept == ToolSpec => []DslKeepsTree
<1>1. ParseInv => DslKeepsTree
  <2> SUFFICES ASSUME ParseInv, job.kind = "tree", stage \in {"parsed", "unparsed", "converted"},
                      NoComma(job.text)
               PROVE  /\ stage # "unparsed"
                      /\ stage = "parsed" => Body(out) = job.tree
                      /\ stage = "converted" =>
                           out.sub[1].sub[2].sub[1] = ExprDsl(AllChildren)[job.tree]
    BY DEF DslKeepsTree, NoComma
  <2>1. PICK a \in Syntax : a = job.tree /\ job.text = Unparse[a] BY DEF ParseInv
  <2>t. PICK t : t = Unparse[a] /\ t = job.text /\ NoComma(t) BY <2>1
  <2>f. PICK f : f = FunctionNode("f", Node("int", "1", <<>>), a) OBVIOUS
  <2>r. PICK r : r = ParseString(Frame(t)) OBVIOUS
  <2>x. PICK x : x = r.node OBVIOUS
  <2>2. r.ok /\ x = Node("program", "none", <<f>>) BY <2>t, <2>f, <2>r, <2>x, TreeRead
  <2>3. /\ stage # "unparsed" <=> r.ok
        /\ stage = "parsed" => out = x
        /\ stage = "converted" => out = ToDsl(x)
    BY <2>t, <2>r, <2>x DEF ParseInv
  <2>4. 1 \in DOMAIN x.ch /\ x.ch[1] = f
    <3>1. PICK ch : ch = <<f>> OBVIOUS
    <3>2. x.ch = ch BY <2>2, <3>1 DEF Node
    <3>3. 1 \in DOMAIN ch /\ ch[1] = f BY <3>1
    <3>4. QED BY <3>2, <3>3
  <2>5. PICK part : part = Node("compute", "none", <<a>>) OBVIOUS
  <2>6. f.ch[2] = part /\ part.ch[1] = a BY <2>f, <2>5 DEF FunctionNode, Node
  <2>7. Body(x) = a BY <2>4, <2>6 DEF Body
  <2>8. ToDsl(x).sub[1].sub[2].sub[1] = ExprDsl(KeptChildren)[a]
    <3>1. ToDsl(x).sub = [i \in DOMAIN x.ch |-> FunctionDsl(x.ch[i])] BY DEF ToDsl, Entry
    <3>3. ToDsl(x).sub[1] = FunctionDsl(f) BY <2>4, <3>1
    <3>4. FunctionDsl(f).sub[2] = PartDsl(part) BY <2>6 DEF FunctionDsl, Entry
    <3>5. PartDsl(part).sub[1] = ExprDsl(KeptChildren)[a] BY <2>6 DEF PartDsl, Entry
    <3>6. QED BY <3>3, <3>4, <3>5
  <2>9. ExprDsl(KeptChildren)[a] = ExprDsl(AllChildren)[a]
    <3>1. Stands(t, 1, t) BY <2>t, StandsItself
    <3>2. 1 \in Nat /\ Stands(t, 1, Unparse[a]) BY <2>t, <3>1
    <3>3. QED BY <3>2, DslSame
  <2>10. QED BY <2>1, <2>2, <2>3, <2>7, <2>8, <2>9
<1>2. QED BY <1>1, ParseInvHolds, PTL

-----------------------------------------------------------------------------
(* The cache.                                                              *)

\* All processes compile with the same flags.
OneFlags == \A c, d \in Configs : c = d

USE DEF Goto, Busy

LEMMA InitTypeOK == Init => TypeOK
BY DEF Init, TypeOK

LEMMA NextTypeOK == TypeOK /\ [Next]_vars => TypeOK'
<1> SUFFICES ASSUME TypeOK, [Next]_vars PROVE TypeOK'
  OBVIOUS
<1> USE NoneDistinct DEF TypeOK
<1>1. ASSUME NEW p \in Procs, Start(p) PROVE TypeOK'
  BY <1>1 DEF Start
<1>2. ASSUME NEW p \in Procs, Crash(p) PROVE TypeOK'
  <2>1. manifest' \subseteq Codes /\ recorded' \subseteq Codes
    BY <1>2 DEF Crash, SaveBroken
  <2>2. orphans' \subseteq [code : Codes, config : Configs, at : {"compile", "link"}]
    BY <1>2 DEF Crash, Gcc
  <2>3. disturbed' \in BOOLEAN
    BY <1>2 DEF Crash
  <2>4. pc' = [pc EXCEPT ![p] = "down"] /\ code' = [code EXCEPT ![p] = None]
        /\ UNCHANGED <<file, config, known>>
    BY <1>2 DEF Crash
  <2> QED
    BY <2>1, <2>2, <2>3, <2>4
<1>3. ASSUME NEW p \in Procs, Lookup(p) PROVE TypeOK'
  BY <1>3 DEF Lookup
<1>4. ASSUME NEW p \in Procs, LinkBegin(p) PROVE TypeOK'
  BY <1>4 DEF LinkBegin
<1>5. ASSUME NEW p \in Procs, LinkEnd(p) PROVE TypeOK'
  BY <1>5 DEF LinkEnd
<1>6. ASSUME NEW p \in Procs, CompileFails(p) PROVE TypeOK'
  <2>1. file' \in [Codes -> {"none", "partial"} \cup Configs]
    BY <1>6 DEF CompileFails
  <2>2. orphans' \subseteq [code : Codes, config : Configs, at : {"compile", "link"}]
    BY <1>6 DEF CompileFails, Gcc
  <2>3. pc' = [pc EXCEPT ![p] = "idle"] /\ code' = [code EXCEPT ![p] = None]
        /\ UNCHANGED <<manifest, config, known, recorded, disturbed>>
    BY <1>6 DEF CompileFails
  <2>4. config[p] \in Configs
    BY <1>6 DEF CompileFails
  <2> QED
    BY <2>1, <2>2, <2>3, <2>4
<1>7. ASSUME NEW p \in Procs, Store(p) PROVE TypeOK'
  BY <1>7 DEF Store
<1>8. ASSUME NEW p \in Procs, Save(p) \/ SaveRaises(p) PROVE TypeOK'
  BY <1>8 DEF Save, SaveRaises, SaveBroken
<1>9. ASSUME NEW p \in Procs, Return(p) PROVE TypeOK'
  BY <1>9 DEF Return
<1>10. ASSUME NEW p \in Procs, ClearBegin(p) PROVE TypeOK'
  BY <1>10 DEF ClearBegin
<1>11. ASSUME NEW p \in Procs, ClearFile(p) PROVE TypeOK'
  BY <1>11 DEF ClearFile
<1>12. ASSUME NEW p \in Procs, ClearFilesDone(p) PROVE TypeOK'
  BY <1>12 DEF ClearFilesDone
<1>13. ASSUME NEW p \in Procs, ClearForget(p) PROVE TypeOK'
  BY <1>13 DEF ClearForget
<1>14. ASSUME NEW p \in Procs, ClearRaises(p) PROVE TypeOK'
  BY <1>14 DEF ClearRaises, InClear
<1>15. ASSUME NEW o \in orphans, OrphanLinks(o) \/ OrphanEnds(o) PROVE TypeOK'
  <2>1. orphans' \subseteq [code : Codes, config : Configs, at : {"compile", "link"}]
    BY <1>15 DEF OrphanLinks, OrphanEnds
  <2>2. file' \in [Codes -> {"none", "partial"} \cup Configs]
    BY <1>15 DEF OrphanLinks, OrphanEnds
  <2>3. UNCHANGED <<manifest, pc, code, config, known, recorded, disturbed>>
    BY <1>15 DEF OrphanLinks, OrphanEnds
  <2> QED
    BY <2>1, <2>2, <2>3
<1>16. CASE UNCHANGED vars
  BY <1>16 DEF vars
<1> QED
  BY <1>1, <1>2, <1>3, <1>4, <1>5, <1>6, <1>7, <1>8, <1>9, <1>10, <1>11, <1>12,
     <1>13, <1>14, <1>15, <1>16 DEF Next, Step

-----------------------------------------------------------------------------
(* What a process finds on the disk, no other process changes, and the     *)
(* orphans write other programs.                                           *)

\* The invariant speaks of the one process that runs.
LEMMA OneProcess ==
  ASSUME NEW p \in Procs, \A q \in Procs : q # p => pc'[q] = "down", pc'[p] # "down",
         CacheOf(p)', recorded' \subseteq manifest', NoOrphanOf(manifest)'
  PROVE  CacheKept'
BY DEF CacheKept, Alone

LEMMA NoProcess ==
  ASSUME \A q \in Procs : pc'[q] = "down", recorded' \subseteq manifest',
         NoOrphanOf(manifest)', Complete(manifest)'
  PROVE  CacheKept'
BY DEF CacheKept, Alone

\* A step of the process that runs, other than its end.
LEMMA ProcessKeeps ==
  ASSUME TypeOK, CacheKept, NEW p \in Procs, pc[p] # "down", ~disturbed, ~disturbed',
         Step(p), ~Crash(p), ~ClearForget(p)
  PROVE  CacheOf(p)' /\ recorded' \subseteq manifest' /\ NoOrphanOf(manifest)'
<1> USE NoneDistinct, ConfigsApart DEF TypeOK, CacheOf, InClear, Complete, NoOrphanOf
<1>0. CacheOf(p) /\ recorded \subseteq manifest /\ NoOrphanOf(manifest)
  BY DEF CacheKept
<1>1. CASE Lookup(p) BY <1>0, <1>1 DEF Lookup
<1>2. CASE LinkBegin(p) BY <1>0, <1>2 DEF LinkBegin
<1>3. CASE LinkEnd(p) BY <1>0, <1>3 DEF LinkEnd
<1>4. CASE CompileFails(p)
  <2>1. pc[p] \in {"compile", "link"} /\ pc' = [pc EXCEPT ![p] = "idle"]
        /\ UNCHANGED <<manifest, known, recorded>>
    BY <1>4 DEF CompileFails
  <2>2. \A k \in known[p] : file'[k] = file[k]
    BY <1>0, <1>4, <2>1 DEF CompileFails
  <2>3. \A o \in orphans' : o \in orphans \/ o.code = code[p]
    BY <1>4 DEF CompileFails, Gcc
  <2>4. QED BY <1>0, <2>1, <2>2, <2>3
<1>5. CASE Store(p) BY <1>0, <1>5 DEF Store
<1>6. CASE Save(p) BY <1>0, <1>6 DEF Save
<1>7. CASE SaveRaises(p) BY <1>0, <1>7 DEF SaveRaises, SaveBroken
<1>8. CASE Return(p) BY <1>0, <1>8 DEF Return
<1>9. CASE ClearBegin(p) BY <1>0, <1>9 DEF ClearBegin
<1>10. CASE ClearFile(p) BY <1>0, <1>10 DEF ClearFile
<1>11. CASE ClearFilesDone(p) BY <1>0, <1>11 DEF ClearFilesDone
<1>12. CASE ClearRaises(p) BY <1>12 DEF ClearRaises
<1>13. CASE Start(p) BY <1>13 DEF Start
<1>14. QED
  BY <1>1, <1>2, <1>3, <1>4, <1>5, <1>6, <1>7, <1>8, <1>9, <1>10, <1>11, <1>12, <1>13
  DEF Step

LEMMA StepMoves ==
  ASSUME TypeOK, NEW p \in Procs, Step(p)
  PROVE  /\ \A q \in Procs : q # p => pc'[q] = pc[q]
         /\ ~Start(p) => pc[p] # "down"
         /\ ~Crash(p) => pc'[p] # "down"
         /\ ~ClearForget(p) => (disturbed => disturbed')
<1> USE DEF TypeOK, InClear
<1>1. \A q \in Procs : q # p => pc'[q] = pc[q]
  BY DEF Step, Start, Crash, Lookup, LinkBegin, LinkEnd, CompileFails, Store, Save,
         SaveRaises, Return, ClearBegin, ClearFile, ClearFilesDone, ClearForget, ClearRaises
<1>2. ~Start(p) => pc[p] # "down"
  BY DEF Step, Crash, Lookup, LinkBegin, LinkEnd, CompileFails, Store, Save, SaveRaises,
         Return, ClearBegin, ClearFile, ClearFilesDone, ClearForget, ClearRaises
<1>3. ~Crash(p) => pc'[p] # "down"
  BY DEF Step, Start, Lookup, LinkBegin, LinkEnd, CompileFails, Store, Save, SaveRaises,
         Return, ClearBegin, ClearFile, ClearFilesDone, ClearForget, ClearRaises
<1>4. ~ClearForget(p) => (disturbed => disturbed')
  BY DEF Step, Start, Crash, Lookup, LinkBegin, LinkEnd, CompileFails, Store, Save,
         SaveRaises, Return, ClearBegin, ClearFile, ClearFilesDone, ClearRaises
<1>5. QED BY <1>1, <1>2, <1>3, <1>4

LEMMA NextCacheInv ==
  ASSUME TypeOK, CacheInv, [Next]_vars
  PROVE  CacheInv'
<1> SUFFICES ASSUME ~disturbed' PROVE CacheKept'
  BY DEF CacheInv
<1> USE NoneDistinct, ConfigsApart
<1>1. ASSUME NEW p \in Procs, ClearForget(p) PROVE CacheKept'
  <2>1. Alone
    BY <1>1 DEF ClearForget, CacheInv, CacheKept
  <2>2. pc[p] = "forget" /\ pc' = [pc EXCEPT ![p] = "idle"]
        /\ known' = [known EXCEPT ![p] = {}] /\ manifest' = {} /\ recorded' = {}
    BY <1>1 DEF ClearForget
  <2>3. \A q \in Procs : q # p => pc'[q] = "down"
    BY <2>1, <2>2 DEF Alone, TypeOK
  <2>4. CacheOf(p)' /\ pc'[p] # "down" /\ NoOrphanOf(manifest)'
    BY <2>2 DEF CacheOf, InClear, Complete, NoOrphanOf, TypeOK
  <2>5. QED BY <2>2, <2>3, <2>4, OneProcess
<1>2. ASSUME NEW p \in Procs, Step(p), ~ClearForget(p) PROVE CacheKept'
  <2>1. ~disturbed /\ CacheKept
    BY <1>2, StepMoves DEF CacheInv
  <2>2. CASE Start(p)
    <3>1. \A q \in Procs : pc[q] = "down"
      BY <2>2 DEF Start
    <3>2. Complete(manifest) /\ recorded \subseteq manifest /\ NoOrphanOf(manifest)
      BY <2>1, <3>1 DEF CacheKept
    <3>3. pc' = [pc EXCEPT ![p] = "idle"] /\ known' = [known EXCEPT ![p] = manifest]
          /\ UNCHANGED <<file, manifest, orphans, recorded>>
      BY <2>2 DEF Start
    <3>4. CacheOf(p)' /\ pc'[p] # "down" /\ NoOrphanOf(manifest)'
      BY <3>2, <3>3 DEF CacheOf, InClear, Complete, NoOrphanOf, TypeOK
    <3>5. \A q \in Procs : q # p => pc'[q] = "down"
      BY <3>1, <3>3 DEF TypeOK
    <3>6. QED BY <3>2, <3>3, <3>4, <3>5, OneProcess
  <2>3. CASE ~Start(p)
    <3>1. pc[p] # "down" /\ \A q \in Procs : q # p => pc'[q] = "down"
      BY <1>2, <2>1, <2>3, StepMoves DEF CacheKept, Alone
    <3>2. CASE Crash(p)
      <4>1. \A q \in Procs : pc'[q] = "down"
        BY <3>1, <3>2 DEF Crash, TypeOK
      <4>2. CacheOf(p) /\ recorded \subseteq manifest /\ NoOrphanOf(manifest)
        BY <2>1, <3>1 DEF CacheKept
      <4>3. ~InClear(p) /\ file' = file
        BY <3>2 DEF Crash
      <4>4. manifest' \subseteq known[p] /\ recorded' \subseteq manifest'
        BY <3>2, <4>2 DEF Crash, SaveBroken, CacheOf
      <4>5. \A o \in orphans' :
              o \in orphans \/ (pc[p] \in {"compile", "link"} /\ o.code = code[p])
        BY <3>2 DEF Crash, Gcc
      <4>6. Complete(manifest)' /\ NoOrphanOf(manifest)'
        BY <4>2, <4>3, <4>4, <4>5 DEF CacheOf, Complete, NoOrphanOf
      <4>7. QED BY <4>1, <4>4, <4>6, NoProcess
    <3>3. CASE ~Crash(p)
      <4>1. CacheOf(p)' /\ recorded' \subseteq manifest' /\ NoOrphanOf(manifest)'
        BY <1>2, <2>1, <3>1, <3>3, ProcessKeeps
      <4>2. pc'[p] # "down"
        BY <1>2, <3>3, StepMoves
      <4>3. QED BY <3>1, <4>1, <4>2, OneProcess
    <3>4. QED BY <3>2, <3>3
  <2>4. QED BY <2>2, <2>3
<1>3. ASSUME NEW o \in orphans, OrphanLinks(o) \/ OrphanEnds(o) PROVE CacheKept'
  <2>1. ~disturbed /\ UNCHANGED <<manifest, pc, code, known, recorded>>
    BY <1>3 DEF OrphanLinks, OrphanEnds
  <2>2. CacheKept
    BY <2>1 DEF CacheInv
  <2>3. \A k \in Codes : k # o.code => file'[k] = file[k]
    BY <1>3 DEF OrphanLinks, OrphanEnds, TypeOK
  <2>4. \A n \in orphans' : \E m \in orphans : n.code = m.code
    BY <1>3 DEF OrphanLinks, OrphanEnds, TypeOK
  <2>5. ASSUME NEW ks \in SUBSET Codes, NoOrphanOf(ks)
        PROVE  NoOrphanOf(ks)' /\ (Complete(ks) => Complete(ks)')
    BY <2>3, <2>4, <2>5 DEF NoOrphanOf, Complete
  <2>6. NoOrphanOf(manifest)' /\ (Complete(manifest) => Complete(manifest)')
    BY <2>1, <2>2, <2>5 DEF CacheKept, TypeOK, NoOrphanOf, Complete
  <2>7. ASSUME NEW p \in Procs, pc[p] # "down" PROVE CacheOf(p)'
    <3>1. CacheOf(p)
      BY <2>2, <2>7 DEF CacheKept
    <3>2. NoOrphanOf(known[p])' /\ (Complete(known[p]) => Complete(known[p])')
      BY <2>1, <2>5, <3>1 DEF CacheOf, TypeOK, NoOrphanOf, Complete
    <3>3. ASSUME pc[p] \in Busy
          PROVE  NoOrphanOf({code[p]})' /\ (Complete({code[p]}) => Complete({code[p]})')
      <4>1. {code[p]} \in SUBSET Codes /\ NoOrphanOf({code[p]})
        BY <3>1, <3>3 DEF CacheOf, TypeOK
      <4>2. QED BY <2>1, <2>5, <4>1 DEF NoOrphanOf, Complete
    <3>4. QED BY <2>1, <3>1, <3>2, <3>3 DEF CacheOf, InClear
  <2>8. QED BY <2>1, <2>2, <2>6, <2>7 DEF CacheKept, Alone
<1>4. CASE UNCHANGED vars
  BY <1>4 DEF vars, CacheInv, CacheKept, CacheOf, Alone, InClear, Complete, NoOrphanOf
<1> QED
  BY <1>1, <1>2, <1>3, <1>4 DEF Next

LEMMA InitCacheInv == Init => CacheInv
BY DEF Init, CacheInv, CacheKept, Alone, Complete, NoOrphanOf

LEMMA InvRight == OneFlags /\ TypeOK /\ CacheInv => RightBinary
BY DEF OneFlags, TypeOK, CacheInv, CacheKept, CacheOf, Complete, RightBinary

NotTwiceStep ==
  \A p \in Procs :
    pc[p] = "idle" /\ pc'[p] = "compile" /\ ~disturbed' => code'[p] \notin recorded

LEMMA StepNotTwice ==
  ASSUME TypeOK, CacheInv, [Next]_vars
  PROVE  NotTwiceStep
<1> SUFFICES ASSUME NEW p \in Procs, pc[p] = "idle", pc'[p] = "compile", ~disturbed'
             PROVE code'[p] \notin recorded
  BY DEF NotTwiceStep
<1>1. Lookup(p)
  BY DEF Next, Step, TypeOK, vars, Start, Crash, Lookup, LinkBegin, LinkEnd, CompileFails,
         Store, Save, SaveRaises, Return, ClearBegin, ClearFile, ClearFilesDone, ClearForget,
         ClearRaises, OrphanLinks, OrphanEnds, InClear
<1>2. CacheKept
  BY <1>1 DEF Lookup, CacheInv
<1>3. Complete(known[p]) /\ recorded \subseteq known[p]
  BY <1>2 DEF CacheKept, CacheOf, InClear
<1> QED
  BY <1>1, <1>3, ConfigsApart DEF Lookup, TypeOK, Complete

-----------------------------------------------------------------------------
\* The cache is type-correct, whatever overlaps, dies or fails.
THEOREM Typing == Spec => []TypeOK
<1> QED
  BY InitTypeOK, NextTypeOK, PTL DEF Spec

\* When all processes have the same flags, get_or_compile() returns a complete binary,
\* after any sequence of kills, failures, timeouts and restarts that does not disturb
\* the cache, and whatever g++ goes on behind it.
THEOREM Right == OneFlags => (Spec => []RightBinary)
<1> SUFFICES ASSUME OneFlags PROVE Spec => []RightBinary
  OBVIOUS
<1>1. TypeOK /\ CacheInv /\ [Next]_vars => TypeOK' /\ CacheInv'
  BY NextTypeOK, NextCacheInv
<1>2. TypeOK /\ CacheInv => RightBinary
  BY InvRight
<1> QED
  BY InitTypeOK, InitCacheInv, <1>1, <1>2, PTL DEF Spec

\* As long as nothing disturbs the cache, no recorded program is compiled again,
\* whatever the flags.
THEOREM Once == Spec => NotCompiledTwice
<1>1. TypeOK /\ CacheInv /\ [Next]_vars => TypeOK' /\ CacheInv'
  BY NextTypeOK, NextCacheInv
<1>2. TypeOK /\ CacheInv /\ [Next]_vars => NotTwiceStep
  BY StepNotTwice
<1> QED
  BY InitTypeOK, InitCacheInv, <1>1, <1>2, PTL DEF Spec, NotCompiledTwice, NotTwiceStep
=============================================================================

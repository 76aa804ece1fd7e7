--------------------------- MODULE LanguageParser ---------------------------
(***************************************************************************)
(* grammar/aggregate_language_parser.py: the tokeniser and the recursive-  *)
(* descent parser of the text form of aggregate programs, ast_to_dsl(),    *)
(* and the expressions of grammar/AggregateProgram.g4 to compare with.     *)
(* AntlrParser uses this parser whenever the antlr4 runtime or the         *)
(* generated stubs are missing.                                            *)
(*                                                                         *)
(* Text is a sequence of lexemes, as the grammar file would split it.  A   *)
(* method reads toks from position p on and returns [ok, node, pos]: the   *)
(* node, and self.pos after it.                                            *)
(***************************************************************************)
EXTENDS Integers, Sequences, SequencesExt

CONSTANTS
  Ints, Words, Primitives,      \* lexemes; a word is a name or a keyword
  Keywords,                     \* words that are no name in the grammar file
  Syntax,                       \* syntax trees of expressions, with their subtrees
  Rank                          \* and how deep each of them is

Node(n, v, ch) == [n |-> n, v |-> v, ch |-> ch]

\* _tokenize: operators of two characters fall apart, comments and characters
\* outside of the list are skipped.
TwoChars == [e \in {"==", "!=", "<=", ">="} |->
               CASE e = "==" -> <<"=", "=">> [] e = "!=" -> <<"!", "=">>
                 [] e = "<=" -> <<"<", "=">> [] e = ">=" -> <<">", "=">>]
OneChar == {"+", "-", "*", "/", "=", "<", ">", "!", "(", ")", ",", ":", ";"}
Lexemes == OneChar \cup DOMAIN TwoChars \cup Ints \cup Words \cup Primitives
Tokens(text) ==
  FlattenSeq([i \in DOMAIN text |->
    CASE text[i] \in DOMAIN TwoChars -> TwoChars[text[i]]
      [] text[i] \in Lexemes \ DOMAIN TwoChars -> <<text[i]>>
      [] OTHER -> <<>>])

\* The words the grammar file keeps for its statements and operators.
GrammarWords == {"def", "initial_state", "compute", "if", "else", "while", "for", "in", "range",
                 "switch", "case", "default", "break", "return", "not", "and", "or"}
ASSUME LexemesApart ==
  /\ Keywords \subseteq Words /\ GrammarWords \cap Words \subseteq Keywords
  /\ (OneChar \cup DOMAIN TwoChars \cup {"EOF"}) \cap (Ints \cup Words \cup Primitives) = {}
  /\ Ints \cap Words = {} /\ Primitives \cap (Ints \cup Words) = {}

\* A tree that has a text: calls are of primitives, operators are of one character.
Writable(a) ==
  \/ a.n = "binop" /\ Len(a.ch) = 2 /\ a.v \in {"+", "-", "*", "/", "<", ">"}
  \/ a.n = "call" /\ a.v \in Primitives
  \/ a.n = "int" /\ a.v \in Ints /\ a.ch = <<>>
  \/ a.n = "name" /\ a.v \in Words \ Keywords /\ a.ch = <<>>
ASSUME SyntaxTrees ==
  \A a \in Syntax :
    /\ a = Node(a.n, a.v, a.ch) /\ Writable(a)
    /\ a.ch \in Seq(Syntax)
    /\ Rank[a] \in Nat /\ \A i \in DOMAIN a.ch : Rank[a.ch[i]] < Rank[a]

Peek(toks, p) == IF p \in DOMAIN toks THEN toks[p] ELSE "EOF"
Got(node, pos) == [ok |-> TRUE, node |-> node, pos |-> pos]
Bad == [ok |-> FALSE, node |-> Node("none", "none", <<>>), pos |-> 0]
Positions(toks) == 1 .. Len(toks) + 1

\* _consume of xs in a row; "any" stands for any one token.
Reads(toks, p, xs) ==
  \A i \in DOMAIN xs : IF xs[i] = "any" THEN Peek(toks, p + i - 1) # "EOF"
                       ELSE Peek(toks, p + i - 1) = xs[i]

\* The loops of the parser: after a token of seps there is one more item, read
\* by O.  The kind says what becomes of it.
Joined(kind, l, t, r) == IF kind = "binop" THEN Node("binop", t, <<l, r>>) ELSE Append(l, r)
MoreItems(toks, O, seps, kind, l) ==
  IF ~l.ok \/ Peek(toks, l.pos) \notin seps THEN l
  ELSE LET r == O[l.pos + 1] IN
       IF r.ok THEN Got(Joined(kind, l.node, toks[l.pos], r.node), r.pos) ELSE Bad

\* A round takes a token, so that after as many as there are tokens left the
\* loop has ended.
Left(toks, l) == IF l.ok THEN Len(toks) + 1 - l.pos ELSE 0
Loop(toks, O, seps, kind, first) ==
  LET round[n \in Nat] ==
        IF n = 0 THEN first ELSE MoreItems(toks, O, seps, kind, round[n - 1])
  IN  round
Items(toks, O, seps, kind, first) == Loop(toks, O, seps, kind, first)[Left(toks, first)]

----------------------------------------------------------------------------
(* Expressions.  R[q] is what _parse_expr() returns at a position q to the *)
(* right.  by = "parser": the code.  by = "grammar": the grammar file,     *)
(* where keywords are no names, a name can be called, and arithmetic binds *)
(* tighter than comparison.                                                *)

Names(by) == IF by = "parser" THEN Words ELSE Words \ Keywords
Called(by, toks, p) ==
  \/ Peek(toks, p) \in Primitives
  \/ by = "grammar" /\ Peek(toks, p) \in Names(by) /\ Peek(toks, p + 1) = "("

Closed(toks, r) == IF r.ok /\ Peek(toks, r.pos) = ")" THEN Got(r.node, r.pos + 1) ELSE Bad

Atom(by, toks, R, p) ==
  LET t == Peek(toks, p) IN
  CASE t = "("         -> Closed(toks, R[p + 1])
    [] t \in Ints      -> Got(Node("int", t, <<>>), p + 1)
    [] t \in Names(by) -> Got(Node("name", t, <<>>), p + 1)
    [] OTHER           -> Bad

Arguments(toks, R, p) ==
  IF Peek(toks, p) = ")" THEN Got(<<>>, p)
  ELSE IF R[p].ok THEN Items(toks, R, {","}, "argument", Got(<<R[p].node>>, R[p].pos))
  ELSE Bad

CallExpr(by, toks, R, p) ==
  IF ~Called(by, toks, p) THEN Atom(by, toks, R, p)
  ELSE LET c == Closed(toks, Arguments(toks, R, p + 2)) IN
       IF Peek(toks, p + 1) = "(" /\ c.ok THEN Got(Node("call", toks[p], c.node), c.pos) ELSE Bad

Arithmetic == {"+", "-", "*", "/"}
\* Mutant: comparison binds tighter than arithmetic.
LevelsSwapped(by) ==
  IF by = "parser" THEN <<{"==", "!=", "<", ">"}, Arithmetic>>
  ELSE <<Arithmetic, {"==", "!=", "<", ">", "<=", ">="}>>

Levels(by) == IF by = "parser" THEN <<Arithmetic \cup {"==", "!=", "<", ">"}>>
              ELSE <<Arithmetic, {"==", "!=", "<", ">", "<=", ">="}>>

\* Level 0 are the operands, level l their chains of operators up to the l-th set.
Chains(toks, O, ops) == [q \in Positions(toks) |-> Items(toks, O, ops, "binop", O[q])]
Level0(by, toks, R) == [q \in Positions(toks) |-> CallExpr(by, toks, R, q)]
Level1(by, toks, R) == Chains(toks, Level0(by, toks, R), Levels(by)[1])
BinaryExpr(by, toks, R) ==
  IF Len(Levels(by)) = 1 THEN Level1(by, toks, R)
  ELSE Chains(toks, Level1(by, toks, R), Levels(by)[2])

\* _parse_expr at every position.
Expr(by, toks) ==
  LET expr[p \in Positions(toks)] ==
        BinaryExpr(by, toks, [q \in p + 1 .. Len(toks) + 1 |-> expr[q]])[p]
  IN  expr

----------------------------------------------------------------------------
(* Statements of the grammar file, as far as they start with no keyword:   *)
(* expr SEMI? and NAME ASSIGN expr SEMI?, one after the other to the end.  *)
(* The fallback parser has none: compute() is one expression there.        *)

Stmt(toks, E, p) ==
  LET assigned == Peek(toks, p) \in Names("grammar") /\ Peek(toks, p + 1) = "="
      e        == E[IF assigned THEN p + 2 ELSE p]
      ended    == Peek(toks, e.pos) = ";"
  IN  IF ~e.ok THEN Bad
      ELSE Got(Node(IF assigned THEN "assign" ELSE IF ended THEN "ended" ELSE "expr",
                    IF assigned THEN toks[p] ELSE "none", <<e.node>>),
               IF ended THEN e.pos + 1 ELSE e.pos)

\* What stands at p .. Len(toks), no token being left out; stmt+ asks for at
\* least one.
Stmts(toks, p) ==
  LET E == Expr("grammar", toks)
      O == [q \in 2 .. Len(toks) + 1 |-> Stmt(toks, E, q - 1)]
  IN  Items(toks, O, Lexemes, "statement", Got(<<>>, p))

----------------------------------------------------------------------------
(* Programs.                                                               *)

Header1 == <<"any", ":", "initial_state", ":">>
Header2 == <<"compute", "(", "any", ",", "any", ")", ":">>
FunctionNode(f, init, compute) ==
  Node("function", f, <<Node("initial_state", "none", <<init>>), Node("compute", "none", <<compute>>)>>)

\* _parse_function, p being the position after its "def".
ParseFunction(toks, p) ==
  LET i == Expr("parser", toks)[p + 4]
      c == Expr("parser", toks)[i.pos + 7]
  IN  IF Reads(toks, p, Header1) /\ i.ok /\ Reads(toks, i.pos, Header2) /\ c.ok
        THEN Got(FunctionNode(toks[p], i.node, c.node), c.pos)
        ELSE Bad

\* _parse_program, and what parse_string demands: the text ends after it.
ParseProgram(toks) ==
  LET functions == [p \in Positions(toks) |-> ParseFunction(toks, p)]
      fs        == Items(toks, functions, {"def"}, "function", Got(<<>>, 1))
  IN  IF fs.ok /\ fs.pos > Len(toks) THEN Got(Node("program", "none", fs.node), fs.pos) ELSE Bad
ParseString(text) == ParseProgram(Tokens(text))

----------------------------------------------------------------------------
(* ast_to_dsl: of the arguments of a call only the first is kept.          *)

\* Mutant: the operands of an operator are treated like arguments.
FirstChildren == [a \in Syntax |-> IF a.n \in {"call", "binop"} /\ a.ch # <<>> THEN <<a.ch[1]>> ELSE a.ch]
KeptChildren  == [a \in Syntax |-> IF a.n = "call" /\ a.ch # <<>> THEN <<a.ch[1]>> ELSE a.ch]

Entry(n, v, sub) == [type |-> n, value |-> v, sub |-> sub]
\* What becomes of an expression when ch are the children that are kept.
ExprDsl(ch) ==
  LET dsl[a \in Syntax] == Entry(a.n, a.v, [i \in DOMAIN ch[a] |-> dsl[ch[a][i]]])
  IN  dsl
PartDsl(part) == Entry(part.n, "none", <<ExprDsl(KeptChildren)[part.ch[1]]>>)
FunctionDsl(f) == Entry("function", f.v, <<PartDsl(f.ch[1]), PartDsl(f.ch[2])>>)
ToDsl(program) == Entry("program", "none", [i \in DOMAIN program.ch |-> FunctionDsl(program.ch[i])])

----------------------------------------------------------------------------
\* The text of a tree that needs no rule of precedence to be read.
Operand(a, text) == IF a.n = "binop" THEN <<"(">> \o text \o <<")">> ELSE text
Spelled(a, texts) ==
  CASE a.n = "binop" -> texts[1] \o <<a.v>> \o Operand(a.ch[2], texts[2])
    [] a.n = "call"  -> <<a.v, "(">> \o FlattenSeq([i \in DOMAIN a.ch |->
                          texts[i] \o (IF i < Len(a.ch) THEN <<",">> ELSE <<>>)]) \o <<")">>
    [] OTHER         -> <<a.v>>
Unparse[a \in Syntax] == Spelled(a, [i \in DOMAIN a.ch |-> Unparse[a.ch[i]]])
=============================================================================

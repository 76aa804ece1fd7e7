----------------------------- MODULE Toolchain -----------------------------
(***************************************************************************)
(* From a decorated class, or from text, to a program: the decorator       *)
(* aggregate_function, the validation pipeline, the Transpiler object, and *)
(* the text parser with ast_to_dsl().  One behaviour takes one job through *)
(* the stages; job is picked at the start.                                 *)
(*                                                                         *)
(* What the visitor returns is a parameter; ToolchainPrograms has the       *)
(* definitions.                                                            *)
(***************************************************************************)
EXTENDS CppTypes, LanguageParser, FiniteSetsExt

CONSTANTS
  Classes,        \* classes, each a ClassJob
  Programs,       \* texts: sequences of lexemes, taken as one expression
  CppOf(_),       \* the C++ statements of the body of compute()
  HeadersOf(_)    \* the headers of the primitives the visitor met in it

VARIABLES
  job,            \* what goes through the tools
  stage,          \* how far it has come
  marked,         \* the class's _is_aggregate_function
  out             \* what the last stage produced

toolVars == <<job, stage, marked, out>>

\* A class as the decorator and the rules see it.  has: its callable methods;
\* init: the lines of initial_state(), each what follows its first "return".
Sig(has, n, ann, params, cann) ==
  [has |-> has, initParams |-> n, initAnn |-> ann, params |-> params, computeAnn |-> cann]
ClassJob(sig, type, init, body) ==
  [kind |-> "class", sig |-> sig, type |-> type, init |-> init, body |-> body]

ASSUME ClassesGiven == \A c \in Classes : c.kind = "class" /\ c.type \in Types

\* A text stands for the expression of compute() in a program with one function.
Frame(text) == <<"def", "f", ":", "initial_state", ":", "1",
                 "compute", "(", "s", ",", "n", ")", ":">> \o text
ASSUME ProgramsGiven ==
  /\ \A t \in Programs : t \in Seq(Lexemes)
  /\ {"def", "initial_state", "compute"} \subseteq Keywords
  /\ {"f", "s", "n"} \subseteq Words /\ "1" \in Ints

ToolInit ==
  /\ \/ job \in Classes
     \/ \E t \in Programs : job = [kind |-> "text", text |-> t]
     \/ \E a \in Syntax : job = [kind |-> "tree", tree |-> a, text |-> Unparse[a]]
  /\ stage = "given"
  /\ marked = FALSE
  /\ out = <<>>

----------------------------------------------------------------------------
(* Validation.                                                             *)

StateNames == {"self_state", "state", "s"}
NbrNames   == {"neighbors", "nbrs", "neighborhood"}

\* The rules of the default pipeline, in their order; each raises or passes.
\* (DeprecatedMethodRule only warns.)
RequiredMethodsRule(sig)  == {"initial_state", "compute"} \subseteq sig.has
InitialStateRule(sig)     == sig.initParams = 0 /\ sig.initAnn
ComputeSignatureRule(sig) ==
  Len(sig.params) = 2 /\ sig.params[1] \in StateNames /\ sig.params[2] \in NbrNames
    /\ sig.computeAnn
Passes(sig, mark) ==
  mark /\ RequiredMethodsRule(sig) /\ InitialStateRule(sig) /\ ComputeSignatureRule(sig)

Refuse == stage' = "refused" /\ UNCHANGED <<job, out>>

\* @aggregate_function: the mark is set before the class is validated.
Decorate ==
  /\ job.kind = "class" /\ stage = "given"
  /\ IF ~RequiredMethodsRule(job.sig) THEN Refuse /\ UNCHANGED marked
     ELSE /\ marked' = TRUE
          /\ IF Passes(job.sig, TRUE) THEN stage' = "decorated" /\ UNCHANGED <<job, out>>
             ELSE Refuse

----------------------------------------------------------------------------
(* Transpiler.                                                             *)

\* Mutant: the mark alone is looked at.
ConstructMarked ==
  /\ job.kind = "class" /\ stage \in {"given", "refused", "decorated"}
  /\ UNCHANGED <<job, marked>>
  /\ IF marked /\ Len(job.sig.params) = 2 /\ Infer[job.type].ok
       THEN stage' = "typed" /\ out' = Infer[job.type]
       ELSE stage' = "invalid" /\ UNCHANGED out

\* Transpiler(cls), also of a class that was refused or never decorated.
Construct ==
  /\ job.kind = "class" /\ stage \in {"given", "refused", "decorated"}
  /\ UNCHANGED <<job, marked>>
  /\ IF Passes(job.sig, marked) /\ Infer[job.type].ok
       THEN stage' = "typed" /\ out' = Infer[job.type]
       ELSE stage' = "invalid" /\ UNCHANGED out

\* _generate_initial_state: the first line with the word in it.
InitialExpr(lines) ==
  LET said == {i \in DOMAIN lines : lines[i].said}
  IN  IF said = {} THEN 0 ELSE lines[Min(said)].v

Generate ==
  /\ stage = "typed"
  /\ stage' = "generated"
  /\ out' = [type |-> out, code |-> CppOf(job.body), init |-> InitialExpr(job.init),
             includes |-> out.inc \cup HeadersOf(job.body)]
  /\ UNCHANGED <<job, marked>>

----------------------------------------------------------------------------
(* Text.                                                                   *)

Parse ==
  /\ job.kind \in {"text", "tree"} /\ stage = "given"
  /\ LET r == ParseString(Frame(job.text))
     IN  IF r.ok THEN stage' = "parsed" /\ out' = r.node
         ELSE stage' = "unparsed" /\ UNCHANGED out
  /\ UNCHANGED <<job, marked>>

Convert ==
  /\ stage = "parsed"
  /\ stage' = "converted" /\ out' = ToDsl(out)
  /\ UNCHANGED <<job, marked>>

ToolNext == Decorate \/ Construct \/ Generate \/ Parse \/ Convert
ToolSpec == ToolInit /\ [][ToolNext]_toolVars

----------------------------------------------------------------------------
(* Properties.                                                             *)

Stages == {"given", "refused", "decorated", "invalid", "typed", "generated",
           "parsed", "unparsed", "converted"}
ToolTypeOK == stage \in Stages /\ marked \in BOOLEAN /\ job.kind \in {"class", "text", "tree"}

Generated == stage = "generated"

\* A state type of known classes compiles: every name in the declaration comes
\* from the language, from a header that is included or from the declaration
\* itself, however deep it is nested (infer, _merge, cpp_declaration).
TypesCompile == Generated /\ Simple(job.type) => TypeCompiles(out.type, out.includes)

\* Code is generated for valid classes alone, although the decorator marks a
\* class before it refuses it and a refused class may be given to Transpiler.
OnlyValidGenerated == Generated => Passes(job.sig, TRUE) /\ marked

\* Texts that both understand alike, token by token: no operator of two
\* characters, which the tokeniser splits, no keyword for a name, no call of a name.
Comparisons == DOMAIN TwoChars \cup {"<", ">"}
PlainText(t) ==
  \A i \in DOMAIN t : /\ t[i] \notin DOMAIN TwoChars \cup Keywords
                      /\ t[i] \in Words => i = Len(t) \/ t[i + 1] # "("
ArithmeticFirst(t) ==
  \A i, j \in DOMAIN t : i < j /\ t[i] \in Comparisons => t[j] \notin Arithmetic
Body(program) == program.ch[1].ch[2].ch[1]

\* The texts that are, for the grammar file, the statements of one expression
\* that no ";" ends.
OneExpression(statements) == Len(statements) = 1 /\ statements[1].n = "expr"

\* Without an arithmetic operator after a comparison the fallback parser reads a
\* plain text as the grammar file does, although all its operators are on one
\* level (_parse_binary_expr).  It accepts exactly the texts the grammar file
\* takes for one expression: those with an assignment, with a ";" or with a
\* second statement, all of them in its grammar, it refuses.
FollowsGrammar ==
  job.kind = "text" /\ stage \in {"parsed", "unparsed"}
    /\ PlainText(job.text) /\ ArithmeticFirst(job.text)
    => LET g == Stmts(Frame(job.text), 14)
           one == g.ok /\ OneExpression(g.node)
       IN  /\ (stage = "parsed") = one
           /\ one => g.node[1].ch = <<Body(out)>>

\* A tree that is written out is read back, and ast_to_dsl() keeps the whole of
\* it, as long as no call has a second argument.
AllChildren == [a \in Syntax |-> a.ch]
DslKeepsTree ==
  job.kind = "tree" /\ stage \in {"parsed", "unparsed", "converted"}
    /\ (\A i \in DOMAIN job.text : job.text[i] # ",")
    => /\ stage # "unparsed"
       /\ stage = "parsed" => Body(out) = job.tree
       /\ stage = "converted" => out.sub[1].sub[2].sub[1] = ExprDsl(AllChildren)[job.tree]
=============================================================================

----------------------------- MODULE ParserTrees -----------------------------
(***************************************************************************)
(* Every tree the parser can be asked for: a tree grows from a literal or  *)
(* a variable by becoming a part of a larger expression, statement,        *)
(* function or program.  Its source, parsed, gives the tree back.          *)
(***************************************************************************)
EXTENDS GrammarPrinter

CONSTANTS Binary,    \* the operators used, and
          Unary,     \* those of the first step
          FirstBinary, FirstUnary,
          Leaves,    \* the expressions a tree starts from
          Grown,     \* the expressions whose statements grow further
          MaxSteps,  \* bounds: how often an expression grows,
          MaxStatements  \* and how often a statement and what it is in do

ASSUME TreesAssumption ==
    /\ Binary \cup FirstBinary \subseteq DOMAIN Symbols
    /\ Unary \cup FirstUnary \subseteq DOMAIN Signs \cup DOMAIN PostfixSigns
    /\ MaxSteps \in Nat /\ MaxStatements \in Nat
    /\ {"x", "int"} \subseteq Letters /\ {"1"} \subseteq Digits

VARIABLES entry,  \* the rule that reads the tree
          dom,    \* the tree
          steps

trees == <<entry, dom, steps>>

-----------------------------------------------------------------------------
Dom(type, text, nodes) == [type |-> type, text |-> text, nodes |-> nodes]
Null     == Dom("null", <<>>, <<>>)
Variable == Dom("VariableReference", <<"x">>, <<>>)
Type     == Dom("NamedType", <<"int">>, <<>>)
Nothing  == Dom("NullStatement", <<>>, <<>>)
Block    == Dom("CompositeStatement", <<>>, <<>>)

(* An if without an else, or a statement that ends in one: an else after   *)
(* it would be its own.                                                    *)
RECURSIVE TakesElse(_)
TakesElse(s) ==
    \/ s.type = "IfStatement" /\ (s.nodes[3].type = "null" \/ TakesElse(s.nodes[3]))
    \/ s.type \in {"WhileStatement", "ForStatement"} /\ TakesElse(Last(s.nodes))

TreesInit == entry = "expression" /\ dom \in Leaves /\ steps = 0

Grow(from, to, larger) ==
    /\ entry = from /\ steps < (IF from = "expression" THEN MaxSteps ELSE MaxStatements)
    /\ entry' = to /\ dom' = larger
    /\ steps' = IF entry = to \/ from # "expression" THEN steps + 1
                ELSE IF dom \in Grown THEN 1 ELSE MaxStatements

MakeBinary ==
    \E type \in (IF steps = 0 THEN FirstBinary ELSE Binary),
       operands \in {<<dom, Variable>>, <<Variable, dom>>} :
        Grow("expression", "expression", Dom(type, <<>>, operands))

MakeUnary ==
    \E type \in (IF steps = 0 THEN FirstUnary ELSE Unary) :
        Grow("expression", "expression", Dom(type, <<>>, <<dom>>))

MakeCast == Grow("expression", "expression", Dom("ExplicitCast", <<>>, <<Type, dom>>))

MakeCall ==
    \E arguments \in {<<dom>>, <<Variable, dom>>} :
        Grow("expression", "expression", Dom("FunctionCall", <<"x">>, arguments))

MakeStatement ==
    \E s \in {Dom("ExpressionStatement", <<>>, <<dom>>),
              Dom("ReturnStatement", <<>>, <<dom>>),
              Dom("VariableDefinitionStatement", <<"x">>, <<Type, dom>>),
              Dom("WhileStatement", <<>>, <<dom, Nothing>>),
              Dom("DoWhileStatement", <<>>, <<Nothing, dom>>),
              Dom("IfStatement", <<>>, <<dom, Nothing, Null>>),
              Dom("ForStatement", <<>>, <<Nothing, dom, Nothing, Block>>)} :
        Grow("expression", "statement", s)

(* A statement becomes a part of another, in each place where one may be.  *)
MakeLarger ==
    \E s \in {Dom("IfStatement", <<>>, <<Variable, dom, Null>>),
              Dom("IfStatement", <<>>, <<Variable, Nothing, dom>>),
              Dom("WhileStatement", <<>>, <<Variable, dom>>),
              Dom("DoWhileStatement", <<>>, <<dom, Variable>>),
              Dom("ForStatement", <<>>, <<dom, Null, Nothing, Nothing>>),
              Dom("ForStatement", <<>>, <<Nothing, Null, dom, Nothing>>),
              Dom("ForStatement", <<>>, <<Nothing, Null, Nothing, dom>>),
              Dom("CompositeStatement", <<>>, <<dom>>),
              Dom("CompositeStatement", <<>>, <<Dom("BreakStatement", <<>>, <<>>), dom>>),
              Dom("CompositeStatement", <<>>, <<dom, Dom("ContinueStatement", <<>>, <<>>)>>),
              Dom("CompositeStatement", <<>>, <<Dom("ReturnStatement", <<>>, <<Null>>), dom, dom>>)} :
        Grow("statement", "statement", s)

MakeIfElse ==
    /\ ~TakesElse(dom)
    /\ \E other \in {Nothing, dom} :
           Grow("statement", "statement", Dom("IfStatement", <<>>, <<Variable, dom, other>>))

MakeFunction ==
    \E n \in 0 .. 2 :
        LET parameter == Dom("ParameterDefinition", <<"x">>, <<Type>>)
        IN  Grow("statement", "functionDefinition",
                 Dom("FunctionDefinition", <<"x">>,
                     <<Type>> \o [k \in 1 .. n |-> parameter] \o <<dom>>))

MakeProgram ==
    \E functions \in {<<dom>>, <<dom, dom>>} :
        Grow("functionDefinition", "program", Dom("Program", <<>>, functions))

TreesNext ==
    \/ MakeBinary \/ MakeUnary \/ MakeCast \/ MakeCall
    \/ MakeStatement \/ MakeLarger \/ MakeIfElse
    \/ MakeFunction \/ MakeProgram

-----------------------------------------------------------------------------
(* Reading is the inverse of writing: whatever the shape of a tree, the    *)
(* precedences, associativities, casts, dangling elses and optional parts  *)
(* of the rules in Grammar.java read its source to the end and give back   *)
(* that tree, through each of Parser's methods that may be asked for it.   *)
RoundTrip ==
    \A r \in {entry} \cup (IF entry = "statement" THEN {"pureStatement"} ELSE {}) :
        LET source == SourceOf(r, dom)
            found == Match(Rule(r), source, 1)
        IN  found.at = Len(source) + 1 /\ ParseResult(found) = ok(dom)
=============================================================================

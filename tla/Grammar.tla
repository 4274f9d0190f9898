------------------------------- MODULE Grammar -------------------------------
(***************************************************************************)
(* parboiled-experiment: the grammar of the small language and its parser. *)
(*                                                                         *)
(* A source is a sequence of units: an operator character, a digit, white  *)
(* space, or a run of letters.  Runs follow each other without a space as  *)
(* letters do ("return" "x" is returnx), and a keyword is a run of its     *)
(* own, so no other run may begin with a keyword's letters.                *)
(*                                                                         *)
(* A rule is a value, and Match says what parboiled makes of it: the place *)
(* where the match ends, the text match() returns to the next action, and  *)
(* what the rule pushed on the value stack.  A rule's Var is made anew     *)
(* each time the rule is entered and a failed Sequence restores the stack, *)
(* so what a failed rule collected is never seen.                          *)
(***************************************************************************)
EXTENDS Naturals, Sequences, SequencesExt

CONSTANTS Letters,  \* the runs of letters, keywords among them
          Digits    \* the digits

-----------------------------------------------------------------------------
(* What rules are made of: the Rule-creating methods of parboiled.  A      *)
(* Sequence and a FirstOf are their first rule and the rest of them.       *)

OneOf(units) == [op |-> "one", of |-> units]
ANY          == [op |-> "any"]
EOI          == [op |-> "eoi"]
Str(units)   == [op |-> "str", of |-> units]
Listed(op, rules) ==
    LET from[k \in DOMAIN rules] ==
            IF k = Len(rules) THEN rules[k]
            ELSE [op |-> op, first |-> rules[k], rest |-> from[k + 1]]
    IN  from[1]
Sequence(rules) == Listed("seq", rules)
FirstOf(rules)  == Listed("alt", rules)
ZeroOrMore(rule) == [op |-> "loop", of |-> rule]
TestNot(rule)    == [op |-> "not", of |-> rule]
OneOrMore(rule)  == Sequence(<<rule, ZeroOrMore(rule)>>)
Optional(rule)   == FirstOf(<<rule, Str(<<>>)>>)
Rule(name)       == [op |-> "rule", of |-> name]

(* An action that takes match() of the rule before it, one that pushes a   *)
(* node made of the text and the nodes the rule left, and the value a      *)
(* field of the node keeps when nothing sets it.                           *)
Text(rule)       == [op |-> "text", of |-> rule]
Node(type, rule) == [op |-> "node", type |-> type, of |-> rule]
OrNull(rule)     == FirstOf(<<rule, Node("null", Str(<<>>))>>)

(* operand (operator operand)*, each operator joining what is left of it.  *)
Chain(operators, operand) ==
    [op |-> "chain", first |-> operand,
     next |-> Sequence(<<operators, operand>>)]

-----------------------------------------------------------------------------
(* White space, comments and words.                                        *)

singleLineComment ==
    Sequence(<<Str(<<"/", "/">>),
               ZeroOrMore(Sequence(<<TestNot(OneOf({"\r", "\n"})), ANY>>)),
               FirstOf(<<Str(<<"\r", "\n">>), OneOf({"\r"}), OneOf({"\n"}), EOI>>)>>)

multilineComment ==
    Sequence(<<Str(<<"/", "*">>),
               ZeroOrMore(Sequence(<<TestNot(Str(<<"*", "/">>)), ANY>>)),
               Str(<<"*", "/">>)>>)

(* Nothing but these units can begin a part of the space: Match asks for   *)
(* them before it tries the parts.                                         *)
White == {" ", "\t", "\n"}
space == [op |-> "space", of |-> FirstOf(<<singleLineComment, multilineComment, OneOf(White)>>)]

allowSpaces(rule) == Sequence(<<space, rule, space>>)
TERMINAL(unit)    == allowSpaces(Str(<<unit>>))

name == OneOrMore(OneOf(Letters))

intLiteral == allowSpaces(Node("Int", Text(OneOrMore(OneOf(Digits)))))

doubleLiteral ==
    LET number == OneOrMore(OneOf(Digits))
        point  == Str(<<".">>)
    IN  allowSpaces(Node("Double", Text(FirstOf(<<
            Sequence(<<point, number>>),
            Sequence(<<number, point, number>>),
            Sequence(<<number, point>>)>>))))

boolLiteral == allowSpaces(Node("Bool", Text(OneOf({"true", "false"}))))

literal == FirstOf(<<boolLiteral, doubleLiteral, intLiteral>>)

namedTypeReference == allowSpaces(Node("NamedType", Text(name)))

-----------------------------------------------------------------------------
(* Expressions.                                                            *)

expression == Rule("expression")

CommaSeparated(rule) ==
    Optional(Sequence(<<rule, ZeroOrMore(Sequence(<<TERMINAL(","), rule>>))>>))

parensExpression == Sequence(<<TERMINAL("("), expression, TERMINAL(")")>>)

explicitCastExpression ==
    Node("ExplicitCast", Sequence(<<
        TERMINAL("("), namedTypeReference, TERMINAL(")"), expression>>))

functionCallExpression ==
    Node("FunctionCall", Sequence(<<
        allowSpaces(Text(name)),
        TERMINAL("("), CommaSeparated(expression), TERMINAL(")")>>))

variableReference == allowSpaces(Node("VariableReference", Text(name)))

factor ==
    FirstOf(<<explicitCastExpression, parensExpression, literal,
              functionCallExpression, variableReference>>)

PrefixOfAll(type, units) == Node(type, Sequence(<<allowSpaces(Str(units)), expression>>))
Prefix(type, units)  == Node(type, Sequence(<<allowSpaces(Str(units)), factor>>))
Postfix(type, units) == Node(type, Sequence(<<factor, allowSpaces(Str(units))>>))

unaryExpression ==
    FirstOf(<<Prefix("PrefixIncrement", <<"+", "+">>),
              Postfix("PostfixIncrement", <<"+", "+">>),
              Prefix("PrefixDecrement", <<"-", "-">>),
              Postfix("PostfixDecrement", <<"-", "-">>),
              Prefix("PlusSign", <<"+">>),
              Prefix("MinusSign", <<"-">>),
              Prefix("Not", <<"!">>),
              factor>>)

Operators(alternatives) ==
    allowSpaces(Text(FirstOf(alternatives)))

mulDivExpression == Chain(Operators(<<Str(<<"*">>), Str(<<"/">>)>>), unaryExpression)
addSubExpression == Chain(Operators(<<Str(<<"+">>), Str(<<"-">>)>>), mulDivExpression)
comparisonShortFirst ==
    Chain(Operators(<<Str(<<"<">>), Str(<<"<", "=">>), Str(<<">">>), Str(<<">", "=">>)>>),
          addSubExpression)
comparisonExpression ==
    Chain(Operators(<<Str(<<"<", "=">>), Str(<<"<">>), Str(<<">", "=">>), Str(<<">">>)>>),
          addSubExpression)
equalityComparisonExpression ==
    Chain(Operators(<<Str(<<"=", "=">>), Str(<<"!", "=">>)>>), comparisonExpression)
andExpression == Chain(Operators(<<Str(<<"&", "&">>)>>), equalityComparisonExpression)
orExpression  == Chain(Operators(<<Str(<<"|", "|">>)>>), andExpression)
assignmentExpression ==
    Chain(Operators(<<Str(<<"=">>), Str(<<"+", "=">>), Str(<<"-", "=">>), Str(<<"*", "=">>), Str(<<"/", "=">>)>>),
          orExpression)

-----------------------------------------------------------------------------
(* Statements, functions and programs.                                     *)

statement == Rule("statement")

nullStatement       == Node("NullStatement", allowSpaces(Str(<<>>)))
continueStatement   == Node("ContinueStatement", TERMINAL("continue"))
breakStatement      == Node("BreakStatement", TERMINAL("break"))
expressionStatement == Node("ExpressionStatement", expression)
returnStatement     == Node("ReturnStatement", Sequence(<<TERMINAL("return"), OrNull(expression)>>))

variableDefinitionStatement ==
    Node("VariableDefinitionStatement", Sequence(<<
        namedTypeReference, Text(name), allowSpaces(Str(<<"=">>)), expression>>))

Parenthesised(rule) == Sequence(<<TERMINAL("("), rule, TERMINAL(")")>>)

ifStatement ==
    Node("IfStatement", Sequence(<<
        TERMINAL("if"), Parenthesised(expression), statement,
        OrNull(Sequence(<<TERMINAL("else"), statement>>))>>))

whileStatement ==
    Node("WhileStatement", Sequence(<<
        TERMINAL("while"), Parenthesised(expression), statement>>))

doWhileStatement ==
    Node("DoWhileStatement", Sequence(<<
        TERMINAL("do"), statement, TERMINAL("while"), Parenthesised(expression)>>))

forStatement ==
    Node("ForStatement", Sequence(<<
        TERMINAL("for"), TERMINAL("("),
        OrNull(Rule("pureStatement")), TERMINAL(";"),
        OrNull(expression), TERMINAL(";"),
        OrNull(Rule("pureStatement")), TERMINAL(")"),
        statement>>))

compositeStatement ==
    Node("CompositeStatement", Sequence(<<
        TERMINAL("{"), ZeroOrMore(statement), TERMINAL("}")>>))

pureStatement ==
    FirstOf(<<compositeStatement, variableDefinitionStatement, returnStatement,
              continueStatement, breakStatement, ifStatement, forStatement,
              whileStatement, doWhileStatement, expressionStatement,
              nullStatement>>)

Ended(rule) == Sequence(<<rule, TERMINAL(";")>>)

statementRule ==
    FirstOf(<<compositeStatement, ifStatement, forStatement, whileStatement,
              Ended(variableDefinitionStatement), Ended(returnStatement),
              Ended(continueStatement), Ended(breakStatement),
              Ended(doWhileStatement), Ended(expressionStatement),
              Ended(nullStatement)>>)

parameterDefinition ==
    Node("ParameterDefinition", Sequence(<<namedTypeReference, allowSpaces(Text(name))>>))

functionDefinition ==
    Node("FunctionDefinition", Sequence(<<
        namedTypeReference, allowSpaces(Text(name)),
        Parenthesised(CommaSeparated(parameterDefinition)), statement>>))

program == Node("Program", Sequence(<<OneOrMore(functionDefinition), EOI>>))

Rules == [expression |-> assignmentExpression,
          pureStatement |-> pureStatement,
          statement |-> statementRule,
          functionDefinition |-> functionDefinition,
          program |-> program]

(* Helper.domBinaryExpressionFromString.                                   *)
BinaryExpressionType(operator) ==
    CASE operator = <<"+">> -> "Add"
      [] operator = <<"-">> -> "Sub"
      [] operator = <<"*">> -> "Mul"
      [] operator = <<"/">> -> "Div"
      [] operator = <<"<">> -> "Less"
      [] operator = <<"<", "=">> -> "LessOrEqual"
      [] operator = <<">">> -> "Greater"
      [] operator = <<">", "=">> -> "GreaterOrEqual"
      [] operator = <<"!", "=">> -> "NotEqual"
      [] operator = <<"=", "=">> -> "Equal"
      [] operator = <<"&", "&">> -> "And"
      [] operator = <<"|", "|">> -> "Or"
      [] operator = <<"=">> -> "Assignment"
      [] operator = <<"+", "=">> -> "AddAndAssign"
      [] operator = <<"-", "=">> -> "SubAndAssign"
      [] operator = <<"*", "=">> -> "MulAndAssign"
      [] operator = <<"/", "=">> -> "DivAndAssign"

-----------------------------------------------------------------------------
(* Matching.  A match ends at a place of the source; 0 stands for a        *)
(* mismatch.  parboiled refuses a loop whose body matches nothing with a   *)
(* GrammarException, which ends the parse: the match is Raised.            *)

Upto(i)  == [at |-> i, text |-> <<>>, nodes |-> <<>>]
Mismatch == Upto(0)
Raised   == [Upto(0) EXCEPT !.text = <<"GrammarException">>]

Then(first, second) ==
    [second EXCEPT !.text = first.text \o @, !.nodes = first.nodes \o @]

RECURSIVE Match(_, _, _)
RECURSIVE MatchLoop(_, _, _)
RECURSIVE MatchChain(_, _, _)

MatchLoop(rule, source, i) ==
    LET once == Match(rule, source, i)
    IN  CASE once.at = 0 -> IF once = Mismatch THEN Upto(i) ELSE once
          [] once.at = i -> Raised
          [] OTHER ->
               LET more == MatchLoop(rule, source, once.at)
               IN  IF more.at = 0 THEN more ELSE Then(once, more)

MatchChain(rule, source, left) ==
    LET more == Match(rule.next, source, left.at)
    IN  IF more.at = 0 THEN (IF more = Mismatch THEN left ELSE more)
        ELSE MatchChain(rule, source,
                 [at |-> more.at, text |-> <<>>,
                  nodes |-> << [type |-> BinaryExpressionType(more.text),
                                text |-> <<>>,
                                nodes |-> left.nodes \o more.nodes] >>])

Match(rule, source, i) ==
    CASE rule.op = "str" ->
           IF \A k \in DOMAIN rule.of :
                  i + k - 1 \in DOMAIN source /\ source[i + k - 1] = rule.of[k]
           THEN Upto(i + Len(rule.of)) ELSE Mismatch
      [] rule.op = "alt" ->
           LET found == Match(rule.first, source, i)
           IN  IF found.at = 0 /\ found = Mismatch
               THEN Match(rule.rest, source, i) ELSE found
      [] rule.op = "seq" ->
           LET found == Match(rule.first, source, i)
           IN  IF found.at = 0 THEN found
               ELSE LET more == Match(rule.rest, source, found.at)
                    IN  IF more.at = 0 THEN more ELSE Then(found, more)
      [] rule.op = "space" ->
           IF i \in DOMAIN source /\ source[i] \in {" ", "\t", "\n", "/"}
           THEN MatchLoop(rule.of, source, i) ELSE Upto(i)
      [] rule.op = "one" ->
           IF i \in DOMAIN source /\ source[i] \in rule.of THEN Upto(i + 1) ELSE Mismatch
      [] rule.op = "node" ->
           LET found == Match(rule.of, source, i)
           IN  IF found.at = 0 THEN found
               ELSE [at |-> found.at, text |-> <<>>,
                     nodes |-> << [type |-> rule.type, text |-> found.text,
                                   nodes |-> found.nodes] >>]
      [] rule.op = "text" ->
           LET found == Match(rule.of, source, i)
           IN  IF found.at = 0 THEN found
               ELSE [found EXCEPT !.text = SubSeq(source, i, found.at - 1)]
      [] rule.op = "chain" ->
           LET left == Match(rule.first, source, i)
           IN  IF left.at = 0 THEN left ELSE MatchChain(rule, source, left)
      [] rule.op = "rule" -> Match(Rules[rule.of], source, i)
      [] rule.op = "loop" -> MatchLoop(rule.of, source, i)
      [] rule.op = "not" ->
           LET found == Match(rule.of, source, i)
           IN  IF found.at > 0 THEN Mismatch
               ELSE IF found = Mismatch THEN Upto(i) ELSE found
      [] rule.op = "any" -> IF i \in DOMAIN source THEN Upto(i + 1) ELSE Mismatch
      [] rule.op = "eoi" -> IF i \in DOMAIN source THEN Mismatch ELSE Upto(i)

(* Parser.parseExpressionWithRule and ParseResult: the result is the top   *)
(* of the value stack, and a match need not reach the end of the source,   *)
(* unless the rule says so.                                                *)
NoNode == [type |-> "none", text |-> <<>>, nodes |-> <<>>]
ok(dom) == [isOk |-> TRUE, domElement |-> dom]
fail    == [isOk |-> FALSE, domElement |-> NoNode]

ParseResult(found) == IF found.at = 0 THEN fail ELSE ok(Last(found.nodes))

parseWithRule(rule, source) == ParseResult(Match(Rule(rule), source, 1))
=============================================================================

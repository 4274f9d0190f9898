--------------------------- MODULE GrammarPrinter ----------------------------
(***************************************************************************)
(* The other direction, written from the language's precedences and not    *)
(* from its rules: the source of a tree, with parentheses only where the   *)
(* reading would change without them.                                      *)
(***************************************************************************)
EXTENDS Grammar

Symbols ==
    [Assignment |-> <<"=">>, AddAndAssign |-> <<"+", "=">>, SubAndAssign |-> <<"-", "=">>,
     MulAndAssign |-> <<"*", "=">>, DivAndAssign |-> <<"/", "=">>,
     Or |-> <<"|", "|">>, And |-> <<"&", "&">>,
     Equal |-> <<"=", "=">>, NotEqual |-> <<"!", "=">>,
     Less |-> <<"<">>, LessOrEqual |-> <<"<", "=">>,
     Greater |-> <<">">>, GreaterOrEqual |-> <<">", "=">>,
     Add |-> <<"+">>, Sub |-> <<"-">>, Mul |-> <<"*">>, Div |-> <<"/">>]

Signs ==
    [PlusSign |-> <<"+">>, MinusSign |-> <<"-">>, Not |-> <<"!">>,
     PrefixIncrement |-> <<"+", "+">>, PrefixDecrement |-> <<"-", "-">>]

PostfixSigns == [PostfixIncrement |-> <<"+", "+">>, PostfixDecrement |-> <<"-", "-">>]

Assignments == {"Assignment", "AddAndAssign", "SubAndAssign", "MulAndAssign", "DivAndAssign"}

(* How tightly an expression holds together: from 1, an assignment, to 9,  *)
(* what needs no parentheses anywhere.                                     *)
Level(type) ==
    CASE type \in Assignments -> 1
      [] type = "Or" -> 2
      [] type = "And" -> 3
      [] type \in {"Equal", "NotEqual"} -> 4
      [] type \in {"Less", "LessOrEqual", "Greater", "GreaterOrEqual"} -> 5
      [] type \in {"Add", "Sub"} -> 6
      [] type \in {"Mul", "Div"} -> 7
      [] type \in DOMAIN Signs \cup DOMAIN PostfixSigns -> 8
      [] OTHER -> 9

Separated(texts, separator) ==
    FoldLeftDomain(LAMBDA all, k : all \o (IF k = 1 THEN <<>> ELSE separator) \o texts[k],
                   <<>>, texts)

Parens(text) == <<"(">> \o text \o <<")">>

(* The text of expression e where a rule asks for one that holds together  *)
(* at least at the given level.  A cast takes everything to its right, so  *)
(* it goes without parentheses only where nothing follows.                 *)
RECURSIVE Expression(_, _, _)
Expression(e, level, last) ==
    LET bare == Level(e.type) >= level /\ (e.type = "ExplicitCast" => last)
        inside == last \/ ~bare
        sub(k, l, atEnd) == Expression(e.nodes[k], l, atEnd)
        text ==
          CASE e.type \in DOMAIN Symbols ->
                 sub(1, Level(e.type), FALSE) \o <<" ">> \o Symbols[e.type]
                     \o <<" ">> \o sub(2, Level(e.type) + 1, inside)
            [] e.type \in DOMAIN Signs -> Signs[e.type] \o sub(1, 9, inside)
            [] e.type \in DOMAIN PostfixSigns -> sub(1, 9, FALSE) \o PostfixSigns[e.type]
            [] e.type = "ExplicitCast" ->
                 Parens(e.nodes[1].text) \o <<" ">> \o sub(2, 1, TRUE)
            [] e.type = "FunctionCall" ->
                 e.text \o Parens(Separated([k \in DOMAIN e.nodes |-> sub(k, 1, TRUE)],
                                            <<",", " ">>))
            [] OTHER -> e.text
    IN  IF bare THEN text ELSE Parens(text)

Whole(e) == Expression(e, 1, TRUE)

(* Keywords are not reserved: "return x = 1" and "do x = 1; while (..)"    *)
(* are read as definitions of x, of types return and do.                   *)
RECURSIVE StartsLikeDefinition(_)
StartsLikeDefinition(e) ==
    /\ e.type \in Assignments
    /\ \/ StartsLikeDefinition(e.nodes[1])
       \/ e.type = "Assignment" /\ e.nodes[1].type \in {"VariableReference", "Bool"}

AfterKeyword(e) == IF StartsLikeDefinition(e) THEN Parens(Whole(e)) ELSE Whole(e)

(* The text of a statement where pureStatement is asked for, and where     *)
(* statement is.                                                           *)
RECURSIVE Pure(_)
RECURSIVE Statement(_)
Pure(s) ==
    LET condition(k) == IF s.nodes[k].type = "null" THEN <<>> ELSE Whole(s.nodes[k])
    IN  CASE s.type = "NullStatement" -> <<>>
          [] s.type = "ContinueStatement" -> <<"continue">>
          [] s.type = "BreakStatement" -> <<"break">>
          [] s.type = "ExpressionStatement" -> Whole(s.nodes[1])
          [] s.type = "ReturnStatement" -> <<"return">> \o
               IF s.nodes[1].type = "null" THEN <<>>
               ELSE <<" ">> \o AfterKeyword(s.nodes[1])
          [] s.type = "VariableDefinitionStatement" ->
               s.nodes[1].text \o <<" ">> \o s.text \o <<"=">> \o Whole(s.nodes[2])
          [] s.type = "IfStatement" ->
               <<"if">> \o Parens(condition(1)) \o Statement(s.nodes[2])
                   \o IF s.nodes[3].type = "null" THEN <<>>
                      ELSE <<"else", " ">> \o Statement(s.nodes[3])
          [] s.type = "WhileStatement" ->
               <<"while">> \o Parens(condition(1)) \o Statement(s.nodes[2])
          [] s.type = "DoWhileStatement" ->
               <<"do", " ">>
                   \o (IF s.nodes[1].type = "ExpressionStatement"
                       THEN AfterKeyword(s.nodes[1].nodes[1]) \o <<";">>
                       ELSE Statement(s.nodes[1]))
                   \o <<"while">> \o Parens(condition(2))
          [] s.type = "ForStatement" ->
               <<"for">> \o Parens(Pure(s.nodes[1]) \o <<";">> \o condition(2)
                                       \o <<";">> \o Pure(s.nodes[3]))
                   \o Statement(s.nodes[4])
          [] s.type = "CompositeStatement" ->
               <<"{">> \o FlattenSeq([k \in DOMAIN s.nodes |-> Statement(s.nodes[k])])
                   \o <<"}">>

Statement(s) ==
    IF s.type \in {"CompositeStatement", "IfStatement", "ForStatement", "WhileStatement"}
    THEN Pure(s) ELSE Pure(s) \o <<";">>

Function(f) ==
    LET parameters == SubSeq(f.nodes, 2, Len(f.nodes) - 1)
        typed(d) == d.nodes[1].text \o <<" ">> \o d.text
    IN  typed(f)
            \o Parens(Separated([k \in DOMAIN parameters |-> typed(parameters[k])], <<",">>))
            \o Statement(Last(f.nodes))

(* The text of a tree, for each of the rules the parser offers.            *)
SourceOf(rule, dom) ==
    CASE rule = "expression" -> Whole(dom)
      [] rule = "pureStatement" -> Pure(dom)
      [] rule = "statement" -> Statement(dom)
      [] rule = "functionDefinition" -> Function(dom)
      [] rule = "program" -> FlattenSeq([k \in DOMAIN dom.nodes |-> Function(dom.nodes[k])])
=============================================================================

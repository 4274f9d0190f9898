------------------------------ MODULE MCParsers ------------------------------
EXTENDS Parsers

MCLetters ==
    {"x", "int", "true", "false", "if", "else", "for", "while", "do",
     "continue", "break", "return"}

EveryBinary == DOMAIN Symbols
EveryUnary == DOMAIN Signs \cup DOMAIN PostfixSigns
OfEachLevel == {"Assignment", "Or", "And", "Equal", "LessOrEqual", "Sub", "Mul"}
EachLeaf ==
    {Variable, Dom("Int", <<"1">>, <<>>), Dom("Bool", <<"true">>, <<>>),
     Dom("Double", <<"1", ".">>, <<>>), Dom("FunctionCall", <<"x">>, <<>>)}
Short == {Variable, Dom("Assignment", <<>>, <<Variable, Variable>>)}

Units(units) == {<<unit>> : unit \in units}
ExpressionLexemes == Units({"x", "-", "=", "/", "(", ")"})
StatementLexemes ==
    Units({"x", ";", "{", "}"}) \cup
    {<<"if", "(", "x", ")">>, <<"else", " ">>}
EachLexemes == [expression |-> ExpressionLexemes, statement |-> StatementLexemes]
=============================================================================

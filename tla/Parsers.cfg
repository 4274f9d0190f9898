\* Trees: every operator, then one of each level around it; casts and calls; the
\* statements made of such expressions, and statements in statements, functions
\* and programs around short ones.  Texts: made of the characters of
\* expressions, and of words of statements.
SPECIFICATION Spec
CONSTANTS
    Running = {"trees", "texts"}
    Letters <- MCLetters
    Digits = {"1"}
    FirstBinary <- EveryBinary
    FirstUnary <- EveryUnary
    Binary <- OfEachLevel
    Unary = {"MinusSign", "PostfixIncrement"}
    Leaves <- EachLeaf
    Grown <- Short
    MaxSteps = 2
    MaxStatements = 3
    Methods = {"expression", "statement"}
    Lexemes <- EachLexemes
    MaxLexemes = 5
INVARIANTS RoundTrip ReadsAsWritten
\* A tree of the last step grows no further, a parsed source goes no further.
CHECK_DEADLOCK FALSE

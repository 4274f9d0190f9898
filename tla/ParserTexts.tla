----------------------------- MODULE ParserTexts -----------------------------
(***************************************************************************)
(* Every short source, sensible or not, and what Parser makes of it.       *)
(***************************************************************************)
EXTENDS GrammarPrinter

CONSTANTS Methods,   \* the rules asked for, and for each what the sources
          Lexemes,   \* are put together from, as units
          MaxLexemes \* bound: how many a source is made of

ASSUME TextsAssumption ==
    /\ MaxLexemes \in Nat
    /\ Methods \subseteq DOMAIN Rules \cap DOMAIN Lexemes

VARIABLES method,  \* the rule the source is written for
          source,  \* the text, a sequence of units
          written, \* how many lexemes it is made of
          parsed   \* what came of the last parse of it

texts == <<method, source, written, parsed>>

NotParsed == Upto(1)

TextsInit == method \in Methods /\ source = <<>> /\ written = 0 /\ parsed = NotParsed

Write(lexeme) ==
    /\ parsed = NotParsed
    /\ written < MaxLexemes
    /\ source' = source \o lexeme /\ written' = written + 1
    /\ UNCHANGED <<method, parsed>>

(* Parser.parseExpression, parseStatement and the others, each asking for  *)
(* the rule of its name.                                                   *)
Parse ==
    /\ parsed = NotParsed
    /\ parsed' = Match(Rule(method), source, 1)
    /\ UNCHANGED <<method, source, written>>

TextsNext ==
    \/ \E lexeme \in Lexemes[method] : Write(lexeme)
    \/ Parse

-----------------------------------------------------------------------------
IsOk == parsed # NotParsed /\ ParseResult(parsed).isOk

WithoutSpaceOrParens(text) ==
    SelectSeq(text, LAMBDA unit : unit \notin White \cup {"(", ")"})
Opened(text) == Cardinality({k \in DOMAIN text : text[k] = "("})
HasComment(text) ==
    \E k \in 1 .. Len(text) - 1 : text[k] = "/" /\ text[k + 1] \in {"/", "*"}

(* Whatever the parser accepts it has read as the precedences say: the     *)
(* tree, written down with as few parentheses as they allow, is the part   *)
(* of the source that was read, space and superfluous parentheses aside.   *)
(* Nothing of that part is dropped or moved, no operand goes to a wrong    *)
(* operator, and no else to a wrong if.                                    *)
ReadsAsWritten ==
    (IsOk /\ ~HasComment(source)) =>
        LET read  == SubSeq(source, 1, parsed.at - 1)
            again == SourceOf(method, ParseResult(parsed).domElement)
        IN  /\ WithoutSpaceOrParens(again) = WithoutSpaceOrParens(read)
            /\ Opened(again) <= Opened(read)
=============================================================================

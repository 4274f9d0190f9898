------------------------------- MODULE Parsers -------------------------------
(***************************************************************************)
(* The parser, asked in two ways: with the sources of trees (ParserTrees)  *)
(* and with sources of any kind (ParserTexts).  A behaviour does one of    *)
(* them.                                                                   *)
(***************************************************************************)
EXTENDS ParserTrees, ParserTexts

CONSTANT Running  \* a subset of "trees" and "texts"

VARIABLE running

Init ==
    /\ running \in Running
    /\ TreesInit /\ TextsInit
    /\ running # "trees" => dom = CHOOSE leaf \in Leaves : TRUE
    /\ running # "texts" => method = CHOOSE m \in Methods : TRUE

Next ==
    /\ UNCHANGED running
    /\ \/ running = "trees" /\ TreesNext /\ UNCHANGED texts
       \/ running = "texts" /\ TextsNext /\ UNCHANGED trees

Spec == Init /\ [][Next]_<<running, trees, texts>>
=============================================================================

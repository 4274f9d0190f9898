--------------------------- MODULE MCBrowserWindow ---------------------------
EXTENDS BrowserWindow, TLC

CONSTANTS a, b

MCWww == <<"www", "a", "com">>
MCPages ==
    {[hostname |-> MCWww, path |-> <<"/", "d", "/", "p">>],
     [hostname |-> <<"a", "com">>, path |-> <<>>]}
MCDomains == {<<"a", "com">>, <<"com">>}
MCPaths == {<<"/">>, <<"/", "d">>}
MCFiled == {[domain |-> MCWww, path |-> <<"/">>, name |-> "n"]}
MCSegments == {"", ".", "..", "a"}
MCHosts == {"", "h"}
MCPorts == {"", "80"}
MCAbove == (a :> NoNode) @@ (b :> a)
MCTagNames ==
    {"A", "AREA", "BASE", "BLOCKQUOTE", "BODY", "BR", "BUTTON", "CANVAS", "CAPTION", "COL",
     "DEL", "DIV", "DL", "FIELDSET", "FORM", "FRAME", "H1", "HEAD", "HR", "HTML", "IFRAME",
     "IMG", "INPUT", "LABEL", "LEGEND", "LI", "LINK", "MAP", "META", "OBJECT", "OPTGROUP",
     "OL", "OPTION", "P", "PARAM", "PRE", "SCRIPT", "SELECT", "SPAN", "STYLE", "TABLE",
     "TBODY", "TD", "TEXTAREA", "TITLE", "TR", "UL", "EM"}
MCTrimmed == ("" :> "") @@ (" 1" :> "1")
MCNumber == ("" :> "0") @@ (" 1" :> "1") @@ ("0" :> "0") @@ ("1" :> "1")
MCPixels == ("" :> "0") @@ (" 1" :> "1")
MCResolved == ("" :> "http://h/a/") @@ (" 1" :> "http://h/a/ 1")
=============================================================================

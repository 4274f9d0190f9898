-------------------------- MODULE MCBrowserDocument --------------------------
EXTENDS BrowserDocument, TLC

CONSTANTS e1, e2, t1, t2, a1, a2, a3, form, image

MCDocumentOf == [node \in Nodes |-> IF node = t2 THEN "another" ELSE "this"]
MCLocal == ("id" :> "id") @@ ("ID" :> "ID") @@ ("p:id" :> "id")
MCLower == ("id" :> "id") @@ ("ID" :> "id") @@ ("p:id" :> "p:id") @@ ("uri" :> "uri") @@ ("URI" :> "uri")
MCTagOf == (form :> "form") @@ (image :> "img")

Space == [tag |-> "#text"]
ParsedCell(tag) == [tag |-> tag, id |-> 0, cellIndex |-> 0]
ParsedRow == [tag |-> "tr", id |-> 0, cells |-> <<ParsedCell("th"), ParsedCell("td")>>]
MCSections == {<<Space, [tag |-> "tbody", childNodes |-> <<Space, ParsedRow, Space>>]>>}
\* The elements and the attributes play the same parts.
Symmetric == Permutations(Elements) \cup Permutations(Attrs)
=============================================================================

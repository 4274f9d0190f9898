--------------------------- MODULE HtmlReflection ---------------------------
(***************************************************************************)
(* The elements of env.rhino.1.2.js: which class createElement gives a tag *)
(* name, and the properties of each class that stand for an attribute.  A  *)
(* property reads one attribute and writes one, mostly the one of its own  *)
(* name: attribute names are compared without case, so that accessKey is   *)
(* accesskey.  Properties that keep more than an attribute (the value of   *)
(* an input, the options of a select) are in modules of their own.         *)
(* A number is told by its numeral, and style, which is an object of its   *)
(* own, is left out.                                                       *)
(***************************************************************************)
EXTENDS Naturals, FiniteSets

CONSTANTS TagNames, \* tag names of HTML
          Values,   \* what a page writes into properties
          None,     \* an attribute that is not there
          Trimmed,  \* functions on texts: without white space around it;
          Number,   \* Number(text);
          Pixels,   \* parseInt(text, 10) || 0;
          Resolved, \* Envjs.uri(text, location)
          MaxWrites \* bound: the attributes of the element

VARIABLES tagName,    \* of the element that was made, None before
          properties, \* those of its class
          attribute   \* the value of each of its attributes

vars == <<tagName, properties, attribute>>

-----------------------------------------------------------------------------
(* A property: the attribute it reads and the one it writes, and how.  No  *)
(* attribute has an empty name.                                            *)
NoName == ""
Reflects(kind, p, reads, writes) ==
    [q \in {p} |-> [kind |-> kind, reads |-> reads, writes |-> writes]]
Text(ps) == [p \in ps |-> [kind |-> "text", reads |-> p, writes |-> p]]
Renamed(p, a) == Reflects("text", p, a, a)
(* Shown to be on by one word, and by being there at all.                  *)
Word(p) == Reflects("word", p, p, p)
Presence(p, a) == Reflects("presence", p, a, a)
(* Read only.                                                              *)
Read(ps) == [p \in ps |-> [kind |-> "text", reads |-> p, writes |-> NoName]]

(* Properties of its own over those that a class inherits.                 *)
Over(own, inherited) ==
    [p \in DOMAIN own \cup DOMAIN inherited |-> IF p \in DOMAIN own THEN own[p] ELSE inherited[p]]

-----------------------------------------------------------------------------
(* The classes.                                                            *)
HTMLElement ==
    Over(Text({"dir", "id", "lang", "title", "tabIndex"}), Renamed("className", "class"))
HTMLInputCommon ==
    Over(Text({"accessKey", "access"}), Over(Word("disabled"), HTMLElement))
HTMLTypeValueInputs == Over(Text({"size", "name"}), HTMLInputCommon)
HTMLInputAreaCommon == Over(Word("readOnly"), HTMLTypeValueInputs)
HTMLAnchorElement ==
    Over(Text({"accessKey", "charset", "coords", "href", "hreflang", "name", "rel", "rev",
         "shape", "target", "type"}), HTMLElement)
HTMLAreaElement ==
    Over(Text({"accessKey", "alt", "coords", "href", "target"}),
         Over(Reflects("presence", "noHref", "href", NoName), HTMLElement))
HTMLBaseElement == Over(Text({"href", "target"}), HTMLElement)
HTMLQuoteElement == Over(Text({"cite"}), HTMLElement)
HTMLBodyElement == HTMLElement
HTMLBRElement == HTMLElement
HTMLButtonElement ==
    Over(Text({"dataFormatAs", "type", "value"}), HTMLTypeValueInputs)
HTMLCanvasElement == Over(Text({"height", "width"}), HTMLElement)
HTMLTableColElement ==
    Over(Text({"align", "ch", "span", "vAlign", "width"}),
         Over(Renamed("chOff", "ch"), HTMLElement))
HTMLModElement == Over(Text({"cite", "dateTime"}), HTMLElement)
HTMLDivElement == Over(Text({"align"}), HTMLElement)
HTMLDListElement == HTMLElement
HTMLLegendElement == Over(Text({"align"}), HTMLInputCommon)
HTMLFieldSetElement == Over(Text({"margin"}), HTMLLegendElement)
HTMLFormElement ==
    Over(Text({"action", "enctype", "method", "name", "target"}),
         Over(Renamed("acceptCharset", "accept-charset"), HTMLElement))
HTMLFrameElement ==
    Over(Text({"longDesc", "marginHeight", "marginWidth", "name", "noResize", "scrolling",
         "src"}), Over(Renamed("frameBorder", "border"), HTMLElement))
HTMLFrameSetElement == Over(Text({"cols", "rows"}), HTMLElement)
HTMLHeadingElement == HTMLElement
HTMLHeadElement == Over(Text({"profile"}), HTMLElement)
HTMLHRElement == HTMLElement
HTMLHtmlElement == HTMLElement
HTMLIFrameElement == Over(Text({"height", "width"}), HTMLFrameElement)
HTMLImageElement ==
    Over(Text({"alt", "height", "longDesc", "name", "src", "width"}),
         Over(Reflects("presence", "isMap", "map", NoName),
              Over(Reflects("text", "useMap", NoName, "map"), HTMLElement)))
HTMLInputElement ==
    Over(Text({"alt", "height", "maxLength", "src", "type", "width"}),
         Over(Reflects("text", "useMap", "map", NoName),
              Over(Presence("defaultChecked", "checked"),
                   Over(Renamed("defaultValue", "value"), HTMLInputAreaCommon))))
(* Mutant: the attribute for is read under the property's name. *)
HTMLMisreadLabelElement ==
    Over(Reflects("text", "htmlFor", "htmlFor", "for"),
         Over(Text({"dataFormatAs"}), HTMLInputCommon))
HTMLLabelElement ==
    Over(Renamed("htmlFor", "for"), Over(Text({"dataFormatAs"}), HTMLInputCommon))
HTMLLIElement == HTMLElement
HTMLLinkElement ==
    Over(Text({"disabled", "charset", "href", "hreflang", "media", "rel", "rev", "target",
         "type"}), HTMLElement)
HTMLMapElement == Over(Text({"name"}), HTMLElement)
HTMLMetaElement ==
    Over(Text({"content", "name", "scheme"}),
         Over(Renamed("httpEquiv", "http-equiv"), HTMLElement))
HTMLObjectElement ==
    Over(Text({"code", "archive", "codeBase", "codeType", "data", "declare", "height",
         "standby", "type", "useMap", "width"}), HTMLElement)
HTMLOListElement == HTMLElement
HTMLOptGroupElement == Over(Text({"disabled", "label"}), HTMLElement)
HTMLOptionElement ==
    Over(Text({"label", "name"}), Over(Presence("defaultSelected", "selected"), HTMLInputCommon))
HTMLParagraphElement == HTMLElement
HTMLParamElement == Over(Text({"name", "type", "value", "valueType"}), HTMLElement)
HTMLScriptElement ==
    Over(Renamed("htmlFor", "for"),
         Over(Text({"event", "charset", "defer", "src", "type"}), HTMLElement))
HTMLSelectElement ==
    Over(Presence("multiple", "multiple"),
         Over(Reflects("choice", "type", "multiple", NoName), HTMLTypeValueInputs))
HTMLSpanElement == HTMLElement
HTMLStyleElement == Over(Text({"disabled", "media", "type"}), HTMLElement)
HTMLTableElement ==
    Over(Text({"summary", "align", "bgColor", "cellPadding", "cellSpacing", "frame",
         "rules", "width"}), HTMLElement)
HTMLTableSectionElement ==
    Over(Text({"ch", "chOff"}), Over(Read({"align", "vAlign"}), HTMLElement))
HTMLTableCellElement == HTMLElement
HTMLTextAreaElement ==
    Over(Text({"cols", "rows"}), Over(Read({"type"}), HTMLInputAreaCommon))
HTMLTitleElement == HTMLElement
HTMLTableRowElement ==
    Over(Text({"ch", "chOff"}), Over(Read({"align", "bgColor", "vAlign"}), HTMLElement))
HTMLUListElement == HTMLElement
HTMLUnknownElement == HTMLElement

(* The class of a tag name.                                                *)
PropertiesOf(tag) ==
    CASE tag = "A" -> HTMLAnchorElement           [] tag = "AREA" -> HTMLAreaElement
      [] tag = "BASE" -> HTMLBaseElement          [] tag = "BODY" -> HTMLBodyElement
      [] tag \in {"BLOCKQUOTE", "Q"} -> HTMLQuoteElement
      [] tag = "BR" -> HTMLBRElement              [] tag = "BUTTON" -> HTMLButtonElement
      [] tag = "CANVAS" -> HTMLCanvasElement      [] tag = "DIV" -> HTMLDivElement
      [] tag \in {"CAPTION", "DT", "NOSCRIPT", "SMALL", "STRONG"} -> HTMLElement
      [] tag \in {"COL", "COLGROUP"} -> HTMLTableColElement
      [] tag \in {"DEL", "INS"} -> HTMLModElement [] tag = "DL" -> HTMLDListElement
      [] tag = "FIELDSET" -> HTMLFieldSetElement  [] tag = "FORM" -> HTMLFormElement
      [] tag = "FRAME" -> HTMLFrameElement        [] tag = "HEAD" -> HTMLHeadElement
      [] tag \in {"H1", "H2", "H3", "H4", "H5", "H6"} -> HTMLHeadingElement
      [] tag = "HR" -> HTMLHRElement              [] tag = "HTML" -> HTMLHtmlElement
      [] tag = "IFRAME" -> HTMLIFrameElement      [] tag = "IMG" -> HTMLImageElement
      [] tag = "INPUT" -> HTMLInputElement        [] tag = "LABEL" -> HTMLLabelElement
      [] tag = "LEGEND" -> HTMLLegendElement      [] tag = "LI" -> HTMLLIElement
      [] tag = "LINK" -> HTMLLinkElement          [] tag = "MAP" -> HTMLMapElement
      [] tag = "META" -> HTMLMetaElement          [] tag = "OBJECT" -> HTMLObjectElement
      [] tag = "OPTGROUP" -> HTMLOptGroupElement  [] tag = "OL" -> HTMLOListElement
      [] tag = "OPTION" -> HTMLOptionElement      [] tag = "P" -> HTMLParagraphElement
      [] tag = "PARAM" -> HTMLParamElement        [] tag = "SCRIPT" -> HTMLScriptElement
      [] tag = "SELECT" -> HTMLSelectElement      [] tag = "SPAN" -> HTMLSpanElement
      [] tag = "STYLE" -> HTMLStyleElement        [] tag = "TABLE" -> HTMLTableElement
      [] tag \in {"TBODY", "TFOOT", "THEAD"} -> HTMLTableSectionElement
      [] tag \in {"TD", "TH"} -> HTMLTableCellElement
      [] tag = "TEXTAREA" -> HTMLTextAreaElement  [] tag = "TITLE" -> HTMLTitleElement
      [] tag = "TR" -> HTMLTableRowElement        [] tag = "UL" -> HTMLUListElement
      [] OTHER -> HTMLUnknownElement

-----------------------------------------------------------------------------
Truth(b) == IF b THEN "true" ELSE "false"
Property(p) == properties[p]
Readable == {p \in DOMAIN properties : Property(p).reads # NoName}
Settable == {p \in DOMAIN properties : Property(p).writes # NoName}
AttributesOf(class) ==
    {class[p].reads : p \in DOMAIN class} \union {class[p].writes : p \in DOMAIN class}

(* What a text property shows for a text that is missing or empty, and     *)
(* what it makes of another.                                               *)
Default(tag, p) ==
    CASE p = "dir" -> "ltr"
      [] p = "noResize" -> "false"
      [] p = "align" /\ tag = "DIV" -> "left"
      [] p = "type" /\ tag = "BUTTON" -> "submit"
      [] p = "type" /\ tag = "INPUT" -> "text"
      [] p = "type" /\ tag = "TEXTAREA" -> "textarea"
      [] p = "height" /\ tag = "CANVAS" -> "150"
      [] p = "width" /\ tag = "CANVAS" -> "300"
      [] p \in {"height", "width"} /\ tag = "IMG" -> "0"
      [] p \in {"size", "tabIndex"} -> "0"
      [] p = "maxLength" -> "-1"
      [] p \in {"cols", "rows"} /\ tag = "TEXTAREA" -> "-1"
      [] OTHER -> ""
IsNumber(tag, p) ==
    \/ p \in {"size", "tabIndex", "maxLength"}
    \/ tag = "CANVAS" /\ p \in {"height", "width"}
    \/ tag = "TEXTAREA" /\ p \in {"cols", "rows"}
Converted(tag, p, text) ==
    CASE IsNumber(tag, p) -> Number[text]
      [] p \in {"height", "width"} /\ tag = "IMG" -> Pixels[text]
      [] p = "href" /\ tag = "A" -> Resolved[text]
      [] OTHER -> text
Shown(tag, p, text) ==
    IF text \notin {None, ""} THEN Converted(tag, p, text)
    ELSE IF Default(tag, p) # "" THEN Default(tag, p) ELSE text

(* What reading a property gives, and what a page may write into it.       *)
Get(p) ==
    LET text == attribute[Property(p).reads] IN
    CASE Property(p).kind = "text" -> Shown(tagName, p, text)
      [] Property(p).kind = "word" -> Truth(text = p)
      [] Property(p).kind = "presence" -> Truth(text # None)
      [] Property(p).kind = "choice" -> IF text # None THEN "select-multiple" ELSE "select-one"
ValuesOf(p) == IF Property(p).kind = "text" THEN Values ELSE {"true", "false"}

(* The attribute that writing a property leaves.                           *)
Written(p, v) ==
    CASE Property(p).kind = "word" -> IF v = "true" THEN p ELSE ""
      [] Property(p).kind = "presence" -> IF v = "true" THEN "" ELSE None
      [] Property(p).kind = "text" ->
            IF p = "className" THEN Trimmed[v] ELSE IF p = "tabIndex" THEN Number[v] ELSE v

Init == tagName = None /\ properties = <<>> /\ attribute = <<>>

(* There is no class for PRE: making one fails.                            *)
CreateElement(tag) ==
    /\ tagName = None
    /\ tag # "PRE"
    /\ tagName' = tag
    /\ properties' = PropertiesOf(tag)
    /\ attribute' = [a \in AttributesOf(properties') \ {NoName} |-> None]

Bounded == Cardinality({a \in DOMAIN attribute' : attribute'[a] # None}) <= MaxWrites
Set(p, v) ==
    /\ Property(p).writes # NoName
    /\ attribute' = [attribute EXCEPT ![Property(p).writes] = Written(p, v)]
    /\ Bounded
    /\ UNCHANGED <<tagName, properties>>
SetAttribute(a, v) ==
    /\ attribute' = [attribute EXCEPT ![a] = v]
    /\ Bounded
    /\ UNCHANGED <<tagName, properties>>
RemoveAttribute(a) ==
    /\ attribute' = [attribute EXCEPT ![a] = None]
    /\ UNCHANGED <<tagName, properties>>

Next ==
    \/ \E tag \in TagNames : CreateElement(tag)
    \/ /\ tagName # None
       /\ \/ \E p \in Settable : \E v \in ValuesOf(p) : Set(p, v)
          \/ \E a \in DOMAIN attribute :
                RemoveAttribute(a) \/ \E v \in Values : SetAttribute(a, v)

Spec == Init /\ [][Next]_vars

-----------------------------------------------------------------------------
(* The properties that share an attribute: chOff reads and writes that of  *)
(* ch, isMap asks for that of useMap, noHref for href, and the type of a   *)
(* select tells whether it is multiple.                                    *)
Shared ==
    CASE tagName \in {"COL", "COLGROUP"} -> {{"ch", "chOff"}}
      [] tagName = "IMG" -> {{"useMap", "isMap"}}
      [] tagName = "AREA" -> {{"href", "noHref"}}
      [] tagName = "SELECT" -> {{"multiple", "type"}}
      [] OTHER -> {}

(* What a page means that writes a text: class names without the spaces    *)
(* around them, the value by default if there is none, a number or the     *)
(* address of a link, or what it says.                                     *)
Meant(p, v) ==
    CASE p = "className" -> Trimmed[v]
      [] p # "className" /\ v = "" -> Default(tagName, p)
      [] p # "className" /\ v # "" -> Converted(tagName, p, v)

(* A property the page writes reads back as it was meant, and no other     *)
(* property of the element shows anything new - whatever the class, but    *)
(* for those Shared and for the useMap of an image, which nobody can read. *)
PropertiesStayOwn ==
    tagName # None =>
        \A p \in Settable : \A v \in ValuesOf(p) :
            Set(p, v) =>
                /\ p \in Readable => Get(p)' = IF Property(p).kind = "text" THEN Meant(p, v) ELSE v
                /\ \A q \in Readable \ {p} : Get(q)' = Get(q) \/ {p, q} \in Shared
=============================================================================

---------------------------- MODULE BrowserWindow ----------------------------
(***************************************************************************)
(* The window of env.rhino.1.2.js around its document: what it loads and   *)
(* from where, its cookies, timers and events, and what its elements keep. *)
(* As in BrowserDocument, each module is checked by itself: in a behaviour *)
(* one of them runs and the variables of the others stay as they are.      *)
(***************************************************************************)
EXTENDS Naturals, FiniteSets

CONSTANTS Running,  \* the modules that run
          None, NoNode, Values,
          Pages, Domains, Paths, Names, Writable, Filed, MaxCookies,
          Segments, MaxSegments, Hosts, Ports,
          Delays, MaxTimers, MaxDepth, MaxLate,
          Nodes, Above, Functions, Handled,
          Inputs, MaxOptions,
          Elements, Kinds,
          Urls, Files, Requests, Platforms,
          TagNames, Words, Trimmed, Number, Pixels, Resolved, MaxWrites

ASSUME WindowAssumption ==
    /\ Running \subseteq {"cookies", "urls", "timers", "events", "forms", "select", "insertion",
                          "requests", "reflection"}
    /\ Above \in [Nodes -> Nodes \cup {NoNode}] /\ NoNode \notin Nodes
    /\ \A tree \in SUBSET Nodes : tree # {} => \E n \in tree : Above[n] \notin tree
    /\ Handled \subseteq Nodes
    /\ Writable \subseteq BOOLEAN /\ Platforms \subseteq {"threads", "threadless"}
    /\ Kinds \subseteq {"img", "link", "script", "iframe"}
    /\ MaxTimers \in Nat /\ MaxLate \in Nat /\ Delays \subseteq 0..MaxLate
    /\ IsFiniteSet(Nodes)
(* An attribute that is there and empty is not one that is not there.      *)
ASSUME EmptyAssumption == None # ""
(* Nothing trims to nothing and has the number 0, a text is converted to a *)
(* text, and a number is the number of its numeral.                        *)
ASSUME ConversionAssumption ==
    /\ Trimmed[""] = "" /\ Number[""] = "0"
    /\ \A v \in Words : Number[v] \notin {None, ""} /\ Number[Number[v]] = Number[v]
    /\ \A v \in Words : v # None /\ Trimmed[v] # None
(* The path of the first document is one of the paths.                     *)
ASSUME PathsAssumption == {"", "a"} \subseteq Segments /\ MaxSegments \in Nat

VARIABLES running,
          temporary, persistent, loaded, file, writable, last,
          location,
          timers, frames, runs,
          parentNode, events, event, calls, disturbed,
          inputs,
          options,
          parsing, element,
          platform, xhr, request, cookies,
          tagName, properties, attribute

Cookies    == INSTANCE BrowserCookies
Addresses  == INSTANCE BrowserUrls
Timers     == INSTANCE BrowserTimers
Events     == INSTANCE BrowserEvents
Forms      == INSTANCE HtmlForms
Choosing   == INSTANCE HtmlSelect WITH Nothing <- None
Insertion  == INSTANCE HtmlInsertion
Exchanges  == INSTANCE BrowserRequests
Reflection == INSTANCE HtmlReflection WITH Values <- Words

jar == <<temporary, persistent, loaded, file, writable, last>>
clock == <<timers, frames, runs>>
listening == <<parentNode, events, event, calls, disturbed>>
page == <<parsing, element>>
exchange == <<platform, xhr, request, cookies>>
reflected == <<tagName, properties, attribute>>
all == <<running, jar, location, clock, listening, inputs, options, page, exchange, reflected>>

(* One that does not run needs only one of its initial states.             *)
WindowInit ==
    /\ running \in Running
    /\ Cookies!Init /\ Addresses!Init /\ Timers!Init /\ Events!Init
    /\ Forms!Init /\ Choosing!Init /\ Insertion!Init /\ Exchanges!Init /\ Reflection!Init
    /\ running # "cookies" =>
          file = Cookies!NoCookies /\ writable = CHOOSE w \in Writable : TRUE
    /\ running # "requests" => platform = CHOOSE p \in Platforms : TRUE

WindowNext ==
    /\ UNCHANGED running
    /\ \/ /\ running = "cookies" /\ Cookies!Next
          /\ UNCHANGED <<location, clock, listening, inputs, options, page, exchange, reflected>>
       \/ /\ running = "urls" /\ Addresses!Next
          /\ UNCHANGED <<jar, clock, listening, inputs, options, page, exchange, reflected>>
       \/ /\ running = "timers" /\ Timers!Next
          /\ UNCHANGED <<jar, location, listening, inputs, options, page, exchange, reflected>>
       \/ /\ running = "events" /\ Events!Next
          /\ UNCHANGED <<jar, location, clock, inputs, options, page, exchange, reflected>>
       \/ /\ running = "forms" /\ Forms!Next
          /\ UNCHANGED <<jar, location, clock, listening, options, page, exchange, reflected>>
       \/ /\ running = "select" /\ Choosing!Next
          /\ UNCHANGED <<jar, location, clock, listening, inputs, page, exchange, reflected>>
       \/ /\ running = "insertion" /\ Insertion!Next
          /\ UNCHANGED <<jar, location, clock, listening, inputs, options, exchange, reflected>>
       \/ /\ running = "requests" /\ Exchanges!Next
          /\ UNCHANGED <<jar, location, clock, listening, inputs, options, page, reflected>>
       \/ /\ running = "reflection" /\ Reflection!Next
          /\ UNCHANGED <<jar, location, clock, listening, inputs, options, page, exchange>>

WindowSpec == WindowInit /\ [][WindowNext]_all /\ (running = "timers" => Timers!Fairness)

-----------------------------------------------------------------------------
(* The properties are those of the modules.                                *)

(* A page reads back the temporary cookie it set last.                     *)
SessionReadsBack == running = "cookies" => Cookies!SessionReadsBack

(* A persistent cookie is there in the next session.                       *)
PersistentReadsBack == running = "cookies" => Cookies!PersistentReadsBack

(* Addresses lose their dot segments, and stay as they were resolved.      *)
AddressesAreResolved == running = "urls" => Addresses!AddressesAreResolved

(* However calls of wait are nested, a callback is started once.           *)
StartsOnce == running = "timers" => Timers!StartsOnce

(* A call of wait returns, once no timers are set, unless by an interval.  *)
WaitReturns == running = "timers" => Timers!WaitReturns

(* An event calls the listeners on its way, in the order of the tree.      *)
ListenersAreCalled == running = "events" => Events!ListenersAreCalled

(* An input shows what the page wrote into it.                             *)
PageDecides == running = "forms" => Forms!PageDecides

(* A select shows the option that was chosen.                              *)
ShowsChosen == running = "select" => Choosing!ShowsChosen

(* What an element refers to is loaded once.                               *)
LoadedOnce == running = "insertion" => Insertion!LoadedOnce

(* A request that was left alone hears its own answer.                     *)
HeardIsOwn == running = "requests" => Exchanges!HeardIsOwn

(* A property of an element reads back what was written into it.           *)
PropertiesAreOwn == [][running = "reflection" => Reflection!PropertiesStayOwn]_all
=============================================================================

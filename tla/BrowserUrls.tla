------------------------------ MODULE BrowserUrls ------------------------------
(***************************************************************************)
(* The addresses of env.rhino.1.2.js: urlparse and Envjs.uri, which        *)
(* resolves what a link, a script, a frame or a request names against the  *)
(* address of the document.                                                *)
(*                                                                         *)
(* An address is what urlsplit takes it apart to.  A path is the sequence  *)
(* that split("/") makes of it: "/a/b" is <<"", "a", "b">>, "a/" is        *)
(* <<"a", "">>, and the empty path <<>>.                                   *)
(***************************************************************************)
EXTENDS Integers, Sequences, SequencesExt, FiniteSets

CONSTANTS Segments,              \* segments of paths: "", ".", ".." and words of letters
          MaxSegments,           \* bound: how many a path has
          Hosts, Ports,          \* "" among them
          None                   \* the address for which nothing is loaded

VARIABLES location  \* the address of the document

Empty == ""
Stay == "."
Back == ".."
DefaultPort == [http |-> "80", https |-> "443"]
Schemes == {"file", "http", "https"}
NoPort == Empty
Root == <<Empty, Empty>>

(* parts[0]: does the path begin with a segment, and not with "/"?         *)
Relative(path) == path # <<>> /\ path[1] # Empty

(* The segments that are kept; ".." takes back the last one, unless there  *)
(* are only so many.                                                       *)
KeptBut(path, few) ==
    LET Kept[i \in 0..Len(path)] ==
            IF i = 0 THEN IF Relative(path) THEN <<Empty>> ELSE <<>>
            ELSE CASE path[i] = Stay -> Kept[i - 1]
                   [] path[i] = Back /\ Len(Kept[i - 1]) > few -> Front(Kept[i - 1])
                   [] OTHER -> Append(Kept[i - 1], path[i])
    IN  Kept[Len(path)]
PathOf(path, parts) == IF path \in {<<>>, Root} \/ parts = <<Empty>> THEN Root ELSE parts

(* Mutant: the first segment below the root is never taken back. *)
NormalizePathBelow(path) == PathOf(path, KeptBut(path, 2))

NormalizePath(path) == PathOf(path, KeptBut(path, 1))

(* urlsplit, for which the colon of a scheme is optional: a//b names the   *)
(* host b for it, under a scheme a that is none of those below.            *)
Dots == {Stay, Back}
ReadAsScheme(url) ==
    /\ url.scheme = Empty /\ url.hostname = Empty
    /\ Len(url.path) > 2 /\ url.path[1] \notin Dots \cup {Empty} /\ url.path[2] = Empty

(* urlnormalize of what urlsplit returns: a file has neither query nor     *)
(* fragment, the port of the scheme is left out, and the address of        *)
(* another scheme stays as it is.                                          *)
UrlNormalize(url) ==
    LET path == NormalizePath(url.path) IN
    IF url.scheme = "file"
    THEN [url EXCEPT !.query = FALSE, !.fragment = FALSE, !.path = path]
    ELSE IF url.scheme \in DOMAIN DefaultPort
    THEN [url EXCEPT !.port = IF @ = DefaultPort[url.scheme] THEN NoPort ELSE @, !.path = path]
    ELSE url

(* The last segment of the base gives way to a relative path.              *)
JoinPath(base, path) ==
    IF path = <<>> THEN base
    ELSE IF Relative(path) /\ Len(base) > 1 THEN Front(base) \o path ELSE path

(* urljoin without fragments, which only an address that has a scheme      *)
(* keeps.  A base without a host takes the other's.                        *)
UrlJoin(base, url) ==
    LET owner == IF base.hostname = Empty THEN url ELSE base IN
    IF url.scheme # Empty \/ ReadAsScheme(url) THEN url
    ELSE [scheme |-> base.scheme, hostname |-> owner.hostname, port |-> owner.port,
          path |-> NormalizePath(JoinPath(base.path, url.path)),
          query |-> url.query, fragment |-> FALSE]

(* Envjs.uri.  A path that begins with two slashes names a host.           *)
Uri(url, base) ==
    IF url.scheme = "javascript" THEN None
    ELSE IF url.scheme # Empty THEN UrlNormalize(url)
    ELSE IF url.hostname # Empty THEN UrlNormalize(UrlJoin(base, [url EXCEPT !.scheme = "http"]))
    ELSE UrlNormalize(UrlJoin(base, url))

-----------------------------------------------------------------------------
Start == \* 'file://' + Envjs.getcwd() + '/', for about:blank
    [scheme |-> "file", hostname |-> Empty, port |-> NoPort, path |-> <<Empty, "a", Empty>>,
     query |-> FALSE, fragment |-> FALSE]

PathsUpTo(n) == UNION {[1..k -> Segments] : k \in 0..n}
Addresses ==
    [scheme : Schemes \cup {Empty, "javascript"}, hostname : Hosts, port : Ports,
     path : PathsUpTo(MaxSegments), query : BOOLEAN, fragment : BOOLEAN]

(* What can be written as a text that urlsplit takes apart like this.      *)
Written(url) ==
    /\ url.hostname = Empty => url.port = NoPort
    /\ url.hostname # Empty \/ url.scheme # Empty => ~Relative(url.path)
    /\ url.scheme = "javascript" => url.hostname = Empty
    /\ url.path # <<Empty>>
    /\ url.hostname = Empty /\ Len(url.path) > 2 => <<url.path[1], url.path[2]>> # Root

(* The document loads what a link of it names, if that has a scheme.       *)
Follow(url) ==
    /\ Uri(url, location) # None /\ ~ReadAsScheme(url)
    /\ Len(Uri(url, location).path) <= MaxSegments
    /\ location' = Uri(url, location)

Init == location = Start
Next == \E url \in Addresses : Written(url) /\ Follow(url)
Spec == Init /\ [][Next]_location

-----------------------------------------------------------------------------
(* How often a segment is in a part of a path.                             *)
Count(path, i, j, which) == Cardinality({k \in i..j : path[k] \in which})

(* The segments a path means: neither dot segments, nor those that a ".."  *)
(* takes back.                                                             *)
TakenBack(path, i) ==
    \E j \in (i + 1)..Len(path) :
        Count(path, i, j, {Back}) = Count(path, i, j, Segments \ Dots)
Meant(path) ==
    LET kept == {i \in 1..Len(path) : path[i] \notin Dots /\ ~TakenBack(path, i)}
    IN  [k \in 1..Cardinality(kept) |->
            path[CHOOSE i \in kept : Cardinality({j \in kept : j < i}) = k - 1]]
Climbs(path) ==
    \E n \in 2..Len(path) :
        Count(path, 2, n, {Back}) > Count(path, 2, n, Segments \ Dots)

(* Whatever relative path a document links to, dot segments are removed as *)
(* RFC 3986, 5.2 says (the comment on normalizepath leads there), but for  *)
(* three cases: a path that climbs over its root keeps a "..", one that    *)
(* ends in a dot segment loses its last slash, and one like a//b is taken  *)
(* for a scheme and a host.  And an address that was resolved is resolved  *)
(* for good: from any document it is the same again.                       *)
AddressesAreResolved ==
    /\ \A path \in PathsUpTo(MaxSegments) :
          LET whole == JoinPath(location.path, path)
              link == [Start EXCEPT !.scheme = Empty, !.path = path]
          IN  path # <<>> /\ Relative(path) /\ ~ReadAsScheme(link)
                /\ Last(path) \notin Dots /\ ~Climbs(whole)
              => Uri(link, location).path = Meant(whole)
    /\ \A base \in {Start, location} : Uri(location, base) = location
=============================================================================

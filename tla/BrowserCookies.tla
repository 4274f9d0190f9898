---------------------------- MODULE BrowserCookies ----------------------------
(***************************************************************************)
(* The cookies of env.rhino.1.2.js: Envjs.setCookie, Envjs.getCookies and  *)
(* the file .cookies of the home directory.  A cookie with max-age is      *)
(* persistent, any other one temporary; both are kept in memory under      *)
(* their domain, path and name.  The file is read once, by the first       *)
(* getCookies, and is written by every setCookie of a persistent cookie.   *)
(*                                                                         *)
(* A domain is the sequence of its labels, a path that of its characters.  *)
(***************************************************************************)
EXTENDS Integers, Sequences, SequencesExt, FiniteSets

CONSTANTS Pages,    \* addresses of pages: [hostname, path]
          Domains,  \* what a cookie may name as its domain
          Paths,    \* what a cookie may name as its path
          Names, Values,
          Writable, \* can the file be opened for writing? (a set of answers)
          None,     \* no such attribute, no such cookie
          Filed,    \* cookies that an earlier session may have left in the file
          MaxCookies \* bound: cookies in memory

VARIABLES temporary, persistent, \* Envjs.cookies: a value for each place
          loaded,                \* __cookies__
          file,                  \* the cookies .cookies holds
          writable,              \* can it be opened for writing?
          last                   \* ghost: the latest cookie set, and by whom

vars == <<temporary, persistent, loaded, file, writable, last>>

NoCookies == [place \in {} |-> None]

(* Is a path part of another one?  (url.path.indexOf(path) > -1)           *)
OccursIn(path, whole) ==
    \E i \in 0..(Len(whole) - Len(path)) : SubSeq(whole, i + 1, i + Len(path)) = path

(* A cookie may name a domain that the page's host name ends with, unless  *)
(* it is a single label.                                                   *)
DomainValid(page, domain) == Len(domain) > 1 /\ IsSuffix(domain, page.hostname)

Place(page, cookie) ==
    [domain |-> IF cookie.domain # None /\ DomainValid(page, cookie.domain)
                THEN cookie.domain ELSE page.hostname,
     path   |-> IF cookie.path # None THEN cookie.path
                ELSE IF page.path # <<>> THEN page.path ELSE <<"/">>,
     name   |-> cookie.name]

(* Mutant: a cookie that is there already keeps its value. *)
MergeNewCookie(cookies, place, value) ==
    [p \in DOMAIN cookies \cup {place} |-> IF p \in DOMAIN cookies THEN cookies[p] ELSE value]

MergeCookie(cookies, place, value) ==
    [p \in DOMAIN cookies \cup {place} |-> IF p = place THEN value ELSE cookies[p]]

(* What a page is told of some cookies.                                    *)
Matches(place, page) ==
    /\ place.domain \in {<<"">>, page.hostname}
    /\ place.path = <<"/">> \/ OccursIn(place.path, page.path)
CookieString(cookies, page) == {<<p.name, cookies[p]>> : p \in {q \in DOMAIN cookies : Matches(q, page)}}

(* Loading the file replaces all cookies of the domains it knows.          *)
Extended(cookies, more) ==
    LET known == {p.domain : p \in DOMAIN more}
        kept  == {p \in DOMAIN cookies : p.domain \notin known}
    IN  [p \in kept \cup DOMAIN more |-> IF p \in kept THEN cookies[p] ELSE more[p]]

-----------------------------------------------------------------------------
(* saveCookies looks for the cookies under a misspelt name and finds none: *)
(* the file is emptied when it is opened, and writing undefined throws.    *)
SaveCookies == file' = IF writable THEN NoCookies ELSE file

SetCookie(page, cookie) ==
    LET place == Place(page, cookie) IN
    /\ IF cookie.maxAge
       THEN /\ persistent' = MergeCookie(persistent, place, cookie.value)
            /\ SaveCookies
            /\ UNCHANGED temporary
       ELSE /\ temporary' = MergeCookie(temporary, place, cookie.value)
            /\ UNCHANGED <<persistent, file>>
    /\ Cardinality(DOMAIN temporary') + Cardinality(DOMAIN persistent') <= MaxCookies
    /\ last' = [page |-> page, cookie |-> cookie]
    /\ UNCHANGED <<loaded, writable>>

(* The first call loads the file; what it returns is Told.                 *)
GetCookies ==
    /\ ~loaded
    /\ loaded' = TRUE
    /\ persistent' = Extended(persistent, file)
    /\ UNCHANGED <<temporary, file, writable, last>>

Told(page) == CookieString(temporary, page) \cup CookieString(persistent, page)

(* The script is evaluated again in a new process.                         *)
Restart ==
    /\ temporary' = NoCookies /\ persistent' = NoCookies
    /\ loaded' = FALSE
    /\ last' = IF last # None /\ last.cookie.maxAge THEN last ELSE None
    /\ UNCHANGED <<file, writable>>

Init ==
    /\ temporary = NoCookies /\ persistent = NoCookies
    /\ loaded = FALSE
    /\ file \in {NoCookies} \cup {[p \in {place} |-> v] : place \in Filed, v \in Values}
    /\ writable \in Writable
    /\ last = None

Cookies ==
    [name : Names, value : Values, domain : Domains \cup {None},
     path : Paths \cup {None}, maxAge : BOOLEAN]

Next ==
    \/ \E page \in Pages, cookie \in Cookies : SetCookie(page, cookie)
    \/ GetCookies
    \/ Restart

Spec == Init /\ [][Next]_vars

-----------------------------------------------------------------------------
(* Is the page that set the cookie told of it?                             *)
TellsLast == <<last.cookie.name, last.cookie.value>> \in Told(last.page)

(* A page reads back the temporary cookie it set last, whatever was set    *)
(* before, unless the cookie names a wider domain or a path the page is    *)
(* not at.                                                                 *)
SessionReadsBack ==
    last # None /\ ~last.cookie.maxAge
      /\ Matches(Place(last.page, last.cookie), last.page) => TellsLast

(* What the comment on saveCookies and setCookie says: a persistent cookie *)
(* is saved, and so is there in the next session.                          *)
PersistentReadsBack ==
    last # None /\ last.cookie.maxAge /\ loaded
      /\ Matches(Place(last.page, last.cookie), last.page) => TellsLast
=============================================================================

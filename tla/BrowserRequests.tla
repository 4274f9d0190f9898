--------------------------- MODULE BrowserRequests ---------------------------
(***************************************************************************)
(* An XMLHttpRequest of env.rhino.1.2.js that a page uses, once or again.  *)
(* send() makes the request itself when it is synchronous, or when the     *)
(* platform has no threads; otherwise a thread of its own makes it, one    *)
(* such thread at a time.  A request reads the url of the object when it   *)
(* connects, and the page may have opened another one by then.             *)
(*                                                                         *)
(* "POST" stands for PUT, POST and DELETE too: of a file: url they write   *)
(* or delete the file, and nothing is read.                                *)
(***************************************************************************)
EXTENDS Naturals, FiniteSets

CONSTANTS Urls,     \* what a page asks for
          Files,    \* those of them that are file: urls
          None,     \* no url yet, and no answer
          Requests, \* bound: the calls of send()
          Platforms \* a subset of "threads" and "threadless"

VARIABLES platform, \* what Rhino runs on
          xhr,      \* the object; "headers", the urls it has cookie headers of
          request,  \* the requests: see NewRequest
          cookies   \* the cookies that were set: <<url it is filed for, url it is from>>

vars == <<platform, xhr, request, cookies>>

Methods == {"GET", "POST"}
Stores(method, url) == method # "GET" /\ url \in Files

(* Where a request is, and what it asked for; ghosts: the url there was    *)
(* when it was sent, the texts that may be its answer, whether the page    *)
(* and other requests left it alone, and the text its callback found.      *)
NewRequest ==
    [stage |-> "unsent", blocks |-> FALSE, url |-> None, stores |-> FALSE,
     sent |-> None, own |-> {}, alone |-> TRUE, heard |-> {}]
Under(r) == request[r].stage \in {"waiting", "connected", "answered"}

(* The page runs unless it is waiting in send().                           *)
PageRuns == \A r \in Requests : ~(Under(r) /\ request[r].blocks)

Disturbed ==
    [r \in Requests |-> [request[r] EXCEPT !.alone = request[r].alone /\ ~Under(r)]]

Init ==
    /\ platform \in Platforms
    /\ xhr = [readyState |-> 0, method |-> None, url |-> None, aborted |-> FALSE,
              responseText |-> None, headers |-> {}]
    /\ request = [r \in Requests |-> NewRequest]
    /\ cookies = {}

-----------------------------------------------------------------------------
(* open() keeps everything but the url, the method and the state of the    *)
(* object.                                                                 *)
Open(method, url) ==
    /\ PageRuns
    /\ xhr' = [xhr EXCEPT !.readyState = 1, !.method = method, !.url = url]
    /\ request' = Disturbed
    /\ UNCHANGED <<platform, cookies>>

(* The answer is a text from its url; where a file is written or deleted   *)
(* the text of the object stays, or tells why it was not.                  *)
OwnTexts ==
    {xhr.url} \union (IF Stores(xhr.method, xhr.url) THEN {xhr.responseText} ELSE {})

(* Mutant: where there are no threads, an asynchronous request does not block. *)
SendInThread(r, async) ==
    /\ PageRuns
    /\ xhr.url # None
    /\ request[r].stage = "unsent"
    /\ request' = [Disturbed EXCEPT ![r] =
           [NewRequest EXCEPT !.stage = "waiting", !.blocks = ~async,
                              !.sent = xhr.url, !.own = OwnTexts,
                              !.alone = \A other \in Requests : ~Under(other)]]
    /\ UNCHANGED <<platform, xhr, cookies>>

Send(r, async) ==
    /\ PageRuns
    /\ xhr.url # None
    /\ request[r].stage = "unsent"
    /\ request' = [Disturbed EXCEPT ![r] =
           [NewRequest EXCEPT !.stage = "waiting",
                              !.blocks = ~async \/ platform = "threadless",
                              !.sent = xhr.url, !.own = OwnTexts,
                              !.alone = \A other \in Requests : ~Under(other)]]
    /\ UNCHANGED <<platform, xhr, cookies>>

(* abort() is remembered for as long as the object lives.                  *)
Abort ==
    /\ PageRuns
    /\ xhr' = [xhr EXCEPT !.aborted = TRUE]
    /\ UNCHANGED <<platform, request, cookies>>

-----------------------------------------------------------------------------
(* makeRequest.  Threads of the platform wait for each other.              *)
Connect(r) ==
    /\ request[r].stage = "waiting"
    /\ request[r].blocks \/ \A other \in Requests :
           request[other].stage \in {"connected", "answered"} => request[other].blocks
    /\ request' = [request EXCEPT ![r].stage = "connected", ![r].url = xhr.url,
                                  ![r].stores = Stores(xhr.method, xhr.url)]
    /\ UNCHANGED <<platform, xhr, cookies>>

(* A connection that fails is an exception, in send() or in the thread,    *)
(* before its headers are there or after; the object is done in the second *)
(* case, and keeps its text.  To open a file does not fail so: see Answer. *)
Headers(r) == xhr.headers \union ({request[r].url} \ Files)
Fail(r) ==
    /\ request[r].stage = "connected" /\ ~request[r].stores
    /\ request' = [request EXCEPT ![r].stage = "failed"]
    /\ \/ request[r].url \notin Files /\ xhr' = xhr
       \/ xhr' = [xhr EXCEPT !.readyState = 4, !.headers = Headers(r)]
    /\ UNCHANGED <<platform, cookies>>

(* The answer goes into the object, its headers to those that are there;   *)
(* the cookies among all of them are filed for the object's url.  A file   *)
(* has none, and one that cannot be opened, written or deleted is answered *)
(* with a page that says so.                                               *)
Answer(r) ==
    /\ request[r].stage = "connected"
    /\ \E text \in {request[r].url} \union (IF request[r].stores THEN {xhr.responseText} ELSE {}) :
          xhr' = [xhr EXCEPT !.readyState = 4, !.responseText = text, !.headers = Headers(r)]
    /\ cookies' = IF xhr.aborted THEN cookies
                  ELSE cookies \union {<<xhr.url, from>> : from \in xhr'.headers}
    /\ request' = [request EXCEPT ![r].stage = "answered"]
    /\ UNCHANGED platform

(* onreadystatechange, unless the object was aborted.                      *)
CallBack(r) ==
    /\ request[r].stage = "answered"
    /\ request' = [request EXCEPT
           ![r].stage = "done",
           ![r].heard = IF xhr.aborted THEN {} ELSE {xhr.responseText}]
    /\ UNCHANGED <<platform, xhr, cookies>>

Next ==
    \/ Abort
    \/ \E method \in Methods, url \in Urls : Open(method, url)
    \/ \E r \in Requests :
          \/ \E async \in BOOLEAN : Send(r, async)
          \/ Connect(r) \/ Fail(r) \/ Answer(r) \/ CallBack(r)

Spec == Init /\ [][Next]_vars

-----------------------------------------------------------------------------
(* A request that was the only one of its object while it was under way,   *)
(* and whose object was not opened again meanwhile, finds its own answer   *)
(* in the object when it calls back, or the text there was before if it    *)
(* stored into a file; it calls back unless it failed or the object was    *)
(* ever aborted; without threads that is every request.  If it was the     *)
(* only one the object ever made, the cookies are its own too.             *)
HeardIsOwn ==
    \A r \in Requests :
        /\ request[r].stage = "done" /\ request[r].alone =>
              /\ request[r].heard \subseteq request[r].own
              /\ request[r].heard = {} => xhr.aborted
              /\ (\A other \in Requests \ {r} : request[other].stage = "unsent") =>
                    cookies \subseteq {<<request[r].sent, request[r].sent>>}
        /\ platform = "threadless" => request[r].alone
=============================================================================

# Verification of java-library-experiments

The repository is a collection of about a hundred small programs, each of them
trying a Java library.  Most call the library and assert on what it answers.  A
few have logic, shared state and concurrency of their own, and one of them brings
14,000 lines of JavaScript with it, a whole browser environment; those are specified
here in TLA+, checked with TLC and, where it matters, proved with TLAPS.

The programs share no code and no state, so there is one specification per
program; `Experiments` and `Services` only run one of several.  Within a program
the specification composes what interacts: threads, broker, network, database,
caches.

1. [Inventory](#inventory)
2. [Modules](#modules)
3. [Todo service](#todo-service-axon-experiment)
4. [Calculator RPC](#calculator-rpc-java-rabbitmq-experiment)
5. [Calculator over TCP](#calculator-over-tcp-netty-experiment)
6. [Parser](#parser-parboiled-experiment)
7. [Small experiments](#small-experiments)
8. [Browser environment](#browser-environment-rhino-experiment)
9. [Runs and bounds](#runs-and-bounds)
10. [Fairness](#fairness)
11. [What is proved](#what-is-proved)
12. [What the checks found](#what-the-checks-found)
13. [What is not modelled](#what-is-not-modelled)
14. [Plan](#plan)

## Inventory

| program | state | operations | how the parts interact | what is hard | what makes it correct |
|---|---|---|---|---|---|
| `axon-experiment` | event store, todo table, counter row, aggregate locks, one transaction per call | createTodo, updateTodo, deleteTodo, countTodos, countTodos2 | a command handler loads an aggregate, the unit of work publishes its event to two event handlers, all in the caller's transaction | overlapping transactions, a lock that is released before the commit, lost updates, a stale read model, roll-back half-way | logs are well formed; the table is the projection of the logs; a call does all of its work or none, at one instant; the limit |
| `java-rabbitmq-experiment` | request queue, a reply queue per call, unacknowledged deliveries | addNumbers, make, the worker's loop, close | messages through a broker | redelivery of old requests, servers that die, purging start | everybody gets the answer to its own call; only a purge loses a request |
| `netty-experiment` | two byte streams, one `Exchanger` field, an event loop | addNumbers, decode, channelRead, start, stop | caller threads and the event loop meet at an exchanger; bytes over TCP | threads sharing a client, streams cut anywhere | the server adds the numbers of one request; a mix-up never goes unnoticed; a single caller gets its own sum |
| `parboiled-experiment` (in `parser-experiment`) | value stack, `Var`s of the rules | parseExpression, parseStatement, parsePureStatement, parseFunctionDefinition, parseProgram | rules call rules; actions push and pop | ordered choice, precedence, comments, loops | parsing is the inverse of writing; no rule loops on nothing |
| `jdbc-experiment` | one table | six operations, in three implementations | clients share the table | a call is several statements, each a transaction of its own | all three keep the interface's promise |
| `kafka-experiment` | partition, consumer's offset, two threads and a barrier | send, read, join | threads, broker | offset taken late, failed sends that arrived, "bye" that never comes | every message is counted; the program ends unless no "bye" is coming |
| `jdeferred-experiment` | promise with its callbacks, exchanger | addNumbers, done, fail, always | a callback runs in whichever thread comes second | promise settled before or between registrations | the caller ends exactly if the promise settles late enough |
| `spark-experiment` | fields of a page, requests under way, shown results | type, run, two routes | asynchronous requests to a server | answers out of order, fields edited meanwhile, `int` overflow | the newest run is what is shown |
| `rhino-experiment`: nodes | lists of children and the links beside them, attribute maps, character data | the DOM calls on nodes, attributes and texts | a call of one is made of calls of others; `errorChecking` decides what is refused | two copies of one tree kept by hand, names with and without namespaces, texts cut at any offset | list and links tell one tree; one attribute per name and one owner per attribute; no text is lost |
| `rhino-experiment`: HTML documents | tables, head and body, named elements, options, inputs, properties of every class of elements | the calls of the HTML interfaces | getters make what they do not find; the document caches names; inputs cache attributes | values kept twice, indices over mixed children, caches told of some changes | a look does not change the next answer; what the page wrote stays; rows are where they were asked for |
| `rhino-experiment`: window | cookie jar and file, location, timers, listeners, requests | document.cookie, urljoin, setTimeout and wait, dispatchEvent, insertion of elements, XMLHttpRequest | the parser, scripts, callbacks and threads take turns at the same objects | callbacks that wait again, requests of an object that was opened anew, elements that come in by several ways | each timeout once; each load once; each request its own answer; a cookie set is a cookie read |

Every other program is listed in `PROJECT.json` with the reason why it is left out or
with what is planned for it.

## Modules

| program | specification | promises to | checked through | proofs |
|---|---|---|---|---|
| axon | `TodoService` | `TodoList` (refinement) | `MCTodoService`, `Services` | `TodoServiceProofs`, `ServicesProofs` |
| rabbitmq | `CalculatorRpc` | | `MCCalculatorRpc`, `Services` | `CalculatorRpcProofs` |
| netty | `NettyCalculator` | | `MCNettyCalculator`, `Services` | `NettyCalculatorProofs`, `ServicesProofs` |
| parboiled | `Grammar`, `GrammarPrinter` (its inverse) | | `ParserTrees` and `ParserTexts`, composed in `Parsers`, `MCParsers` | |
| jdbc | `UserService` | | `Experiments` | `ExperimentsProofs` |
| kafka | `KafkaHello` | | `Experiments` | `ExperimentsProofs` |
| jdeferred | `AsyncCalculator` | | `Experiments` | `ExperimentsProofs` |
| spark | `AddNumbersPage` | | `Experiments` | `ExperimentsProofs` |
| rhino, document | `DomTree`, `DomText`, `DomAttributes`, `HtmlTables`, `HtmlDocument`, `HtmlNames` | | `BrowserDocument`, `MCBrowserDocument` | `BrowserDocumentProofs`, `BrowserEditProofs` |
| rhino, window | `BrowserCookies`, `BrowserUrls`, `BrowserTimers`, `BrowserEvents`, `HtmlForms`, `HtmlSelect`, `HtmlInsertion`, `BrowserRequests`, `HtmlReflection` | | `BrowserWindow`, `MCBrowserWindow` | `BrowserWindowProofs` |

The compositions `Services`, `Experiments`, `Parsers`, `BrowserDocument` and `BrowserWindow` have a
variable `running` that never changes and says which of their modules takes steps; the variables
of the others stay as they are.  What the browser's modules share is not state but the way one
stands on another: `DomText` is about the children that `DomTree` links, `HtmlInsertion` about
when `BrowserRequests` and friends are called.  Each is cut where the code has a call, and takes
what comes back as any value it may be.

Definitions called mutants in a comment, and a few others that stand before the
definition they vary (`ReadOn` before `Read`, `SettleSilently` before `Settle`), are
plausible bugs.  Nothing uses them; putting one in the place of the definition it
varies makes TLC report the property `PROJECT.json` names.

## Todo service (`axon-experiment`)

`TodoService` is one transaction per client.  `tx[c]` is the call a client is in, how
far it is, and what it has read: the version of the aggregate and the value of the
counter.

| action | code |
|---|---|
| `CallCreate`, `CallUpdate`, `CallDelete` | `ApiFacade`, where `@Transactional` begins a transaction |
| `RefuseCreate`, `AcceptCreate` | `TodoCommandHandler.handle(CreateTodoCommand)`: the limit is tested on the counter that was read, which stays in the persistence context, and a new aggregate gets a new UUID |
| `Load`, `LoadFails` | `repository.load`: lock of the aggregate, replay of the committed events |
| `AppendEvent`, `AppendFails` | end of the unit of work: insert the event, run both event handlers, unlock |
| `Flush`, `FlushTimesOut` | the flush that begins the commit writes the counter's row, and waits for that row's lock |
| `Commit` | the event, the todo's row and the counter become visible together |
| `Return` | the answer reaches the caller |

The database (H2) is read-committed: a read sees what is committed, an insert of a key that
another transaction has inserted but not committed waits, and then fails with a timeout
or a duplicate key.  Both ends are `AppendFails`; waiting for them is the time that passes
before it.  `EventOf` and `RowsWritten` abstract the three events and the three handlers of
`TodoEntityUpdatingEventHandler` to the text they leave.

The properties are about the gap between the lock, which the unit of work releases, and the
commit, which comes later: `OneUncommittedPerTodo` says that even so no two
transactions have an uncommitted event for one todo.  `EventLogWellFormed`,
`ReadModelMatchesEvents` and `CountWithinLimit` follow from it and from the
unique key of the event store.  `DriftsByOverwriting` is about the counter that goes wrong: it says by how much.  The two
counts drift apart by the changes that a commit overwrites and by nothing else, so a todo is never counted
twice, nor one deletion by two transactions.  `TodoList` is the abstract specification, in which each call
is atomic; the refinement maps a todo's row to the todo, the aggregates with events to the used
ids, and a transaction to a session that is pending until it is answered.  `countTodos` and
`countTodos2` change nothing and are the state functions `CountTodos` and `CountTodos2`.

## Calculator RPC (`java-rabbitmq-experiment`)

A request is the call it belongs to, and an answer the call whose numbers it adds: the code
never looks at the correlation id, so only this identity tells what was mixed up.

| action | code |
|---|---|
| `Publish`, `Receive`, `CloseClient` | `CalculatorClient.addNumbers` up to and after the wait, `close` |
| `Make` | `CalculatorServer.make`, with its purge of the queue |
| `Take`, `Answer`, `Choke` | the worker's loop; a message it cannot read ends the worker but not its channel |
| `Interrupt`, `CloseServer` | `close`: interrupt, join, close the channel |
| `Deliver`, `Crash`, `PublishStray` | the broker, the end of the process, another program (external) |

Consumers do not acknowledge, and `autoAck` is off: everything a server was ever given is
delivered again when its channel ends (`Requeued`).  That old requests are answered again and
again is what makes `OwnAnswer` worth stating: only the queue per call keeps answers apart.
`OnlyPurgeLoses` is the other half: `make` purges what clients are waiting for, and
nothing else loses a request.  `HeldIsUnacked`, which is proved, says that what a server has in
memory the broker still has.  `RpcReturns`: a call is answered as long as some server runs, unless
its request was purged, and `close` of a server returns.

## Calculator over TCP (`netty-experiment`)

A byte is the call whose numbers it carries.  `StartCall` sets the exchanger field and submits
the write, `Flush` is the write in the event loop with the end of `sync()`, `FailWrite` its
exception, `Exchange` the meeting of caller and event loop.  `Receive` and `Serve` are
`MyMessageDecoder` (eight bytes at a time from what has been gathered) and `MyServerHandler`.
`Read` is `MyClientHandler.channelRead`: it takes four bytes of whatever has arrived, throws if
there are fewer, and drops the rest.  `StopServer` and `CloseChannel` may come at any time.

The client handler has one field for all callers and the client's side has no decoder.  So
threads that share a client can get each other's sum or a mixture: `MixUpsHang` states that this
never goes unnoticed, since for each wrong answer some thread is left at an exchanger that nobody
will come to; that it stays there is proved (`OrphansStay`).  `SumsAreReal` is about the server alone:
wherever the stream is cut, no sum is of parts of two requests.  With one caller `OwnSum` holds,
and `CallReturns`, up to the cuts for which the client has no decoder.

## Parser (`parboiled-experiment`)

`Grammar` gives each rule of `Grammar.java` by its name, as a value made of parboiled's
combinators, and `Match` is what parboiled does with such a value: ordered choice, greedy
loops, the text of the last match, and the value stack as the nodes a rule leaves.  A source is
a sequence of units; letters come in runs.  `GrammarPrinter` writes a tree down with the fewest
parentheses.  It is the reference the parser is checked against:

- `ParserTrees` grows trees, and `RoundTrip` says that the source of a tree, parsed, is the tree;
- `ParserTexts` makes texts, sensible or not, and `ReadsAsWritten` says that what is accepted,
  written down again, is what was read.

What the model keeps of the grammar and a reader may not expect: keywords are not reserved
(`return x = 1` is the definition of a variable of type `return`), a cast is tried before
parentheses, names that begin with `true` or `false` cannot be used, and text after the
expression or the statement is ignored.  Printed trees avoid such names.  A parse with errors is a failure whatever
`RecoveringParseRunner` would recover, so recovery is left out.

## Small experiments

`Experiments` runs one of the following by itself; the variables of the others do not change.

**`UserService`** has all three implementations, statement by statement.  Statements are
auto-committed, hence atomic, and calls are not: `Insert`/`ReadInserted`, `Update`/`ReadUpdated`,
`Count`/`ReadPage`.  The table at the start of a call is kept in `before` until another client
changes it.  `UndisturbedCallsKeepPromise` compares a call with what the interface promises
(`Promise`), for a call nobody disturbs; `CreatesAnswerNewUsers` holds even when disturbed: the user a
`createUser` answers with belongs to no other call, neither to one that was answered, nor to one whose second statement
failed and left its user behind, nor to one under way.
`page * itemsPerPage` is a product of `int`s (`ToInt`): where it overflows the answer may be a
page of other users, and `Promise` says that it leaves that case open.

**`KafkaHello`** has the main thread, the consumer and the producer of
`kafkaProducerConsumerHelloWorld`, one action per call that blocks or fails.  The consumer of this
version of Kafka finds its first offset in a thread of its own (`ResetPosition`, external): it may
come after messages were sent.  A failed send may have arrived.  `CountsEverything`: a consumer
ended by "bye" has counted what came after its first offset, and all acknowledged messages if it
had its offset in time.  `Returns`: the main thread ends, up to the two ways in which it cannot.

**`AsyncCalculator`** has a caller that registers callbacks and the executor's thread that settles
the promise.  jdeferred settles, registers and calls callbacks under the promise's monitor
(external), and a callback of the program meets the caller at an exchanger.  If the promise settles
before the last registration, the callback runs in the caller itself, or holds the monitor the
caller needs; only the calculator's half second of sleep prevents it.  `EndsIfLate` and `EndsOnlyIfLate`
(the latter proved) state this exactly.

**`AddNumbersPage`** has the page of `app.js` and the two routes of `MyApp`.  `Run` sends a GET and a
POST with the fields as they are; `Arrive` is an answer and its success callback, `Fail` an error
or a loss, for which there is no callback.  `NewestRunIsShown`: when both requests of the newest run
were the last to be answered, the page shows one sum twice, and it is that run's, modulo 2^32 as an
`int` is.  The two routes do not accept the same texts (`Reads`): Gson takes `1.0` for an `int`.

## Browser environment (`rhino-experiment`)

`env.rhino.1.2.js` is Envjs, a browser written in JavaScript, which the experiment loads into
Rhino to run a page's scripts outside of a browser.  It is ordinary code with nothing external
below it but Rhino's files, sockets and threads.  Line numbers of each definition are in
`PROJECT.json`; an action is a call of the DOM or of the window with all the calls it makes.

### The document

**`DomTree`**: `insertBefore`, `replaceChild`, `removeChild` and `appendChild` of `Node`.  A node
holds `childNodes` and five links, and each call sets them one after the other; `Inserted` and
`Exchanged` are those assignments in their order, fragments included.  An XML document checks calls
(`errorChecking`), the HTML document does not.  `LinksAgree`: after any sequence of calls
the list and the links tell one tree, unless one of three things happened, which the ghost
`mishaps` records: a node moved towards the end of its own parent (its place is looked up before it
is taken out), a fragment with children, or an unchecked call that a check refuses.  What
`replaceChild` took out keeps its parent and can never be put anywhere again.  In a document that
checks calls no node becomes its own ancestor, even so.

**`DomText`**: `substringData`, `insertData`, `deleteData`, `replaceData`, `splitText`, `normalize`,
`cloneNode` and `textContent`.  `TextKept`: normalizing, splitting and cloning keep the text.
The exception is an empty text that is split: `substringData` answers `null` for it, and
the next `normalize` throws half-way.

**`DomAttributes`**: `NamedNodeMap` and the calls of `Element` with and without a namespace.
The calls without a namespace compare whole names, `p:id`, and those with one compare the namespace and the local name
(`Local`), `id`.  `MapsAgree` relates the maps and `ownerElement`; `CallsTouchOneName` says that a checked
call changes what one element answers for one name only, or for the two names of one local name when an attribute takes the
place of another of its namespace (`setAttributeNS` of `p:id` and then of `q:id`).  The ghost `doubled` records when two
names that differ by namespace only are in one map, where the calls without one take the first.

**`HtmlTables`**: `insertRow`, `deleteRow`, `insertCell`, `deleteCell`, `createTHead` and so on.
The index counts rows, and the walk counts all children: `RowsAreWhereAsked` holds for those walks that
meet no white space and no header cell, and for a table's own `insertRow` always.

**`HtmlDocument`**: the getters `documentElement`, `head`, `body` and `title`, which append what they do
not find.  `AnswersStand`: what one of them answered it answers again and without making anything,
whatever the others make.

**`HtmlNames`**: `document.x`.  `HTMLElement.setAttribute`, `removeAttribute`, `removeChild` and
`appendChild` tell the document; `appendChild` of a child that is moved tells it of the removal alone.
`NamesAgree` states both directions (names lead to elements, elements bear their names) and the
changes after which each is lost.

### The window

**`BrowserCookies`**: `setCookie`, `getCookies`, `mergeCookie` and the file `.cookies`, with `Restart`
for the next process.  `SessionReadsBack` holds; `PersistentReadsBack`, the comment's promise, does
[not](#what-the-checks-found).

**`BrowserUrls`**: `urlsplit`, `urljoin`, `normalizepath` as `Uri`.  Paths are sequences of segments.
`AddressesAreResolved` compares `NormalizePath`, which removes segments while it goes, with a
definition that counts (`Meant`), over all paths of the bound from all locations that following links
can lead to; and resolving what was resolved changes nothing.  A relative path like `a//b` is left out: the expression that
takes an address apart does not insist on a colon, and reads a scheme `a` and a host `b` (`ReadAsScheme`).  The document
never follows such a link in the model, since what it would load has a scheme that the platform does not know.

**`BrowserTimers`**: `setTimeout`, `setInterval`, `clearInterval` and `Envjs.wait` in its three forms.
Callbacks run inside of `wait` and may call it, so `frames` is a stack; what `wait` skips is a callback
that runs further down.  Times are relative to now, and late ones are cut at `MaxLate`.  `StartsOnce`:
no timeout twice, and no callback inside itself.  `WaitReturns`: once the page sets no more timers, a wait ends unless an interval
stays set (even `wait(n)` does not if the callback takes longer than its interval).  Before that it need not: a
timeout whose callback sets the next one keeps `wait()` from returning for ever, with no interval at all, and if the callback takes
longer than the delay it asks for, `wait(n)` and `wait(0)` as well.  The model lets timers be set for ever, and gives a new one any number that
is free, where the code counts up.

**`BrowserEvents`**: `addEventListener` to `dispatchEvent`, with listeners that register, remove,
move nodes, throw and stop the event on its way.  `ListenersAreCalled`: an undisturbed event calls
each listener once, in the order of the tree, up to where it was stopped.  A node that `removeChild` takes out loses its listeners.

**`HtmlForms`**, **`HtmlSelect`**: an input keeps its value and checkedness beside their attributes, and a
select has none of its own: each option has a mark and an attribute.  `PageDecides` and `ShowsChosen`
say that what the page wrote or chose is what is shown, whatever comes after, except what the
code means to override it.

**`HtmlInsertion`**: when images, links, scripts and frames load.  The parser, `appendChild`,
`insertBefore`, `innerHTML` and writing the address each load in some cases; `LoadedOnce` says which of
their sequences load once, and which not at all.

**`BrowserRequests`**: `open`, `send`, `abort` of an `XMLHttpRequest`, with a thread per asynchronous request
where the platform has threads and none where it has not.  The thread reads the object when it
connects.  `HeardIsOwn` says for which requests that makes no difference.  A request that writes or deletes a file
(`Stores`: PUT, POST or DELETE of one of the `Files`) reads nothing, and leaves the text of the request before in the object; a request of a
connection that breaks off has the headers and is done, and keeps the old text as well.

**`HtmlReflection`**: the classes of elements, and what each of their properties reads and writes.  Setters and getters
convert: class names are trimmed, numbers read, the link of an anchor resolved, a missing text given its default.  The conversions
themselves are functions on texts (`Trimmed`, `Number`, `Pixels`, `Resolved`), constants of the module.
`PropertiesAreOwn`: a property reads back what the page meant that wrote it (`Meant`: through one conversion, not two), and no other property changes,
but for the `useMap` of an image, which nobody can read, three pairs that share an attribute by
mistake, and the `type` of a select, which tells whether it is `multiple`.

## Runs and bounds

| run | question | bounds, and why they are enough |
|---|---|---|
| `todo_two_clients` | are logs, table and counter sound under overlapping calls? | 2 clients, 2 todos, 2 texts, logs of 3 events, limit 1: a lock is held by one and wanted by the other, every command meets every other on the same todo and on different ones, and the limit is reached by the second creation |
| `todo_refines` | is each call atomic, and does each return? | the same with one text: the refinement is about who overwrites whom, which ids and versions tell; no symmetry, since this is liveness |
| `services_small` | are the counts right when calls do not overlap? do calls over the queue and over TCP return, and does a single thread get its sum? | 1 client, 3 ids and a limit of 2, so that the third creation is refused; 2 RPC clients with 1 call and 2 servers that start 3 times, no stray message, since a stray one may kill every worker in turn; 1 thread with 4 calls over TCP, so that the bytes of several lost answers are still on their way |
| `todo_counts_diverge`, `todo_limit_exceeded` | does what `AppTest` asserts hold when calls overlap? | violated, see [below](#what-the-checks-found) |
| `rpc_restarts` | are answers kept apart and requests kept? | 2 clients with 2 calls, 2 servers, 3 starts, 1 stray message: a second call can get an answer to a first, and a request can be delivered to a third server after two died with it |
| `netty_shared_client` | what do threads that share a client get? | 3 threads with 2 calls each: a thread that mixes up two others; 24 bytes of requests, cut anywhere, give every way to split and merge requests |
| `parsers` | is parsing the inverse of writing, and what is accepted that nobody would write? | trees: every operator at the first step, one of each precedence level around it, two growth steps around which statements grow three times: every pair of neighbouring levels on either side of each other, each statement in each place of each other, nested ifs with and without else. Texts: all of up to 5 of the units that interact: operators that are prefixes of each other or begin a comment, parentheses; statement words |
| `small_experiments` | the properties of the four small programs | 2 clients, 2 users and pages that overflow 4 bits; 3 messages; the program and its two tests; 2 runs of the page with a sum that overflows |
| `browser_document` | the properties of the document's modules | 4 nodes, two of them texts, one of another document: a node moved between two neighbours, before itself, under itself, and from a parent to another; texts of 3 characters and 4 nodes on two levels, cut at every offset and one beyond; 2 elements, 2 attributes, a name in 2 spellings and with a prefix, a namespace in 2 spellings and none, with symmetry over elements and attributes; 3 rows and 2 cells in a table as it is parsed, with white space and header cells; 5 elements below a document; a form and an image with 2 names |
| `browser_window` | the properties of the window's modules | 2 pages of which one's domain contains the other's, 2 domains, 2 paths, 3 cookies, a file that is empty or not; all paths of 3 segments, from all that links lead to; 2 timers at a time, set again and again, and 2 nested waits, due now, soon or later; 2 nodes and a listener of both phases; 1 input and 1 element, as they do not share anything; 3 options, one before and one after the chosen one; 2 requests of 2 urls, one of a file; 48 tag names, for every class, with two attributes set, to nothing or to a number with a space before it, which every conversion changes |
| `cookies_lost` | is a persistent cookie there in the next process? | violated, see [below](#what-the-checks-found) |

Every counter that bounds a model (`MaxEvents`, `MaxCalls`, `MaxMakes`, `MaxStrays`, `MaxUsers`,
`MaxRuns`, `MaxSteps`, `MaxStatements`, `MaxLexemes`, `MaxCookies`, `MaxTimers`, `MaxDepth`, `MaxRows`,
`MaxCells`, `MaxElements`, `MaxNodes`, `MaxText`, `MaxOptions`, `MaxWrites`) is a guard of an action that starts something,
never of one that finishes it.  `TodoIds` bounds the UUIDs the same way (`EnoughIds`).  Deadlock is checked for the todo service;
elsewhere the programs really end, or hang in ways the properties describe.

## Fairness

- `TodoService`: weak fairness of a client's next step, because threads are scheduled; strong
  fairness of taking an aggregate's lock, because a waiting thread is assumed to get a lock that is
  released again and again.  Calls are not fair: nobody has to make one.
- `CalculatorRpc`: weak fairness of the worker's steps, of the broker's delivery, of a client's
  receipt, and of the rest of a `close` that has been called.  Nobody has to start, close or crash.
- `NettyCalculator`: weak fairness of network, server, a caller's write and its exchange.  Stopping
  and a failing write are not fair.
- `KafkaHello`: weak fairness of each thread and of the fetcher.
- `AsyncCalculator`: weak fairness of both threads and of two that meet at the exchanger.
- `BrowserTimers`: weak fairness of the loop of `wait` (`Fire`, `Leave`), which does nothing else, and of
  time (`Tick`); strong fairness of `Finish`, since a callback that calls `wait` again and again is
  assumed to return at last.  Nobody has to set a timer or to call `wait`.

## What is proved

TLAPS checks these theorems for all values of the constants that satisfy the modules' `ASSUME`s: names are
distinct, bounds are natural numbers, the limit is positive.  `ExperimentsAssumption` adds that what Gson reads as a
number is one, that pages have at least one item, and that `2 ^ IntBits` is twice `2 ^ (IntBits - 1)` (the provers have no
power); `DocumentAssumption` that there are finitely many nodes, of which texts are no fragments, and that
the elements with a name are forms, objects and images, the only ones a document has getters for, and that null is no
sequence of characters; `TablesAssumption` that a page's tables start with children that tables, sections and rows can
have, one head and one foot at most, and the head before the rows; `EmptyAssumption` that an attribute which is not there is not one that is empty;
`AttributesAssumption` that two spellings of a name are spellings of one local name; `ConversionAssumption` that trimming nothing gives nothing, that the
number of nothing is 0, and that a numeral is the numeral of its number;
`WindowAssumption` that there are finitely many nodes, and that none of them is above itself at first; `PathsAssumption` that the segments
of the first document's path are among those of paths.

An instance that runs inside of a composition is proved about there: `OneRuns` of each proof module says that
a step of the composition is a step or a stutter of each of its modules, and each has its own invariant.

| theorem | statement | by |
|---|---|---|
| `TodoServiceProofs!TypeCorrect`, `EventLogSafe`, `ReadModelSafe`, `UncommittedSafe`, `CountSafe` | the invariants of `todo_two_clients` | `IInv` |
| `TodoServiceProofs!DriftExplained` | `Spec => DriftsByOverwriting` for any clients, todos and limit | `IInv`, `LiveFinite` and `CommitMovesLive`: a commit that changes the counter adds one todo to those that exist or takes one away |
| `TodoServiceProofs!Refinement` | `Spec => ImplementsTodoList` | each action maps to one action of `TodoList` or to a stutter, under `IInv` |
| `TodoServiceProofs!SerialCounts`, `SerialLimit` | with one client at a time, `CountsAgree` and `LimitHolds` | `IInv` and that the counter equals the number of rows while nothing is uncommitted |
| `CalculatorRpcProofs!TypeCorrect`, `AnswersAreOwn`, `HeldSafe` | `TypeOK`, `OwnAnswer`, `HeldIsUnacked` | `RepliesOwn`: whatever is in a call's queue is that call's answer |
| `CalculatorRpcProofs!OnlyPurgesLose` | `Spec => OnlyPurgeLoses` for any clients, servers and restarts | `IInv`, and that each step leaves a call in the queue, with a server or answered |
| `NettyCalculatorProofs!TypeCorrect`, `SumsReal`, `WrongCostsACaller`, `OrphansForEver`, `SerialOwnSum` | `TypeOK`, `SumsAreReal`, `MixUpsHang`, `OrphansStay`, and `OwnSum` for a single caller | `StreamInv`, `AnswerInv` |
| `ServicesProofs!SerialTodosCount` | `SerialCallsCount` in `Services`, for any todos, when calls do not overlap | `TodoServiceProofs`, instantiated |
| `ServicesProofs!SerialCallsOwnSum` | `OwnSum` in `Services`, when one thread calls | `NettyCalculatorProofs`, instantiated |
| `ExperimentsProofs!ConsumerCountsEverything` | `Spec => []CountsEverything` for any number of messages | `KafkaInv` |
| `ExperimentsProofs!OnlyLateCallersEnd` | `Spec => []EndsOnlyIfLate` for any callbacks | `Handover` |
| `ExperimentsProofs!PageShowsNewestRun` | `Spec => []NewestRunIsShown` for any runs, inputs and width of an `int` | `SparkInv` |
| `ExperimentsProofs!PromisesAreKept` | `UndisturbedCallsKeepPromise` for any clients, users, pages and width of an `int`, in all three implementations | `JdbcInv` |
| `ExperimentsProofs!CreatedUsersAreNew` | `CreatesAnswerNewUsers` for any clients and users, in all three implementations | `JdbcInv`, `CreatesInv` |
| `BrowserDocumentProofs!LinksAgreeAlways` | `DocumentSpec => []LinksAgree` for any number of nodes | `TreeInv` |
| `BrowserDocumentProofs!MapsAgreeAlways`, `CallsTouchOneNameAlways` | `MapsAgree`, `CallsTouchOneName` for any elements, attributes and namespaces | `IInv` there |
| `BrowserDocumentProofs!AnswersStandAlways` | `DocumentSpec => []AnswersStand` for any texts and number of elements | `DocumentInv` |
| `BrowserDocumentProofs!NamesAgreeAlways` | `DocumentSpec => []NamesAgree` for any elements and names | `NamingInv` |
| `BrowserEditProofs!TextKeptAlways` | `DocumentSpec => TextKept` for any characters, lengths and number of nodes | `TextInv` |
| `BrowserEditProofs!RowsAreWhereAskedAlways` | `DocumentSpec => RowsAreWhereAsked` for any page a table may come from, and any number of rows and cells | `TableInv` |
| `BrowserWindowProofs!PropertiesAreOwnAlways` | `WindowSpec => PropertiesAreOwn` for every class of elements, any values and conversions | `ReflectionInv` |
| `BrowserWindowProofs!InputsKeepTheirValues` | `WindowSpec => []PageDecides` | `FormsInv` |
| `BrowserWindowProofs!ChosenIsShown` | `WindowSpec => []ShowsChosen` for any number of options | `SelectInv` |
| `BrowserWindowProofs!ElementsLoadOnce` | `WindowSpec => []LoadedOnce` | `InsertionInv` |
| `BrowserWindowProofs!CallbacksStartOnce` | `WindowSpec => []StartsOnce` for any timers and depth of waits | `ClockInv` |
| `BrowserWindowProofs!ListenersAreCalledAlways` | `WindowSpec => []ListenersAreCalled` for any nodes, depth of the tree and listeners | `EventsInv` |
| `BrowserWindowProofs!AddressesAreResolvedAlways` | `WindowSpec => []AddressesAreResolved` for any paths and hosts | `LocationInv` |
| `BrowserWindowProofs!RequestsHearTheirOwn` | `WindowSpec => []HeardIsOwn` for any number of requests, urls and files | `RequestsInv` |
| `BrowserWindowProofs!SessionCookiesReadBack` | `WindowSpec => []SessionReadsBack` | `LastIsKept` |

Why the invariants need strengthening:

- **Todo service.**  "One uncommitted event per todo" is not preserved by itself.  A transaction
  that has loaded an aggregate and not yet appended may have read a log that has grown since; what
  saves it is the unique key.  So `TxOK` states of each phase which version and which count
  the transaction can have, and that an uncommitted one fits the committed log; the row of
  the todo then follows from the log.  `count < MaxTodos` of a creation under way is what keeps an
  equality test from being jumped over.  How far the counts drift needs the todos that exist to be finitely many (`LiveFinite`), and that a
  commit which counts one up or down really makes or ends one, whatever was committed since it loaded the log.
- **RPC.**  A client takes the head of its queue unseen.  So every message of every reply queue must be
  right, before its call waits, while it waits, and after.
- **TCP.**  The bytes from the server's buffer to the client's end form whole requests (`Aligned`),
  wherever the cut between the two parts is, and bytes of one answer are close together (`Spaced`),
  so no four bytes have two owners without showing it.  `AnswerInv` then follows bytes, event loop and
  callers: as long as nobody is orphaned, what is in flight belongs to a caller who waits for it.
- **Requests kept by the broker.**  A call is found in the queue, with a server, or in its own reply queue.  Which
  of the three changes with every step, and the last one only for its own client, who then does not wait any more.
- **Kafka.**  The count is the number of messages between two offsets; nothing follows "bye" in the log, so a
  consumer it has stopped stands at the end.
- **jdeferred.**  Before the worker settles, nothing is early and nobody has ended; after it, who is in the
  monitor decides what the caller can still do.
- **The page that adds.**  What is shown is the answer to the request that was answered last (`ShownIs`), however many others
  are on their way; `ToInt` of a sum then differs from it by a multiple of `2 ^ IntBits`.
- **User services.**  `Knows` says of each place in a call how the table looks beside the one the call found, as long as
  nobody has disturbed it: the same, with one row more, or with one row written.  `getUsers` counts and reads in two statements, so
  the number it has counted is still the table's.  `CreatesInv` says whom an id belongs to: those that are settled were given out before, and a creation between
  its two statements owns the one it has inserted.  (The proof showed two arms of a `CASE` of
  the model that overlapped, for an update of a row that is not there; they are exclusive now.)
- **The tree.**  `LinksAgree` does not say enough of nodes outside of the lists.  `Agree` adds that who has no parent has no
  siblings, for the next call writes into the siblings a node claims to have; and that a node that was replaced has a
  parent and is in no list, which is why it can never come back.  That no node is above itself is not
  inductive in this form either: ancestors are a recursive function.  `Acyclic` says the same without it (from every set
  of nodes some parent link leads out), and it holds even after a mishap, except that of a fragment.
- **Attributes.**  That names are apart says nothing of what comes next, since `setAttributeNode` may
  write a name's first place; so the lists are known to hold made attributes only, and the first
  place of a name is the only one unless `doubled`.
- **One name at a time.**  An answer is the value at the first place of a name, so a change of the list has to leave the first
  places of all other names alone; `Touched` says it of each call, and `SameName` that spellings do not matter.
- **Getters.**  Whatever was found is there until it is taken out, so each getter's answer depends on a part of the document that
  the other getters only extend (`Extends`): the first `head`, `body` or `title` stays the first.
- **Named elements.**  `NamesAgree` is inductive, once attributes and getters have their types.
- **Texts.**  `TextInv` is only what the root is made of, and that all texts have data unless an empty one was split.  The
  work is in `normalize`, which recurs into elements and walks over a list that it joins texts in, and takes the redundant ones
  out at the end.  `Goes` is the invariant of that walk: the redundant ones counted as nothing, the text is that of the beginning (`Done`);
  between two texts that stay there is something else that stays; and the text the walk would join the next one to is the last one
  that stays.  An element below answers for itself, and what it answers has the text it had (`Answers`).
- **Tables.**  `HeadComesFirst` holds of the rows only, and the calls move whole sections; `TableInv` says of all the children that
  none but white space is before the head.  The rows of a table are the rows its children contribute, one after the
  other (`RowsOf`), so a row that is put into the `i`-th child at its `j`-th row has the index that the children before
  contribute, plus `j`; this holds of white space and header cells as well, which contribute nothing.
- **Properties.**  The classes are put together part by part, one inheriting another's properties, and each comes with the attributes
  it uses (`Uses`) and with its properties `Apart`: none writes what another one reads, but for the pairs that `Shared` names.  That a text shows as it was meant (`WrittenIsMeant`) is
  apart from that: it is about the conversions and the defaults alone.  So
  a class is compared with what it adds to the one it inherits from, and not each property with each other.
- **Inputs.**  The page means nothing before the attribute is taken over, and the element's copy is what
  the page meant afterwards.
- **Options.**  Of the options beside the chosen one each must be quiet, that is, unmarked or, if nobody
  marked it, without the attribute, even while it is disabled: it could be enabled at any time.
- **Loads.**  An element that is nowhere may have been loaded already if it is an image, and nothing else may;
  that is what the step that puts it somewhere needs.
- **Timers.**  A timeout that has started and is still set has its frame on the stack, so `wait` skips
  it; it is cleared in the step that frees the frame.  `Earliest` exists because the integers
  from `-MaxLate` up are well-founded.
- **Events.**  That the calls made so far are in order does not say that the next one will be.  `Place` gives every turn of
  every node on the way a number, from the outermost ancestor that captures to the outermost one that bubbles, and
  `Going` says of the number the event has arrived at: all calls are at or before it, whoever is still to be called there
  has not been called, everybody before it was called or is an ancestor left out after a stop, and the stack of
  `__captureEvent__` holds just the listening ancestors between here and the target.  A step passes on to a later number
  and leaves nobody with listeners between (`Passes`).  That `d` is a distance and the way ends
  is proved of the recursive function of ancestors in `StepByStep` to `WayIs`: a walk up in a forest cannot come back to a node, and by the
  pigeonhole principle it leaves the tree within as many steps as there are nodes.
- **Addresses.**  `LocationInv` says that the document's own address is normalized: its path begins at the root and has a
  ".." only where nothing is above it, so normalizing changes nothing of it (`NormalStays`).  That `normalizepath` keeps what is meant
  is shown segment by segment: what is kept of the first `n` are the segments at the positions `Left(path, n)`, in their
  order, and of `m` that are kept the path rises `m - a + 1` above the one before the `a`-th (`Ordered`).  So a ".." takes back the last one and no other;
  that the path does not climb over its root says that there are two at least.
- **Requests.**  While a request that is alone is under way, the object has its url, and no other request is under
  way; without threads every request that is under way blocks the page.  One that stores finds the text that was there when it
  was sent, since nobody else has answered since.

Only model-checked:

- liveness, and with it everything that needs `ENABLED`: `RpcReturns`, `CallReturns`, `EveryCallReturns`, `Returns`,
  `EndsIfLate`, `WaitReturns`;
- `RoundTrip` and `ReadsAsWritten`: the parser and the printer are recursive, and what a recursive definition
  computes for every tree needs induction over trees.

## What the checks found

- **The counter loses updates** (`todo_counts_diverge`).  The handlers read the counter, increment it in memory
  and write it back, without a version.  Two overlapping creations leave `countTodos2()` at 1 and
  `countTodos()` at 2, for good.
- **The limit can be exceeded** (`todo_limit_exceeded`).  With the code's limit of 3, a lost update
  leaves room for a fourth todo; `AppTest` expects the fourth creation to be refused.
- `CountWithinLimit` holds nevertheless: the test `count == 3` is for equality, and no
  interleaving makes the counter pass it.
- **Persistent cookies are lost** (`cookies_lost`).  `saveCookies` writes `Envjs.cookies.peristent`, which is
  misspelt and undefined, so the file holds no cookie, and what it held is lost as well.  A cookie with
  `max-age` is gone in the next process; the comments say that it is saved.
- **`wait` need not end**: it looks at the time only when no timer is due, so timeouts that set each other, and a slow callback of an
  interval, keep even `wait(n)` going, though the comment on it (env.rhino.1.2.js:6291-6294) promises "at least n ms but no more"; see
  `BrowserTimers` above.
- The properties of the browser state what does hold, with the exceptions the code makes: each of them is a
  conjunct of a property's hypothesis or a ghost (`mishaps`, `emptySplit`, `doubled`, `parted`, `Shared`), and
  is explained where it stands.

## What is not modelled

- Of the modelled programs: a restart of the axon application (its database is in memory);
  the position at which an AMQP broker puts back a message (the model puts it first);
  reconnecting, and several clients of one netty server (their connections share nothing);
  `dummyProducer` of the Kafka program, an endless loop nobody calls;
  the routes of `MyApp` that only render a page.
- Of `env.rhino.1.2.js`: the HTML5 parser, which is one minified line, is modelled by what it hands over; the
  form submission code, since `submit` calls `__submit__`, which is local to another closure, and so throws before it
  gets there; entities, doctypes, ranges and the XML parser; style sheets and the `style` of an element; the history and the windows of frames; the
  parts of the platform that only call Java.  The modules of the browser are not composed with each other
  further than by `running`: a listener that waits, or a callback that opens a request, is two
  modules' behaviour side by side.  The scripts the tests run in it have no state.
- External behaviour is taken from how the code uses it, and marked so in `PROJECT.json`: H2 and
  Axon's locks, AMQP, TCP, parboiled's matchers, HSQLDB's statements, Kafka's fetcher,
  jdeferred's monitor, Gson's reading of numbers.
- Every other program, by group and reason: see `components` in `PROJECT.json`.  Most are
  straight-line calls of a library, whose own behaviour is the point; object mapping and document
  writing are input and output.

## Plan

Done, in the order of importance: todo service with its abstract specification and proofs; RPC;
TCP; parser; the small experiments; the browser environment, document and window, with their proofs.

To do, each a module composed into `Experiments`:

1. `Calculators`: the HTTP calculators of ninja, quarkus, micronaut and resteasy.  Upper bounds
   without lower ones, overflow, and resteasy's shared list of people (a request changes what
   another one is reading).
2. `LayoutFromXml`: `awt-experiment`, a tree of components from a tree of elements.
3. `SharedValue`: hazelcast's map entry, with the test's wait for two nodes that gives up silently.
4. `Approval`: activiti's two tasks and who may claim them.
5. `Topic`: jms, hornetq and zookeeper; subscription before or after the message.
6. The hand-written scope of `guice-experiment` and the serializers of `jackson-experiment`.

Of the browser: dispatch of events by timers and requests (`BrowserEvents` inside `BrowserTimers`), the form's
`elements`, ranges.

And proofs: type correctness of the small programs.

# Verification of the Kryptokrona Kotlin SDK

TLA+ models of the SDK under `src/` and of the scripts of its documentation site,
the TLC configurations that check them on
small instances, and theorems about them checked by TLAPS. Paths below are
relative to `src/`; `core/` and `http/` stand for
`kryptokrona-core/src/main/kotlin/org/kryptokrona/sdk/core/` and
`kryptokrona-http/src/main/kotlin/org/kryptokrona/sdk/http/`, `scripts/` for
`docs/0.1.0/scripts/`.

## 1. The system

The repository holds two programs: the SDK, in Kotlin, and the documentation site,
whose pages are generated by Dokka and brought to life by the scripts that are
committed with them.

### The SDK

The SDK is a library. An application creates a `Node` (host name, port, TLS or
not) and passes it to client objects; their `suspend` methods ask the daemon at
that address for something over HTTP and return the decoded reply, or null. The
application may change the `Node` at any time: its properties are `var`s "so
that they can be changed during runtime". There is no other state, and no thread
or coroutine of the SDK's own.

| Component | Code | State | Operations | What makes it correct |
|---|---|---|---|---|
| Node | `core/node/Node.kt` | three mutable properties, shared, unsynchronised | read, assign | a request goes to a node that was configured |
| HTTP wrapper | `http/common/Http.kt` | one private Ktor client for the whole process (CIO engine, JSON content negotiation, nothing else) | `get`, `post` (no caller) | a request ends, one way or another |
| Six clients | `http/client/*.kt` | the `Node` reference | 20 methods of the same shape: `try { read the node; get(url); body() } catch (e: Exception) { log }; return null` | an answer is that of a node configured during the call; no answer has a cause; the call returns |
| Reply classes | `http/model/**` | none: 38 `@Serializable` data classes | decode | a value is whole, a reply in the declared shape is not lost |
| Constants | `core/config/*.kt` | none | none; read by no code | |
| crypto, util | `kryptokrona-crypto`, `kryptokrona-util` | none | `main` prints a greeting | |

The components interact by shared state (application and clients: the `Node`), by
suspension (client and HTTP client: `get` gives the thread up until the exchange
is over) and by exceptions, all of which the client method catches, with the
cancellation of its own coroutine among them.

### The documentation site

Every page loads the same scripts. They have no state but the page, their own
variables, and three items of `localStorage`, which all windows of the site share.

| Component | Code | State | Operations | What makes it correct |
|---|---|---|---|---|
| Source set filter | `scripts/platform-content-handler.js`, `scripts/sourceset_dependencies.js` | what is shown, the notification, the item `inactive-filters` | load, click on a button | the notification is where the documentation is not; windows and item agree; what was hidden can be shown again |
| Anchors and tabs | the same file | open tab, highlighted row, scroll position, timers, the item `active-tab` | load, hashchange, timer, click on a tab or on a filter button | the row the URL names is highlighted, shown and scrolled to, unless it is filtered |
| Signature wrapping | `scripts/symbol-parameters-wrapper_deferred.js` | per signature: wrapped, indents, observed | script, resize, ResizeObserver | a signature is wrapped exactly if it does not fit |
| Navigation menu | `scripts/navigation-loader.js` | the reply of a fetch, the marked part | script, DOMContentLoaded, reply | the menu is shown in every order of these, and marks the page |
| Copy-link icons | `scripts/clipboard.js` | popups and their timers | click, timer | a popup goes; nothing is left in the page |
| Theme, navigation column | `scripts/platform-content-handler.js`, head of every page | class of the document, the item `dokka-dark-mode` | open, toggle | the theme chosen last is kept |
| Search bar, highlighting | `scripts/main.js`, `scripts/prism.js` | | | third-party bundles |

Handlers run one at a time in a window, but the scripts are `async` or deferred, so
the order of script, load handler, events and timers is open; and windows in
different processes read and write the items of `localStorage` without exclusion.

### What is hard

Hard to test, hence what the models are about (`PROJECT.json`, "hazards", has
each at its line):

* the three reads of a call and the three assignments of a reconfiguration
  interleave, on several threads without any ordering of memory;
* a call is suspended while the node it was made to is replaced;
* a cancelled call is answered with null or false, like a failed one, and its
  caller goes on;
* no timeout is configured, `Config.REQUEST_TIMEOUT` is read by nobody;
* everything that fails is null, and decoding is all or nothing, in number types
  narrower than what the daemon counts;
* what the filter shows and what it stores change in separate steps, in several
  windows;
* a scroll is put off by a timer, which expires after the page has moved on, or
  before what it needs is there, and goes to the top of the page if the row it is
  for has been hidden by its tab or by the filter;
* signatures are resized while they are hidden and have no width;
* scripts must neither wait for events that are over nor look for what is not
  parsed yet.

## 2. Modules

| Module | Models | How it corresponds to the code |
|---|---|---|
| `Coroutines` | who takes part | callers, the owner of the node, the threads of the dispatcher; `OneThread` is a confining dispatcher such as `runBlocking` or the tests' `runTest` |
| `Node` | `Node.kt` and the head of every client method | a property is the generation of the setting its value belongs to; `ReadSsl`, `ReadHostName`, `ReadPort` are the reads of `node.ssl`, `node.hostName`, `node.port` in the order of the code, `Assign` a setter, `Reconfigure` the application's decision to change all three, `Resume` and `Park` the dispatcher |
| `Http` | `Http.kt` | `Submit` is `get()` up to its suspension, `Wake` its resumption, with an exception when the job was cancelled meanwhile; `Deliver`, `Fail`, `Crash`, `Expire` are how an exchange ends |
| `Operations` | the methods of the six clients | per method its path and the class it returns |
| `Clients` | the clients, composed of `Node` and `Http` | every action is a step of a method (`StartCall`, `BuildUrl`, `SendRequest`, `ResumeCall`, `FinishCall`, `Escape`), of its caller, or of the world, and conjoins the actions of `Node` and `Http` it is made of |
| `Queries` | what the clients promise (abstract) | ask; be answered by a node configured since, or be told nothing |
| `Model` | `http/model/**` | one definition per data class: keys and types |
| `Decoding` | `body()` | a stack of what the decoder expects; the daemon writes declared and odd values |
| `Config` | two constants of `core/config` | what the runs `http_deadline` and `decoding_outputs` compare the clients with |
| `Filtering` | the source set filter | `Load` and `LoadAborts` are the load handler up to `initializeFiltering`; `FilterSourceset`, `UnfilterFirst`, `UnfilterNext` the branches of `filterButtonHandler`, each with `refreshFiltering`; `ReadCache` and `WriteCache` `getItem` and `setItem`, once per source set that changed. `oneProcess` is the browser's choice: handlers of one process take turns (`Turn`), between processes nothing does |
| `SharedChoice` | what the filter promises (abstract) | windows share one choice; a click changes it as a whole |
| `Anchors` | anchors and tabs | `LoadFilter` is the load handler up to `initTabs`, which shows some of the source sets (which, is in `Filtering`), `Load` goes on with `initTabs`, `handleAnchor` and `topNavbarOffset`; `HashChange` is the event, `Timer` the end of `waitAndScroll`, `ChooseTab` a click on a tab, `ClickFilter` one on a filter button; `Filtered` are the rows with `data-filterable-current=""`, which `style.css` (line 860) does not display, `Reveal` is `findAnyTab`, `Offset` where scrolling ends: at the top of the page for a row that is not rendered |
| `SymbolParameters` | signature wrapping | `Wrap`, `Reset`, `Rewrap`, `Observe` are the functions, on one signature; a `Frame` of the browser dispatches resize events and then observers; `ShowMembers` and `ToggleContent` are `initTabs` and the filter, which decide what is rendered |
| `SideMenu` | navigation menu | `StartMenu` is the script, `ShowMenu` the chain of `then`; `Select` is `revealNavigationForCurrentPage`, on ids cut into tokens wherever one name may begin with another |
| `Clipboard` | copy-link icons | `Click` with the outcomes of `execCommand`, `Expire` the timer |
| `Appearance` | theme, navigation column | `Open` is the script in the head, `Ready` the load handler, `Toggle` the button |
| `NodeProofs`, `ClientsProofs` (and `Http`), `DecodingProofs`, `FilteringProofs`, `AnchorsProofs`, `SymbolProofs` (`SymbolParameters`), `SideMenuProofs`, `PageProofs` (`Clipboard`, `Appearance`) | | proofs about the module they are named after |
| `MCNode`, `MCHttp`, `MCClients`, `MCDecoding`, `MCFiltering`, `MCAnchors`, `MCSymbolParameters`, `MCSideMenu` | | finite instances |
| `MCScripts` | | `Anchors`, `SymbolParameters`, `SideMenu`, `Clipboard` and `Appearance` in one run. They share no variable, so one of them runs, with its fairness, and the others rest |

The memory model of `Node`: the properties are neither volatile nor guarded, so a
read may return any value from the newest one its thread knows of to the last
assigned; a thread learns by reading, assigning, and by executing a coroutine that
was suspended elsewhere (resumption is ordered after suspension). Values of one
property are never read backwards on a thread. This is the per-variable coherence
a JVM gives plain fields on current hardware; the Java memory model itself would
allow still more, so what holds of several threads here (`QuietCall`) is stated of
calls whose thread is ordered after the assignments, to which it does not matter.

`Decoding` knows the classes by its constants only: `Types` (what there is),
`ReplyTypes` (what each operation expects), and the daemon by `DaemonBits`: how wide
the numbers are that it reports under each key, which owes nothing to the classes.
`MCDecoding` gives them the classes of `Model`. The entries of an object are read in
one fixed order; the verdict does not depend on it.

`SideMenu` compares ids as sequences of tokens, cut wherever one name of the site may
begin with another. What it takes for granted of the site is stated as two assumptions
on its constants. `NamesAssumption` says how Dokka names things: the separators `::`
and `/` are in no name (`/` only in members), different things have different names,
and no module's name ends with another's. `NavigationAssumption` says what
`navigation.html` lists: nothing twice, no members of classes, all the rest of a module
or nothing of it, and a class before those of its package whose names begin with its
name. The committed `docs/0.1.0/navigation.html` (61 parts) and the 315 pages that look
themselves up in it satisfy both; TLC evaluates them for the excerpt.

Definitions named after a fault (`ReadAtConstruction`, `UrlWithoutTls`,
`MaySuspendAnywhere`, `ResultDecoded`, `FinishOrRetry`; `FitsCut`, `FitsNarrow`,
`PushEmpty`; `RefreshTooEarly`, `TogetherAnywhere`, `UnfilterFirstOnly`,
`WriteCacheAnew`; `HandleAnchorKeeping`, `HandleAnchorTooEarly`, `StoredTab`,
`LoadAnchorFirst`, `LoadWithoutAnchor`; `WrapRendered`, `ResetAlways`, `WrapAgain`,
`RewrapOnly`; `LastOf`, `AlwaysListen`, `DisplayAtOnce`; `CleanUpAfter`,
`PopupFirst`; `FlipStored`) are mutations: a plausible mistake in
the definition they precede, which the property they are listed with in
`PROJECT.json` detects. No specification uses them.

## 3. Runs

`tlc -config <cfg> <module>`, each of them within two minutes on two workers.

| Run | Module, cfg | Shows |
|---|---|---|
| `node_torn` | `MCNode`, `NodeTorn.cfg` | **violation**: on two threads a call composes a URL nobody configured (`WholeUrl`) |
| `http_deadline` | `MCHttp`, `HttpDeadline.cfg` | **violation**: a request is outstanding for longer than `Config.REQUEST_TIMEOUT` |
| `clients_confined` | `MCClients`, `ClientsConfined.cfg` | types; on one thread every call composes the URL of the setting in force (`CurrentUrl`) and `Clients` implements `Queries` (`KeepsPromise`); no null, false or exception without a cause (`NullIsExplained`) |
| `clients_threads` | `MCClients`, `ClientsThreads.cfg` | on two threads a call that no reconfiguration overlaps addresses the node as configured (`QuietCall`) and has no null without a cause |
| `clients_live` | `MCClients`, `ClientsLive.cfg` | every call returns, every cancelled caller ends |
| `clients_false` | `MCClients`, `ClientsFalse.cfg` | **violation**: `isNodeRunning` is false of a running node because the caller was cancelled |
| `decoding_replies` | `MCDecoding`, `DecodingReplies.cfg` | a value is returned exactly if nothing in the reply was odd (`ValueIsWhole`, `NullIsDeserved`); the decoder stops exactly when all it opened is closed |
| `decoding_outputs` | `MCDecoding`, `DecodingOutputs.cfg` | **violation**: an output of `MAX_OUTPUT_SIZE_CLIENT` makes a reply undecodable |
| `filtering` | `MCFiltering`, `FilteringWindows.cfg` | two windows share one choice and no click is lost (`SharesChoice`), between processes as long as no two handlers overlap; in any case the message is where the documentation is not, and a reload shows what the window showed unless another has written the item |
| `filtering_site` | `MCFiltering`, `FilteringSite.cfg` | **violation**: on the pages of crypto and util the button that hides the documentation does not bring it back, whatever the page says (`MessageHelps`) |
| `scripts` | `MCScripts`, `Scripts.cfg` | the row the URL names is highlighted, in the open tab and scrolled to, unless it is filtered or a link was followed while a timer ran; signatures are wrapped exactly if they do not fit, and indented once, or once more where resize and observer met in a frame; the menu is shown in every order of script, document and reply, and marks the page; popups go; the theme chosen last is kept |
| `anchors_site` | `MCAnchors`, `AnchorsSite.cfg` | **violation**: the timer of an earlier anchor expires after the next was scrolled to, and scrolls back (`SettledAtHash`) |

Bounds. `MaxGeneration` bounds the reconfigurations: one suffices for a torn URL
and for a call that spans a change, two for a call that spans two (threads), three
for one that returns to an earlier setting's values (consecutive settings differ
in every property, the third equals the first). A reconfiguration that leaves a
property alone is one between settings that agree in it, and adds no URL that the
instances do not have. Two callers are enough for callers
to compete for a thread and to resume in either order; they share nothing but the
threads and the node. Two threads suffice for owner and caller to run at once, or
for two callers with different knowledge. `Ops` holds one operation that decodes and
one that does not; the others differ in path and class only. `Pollers` are callers
that repeat a call without suspending until it is answered. `EngineTimeout` is one
tick where only its existence matters; in `http_deadline` a tick is five seconds,
three of them the engine's default, two `REQUEST_TIMEOUT`. `AgeBound` stops
counting at the timeout. In `Decoding` lists have up to two elements, and numbers
are as wide as `DaemonBits` says or one bit wider than their type: the daemon's
numbers have 31 bits, or as many as a long where every class declares one, and in
`decoding_outputs` its amounts the 37 of `MAX_OUTPUT_SIZE_CLIENT`. `HttpDeadline`, `DecodingReplies`, `DecodingOutputs` and
`Scripts` do not check for deadlock: a coroutine that has ended, a reply that is
decoded, or a page whose reader has made all the moves of the instance, takes no
more steps.

Of the site, `FilteringSite` and `AnchorsSite` are the committed pages: one button
per page, four source sets of which two have an entry in
`sourceset_dependencies.js`, and one tab for all members. On such pages source sets
never come together and no tab can be chosen, so `FilteringWindows` and `Scripts`
have more than the site has now: a page with two source sets, one of which depends
on the other, and a page with two tabs, which the same scripts serve. Two windows
are enough for a lost update, which takes a read, a write by another, and a write.
`MaxMoves` = 3 lets a link or a reload come before, between and after two timers, as
a link, a reload and a link again; with two source sets and rows of one or of both a
row may be filtered, or stay when one of its source sets goes;
`MaxResizes` = 4 with three widths lets every signature be wrapped, unwrapped and
wrapped again, hidden and shown in between. The menu is an excerpt of
`navigation.html` with every kind of name that begins with another, and pages that
it lists, that belong to a class or package it lists, or to a module it does not.

Fairness (`Clients!Fairness`). A coroutine that runs goes on (weak fairness of the
steps of a call), the dispatcher resumes what is ready although its threads may be
taken again and again (strong fairness of `ResumeCall`: dispatchers are queues),
time passes and the engine's timer fires. Of callers it is assumed that between
two calls they suspend or end, of the owner that it finishes its assignments.
Nothing is assumed of daemons or network: `EveryCallReturns` holds because of the
engine's timeout, and fails without it. `CancelledCallerEnds` is checked without
pollers. A poller that is cancelled gets null at once from every further call
and, if it insists, never ends nor gives up its thread: the swallowed cancellation
makes that loop possible, but the loop is the application's.

For the site (`AnchorsFairness`, `SymbolFairness`, `MenuFairness`,
`ClipboardFairness`) what a browser does of itself: a page goes on loading, scripts
run, events are dispatched, timers expire, frames are rendered, promises are
settled. Nothing is assumed of the reader or of the network: whether
`navigation.html` or `sourceset_dependencies.js` arrives is open.

Two observations have no run, since the repository promises nothing they break but
in passing. A signature that is shown and resized between two frames is indented
twice, by `onresize` and by the observer (`coincided`); `OneSpareIndent` bounds it: the
second indent goes when the signature is unwrapped, and there is never a third. And the popup "Link copied to clipboard" is shown even if `execCommand`
returned false: nothing was copied (`Popup` with the outcome "refused").

## 4. Proofs

`NodeProofs` proves, for any number of threads, callers, settings and
reconfigurations (from `CoroutinesAssumption`, that the owner is not a caller and
`Parked` no thread, and `NodeAssumption`, that `Settings` is a function on the
generations):

* `NodeTypeCorrect`: `NodeSpec => []NodeTypeOK`;
* `QuietCallCorrect`: `NodeSpec => []QuietCall`;
* `CurrentUrlCorrect`: if `OneThread`, then `NodeSpec => CurrentUrl`.

None of the properties is inductive: they speak of the moment at which the URL is
complete. The invariant behind all three is `Known` (what anyone has seen was
assigned, and what is not pending is of the target generation). `Quiet` adds that
the thread of a calm caller knows every assignment until its last read, so that a
read returns the last value (`ReadLatest`) and leaves the thread's knowledge as it
was, whoever reads. `Confined` adds that a thread runs one coroutine, that a caller
between two reads and an owner between two assignments still have their thread
(`MaySuspend`), so with one thread not both can be there (`OneRuns`), and that the
one thread knows everything. Each is preserved action by action.

`ClientsProofs` proves of the composed system, from the same assumptions and
`HttpAssumption` and `ClientsAssumption`:

* `UsesNode`, `UsesHttp`: `Spec => NodeSpec` and `Spec => HttpSpec`. Every step of
  `Clients` is a step of the component or leaves it alone, so that the theorems of
  `NodeProofs` hold of it (`ClientsQuietCall`: `Spec => []QuietCall`);
* `TypeCorrect`: `Spec => []TypeOK`. The type of an outcome depends on the operation,
  and `since` is a generation only because a reconfiguration that has begun has a
  target other than 0 (`Begun`);
* `PromiseKept`: if `OneThread`, then `Spec => KeepsPromise`, that is, `Clients`
  implements `Queries`. A call answers from the values it has read, but `Queries`
  speaks of the generations published since it was asked. `Timely` connects the
  two: once the URL is complete, its values are of one generation, published between
  `since` and now. It holds because with one thread no reconfiguration can be half
  done while a caller reads (`Confined`). `Sound` is the conjunction of `Timely`,
  `Confined`, `Known`, `Begun` and the types. The last assignment maps to
  `Reconfigure`, `StartCall` to `Ask`, `FinishCall` to `Answer` or `GiveUp`,
  `Escape` to `GiveUp`, `Delay` to `Forget`, and every other step to none;
* `NullExplained`: `Spec => []NullIsExplained`. The invariant `Explained` says of every
  stage of a call what is known before the caller is told: a cancelled job, a stopped
  daemon, a failed exchange and a reply that is not good have each left their mark in
  `spoiled`. Its one hard step is a refused connection, which is explained by a stopped
  daemon only if the request went to a configured address: `ToConfigured`, which
  follows from `Timely` on one thread and from `QuietCall` on several.

`DecodingProofs` proves of every class table that satisfies `DecodingAssumption`,
every length of lists and every sequence of oddities:

* `DecodingTypeCorrect`: something of the table is expected in every open object and
  array (`Stacks(Entries)`), and the decoder stops exactly when none is open. What is
  inside a value that fits is of the table again (`InsideEntries`);
* `ValueCorrect`: `DecodingSpec => []ValueIsWhole`. The invariant `Whole` says so
  while the reply is still read. It rests on `OddFits`: of what is not declared,
  unquoted strings fit and nothing else;
* `NullCorrect`: if every number property is as wide as what the daemon reports under
  its key (`NumbersHeld`), then `DecodingSpec => []NullIsDeserved`. The invariant
  `Deserved` adds that the stack holds only entries that are wide enough (`Ample`), so
  that what is declared fits (`DeclaredFits`). The condition is one about the daemon
  and the chain: `decoding_outputs` shows that the committed classes do not meet it at
  `MAX_OUTPUT_SIZE_CLIENT`, and those with counters that are `Int` stop meeting it once
  the chain has outgrown them. `ValueCorrect` does not need it: what no longer fits is
  lost, not cut.

`FilteringProofs` proves for any windows, pages, buttons and dependencies:

* `FilteringTypeCorrect`, and `MessageCorrect` from `Placed` (a page whose load handler
  failed has no active filters, so that a click on it does nothing);
* `ReloadCorrect`: the invariant `Agrees` says of a window no other has disturbed that
  it shows what its handler is about to make of the item (`Meant`), and that what the
  handler has read is still there; `Busy`, that a handler adds or removes, and has read
  only what it has yet to write;
* `ChoiceShared`: `FilteringSpec => SharesChoice`, the refinement of `SharedChoice`,
  in one process always and between processes while no two handlers overlap
  (`raced`). The choice is the item as the running handlers will leave it
  (`Intended`), so that a click is the abstract step and the writes are none. `Apart`
  says that handlers that run at the same time are in `raced`, which in one process
  is empty, and that the copy of one that runs alone is the item; where a handler
  runs alone, `Intended` is what that handler means to leave (`IntendedIsMeant`).

`AnchorsProofs` proves for any rows, tabs, source sets and number of moves:

* `AnchorsTypeCorrect` and `HighlightCorrect` from `Bounded` (an event per link, and
  before the script neither event nor highlight);
* `TargetCorrect`: whatever `handleAnchor` starts from, in an aborted page too, it
  leaves the tab of the row open (`HandleAnchorResult`, `RevealShows`);
* `SettledCorrect`: `Current` says that unless a link was followed while a timer ran
  every timer is for the row the URL names now, so the last thing that scrolls,
  event or timer, scrolls to its place (`Place`): to the row, which by `TargetCorrect`
  is in the open tab, or to the top of the page if it is filtered.

`SymbolProofs` proves for any signatures and widths, and for any number of resizes:
`SymbolTypeCorrect`, `WrappedCorrect` and `IndentedCorrect`, from the invariant `Calm`
of a single signature, hidden or not: what is neither observed nor about to be resized
is wrapped as needed, what is observed is not wrapped, and indents follow wrapping, with
one to spare if a resize and the observer fell into one frame.

`SideMenuProofs` proves for every site that satisfies `NamesAssumption` and
`NavigationAssumption`, of whatever names and size:

* `MarksPageCorrect`: `MenuSpec => []MarksPage`. `revealNavigationForCurrentPage` looks
  for the page's id in the ids of the menu as a piece of text, cuts it at its last slash
  and tries again, and takes the first part that contains what it tries. That this finds
  the part that stands for the page is `SelectCorrect`, an identity of texts:
  - module and package are followed by separators their names do not contain, so a text
    that starts with a module and is contained in an id can only be contained at its
    beginning (`Align`, `OneModuleSeparator`), and then agrees with it up to each separator
    (`SplitEqual`, `SplitBegins`): module and package are the same, and what is left of
    the name is equal or begins the other (`MatchShares`);
  - the whole id is in no id but its own (`WholeMatch`), so what the menu lists is marked
    itself (`SelectOwn`);
  - a member of a class is in the menu under its class only. Every text longer than
    module, package and class is in no id (`LongerMatch`), that one is in the ids of the class
    and of those of the package whose names go on (`ShortWithin`), and the class is the
    first of them (`SelectClass`). This is where the order of the menu matters;
  - a page of a module without menu matches nothing (`SelectNothing`);
* `MenuTypeCorrect`, which rests on the former: what is marked is a part of the menu;
* `MenuAwaitedCorrect`: once the script has run, the menu is being displayed or there is
  a listener for an event that is still to come.

`PageProofs` proves for any icons, clicks and windows:

* `ClipboardTypeCorrect`: no click leaves a textarea in the page (`TimersCounted`: an icon
  has no more timers than there were clicks);
* `PopupTimedCorrect`: a popup that is shown has a timer that will take it away;
* `ThemeKeptCorrect`: the windows opened since the last choice, and the one it was made
  in, have the theme that is stored.

Three theorems are about what the runs show to be violated. Each names a condition under
which the property does hold, so that the violation has this cause and no other:

| Violated | Holds if | Theorem |
|---|---|---|
| `WholeUrl` | all coroutines share one thread | `WholeUrlCorrect`, from `Confined` |
| `FalseIsAboutTheNode` | nobody is cancelled, on one thread | `FalseCorrect`, from `NullExplained` and `Uncancelled` |
| `MessageHelps` | every button has an entry in `sourceset_dependencies.js` | `MessageHelpsCorrect`, from `Placed` |

The condition of `SettledAtHash` is part of `SettledUnlessOvertaken`, and that of
`OutputsReadable` is `NumbersHeld`, of `NullCorrect`. `RequestTimeoutHonoured` has none
in this code: no timeout is configured, and the engine's own is the longer one.

Only model-checked: liveness (`EveryCallReturns`, `CancelledCallerEnds`, `AnchorReached`,
`GetsWrapped`, `MenuShown`, `PopupEnds`), which needs fairness and `ENABLED` and is out of
TLAPS's reach here. Of the last four the invariants they rest on are proved (in order:
`SettledCorrect`, `WrappedCorrect`, `MenuAwaitedCorrect`, `PopupTimedCorrect`); that the
steps they wait for are taken is what remains to TLC. And, being about the constants of
the runs, the six violations. Every invariant and action property that a passing run
checks is proved.

## 5. Not modelled

* `post()`: same control as `get()`, no caller; `Http` describes both.
* Headers, logging, the text of URLs and paths beyond which host, port and scheme
  they have; parameters of requests (the methods have none).
* Values of replies other than the width of numbers; the JSON decoder's order of
  discovering an error; quoted numbers, negative numbers, fractions.
* The engine's connections, retries within a connection, redirects.
* `Config`, `Constants`, `CoinConfig` but for the two limits the runs
  `http_deadline` and `decoding_outputs` are about; crypto and util (no behaviour);
  build and CI.
* Of `Anchors`: pages without tabs (lists of packages and modules), on which
  `handleAnchor` finds no tab to open; how the filter is chosen, and that the windows
  of the site share it, which is in `Filtering`: here the load handler leaves any of
  the source sets, and a click changes them as `filterButtonHandler` does.
* Of the site: platform tabs and sample playground (`togglePlatformDependent`,
  `refreshPlatformTabs`, `initPlayground`), and `copy-icon`, for which no page has
  an element; `main.js` and `prism.js` (third-party bundles); scrolling the menu to
  the marked part and the footer's smooth scrolling, which change no state that
  anything reads; `localStorage` that is disabled or full, and a window closed in the
  middle of a handler.

## 6. Plan

Done: everything above. What might be added, in this order:

1. The invariant behind `EveryCallReturns`, as those behind `MenuShown` and `PopupEnds`:
   a call that is not over holds a thread, is ready for one, or waits for an exchange
   whose deadline is still to come.
2. Windows that are closed between two writes of the item `inactive-filters`, if the
   site ever has pages with several source sets.
3. `Http` on its own: that cancellation and the engine's timeout race with a reply,
   as properties of the exchange, with their theorems.
4. Several clients that share one HTTP client with a bounded connection pool, if the
   pool's limit turns out to be visible to callers.

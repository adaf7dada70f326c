# TLA+ models of the OneAgent SDK for C/C++ and its sample

The repository contains the headers of the SDK, its CMake package, one complete program,
`samples/sample1`, that uses the SDK, and the reference documentation with the scripts that
run in it. The agent and the SDK library themselves are binaries. What runs and can be
modelled from source is

- the sample: an in-process "distributed" application in four threads (or one process per
  request) with a shared billing queue, exceptions carried across threads, and a protocol of
  calls to the agent that must be right on every path;
- the selection logic of the CMake package;
- the search panel of the documentation, an event-driven program with timers and a frame that
  loads late, its list of results and the parts of a page that open and close.

1. [The system](#1-the-system)
2. [Modules](#2-modules)
3. [Runs](#3-runs)
4. [Proofs](#4-proofs)
5. [Disagreements found](#5-disagreements-found)
6. [What is not modelled](#6-what-is-not-modelled)
7. [Plan](#7-plan)

## 1. The system

Paths are relative to the repository; `S/` is `samples/sample1/`.

| component | state | operations | interacts with | what is hard | correct if |
|---|---|---|---|---|---|
| billing queue, `S/billing_queue.h` | `m_queue`, `m_queue_mut`, the gauge `m_size_metric`; a static map of queues with its own mutex | `send`, `poll_receive_one`, `connect_queue` | called by the transformer service (dispatcher thread) and by cleanup (main) | interleaving; exceptions under a lock; a message whose id is empty means "no message" | linearizable FIFO; nothing half-sent; gauge at most one behind; one queue per name |
| web client, `S/web_client.h` | tracer, response shared with the server thread | `send_request`, `do_send_request` | spawns and joins the server thread | captured references; failure to start a thread | answers every request, `-1` if the exchange failed |
| web service, `S/web_service.h`, `S/web_service_impl.h` | web application info, tracer, in-process link, a `std::future` | `process`, `get_response_body` | starts the database thread with `std::async`, calls the transformer service | the future must be waited for on the exceptional path too: its thread uses `this` | 200 only with both results, 500 otherwise |
| configuration database, `S/config_database.h` | database info, tracer | `get_output_prefix` | runs in the database thread | fails before or after its tracer exists | every tracer ended once |
| transformer service, `S/transformer_service*.h` | tag, exception pointer, result, messaging info | `transform`, `dispatch`, `invoke_remote_method` | dispatcher thread; sends to the billing queue | exception carried by `std::exception_ptr`, rethrown through three catch clauses | a bill for each transformed text |
| main loop and cleanup, `S/main.cpp` | messaging info, the queue reference | read a line, `handle_request`, `perform_cleanup`, `poll_process_messages`, `on_billing_message`, exit | all of the above | a message that cannot be paid interrupts the cleanup | each message handled once, in order; nothing left running at the prompt |
| fork mode, `S/main.cpp` | one copy of everything per process; the SDK's fork state | `fork`, one request in the child, return | SDK initialized with `ONESDK_INIT_FLAG_FORKABLE` | copies of the queue, restricted use of the SDK in the original | children traced, only one reader of the prompt |
| SDK contract, `include/onesdk/*.h` | handles, per-thread active tracer, agent state | create/start/error/end, tags, links, infos | called everywhere above | thread affinity, LIFO order, set-before-start, agent may toggle at any time | callers keep the contract |
| CMake package, `onesdk-*.cmake` | CMake variables | version check, platform detection, thread library, targets | an application's build | several sources of the same fact, each of which may be silent; variables the caller has set | a supported build gets its own libraries |
| search panel, `docs/search/search.js` (class `SearchBox`) | the object's members and the document; two timers; focus, key and pointer | handlers of the field, the selection window, the icon and the close button; `Search`, `Activate`, `OnSelectItem` | gives the frame an address; is given back the focus by the list of results | timers that outlive what started them; a search field compared with a differently stripped copy; events of one key that go to several elements | what it shows is what was asked; Escape clears; it comes to the results of the text typed |
| search results, `docs/search/search.js` (class `SearchResults`, `createResults`) | which rows are displayed and unfolded; the focus; `lastKey`, `repeatOn` | `Search`, `Toggle`, `Nav`, `NavChild`, `ProcessKeys` | loaded in the panel's frame with the text in its address | keys that repeat or are released elsewhere; rows that are filtered or folded | the right rows; the keys walk over what is visible |
| search index, `docs/search/searchdata.js` and `convertToId` | generated tables | choice of a page, comparison of ids | both of the above | ids with escapes; spaces | every row of the section that begins with the text, and no other |
| dynamic parts, `docs/dynsections.js` | visibility, icons, arrows, stripes and images in the document | `toggleLevel`, `toggleFolder`, `toggleVisibility`, `toggleInherit`, `updateStripes` | independent of the search | hidden rows keep old icons; images are computed from the old image | icons and arrows tell what is visible |
| SDK strings, `include/onesdk/onesdk_string.h`; utilities, `S/util.h`; menu, `docs/menu.js` | none | pure functions, markup made once | everywhere | boundaries | not modelled, see section 6 |

`PROJECT.json` lists all components, the hazards line by line with the properties that
cover them, and the lines each definition stands for.

## 2. Modules

Definitions keep the names of the code where they can. A definition whose comment starts
with "Mutant" is not part of a specification: it is a variant of the action below it with
a plausible bug, and a property has been seen to fail when the action is replaced by it.
There is one for every property of every passing run.

### FifoQueue, BillingQueue (and BillingQueue_proofs)

`FifoQueue` is the contract: `send` appends or fails without effect, `poll_receive_one`
takes the oldest payload or reports that there is none, each in one step between call and
return. `BillingQueue` is the class statement by statement.

| code | model |
|---|---|
| `m_queue_mut` | `lock`, its holder or `NoThread`; `Acquire` is the `lock_guard` |
| `m_queue` | `queue`, a sequence of `[id, payload]` |
| `m_size_metric` | `gauge`, the last value given to the metric |
| `message` of `send`, `result` of `poll_receive_one` | `local[t]` |
| control of a thread in its call | `pc[t]` |

Line 64-65 (`SendAssign`), 66 (`SendPush`), a throw of either (`SendThrow`), the release by
unwinding and the catch clause (`SendUnwind`), 75-76 (`PollEmpty`), 77 (`PollFront`: the
front becomes a moved-from message), 78-79 (`PollPop`) are separate steps, so that a missing
lock would show. An id is the size it was printed from (`std::to_string` is injective on
sizes), `NoId` the empty string. The headers of a message are left out here.

### QueueRegistry (and QueueRegistry_proofs)

`connect_queue` with any number of threads and names. `slot[n]` tells an entry that does not
exist (`Absent`) from one with a null pointer (`Null`), which is what `operator[]` leaves
behind when the creation of the queue throws. `made` records the names queues were created for.
The constructor creates the metric (`CreateMetric`) before the member `m_queue`, which allocates in the common
libraries, so it can fail before (`CreateThrows`) and after it (`ConstructThrows`): `metrics[n]` counts the
metrics of a name, `orphans[n]` those a failed constructor left behind. `Exit` destroys the static map.

All threads of the program are joined before it reads a line, so `main` and the dispatcher never call the
queue or `connect_queue` at the same time; the interleavings checked are those the two mutexes are there for.

### TracerAgent

The SDK as its header states it: a record (tracers with phase, owner, parent, tag and error,
the active tracer of each thread, info objects, is the agent active) and one operator per
call, from the record before to the record after. It has no variables, so that an action of a
caller can make several calls. A call the header forbids - another thread's handle, a second
start, error or end, an end that is not in LIFO order, a setter after the start, a lost
handle, a deleted info object - only sets `misuse`, for good. All of it is external to the
sources and marked so. Calls with an invalid handle are silently ignored, as documented, and
an inactive agent creates invalid handles.

### RequestService, RequestPipeline (proofs in Sample1App_proofs)

`RequestService` is what the user sees: a request is asked, perhaps billed, and answered; the
transformed text is only given away for a bill, a failure may come before or after it.

`RequestPipeline` is the code between the line typed and the response printed:

| thread | code | actions |
|---|---|---|
| `main` | `handle_request`, `send_request`, `do_send_request` | `ReadRequest`, `SendRequest`, `SpawnServer(Fails)`, `JoinServer`, `FinishRequest`, `Reply` |
| `server` | the lambda of `do_send_request`, `process`, `get_response_body`, `invoke_remote_method` | `ServerBegin`, `CaptureLink`, `StartAsync(Fails)`, `CallRemote`, `SpawnDispatcher(Fails)`, `JoinDispatcher`, `AwaitFuture`, `UnwindFuture`, `ServerOk`, `ServerFail`, `ServerTransportFails` |
| `db` | the lambda of `get_response_body`, `config_database` | `DbBegin`, `DbQuery(Fails)`, `DbFetch(Fails)`, `DbClose`, `DbThrow` |
| `disp` | the lambda of `invoke_remote_method`, `dispatch`, `transform` | `DispBegin`, `Transform(Throws)`, `SendMessage(Throws)`, `DispReturn`, `DispThrow` |

`pc[t]` is a thread's position, `"idle"` before it exists and after it was joined. An action is
the block between two points where threads interact, with all its calls to the agent in their
order. `Faults` selects the failures: thread creation, `std::async`, transport, query, send.
Queue operations are single steps, which `BillingQueue` justifies. The body of a request is a
model value, valid or with a `!` in it; the answer 200 carries the text it was made from.
`AgentToggle` lets the agent become inactive or active between any two steps.

### Sample1App (and Sample1App_proofs)

Extends `RequestPipeline` with `main` outside `handle_request`: the prompt, cleanup, the exit and
`onesdk_shutdown`. A cleanup goes through the stages `"cleaning"` (`BeginCleanup`: its own tracer is made),
`"polling"` (`BeginPolling`: the receive tracer is made; `PollMessage`, `PollNothing`) and `"paying"` (`Pay`,
`PayThrows`). The agent can move between any two of these steps, so any of the three tracers may be invalid while
the others are not. `current` is the message being paid for, `ledger`
the messages whose handling has ended, paid or not. `Cost` is `changed_chars * 2 +
total_chars` in unsigned arithmetic of `Width` bits, and `ZeroCost` the texts whose cost is
zero, so that paying them throws: the empty line of the program's hint 3, and a text so long that
its cost wraps to zero.

### ForkedApp (and ForkedApp_proofs)

`--fork`: every process has its `at` (position), `sdk` (fork state) and `pending` (its copy of
the queue). A request is one step, see `RequestService`. Children end in any order, before or
after the original.

### PackageConfig (and PackageConfig_proofs)

The scripts of the CMake package, one action per block. `env` is what CMake knows before:
which names the three architecture variables hold, the two pointer sizes, the system, where
`pthread_create` can be found, whether the caller has set `onesdk_thread_libs`, and the version
asked for. `X86Names` and `SparcNames` are the names the two regular expressions match; `aarch64`
stands in the instance for every name they do not match (`i586` is one).

### SearchIndex (proofs in SearchResults_proofs)

The pure functions: `Squeeze`, `StripLeading` and `Trim` are the three regular expressions that
remove spaces, `ConvertToId` the loop that escapes characters, as a recursive function on the beginnings of
the text, `AddressOf` the page `Search` asks for, `Displayed` the rows of that page `SearchResults.Search`
leaves visible. A text is a sequence of characters of one case. The tables that doxygen writes are the
constant `Index`, and what they guarantee is `IndexAssumption`; `Escaped` are the characters that the regular
expression of `convertToId` escapes, the underscore among them, with their codes (`EscapedAssumption`).

### SearchBox (and SearchBox_proofs)

A handler of the panel calls several methods, which write several members and elements. So all of
them are one record, `box`, and a method is an operator from a record to the next: `Activate`,
`Search`, `OnSelectItem`, `CloseResultsWindow`, `KillKeyTimer`, `FieldChanged` (the end of
`OnSearchFieldChange`).

| code | model |
|---|---|
| `OnSearchFieldChange` (key up in the field) | `ReleaseInField`, one disjunct for each return |
| `OnSearchFieldFocus` | `ClickField`; `Blur` wherever the focus leaves the field |
| `OnSearchSelectKey` | `PressInSelect` |
| `OnSearchSelectShow`, `OnSearchSelectHide` | `MovePointer` |
| items of the selection window, close button | `ClickItem`, `ClickClose` |
| `setTimeout` of the two timers | `KeyTimerFires`, `HideTimerFires` |
| the frame's address and its loading | `box.location`, `box.loading`, `PageLoads`, `frame` |
| `SearchResults` in the frame | `PressInResults`: it keeps the focus or gives it back |

A timer that `clearTimeout` was not called for stays pending when `keyTimeout` is forgotten:
`keyTimers` counts the pending timers, `keyTimeout` says whether the member names the youngest. A key
goes down and comes up in two steps, because a handler that moves the focus sends the second event
elsewhere. The `TypeError` of `Search` for a section that does not exist (`AnotherItem` lets the
selection go there) ends the handler where it is raised (`SelectThrows`).

### SearchResults (and SearchResults_proofs)

The frame's page: `address` and the text in it, the `unfolded` rows, the focus, and `lastKey` and
`repeatOn` of the key handling. `Press`, `KeyPress` and `Release` are the three events of a key; their
handler is `Nav` or `NavChild`, on whatever has the focus by then. `Click` and `Toggle` fold and unfold,
`Load` replaces the page.

### DynSections (and DynSections_proofs)

`shown` rows, `open` icons, `down` arrows and `even` stripes of the table of files, and `content`,
`summary` and `image` of the sections and lists of a page. A row is the path its id spells.
`toggleVisibility` and `toggleInherit` cut the ending off the source of an image by the length it should
have; `Cut` says `"garbled"` if it is another one.

## 3. Runs

Every run ends within two minutes. `MC*.tla` only name values.

| run | states | instance | what it shows |
|---|---|---|---|
| `billing_queue` | 303,405 | 2 senders, 2 receivers, 2 payloads, 4 sends | the queue implements `FifoQueue` (`ImplementsFifo`); the front is not touched between `front()` and `pop()` (`FrontStable`); an empty id is never queued (`QueuedHaveIds`); the gauge lags by at most one (`GaugeLag`); the mutex is always given back (`MutexReleased`) |
| `queue_registry` | 87,336 | 3 threads, 2 names, creations that fail before or (twice for a name) after the metric | one queue per name, and one metric beside those of constructors that failed late (`OneQueuePerName`), no null pointer handed out and everyone gets the same (`ConnectedToItsQueue`), references stay valid and a name that has its queue gets no further metric (`QueuesStay`) |
| `request_pipeline` | 383,556 | 2 requests of 2 texts, all faults, agent toggling | threads nest like calls (`StructuredThreads`); no forbidden call (`NoUsageError`); nothing left at the prompt (`QuiescentClean`); trace links (`LinkedHops`); at most one bill, none unanswered but for a failed query (`BilledOnce`); an answer is made of both results (`AnswerIsWhole`); errors are on the right tracers (`ErrorTrail`); refinement of `RequestService` (`ImplementsService`); every request is answered (`RequestAnswered`) |
| `sample1` | 107,133 | 2 requests of 3 texts (plain, empty, wrapping), send may fail, cleanups and the exit anywhere, agent toggling outside requests | no message lost, doubled or overtaken, also by a cleanup that fails (`NothingLost`); what is unpaid is unpaid for its own text (`OnlyZeroUnpaid`); failed cleanups are traced as such (`CleanupBlamed`); `NoUsageError` over the whole program; process tracers with the sender's tag, in their receive tracer or, if that is invalid, in the cleanup's (`ProcessTraced`); tracers ended and info objects released before the shutdown, the queue's metric excepted (`ReleasedAtExit`) |
| `forked` | 1,459 | 3 requests, fork and requests may fail | one reader of the prompt (`OnePrompt`), children can trace (`ChildrenTraced`) |
| `forked_hint`, `forked_sdk` | violations | 3 requests, no failures | see section 5 |
| `package_config` | 367,296 | every combination of 5 processor names (three variables), 2 x 3 pointer sizes, 4 systems, 8 sets of thread libraries, 7 versions | a supported build gets its own libraries (`SupportedGetsItsLibrary`), a thread library is asked for exactly if it is needed, it is the first that will do, and the caller's setting survives (`ThreadsLinkable`) |
| `package_config_solaris` | violation | Solaris only | see section 5 |
| `search_box` | 444,211 | 5 texts (empty, label, three that share a first character, one of them with a space), 2 sections of one page, 2 key timers | an inactive panel shows its label, an active one will search (`PanelState`); the selection window is not closed under the pointer (`SelectionStays`); Escape clears, or has thrown (`EscapeClears`); results only open in an inactive panel by a timer that fires late (`OpensLate`); in the end the results are those of the text typed (`Converges`) |
| `search_results` | 1,023 | 9 texts, 3 pages of rows with none, 2 and 3 matches, spaces and underscores in the names | the rows displayed are those that match (`SearchSound`); the focus is visible (`FocusVisible`); Down and Up go to the next and previous visible link (`DownIsNext`, `UpIsPrevious`) |
| `dyn_sections` | 256 | a table of 11 rows, 4 levels deep, 6 folders; a section; a list | a visible row is in open folders (`RowsReached`), icons and arrows tell what is visible (`FoldersTold`), images too (`ImagesTold`) |

Three properties name the exceptions the code has and hold outside them, so they do not catch
these. `Converges` assumes of the user, besides stopping, that Shift and Down were not pressed in the field (the handler kills the timer of a text
not searched yet and returns, `docs/search/search.js:158-170`) and that the label itself was not typed
(`Activate` takes it for its own, line 384). `UpIsPrevious` leaves out `Skewed`: on a row that follows a
filtered one, Up looks for the matches in row `newIndex` and not in the visible row it found (lines 606-615),
so it goes to that row instead of its last match, or to a match that is not visible, which does nothing.
`EscapeClears` is about every Escape pressed in the panel, and lists the one case in which it fails: with the
item past the last selected (line 270 lets Down go there) and a text to search for, the handler throws in
`Search` (line 323) before it has given the focus to the field. `PROJECT.json` lists these as hazards that no
property covers: the code has them, and nothing in the repository says it should not.

**Bounds.** `MaxSends = 4` lets one sender overtake the other, fail and repeat an id while
messages of both are queued; two receivers are enough for two polls to race for the last
message. Two requests in `request_pipeline` are enough for anything left from one to disturb
the next; requests do not overlap, because `main` joins the server. Two requests in `sample1`
let a cleanup fail on the first message and another pay for the second, or fail again; `Width = 3` makes
2 changed of 4 characters wrap to zero. There the agent only moves outside requests
(`MovesInRequests = FALSE`), because `request_pipeline` has it move within them and nothing of a request
is left at the prompt (`QuiescentClean`). Three threads in `queue_registry`: one that creates, one
that failed, one that comes later. `MaxOrphans = 2` lets a constructor fail late, and the retry as well, before a
queue is made; more of them only repeat this. `MaxTimers = 2` in `search_box`: a timer that was forgotten and
the one that is named; a third could only be forgotten as the first. Pages and rows are the fewest with a
filtered row between two displayed, an unfolded row on either side, and a name whose escape could be
taken for another's text. No run uses a state constraint or symmetry, and deadlock is checked in
all runs; where the program waits for a user or has ended, a named stuttering action says so (`Prompt`,
`Exited`, `Done`, `Ended`).

**Fairness.** A thread that is not waiting for another one or for a mutex runs: weak fairness
per thread (`SendStep`, `PollStep`, `MainStep`, `ServerStep`, `DbStep`, `DispStep`). A join is only
enabled when the other thread has ended, so this assumes nothing of the thread waited for. Nobody
has to type a line, the agent need not move, and no fairness is assumed of who gets a `std::mutex`:
the standard gives none. So no run states that a particular send or poll returns, only that the
mutex becomes free again. In the panel, timers that are pending fire and a page that was asked for
loads, which a browser does; the user does what he likes, and `Converges` is about one who stops.

## 4. Proofs

`tlapm` proves all obligations of eight modules, for any sets of threads, texts, names, faults, rows, pages,
processors and systems, and any value of the bounds. Assumed is only what the modules declare beside their constants:
special values differ from what they stand beside (`ThreadsAssumption`, `PayloadAssumption`,
`NoThreadAssumption`, `InputsAssumption`, `ChildrenAssumption`), bounds are natural numbers
(`BoundAssumption`, `TimersAssumption`, `MaxOrphansAssumption`), faults are among the known ones
(`FaultsAssumption`), and the generated tables are as doxygen writes them (`IndexAssumption`, `TextsAssumption`, `TableAssumption`,
`PartsAssumption`), characters have one code each and the underscore is one that is escaped
(`EscapedAssumption`), and no name is both that of an x86 and of a SPARC processor or matches without being
set (`ConfigAssumption`). TLC evaluates each of them in the runs.

**BillingQueue_proofs**: `Spec => []IInv` (`Invariance`), and from it `TypeCorrect`,
`MutualExclusion`, `NoFalseEmpty`, `FrontUntouched`, `PositionsCovered`, `GaugeLags`, and the
refinement `Linearizable == Spec => ImplementsFifo`. The invariants are not inductive one by one:

- popping keeps the type of `queue` and `gauge` only if the queue is not empty: `TypeOK` needs
  `FrontStable`;
- `FrontStable` needs `MutexHeld` (nobody else is inside) and `QueuedHaveIds` (what was moved out
  had an id, so the receiver really has a message);
- `QueuedHaveIds`, `IdsCoverPosition` and the gauge need `SenderLocals`: between assignment and
  push the id and the gauge are the size the queue still has;
- the refinement needs that a caller's local message is empty when idle and carries a payload
  otherwise (`SenderLocals`, `ReceiverLocals`, `QueuedHavePayloads`).

`IInv` is their conjunction. The refinement maps `send` to its push (or the statement that throws)
and `poll_receive_one` to its pop, or to the test that finds the queue empty: the operation takes
effect there, `reply` says so, and all other steps stutter.

**QueueRegistry_proofs**: `Spec => []IInv` and from it `TypeCorrect`, `OneQueue`, `Connected`, `MetricsExact` and
the action property `References`. A second queue for a name would need a null or absent entry for
a name that has a queue. `Owned` says that a queue is in the map unless the thread that holds
the mutex is about to put it there, `Progress` what a thread knows of its entry at each statement,
and with `MutexHeld` nobody else can be there. For the metrics a bound is not inductive: `MetricsAccounted`
counts them exactly, one for the queue of a name or the constructor at work on it (`InConstructor`) and one for
each that failed late.

**Sample1App_proofs, parts 1 to 3**: every safety property of `request_pipeline`, and that it implements
`RequestService`. These parts only speak of `RequestPipeline`.

- The agent, `TracerAgent` alone: what a call, or the calls of a block together, do to
  the record. `Opens` and `Closes` say it for a tracer that is created and started, or failed and ended;
  `Touches` that only one thread's top and one tracer change, which is why the threads do not disturb
  each other; `Usable` is when a thread may use a tracer.
- The control, without the tracers. `Control` says where the threads stand relative to each
  other (`Threading`), that there is at most one bill for a request (`Bills`), and for each thread what its
  position says about the bill and the results it has left (`DbOutcome`, `DispOutcome`,
  `ServerOutcome`, `MainOutcome`, `Settled`). None of these is inductive without the others: that the server's answer
  is right needs what the dispatcher has done, which needs that no other dispatcher runs. `ServiceStep`
  maps every step to a step of `RequestService` or a stutter.
- The tracers. `Tracing` gives for each thread and position its stack of
  started tracers (`Nested`), where any of them may be absent, if the agent was inactive when it was created;
  `TagsMatch` that the tags and links under way are those of the operation that is started, `BillTags` the
  same for the messages, `Dated` that an ended tracer is of this or an earlier request, and `Trails`
  which of the ended ones carry an error. `IInv` is `TypeOK /\ Control /\ Traces`; each kind of step has one
  lemma for each part. From it follow `TypeCorrect`, `ThreadsNested`, `UsageCorrect`, `CleanAtPrompt`,
  `HopsLinked`, `BillsCorrect`, `AnswersWhole`, `ErrorsTraced` and `Refinement`.

**Sample1App_proofs, part 4**: all six safety properties of the whole program, `UnpaidForNothing`, `CleanupsBlamed`,
`AppUsageCorrect`, `ProcessesTraced`, `AllReleased` and the action property `NoMessageLost`, for any texts
and costs, any width of the arithmetic, any faults, and an agent that moves whenever it likes, also inside a
request or a cleanup (which the run leaves out). The program is in one of two modes, and `AppIInv` says what
holds in each and what survives the change:

- at the prompt and in a request, the pipeline's `IInv`. A request leaves the tracers of earlier cleanups and
  the billing info alone (`RequestSpares`, from `SparesCleanup` in the lemmas on its calls);
- elsewhere `Resting`: nothing of a request is live and no thread but `main` has an active tracer. `Levels`
  says which of the three tracers of a cleanup are open, that each is below the one that was open before it, and
  which may be invalid because the agent was inactive when they were created (also in `"cleaning"`, where only the
  first has been made); `main`'s active tracer is the
  innermost of them;
- always `Lasting`, the parts of `IInv` that a cleanup keeps: types, control, tags of the bills and request
  numbers. `IInv` itself does not survive a cleanup, since its `Tracing` wants nothing active on `main`; it is
  built again when the cleanup ends, from `Lasting` and `Levels` with nothing open (`AtPrompt`). A cleanup
  takes bills out of the queue, so that what the error marks of ended tracers tell about them (`Trails`) is
  stated for the request that is being served, not for one that has been answered;
- `BillingInfo`, `Processing` and `BlamedAlike` for the billing info, the message in hand and the error marks
  that an exception leaves on its way out of the nested calls.

`OnlyZeroUnpaid` needs that the cost of a text shorter than a third of `2^Width` does not wrap and is zero only
for an empty text; a power of two is positive because it counts the subsets of a set (`FS_SUBSET`). `NoMessageLost`
compares the concatenation of ledger, current message and queue before and after a step: `Appended` shows
that a send adds one message at its end and every other step regroups it.

**ForkedApp_proofs**: `TypeCorrect`, `OneReader`, `Traced`, `Apart` (messages stay in the process that made
them) and `NothingPaid` (so no cleanup ever pays for one), for any number of children. `IInv` adds that the
original is forkable and that a child is past the prompt from the start.

**SearchBox_proofs**: `TypeCorrect`, `PanelAgrees`, `NamesLive` and the action properties `Selection`, `Escape`
and `Opening`. The record's part of the invariant, `Sound`, is shown for each method once and used by every
handler that calls it. Besides it, `FieldActive` is needed for `Escape` (the key goes up in the field, so the
field's handler sees it: `EscapeHeld`, or `OnSelectItem` throws and goes on throwing until the key comes
up) and `Hovering` for `Selection` (no timer to hide the window is pending while the pointer is on it).

**SearchResults_proofs**: `RowsSound`, `FocusSeen` and the action properties `DownFindsNext` and
`UpFindsPrevious`, for any index, any texts and any escaped characters.

`RowsSound` rests on `IdsCompareAsTexts`: the id of a text is a prefix of the id of another exactly if the text
is a prefix of the other. One way, the id of a beginning is a beginning of the id (`TablesAgree`,
`TableGrows`). The other way, at the first character in which the texts differ, the ids of the two
characters would have to agree as far as the shorter one goes, and then the characters are the same
(`CharIdsApart`): a character that stays is never an underscore, because the underscore is escaped itself, and the
two hexadecimal digits determine the code. These are inductions over the length of a text. The
provers cannot use an induction theorem of the library, but its consequence that a set of numbers has a least element
(`LeastExists`): a least number of characters for which a claim fails contradicts the claim for one
character less. That the recursive definition has a function at all is shown the same way (`TablesExist`).
`LeadingStripped` and `Trimmed` say that stripping keeps the first visible character, which is
why the page asked for is the only one that can have the text's rows (`PageAsked`).

For the keys the filter is left unexpanded: they only need that what is displayed are rows.
`NextRow` and `PreviousRow` say what the loops of `NavNext` and `NavPrev` find, in terms of all displayed rows;
`Seen` and `Visible` what the visible links are. `DownRow`, `DownMatch`, `UpRow` and `UpMatch` then show for the link of a
row and of a match that no visible link is between the old focus and the new one. That Up needs
the exception `Skewed` shows in `UpRow`: its case of an unfolded row above uses that this row is `r - 1`. The
invariant is `TypeOK /\ FocusVisible`: an unfolded row has matches, so Down has a first one to go to.

**PackageConfig_proofs**: `Supports`, `ThreadsLink` and `OnlyMixturesAccepted`. Neither of the two invariants is
inductive: `IInv` says for each block what its variables are once it has run (`ArchFound`, `BitsFound`,
`PlatformFound`, `ThreadLibsFound`), as functions of the environment, and that a run only stops where names,
pointers or system match nothing (`Rejected`). `OnlyMixturesAccepted` says how much the finding on Solaris is: what is
accepted without being shipped is a known system on a known architecture, in a pair that does not exist.

**DynSections_proofs**: `TypeCorrect`, `Reached`, `Told`, `Striped` and `Images`, for any table. `FoldersTold`
only speaks of visible folders, so what hidden ones keep is in `Agree`; showing a folder's rows needs
`RowsReached`, and the lemmas on paths (`ParentBelow`, `OneParent`, `BelowTransitive`) stand for the string
comparisons of the code.

Proved and not run again: mutual exclusion and the cover of positions (`MutexHeld`, `IdsCoverPosition`),
`TimerNamed`, `StripesAlternate`, `MessagesStay` and all type invariants but that of `RequestPipeline`. Only
model-checked is liveness (`MutexReleased`, `RequestAnswered`, `Converges`), which is out of the prover's reach;
every invariant and every action property of the passing runs is proved.

## 5. Disagreements found

- `forked_hint`: with `--fork` the bill is written to the child's copy of the queue and ends with it;
  hints 2 and 3 printed by the program (`S/main.cpp:147-148`) do not hold. `NothingPaid` is the proof.
- `forked_sdk`: with `--fork` the original process creates a metric and a messaging system info object
  and traces cleanups in the parent-initialized state, in which `include/onesdk/onesdk_common.h:385`
  allows none of these calls (they are ignored).
- `package_config_solaris`: Solaris on x86 passes `onesdk-platform.cmake` although `README.md:1007`
  excludes it, and the targets refer to libraries that do not exist.

Two smaller ones need no run. `send` sets the gauge before it pushes (`S/billing_queue.h:65`), so that between
calls the metric can be one less than the number of pending messages; `GaugeLag` says how much and when.
And no metric is ever deleted (`S/billing_queue.h:89`), though `include/onesdk/onesdk_metrics.h:92` asks for it:
the static map of queues outlives `onesdk_shutdown`, and the metric of a constructor that fails after it
(`QueueRegistry`) has lost its handle for good.

## 6. What is not modelled

- the SDK library and the agent: binaries; `TracerAgent` is their documented contract, used as an
  environment. Initialization counts, the stub's loading of the agent and the two calls with which a
  tag is fetched into a buffer are left out;
- contents of headers, URLs and texts, log output, sleeps, trace context strings, custom request
  attributes: no property depends on them;
- exceptions from string or container allocations elsewhere than in `Faults`: they take the same
  catch clauses as the modelled failures of their blocks;
- an unhandled exception in `main` itself ends the program; the models do not contain it;
- the end of the input: `getline` (`S/main.cpp:157`) then leaves an empty line for ever and the loop serves
  empty requests without end. One line shows it, and nothing in the repository promises anything else;
- `S/util.h` and `include/onesdk/onesdk_string.h`: pure functions of a few lines, and constructors without
  decisions; their results only reach the agent, as text;
- upper and lower case in the search (both sides are put into lower case), the position and size of its
  windows, the class names that only choose a colour, and the workarounds for old browsers;
- `docs/menu.js` writes the markup of the menu once from `menudata.js`, and the handlers it attaches are actions
  of `SearchBox`; `docs/jquery.js` is a third-party library; pages, style sheets and the tables of names
  (`docs/search/*_N.js`) are doxygen output without behaviour, of which `IndexAssumption` and
  `TableAssumption` say what the scripts rely on;
- target properties set by the CMake package, the declarations in the samples' CMake files,
  preprocessor macros and static data: no behaviour.

## 7. Plan

Done, in this order: the billing queue with its abstract specification and proofs; the contract
of the tracers; the request pipeline with its abstract specification; the main loop and cleanup with the
arithmetic of the cost; fork mode; the CMake package; the registry of queues with proofs; the search panel, its
results and index; the dynamic parts of the pages; the proofs about fork mode, the panel, the dynamic parts,
the request pipeline with its refinement, the main loop and cleanup, the list of results, the comparison of
ids, and the CMake package.

What could follow: initialization and shutdown of the SDK as a counter (`include/onesdk/onesdk_init.h`), and
the two-call protocol of outgoing tags while the agent toggles. Both need the library's side, which is a
binary.

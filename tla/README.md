# Wireglass in TLA+

Wireglass captures the traffic of JMeter samplers and shows it live. A Spring
server (`src/wireglass-app`) runs load tests itself or receives packets from
other JVMs over a WebSocket; a client library (`src/wireglass-client`) and a
JMeter backend listener (`src/wireglass-jmeter`) send them; a single-page
browser client (`static/app.js`) shows the packets, the runs and the
validation of bodies against schema rules.

This directory holds TLA+ modules of the parts of that system that keep state,
the configurations that model-check them, and proofs.

## Inventory

In the table `…` stands for `src/wireglass-app/src/main/java/com/wireglass/listview`.

| component | state | operations | interacts with |
|---|---|---|---|
| Packet store, `…/store/PacketRepository` | ring of packets, index by id, one reentrant lock | add, importAll, get, recent, count, clear, snapshot | written by the bus and by session import, read by the REST controllers |
| Run list, `…/store/RunRepository` | map from run id to summary, lock per call | upsert (last write wins), get, recent, clear | written by test runs, ingestion and session import |
| Packet bus, `…/capture/PacketBus` | copy-on-write list of subscribers | publish: store, then call every subscriber on the caller's thread; subscribe, close | sampler and WebSocket threads publish; SSE streams and run counters subscribe |
| Test runs, `…/capture/TestRunService` | `runs`, `finished`, one executor thread, two atomic counters per run | start, execute, stop, finish, status | bus, run list, JMeter engine |
| Ingestion, `…/web/IngestionWebSocketHandler` | per-session set of run ids | message, close | bus, run list |
| Live stream, `…/web/TrafficStreamController` | one emitter and one subscription per SSE connection | stream, deliver, closeGracefully | bus, servlet container |
| Session files, `…/web/SessionController` | none of its own | export, import | both stores |
| Clearing, `…/web/PacketsController` | none | recent, get, clear | both stores |
| Remote configuration, `…/capture/RemoteConfigService` | a local file | load, merge | file system, HTTP |
| Capture client, `client/capture/WsSink` and friends | one WebSocket client | open, publish, close | ingestion |
| Extraction, `client/protocol` | none | packet from a sample result | capture client, test runs |
| Live packet list, `static/app.js` | `state.packets`, `state.seen`, the selected run | stream events, `loadRecent()`, run selection, clear | REST and SSE |
| Packet table and filters, `static/app.js` | rows, filter, sort, selection, timers, stored filter | filter, sort, select, append, rebuild | the live list; opens the detail pane |
| Detail pane and body viewer, `static/app.js` | rendered packet, pane, scroll spy, viewer, search | render, close, restore, open, toggle, search | the table; draws links and verdicts |
| Run control, `static/app.js` | active run, intervals, Stop button, status line | start, poll, stop, clear | REST of the test runs |
| Schema rules and sources, `static/app.js` | local rules, URL sources, overrides, switched-off items, verdict cache | add, edit, override, reset, delete, fetch, toggle, reload | server configuration, local storage, table, pane |
| Dashboard and trace links, `static/app.js` | local and server links, window, trace links | add, edit, delete, toggle, reload | server configuration, local storage, pane, global bar |
| Validation, templates and layout, `static/app.js` | none: pure functions | validate, mark, match, fill in, indent, parse, scale | called by table and pane |
| Translations, `static/i18n.js` | the language | lookup, plural, replace labels | every panel |

### What is hard here, and what makes each part correct

* **Packet store.** Adding and importing at the capacity limit, with ids looked
  up while entries are evicted. Correct when ring and index always agree, no
  packet is held twice, a load adds exactly what was not there, and a limited
  view has no gaps.
* **Test runs.** Request threads, one executor thread, JMeter's sampler threads
  and `stop` calls act on a run at once. Correct when exactly one of
  `execute()` and `stop()` finishes a run, the counts it ends with are those of
  its samples, what it ended with is never revised, and every run ends.
* **Ingestion.** Summaries are read and written back without a lock, by
  sessions that may share a run, while others clear or load. Correct when no
  message is counted twice, a run of one session is counted exactly, and no run
  stays `RUNNING` that nobody carries.
* **Live stream.** Publishing threads and the container close a stream
  concurrently. Correct when a closed stream leaves the bus, is completed once,
  and disturbs no other stream.
* **Live packet list (browser).** Stream events, responses and clears are
  handled in any order. Correct when a packet is listed once, is seen exactly
  when listed, and the list is complete once all is quiet.
* **Run control (browser).** The polls of an interval overlap, several runs may
  be polled, and answers come late. Correct when the active run is always
  watched and can be stopped, the outcome shown in the end is the server's, and
  no run that ended is polled for ever.
* **Packet table, pane and viewer (browser).** Rows are appended, or rebuilt a
  frame later, filters are applied by debounced timers, details are rendered
  anew under an open viewer. Correct when the table is what a rebuild would
  draw, controls, filter and storage agree, and pane and viewer show what they
  say they show.
* **Schema rules and links (browser).** Rules come from the user, the server and
  URLs, and are edited, overridden and switched off while fetches are under way;
  verdicts are cached. Correct when no verdict outlives the rules it was reached
  with, an edit changes what was being edited, and everything drawn and stored
  is current.
* **Pure functions of the page.** Correct when they agree with definitions that
  say what they compute instead of how.
* **Capture client, session files, remote configuration.** Reconnection by
  concurrent threads; an export that reads two stores; files created meanwhile.

`PROJECT.json` lists the hazards with the source line where each bites.

## Modules

| module | models | checked by | proofs |
|---|---|---|---|
| `PacketHistory` | the history of packets that readers of the store are promised (abstract) | | |
| `PacketRepository` | ring, index, add, import, clear, limited views | `packet_store` | `PacketRepositoryProofs` |
| `RunLifecycle` | the life of a run as its status tells it (abstract) | | |
| `TestRunService` | start, execute, stop, finish, the counter callback; executor and JMeter external | `test_run_queue`, `test_runs_end`, `stop_halts_other_run` | `TestRunServiceProofs` |
| `Ingestion` | WebSocket sessions, the run list they share, clears and loads | `ingestion` | `IngestionProofs` |
| `LiveFeed` | the feed that the streams promise the tabs (abstract) | | |
| `TrafficStream` | SSE streams and the bus that feeds them; emitter, container, browser external | `traffic_stream`, `traffic_stream_leaves` | `TrafficStreamProofs` |
| `Subsequences` | what filters and sorts leave of a list | with the two lists of packets and the table | lemmas where they are used |
| `PacketList` | the list that a tab promises its reader (abstract) | | |
| `LiveView` | the browser's packet list | `live_view` | `LiveViewProofs` |
| `RunControl` | starting, polling and stopping runs in the browser | `run_control` | `PageProofs`, first part |
| `PacketTable`, `DetailPane`, composed by `TrafficView` | table, filters, sorting; pane, viewer, search | `traffic_view` | `TrafficViewProofs` |
| `ServerItems`, `SchemaRules`, `PageLinks`, composed by `Settings` | the server's configuration and switched-off items; rules, sources, verdicts; dashboard and trace links | `settings` | `SettingsProofs` |
| `Fields` | lists of things with keys | with the two below | |
| `RuleMatching`, `PageText`, driven by `PageFunctions` | the functions of the page and of the translations that look at addresses, rules, times and texts | `page_functions` | `PageProofs`, second part |
| `BodyValidation`, with `BodyFunctions`, which extends the driver | the functions that look into bodies: validation and the marks of its errors; what they ought to return | `page_functions` | |

Each `MC…` module gives the constants of one of them small values. Definitions
marked "Mutant" are faulty versions of the definition that follows them; they
are used to see that each property notices such a fault, and by nothing else.

### How state and actions correspond to the code

**PacketRepository.** `ring` and `index` are the deque and the map; `Add` is
`add()` with the eviction in it. `importAll()` holds the lock over a loop, so
readers see none of it; it is `BeginImport`, one `ImportNext` per entry of the
file and `EndImport`, with every other operation shut out by `importing`. A
packet's id is minted when it is captured, hence `Add` takes a packet that was
never known (`add()` itself checks nothing), while files may hold any packets,
repeated or absent entries included. `Recent` is the view of `recent(runId, limit)`.

**TestRunService.** A run goes through `Register` (counter subscribed, entered
in `runs` and in the run list: no other thread knows the id before), `Submit`
and `Return`. The executor's thread takes the queue's tasks (`TakeTask`), the
engine starts and the plan ends (external), and `ExecuteFinishes` calls
`finish()`. A stop is `StopFinds`, `StopEngine` (the static call reaches the
engine that is running, whosever it is), `CancelTask` and `StopFinishes`.
`finish()` is the removal from the map (`Remove`, which decides between the
two callers), `CloseCounter`, `PutStatus` and `ListFinal`. A sampler thread stores its
packet, takes the subscribers of that moment (`Deliver`), increments the
counters and writes the run's summary, each a step. Samplers go on taking
samples while the engine stops, and those of an interrupted plan even after it
has returned. The plan's HTTP details
(`buildPlan`, `configureMethodAndBody`) change no state and are left out;
`AutoStoppedException` cannot happen because the plan has no auto-stop.

**Ingestion.** `touchRun()` is `TouchRead` and `TouchWrite`, `finishRun()` is
`FinishRead` and `FinishWrite`, each one locked call of the run list. `runIds`
is the session's set of run ids, in the order in which `afterConnectionClosed`
visits it. `ClearPackets`/`ClearRuns` are the two calls of `DELETE
/api/packets`, `SaveRuns` and `LoadRun` the run parts of export and import.
`errorSamples` is kept as `capturedSamples` is and is left out.

**TrafficStream.** `Subscribe`, `Reference` and `Initialise` follow the request
thread through `stream()` to the container. A publishing thread stores its
packet, takes the copy-on-write list (`Iterate`) and visits it (`Accept`,
`Send`, `SendFails`). `closeGracefully()` is `CompareAndSet`, `Unsubscribe`,
`Complete`, by a publisher or by the container's callback thread of the stream.
`joined` is a history variable: what had been stored when a stream subscribed.
How the emitter behaves (buffering before it is initialised, failing when the
client is gone or after completion) is external.

**LiveView.** `Ask`, `Answer`, `Reset` and `Fill` are the points at which
`loadRecent()` asks, is answered by the server, empties the list and fills it;
between them the page handles other events. `FillStops` is a fill that an
exception cuts short: drawing the row of a packet compares its URL with the
rules' patterns, and `decodeURIComponent()` throws on a malformed `%`
(app.js:1749); `Malformed` are the packets on which that may happen, and the
`catch` of `loadRecent()` is silent. `Live` is the stream's listener
with `addPacket()`, `Clear` and `ServerClears` the two ends of the clear
button. `mishaps` records whether a load was overlapped, overtaken, cleared,
failed or cut short, so that properties can say what they rely on. The store does not evict
here and the stream does not break; both only take packets away.

**RunControl.** Starting a run is `Start`, `ServerStarts` or `StartFails`,
`AfterStart` and, after the loads it awaits, `StartLoaded`. `polling` holds the
runs whose interval is set, `callbacks` those of its callbacks that wait for
something: each is a place and the state it was answered with, and two at one
place with one state are alike, so that a set is enough. `PollUnknown`,
`PollRunning`, `PollEnded` and `PollLoaded` are what a callback does when its
awaits return. The server side (`Ends`, `Ended`, `Restart`, `Answer`) follows
`finish()` and `status()` with the gap between its two maps. `mishaps` records
that two runs were watched at once, that an answer came after the end, and that
the status line was overwritten. That a started run is also selected, and that
packets without a run are given to it, is left out.

**PacketTable, DetailPane, TrafficView.** A filter is a set of facets (types,
status classes, methods, failed) and the typed texts; which packets have a facet
or match a text is given by constants. Rows carry what was drawn in them: the
packet, the highlight and the scale of the timing bar. A filter and a sort
leave places of the list in an order (`Passing`, `SortOrder`), and `Arranged` is
what they make of it. `RebuildList` draws the rows
anew, `Row` appends one, `Frame` is the animation frame `scheduleRebuild()`
asks for, `TimerFires` a debounce timer. Drawing may throw here too: the rules in
force fail to draw the packets in `undrawable`, one of the sets in the constant
`Undrawable`, and `ChangeRules` takes another. `RebuildList` then stops at the
first of them, and every action leaves out what its handler would have done
afterwards: `AddPacket` the row and the counter, `LoadStops` the rest of the
answer, `OnFilterChange` the tags and the storage (so that `tags`, which have
buttons, are a variable, and `RemoveFacetTag` and `RemoveTag` start from what is
shown), `Repaint` the details. The pane is `RenderDetail`,
`DetailThrows`, `CloseDetail`, `EmptyDetail` and `RestoreDetail`, with `spies` the loops of
frames that poll and `detailSpy` the one that can be torn down. The viewer holds
a position in the bodies last rendered (`modal`), and what is displayed and
counted in it. `unbuilt`, `unsaved` and `moved` are history variables: the table
was emptied or left halfway by a load and not built anew since, drawing failed
when a filter was last changed, and the details were rendered for another packet
under an open viewer. `TrafficView` has the handlers that write
both, the filter storage and the load.

**ServerItems, SchemaRules, PageLinks, Settings.** The server's configuration
may come at any time (`ConfigAnswered`) or not at all (`ConfigFails`). A rule is
a content; `AllRemote`, `WithOverrides` and `Effective` are the functions that
compute the rules in force. A cached verdict is kept as the rules it was reached
with, and compared as the code compares versions (`Stale`). Reaching it may
throw: `Throws` gives the rules that each packet cannot be compared with, and
`Draw` caches and draws nothing for such a packet. Of the rows it then draws any
part without those packets (the order of the table is `PacketTable`'s), and the
details, which come after the rows, not at all; `undrawn` says that this
happened when they last should have been drawn. What a handler does after
drawing is skipped with them (`EditingAfterRefresh`). `edits` is a history
variable: what the user last saved for each rule, so that the effective rules
are checked against the user's intent and not against the same formula. The
fetch of a URL is `AskUrl`, `UrlAnswers` or `UrlFails`, and `FillSource`.
What is drawn (`schemaList`, `detailLinks`, `globalLinks`, …) is a variable of
its own that only drawing functions write. Storage is one variable per key;
`Reload` reads it back.

**RuleMatching, PageText, BodyValidation and their driver.** Pure functions as
operators. JSON values and schemas are trees, URLs, labels and markup are
sequences of segments, nodes and lines; a text is a sequence of tokens. The
one variable `call` of the driver, `PageFunctions`, holds the
function called last and its arguments, so that every state is one input and an
invariant compares the result with a reference definition (`MoreGeneral`,
`Conforms`, the elements around a line, …). The errors that a schema finds are a
constant operator of `RuleMatching`, so that what holds of shields and frames
holds whatever they are; `page_functions` gives it `ValidateBodyAgainstSchema`.
The calls of the functions in `BodyValidation` are a constant set, so that
`PageFunctions` can be proved about without their RECURSIVE operators.

## Runs, bounds, and what they show

Passing runs:

| run | bounds | shows |
|---|---|---|
| `packet_store` | ring of 3, four packets of two runs, every file of up to 3 entries, loaded any number of times | store and index agree, loads add exactly the news, views have no gaps, and the whole implements `PacketHistory`. More packets than places and files that overlap the ring make every branch of the loop happen |
| `test_run_queue` | two runs, one sampler thread each, one sample each, both may be stopped | one finisher, no count beyond what was stored, every unfinished run in somebody's hands, and `RunLifecycle` |
| `test_runs_end` | two runs, two sampler threads of the first, the second may be stopped in the queue, clears | exact final counts under concurrent counter callbacks, and every run ends |
| `ingestion` | two sessions (two messages and one), a shared run, one run of each session's own, one clear, one session file | the state and the counts of runs under every interleaving, and closing finishes every run |
| `traffic_stream` | two streams, two publishers (two packets and one) | closed once and gone from the bus, no broken stream left to nobody, complete and ordered delivery, and `LiveFeed` |
| `traffic_stream_leaves` | one stream, two publishers | a broken stream leaves the bus |
| `live_view` | two packets of two runs, of which one may be malformed, two loads, a limit of two | each packet once; complete when quiet; and `PacketList` |
| `run_control` | two runs, two callbacks of each under way, restarts, one outcome | the active run is watched and can be stopped, the status settles on the outcome, polls end |
| `traffic_view` | three packets of two runs, one sort key, two facets of one group, one text, one load, rules that draw every packet and rules that fail on one, three commands of the user | table, controls, pane and viewer are what they are drawn from, after any three commands among the stream's events, frames and timers. Three are needed for the races between a change, a pending timer or frame, and a second change; the viewer's commands are not counted |
| `settings` | one server rule and one local, one dashboard of each kind, two contents, two URLs and two fetches, two trace links, a packet that cannot be compared with one of the contents, five commands | verdicts are fresh, rules and sources as last set, edits go where they were meant, drawn and stored state is current. Five commands allow add, edit, overtake, save and reload in a row |
| `page_functions` | patterns of two segments and one constraint, one or two rules, templates of two parts, cookies of three segments, markup of five lines, labels of three nodes, counts around every boundary of the plural rule; bodies, schemas and paths of depth two, with a key that does not read back as it is written | the functions agree with reference definitions on all of them; the errors found in a body are what its schema means, and they are marked at their fields |

Two actors of each kind suffice for the races of this code: each is between two
threads, or between a thread and the one that ends or clears what it works on.
Bounds that are not sizes are constants (`Stoppable`, `Clearing`, `MaxSamples`,
`MaxMessages`, `MaxPackets`, `MaxFile`, `Load`) or named in the action they
bound. `CHECK_DEADLOCK FALSE` stands where the bounded system really comes to
an end: nothing is left to capture and everybody has gone.

One run finds a disagreement between the code and what is said of it:
`stop_halts_other_run`. `stop()` of a queued run stops the engine of the run
that is executing, through the static `stopEngine()`, while README.md:95 says
that it stops the test it names.

### Where the code does less than one would expect

The properties of the passing runs say exactly how far the code keeps them; what
they exempt is real, and TLC finds it when the exemption is taken out.

* *Store.* With a full ring a first load evicts packets of the file itself, and
  loading the file again adds those and evicts others (`LoadTwiceChangesNothing`
  asks for a ring that is not full; README.md:209 does not).
* *Runs.* A counter callback that is under way when `stop()` finishes the run
  writes its `RUNNING` summary over the final one in the run list
  (`FinalCountsExact` is about runs nobody stopped). Sessions that share a run
  lose counts (`CountsAreRight` is exact for a run of one session). Loading a
  session file replaces the summary of a live run (`LoadRun`). A client that
  leaves while nothing is published keeps its stream in the bus: there is no
  heartbeat (`ClientLeaves`), although `docs/PLAN.md` lists one.
* *Live list.* A packet that comes between the answer to `loadRecent()` and its
  handling is removed from the list, and of two overlapping loads the last
  answer wins (`LiveView`, mishaps "overtaken" and "overlapped"); a load that
  fails after a run was selected leaves the table empty while packets are listed
  (`unbuilt`).
* *Malformed packets.* A captured URL, a label used in its place or a pattern
  with a malformed `%` makes `decodeURIComponent()` throw, and nobody catches it
  where a packet is drawn. A load ends there without a word, and the rest of its
  answer is never listed (mishap "cut"; `unbuilt` until the next rebuild).
  `rebuildList()` leaves out the packet, all that follow it in the table, and the
  counter, so that `TableIsCurrent` and `ShieldsAreFresh` promise all rows only
  when each packet that passes the filter can be drawn; without that they promise
  a part of them, in order, each with the verdict of the rules in force. A change
  of a filter is then neither stored nor shown by a tag (`ControlsAgree`,
  `unsaved`), and after a change of the rules the details keep the verdict and
  the links they had (`ShieldsAreFresh` and `DrawnIsCurrent`, `undrawn`).
* *Run control.* A run whose start was refused, or that the server has
  forgotten, is polled for ever (`PollsEnd`). An answer `RUNNING` handled after
  the end leaves "running…" on the page (`late`). A second run that is watched
  loses its Stop button to the end of the first (`two`). Switching the language
  overwrites the status line with "idle" (`translated`).
* *Table.* A live packet that the filter hides does not bring the notice that
  nothing matches. Closing and restoring the pane leaves it without its scroll
  spy (app.js:787).
* *Settings.* Saving an edit of a rule whose source has vanished stores an
  override of nothing. After a save the rule stays highlighted, because the list
  is drawn before the edit is ended. A refreshed source moves to the end of the
  order and so wins over others. Two operations on one URL under way at once may
  end in either state (`raced`). A change of the window redraws the details and
  not the global bar.
* *Functions.* A packet
  time of zero counts as no time. Patterns given as absolute URLs never match.
  The preview of a template leaves `{url}`, `{from}` and `{to}` unexplained.
  A trace template without `{value}` is accepted, although the text at
  i18n.js:172 asks for one.

### Fairness

Safety properties assume none. The liveness runs assume weak fairness of the
steps of a thread that is inside an operation, since the JVM schedules every
thread and no modelled step waits for another one; of the executor, which takes
the tasks it has; of the plan's end, since its iterations are finite; and of
the container calling an emitter back once it failed or completed. `run_control`
assumes that a running test ends, that the browser's interval goes on firing and
its handlers run (weak), and that a question asked again and again is answered
some time (strong: a poll may fail any number of times in between). Nobody is
assumed to start, stop, clear, load, publish or close anything.

## Proofs

All are checked by TLAPS and hold for every value of the constants that satisfy
the modules' assumptions: any number of runs, sessions, streams, packets, rules,
loads and commands, and any addresses, templates and texts. Every invariant of
the passing runs is a theorem except `ErrorsAreFoundAndMarked`, and so are the
four refinements.

* `PacketRepositoryProofs`. `TypeCorrect`, `IndexAgrees` and `RingSound` rest on
  `IInv`: type, index agreement, the ring's soundness, that every indexed packet
  was once published or loaded (`known`), and that during a load the file's
  packets were. The work is in a lemma on sequences: dropping the front of an
  injective sequence removes exactly the dropped elements.
  `StoreIsAPacketHistory` is the refinement, in which the many steps of a load
  are one step of the history: until the load returns, the history is the
  published ring, and `LoadIsAppended` says that the ring is by then the old one
  extended at its end and cut at its front. `LoadsAdd` needs to know what a load
  has done when it is halfway: `LoadSoFar` counts the news among the entries
  that were looked at, `LastIsKept` and `LoadedIsKept` follow the file's last
  packet and what a first load left. `ViewsHaveNoGaps` is about the operators
  alone: what `Recent` cuts off is a prefix of the run's packets.
* `TestRunServiceProofs`. `FinishedByOne` and `ImplementsLifecycle`:
  `OneFinisher` is not inductive alone; that the executor's plan is off exactly
  when it executes no run, and who is inside `finish()` with which state, must
  be known as well. The refinement then has one case per action: `PutStatus` is
  the end of a run, `Register` its beginning, all else stutters. `CountsBacked`
  and `FinalCounts` rest on `CInv`: the samples of a run are those its counter
  has counted, those on their way to it (a cardinality of sampler threads) and
  those it missed, which are never negative, and none for a run that nobody
  stopped. Why no sampler is on its way when such a run is finished is
  `QueuedOnce` and `Drained`: a run is queued once, before it is executed, and
  only a stop finishes it before its plan has ended. `NoRunIsLost` is the safety
  half of `EveryRunEnds`: a cancelled task is one that `start()` had assigned
  (`CancelledKnown`), so that whoever cancels it also finishes the run.
  `ExactlyOneFinishes` states both sides at once.
* `IngestionProofs`. `TypeCorrect` and `CarriedOrFinished`: the invariant adds
  what is known of a callback under way, that its message's run is remembered by
  the session, and that the summary about to be finished is that of the next
  remembered run. The remembered run survives `TouchWrite`, and the only steps
  that forget one leave it finished or unlisted. `StoredAreListed` needs that
  what is about to be stored is listed too. `CountsRight` bounds every copy of a
  summary (listed, saved in a file, or held by a callback) by the messages that
  are done with the run list, and says for a run of one session that the
  summary its callback holds is the listed one.
* `TrafficStreamProofs`. `StreamClosedOnceAndGone`: two threads can be inside
  `closeGracefully()` for one stream; the invariant says which of them won the
  compare-and-set (there is at most one between it and `complete()`), that a
  stream which is being closed has been opened, so that `subRef` is known, and
  that a stream is in the bus's list at most once. `StreamMissesNothing` adds
  `Delivery`: what a working stream was sent by a publisher is the interval of
  its packets from the one stored when the stream subscribed to the last it was
  served, and the packet under way is still due while the stream is in the
  publisher's copy of the list, where it stands once. `NoBrokenStreamIsForgotten`
  is the safety half of `BrokenStreamsLeave`: a thread that finds a broken
  stream closed leaves it to the one that closed it, which by `Inv` has still to
  unsubscribe it if it is listed; it needs that the container calls back only
  what it has initialised (`CalledBackOpen`); with the first theorem it makes
  `FailedStreamsLeaveOnce`. `StreamsAreALiveFeed` is the
  refinement: that only a broken stream is closed (`ClosedIsBroken`) makes the
  streams that live in the feed the ones that work, `Delivery` and
  `JoinedBefore` say what they have reached (`ReachedServed`), and each of
  `Store`, `Send`, `Subscribe` and the failures is the feed's step of its own.
* `LiveViewProofs`. `NoPacketTwice` rests on the same of the store and of every
  answer under way. `QuietListIsComplete`: without a mishap there is one load
  at most, and what it would bring now is on its way by the stream or already
  where it belongs: in the list when no load is under way (`QuietHasAll`), in
  the answer while that is under way (`AnsweredHasAll`), or in the two together
  once the list was emptied (`BodyHasAll`); a load that is cut short is a mishap. `TabShowsAPacketList` is the
  refinement: what is under way to the page was captured (`FromCaptured`), and
  both a live packet and an answer are put behind what is listed
  (`AddingJoins`), also when a load overlaps another, a clear or the stream.
* `PageProofs`, of the runs it watches. `ActiveRunIsWatched`,
  `ActiveRunCanBeStopped` and `StatusIsTrueInTheEnd`, with any number of runs and overlapping callbacks. The
  invariant adds that callbacks exist only for runs whose start is over, that an
  outcome held by a callback is the server's, that one run is watched at a time
  unless two were started, and that a status which is not an outcome has a
  handler left to replace it. The last two carry the theorems: the only run whose
  end can disable the button is then the active one, which is no longer polled.
* `PageProofs`, of what it works out. The invariant is only that a call has
  arguments from the sets of the instance (`CallTyped`); the work is in one lemma
  on each function. `RulesApplyRight`: a comparison that is decided is decided
  at the first segment that differs or is malformed (`PatternsDo`), and there is
  a frame and a mark exactly where a rule applies (`BadgesDo`).
  `LinksAreComplete`: a header is found whatever the case of its name
  (`HeaderIsFound`), and rounding to seconds keeps the window around the packet
  (`SecondsRound`). `LayoutLosesNothing`: a list split into its first and its
  rest is that list (`FirstAndRest`), and the depth of a line (`IndentDoes`) is a
  recursive function of the number of lines; that the number of open elements
  satisfies its equation, and that nothing else does, is an induction
  (`InductionOverNat`). `LanguagesStaySeparate`: a label that is replaced has one
  text, which is replaced by the next language (`LabelReplaced`), and its
  elements stay in place, or all move by one (`LabelKeepsElements`).
* `TrafficViewProofs`. `FilterAgrees`: a field that differs from the filter has
  its timer running. `PaneFollows` and `ViewerShowsItsTitle`: the bodies listed
  are those of the rendered packet, so the viewer's position means the same body
  until another packet is rendered (`ShowsBody`), and the hits are those of what
  is in its editor (`CountsHits`). `TableFollows`: the rows are, packet by
  packet, the arrangement a rebuild would make of a part of the packets that
  pass, and of all of them if each can be drawn (`RowsDue`), the list repeats
  nothing and no listed packet is longer than the scale. Appending a row equals
  rebuilding because a packet that is new is the last in the order of an
  unsorted table (`LastPacket`), and changes nothing if the filter or the run
  hides it (`HiddenPacket`). `TypeCorrect` has the current hit among the hits.
* `SettingsProofs`. `SourcesAreRight`, `ValidatorFollows`, `ShieldsFollowRules`,
  `DrawnFollows`, `EditsMeetTheirLink`, `StoredIsWhole` and `TypeCorrect`. The
  invariant says that the overrides are the user's edits, what is being edited
  exists and the storage has all of it (`SettingInv`), that a fetch under way has
  its URL and its rules (`FetchInv`), that the sources are those last asked for
  (`SourcesInv`) and the effective rules computed from them (`RulesInForce`), and
  that a verdict which counts as fresh was reached with these (`CacheInv`).
  What could not be drawn is either missing from the table or, for the details,
  noted in `undrawn`, and nothing else is drawn with other rules.
  What is drawn is an invariant of its own for each drawing (`ListIsCurrent`,
  `LinksDrawn`). The rules of all sources are a recursive
  function of the list of sources; what it computes is proved by induction over
  its length.

Two families of lemmas carry the proofs about lists. `RankFacts`,
`ArrangedFacts` and `ArrangedMore` say what `Subsequences` leaves of a list: as
many elements as there are places, each place's element at its rank, and one
more at the end when a place is added behind all others. The lemmas on joined
and shortened sequences say which elements they have and that they repeat
nothing. They are stated anew in each module that needs them.

Assumed are only the constants' assumptions (`RingAssumption`,
`IngestionAssumption` and so on): sizes are numbers, sets of sessions and sampler
threads are finite, the model's "nobody" and "none" are no members of the sets,
each session mints its own fallback id, the server's list has each packet once,
a packet's bodies have places, and the inputs of the page's functions have the
shape that parsing gives them (`PageFunctionsAssumption`).

Only model-checked:

* liveness, which is out of the prover's reach: `ClosingFinishesEveryRun`,
  `EveryRunEnds`, `BrokenStreamsLeave` and `PollsEnd`. `NoRunIsLost` and
  `NoBrokenStreamIsForgotten` prove the safety halves of two of them: that the
  step which fairness will bring about is always there to be taken;
* `ErrorsAreFoundAndMarked`: validation, the texts of a body and the meaning of a
  schema are RECURSIVE operators on trees, in modules of their own, because the
  prover's SMT backend takes no module that declares one.

The other modules use cardinalities and recursive functions on numbers in place
of `SelectSeq`, sorting and folds, so that what rests on them can be proved.

## Plan

Left, in this order:

1. `WsSink`: sampler threads that connect, drop and reconnect one client. To
   check: no sample is published twice or out of order per thread, the reconnect
   that outlives `close()`, blocked samplers. It needs a model of the WebSocket
   library's client, which is not in this repository.
2. `SessionFile`: export as two reads and load as upserts followed by an import,
   joined to `PacketRepository`'s one, with the order of the run list.
3. `RemoteConfig`: the merge of the two sources against a reference definition.
4. The list of runs in the page (`loadRuns()`, loading a session file) and the
   reconnection of its `EventSource`.

Proofs left: that validation finds an error exactly when a body does not conform,
which would take the functions on trees written as recursive functions of the
depth of their argument; and those of the modules above as they are written.

## Not modelled

The capture client: what its threads do depends on the WebSocket library, whose
client is its only state. Packet extraction: functions from a sample result to a
packet. Remote configuration: two JSON files merged by id on every request,
without state; what the page does with the result is in `Settings`. The REST
front ends hand requests to the services that are modelled. Styles, layout,
formatting of sizes and times, and the texts of the translations.

Of the page: several tabs that write one storage key, a storage that is full
(the exception ends the handler halfway), the reconnection of the `EventSource`
(what is published meanwhile is not sent again), the chips of the run list, and
the loading of a session file.

Of the server: the order of the run list, the two halves of a session file
together, a slow reader that blocks a publishing thread (how long a send may
block is decided by the container), and `Error`s thrown past `execute()`'s
`catch (Exception)` (whether JMeter throws them is not visible in this code).

# Formal model of eink-server

TLA+ modules that model the server's image delivery, its event stream, its design
service with calendars and webhooks, and the algorithms under them; TLC
configurations that check them on small instances; and theorems about delivery, the
event stream, designs, taps and actions that TLAPS proves for every value of the
constants.  Paths below are relative to the repository.

## The system

eink-server is one Go process: PV3 tablets connect to it over TCP, clients
upload images and designs over HTTP, one SQLite connection holds all state.

| Component | State | Operations | Talks to |
|---|---|---|---|
| Assignment rows (`internal/store/store.go`) | one row per image and device: state, sequence, acknowledged, attempts | insert, Pending, MarkDelivered, ReconcileDesired, PrepareSend, MarkSent, MarkFailed, MarkAcknowledged | called by gateway, API, design service |
| Tablet gateway (`internal/gateway`) | `connections[uuid]`; per session: closed, ready, status, sequences, delivery bookkeeping | handle (status, acknowledgement, touch, close), deliver, Notify, retry ticker | rows, wire, design service, events |
| Wire protocol (`internal/pv3`) | none | framing, status, acknowledgement, touch, chunks of an image | gateway |
| Image processing, renderer (`internal/imageproc`, `internal/render`) | none | decode, scale, quantise, pack | gateway, API |
| Design service (`internal/design/service.go`, `internal/store/design.go`) | active design, values hash, refresh interval, widget states, claims, interaction maps | Assign, Clear, Render, scheduler, StatusChanged, Touch, widget configuration | rows, gateway (Notify), action runner, widgets |
| SVG compiler, calendar (`internal/design/compiler.go`, `calendar.go`) | none | substitute, sanitise, expand widgets, hit regions | design service |
| Action runner (`internal/action`) | queue of 100, four workers | Submit, execute | store, webhooks, events |
| Event log and stream (`internal/events`, `httpapi.eventStream`) | events table, subscriber channels | AddEvent, Publish, Subscribe, replay, follow | everything emits |
| Retention (`internal/store/retention.go`) | - | prune frames and events hourly | rows, designs, events |
| Management API (`internal/httpapi`) | preview cache | upload, broadcast, designs, actions, preview | all of the above |
| Widget runtime, departures plug-in, configuration, tools | none that lasts | - | - |

What makes it hard:

* the handler and the delivery goroutine of a replaced connection go on next to
  those of its successor, over the same rows;
* every SQL statement is atomic and hardly any operation is one statement:
  limits are checked before a render and counted after it, a frame is written
  before it is marked as sent, an acknowledgement is matched and then stored;
* the tablet may ignore a record, draw it without being heard, lose its image or
  its connection; the process may stop between any two statements;
* what is read once (the status, the pending row, the active design, a page of
  events) is used after other goroutines have moved on;
* events are stored and published in two steps by many goroutines.

For each component, correctness means: *gateway* - one active session, nothing
before the first reply, no older frame after a newer one, bounded sends, partial
updates only over what is displayed, a frame neither lost nor stuck; *rows* - a
delivery is not undone by late writes; *event stream* - increasing, and without
gaps its design does not admit; *design service* - frames of the active design
only, one render at a time, a tap counted once; *retention* - newest and
displayed frames survive; *action runner* - every tap ends in a call or in an
event; *algorithms* - equal to their plain definitions.

## Modules

| Module | Models |
|---|---|
| `Assignments` | the rows and the SQL statements on them, as operators |
| `Delivery` | handlers, delivery goroutines, the wire and the tablet; extends `Assignments` |
| `LatestFrame` | what delivery promises, without any of its mechanism |
| `DeliveryRefinement` | the mapping under which `Delivery` implements `LatestFrame` |
| `EventStream` | emitters, hub, stream handlers, reconnecting clients, pruning |
| `Designs` | one tablet's design: catalogue, active design, Render under its lock, the scheduler and the requests |
| `Touches` | taps on calendars, expiring months and pruned frames; extends `Designs` |
| `Actions` | the webhook runner and the table of actions |
| `Calendar` | the calendar widget: month, six weeks of days, regions |
| `Compiler` | the SVG compiler's pass over the tokens of a design; extends `Calendar` |
| `Images` | image processing and packing |
| `Wire` | chunks, changed rectangles, sequence numbers, touch coordinates |
| `Algorithms` | the inputs for the four modules before, and what they must compute |
| `MCDelivery`, `MCEventStream`, `MCDesigns`, `MCTouches`, `MCActions`, `MCAlgorithms` | symmetry sets and inputs for TLC |
| `AssignmentsProofs` | lemmas on the statements |
| `DeliveryProofs` | types, sessions, the order of frames and delivered rows of `Delivery` |
| `DeliveryRefinementProofs` | bounds on attempts, confirmations, partial updates, and the refinement of `LatestFrame` |
| `EventStreamProofs`, `DesignsProofs`, `TouchesProofs`, `ActionsProofs` | safety theorems of the modules they are named after |
| `AlgorithmsProofs` | lemmas on the operators of `Calendar`, `Compiler`, `Images` and `Wire`, and every property of `Algorithms` |

### Delivery

One device.  A row's id is its position in `rows`; its frame id is identified
with it (frame ids are random 32-bit values; two rows of a device with equal ids
are not modelled).  `current` is `Gateway.connections[uuid]`; `session[s]` holds
the fields of the session struct; `handler[s]` and `delivery[s]` hold program
counter and locals of `handle` and of the goroutine that has `deliverMu`.

| Action | Code |
|---|---|
| `Connect` | the tablet connects and sends a status; `Serve` accepts and starts a handler |
| `ReadFirstStatus`, `ReadStatus` | a status is read; a first one registers the session and closes the one before |
| `HandleDelivered`, `HandleReconcile`, `HandleReply` | the three statements and writes that follow, with the `ready` gate |
| `ReadAcknowledgement`, `SelectAcknowledgement`, `NoteAcknowledged` | an acknowledgement, with the two statements of `MarkAcknowledged` apart |
| `HandlerExit`, `HandlerClose` | the deferred clean-up: closed, ready and the registry; then the connection |
| `DeliverCheck`, `DeliverLoad` | start of `deliverLatest`: closed, status copied, pending row, all its early returns |
| `DeliverGiveUp`, `DeliverExhaust`, `DeliverRenderFailed` | the ways an attempt ends before a write |
| `DeliverPrepare`, `DeliverWrite`, `DeliverMark` | sequence and base, PrepareSend, the write, MarkSent and bookkeeping |
| `Upload`, `Restart` | a new row; the process stops and starts again |
| `TabletReads`, `TabletReports`, `TabletDrops` | the environment: a record is read, a status is sent at a wake-up, the connection goes |

Each direction of a connection is an ordered queue: `wire[s]` with `received[s]`
to the tablet, `inbox[s]` from it, so that a handler reads a status and an
acknowledgement in the order in which they were sent.  What a handler has not
read when it ends is lost.  `session.close` sets the flag and closes the
connection in one step.  A handler that ends sets the flag, releases the waiters
for `ready` and leaves the registry in one step (`HandlerExit`; a goroutine
released in between finds the session closed) and closes the connection in a later
one (`HandlerClose`): a delivery that has passed its check of `closed` can write
in between (`Open`), and such a record is marked `late`.  An assignment in
`Unrenderable` fails in the renderer; one in `Unbuildable` is rendered and counted
and then fits no record, which marks it as an error and leaves the session open.

Left out: database errors, events (they have a module), touch records, the
pixels of a frame (the base of a partial update is the id of the frame they came
from), the wrap of 32-bit sequences, UpsertStatus (its row is read by other
modules only).  A status, an upload and the ticker all start a delivery
goroutine, so one may start whenever the session is ready: `DeliverCheck` needs
no cause.  The 15-second interval is the boolean `due`: any time may have passed.
A connection is never reused, so a run ends when all are used up:
`CHECK_DEADLOCK FALSE` in the configurations of `MCDelivery`.

### EventStream

An event is its id.  `emitting[e]` is what an emitter has stored and not yet
published, `stream[c]` the handler and the channel of a client's connection,
`resume[c]` the `Last-Event-ID` it will reconnect with.  A client that is cut off
has received any prefix of what was sent.  Pruning by age may remove any prefix
of the log.  A query that fails ends the replay, and the stream follows on with
a gap (`ReplayFails`), which `dropped` records like what a full channel loses.
`from`, `dropped` and `late` are history.

### Designs and Touches

One tablet, since the design service locks, stores and renders per tablet.
`catalog` is the table of designs, `active` the tablet's row of `device_designs`
(its design, and the dependencies, hash and refresh of the last frame),
`calendar` and `config` the two kinds of `widget_states`, keyed by design ID
(`Key`: all uploaded SVGs of a tablet share one), `frames` the design frames and
bitmaps queued, `lock` the entry of `renderMu`, and `task[t]` program counter and
locals of a goroutine: an HTTP handler, a session, or the scheduler.

A design is a model value.  What the service can tell of it is given by sets:
`Dynamic` prints something that changes, `Periodic` has `data-refresh`,
`Navigable` has a calendar with arrows, `Configurable` a widget with fields,
`Unreliable` may fail to render.  `value` is everything that can be printed
(clock, battery, name), as a number that only grows, so that "older" means
something.  A hash is the function from dependencies to values.

| Action | Code |
|---|---|
| `Acquire`, `Load`, `Fail`, `QueueDesignFrame`, `UpdateActiveDesignRender` | `Service.Render`, statement by statement under the lock; `Decide` and `Suppressed` its early return |
| `Assign`, `AssignInline`, `DeviceEnrolled`, then `SetActiveDesign` | an assignment, which then renders with force |
| `Clear`, `Upload`, `QueuePicture` | DELETE of the design; an uploaded bitmap in its two steps |
| `PatchDevice` | PATCH, which renders with force |
| `ConfigureWidget`, `ActiveWidgets`, `StoreConfig` | PUT and DELETE of a widget's configuration, which read the active row twice |
| `StatusChanged`, `Tick` | a status; a minute of the scheduler: renders without force |
| `Reload`, `ReloadFile`, `PutDatabaseDesign`, `DeleteDatabaseDesign` | the catalogue |
| `Cancel`, `Crash`, `Advance` | a client that hangs up; a restart; the clock |
| `TapCalendar`, `Claim`, `GetWidgetState`, `PutWidgetState` | `Touch` and `handleWidgetEvent` |
| `MonthExpires`, `Expire` | the five minutes; Render's deletion of a month it read as expired (in `Touches`, since only taps set months) |
| `ReportDisplay`, `PruneFrameHistory` | a status naming a frame, retention |

`failed`, `torn`, `late`, `claimed` and `requests` are history.  `Tick` supposes
that the tablet is connected: while it is not, the scheduler skips it.  A tap
claims the picture, reads the calendar's state and stores the new one in three
steps, and no lock protects it from a second tap on another picture, of which
then one is lost: `MonthShown` holds of whichever was stored.  Left out: other
tablets, `Notify` (delivery needs no cause, see above), errors of the database
other than cancellation, and the check of an SVG before it is stored (every
design of the model has passed it).

### Actions

`sources` is the table of actions, by what `source` says; `queue` and `running`
the channel and the workers; `story[i]` the events emitted for the i-th tap on a
webhook region, to which a restart adds `lost`, which no code emits.  A webhook
either answers 2xx or does not (`Finish`); its timeout is why it always ends.
A tap whose event cannot be stored is left out with all database errors.

### Calendar, Compiler, Images, Wire

Pure algorithms, without state; `Algorithms` has one variable, the input, and its
actions walk through the inputs, so that TLC's states are test cases: each day of
a year, each prefix of a document, each length of a record.

* `Calendar`: dates as in Go's `time` package (external), `AddDate` with its
  overflow into the next month, grid, header, arrows and their regions in exact
  fractions.  Names of months and the SVG text are left out.
* `Compiler`: the loop of `compileXMLWithOptions` as operators on a record of its
  local variables, one per kind of token.  An element is a record of what the loop
  looks at; a document is what `ReadStart`, `ReadEnd` and `ReadText` make of
  `Elements`.  `alone` is the same compiler reading the same document without its
  later pages.  Transforms are integer matrices, lengths halves.
  `TransformRect` takes exact fractions, and where one is a whole number the
  product in float64 may lie on either side of it: `Inexact` says which sides of
  which rectangle are then rounded to the wrong pixel, and is left open.  With a
  display of 1100 and a view box of 1000 a width of 50 becomes 55.00000000000001
  and then 56.  This holds for coordinates below a hundred thousand, where a
  fraction that is not whole is too far from one to be rounded wrongly.
* `Images`: floating point is replaced by exact fractions (`Level` divides by
  slightly more than 11/10 because 1.1 is; it agrees with the code for all 256
  greys).  Error diffusion, colour and decoding are left out.
* `Wire`: lengths of chunks and the literal block; a decoder as the LZ4 format has
  it (external); the changed rectangle; 32-bit sequence numbers of any width; a tap's
  coordinates, refused outside the panel.

## Runs

| Run | Bounds | Shows |
|---|---|---|
| `delivery` | 2 connections, 1 image, limits 2/2, all faults | `TypeOK`, `OneActiveSession`, `TotalAttempts`, `ImageAfterReply`, `DeliveredSticks` |
| `delivery_replaced` | 2 connections, 2 images, limits 1/2, ignored records | `NeverBackwards`, `AttemptsPerConnection`, `PartialOnDisplayedBase`, `DeliveredWasRead` |
| `delivery_fair` | 1 connection, 3 images (one does not render, one fits no record), limits 2/3, all faults | `PendingSettles`, `ImplementsLatestFrame` |
| `failed_confirmed` | 3 connections, 1 image | violated: `FailedUnconfirmed` |
| `acked_resent` | 2 connections, 1 image | violated: `AckedNotResent` |
| `total_exceeded` | 2 connections, 1 image | violated: `SendsWithinTotal` |
| `event_stream` | 2 emitters, 1 client, 5 events, channel 2, page 2, limit 3 | `TypeOK`, `Increasing`, `LossExplained`, `WaitingArrives` |
| `event_lost` | 2 emitters, 1 client, 3 events | violated: `NothingLost` |
| `designs` | 2 handlers, 1 session, 4 designs (built-in, file, stored, uploaded), 3 requests or faults of 12 kinds | `TypeOK`, `ValuesForward`, `QuietShowsActive`, `StopsAfterClear`, `ReloadRestores` |
| `touches` | 2 sessions, 1 design, 3 taps, statuses, expiries or crashes, 2 frames kept, 1 month each way | `TouchTypeOK`, `TapOnce`, `MonthShown`, `RetentionKeeps`, `CatchesUp` |
| `actions` | 2 names, 2 workers, channel of 1, 3 taps, 3 edits or restarts | `TypeOK`, `Accounted`, `ConfigMirrored`, `InvocationEnds` |
| `algorithms` | every day of 2024, documents of up to 6 tokens from 11 elements, records of up to 9700 bytes, sequences of 3 bits, small pictures, frames, boxes | `CalendarShown`, `ArrowsHit`, `FirstPageOnly`, `DrawnTracked`, `TopmostHit`, `HitCovers`, `PictureKept`, `TapSeesPixel`, `PartialPaints`, `ChunksReassemble`, `SequencesFresh` |

Two connections are what replacement needs: a third is to the second what the
second is to the first.  Two images are what an upload between the check and the
write needs, three with one that does not render make a frame pending after one
that was given up.  The code's limits 3 and 9 become small ones whose order is
kept; `Kinds` is one value so that sequences of two connections collide, as they
do when a tablet starts again.  `MaxUnanswered` is one: a tablet sends a status
when it wakes up and waits for the reply, while acknowledgements queue behind it
without a bound.  In `event_stream` five events overflow a channel
of two and fill two pages, and a third emitter would only repeat the second.
`Faults` names what may go wrong: a write fails, a handler ends, the process
restarts, the tablet ignores a record, the tablet loses its image.

In `designs` the enrolment's own render and three more requests put up to three
goroutines into `Render` at once with a request for another design between any
two statements; a fourth would need a hazard that three others do not already
make, and every hazard listed needs at most a render, an assignment and a fault.
`touches` needs two sessions (a tap is handled by the goroutine of a connection
that may have been replaced), two frames kept so that a third makes one obsolete,
and one month so that the clamp is reached.  In `actions` a channel of one is
full with one tap waiting and two running.  `algorithms`: a leap year has every
length of month before and after every day of a month; six tokens open two
pages, one element inside the second, and the ends; 9700 bytes are two full
chunks and more, with every residue of the length code; three bits reach the
wrap; a calendar is placed at the edge, near it and far from it.

Fairness.  `Delivery`: a delivery goroutine that runs goes on running
(`WF(DeliverStep)`: every call in it has a deadline or is a local database call),
and the ticker starts one again after the retry interval
(`SF(DeliverLoad(s, TRUE))`: `retryDeliveries` never stops before the process
does).  Nothing is assumed of handlers, uploads or the tablet.  `EventStream`: a
handler whose client reads goes on (`WF(Replay \/ Live)`).  `Designs`,
`Touches`: a goroutine that can go on does (`WF(Continue)`), a waiter for the
lock gets it in the end (`SF(Acquire)`: a `sync.Mutex` hands over to a waiter
that has starved for a millisecond), and the scheduler's due minute comes again
(`WF(Tick)`); requests, taps and statuses need not come.  `Actions`: workers work
and webhooks end (`WF(Work)`: the call has a timeout).  `Algorithms` states no
fairness.  All of these may stop when the bounds are used up, hence their
`CHECK_DEADLOCK FALSE`.

## Where documentation and code differ

* `failed_confirmed`: `doc/api.md` says `failed` is "not confirmed after nine
  delivery attempts".  `ReconcileDesired` requeues a delivered row and keeps its
  count, so a confirmed frame may end as `failed`.
* `acked_resent`: `doc/architecture.md` says a frame acknowledged on the current
  connection is not resent.  `MarkAcknowledged` looks only at rows in state
  `queued` or `sent`; an acknowledgement read while its row is `delivered` (and
  requeued later by the late `ReconcileDesired` of a replaced session) or `error`
  is dropped.  The run shows the second: a replaced session's send has failed, and
  the acknowledgement of the new session's send is read before its `MarkSent`.
* `total_exceeded`: after nine attempts a frame "is not sent again".  The check
  and the count are apart, under a lock per session; each further connection can
  add one send (`TotalAttempts` is the bound that holds).
* `event_lost`: a comment in `httpapi/api.go` says nothing published after the
  subscription is lost.  Two emitters can publish in the other order than they
  stored, and the filter for duplicates then drops the older event.

Met while modelling, and stated in properties as the code has them:

* `doc/svg-designs.md` lets a calendar be moved "to twelve months in either
  direction".  From the 29th on `AddDate` runs over a month that is too short, so
  that month cannot be shown and the next one is shown twice (`CalendarShown`
  names exactly the months missed).
* "Designs without the attribute remain event-driven", but a calendar with
  navigation makes a design refresh every minute, even on a page that is not
  shown (`DrawnTracked`, `Tracked`).  Values of hidden pages are dependencies
  too: they cause frames that look the same (`FirstPageOnly` compares the
  dependencies by inclusion only).
* `DELETE .../design` "stops dynamic refresh", except for one frame of a render
  that is under way (`StopsAfterClear`); the same frame may follow an uploaded
  bitmap and replace it on the screen.
* A forced render that fails, or whose client hangs up, is not made up for by the
  next status: the hash of the row still equals that of the values, so a changed
  configuration stays off the screen until a value changes (`QuietShowsActive`
  says nothing once `failed`).
* While a reload is under way, assigning one of the file designs is answered with
  404; if its client hangs up, they stay away until the next reload or start
  (`ReloadRestores` with `torn`).
* A picture of one single level is not stretched, one of two adjacent levels is
  stretched to black and white (`PictureKept`).
* If a tablet reports the greatest sequence number, or the numbers wrap, they
  start again at 1 and are no longer above those before (`SequencesFresh`).

## Proofs

| Theorem | Statement |
|---|---|
| `DeliveryProofs!TypeCorrect`, `TypesAlways` | `Spec => []TypeOK`, `Spec => []TypeInv` |
| `DeliveryProofs!OneActiveSessionAlways` | `Spec => []OneActiveSession` |
| `DeliveryProofs!DeliveredStays` | `Spec => DeliveredSticks` |
| `DeliveryProofs!ImageAfterReplyAlways` | `Spec => []ImageAfterReply` |
| `DeliveryProofs!NeverBackwardsAlways` | `Spec => []NeverBackwards` |
| `DeliveryRefinementProofs!TotalAttemptsAlways` | `Spec => []TotalAttempts` |
| `DeliveryRefinementProofs!AttemptsPerConnectionAlways` | `Spec => []AttemptsPerConnection` |
| `DeliveryRefinementProofs!DeliveredWasReadAlways` | `Spec => []DeliveredWasRead` |
| `DeliveryRefinementProofs!PartialOnDisplayedBaseAlways` | `Spec => []PartialOnDisplayedBase` |
| `DeliveryRefinementProofs!DeliveryRefines` | `Spec => ImplementsLatestFrame` |
| `EventStreamProofs!StreamTypes` | `Spec => []TypeOK` |
| `EventStreamProofs!IncreasingAlways` | `Spec => []Increasing` |
| `EventStreamProofs!LossExplainedAlways` | `Spec => []LossExplained` |
| `DesignsProofs!DesignTypes` | `Spec => []TypeOK` |
| `DesignsProofs!StopsAfterClearAlways` | `Spec => []StopsAfterClear` |
| `DesignsProofs!ReloadRestoresAlways` | `Spec => []ReloadRestores` |
| `DesignsProofs!ValuesForwardAlways` | `Spec => []ValuesForward` |
| `DesignsProofs!QuietShowsActiveAlways` | `Spec => []QuietShowsActive` |
| `TouchesProofs!TouchTypes` | `TouchSpec => []TouchTypeOK` |
| `TouchesProofs!TapOnceAlways` | `TouchSpec => []TapOnce` |
| `TouchesProofs!RetentionKeepsAlways` | `TouchSpec => RetentionKeeps` |
| `TouchesProofs!NewestKnownAlways` | `TouchSpec => []NewestKnown` |
| `TouchesProofs!ServiceWithTaps` | `TouchSpec => [](StopsAfterClear /\ ReloadRestores)` |
| `TouchesProofs!FramesWithTaps` | `TouchSpec => [](ValuesForward /\ QuietShowsActive)` |
| `TouchesProofs!MonthShownAlways` | `TouchSpec => []MonthShown` |
| `ActionsProofs!ActionTypes` | `Spec => []TypeOK` |
| `ActionsProofs!AccountedAlways` | `Spec => []Accounted` |
| `ActionsProofs!ConfigMirroredAlways` | `Spec => []ConfigMirrored` |
| `AlgorithmsProofs!CalendarsShown` | `Spec => []CalendarShown` |
| `AlgorithmsProofs!ArrowsAnswer` | `Spec => []ArrowsHit` |
| `AlgorithmsProofs!LaterPagesHidden` | `Spec => []FirstPageOnly` |
| `AlgorithmsProofs!DrawnIsTracked` | `Spec => []DrawnTracked` |
| `AlgorithmsProofs!LatestAnswers` | `Spec => []TopmostHit` |
| `AlgorithmsProofs!RegionsCover` | `Spec => []HitCovers` |
| `AlgorithmsProofs!PicturesKept` | `Spec => []PictureKept` |
| `AlgorithmsProofs!TapsSeePixels` | `Spec => []TapSeesPixel` |
| `AlgorithmsProofs!PartialsPaint` | `Spec => []PartialPaints` |
| `AlgorithmsProofs!RecordsReassemble` | `Spec => []ChunksReassemble` |
| `AlgorithmsProofs!NumbersAreFresh` | `Spec => []SequencesFresh` |

Those of delivery hold for any finite set of connections and any limits, those of
the event stream for any emitters, clients, channel, page and limit, those of designs
and taps for any goroutines, catalogue, frames and months, those of actions for any
names, workers and channel, those of the algorithms for any days, designs of any
length, boxes, pictures and frames.  The assumptions are those the modules name: sizes are
numbers, and what the code keeps apart is apart (the IDs of designs begin with
`file:`, `db:`, `builtin:`; a bitmap is no design; the goroutine of a request is not
that of a connection; `None` is nothing else).  `AlgorithmsAssumption` says what
the code checks before it comes to the algorithm: a view box is not empty, a frame
has an even width and fits the 16-bit fields of a record.  That elements and view
boxes are given in whole numbers limits what is modelled, and that a calendar lies
inside the display and is at least twenty pixels wide and high limits what is
claimed: in smaller ones a title is a pixel high and rounding loses arrows.
`CompilerAssumption` says that a widget module returns a sequence of tokens.  The
bounds of the runs (`MaxRows`, `MaxEvents`, `MaxRequests`, ...) are constants like
the others, so nothing depends on how large they are.  The arguments:

Delivery.

* Types: `TypeOK` alone is not inductive, since a statement on a row needs the row
  to exist.  `TypeInv` adds that every row id held by a handler or a goroutine is
  the id of a row; rows are never removed, so it stays one.
* One active session: `RegisteredInv` adds that a registered session is in use.
  `LateInv` says that a record written after its session was closed is the last one
  there: whoever writes on a closed session passed the check before it was closed,
  `deliverMu` lets only one be that far, and the next check ends its loop.
* Delivered rows: `RowsStep` goes through the statements; each is an update of one
  row (`AssignmentsProofs!UpdateRow`) and only ReconcileDesired leaves
  `delivered`.
* First reply: `ReplyInv` says that a session in its first status is not ready, and
  that nothing works for a session that is not ready.
* Order: `OrderInv` says that what a goroutine is about to send is at least as new
  as all its connection has carried, and that this never exceeds the newest row:
  a pending row is the newest when it is loaded.
* Total sends: the check and the count are apart, so the count alone is not bounded
  step by step.  `CountInv` bounds the count plus the goroutines that are drawing
  the row: who passes the check adds itself to the second, who counts moves from
  the second to the first.
* Sends per connection: `AttemptInv` says that the session counts every send of the
  row it attempts, a record about to be written included, and has carried nothing
  newer; so when its counter starts again at 0 it is for a row it never carried.
* Confirmation: `ReadInv` follows a frame from the wire to the tablet, to the
  handler's local copy of the status or acknowledgement, to the row.
* Partial updates: `PaintInv` has five parts: sequence numbers on a wire increase and
  stay below the next one (`SequenceInv`); the session's bookkeeping names the last
  record, or a goroutine is just about to note it (`NotedInv`); what is acknowledged
  was drawn (`DrawnInv`); what the tablet shows is not newer than what is on the way
  (`ShownInv`); and the base of a partial record is what will be shown when it is
  read (`BasedInv`).  An acknowledgement of the last sequence number means that
  nothing is on the way, so that base and screen are equal.
* Refinement: `InitRefines` and `StepRefines` map each action to a step of
  `LatestFrame` or a stutter, with the invariants above to enable it.

Event stream.

* Types: no handler, channel or emitter is ahead of the table (`Bounded`).
* Increasing: what is sent is above `lastID`, which is the last sent; the page
  (`EventsAfterFacts`) and the filter on the channel keep it so.
* Loss: `LossInv` says for each stream that what waits was published, that an older
  event behind a newer one in the channel is late (`ChannelOrder`), that what is
  owed up to the handler's position was sent, was dropped, is late or is bound to be
  (`NothingBehind`), and that what is owed beyond it waits, once the handler follows
  (`AheadWaits`).  The step from the last page to following is where replay and
  channel meet: `EventsAfterFacts` says that page ends with the newest event.

Designs.

* Types and lock: `TypeInv` types what each goroutine keeps at each place, and says
  that exactly who is inside `Render` holds the lock.
* After a DELETE: `StopsAfterClear` does not say who may still queue a frame.
  `TaskInv` adds that a goroutine inside `Render` holds the lock, so there is at
  most one, and `LateInv` that without an active design nobody starts to draw and
  that after the one frame nobody is left drawing.
* Reload: `ReloadInv` says that a file missing from the catalogue is still on the
  list of some reload, unless one was cut off; DELETE reaches stored designs only.
* Values: `ForwardInv` says that no frame is newer than the present values, and that
  whoever has read values and not queued its frame read them after all frames were
  made: it holds the lock, so no other frame comes between.
* What is shown: `QuietInv` says that, unless a render failed, the newest frame
  shows what the row says (`Shows`) or a goroutine is on its way that will make it so
  (`ShownOrDue`); that whoever renders another design than the active one, or with
  another configuration than the saved one, leaves a forced render waiting for the
  lock (`RowCurrent`, `ConfigCurrent`); and that the frame being stamped is the
  newest (`JustQueued`).  `StepShape` sorts the steps into those of `Render`, those
  that stop with an error, and those that change none of this.

Taps and retention.

* The invariants of the design service are kept by taps, expiring months and
  retention, so its types and its theorems hold with them (`TouchTypes`,
  `ServiceWithTaps`, `FramesWithTaps`).  A tap that stores a month is for `QuietInv`
  a connection that has yet to render with force.  Storing and deleting a month
  changes what the newest frame ought to show without a lock; `QuietInv` does not
  mention months, `MonthInv` does.
* The month: `MonthInv` says that who draws has read the month that is stored, or
  that month has expired, or a connection that stored another one waits to render
  with force (`MonthRead`, `TapForced`): no client can cancel what a connection
  renders.  A month that expired is deleted by the next render, and only if that
  render goes on to a frame or finds the row without the month (`RowSame`,
  `MonthShownOrDue`).
* A tap: `ClaimInv` says that a known frame was claimed as often as its claim is in
  the table: pruning removes frame and claim together, and a frame that is pruned
  never comes back.  `TapInv` says that a tap under way is of a frame that was.
* Retention: PruneFrameHistory counts the frames that are left, not the frames that
  were.  `NewestKnown` says that this is the same for the last `Limit` frames.

Actions.

* `PlacesInv`: what waits is at one place, its story has not begun and no worker
  has it (`WaitsOnce`); what a worker has, no other has, and its story has begun if
  the webhook is being called (`RunsOnce`); what has not ended waits or is with a
  worker (`NoneForgotten`).
* Configured actions: a PUT and a DELETE check the source of the row one statement
  before they write.  `ConfigInv` says that a PUT past its check is for a name that
  is not configured; nothing but start-up writes the rows that are.

Algorithms.

* `InputInv` says of each kind of input what its fields can be.  For most that is
  all there is to it, and the work is in lemmas on the operators.  Days and designs
  grow from step to step: a day is one of its month (`Dated`), and of a design and
  the same without its later pages `Compiled` says what holds after every token.
* Numbers: a number handed out is above all seen since the last wrap (`HandOutFresh`,
  `ObserveFresh`).
* Records: a length is read back from its bytes, and every byte of a record is in
  one chunk, at its place (`LiteralLengthRead`, `ChunksRight`).
* Frames: two pixels share a byte and widths are even, so a pixel has one place
  (`RowMajor`, `PixelUnderTap`).  A changed rectangle spans the bytes that differ
  and is never empty; outside it the canvases agree (`SpanFacts`, `RectanglePaints`).
* Pictures: rounding keeps the order of levels (`RoundedOrder`, `Mixed`), so
  rotating, fitting, stretching and inking do (`FitPlaces`, `StretchedOrder`,
  `ToneOrder`).
* Regions: start and length are rounded apart.  `Covered` shows for one axis that
  they hold every pixel inside the interval and none outside, and the corners of a
  box reach from its least to its greatest coordinate under any matrix
  (`CornersSpread`).
* Navigation: an arrow and the title are in their own regions and, although these
  overlap by the margins, in none that is numbered later (`Apart`).
* Months: of two successive months one has thirty-one days (`NeverBothShort`), so
  `AddDate` overflows into the next month and not beyond (`AddMonthsFacts`), and a
  month that is left out is too short for today.
* Designs: `Opens` says that an element is skipped just if it is in a later page,
  `Alike` and `Below` that the compiler of the part draws and places the same and
  has open what comes before the later page, `Tracking` that what is drawn shows
  tracked values and a calendar that can be moved is refreshed every minute, and
  `Numbered` that the regions are numbered in the order of their elements.  One
  element either is noted (`Noted`) or is noted and displayed (`Displayed`): no
  other kind of step touches these.

Each inductive invariant but `InputInv` was an invariant of a run on the instances
above before it was proved; `InputInv` says that there are a day, a path of open
elements and a number of pages, from sets that TLC cannot enumerate.

Model-checked only, since they are out of the prover's reach: `PendingSettles`,
`WaitingArrives`, `CatchesUp` and `InvocationEnds`, liveness under fairness.  The
compiler needs no induction over documents, because `Algorithms` reads a design
token by token: what would be an induction is its inductive invariant.  The modules
have no recursive operators and no folds.

## Plan

1. Assumptions that are wider than the code: calendars below twenty pixels, with
   the size from which on every arrow answers.
2. What is listed under "Not modelled" and keeps state.

## Not modelled

* The age of events and status samples: `PruneEventHistory` compares an RFC 3339
  text with SQLite's `datetime`, and so keeps the events of the cut-off day
  whatever their hour.  Without times pruning is any prefix.
* Several tablets: a broadcast is an upload to each, and stops at the first that
  fails; the catalogue is all they share.
* The fields of a tablet: of two concurrent PATCHes of different fields one is
  lost, as every field is written back.
* The scheduler's clock: it computes the next minute after it has rendered, so a
  minute that passes meanwhile is skipped.
* The preview cache, lists and metadata views, request and configuration parsing,
  XML decoding, fonts, rasterising, error diffusion, colour, CRC-32, the LZ4
  compressor, the framing of records, the WebAssembly runtime, the departures
  plug-in and the scripts under `tools/`: conversions of text or pixels, or
  libraries, without state that outlasts a call.

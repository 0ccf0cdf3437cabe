# Verification of visual-wrk

visual-wrk is an HTTP benchmarking tool: worker threads keep a number of
connections busy, measure every request cycle, and main turns the measurements
into a text and HTML report with a chart. A second program, the JSON generator,
makes the file of requests it can be given, from files that are uploaded through
a web page. This directory holds TLA+ modules of the parts of both that are hard
to test, the TLC runs that check them on small instances, and proofs of theorems
about them that TLAPS checks.

Paths below are relative to the repository: `src/wrk.c`, `SCRIPTING`,
`tool/json-generator/web/index.html`, `template/js/Chart.js`.

## Inventory

| part | state | operations | who calls it |
| --- | --- | --- | --- |
| connection handlers (`src/wrk.c` 491-776, `net.c`, `ssl.c`) | `connection`: fd, delayed, written, pending, request, parser, start | connect, reconnect, connected, writeable, readable, response_complete, delay timer | event loop, HTTP parser |
| event loop (`src/ae.c`, `ae_epoll.c`) | table of file events, list of time events, fired batch | create/delete events, poll, process a batch, process timers, stop | thread_main, handlers |
| HTTP parser (`src/http_parser.c`, vendored) | parser state per connection | execute, keep-alive, body-is-final | socket_readable |
| latency histogram (`src/stats.c`) | data, count, min, max, shared by all threads without a lock | stats_record | response_complete |
| request rate and run control (`src/wrk.c` 86-88, 279-489, 576-598, `src/stats.c` 39-65) | per-thread counts, per-second slots, max_location, last_sec, stop, thread_concurrency | create and start the threads, record_rate every 50 ms, SIGINT, sleep, join, collector | event loop, main |
| latency report (`src/wrk.c` 988-1034, `src/stats.c` 67-146) | the histogram, read and corrected by one thread | chart, correction, mean, percentiles, value list | main, Lua `done()` |
| rate report (`src/wrk.c` 1036-1086) | per-second slots | statistics_rps, print_stats_requests | main |
| performance collector (`src/server_perf.c`) | a session on the tested host | start_collecting, stop_collecting | main |
| script bridge (`src/script.c`, `src/wrk.lua`), mixed requests (`lib/multi_requests.lua`) | one Lua state per thread; shuffled label list | request, response, delay, done | handlers, main |
| units, template (`src/units.c`, `src/wrk.c` 890-962, `src/aprintf.c`) | none | scan, format, replace | main |
| generator's server (`tool/json-generator/*.py`) | directories under `data/`, one thread per request | make a directory, put a file, convert, sweep directories older than an hour | the page |
| generator's page (`web/index.html`) | md5, the number of files on their way, the flickering buttons, the download link | clicks, complete callbacks | the user, jQuery |
| jQuery 3.3.1 (vendored): requests | callback lists, deferreds, jqXHR, timeout timer | `$.ajax`, abort, then, add, fire, convert an answer | the page, the browser |
| jQuery: effects | the fx queues, `jQuery.timers` | fadeIn, fadeOut, stop, tick | the page, the browser's frames |
| jQuery: elements and events | handlers of each element, what the browser calls, caches of the selector engine | find, filter, on, off, one, trigger, append, remove, clone, empty, class and attribute methods | the page, bootstrap, the browser |
| Chart.js 2.7 (vendored): animation and events | the animation service, chart.animating, hover, tooltip, resizer | construct, update, render, advance, handleEvent, resize, destroy | the report's page, the browser |
| Chart.js: drawing | layout, bars, ticks, legend, tooltip, bitmap | update and draw of each box, hit tests, colours | the chart |

How they interact. A worker thread runs one event loop with all of its
connections; between threads there is no lock: they share the histogram, the
per-second slots, the flags and the process's descriptor table. Main reads the
shared statistics after it has joined the threads. The generator's page sends
requests through jQuery and learns of their end in callbacks, a thread of the
server per request works on directories that others sweep. In a page everything
runs in one thread, one call at a time, but a callback may call back into what
is calling it: callbacks register callbacks, handlers unbind handlers, a fade's
complete function stops other fades, a click handler clicks.

What is hard: a handler may close a descriptor and get the same number back
inside the batch that is being dispatched; timers outlive sockets; writes are
short and are tried again; responses arrive in any pieces, early, pipelined, or
end with the stream; `connect()` fails; threads update extremes and slots
concurrently; the last flush of a thread races with the end of the run; the
report's arithmetic rounds; uploads, conversions, sweeps and timeouts overlap;
lists are changed while they are walked; one animation serves all charts; boxes
are measured before they have a place. `PROJECT.json` lists these hazards by line.

jQuery and Chart.js are code of others, and they are modelled as far as the two
pages use them. They are in the project because what a user sees goes through
them, and because most of what is hard about these pages happens inside.

## Modules

### The benchmark

**`Connection`** models one worker thread: its connections, the event loop's
dispatch, the kernel's sockets and the server. One step is one handler call, one
parsed response, or one event of the world. `socket_readable` is split where
the parser calls back: `socket_readable` (the read), `ParseResponse` once per
response, then `ReadEnd` or `ReadError`; nothing else of the thread runs in
between, but the network may. A batch is dispatched as in `aeProcessEvents`:
for a fired descriptor `ReadHalf`, then `WriteHalf`, each of which looks the
event up again. A request is written in `ReqUnits` pieces; a response is one of
`keep` (keep-alive), `close` (with a length, then the server closes), `eof` (ended
by the end of the stream) and `junk` (followed by bytes that are no response). For
plain and TLS sockets the results of `sock` are those the code can return in
that state. `live`, `fresh`, `touched` and `issued` are auxiliary.

The other threads run the same code, and what they do to the numbers of this one is in
the model. `TakeFd` is their `connect_socket`, `ReleaseFd` their `reconnect_socket`. When
that fails to connect, `c->fd` keeps the closed number; `strays` holds such numbers, and
`CloseAgain` is the second close at the end of the same read (760-769), which may meet
a socket of this thread that has the number by then. A thread that lost its socket in this
way has handlers left that read and write by the number (`UseAgain`). This thread
does the same to others: its `reconnect_socket` closes what has the number of `c->fd`, its
handlers may find that a number is another thread's (`Foreign`) or nobody's, and `epoll_ctl`
refuses a number whose socket it has forgotten (`Refused`). The sockets of the other
threads are not followed: what is read there is any response or part of one.

**`ClosedLoop`** is what the handlers promise: each connection is down, idle
or busy; it issues a batch only when idle, leaves busy when the batch is
answered or the connection is lost. `Connection` implements it
(`ImplementsClosedLoop`).

**`LatencyStats`** models `stats_record`, one atomic instruction at a time.
**`StatsReport`** models what is computed from the histogram after the run: the
bars of the chart, `stats_correct` (one `n` per step), mean, percentiles, popcount
and `value_at`, checked against their definitions. **`LatencyRun`** composes the
two: threads record, main joins, corrects and reports.

**`RateStats`** models a run: the creation of the threads and its failure, the
start flag, `record_rate` with the two functions it calls, one memory access at a
time, the signal handler, main's sleep, joins and total, the collector, the clock. `cutOff`
is auxiliary: the seconds a thread leaves out of the chart when it overwrites
`max_location` with an earlier one. Its
invariants are stated in it and proved; that a run ends is stated in `MCRateStats`.

### The JSON generator

**`JsonServer`** models a request's thread between the moments at which others
can see or disturb it: the sweep before each GET, the two removals, making a
directory, opening and writing a file line by line, the three conversions. A
file is the number of its lines, and each line of an uploaded file is known by the
request that wrote it (`text`): files that are uploaded differ in content and length,
and two requests for one file overwrite each other or mix (`overlaid`). **`Generator`** is the page with that server:
the clicks and complete callbacks of `index.html`, an answer or a timeout,
whichever is first, and an hour that passes for a directory nobody waits for.

**`CallbackList`** is `jQuery.Callbacks`, cut into the steps between which a called
function runs. **`Responses`** is what `$.ajax` makes of an answer: settings and
prefilters, the type of the answer, the converters on the way to what was asked
for, status and text. **`Exchange`** puts both together with the deferreds of the
jqXHR, `then()`, abort, timeout and the events of XMLHttpRequest; `stack` holds the
calls in progress. A callback may register, abort, send, settle, return a
thenable or throw. **`Settlement`** is what a promise is; `Exchange` implements it
(`ImplementsPromise`).

**`Effects`** models the fx queue and the tick over `jQuery.timers`, with a complete
function that begins and stops fades or throws in the middle of the tick. A timer
that is over but was not removed runs its tween to the end again (`TickRemoves`);
`spoilt` is auxiliary: elements that may have lost their opacity by this.

**`PageTree`** is what both of the following ask of the elements: parents, children, siblings.
**`Selectors`** is the selector engine: tokens, the right-to-left matcher with
what `addCombinator` leaves on the elements, the plan of `select`, the shortcuts of
`Sizzle`, `:not`, `:nth-child`, and `find`, `filter`, `closest`, `children` and their
like. **`EventStore`** keeps what jQuery keeps with elements: handlers, the one
function by which the browser calls them, and what remove, detach, append, clone
and empty do to them. **`Events`** brings events along their paths: from the
browser, by `trigger()`, by `click()`; handlers that are called change the page. How an
element is found by a selector, and what the selector means, are constants of these two
modules (`JQueryFinds`, `SelectorMeans`), so that what is proved of them holds for any
selectors; **`PageEvents`** puts `Selectors` in their place for TLC.

### The report's chart

**`AnimationService`** and **`Chart`** model the life of charts: the list of
animations and its one frame request, `update`, `render`, `handleEvent`, hover and
tooltip, the legend's click, the resizer with its CSS animation, scroll events and
throttled frame, `destroy`. Pictures are abstracted to "the canvas shows the
models"; the modules that follow are about what these are.

**`Measures`** has lengths, **`LinearTicks`** the value axis' range, step and labels,
**`Scales`** the fit of both axes (turned and left-out labels included), **`Legend`** its
lines and hit boxes, **`Layout`** the rounds in which boxes are measured, **`Bars`** the
bar controller and the hit tests, **`Tooltip`** its size, side, place, caret and
outline, **`Colours`** the colour strings, spaces and hover colour, **`Painting`** where
and in which order everything is painted, **`Screen`** the size the canvas takes from
its container, its bitmap on displays of any density, and the way back from a
place on the screen to a point of the chart. **`Drawing`** composes them: reports
drawn on canvases that are resized while the pointer moves, clicks and leaves.

A definition that the comments call a variant is a plausible mistake in the code; with
it in place of the definition that follows it, the property that `PROJECT.json`
names fails. Variants are part of no specification.

## Runs

| run | asks | bounds |
| --- | --- | --- |
| two | do descriptors, events and connections stay together, and cycles apart, when two TLS connections compete with other threads, for every framing? | 2 connections, 2 descriptors, 1 fault (of the server or of a connect of another thread), requests in 2 pieces |
| pipeline | is each connection a closed loop that makes progress? | 2 connections, 2 requests per cycle, 1 fault |
| delays | can a connection with a delay() stall, can a cycle be lost from the counters? | 1 connection, 2 faults, 2 timers, counters to 3 |
| resend | (violated) is a cycle one request? | as delays |
| latencies | is the shared histogram exact, and what is reported of it right? | 2 threads, 4 calls, limit 11, latencies 0, 2, 9, 11; and every histogram of up to 2 samples in each of 3 slots; intervals 1, 2, 3, 5 |
| rates | do seconds add up to totals, is the chart complete but for what was cut off, does the run end? | 2 threads, 1 response each, 3 seconds |
| exchange | is every request told of its end once, in turn, and of the right outcome? | 2 requests, 3 callbacks, 2 thenables in a row, 18 sets of options, about 100 answers |
| generator | are uploads kept, conversions whole, buttons at rest? | 4 requests, 2 uploads, 1 conversion, files of 1 or 2 lines |
| effects | does the fx queue survive its callbacks? | 2 elements, 4 fades of 2 frames |
| events | is nobody skipped, called twice or in the wrong order; do selectors find what they mean? | a button, what is in it, a copy; 6 bindings, 2 events, 1 change; 3 documents of 5 elements, 11 selectors, 3 contexts, after a search on another of the documents |
| chart | is the canvas what the models say, is a destroyed chart silent, does the page come to rest? | 2 charts of 2 bars, animations of 2 frames (lazy 1), 6 inputs, 2 sizes |
| drawing | do the boxes fit, can labels be read, is what is hit what is seen? | 57 reports of 1 to 3 datasets with 1 to 21 bars, 4 places on 3 kinds of displays (canvases 300, 400 and 800 wide), 9 x 9 pointer places, 31 colours |

The bounds suffice for what is asked. Two connections and two descriptors are enough
for a number to pass from one to the other and back, or to another thread; one fault starts
each of the failure paths, and where connects may fail (`two`) or there are two
(`delays`) the next meets the connection while it recovers; two pieces make a
short write, two responses per cycle a `pending` that is neither full nor zero. Two
threads are enough for a compare-and-swap to fail and be tried again by both.
Two requests let a callback of one send, abort or settle the other; the third
callback is registered while the second runs. Four requests are two uploads whose files
meet in one directory, or an upload of two files with a conversion and its sweep. Two charts share one
animation service; a hovered, an unhovered and a removed bar need two. A chart in
the report has 21 bars and one dataset; more datasets and other sizes are in
`drawing` because the page's template is meant to be changed. Counters
stop at bounds named in the CONSTANTS, and what is said of them is said of
behaviours that have not reached them.

`CHECK_DEADLOCK FALSE` is in the runs where the system may really stop: when no
descriptor can be opened any more (`two`), when the delay timers have reached their
bound (`delays`, `resend`), at the end of a run that ends (`latencies`, `rates`), and
when the user has done all that the bounds allow and everything has come to
rest (`exchange`, `generator`, `effects`, `events`, `chart`).

### Fairness

`Connection`: the thread takes steps as long as it can (it is one loop without
blocking calls but the poll). A timer that is due is called. A socket that is
reported writable again and again accepts bytes at some time, else TCP would be
stuck. The server accepts and answers; it may close and reset `MaxFaults` times.
Nothing is assumed of early answers, closes, resets and other threads.
`LatencyRun`: a thread inside `stats_record` goes on. `RateStats`: timers fire, the
clock advances, main runs, a created thread runs; nothing is assumed of SIGINT.
`Exchange`: a call that has begun runs on (JavaScript runs to completion), an
armed timeout fires, queued tasks run; nothing is assumed of the network or
of the user. `Generator`: the page's timeouts fire; nothing is assumed of the server.
`Effects`: the browser calls frames. `Chart`: the browser calls requested frames, and
tells of scrolls and of the start of CSS animations. The other modules have no
liveness property.

## What was found

**resend** is the one disagreement kept as a run: `delay_request` makes a connection
writable when its timer fires, also when it was reconnected in the meantime and the
new socket has a timer of its own. The request is sent twice (`src/wrk.c:603`;
`SCRIPTING:72-79`).

Observations, made while modelling; where the model would violate a property
because of one, the property excludes it and says so.

*Connections.* When `connect()` fails at once nobody tries again (`src/wrk.c:563`). `c->fd`
keeps the number that was closed, and when this happens in `response_complete` and the same
read ends in an error, `reconnect_socket` closes the number a second time (764, 769, 570-572). Another
thread may own it by then: that thread's event stays in its table without a socket
(`touched` in `EventsOwnTheirSocket`), its handlers go on with a number that a third
connection may get, read that one's responses or write into its requests, and epoll does not
let the number be registered again, so that connects fail. A
dynamic, pipelined request is freed by the first read while it is still being
written; the write that follows has a NULL buffer and counts as a socket error
(`src/wrk.c:771`). A first write that must be tried again calls `request()` twice in one
cycle (710-715). A response that is complete before its request is written leaves a
keep-alive connection without a write event for the rest of the run (663, 732).
Pipelined requests that a closing server leaves unanswered are lost without being
counted (670). `--timeout` is looked at only when an answer comes (659). `errors.code` has
600 entries and the parser accepts three digits, up to 999 (646).

*Statistics.* `max_location` is tested and set in two steps; a slow thread moves it back
and the chart loses its last seconds (`src/stats.c:62`; `cutOff` in `AllCounted`). The width of a bar of the
latency chart is rounded down and samples beyond the twentieth are dropped
(`src/wrk.c:1001-1017`). An interval of 0 would never end the correction
(`src/stats.c:68`); with pipelining the interval can be shorter than the shortest
latency, samples are added below `min`, and `percentile(100)` returns 0 (67-77, 126).
`print_stats_requests` has a last, partial interval (`src/wrk.c:1066`). An early exit
after `start_collecting` leaves the collector of the server running (385).

*Generator.* `md5` is a global (`index.html:188`): with a second click before the directory of
the first is there, the files of both go to the second directory, where the later ones
overwrite the earlier ones or, when both are being written, mix with them, though every
upload is reported as successful (209-214; `overlaid` in `UploadsKept`). Of an archive that is not whole some files are unpacked, and the next
conversion takes the directory as it is (`wrkJsonServer.py:85`). The command line's POST_bin gives the
archive itself to a function that wants a directory, and returns nothing
(`README.md` of the generator, 24-25). `type(e)+str` raises in the error path. A
failed conversion is offered for download under the name "undefined"
(`index.html:169`). An answer with status 200 that is not labelled as JSON would
leave `responseJSON` undefined and the page's callback would throw (166, 205, 260);
the server always labels its answers.

*jQuery.* A timer that is over stays in the list when its callback threw, or stopped an element
with an earlier timer (`jquery-3.3.1.js:7436`), and the next tick runs its tweens to the end
again (7093). After a `fadeOut` that leaves opacity 0 when the opacity to go back to has
been forgotten, and a later `fadeIn` fades in to nothing (`spoilt` in `OpacityKept`). The
page's own flicker, `fadeOut(500).fadeIn(500)` without callbacks, is not affected. With the option `throws`, an answer, an error page or an abort that cannot
be converted ends neither error nor complete callbacks, and `jQuery.active` stays too
high (`jquery-3.3.1.js:8783`). A type list such as `"* json"` with an answer of type xml
overwrites `responseText`; an empty xml document is null and becomes JSON null. A
callback that throws leaves its list firing (3271). A handler bound by `one` can be
called again by an outer dispatch that had already copied its queue, and handlers
unbound in a dispatch are still called by it (5172). The page's button contains the
file input whose `click()` bubbles back to the button's handler, which ends
only because the browser does not nest clicks. Positional selectors with nested
contexts may return duplicates (2544).

*Chart.js.* `advance()` takes an animation out of the list by an index that
`onAnimationComplete` may have made stale, and a `render` that throws stops the service
for all charts (3766). Hiding all datasets gives an axis from -1 to 1, because null
counts as finite. There may be 12 ticks though a comment says 11. An axis that does
not begin at zero hides the smallest bar, whose hit box reaches below the chart area.
On small canvases a long legend leaves a chart area of negative height. A tooltip
that is hovered while its bar moves stays where the bar was. `fit` and `draw` of a
vertical legend disagree. A horizontal axis that would need more than half of
the canvas is cut off and its labels run into its title (the properties except
that case). A single category has its grid line through its bar.

## Properties worth a word

`TooltipOfHovered`, `NothingUnseen`: in `Chart` the canvas is compared with the models
only where no animation is to come, because in between it is meant to be behind.
`SelectionFits` compares the engine, with whatever earlier searches have left in
its caches, with the meaning of the selectors read off the tree; on the pages the
handlers make it says so of each delegated handler (`SelectorsAgree`). `OutcomeFits` compares
the conversions with a reading of the answer as one type after the other.
`ReportSound` says of each number the program computes what it means for the samples.
`PointsAtWhatIsSeen` goes from the screen to the chart by the code, and back as the
browser shows the bitmap; what has the hover colour is what the last hover was about. `LaidOut`, `BarsInTheirPlace` and `Painted` use lengths that
`update()` of one box computed and `draw()` of another uses.

## Proofs

Eight modules hold theorems; each is proved for every value of the constants that the named
assumption of its module admits.

- **`SumTheorems`** (no assumption): induction over numbers and over finite sets, and what it gives.
  The library's induction theorems take an operator; these are stated of sets, from
  the library's theorem that the numbers are well-founded. The fold `SumFunctionOnSet`, in
  whichever order it goes through a set, yields the cardinality of a set (`SumIsCount`), from which
  the laws of sums follow; a function given by a start and a step exists
  (`Iterated`); a finite set of numbers is listed in order (`Ranked`).
- **`LatencyRunProofs`** (`LatencyAssumption`, `ReportAssumption`): the type invariant; `min` and `max` are exact
  when no thread is in `stats_record`, are recorded values at all times, only widen,
  and cover the sample of a thread that returns. The invariant is inductive only
  with three facts about the threads in between: one that has passed the slot has its
  sample recorded; a local copy of an extreme is never beyond the shared value it
  was read from, because shared values move one way; and each recorded value is either
  covered by the extremes or belongs to a thread that has not finished its loops.
  `NextIInv` shows that each instruction preserves it. Then `ReportSound` and `ExtremesExact` over the whole
  run (`RInv`). While the threads record, `data` and `count` differ by the threads between the two
  additions, and the calls are the samples, the late ones and the threads before the first
  (`Tally`); when main has joined them the histogram is `Whole`, and `CorrectionKeeps` says
  that a corrected slot adds to `count` what it adds to the slots, strictly between the
  interval and `max`. From `Whole` alone follow the percentiles (the first slot that reaches a rank has
  a sample), the listing (how many values are below one is its index) and the mean. The
  chart stays in `stats->data` because `digit_ceil` at most doubles a number of two digits or more
  (`DigitCeil`). `~Pipelined` is a hypothesis: with several requests in a cycle the
  interval can be shorter than the shortest latency, and the report is wrong
  (above); that every call is told of (`CallsAreTold`) does not need it.
- **`RateStatsProofs`** (`RateAssumption`): the type invariant, `PrintsFinishedSeconds`, and
  that nothing is left unflushed when main reports (`NothingIsLeft`). The second in
  which a thread works has begun (`Begun`), a thread at its last line has seen the
  flag, and one that has passed its flush has empty counters until its next response
  (`Flushed`). `AllCounted` adds sums to this (`Sums`): the seconds and what the threads have
  not flushed are together what the threads have counted (`Booked`), main's total is
  what those it joined counted, and a second has no more successes than its requests
  and those of the threads that have added their successes to it and not yet their requests
  (`Succeeds`), with the sums of `SumTheorems`. A second with responses is in the chart,
  cut off, or about to be compared with `max_location` (`Charted`). `Starting` says that no thread runs
  while others are created, whose failure ends the process.
- **`ConnectionProofs`** (`ConnectionAssumption`): the type invariant of `Connection` for every
  set of connections and descriptors, pipeline, server and script. It is inductive
  with `HandlersHaveFd`: whoever has an event, a timer or an input has a descriptor.
  Then, with `Delay = FALSE` and whatever the other threads do with numbers they have
  closed, `EventsOwnTheirSocket` and `NoStaleDispatch`. The
  assumption is needed: `delay_request` looks at no state, and with delays, failing
  connects and other threads there is a behaviour of 14 states in which a timer
  registers an event on another thread's descriptor. The invariant is `Together`:
  connections are opened in order, the parser works for the connection whose handler
  runs, and of a batch only what was fired for the present socket of a descriptor
  is dispatched. `Reopened` and `Left` say what a new socket and a closed one do to it.
  Of the closed loop, without `delay()` and in a process in which no thread uses a
  number it has closed (`[]Undisturbed`; one that does may eat a response or put pieces into a
  request): `OneCycleAtATime` for every pipeline, cutting of
  requests into writes and server; `PendingIsOutstanding`, `NoStall` and the refinement of
  `ClosedLoop` for every server that answers requests it has received. The invariant is
  `Cycles`, with `Together`. A connection that watches its socket was told by
  `socket_connected` that it is connected, or was not, and then nothing was sent
  (`Told`, `Untold`). Of one that was told, `Tally` says what `pending` is made of,
  `Phases` that a cycle is open unless the connection may start one, and
  `LastIsLast` that nothing follows a response after which the server closes; without
  that, a response of the old socket could be taken off the `pending` of the new one.
  The arithmetic of pieces and requests is in lemmas over numbers (`TallyWrite`,
  `TallyReply`, `TallyRead`, `TallyParse`, `TallyCut`). Each step is one move of one connection
  (`Moves`), which is a step of `ClosedLoop`. The hypotheses are needed: a delay timer
  starts a write in the middle of a cycle, and an answer to a request that is still being
  written leaves `pending` behind. `CyclesAreCounted` needs in addition one request in a cycle or
  a server that keeps its connections: when one of several pipelined responses
  closes, `response_complete` reconnects without an error, and the cycle is
  counted nowhere. `Books` and `Ledger` follow the counters through a step.
- **`ExchangeProofs`** (`ExchangeAssumption`): the type invariant, `OverIsSilent`, `VerdictStands`,
  `CalledInTurn`, and that the deferreds implement the promise of `Settlement`. The invariant is
  `Inv` with `BodiesInv`: each callback list is in one of four conditions (not fired, firing,
  fired, disabled) and in step with the callbacks that were added and that ran; each deferred
  is open or settled, with the other outcome's lists disabled; the calls in
  progress are nested in the order the code makes them; and `active` counts the
  requests that are open or in the `done()` that ends them, unless a callback threw.
- **`ChartProofs`** (`ChartAssumption`, `DrawingAssumption`): of `Chart`, `NothingUnseen`, `TooltipOfHovered` and `DestroyedIsSilent`,
  and three facts that no run lists: each chart has at most one animation, a frame is asked for as
  long as there is one, and `animating` tells of one that is not lazy. `Inv` says of each chart
  that its record, its animations and its resizer fit together. Of `Drawing`, `PointsAtWhatIsSeen`,
  for canvases whose bitmap has more than one pixel each way. `ScreenFits` says what all resizes
  leave: the bitmap is the chart's size times the remembered ratio, cut to whole pixels, its context
  is scaled as often, and the style has the chart's size unless the ratio is 1.
  `PixelIsShown` is the way there and back: rounding to a point of the chart is
  off by half a pixel of it, which is less than one on the screen because the style never
  enlarges the canvas (`BitmapIsDense`). `HoverMoves` shows that a hovered bar is made
  plain before it gets the hover colour, however long it stays hovered.
- **`GeneratorProofs`** (`ServerAssumption`): the type invariant, `FlickerCount`, `UploadsKept`
  and `WholeForThePatient`. The interval of an upload's owner runs exactly as long as its own
  file is on its way (`OneEach`), numbers that were not sent own nothing, and the server
  changes how far a job is but never its kind (`ServerKeepsKinds`). `ServerInv` says of the
  server that only what is an hour old is swept (`Swept`), and that a file is there unless it can have
  been swept (`StaysThere`), has the lines of the request that opened it, as far as that has come (`OwnText`), and
  that nobody else writes to it then (`OneWriter`), both unless the request is overlaid; each
  of the fourteen steps of a job keeps it (`WorkServes`). `PatientFits` adds for a patient
  user's conversion that the texts of its directory have all arrived and that no answer on
  its way can send another there, because the page's number has moved on. Then what was
  read is everything (`Whole`, `WholeStays`). `Crossings` counts the PUTs: apart from
  those that a later click has turned to its own directory, each file of a directory is
  put once, by the one answer to the one request that made the directory.
  The same module (`StoreAssumption`, `EventsAssumption`) proves of the page's events
  `HandlesFitHandlers`, `HeardInOrder` and `NobodyMissed`, for any finite set of elements, any
  handlers, and any number of events, within each other or not. The invariant has
  three parts. `PageSound` is about what jQuery keeps: the browser was given what is bound
  (`Wiring`), a type's handlers are all different, the delegated ones in front, and the elements are
  a forest, so that the way up from a node ends and repeats nothing. Each thing a script can do to
  the page keeps it (`StepFits`); that `append` keeps the forest is why `Manipulate` refuses what
  is within itself, as the browser does. `Proceeds` is about the calls in progress: a dispatch is
  on top of its event, at a node of the path that is behind; what it still has in its queue
  was not heard; what was heard is in the order of the path and, at a node, delegated first;
  after a stop only the rest of the element is to come. Only one event can begin with
  what another has heard, the one at the end of a `trigger()`, and then nobody calls it, because
  `jQuery.event.triggered` is set: `Proceeds` says that it is set exactly as long as such an
  event is on top.
  `DueFits` is what `NobodyMissed` needs: whatever is due to an event is at a node it has not come
  to, in the queue on top of it, or was heard; a change of the page may take from what is due, but nothing
  from the queue (`ChangeDue`, `TurnDue`). `NobodyMissed` has the hypothesis `[]SelectorsAgree`, that
  jQuery finds for delegated handlers what their selectors mean: `SelectionFits` says it of every
  page TLC reaches, and the engine is recursive. `JQueryFinds` is free in the other two.

- **`EffectsProofs`** (`EffectsAssumption`): the type invariant, `OneFadeAtATime`, `OpacityKept`,
  `LastFadeWins`, and `Ticked`, which no run lists: while there is a timer a frame is asked
  for. `EffectsInv` says of each element that its queue is in progress while exactly one
  timer or complete callback of it is under way (`InTurn`), that no fade changes the
  opacity unless the original one is saved (`Safe`), that the last of its queue, or the fade
  under way, is the one begun last (`Leads`), and that a timer that is over can only run a
  fadeIn again, which ends at the original opacity (`Harmless`), unless the element is `spoilt`: a
  fadeOut whose callback returns is still at the tick's index then, and removed (`Placed`). `Numbered` keeps fades apart: a callback's
  timer is found by its number, wherever a `stop` of another element has moved it. `DequeueGives`
  is the step that a fade, a stop and the end of a callback share.

Everything else is model-checked only: `OutcomeFits` of the requests and `SelectionFits` of the
events, and `LaidOut`, `BarsInTheirPlace` and `Painted` of the drawing, which
say what long computations yield for all inputs: the conversions of an answer, the engine of
`Selectors`, which is recursive, the rounds of the layout with their divisions. Proving them
would be induction over the data, which is out of the prover's reach, as is liveness
(`Progress`, and what else is stated under fairness). Besides, those of the drawing
hold only where the canvas has room for its boxes: how much that is, is itself what the
rounds of the layout compute.

## Abstractions and limits

`Connection`: one thread, and of the others what they do to its descriptors; time is absent,
timers fire at any time. The list of timers is a bag of delay timers. `Exchange`: texts are
what they can be parsed as; three callbacks
are enough for every pair of registrations but not for long lists; names and
clean-up of JSONP callbacks, caching headers and `load()` are left out.
`Effects`: time is the number of frames, and a tween that runs on is partial until its end;
`finish()`, `stop(gotoEnd)` and a `stop` of an
element inside its own complete function are left out. `Selectors`: text nodes,
positional selectors, `:has`, `:visible`, XML, several documents, and the tokenizing of strings
are left out. `Events`: focus and mouse-enter events, on-attributes, checkboxes, disabled
elements and scripts are left out; an attribute is there or not. `Chart`: the list of animations
is a set, easing is whole or partial, there is one dataset, and which bar is under the pointer is
chosen freely; the page has one chart and never destroys it, the model is more
general. `Drawing`: lengths are in 1/60 px rounded down, every character has the
same width, events come at rest, colours are `#rgb`, `#rrggbb`, `rgb()` and `hsl()`, and options are the page's.

## Not modelled

Standard deviation (floating point), formatting, the report's text and HTML, command
line, allocation, the vendored parser's byte machine (its effect on the connection
is modelled), the other polling backends, scripts written by users, the md5 of the
page, bootstrap, the other charts and axes of Chart.js (line, radar, pie, time,
logarithmic), dates, and the parts of jQuery that the pages do not call. They are pure
computations in one thread, input and output, or code that no page reaches.

## Plan

In this order: `EventLoop` (time events created and deleted in callbacks, maxfd, against
the abstract "each due timer once"); `RateReport` (statistics_rps,
print_stats_requests); `MultiRequests` (the weighted round robin of the mixed-request
script); `Units` and `Template` against reference definitions; `HttpParser`; positional
selectors; JSONP names; md5. Then proofs: of `Connection`, what remains of the closed loop when there
are delays.

# ValueStream in TLA+

ValueStream receives webhooks from development tools (GitHub, GitLab, Jenkins,
Jira, a custom HTTP source) and turns each unit of delivery work (an issue, a
pull request, a build, a deploy, a sprint) into an OpenTracing span that starts
when the work starts and finishes when it ends. A second program,
`vsperformancereport`, pulls pull requests from GitHub and aggregates them.

This directory models the parts of both whose correctness depends on the order
of events: TLA+ modules, TLC configurations, and theorems that TLAPS checks.
Source paths below are relative to the repository.

## 1. Inventory

| Part | Source | State | Operations | What makes it hard |
|---|---|---|---|---|
| Span store | `traces/stores.go` | map id -> entry, one mutex, a bound | `Set`, `Get`, `Delete`, `Count`, `DeleteAll`, `Monitor` | shared by every handler; each method is atomic, pairs of calls are not |
| Webhook handler | `eventsources/webhooks/http.go` | none of its own; shares the store and the tracer | `Handler`, `handleEvent`, `handleStartEvent`, `handleEndEvent` | one goroutine per request; lookup, finish and delete are separate steps; errors and panics between effects |
| Event sources | `eventsources/{github,gitlab,jenkins,jiracloud,http}`, `traces/parser.go` | none (pure) | `State`, `SpanID`, `ParentSpanID`, `IsError`, `OperationName`, `Timings`, `Tags` | the id must agree between all events of an object; the state tables must match what the tools send |
| Payload validation | `eventsources/*/source.go`, `event*.go` | none (pure) | `ValidatePayload`, `Event`, and what each method of an event takes for granted | a field that is missing fails, or panics, at a different call for each kind of event |
| Server process | `main.go` | the tracers and their closers, listener, signal channel, shutdown context | start source by source, serve, `waitForShutdown` | signal, `ListenAndServe`'s return, handlers and deadline race; a start that fails half way |
| Mock tracer | `tracers/httpmocktracer.go` | finished spans of the test tracer | `Reset`, `FinishedSpans` | two-step reset beside running handlers |
| Monitor | `traces/stores.go` | last sample | tick | reads under the lock, records without it |
| vscli | `cmd/vscli` | none | `start`, `end` | the ids that it prints and takes |
| Performance report | `cmd/vsperformancereport` | page, cursor, collected rows, ticker | `Repos`, `PullRequests`, aggregation | paging a list that changes; limits; a ticker that is late; interrupts; divisions by zero |
| Tracing backends | `tracers/init.go`, `logging.go` | vendors' | construction, closers | which exits call the closers |
| Test data generator | `cmd/generatetestdata` | three loops, each with the object it has in hand, a random source with a fixed seed | opens an object, sleeps, closes it | a failed connection in one loop ends all three; the next run draws the same ids |
| Metrics export | `main.go:157-198`, the views of `webhooks` and `traces` | OpenCensus' | views, Prometheus exporter | libraries; no logic of its own |
| Dashboards, deployment files | `dashboards/`, `docker-compose.yml`, `Dockerfile`, `Makefile` | none | none | configuration |

How they interact: the tool posts a webhook to the URL of its source; the
source validates and parses it into an `Event`, whose methods may fail on what the
payload lacks; the handler asks the event for
its id and state and starts, ends, or ends and starts a span, which it keeps in
the one `BufferedSpans` store that all sources share, so that an event of one
source can name a span of another as parent. `Monitor` samples the store, the
mock tracer's reset empties it, and `waitForShutdown` ends the process under
all of them.

What makes each part correct, in a line: the store keeps its bound and only
leads to live, accepted spans; the handler finishes each span once, by an event
of its own id, and answers what it did; the sources send an end for each start
under the same id, and name parents by ids that their sources use; a lost, late
or repeated webhook or a restart costs its own object at most; a start that
fails closes what it opened, and a signal ends the process; the report misses
nothing silently and keeps to its ticker. `PROJECT.json` lists the hazards one by one at their lines.

## 2. Modules

```
SpanStore ------> Webhook -------> Server          (INSTANCE, EXTENDS)
                    |  implements
                    v
                 SpanTracking
                    |  INSTANCE
                    v
EventSources -> Payloads -> Objects -> Lifecycles -> Deliveries -> Generator
                    |
                    v
                MCWebhook
PullRequestMetrics -> Report                        MC*: instances for TLC

Webhook   -> WebhookProofs -> WebhookAnswerProofs -> WebhookOrderedProofs
                                                              |
Server    -> ServerProofs <-----------------------------------+
Generator -> DeliveriesProofs -> DeliveriesHistoryProofs
Report    -> ReportProofs -> AggregationProofs
```

**SpanStore** (pure): a store is a function from ids to a span or `NoSpan`, each
method one operator, as the mutex makes it one step. `CanSet` keeps the order of
the code: a full store refuses an id that it already holds, and a store with
room replaces silently.

**Webhook**: each request is a process. `pc[r]` names the call that its goroutine
makes next; a step ends where another goroutine can see the store or the
tracer: `Dispatch` (Handler up to the switch), `StartLookup` (parent),
`StartSpan`, `StoreSpan`, `EndLookup`, `FinishSpan`, `DeleteSpan`. A transition
runs the end and then the start, whether or not the end succeeded. A request
starts at most one span, so the span of request `r` is called `r`. The lookup
that `handleEvent` makes for `prevState` has no effect (nobody sets
`StoreEntry.State`, and no `State` uses it) and is part of `Dispatch`. An event
carries a `fault`, which says which of its methods fails or panics; a panic is
an aborted connection, as net/http recovers it.

**SpanTracking** is the contract with no concurrency in it: `Open`, `Refuse`,
`Close` on one open span per id. `Webhook!ImplementsTracking` says that the
handler refines it when the sender of an object's events waits for each answer:
a span is tracked while the store leads to it unfinished, and lost when its
delivery is answered and the store does not lead to it.

**EventSources** (pure): the tables of each Go type, one operator per method. The
strings that these methods read or build are sequences of tokens: a word (a run of
letters and digits) or a mark (any other character). `JoinedId` joins the parts of
an id with dashes, as `strings.Join` does, so that two objects may get one id if a
part has a dash of its own. `Pattern` is the regular expression of `traces.Matches`
over tokens, `Matches` its leftmost and there longest match in a text, whatever
stands around it; `BranchID` cuts off `origin/`. A run of letters that ends in or
goes on after `vstrace` is two words, so that the pattern may begin inside it.
**Payloads** (pure)
says which payloads `Event` refuses, and which method of an event fails or
panics when its payload lacks a field, in the order in which the handler calls
them: `Fault` is the `fault` of Webhook's events, and `MCWebhook` builds its
events from payloads, so that each request of a Webhook run carries what some
source really yields. (`tag`, `parent` and `tags` are also given to a pipeline's
event: the interface lets a source fail there, and the handler must cope.)

An order of checks is an `IF`, where it matters which one comes first
(`Payloads!Fault`, `Lifecycles!EndFails`): the branches of a `CASE` do not exclude
each other.

**Objects** puts a payload to each issue, pull request, build, ...: an object
goes through the statuses that its tool sends (`Successors`, external), each
change yields an event. **Lifecycles** puts objects of several sources side by
side; a delivery runs what `Effects` says, start and end one after the other, on
the spans of SpanTracking. It is the composition that says what happens to an
*object*, where Webhook says what happens to a *request*.

**Deliveries** is its fault model. A webhook is lost, held back while later ones
pass it, or sent again by a sender that missed the answer; ValueStream crashes
and starts again with an empty store; what the tools send in the meantime is lost.
A crash comes before, between or after the start and the end that a handler makes,
not inside one of them, as each is a single step of Lifecycles. Inside a start it
would come after `StartSpan` and before `Set`: a span nobody holds, open for good,
which is what a crash makes of a span that was stored, too. Inside an end it would
come after `Finish` and before `Delete`: a finished span, whose entry goes with the
store. What differs is only whether the handler's client got its answer. `disturbed` remembers the objects to
which one of these happened, `crashed` the spans that a crash took, `boundary`
the last span before it.

**Generator** is `cmd/generatetestdata` as a sender over Deliveries: the three
loops, each with the object in its hand, the fixed seed (a run never draws an
id twice, the next run draws it again), answers whose status nobody reads, and
the panic of one loop that ends all of them. In its scenario it, and not the
tools, decides what changes.

**Server** extends Webhook with the process: the start, one tracer with a
deferred closer after the other; its failures, and the unwinding of the
closers; the listener; the two goroutines of `main`, of which the one that
listens may win over the one that calls `signal.Notify`; a signal at any
moment; the deadline; `Monitor` in two steps; and the reset of the mock tracer
in two steps.

**Report** models the two paging loops with their limits, the ticker, whose
channel holds one tick, the `select`s (a tick and an interrupt may both be
ready), query errors, and the writing of the rows, over a GitHub that lists the
last updated first and whose cursors are positions in that order (external;
`eventsources/github/report.go:122`). A page is the list `FirstOf(S, size)`
describes: a member of a set that always has exactly one, given by what it holds
and in which order, and not by a recursion. **PullRequestMetrics** (pure) is a row and
the aggregation: buckets, totals, what the percentiles are taken of, and
whether a quotient or an average is a number, infinite, or no number. A bucket is
a set of positions in the rows and not a sorted list: `sort.Slice` leaves open
how rows of one time are ordered, and nothing but the first and the last of a
bucket is read by its place. Which one of several last rows that is makes no
difference, as all of a bucket are of one repository and one interval (`BucketIs`
of AggregationProofs).

**MCWebhook**, **MCLifecycles**, **MCServer**, **MCReport** choose the constants.
What a module takes for granted of its constants it assumes by name, and every
run checks it: `WebhookAssumption` (a positive bound; events have ids),
`ServerAssumption`, `LifecyclesAssumption`, `DeliveriesAssumption`, `GeneratorAssumption`
(bounds are numbers), `TokensAssumption` (which
words and marks there are at least), `ObjectsAssumption` (which names two objects cannot
share, that a system's number is a word, and that a payload names a parent only where its
source looks for one),
`ReportAssumption` (GitHub lists no repository twice; page sizes are positive),
`RowsAssumption` (times of pull requests, and counts of lines and comments, are
not negative).
Operators whose comment begins with `Bug:` are mutated forms of the definition
after them; no specification uses them. Each property of a passing run is
violated under one of them (`PROJECT.json`, `mutants`).

## 3. Runs

| Run | Instance | Shows |
|---|---|---|
| `webhook_overlap` | 4 requests, 2 ids, store of 1, all faults | the invariants of the store and of ends, for any interleaving |
| `webhook_ordered` | 5 requests, 2 ids, store of 2, no overlap within an id | finished once, lost only by replacement, no open span dropped, what is lost stays lost, refinement of SpanTracking |
| `webhook_liveness` | 3 requests, no symmetry | the answer is true, an end makes room in a full store, finished spans leave |
| `webhook_latency` | 2 requests | *violation* F1 |
| `lifecycles` | 16 pairs of objects and the generator's 5, store of 2, 5 changes, 6 starts, 1 mishap, 1 crash, 2 runs of the generator | what stays open, is lost, is refused, is ended by whom, hangs under what, is an error; under faults |
| `lifecycles_deploy` | 1 Jenkins deploy, no faults | *violation* F2 |
| `lifecycles_vscli` | 2 vscli events, no faults | *violation* F6 |
| `server` | 2 requests, 1 id, 1 reset, tracers of mock, Jaeger and logging | a failed start closes what it opened, a signal ends the process, the gauge catches up, a quiet reset separates |
| `server_deadline` | 2 requests | *violation* F3 |
| `report` | 3 repositories, 5 pull requests, 2 updates, pages of 1 and 2, limits 0 to 2 | nothing twice, complete, queries keep to the ticker, paging ends, limits of whole pages, the aggregation succeeds and has one aggregate for each row, what is no number stays in its own average |
| `report_limit` | a limit of 1 | *violation* F4 |
| `report_running` | no limit | *violation* F5 |

**What the lifecycles run asks.** `NoSpanOutlivesItsObject` and `WorkIsTracked`
are two halves: when the last webhook says that the work is over, no span of
the object is open, and while it says that there is work, the object's newest
span is open under its id (or was open in a crash), whatever was lost or late
before. `RefusedOnlyWithReason` and `LostOnlyByRestart` list the only reasons
for an end to be refused and for an open span to be lost. `EndsOwnObject`,
`ParentIsMentioned`, `NamedParentIsUsed` and `ErrorMeansFailure` relate the
spans of different objects and the outcome of a build or a custom event. An object
may name its own id (`selfMerge`, `selfJob`): `ParentIsMentioned` says what comes of it.
Whether an id can be found in a text is said by where it stands there and by what it
is made of (`StandsAt`, `Readable`), not by what `Matches` returns.
`GeneratorClosesWhatItOpens` is what makes the generator's data usable: it leaves
nothing open that it has not in hand.

**Paging ends.** The loop over the pages of `PullRequests` stops when GitHub says
that there is no next page; its limit may never be met, and while it runs pull
requests are updated and move in the list. `PagesEnd` bounds the number of pages
by what there is to read when the command begins: a further page is asked for
only where fewer were read than there are. It is an invariant, and so needs no
fairness, which a report that may be interrupted has not.

**Bounds.** Overlap needs three requests to go wrong in the interesting way (a
start, an end that is half way, a second start that replaces its span); a
fourth lets another id or a second end join. Refinement needs a start, its
transition, an end, and a child under its parent: five. A store of one is full
after one start, a store of two lets a parent and a child both be in it. In
Lifecycles five changes suffice for every status to be reached and for
one reopening or retry and the end after it; the sixth start is that of a
repeated webhook. One mishap and one crash are enough for each kind of disorder
by itself and for a crash after it: a lost end before a new start, an end that
passes its start, a start that is repeated after its end, a webhook held back
over a restart. The pairs are chosen so that each kind of object occurs, each
source that names parents has a parent that it can read, of its own source or
another one, and one that it cannot, two objects share their ids as twins and two through a dash, and each missing field occurs once. Two runs of the
generator are what makes it draw an id again. In Report two pages of one
repository, the change of repository and a limit that is reached and one that
is not all occur with three pull requests in one repository; the ticker needs
no bound, as queries are counted from its last tick. In the server run two
requests are enough for one delivery before a signal or reset and one across
it.

**Deadlock** is not checked: every instance stops when its requests, changes or
pages are used up. A handler that never came to its end would violate
`FinishedEventuallyLeaves` and `EndMakesRoom`.

**Symmetry** is used for requests in the two safety runs: no request is named by
a definition, and the refinement that the second one checks has no fairness. It
is never used with a liveness property.

**Fairness.** `Webhook!Fairness`: weak fairness of each handler's next step. The
Go scheduler runs every runnable goroutine, no handler waits for another one,
and the store's mutex is held for a few statements. No request has to arrive.
`ServerFairness`: the same while the process runs, and the deadline of
`context.WithTimeout` passes, `waitForShutdown` returns, and `Monitor`'s ticker
keeps ticking; neither the start, nor a signal, nor `ServeFails` is fair, so
`SignalEndsProcess` (`signalled ~> exit # "running"`) does not lean on the race
of F3. Lifecycles, Deliveries and Generator have no fairness: nobody promises
that an issue is ever closed. Report has no liveness property: its queries
carry no timeout.

## 4. What the code does that its words do not say

Each has a run that TLC must find violated.

* **F1** `http.go:267`: the duration that an event carries is used only if
  `Timings` *failed*; the comment calls it the source of truth.
* **F2** `jenkins/events.go:90`: the span id of a Jenkins event depends on its
  `type` parameter, so an end without parameters finds no span. The
  repository's own trace test sends such an end and expects 200.
* **F3** `main.go:211`: `ListenAndServe` returns when `Shutdown` *begins*, and
  the `log.Fatal` behind it exits with status 1, whatever the deadline.
* **F4** `sources/github.go:111`: `max-prs` is compared for equality, after the
  page was appended, so it bounds only when the page size divides it
  (`WholePagesLimit` holds).
* **F5** `metrics/pullrequests.go:120`: "running" percentiles restart in every
  bucket.
* **F6** `cmd/vscli/main.go:119`: `--parent-event-id` takes an id that the store
  does not use as key.

Other behaviours that the properties name as exceptions, where no word of the
repository contradicts them:

* A GitLab merge request that is merged and a pipeline or job that fails never
  finish their spans (`NeverEnded`); updates of open GitLab objects replace
  their open spans (`LostOnlyByRestart`).
* A closed GitHub event without `closed_at` panics between the lookup and the
  finish, and leaves its span open (`NoSpanOutlivesItsObject`).
* Repositories of the same name under two owners share ids (`Twins`), although the
  comment at `eventsources/github/events.go:39` speaks of GitHub's `Issue.ID`, which
  `SpanID` does not read; so do the objects of two runs of the generator.
* Custom events share an id if their type, namespace and identifier read the same when
  joined with dashes (`Confusable`): a `deploy` in `team-a` and a `deploy-team` in `a`.
  One of them has a dash in its type or its namespace (`Dashed`).
* A Jira issue may go back to the backlog, an end, before any work on it began:
  it is answered 400 (`RefusedOnlyWithReason`).
* In a description the pattern finds no sprint, and no id with anything but letters,
  digits and dashes in its name (`Readable`); an id behind another one, or one that a
  letter, a digit or a dash follows (`StandsAt`). Jenkins takes a branch for the id only
  if it is that, or `origin/` and that (`NamesByText`).
* A merge request that has its own id in its description hangs, at each update, under
  its span of before, which is lost at the same moment (`ParentIsMentioned`).
* A pull request updated while a report is fetched may be missing from it
  (`ReportComplete`); the first query for pull requests does not wait after the
  last one for repositories (`QueriesSpaced`); one pull request without changed
  lines makes the average duration per line of its aggregate infinite
  (`AveragesAreNumbers`).
* Overlapping deliveries of one id may finish a span twice or delete the entry
  of a newer one, which is why `FinishedOnce` and `NeverDropsOpenSpan` are checked
  with ordered senders only.
* Neither `os.Exit` nor `log.Fatal` runs the deferred closers of the tracers, so
  what they buffer at a regular end is not flushed (`FailedStartClosesAll` says
  when closers run: after a failed start, and at no other time).

## 5. Proofs

39 theorems over four specifications (Webhook, Server, Generator with what it
extends, Report), each for any value of its constants: any
sets of requests, ids, events, objects and payloads, any bounds, page sizes and
limits, and any interleaving, mishaps and crashes. Beside the named assumptions
of section 2 some have a hypothesis, which the table gives and which is
explained below. An invariant is rarely inductive alone; what it needs beside
it is named, and its parts were model-checked on the instances of section 3
before they were proved.

| Theorem | Property | Hypothesis |
|---|---|---|
| *WebhookProofs* `TypeCorrect` | `TypeOK` | |
| `BoundHolds` | `StoreBounded` | |
| `StoreIsSound` | `StoreHoldsAcceptedSpans` | |
| `EndsAreIsolated` | `EndsOwnSpan` | |
| `NoFinishedSpanStays` | `FinishedLeavesStore` | |
| *WebhookAnswerProofs* `AnswersAreTrue` | `AnswerMatchesEffect` | |
| `OpenSpansAreKept` | `OpenSpanAccountedFor` | |
| *WebhookOrderedProofs* `FinishesOnce` | `FinishedOnce` | `~SameIdOverlap` |
| `LosesOnlyByReplacement` | `LostOnlyByReplacement` | `~SameIdOverlap` |
| `DropsNoOpenSpan` | `NeverDropsOpenSpan` (action) | `~SameIdOverlap` |
| `WebhookImplementsTracking` | `ImplementsTracking` (refinement) | `~SameIdOverlap` |
| `LostStaysLost` | `LostForGood` (action) | `~SameIdOverlap` |
| *ServerProofs* `ServerTypeCorrect` | `ServerTypeOK` | |
| `QuietResetSeparates` | `ResetSeparates` | |
| `StartUnwinds` | `FailedStartClosesAll` | |
| `HandlersSurviveResets` | the bound, own spans, finished spans and answers of Webhook, under resets | |
| `ProcessFinishesOnce` | `FinishedOnce` of the whole process, under resets | `~SameIdOverlap` |
| `ProcessImplementsTracking` | `ImplementsTracking`, `FinishedOnce`, `NeverDropsOpenSpan`, `LostForGood` of the whole process | `~SameIdOverlap`; a tracer that is not the mock |
| *DeliveriesProofs* `SystemTypeCorrect` | `GeneratorTypeOK` | |
| `SameIdMeansTwins` | two objects share a span id only as twins, or as custom events one of which has a dash in its type or namespace | |
| `EventsEndTheirObject` | `EndsOwnObject` | |
| `ParentsAreMentioned` | `ParentIsMentioned` | |
| `NamedParentsAreUsed` | `NamedParentIsUsed` (action) | |
| *DeliveriesHistoryProofs* `NothingOutlivesItsObject` | `NoSpanOutlivesItsObject` | `SameTypes` |
| `WorkStaysTracked` | `WorkIsTracked` | |
| `ErrorsAreFailures` | `ErrorMeansFailure` | |
| `ReplacedOnlyWithReason` | `LostOnlyByRestart` | |
| `EndsAreRefusedWithReason` | `RefusedOnlyWithReason` | `SameTypes` |
| `GeneratorLeavesNothingOpen` | `GeneratorClosesWhatItOpens` | `SameTypes`, `DrawnEnd` |
| *ReportProofs* `ReportTypeCorrect` | `TypeOK` | |
| `LimiterHolds` | `QueriesSpaced` | |
| `NothingIsReadTwice` | `NothingTwice` | `NoRepoTwice` |
| `WrittenReportsAreComplete` | `ReportComplete` | `NoRepoTwice` |
| `WholePagesKeepTheLimit` | `WholePagesLimit` | `NoRepoTwice` |
| `PagingEnds` | `PagesEnd` | |
| `QueriesHaveOneAnswer` | `FirstOf` has exactly one member whenever a page is asked for | |
| *AggregationProofs* `AggregationNeverFails` | `AggregationSucceeds` | |
| `RowsArePartitioned` | `AggregatesPartition` | |
| `AveragesStayNumbers` | `AveragesAreNumbers` | |

**The hypotheses.** Each holds on the instances that check its property.
`~SameIdOverlap`: a sender waits for the answer to one event of an object before it
sends the next one of that object; without it the properties are false (section
4). Different objects still interleave freely. `SameTypes`: the parameters of a
Jenkins build, and the type of a custom event, are the same at its end as at its
start; F2 is what happens otherwise. `DrawnEnd`: no payload that the
generator draws has the time of its start without the one of its end, which
makes `Timings` panic; its payloads have neither. `NoRepoTwice`: no
command line lists a repository twice; one that did would collect it twice.

**The handlers** (WebhookProofs). *Types:* a step reads `event[r].id`, so `TypeOK` needs
that a request that has arrived carries an event (`EventKept`). *The bound:*
`CountInv` adds that the stored ids are finitely many; there may be infinitely
many ids. `StoredAfterSet` and `StoredAfterDelete` say what one call does to the
keys; the step is then arithmetic on cardinalities: the code tests `==`, which is
enough only because the bound was never passed before. *The spans:* the other
three need one another. `SpansInv` says beside them what a handler may rely on
between two calls: a request is answered only when it is done; one at an end
step carries an end or a transition; a span about to be stored was started; and
`HoldsOwnSpan`, the heart: the entry that an end looked up is an accepted span of
its own id, and remains so whatever others store, finish or delete in between.
It holds because a span's id and answer never change once it is stored.
`FinishedLeavesStore` needs it at `DeleteSpan`, which removes by id: another
handler that finished the same span holds the same id. One lemma per kind of
step (local, lookup, store, finish, delete).

**Their answers** (WebhookAnswerProofs). Both theorems follow from what a request
has done so far, which is a matter of that request alone: `RequestInv(r)` says for
each value of `pc[r]` what `r` counted, whether it started a span and whether it
finished one. So the proof of a step has two halves: the request that makes it,
by the kind of step, and all others, of which nothing changes. `OpenSpanAccountedFor`
is preserved step by step: what leaves the store is taken by a delivery of the
same id, which is the exception the property names.

**Ordered senders** (WebhookOrderedProofs). `OrderedInv` is `OneInFlight` (two
unanswered requests have different ids, from `Receive`'s guard), `EndsCurrent` (what an end
looked up is still stored, and only this end has finished it), `FinishedByOne`
and `LostOnlyByReplacement`. `OthersKeepCurrent` is the lemma that makes it
inductive: a handler of another id does not touch the entry. The action property
`NeverDropsOpenSpan` follows from `EndsCurrent` at `DeleteSpan`.

**Refinement** (WebhookOrderedProofs). The mapping: `Tracked` is the store without
the spans that are finished already, `FinishedSpans` those that some request
finished, `Lost` the open spans whose delivery is answered and to which the store
does not lead. `Init` maps to `Init`; `StartSpan` to a refusal where the tags fail,
`StoreSpan` to `Open` or, with a full store, to `Refuse`; `FinishSpan` is `Close`, as
the entry stops being tracked when it is finished; `DeleteSpan`, and every step
that leaves spans alone, is a stutter. `TrackedFewerThanBound` carries the guard of
`Open` over: what is tracked injects into what is stored. `LostForGood` is a use of
the refinement: no step of SpanTracking takes a span out of `lost`, so no handler
comes back to one that the store has given up (`TrackingKeepsLost`), although
handlers keep entries that they looked up earlier.

**The process** (ServerProofs). `ServerInv` is the handlers' invariant (`HandlerInv`,
of which the lemmas of Webhook are reused for every step that is one of
Webhook's), `ClosersInv` (which tracers are open is a prefix of the sources; closers
run backwards from its end and only before any handler has begun) and `ResetInv`
(while a reset is quiet nothing is listed and no handler is under way; what was
started before it is in no handler's hands). `DeleteAll` between any two steps
keeps `HandlerInv` because nothing in it says that an accepted span is stored.

What ordered senders get is proved of the process too. With a real tracer
`ResetTracer` never runs (`NeverReset`), each step of the process is a step of a
handler or none that a handler sees (`StepsAreHandlers`), and all that
WebhookOrderedProofs says of Webhook carries over. With the mock tracer a reset
loses open spans, which is its purpose, but does not make one finish twice: it
takes the entry away from an end that has looked it up, and gives it to nobody
else. `EndsCurrent` is false then, and `OnceInv` says what is left of it: what an end
has in hand is unfinished. A lookup establishes it with `FinishedLeavesStore` and
`OneInFlight`, neither of which a reset disturbs.

**Objects** (DeliveriesProofs). `SystemInv` holds for any objects and faults: the
types; which step of which plan a delivery is at (`DeliveryInv`); that a started
span is in exactly one place, found under one id of its object, finished, or
lost (`PlacesInv`); that spans are numbered in the order of their starts, with
parents before children and the two sides of a crash apart (`OrderInv`). The
lemma it rests on is about the id tables, `SameIdMeansTwins`: of two equal strings
joined from parts, the parts before the first dash are equal if they have none
(`FirstDash`), and those after the last one (`LastDash`); the source and the type are
words, and so is a number but for a custom event's, which is why only those can be
confused. `StepCases` reduces the steps of tools,
network, process and generator to: an object's event arrives, is missed or is
repeated; a start; an end; a crash; nothing. `PlacesInv` also says that a stored span
is found under the id that its object starts with (`StartId`), which is the id that
the payload of a child has.

*Parents:* `ParentsInv` follows from the other direction of the pattern, `MatchesIsIn`:
what it extracts stands in the text. A span whose parent is of its own object has that
one's id for its own, so it takes its place or is refused. For `NamedParentIsUsed`,
`ReadableIsMatched` says that the leftmost longest match is the id of a readable object
wherever the id stands: `IdPositions` says which token of it is which part,
`MatchesWhatStands` that a match can neither begin earlier, as there is no `vstrace`
before it, nor end earlier or later, as the character behind the id is none that the
last part takes. That a leftmost longest match exists is `LeftmostLongest`, by the
least member of a set.

**Histories** (DeliveriesHistoryProofs). One invariant per property, each relating
where an object is in its own system, what was delivered of it last, and where
its spans are: `ReadableInv` and `EndedInv` (an end that was handled leaves nothing
open), `WorkInv` (a start that was handled leaves the newest span open), `SentInv`
and `ErrorInv` (no event follows the one that says an object went wrong),
`RestartInv` and `LostInv` (where no reason of the list applies, nothing is open when
a start arrives), `SteadyInv` (while nothing went wrong with an object, its work
has an open span, so that its end is accepted), `LoopsInv` (what a loop has in
hand, where each loop is). The order of the statuses enters by one lemma,
`StepsFollow`, which goes through `Successors` kind by kind.

**The report** (ReportProofs). `Shape` is the type invariant with where the
variables may be at each `pc`. *Pace:* `PaceInv` counts the queries since the last
tick; its hard case is the one without a wait, from the last page of
repositories to the first of pull requests, after which it takes two waits
until the count is back (`Hurried(2)`, `Hurried(3)`, `Unhurried`). *Twice:* what was
collected of the repository being visited was updated at the cursor or later
(`Behind`), and a page holds what was updated before. *Complete:* what was not
updated meanwhile was read or comes after the cursor (`Passed`), and all pages
but the last are full (`FullPages`), so that the page number says how much was
read. *Limit:* then a multiple of the page size is met exactly; the lemmas
`OnePageMore` and `NextPageFits` are the arithmetic. *End:* what was read of a
repository and what its next page is taken from are together never more than it
has (`NeverMore`), since a page moves at least its size from the one to the other
(`PageTakesItsSize`) and an update only takes away from what comes
(`UpdateAddsNothing`). *One answer:* if there were lengths for which no list of the
last updated exists, the least of them would be one more than a length for which
one does, and that list can be extended by the last updated of the others
(`OneMore`); two such lists would differ at a least place, where they hold the
same. These are inductions in the form in which the provers take them, by the
least member of a set (`LeastNumber`, from the library's `WFMin`).

**The aggregation** (AggregationProofs). It needs no more of the run than that the rows
written are rows of pull requests (`Shape`). `IntervalHolds`: a time lies in its
interval, and all times of an interval have the same beginning. So all rows of a
bucket have one repository and one beginning (`BucketIs`), its aggregate names
exactly its rows (`AggregateNames`), and two buckets have no row in common. For the
percentiles: `InPercentiles` asks the time of a row, `HasPercentiles` the beginning of
the interval of the last one, which is not later; so a bucket of which
percentiles are asked has at least that row for them (`NoBucketFails`).

**Only model-checked.** Every liveness property (`EndMakesRoom`,
`FinishedEventuallyLeaves`, `SignalEndsProcess`, `GaugeCatchesUp`), as liveness under
fairness is beyond the prover; and the violations F1 to F6, which are
counterexamples. Every invariant and every action property that a run checks is
proved.

## 6. Not modelled

* Signatures, JSON and the HTTP libraries: only whether a payload is accepted. No
  source is configured with a secret, so no signature is ever looked at.
* Tags and operation names as text; tag values that a tracer receives, but for
  `error` and for what makes `Tags` or `tag.New` fail.
* Vendor tracers: which constructors fail and which closers run is modelled, what
  a tracer buffers is not.
* The OpenCensus views and the Prometheus exporter. `Monitor` records its two
  measures, but `main` registers no view of them (`main.go:157-198`), so `gauge`
  is what is recorded, not what is exported.
* Time: latencies are a source ("event" or "stored"), waits are steps.
* `traces.Spans`, the unbounded store, which no program constructs.
* The values of averages and percentiles and their rounding (floating point).
* `vscli`'s flags and client: only the events that it sends. `vsperformancereport`'s
  flags and file formats.
* Dashboards and deployment files: configuration.

## 7. Plan

Done, in this order: SpanStore, Webhook, SpanTracking and the refinement;
WebhookProofs; EventSources and Lifecycles; Server; Report; Payloads and the
events of Webhook from them; Deliveries, with restart; Generator; the start and
the closers in Server; the ticker and the averages in Report; then the proofs of
section 5: answers, ordered senders, the refinement, Server, Deliveries, Report,
the aggregation, the end of paging, and the contract of ordered senders for the
whole process; strings as tokens, with the ids joined and the pattern of `traces.Matches`
matched over them.

Left to model: vscli as a process, an event that is started, and ended with the id
that was printed.

That Lifecycles implements SpanTracking is not worth a theorem: its steps are the
actions of SpanTracking, and a crash, which empties the store, is none of them.

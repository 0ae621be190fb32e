------------------------------- MODULE Webhook -------------------------------
(***************************************************************************)
(* webhooks.Webhook (eventsources/webhooks/http.go): the handler that      *)
(* turns the events of a source into spans.  net/http runs one goroutine   *)
(* per request; the goroutines share the span store and the tracer.        *)
(*                                                                         *)
(* A request is a process: pc[r] says which call its goroutine makes next, *)
(* and a step ends where another goroutine can be seen or can see it (a    *)
(* call of the store or of the tracer).  A request starts at most one      *)
(* span, so the span that request r starts is itself called r.             *)
(***************************************************************************)
EXTENDS Integers, FiniteSets

CONSTANTS
    Request,          \* the deliveries, each one run of Handler
    Id,               \* span ids
    NoId,             \* the nil *string of ParentSpanID
    NoSpan,           \* a nil *StoreEntry
    MaxAllowedSpans,  \* the bound of the store
    Events,           \* the events a delivery may carry
    SameIdOverlap     \* may two deliveries of one id be in flight together?

S == INSTANCE SpanStore WITH Span <- Request

States == {"start", "end", "transition", "ignored"}

(***************************************************************************)
(* What can go wrong with an event, a function of its payload alone (see   *)
(* Payloads):                                                              *)
(*   malformed    ValidatePayload, Event, SpanID or State returns an error *)
(*   panic        State dereferences a nil field                           *)
(*   tag          IsError or tag.New returns an error (an operation name   *)
(*                that is no tag value)                                    *)
(*   parent       ParentSpanID does                                        *)
(*   parentPanic  ParentSpanID dereferences a nil field                    *)
(*   timings      Timings does                                             *)
(*   tags         Tags returns an error                                    *)
(*   tagsPanic    Tags dereferences a nil field                            *)
(***************************************************************************)
Faults == {"none", "malformed", "panic", "tag", "parent", "parentPanic", "timings",
           "tags", "tagsPanic"}

\* EventTimings and its error, as far as handleEndEvent looks at them.
TimingsResults == [err : BOOLEAN, duration : BOOLEAN]

EventRecords == [id : Id, state : States, parent : Id \cup {NoId},
                 fault : Faults, timings : TimingsResults]

ASSUME WebhookAssumption ==
    /\ NoSpan \notin Request
    /\ NoId \notin Id
    /\ MaxAllowedSpans \in Nat \ {0}
    /\ Events \subseteq EventRecords
    /\ SameIdOverlap \in BOOLEAN

NoEvent == [id |-> NoId]

VARIABLES
    pc,          \* the call the request's goroutine makes next
    event,       \* the event it carries
    entry,       \* the *StoreEntry it last looked up
    spans,       \* the span store
    started,     \* the spans that the tracer has started
    parentOf,    \* the ChildOf reference of a span
    finishedBy,  \* the requests that called Finish on a span
    counted,     \* the measures EventStartCount, EventEndCount a request recorded
    latency,     \* where the EventLatencyMs a request recorded came from
    response     \* what its client sees

tracer == <<started, parentOf, finishedBy>>
stats == <<counted, latency>>
vars == <<pc, event, entry, spans, tracer, stats, response>>

Labels == {"new", "dispatch", "startLookup", "startSpan", "store",
           "endLookup", "finish", "delete", "done"}

TypeOK ==
    /\ pc \in [Request -> Labels]
    /\ event \in [Request -> Events \cup {NoEvent}]
    /\ entry \in [Request -> Request \cup {NoSpan}]
    /\ spans \in S!Stores
    /\ started \subseteq Request
    /\ parentOf \in [Request -> Request \cup {NoSpan}]
    /\ finishedBy \in [Request -> SUBSET Request]
    /\ counted \in [Request -> SUBSET {"start", "end"}]
    /\ latency \in [Request -> {"none", "event", "stored"}]
    /\ response \in [Request -> {"none", "200", "400", "aborted"}]

Init ==
    /\ pc = [r \in Request |-> "new"]
    /\ event = [r \in Request |-> NoEvent]
    /\ entry = [r \in Request |-> NoSpan]
    /\ spans = S!EmptyStore
    /\ started = {}
    /\ parentOf = [r \in Request |-> NoSpan]
    /\ finishedBy = [r \in Request |-> {}]
    /\ counted = [r \in Request |-> {}]
    /\ latency = [r \in Request |-> "none"]
    /\ response = [r \in Request |-> "none"]

InFlight(r) == pc[r] \notin {"new", "done"}

Goto(r, label) == pc' = [pc EXCEPT ![r] = label]

\* The handler returns: success, http.Error, or a panic that net/http
\* recovers by closing the connection.
Answer(r, code) ==
    /\ Goto(r, "done")
    /\ response' = [response EXCEPT ![r] = code]

Measure(r, measure) == counted' = [counted EXCEPT ![r] = @ \cup {measure}]

IsTransition(r) == event[r].state = "transition"

-----------------------------------------------------------------------------
\* A delivery arrives.  Without SameIdOverlap its sender waits for the answer
\* to one event of an object before it sends the object's next one.
Receive(r) ==
    /\ pc[r] = "new"
    /\ \E e \in Events :
         /\ ~SameIdOverlap => \A q \in Request : InFlight(q) => event[q].id # e.id
         /\ event' = [event EXCEPT ![r] = e]
    /\ Goto(r, "dispatch")
    /\ UNCHANGED <<entry, spans, tracer, stats, response>>

\* Handler, up to handleEvent's switch.  The entry that handleEvent looks up
\* only yields prevState, and no caller ever sets StoreEntry.State: the
\* state of an event does not depend on the store.
Dispatch(r) ==
    /\ pc[r] = "dispatch"
    /\ \/ event[r].fault = "malformed" /\ Answer(r, "400")
       \/ event[r].fault = "panic" /\ Answer(r, "aborted")
       \/ /\ event[r].fault \notin {"malformed", "panic"}
          /\ \/ event[r].state = "ignored" /\ Answer(r, "200")
             \/ event[r].state = "start" /\ Goto(r, "startLookup") /\ UNCHANGED response
             \/ event[r].state \in {"end", "transition"} /\ Goto(r, "endLookup")
                /\ UNCHANGED response
    /\ UNCHANGED <<event, entry, spans, tracer, stats>>

\* handleStartEvent up to the lookup of the parent.
StartLookup(r) ==
    /\ pc[r] = "startLookup"
    /\ IF event[r].fault = "tag"
       THEN Answer(r, "400") /\ UNCHANGED <<entry, counted>>
       ELSE /\ Measure(r, "start")
            /\ IF event[r].fault \in {"parent", "parentPanic"}
               THEN /\ Answer(r, IF event[r].fault = "parent" THEN "400" ELSE "aborted")
                    /\ UNCHANGED entry
               ELSE /\ entry' = [entry EXCEPT ![r] =
                                   IF event[r].parent = NoId THEN NoSpan
                                   ELSE S!Get(spans, event[r].parent)]
                    /\ Goto(r, "startSpan")
                    /\ UNCHANGED response
    /\ UNCHANGED <<event, spans, tracer, latency>>

\* tracer.StartSpan, then the tags.  When they fail the span stays started
\* and nobody holds it any more.
StartSpan(r) ==
    /\ pc[r] = "startSpan"
    /\ started' = started \cup {r}
    /\ parentOf' = [parentOf EXCEPT ![r] = entry[r]]
    /\ \/ event[r].fault = "tags" /\ Answer(r, "400")
       \/ event[r].fault = "tagsPanic" /\ Answer(r, "aborted")
       \/ event[r].fault \notin {"tags", "tagsPanic"} /\ Goto(r, "store")
          /\ UNCHANGED response
    /\ UNCHANGED <<event, entry, spans, finishedBy, stats>>

\* Bug: the span is put into the map before the bound is looked at.
StoreSpan_InsertFirst(r) ==
    /\ pc[r] = "store"
    /\ spans' = S!Set(spans, event[r].id, r)
    /\ Answer(r, IF S!CanSet(spans) THEN "200" ELSE "400")
    /\ UNCHANGED <<event, entry, tracer, stats>>

\* Bug: the error of Set is dropped.
StoreSpan_ErrorDropped(r) ==
    /\ pc[r] = "store"
    /\ spans' = IF S!CanSet(spans) THEN S!Set(spans, event[r].id, r) ELSE spans
    /\ Answer(r, "200")
    /\ UNCHANGED <<event, entry, tracer, stats>>

\* Spans.Set, and the end of handleStartEvent.
StoreSpan(r) ==
    /\ pc[r] = "store"
    /\ \/ /\ S!CanSet(spans)
          /\ spans' = S!Set(spans, event[r].id, r)
          /\ Answer(r, "200")
       \/ /\ ~S!CanSet(spans)
          /\ Answer(r, "400")
          /\ UNCHANGED spans
    /\ UNCHANGED <<event, entry, tracer, stats>>

\* Bug: a missing span is only logged for every event.
EndFailed_OnlyLogged(r) ==
    \/ IsTransition(r) /\ Goto(r, "startLookup") /\ UNCHANGED response
    \/ ~IsTransition(r) /\ Answer(r, "200")

\* handleEvent goes on after an end that failed: a transition only logs the
\* error and starts the next span.
EndFailed(r) ==
    \/ IsTransition(r) /\ Goto(r, "startLookup") /\ UNCHANGED response
    \/ ~IsTransition(r) /\ Answer(r, "400")

\* Bug: the end looks up the span of the event's parent.
EndLookup_OfParent(r) ==
    /\ pc[r] = "endLookup"
    /\ Measure(r, "end")
    /\ LET found == IF event[r].parent = NoId THEN NoSpan ELSE S!Get(spans, event[r].parent)
       IN  /\ entry' = [entry EXCEPT ![r] = found]
           /\ IF found = NoSpan
              THEN EndFailed(r)
              ELSE Goto(r, "finish") /\ UNCHANGED response
    /\ UNCHANGED <<event, spans, tracer, latency>>

\* Bug: the nil entry is not looked for.
EndLookup_Unchecked(r) ==
    /\ pc[r] = "endLookup"
    /\ Measure(r, "end")
    /\ entry' = [entry EXCEPT ![r] = [span |-> S!Get(spans, event[r].id)]]
    /\ Goto(r, "finish")
    /\ UNCHANGED <<event, spans, tracer, latency, response>>

\* handleEndEvent up to the lookup of the span.
EndLookup(r) ==
    /\ pc[r] = "endLookup"
    /\ IF event[r].fault = "tag"
       THEN EndFailed(r) /\ UNCHANGED <<entry, counted>>
       ELSE /\ Measure(r, "end")
            /\ entry' = [entry EXCEPT ![r] = S!Get(spans, event[r].id)]
            /\ IF S!Get(spans, event[r].id) = NoSpan
               THEN EndFailed(r)
               ELSE Goto(r, "finish") /\ UNCHANGED response
    /\ UNCHANGED <<event, spans, tracer, latency>>

\* The condition of handleEndEvent: err != nil && timings.Duration != nil.
LatencySource(timings) ==
    IF timings.err /\ timings.duration THEN "event" ELSE "stored"

\* Timings, the latency measure, SetTag("error") and Finish on the entry
\* that was looked up, whoever finished or replaced it since.
FinishSpan(r) ==
    /\ pc[r] = "finish"
    /\ \/ /\ event[r].fault = "timings"
          /\ Answer(r, "aborted")
          /\ UNCHANGED <<latency, finishedBy>>
       \/ /\ event[r].fault # "timings"
          /\ latency' = [latency EXCEPT ![r] = LatencySource(event[r].timings)]
          /\ finishedBy' = [finishedBy EXCEPT ![entry[r]] = @ \cup {r}]
          /\ Goto(r, "delete")
          /\ UNCHANGED response
    /\ UNCHANGED <<event, entry, spans, started, parentOf, counted>>

\* Bug: a transition leaves the old entry for the new span to replace.
DeleteSpan_KeptByTransition(r) ==
    /\ pc[r] = "delete"
    /\ \/ IsTransition(r) /\ Goto(r, "startLookup") /\ UNCHANGED <<spans, response>>
       \/ /\ ~IsTransition(r)
          /\ spans' = S!Delete(spans, event[r].id)
          /\ Answer(r, "200")
    /\ UNCHANGED <<event, entry, tracer, stats>>

\* Bug: the id of the parent is deleted.
DeleteSpan_OfParent(r) ==
    /\ pc[r] = "delete"
    /\ spans' = S!Delete(spans, event[r].parent)
    /\ \/ IsTransition(r) /\ Goto(r, "startLookup") /\ UNCHANGED response
       \/ ~IsTransition(r) /\ Answer(r, "200")
    /\ UNCHANGED <<event, entry, tracer, stats>>

\* Spans.Delete by id: whatever span the id holds by now.
DeleteSpan(r) ==
    /\ pc[r] = "delete"
    /\ spans' = S!Delete(spans, event[r].id)
    /\ \/ IsTransition(r) /\ Goto(r, "startLookup") /\ UNCHANGED response
       \/ ~IsTransition(r) /\ Answer(r, "200")
    /\ UNCHANGED <<event, entry, tracer, stats>>

Handle(r) ==
    \/ Dispatch(r) \/ StartLookup(r) \/ StartSpan(r) \/ StoreSpan(r)
    \/ EndLookup(r) \/ FinishSpan(r) \/ DeleteSpan(r)

Next == \E r \in Request : Receive(r) \/ Handle(r)

\* A goroutine is scheduled until its handler returns.  No client has to send.
Fairness == \A r \in Request : WF_vars(Handle(r))

Spec == Init /\ [][Next]_vars /\ Fairness

-----------------------------------------------------------------------------
Finished(s) == finishedBy[s] # {}

Open(s) == s \in started /\ ~Finished(s)

\* NewBufferedSpanStore's promise: however the handlers interleave, the store
\* never holds more spans than it was made for.
StoreBounded == S!Count(spans) <= MaxAllowedSpans

\* The store only ever leads to a span of the id it is stored under, and only
\* to one whose own delivery was accepted: a start that was refused half way
\* (its tags, a full store) left nothing behind that a later event could find.
StoreHoldsAcceptedSpans ==
    \A i \in S!Stored(spans) :
        LET s == spans[i] IN
        /\ s \in started
        /\ event[s].id = i
        /\ response[s] = "200"

\* An end event finishes a span of its own id and of an accepted start, also
\* when the entry it looked up was deleted or replaced in the meantime.
EndsOwnSpan ==
    \A s, r \in Request : r \in finishedBy[s] =>
        /\ event[r].id = event[s].id
        /\ event[r].state \in {"end", "transition"}
        /\ response[s] = "200"

\* handleEndEvent finishes first and deletes second.  Between the two calls a
\* finished span can be looked up again, but only while every handler that
\* finished it still has its Delete before it: no finished span stays.
FinishedLeavesStore ==
    \A i \in S!Stored(spans) : \A r \in finishedBy[spans[i]] : pc[r] = "delete"

\* ... and in the end it is gone: no finished span takes up one of the
\* MaxAllowedSpans places for ever.
FinishedEventuallyLeaves ==
    \A i \in Id, s \in Request :
        (spans[i] = s /\ Finished(s)) ~> (spans[i] # s)

\* What the client is told is what was done: success for a start says that its
\* span was started and counted, for an end that it finished a span, for an
\* ignored event that nothing happened; an end that was refused finished none.
\* EventEndCount keeps "track of all event end requests", missing span or not.
AnswerMatchesEffect ==
    \A r \in Request :
        LET ended == \E s \in Request : r \in finishedBy[s]
            begun == r \in started /\ "start" \in counted[r]
        IN  /\ response[r] = "200" =>
                 CASE event[r].state = "start"      -> begun /\ ~ended
                   [] event[r].state = "transition" -> begun
                   [] event[r].state = "end"        -> ended /\ r \notin started
                   [] event[r].state = "ignored"    -> ~ended /\ counted[r] = {}
            /\ response[r] = "400" /\ event[r].state = "end" => ~ended
            /\ /\ pc[r] = "done" /\ event[r].state \in {"end", "transition"}
               /\ event[r].fault \notin {"malformed", "panic", "tag"}
               => "end" \in counted[r]

\* An accepted span that is still open can be found under its id, unless
\* another delivery of the same id replaced it or deleted it: the events of
\* other ids, however they interleave with it, never cost it its entry.
OpenSpanAccountedFor ==
    \A s \in Request :
        Open(s) /\ response[s] = "200" =>
            \/ spans[event[s].id] = s
            \/ \E q \in Request \ {s} :
                 /\ event[q].id = event[s].id
                 /\ \/ q \in started /\ response[q] = "200"
                    \/ pc[q] # "delete" /\ \E t \in Request : q \in finishedBy[t]

\* handleEndEvent's comment: "If there's timing on the event than this should
\* be treated as the "source-of-truth" since it comes from the event source".
LatencyIsSourceOfTruth ==
    \A r \in Request :
        latency[r] # "none" /\ ~event[r].timings.err /\ event[r].timings.duration =>
            latency[r] = "event"

\* A full store refuses every start, also of an id that it holds.  It is not stuck:
\* an end or a transition that is about to look up a stored entry makes room,
\* whoever else ends, replaces or refuses spans meanwhile, and whatever becomes of
\* the transition's own start.  Only Timings may keep it from doing so, by a panic.
EndMakesRoom ==
    \A r \in Request :
        /\ pc[r] = "endLookup" /\ event[r].fault \notin {"tag", "timings"}
        /\ spans[event[r].id] # NoSpan
        /\ ~S!CanSet(spans)
        ~> S!CanSet(spans)

-----------------------------------------------------------------------------
(***************************************************************************)
(* With ~SameIdOverlap, a sender that waits for the answer before it sends *)
(* the next event of the same object (events of different ids still        *)
(* interleave freely), a stronger contract holds.                          *)
(***************************************************************************)

\* No span is reported to the tracing backend twice.
FinishedOnce == \A s \in Request : Cardinality(finishedBy[s]) <= 1

\* An accepted span stays findable until it is finished or until a later
\* accepted start of its id replaces it (Set overwrites without finishing).
LostOnlyByReplacement ==
    \A s \in Request :
        Open(s) /\ response[s] = "200" /\ spans[event[s].id] # s =>
            \E q \in started \ {s} : event[q].id = event[s].id /\ response[q] = "200"

\* Delete never takes an open span out of the store.
NeverDropsOpenSpan ==
    [][\A i \in S!Stored(spans) : spans'[i] = NoSpan => Finished(spans[i])]_vars

\* An open span that is in no handler's hands and that the store does not lead to.
Unreachable(s) == Open(s) /\ pc[s] = "done" /\ spans[event[s].id] # s

\* A span that is lost stays lost, open for ever in the tracing backend: no end
\* that looked it up earlier finishes it late, and no later event finds it again.
LostForGood == [][\A s \in Request : Unreachable(s) => Unreachable(s)']_vars

\* The promise of the whole handler: see SpanTracking.
Tracking == INSTANCE SpanTracking WITH
    Span <- Request,
    tracked <- [i \in Id |-> IF spans[i] \in Request /\ Finished(spans[i])
                             THEN NoSpan ELSE spans[i]],
    finished <- {s \in Request : Finished(s)},
    lost <- {s \in Request : Unreachable(s)}

ImplementsTracking == Tracking!Spec

=============================================================================

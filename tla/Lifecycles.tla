----------------------------- MODULE Lifecycles -----------------------------
(***************************************************************************)
(* Issues, pull requests, builds, ... change in their own systems, each    *)
(* change is delivered as a webhook of its event source, and the webhook   *)
(* handler tracks spans as SpanTracking says (Webhook implements it when   *)
(* the events of one object are not delivered on top of each other).       *)
(***************************************************************************)
EXTENDS Objects, Integers, FiniteSets

CONSTANTS
    MaxAllowedSpans,
    MaxChanges,       \* bound: how often the objects change
    MaxStarts         \* bound: one start for each change, and for each repeated webhook

NoObject == "none"

\* Span number n is the n-th span that the tracer started.
Span == 1 .. MaxStarts
NoSpan == 0

ASSUME LifecyclesAssumption ==
    MaxAllowedSpans \in Nat /\ MaxChanges \in Nat /\ MaxStarts \in Nat /\ NoObject \notin Objects

VARIABLES
    live,      \* the objects of this behaviour
    status,    \* of each object, in its own system
    changes,   \* how many changes there were
    event,     \* the event of its last delivery
    todo,      \* what that delivery still has to do
    answer,    \* the answer to its last delivery
    tracked, finished, lost,   \* see SpanTracking
    about,     \* the object a span was started for
    parent,    \* its parent span
    closedBy,  \* the object whose event finished it
    failed,    \* the spans finished with the tag error = true
    refused    \* the spans that found the store full

spanVars == <<tracked, finished, lost, about, parent, closedBy, failed, refused>>
deliveryVars == <<event, todo, answer>>
vars == <<live, status, changes, deliveryVars, spanVars>>

T == INSTANCE SpanTracking WITH Id <- Ids

TypeOK ==
    /\ live \in Scenarios
    /\ status \in [live -> AllStatuses]
    /\ changes \in 0 .. MaxChanges
    /\ event \in [live -> Events]
    /\ todo \in [live -> {<<>>, <<"start">>, <<"end">>, <<"end", "start">>}]
    /\ answer \in [live -> {"none", "200", "400", "aborted"}]
    /\ tracked \in [DOMAIN tracked -> Span \cup {NoSpan}] /\ DOMAIN tracked \subseteq Ids
    /\ finished \subseteq Span /\ lost \subseteq Span
    /\ failed \subseteq finished /\ refused \subseteq lost
    /\ about \in [Span -> live \cup {NoObject}]
    /\ parent \in [Span -> Span \cup {NoSpan}]
    /\ closedBy \in [Span -> live \cup {NoObject}]

Init ==
    /\ live \in Scenarios
    /\ status = [o \in live |-> "none"]
    /\ changes = 0
    /\ event = [o \in live |-> EventOf[o]["none"]]
    /\ todo = [o \in live |-> <<>>]
    /\ answer = [o \in live |-> "none"]
    /\ tracked = [i \in {e.id : e \in {e \in Events : e.object \in live}} |-> NoSpan]
    /\ finished = {} /\ lost = {}
    /\ about = [s \in Span |-> NoObject]
    /\ parent = [s \in Span |-> NoSpan]
    /\ closedBy = [s \in Span |-> NoObject]
    /\ failed = {} /\ refused = {}

\* Bug: a transition starts the new span before it ends the old one.
Effects_StartFirst(state) ==
    CASE state = "start"      -> <<"start">>
      [] state = "end"        -> <<"end">>
      [] state = "transition" -> <<"start", "end">>
      [] state = "ignored"    -> <<>>

\* Bug: a transition ends the old span and starts none.
Effects_OnlyEnd(state) ==
    CASE state = "start"                 -> <<"start">>
      [] state \in {"end", "transition"} -> <<"end">>
      [] state = "ignored"               -> <<>>

\* handleEvent's switch: what a state makes the handler do, in order.
Effects(state) ==
    CASE state = "start"      -> <<"start">>
      [] state = "end"        -> <<"end">>
      [] state = "transition" -> <<"end", "start">>
      [] state = "ignored"    -> <<>>

\* A webhook arrives: Handler up to handleEvent's switch.
Deliver(o, e) ==
    /\ todo[o] = <<>>
    /\ event' = [event EXCEPT ![o] = e]
    /\ todo' = [todo EXCEPT ![o] =
                   IF e.fault \in {"malformed", "panic"} THEN <<>> ELSE Effects(e.state)]
    /\ answer' = [answer EXCEPT ![o] =
                     CASE e.fault = "malformed" -> "400"
                       [] e.fault = "panic"     -> "aborted"
                       [] OTHER                 -> "200"]
    /\ UNCHANGED spanVars

\* An object changes in its own system, which sends an event e of it, ...
MayChange == changes < MaxChanges

Following(o) ==
    {EventOf[o][step[2]] : step \in {step \in Successors[Kind[o]] : step[1] = status[o]}}

Turn(o, e) ==
    /\ changes' = changes + 1
    /\ status' = [status EXCEPT ![o] = e.status]

\* ... which is delivered at once.
Change(o) ==
    /\ MayChange
    /\ \E e \in Following(o) : Turn(o, e) /\ Deliver(o, e)

NextSpan == CHOOSE s \in T!Fresh : \A q \in T!Fresh : s <= q

\* handleStartEvent: it may fail before the tracer starts the span, ...
StartFails(o) ==
    /\ event[o].fault \in {"tag", "parentPanic"}
    /\ answer' = [answer EXCEPT ![o] =
                     IF event[o].fault = "tag" THEN "400" ELSE "aborted"]
    /\ UNCHANGED spanVars

\* ... and afterwards, when the tags fail or the store is full, ...
StartSpanOnly(o, s) ==
    /\ \/ event[o].fault = "tagsPanic"
       \/ event[o].fault = "none" /\ Cardinality(T!TrackedSpans) >= MaxAllowedSpans
    /\ T!Refuse(s)
    /\ refused' = refused \cup {s}
    /\ answer' = [answer EXCEPT ![o] =
                     IF event[o].fault = "none" THEN "400" ELSE "aborted"]

\* ... or succeed.
StartAndStore(o, s) ==
    /\ event[o].fault = "none"
    /\ T!Open(event[o].id, s)
    /\ UNCHANGED <<refused, answer>>

Start(o) ==
    LET named == event[o].parent
        s == NextSpan
    IN  /\ todo[o] # <<>> /\ Head(todo[o]) = "start"
        /\ \/ StartFails(o)
           \/ /\ StartSpanOnly(o, s) \/ StartAndStore(o, s)
              /\ about' = [about EXCEPT ![s] = o]
              /\ parent' = [parent EXCEPT ![s] = IF named \in DOMAIN tracked THEN tracked[named] ELSE NoSpan]
              /\ UNCHANGED <<closedBy, failed>>
        /\ todo' = [todo EXCEPT ![o] = Tail(@)]
        /\ UNCHANGED <<status, changes, event>>

\* handleEndEvent; a panic leaves the span as it is, and a span that is
\* missing fails an end, but not a transition.
EndFails(o) ==
    /\ \/ event[o].fault \in {"tag", "timings"}
       \/ tracked[event[o].id] = NoSpan
    /\ answer' = [answer EXCEPT ![o] =
                     IF event[o].fault = "timings" /\ tracked[event[o].id] # NoSpan THEN "aborted"
                     ELSE IF todo[o] = <<"end">> THEN "400" ELSE @]
    /\ UNCHANGED spanVars

EndAndDelete(o) ==
    LET id == event[o].id
    IN  /\ event[o].fault \notin {"tag", "timings"}
        /\ T!Close(id)
        /\ closedBy' = [closedBy EXCEPT ![tracked[id]] = o]
        /\ failed' = IF event[o].error THEN failed \cup {tracked[id]} ELSE failed
        /\ UNCHANGED <<answer, about, parent, refused>>

End(o) ==
    /\ todo[o] # <<>> /\ Head(todo[o]) = "end"
    /\ EndFails(o) \/ EndAndDelete(o)
    /\ todo' = [todo EXCEPT ![o] = Tail(@)]
    /\ UNCHANGED <<status, changes, event>>

Next == (\E o \in live : Change(o) \/ Start(o) \/ End(o)) /\ UNCHANGED live

Spec == Init /\ [][Next]_vars

-----------------------------------------------------------------------------
Builds == {"gitlab_pipeline", "gitlab_job"}

\* Statuses that end the work on an object but are no end to its source's
\* State: the span stays open, and in the store, for good.
NeverEnded == ({"gitlab_merge"} \X {"merged"}) \cup (Builds \X {"failed"})

\* Objects of two owners with the same name and number have the same ids.
Twins(o, q) ==
    /\ o # q /\ Kind[o] = Kind[q]
    /\ Of[o].scope = Of[q].scope /\ Of[o].number = Of[q].number

\* So have custom events of which the type, the namespace and the identifier read
\* the same when they are joined with dashes, ...
Confusable(o, q) ==
    /\ o # q /\ Kind[o] = "customhttp" /\ Kind[q] = "customhttp"
    /\ \E t \in {Of[o].type, Of[o].endType}, u \in {Of[q].type, Of[q].endType} :
         t \o Dash \o Of[o].scope \o Dash \o Of[o].number = u \o Dash \o Of[q].scope \o Dash \o Of[q].number

\* ... for which one of them must have a dash in the type or the namespace.
Dashed(o) == \E s \in {Of[o].type, Of[o].endType, Of[o].scope} : \E k \in DOMAIN s : s[k] = "-"

\* traces/trace_service_test.go finishes the deploy that createJenkinsDeploy
\* started with finishJenkinsBuild, whose event has no parameters, and expects
\* StatusOK for it.
JenkinsEndAccepted ==
    \A o \in live :
        Kind[o] = "jenkins" /\ status[o] \in Over /\ todo[o] = <<>> => answer[o] = "200"

\* vscli start --parent-event-id: "parent event id to reference", an id that
\* an earlier vscli start printed.
VscliParentReferenced ==
    \A s, q \in Span :
        /\ q < s /\ {s, q} \subseteq T!TrackedSpans
        /\ Kind[about[s]] = "customhttp" /\ Of[about[s]].param = Of[about[q]].number
        => parent[s] = q

=============================================================================

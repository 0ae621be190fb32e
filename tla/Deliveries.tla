----------------------------- MODULE Deliveries -----------------------------
(***************************************************************************)
(* Lifecycles over senders, a network and a ValueStream that fail: a       *)
(* webhook may be lost, come after later ones, or be delivered again, and  *)
(* ValueStream may stop at any moment.  Its store is only in memory: it    *)
(* comes up again with an empty one, and the webhooks that were sent while *)
(* it was down are lost.                                                   *)
(***************************************************************************)
EXTENDS Lifecycles

CONSTANTS
    MaxMishaps,   \* bound: lost, held back and repeated webhooks
    MaxCrashes    \* bound: crashes of ValueStream

ASSUME DeliveriesAssumption == MaxMishaps \in Nat /\ MaxCrashes \in Nat

VARIABLES
    up,         \* does ValueStream run?
    held,       \* of each object, the events that are still on their way
    mishaps,    \* how many webhooks were lost, held back or repeated
    crashes,    \* how often ValueStream crashed
    disturbed,  \* the objects to one of whose webhooks one of these happened
    crashed,    \* the spans that were open in a crash
    boundary    \* the last span that was started before the last crash

faultVars == <<up, held, mishaps, crashes, disturbed, crashed, boundary>>
allVars == <<vars, faultVars>>

DeliveriesTypeOK ==
    /\ TypeOK
    /\ up \in BOOLEAN
    /\ \A o \in live : held[o] \subseteq Events
    /\ mishaps \in 0 .. MaxMishaps /\ crashes \in 0 .. MaxCrashes
    /\ disturbed \subseteq live
    /\ crashed \subseteq lost
    /\ boundary \in Span \cup {NoSpan}

DeliveriesInit ==
    /\ Init
    /\ up = TRUE
    /\ held = [o \in live |-> {}]
    /\ mishaps = 0 /\ crashes = 0
    /\ disturbed = {} /\ crashed = {} /\ boundary = NoSpan

-----------------------------------------------------------------------------
\* Nothing goes wrong with the next step of o.
Regular(o) ==
    /\ up
    /\ Change(o) \/ Start(o) \/ End(o)
    /\ UNCHANGED <<live, faultVars>>

Mishap(o) ==
    /\ mishaps < MaxMishaps
    /\ mishaps' = mishaps + 1
    /\ disturbed' = disturbed \cup {o}

\* An object changes and its webhook is lost, as all are when nobody listens.
Lose(o) ==
    /\ MayChange
    /\ \/ Mishap(o)
       \/ ~up /\ disturbed' = disturbed \cup {o} /\ UNCHANGED mishaps
    /\ \E e \in Following(o) : Turn(o, e)
    /\ UNCHANGED <<live, deliveryVars, spanVars, up, held, crashes, crashed, boundary>>

\* An object changes and its webhook is held back, ...
HoldBack(o) ==
    /\ MayChange
    /\ held[o] = {}
    /\ Mishap(o)
    /\ \E e \in Following(o) : Turn(o, e) /\ held' = [held EXCEPT ![o] = {e}]
    /\ UNCHANGED <<live, deliveryVars, spanVars, up, crashes, crashed, boundary>>

\* ... until it arrives at last, perhaps after later ones.
DeliverLate(o) ==
    /\ up
    /\ \E e \in held[o] : Deliver(o, e) /\ held' = [held EXCEPT ![o] = @ \ {e}]
    /\ UNCHANGED <<live, status, changes>>
    /\ UNCHANGED <<up, mishaps, crashes, disturbed, crashed, boundary>>

\* A sender that missed the answer sends its last webhook again.
DeliverAgain(o) ==
    /\ up
    /\ event[o].status # "none"
    /\ Mishap(o)
    /\ Deliver(o, event[o])
    /\ UNCHANGED <<live, status, changes, up, held, crashes, crashed, boundary>>

\* ValueStream stops: the handlers with it, and the store.  It stops before or after
\* a start or an end, not inside one: inside it would come between StartSpan and
\* Set, whose span the crash loses as it does one that was stored, or between
\* Finish and Delete, whose entry it takes with the store.
Crash ==
    /\ up
    /\ crashes < MaxCrashes
    /\ up' = FALSE
    /\ crashes' = crashes + 1
    /\ disturbed' = disturbed \cup live
    /\ tracked' = [i \in DOMAIN tracked |-> NoSpan]
    /\ lost' = lost \cup T!TrackedSpans
    /\ crashed' = crashed \cup T!TrackedSpans
    /\ boundary' = Cardinality(Span \ T!Fresh)
    /\ todo' = [o \in live |-> <<>>]
    /\ answer' = [o \in live |-> IF todo[o] = <<>> THEN answer[o] ELSE "aborted"]
    /\ UNCHANGED <<live, status, changes, event, finished, about, parent, closedBy, failed,
                   refused, held, mishaps>>

\* main again, with a new store.
Boot ==
    /\ ~up
    /\ up' = TRUE
    /\ UNCHANGED <<vars, held, mishaps, crashes, disturbed, crashed, boundary>>

DeliveriesNext ==
    \/ \E o \in live :
         Regular(o) \/ Lose(o) \/ HoldBack(o) \/ DeliverLate(o) \/ DeliverAgain(o)
    \/ Crash
    \/ Boot

DeliveriesSpec == DeliveriesInit /\ [][DeliveriesNext]_allVars

-----------------------------------------------------------------------------
\* The last webhook of o says how o is, and has been handled.
UpToDate(o) == event[o].status = status[o] /\ todo[o] = <<>>

SpansOf(o) == {s \in Span : about[s] = o}

HasTwin(o) == \E q \in live : Twins(o, q) \/ Confusable(o, q)

\* When the work on an object is over and the webhook that says so was the last
\* to be handled, none of its spans is open under any of its ids, whatever was
\* lost, late, doubled or crashed before, and whatever its payloads lack.  The
\* exceptions are GitLab's merge requests that were merged, its pipelines and
\* jobs that failed, and a GitHub event whose closed_at is missing.
NoSpanOutlivesItsObject ==
    \A o \in live :
        /\ UpToDate(o) /\ status[o] \in Over
        /\ <<Kind[o], status[o]>> \notin NeverEnded /\ event[o].fault # "timings"
        => \A id \in DOMAIN tracked : tracked[id] # NoSpan => about[tracked[id]] # o

\* The other way around: while the last webhook of an object that was accepted
\* says that it is being worked on, a span of it is open and can be found, if
\* it was not open in a crash: a transition never leaves it without one.
WorkIsTracked ==
    \A o \in live :
        /\ answer[o] = "200" /\ todo[o] = <<>> /\ event[o].state \in {"start", "transition"}
        /\ ~HasTwin(o)
        => LET mine == SpansOf(o)
           IN  \E s \in mine \cap ({tracked[event[o].id]} \cup crashed) : \A q \in mine : q <= s

\* An end is refused or fails only with a reason: its start was refused, the
\* payload lacks something, a twin took its span, a Jira issue goes to the
\* backlog before any work on it, or one of its webhooks went astray.
RefusedOnlyWithReason ==
    \A o \in live :
        event[o].status # "none" /\ todo[o] = <<>> /\ event[o].state = "end" /\ answer[o] # "200" =>
            \/ o \in disturbed
            \/ SpansOf(o) \cap refused # {} \/ event[o].fault # "none"
            \/ HasTwin(o)
            \/ Kind[o] = "jira_issue" /\ SpansOf(o) = {}

\* The payloads of o say when it began but not when it ended: Timings of GitHub's
\* closed issues and pull requests panics, after the tags were set.
EndsAtNoTime(o) == "closed_at" \in Of[o].lacks /\ "created_at" \notin Of[o].lacks

\* A span is replaced while it is open, and so never reported, only for the
\* kinds whose source sends a start for every change of an open object, where
\* a twin has the same id, when an end failed half way, and when webhooks went
\* astray; a Jira issue's never is, as its starts are all transitions.
LostOnlyByRestart ==
    \A s \in lost \ (refused \cup crashed) :
        \/ Kind[about[s]] \in {"gitlab_issue", "gitlab_merge", "gitlab_job"}
        \/ HasTwin(about[s]) \/ EndsAtNoTime(about[s])
        \/ about[s] \in disturbed /\ Kind[about[s]] # "jira_issue"

\* An event finishes a span of its own object, of its twin, or, for custom events
\* one of which has a dash in its type or namespace, of one whose id reads the same.
EndsOwnObject ==
    \A s \in finished :
        LET o == closedBy[s]
            q == about[s]
        IN  o = q \/ Twins(o, q) \/ (Confusable(o, q) /\ (Dashed(o) \/ Dashed(q)))

HasAt(text, i, id) ==
    /\ i + Len(id) - 1 <= Len(text)
    /\ SubSeq(text, i, i + Len(id) - 1) = id

\* The payload of o has this id somewhere where its source looks for a parent.
Mentions(o, id) ==
    IF Kind[o] = "gitlab_job" THEN id = JoinedId("gitlab", <<"build">>, Of[o].param)
    ELSE \/ Of[o].param = id
         \/ Of[o].param = NoRef /\ \E i \in DOMAIN Of[o].text : HasAt(Of[o].text, i, id)

\* A span hangs only under one that was started before it, on the same side of the
\* last crash, and whose id the payload of its object has; so under a span of its
\* own object only where the payload names its own id, and then the two are not
\* both tracked: the start took the other one's place, or was refused.
ParentIsMentioned ==
    \A s \in Span : parent[s] # NoSpan =>
        /\ parent[s] < s
        /\ s > boundary => parent[s] > boundary
        /\ Mentions(about[s], StartId[about[parent[s]]])
        /\ about[parent[s]] = about[s] => parent[s] \in lost \/ s \in refused

\* The branch or the description has the id at i as a source can find it: behind no
\* other id, and not as the beginning of a longer one.
StandsAt(text, i, id) ==
    LET next == i + Len(id)
    IN  /\ HasAt(text, i, id)
        /\ \A k \in 1 .. i - 1 : text[k] # "vstrace"
        /\ next <= Len(text) => text[next] \notin Words \cup {"-"}

Spelled(s, C) == s # <<>> /\ \A k \in DOMAIN s : s[k] \in C

\* The id of q has four parts, and they are letters and digits with dashes in the
\* last two; the type of a custom event may have "_".
Readable(q) ==
    /\ Kind[q] # "jira_sprint"
    /\ Spelled(Of[q].scope, Words \cup {"-"}) /\ Spelled(Of[q].number, Words \cup {"-"})
    /\ Kind[q] = "customhttp" => Spelled(Of[q].type, Words \cup {"_"})

\* The payload of o says that the span of q with this id is its parent: by the
\* parameter for it, ...
NamesByParam(o, id) ==
    \/ Kind[o] = "gitlab_job" /\ id = JoinedId("gitlab", <<"build">>, Of[o].param)
    \/ Kind[o] \in {"jenkins", "customhttp"} /\ Of[o].param = id

\* ... or by the branch or the description.
NamesByText(o, q, id) ==
    \/ Kind[o] = "jenkins" /\ Of[o].param = NoRef /\ Of[o].text \in {id, Origin \o id}
    \/ /\ Kind[o] \in {"github_pr", "gitlab_merge"} /\ Readable(q)
       /\ \E i \in DOMAIN Of[o].text : StandsAt(Of[o].text, i, id)

\* A span that starts hangs under the span its payload names, if that one is open
\* at this moment, wherever the id stands in the text and whatever stands around it.
NamedParentIsUsed ==
    [][\A s \in Span : about[s] = NoObject /\ about'[s] # NoObject =>
           \A id \in DOMAIN tracked : tracked[id] # NoSpan =>
               LET o == about'[s]
               IN  NamesByParam(o, id) \/ NamesByText(o, about[tracked[id]], id) =>
                       parent'[s] = tracked[id]]_vars

\* The build that o is was cancelled or failed; of a custom event, its sender says it.
WentWrong(o) ==
    \/ status[o] \in {"canceled", "FAILURE"}
    \/ Kind[o] = "customhttp" /\ status[o] = "end" /\ Of[o].error

\* A span is reported as an error exactly when the object that it is about went
\* wrong: no span that a transition finishes is.  (That no failed GitLab build
\* is among them is NoSpanOutlivesItsObject's exception.)
ErrorMeansFailure ==
    /\ \A s \in failed : WentWrong(closedBy[s])
    /\ \A o \in live :
         UpToDate(o) /\ WentWrong(o) =>
             {s \in finished : closedBy[s] = o} \cap failed # {} \/ answer[o] # "200"

=============================================================================

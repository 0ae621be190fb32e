---------------------------- MODULE SpanTracking ----------------------------
(***************************************************************************)
(* What the webhook handler promises about spans, with every delivery      *)
(* taking effect at once.  A span is fresh until its start is accepted;    *)
(* then it is tracked under its id, one span per id; then it is finished   *)
(* once.  It is lost, open for ever, when its start is refused after the   *)
(* tracer started it or when another start of its id replaces it.          *)
(***************************************************************************)
EXTENDS Integers, FiniteSets

CONSTANTS Id, Span, NoSpan, MaxAllowedSpans

VARIABLES
    tracked,   \* the open span of each id
    finished,  \* the spans that were finished
    lost       \* the open spans that no event can reach any more

trackingVars == <<tracked, finished, lost>>

TrackedSpans == {tracked[i] : i \in DOMAIN tracked} \ {NoSpan}

Fresh == Span \ (TrackedSpans \cup finished \cup lost)

Init ==
    /\ tracked = [i \in Id |-> NoSpan]
    /\ finished = {}
    /\ lost = {}

\* A start, or the second half of a transition, is accepted.
Open(i, s) ==
    /\ s \in Fresh
    /\ Cardinality(TrackedSpans) < MaxAllowedSpans
    /\ tracked' = [tracked EXCEPT ![i] = s]
    /\ lost' = lost \cup ({tracked[i]} \ {NoSpan})
    /\ UNCHANGED finished

\* A start is refused after the tracer started its span.
Refuse(s) ==
    /\ s \in Fresh
    /\ lost' = lost \cup {s}
    /\ UNCHANGED <<tracked, finished>>

\* An end, or the first half of a transition.
Close(i) ==
    /\ tracked[i] # NoSpan
    /\ finished' = finished \cup {tracked[i]}
    /\ tracked' = [tracked EXCEPT ![i] = NoSpan]
    /\ UNCHANGED lost

Next ==
    \/ \E i \in Id, s \in Span : Open(i, s)
    \/ \E s \in Span : Refuse(s)
    \/ \E i \in Id : Close(i)

Spec == Init /\ [][Next]_trackingVars

=============================================================================

------------------------------ MODULE SpanStore ------------------------------
(***************************************************************************)
(* traces.BufferedSpans (traces/stores.go): the map from a span id to the  *)
(* span that is open under it, which every webhook handler shares.         *)
(*                                                                         *)
(* A store is a function from Id to Span \cup {NoSpan}.  Each method of    *)
(* the Go type holds one mutex from its first to its last statement, so it *)
(* is one operator here and one step of the modules that call it.          *)
(***************************************************************************)
EXTENDS Integers, FiniteSets

CONSTANTS
    Id,               \* the span ids that events compute (SpanID())
    Span,             \* the spans that a tracer can start
    NoSpan,           \* the nil *StoreEntry
    MaxAllowedSpans   \* NewBufferedSpanStore's maxAllowedSpans

\* NewBufferedSpanStore refuses a bound that is not positive (Webhook assumes it).
Stores == [Id -> Span \cup {NoSpan}]

EmptyStore == [i \in Id |-> NoSpan]

\* The keys of the map.
Stored(store) == {i \in Id : store[i] # NoSpan}

Count(store) == Cardinality(Stored(store))

Get(store, id) == store[id]

\* Bug: the bound is forgotten.
CanSet_Unbounded(store) == TRUE

\* Set looks at len(s.spans) before anything else: a full store refuses an
\* id that it already holds too, and a store with room replaces silently.
CanSet(store) == Count(store) # MaxAllowedSpans

Set(store, id, span) == [store EXCEPT ![id] = span]

\* Bug: Delete remakes the map, as DeleteAll does.
Delete_All(store, id) == EmptyStore

Delete(store, id) == [store EXCEPT ![id] = NoSpan]

=============================================================================

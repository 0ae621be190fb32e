---------------------------- MODULE WebhookProofs ----------------------------
(***************************************************************************)
(* Theorems about Webhook, for any requests, ids, events and bound, and    *)
(* with deliveries of one id overlapping or not.                           *)
(***************************************************************************)
EXTENDS Webhook, FiniteSetTheorems, TLAPS

\* A request carries an event as soon as it has arrived.
EventKept == \A r \in Request : pc[r] # "new" => event[r] \in Events

TypeInv == TypeOK /\ EventKept

LEMMA TypeInvKept == ASSUME TypeInv, [Next]_vars PROVE TypeInv'
<1> USE DEF TypeInv, TypeOK, EventKept, Labels, Goto, Answer, Measure
<1>1. ASSUME NEW r \in Request, Receive(r) PROVE TypeInv'
  BY <1>1 DEF Receive, tracer, stats
<1>2. ASSUME NEW r \in Request, Dispatch(r) PROVE TypeInv'
  BY <1>2 DEF Dispatch, tracer, stats
<1>3. ASSUME NEW r \in Request, StartLookup(r) PROVE TypeInv'
  <2>1. event[r] \in EventRecords
    BY <1>3, WebhookAssumption DEF StartLookup
  <2>2. event[r].parent # NoId => S!Get(spans, event[r].parent) \in Request \cup {NoSpan}
    BY <2>1 DEF EventRecords, S!Get, S!Stores
  <2>3. entry' \in [Request -> Request \cup {NoSpan}]
    BY <1>3, <2>2 DEF StartLookup
  <2>4. QED
    BY <1>3, <2>3 DEF StartLookup, tracer
<1>4. ASSUME NEW r \in Request, StartSpan(r) PROVE TypeInv'
  BY <1>4 DEF StartSpan, stats
<1>5. ASSUME NEW r \in Request, StoreSpan(r) PROVE TypeInv'
  BY <1>5 DEF StoreSpan, tracer, stats, S!Stores, S!Set
<1>6. ASSUME NEW r \in Request, EndLookup(r) PROVE TypeInv'
  <2>1. event[r] \in EventRecords
    BY <1>6, WebhookAssumption DEF EndLookup
  <2>2. S!Get(spans, event[r].id) \in Request \cup {NoSpan}
    BY <2>1 DEF EventRecords, S!Get, S!Stores
  <2>3. entry' \in [Request -> Request \cup {NoSpan}]
    BY <1>6, <2>2 DEF EndLookup
  <2>4. QED
    BY <1>6, <2>3 DEF EndLookup, EndFailed, IsTransition, tracer
<1>7. ASSUME NEW r \in Request, FinishSpan(r) PROVE TypeInv'
  BY <1>7 DEF FinishSpan, LatencySource
<1>8. ASSUME NEW r \in Request, DeleteSpan(r) PROVE TypeInv'
  <2>1. spans' \in S!Stores
    BY <1>8 DEF DeleteSpan, S!Stores, S!Delete
  <2>2. pc' \in [Request -> Labels] /\ response' \in [Request -> {"none", "200", "400", "aborted"}]
    BY <1>8 DEF DeleteSpan
  <2>3. EventKept'
    BY <1>8 DEF DeleteSpan
  <2>4. QED
    BY <1>8, <2>1, <2>2, <2>3 DEF DeleteSpan, tracer, stats
<1>9. CASE UNCHANGED vars
  BY <1>9 DEF vars, tracer, stats
<1>10. QED
  BY <1>1, <1>2, <1>3, <1>4, <1>5, <1>6, <1>7, <1>8, <1>9 DEF Next, Handle

LEMMA TypeInvInit == Init => TypeInv
BY WebhookAssumption DEF Init, TypeInv, TypeOK, EventKept, Labels, S!Stores, S!EmptyStore

LEMMA TypeInvHolds == Spec => []TypeInv
BY TypeInvInit, TypeInvKept, PTL DEF Spec

\* Every handler only ever holds values of the types that Webhook declares:
\* in particular what it looks up in the store is a span or nil.
THEOREM TypeCorrect == Spec => []TypeOK
<1>1. TypeInv => TypeOK
  BY DEF TypeInv
<1>2. QED
  BY <1>1, TypeInvHolds, PTL

\* SpanStore counts with the Cardinality of FiniteSets.
LEMMA CountIsCardinality ==
    ASSUME NEW store PROVE S!Count(store) = Cardinality(S!Stored(store))
BY DEF S!Count, S!Cardinality, Cardinality

\* The keys of a store stay finitely many, whatever one Set or Delete does.
LEMMA StoredAfterSet ==
    ASSUME NEW store \in S!Stores, NEW i \in Id, NEW s \in Request
    PROVE  S!Stored(S!Set(store, i, s)) = S!Stored(store) \cup {i}
BY WebhookAssumption DEF S!Stored, S!Stores, S!Set

LEMMA StoredAfterDelete ==
    ASSUME NEW store \in S!Stores, NEW i \in Id
    PROVE  S!Stored(S!Delete(store, i)) = S!Stored(store) \ {i}
BY DEF S!Stored, S!Stores, S!Delete

CountInv == IsFiniteSet(S!Stored(spans)) /\ StoreBounded

LEMMA CountInvKept == ASSUME TypeInv, CountInv, [Next]_vars PROVE CountInv'
<1>1. S!Count(spans) \in Nat /\ S!Count(spans) <= MaxAllowedSpans
  BY CountIsCardinality, FS_CardinalityType DEF CountInv, StoreBounded
<1>2. CASE UNCHANGED spans
  BY <1>2, CountIsCardinality DEF CountInv, StoreBounded, S!Stored
<1>3. ASSUME NEW r \in Request, StoreSpan(r), S!CanSet(spans),
             spans' = S!Set(spans, event[r].id, r)
      PROVE  CountInv'
  <2>1. event[r].id \in Id /\ spans \in S!Stores
    BY <1>3, WebhookAssumption DEF TypeInv, TypeOK, EventKept, StoreSpan, EventRecords
  <2>2. S!Stored(spans)' = S!Stored(spans) \cup {event[r].id}
    BY <1>3, <2>1, StoredAfterSet DEF S!Stored
  <2>3. /\ IsFiniteSet(S!Stored(spans)')
        /\ Cardinality(S!Stored(spans)') <= Cardinality(S!Stored(spans)) + 1
    BY <1>1, <2>2, CountIsCardinality, FS_AddElement, SMTT(30) DEF CountInv
  <2>4. QED
    BY <1>1, <1>3, <2>3, WebhookAssumption, CountIsCardinality, FS_CardinalityType
    DEF CountInv, StoreBounded, S!CanSet
<1>4. ASSUME NEW r \in Request, DeleteSpan(r) PROVE CountInv'
  <2>1. event[r].id \in Id /\ spans \in S!Stores
    BY <1>4, WebhookAssumption DEF TypeInv, TypeOK, EventKept, DeleteSpan, EventRecords
  <2>2. S!Stored(spans)' = S!Stored(spans) \ {event[r].id}
    BY <1>4, <2>1, StoredAfterDelete DEF DeleteSpan, S!Stored
  <2>3. /\ IsFiniteSet(S!Stored(spans)')
        /\ Cardinality(S!Stored(spans)') <= Cardinality(S!Stored(spans))
    BY <1>1, <2>2, CountIsCardinality, FS_RemoveElement, FS_CardinalityType, SMTT(30) DEF CountInv
  <2>4. QED
    BY <1>1, <2>3, WebhookAssumption, CountIsCardinality, FS_CardinalityType DEF CountInv, StoreBounded
<1>5. QED
  <2>1. ASSUME NEW r \in Request, Receive(r) \/ Handle(r) PROVE CountInv'
    <3>1. CASE StoreSpan(r)
      BY <3>1, <1>2, <1>3 DEF StoreSpan
    <3>2. CASE DeleteSpan(r)
      BY <3>2, <1>4
    <3>3. CASE ~StoreSpan(r) /\ ~DeleteSpan(r)
      BY <2>1, <3>3, <1>2 DEF Handle, Receive, Dispatch, StartLookup, StartSpan, EndLookup,
                              FinishSpan
    <3>4. QED
      BY <3>1, <3>2, <3>3
  <2>2. QED
    BY <2>1, <1>2 DEF Next, vars

LEMMA CountInvInit == Init => CountInv
<1> SUFFICES ASSUME Init PROVE CountInv
  OBVIOUS
<1>1. S!Stored(spans) = {}
  BY DEF Init, S!Stored, S!EmptyStore
<1>2. QED
  BY <1>1, FS_EmptySet, CountIsCardinality, WebhookAssumption DEF CountInv, StoreBounded

LEMMA CountInvHolds == Spec => []CountInv
BY CountInvInit, CountInvKept, TypeInvHolds, PTL DEF Spec

\* However many handlers run and however they interleave, the store never
\* holds more than MaxAllowedSpans spans: Set compares and inserts under one
\* lock.
THEOREM BoundHolds == Spec => []StoreBounded
<1>1. CountInv => StoreBounded
  BY DEF CountInv
<1>2. QED
  BY <1>1, CountInvHolds, PTL

-----------------------------------------------------------------------------
(***************************************************************************)
(* Where the spans are.  The three properties below need one another, and  *)
(* they need to know what a handler may rely on while it is between two    *)
(* calls: the entry that an end looked up is an accepted span of its own   *)
(* id, and stays that whatever the others do to the store meanwhile.       *)
(***************************************************************************)
AnsweredIsDone == \A r \in Request : response[r] # "none" => pc[r] = "done"

StatesFit ==
    \A r \in Request :
        pc[r] \in {"endLookup", "finish", "delete"} => event[r].state \in {"end", "transition"}

StartedBeforeStore == \A r \in Request : pc[r] = "store" => r \in started

FinishersHaveEvents == \A s, r \in Request : r \in finishedBy[s] => pc[r] # "new"

HoldsOwnSpan ==
    \A r \in Request : pc[r] \in {"finish", "delete"} =>
        /\ entry[r] \in Request /\ entry[r] \in started
        /\ event[entry[r]].id = event[r].id
        /\ response[entry[r]] = "200"

SpansInv ==
    /\ AnsweredIsDone
    /\ StatesFit
    /\ StartedBeforeStore
    /\ FinishersHaveEvents
    /\ HoldsOwnSpan
    /\ StoreHoldsAcceptedSpans
    /\ EndsOwnSpan
    /\ FinishedLeavesStore

LEMMA FinishersAreRequests ==
    ASSUME TypeInv, SpansInv
    PROVE  \A i \in S!Stored(spans) : finishedBy[spans[i]] \subseteq Request
BY DEF TypeInv, TypeOK, S!Stores, S!Stored

\* The steps that call neither tracer.Finish nor the store's Set or Delete.
LEMMA LocalStepKeepsSpans ==
    ASSUME TypeInv, SpansInv, NEW r \in Request,
           Receive(r) \/ Dispatch(r) \/ StartLookup(r) \/ StartSpan(r)
    PROVE  SpansInv'
<1>1. /\ UNCHANGED <<spans, finishedBy>>
      /\ pc[r] \notin {"done", "delete", "finish"}
      /\ started \subseteq started'
  BY DEF Receive, Dispatch, StartLookup, StartSpan, tracer
<1>2. /\ \A q \in Request \ {r} : /\ pc'[q] = pc[q] /\ response'[q] = response[q]
                                /\ event'[q] = event[q] /\ entry'[q] = entry[q]
      /\ pc[r] # "new" => event'[r] = event[r]
  BY DEF Receive, Dispatch, StartLookup, StartSpan, TypeInv, TypeOK, Goto, Answer, Measure, stats
<1>3. pc'[r] \notin {"delete", "finish"} /\ pc'[r] # "new" /\ response[r] = "none"
  BY <1>1 DEF Receive, Dispatch, StartLookup, StartSpan, TypeInv, TypeOK, Goto, Answer,
              SpansInv, AnsweredIsDone
<1>4. AnsweredIsDone'
  BY <1>1, <1>2, <1>3 DEF Receive, Dispatch, StartLookup, StartSpan, TypeInv, TypeOK, Goto,
                          Answer, SpansInv, AnsweredIsDone
<1>5. StatesFit'
  BY <1>2, <1>3 DEF Receive, Dispatch, StartLookup, StartSpan, TypeInv, TypeOK, Goto, Answer,
                    SpansInv, StatesFit
<1>6. StartedBeforeStore'
  BY <1>1, <1>2 DEF Receive, Dispatch, StartLookup, StartSpan, TypeInv, TypeOK, Goto, Answer,
                    SpansInv, StartedBeforeStore
<1>7. \A s \in Request : response[s] = "200" => s # r
  BY <1>3
<1>8. HoldsOwnSpan'
  BY <1>1, <1>2, <1>3, <1>7 DEF SpansInv, HoldsOwnSpan
<1>9. \A i \in S!Stored(spans) : spans[i] \in Request /\ response[spans[i]] = "200"
  BY DEF SpansInv, StoreHoldsAcceptedSpans, TypeInv, TypeOK, S!Stores, S!Stored
<1>10. StoreHoldsAcceptedSpans'
  BY <1>1, <1>2, <1>7, <1>9 DEF SpansInv, StoreHoldsAcceptedSpans, S!Stored
<1>11. EndsOwnSpan' /\ FinishersHaveEvents'
  BY <1>1, <1>2, <1>3, <1>7 DEF SpansInv, EndsOwnSpan, FinishersHaveEvents
<1>12. FinishedLeavesStore'
  BY FinishersAreRequests, <1>1, <1>2, <1>9 DEF SpansInv, FinishedLeavesStore, S!Stored
<1>13. QED
  BY <1>4, <1>5, <1>6, <1>8, <1>10, <1>11, <1>12 DEF SpansInv

\* An end that looks up a span finds an accepted one of its own id.
LEMMA EndLookupKeepsSpans ==
    ASSUME TypeInv, SpansInv, NEW r \in Request, EndLookup(r)
    PROVE  SpansInv'
<1> DEFINE found == S!Get(spans, event[r].id)
<1>1. UNCHANGED <<event, spans, started, finishedBy>>
  BY DEF EndLookup, tracer
<1>2. \A q \in Request \ {r} : /\ pc'[q] = pc[q] /\ response'[q] = response[q]
                            /\ entry'[q] = entry[q]
  BY DEF EndLookup, EndFailed, IsTransition, TypeInv, TypeOK, Goto, Answer
<1>3. /\ pc[r] = "endLookup"
      /\ response[r] = "none"
      /\ pc'[r] \in {"done", "startLookup", "finish"}
      /\ pc'[r] # "done" => response'[r] = "none"
      /\ pc'[r] = "finish" => found # NoSpan /\ entry'[r] = found
  BY DEF EndLookup, EndFailed, IsTransition, TypeInv, TypeOK, Goto, Answer, SpansInv,
         AnsweredIsDone
<1>4. event[r].id \in Id
  BY <1>3, WebhookAssumption DEF TypeInv, EventKept, EventRecords
<1>5. \A i \in S!Stored(spans) : spans[i] \in Request /\ spans[i] # r
  BY <1>3 DEF SpansInv, StoreHoldsAcceptedSpans, TypeInv, TypeOK, S!Stores, S!Stored
<1>6. found # NoSpan => /\ found \in Request /\ found \in started
                       /\ event[found].id = event[r].id
                       /\ response[found] = "200"
                       /\ found # r
  BY <1>4, <1>5 DEF SpansInv, StoreHoldsAcceptedSpans, S!Stored, S!Get
<1>7. \A s \in Request : response[s] = "200" => s # r
  BY <1>3
<1>8. AnsweredIsDone' /\ StatesFit' /\ StartedBeforeStore' /\ FinishersHaveEvents'
  BY <1>1, <1>2, <1>3 DEF SpansInv, AnsweredIsDone, StatesFit, StartedBeforeStore,
                          FinishersHaveEvents, TypeInv, TypeOK
<1>9. HoldsOwnSpan'
  BY <1>1, <1>2, <1>3, <1>6, <1>7 DEF SpansInv, HoldsOwnSpan
<1>10. StoreHoldsAcceptedSpans'
  BY <1>1, <1>2, <1>5 DEF SpansInv, StoreHoldsAcceptedSpans, S!Stored
<1>11. EndsOwnSpan'
  BY <1>1, <1>2, <1>7 DEF SpansInv, EndsOwnSpan
<1>12. FinishedLeavesStore'
  BY FinishersAreRequests, <1>1, <1>2, <1>3, <1>5 DEF SpansInv, FinishedLeavesStore, S!Stored
<1>13. QED
  BY <1>8, <1>9, <1>10, <1>11, <1>12 DEF SpansInv

\* A span that enters the store is started, accepted by this very step, and
\* nobody can have finished it before.
LEMMA StoreKeepsSpans ==
    ASSUME TypeInv, SpansInv, NEW r \in Request, StoreSpan(r)
    PROVE  SpansInv'
<1>1. UNCHANGED <<event, entry, started, finishedBy>> /\ pc[r] = "store" /\ response[r] = "none"
  BY DEF StoreSpan, tracer, SpansInv, AnsweredIsDone
<1>2. /\ \A q \in Request \ {r} : pc'[q] = pc[q] /\ response'[q] = response[q]
      /\ pc'[r] = "done" /\ response'[r] \in {"200", "400"}
  BY DEF StoreSpan, TypeInv, TypeOK, Goto, Answer
<1>3. event[r].id \in Id
  BY <1>1, WebhookAssumption DEF TypeInv, EventKept, EventRecords
<1>4. \A i \in S!Stored(spans) : spans[i] \in Request /\ spans[i] # r
  BY <1>1 DEF SpansInv, StoreHoldsAcceptedSpans, TypeInv, TypeOK, S!Stores, S!Stored
<1>5. \/ spans' = spans
      \/ /\ spans' = [spans EXCEPT ![event[r].id] = r]
         /\ response'[r] = "200"
  BY DEF StoreSpan, S!Set, Answer, TypeInv, TypeOK
<1>6. \A i \in Id : i \in S!Stored(spans)' =>
        \/ i \in S!Stored(spans) /\ spans'[i] = spans[i]
        \/ i = event[r].id /\ spans'[i] = r /\ response'[r] = "200"
  BY <1>3, <1>5 DEF S!Stored, TypeInv, TypeOK, S!Stores
<1>7. finishedBy[r] = {} /\ r \in started
  BY <1>1 DEF SpansInv, EndsOwnSpan, StartedBeforeStore, TypeInv, TypeOK
<1>8. \A s \in Request : response[s] = "200" => s # r
  BY <1>1
<1>9. AnsweredIsDone' /\ StatesFit' /\ StartedBeforeStore' /\ FinishersHaveEvents'
  BY <1>1, <1>2 DEF SpansInv, AnsweredIsDone, StatesFit, StartedBeforeStore,
                    FinishersHaveEvents, TypeInv, TypeOK
<1>10. HoldsOwnSpan' /\ EndsOwnSpan'
  BY <1>1, <1>2, <1>8 DEF SpansInv, HoldsOwnSpan, EndsOwnSpan
<1>11. S!Stored(spans)' \subseteq Id /\ S!Stored(spans) \subseteq Id
  BY DEF S!Stored
<1>12. StoreHoldsAcceptedSpans'
  BY <1>1, <1>2, <1>4, <1>6, <1>7, <1>11 DEF SpansInv, StoreHoldsAcceptedSpans
<1>13. FinishedLeavesStore'
  BY FinishersAreRequests, <1>1, <1>2, <1>4, <1>6, <1>7, <1>11 DEF SpansInv, FinishedLeavesStore
<1>14. QED
  BY <1>9, <1>10, <1>12, <1>13 DEF SpansInv

\* Finish reaches the span that was looked up; when that span is still
\* stored, this handler's Delete is now one of those that are due.
LEMMA FinishKeepsSpans ==
    ASSUME TypeInv, SpansInv, NEW r \in Request, FinishSpan(r)
    PROVE  SpansInv'
<1>1. UNCHANGED <<event, entry, spans, started>> /\ pc[r] = "finish" /\ response[r] = "none"
  BY DEF FinishSpan, SpansInv, AnsweredIsDone
<1>2. /\ \A q \in Request \ {r} : pc'[q] = pc[q] /\ response'[q] = response[q]
      /\ pc'[r] \in {"done", "delete"}
      /\ pc'[r] = "delete" => response'[r] = "none"
      /\ finishedBy' = IF pc'[r] = "delete"
                       THEN [finishedBy EXCEPT ![entry[r]] = @ \cup {r}] ELSE finishedBy
  BY <1>1 DEF FinishSpan, TypeInv, TypeOK, Goto, Answer
<1>3. /\ entry[r] \in Request
      /\ event[entry[r]].id = event[r].id
      /\ response[entry[r]] = "200"
      /\ event[r].state \in {"end", "transition"}
  BY <1>1 DEF SpansInv, HoldsOwnSpan, StatesFit
<1>4. \A s, q \in Request : q \in finishedBy'[s] =>
        q \in finishedBy[s] \/ (q = r /\ s = entry[r] /\ pc'[r] = "delete")
  BY <1>2, <1>3 DEF TypeInv, TypeOK
<1>5. \A s \in Request : response[s] = "200" => s # r
  BY <1>1
<1>6. AnsweredIsDone' /\ StatesFit' /\ StartedBeforeStore'
  BY <1>1, <1>2, <1>3 DEF SpansInv, AnsweredIsDone, StatesFit, StartedBeforeStore, TypeInv, TypeOK
<1>7. HoldsOwnSpan'
  BY <1>1, <1>2, <1>3, <1>5 DEF SpansInv, HoldsOwnSpan
<1>8. EndsOwnSpan' /\ FinishersHaveEvents'
  BY <1>1, <1>2, <1>3, <1>4, <1>5 DEF SpansInv, EndsOwnSpan, FinishersHaveEvents
<1>9. \A i \in S!Stored(spans) : spans[i] \in Request /\ response[spans[i]] = "200"
  BY DEF SpansInv, StoreHoldsAcceptedSpans, TypeInv, TypeOK, S!Stores, S!Stored
<1>10. StoreHoldsAcceptedSpans'
  BY <1>1, <1>2, <1>5, <1>9 DEF SpansInv, StoreHoldsAcceptedSpans, S!Stored
<1>11. \A i \in S!Stored(spans) : r \notin finishedBy[spans[i]]
  BY <1>1 DEF SpansInv, FinishedLeavesStore
<1>12. \A s \in Request : finishedBy'[s] \subseteq Request
  BY <1>2, <1>3 DEF TypeInv, TypeOK
<1>13. FinishedLeavesStore'
  BY <1>1, <1>2, <1>4, <1>9, <1>11, <1>12 DEF SpansInv, FinishedLeavesStore, S!Stored
<1>14. QED
  BY <1>6, <1>7, <1>8, <1>10, <1>13 DEF SpansInv

\* Delete removes the entry of the handler's own id, so every span that it
\* finished is out of the store when it leaves.
LEMMA DeleteKeepsSpans ==
    ASSUME TypeInv, SpansInv, NEW r \in Request, DeleteSpan(r)
    PROVE  SpansInv'
<1>1. /\ UNCHANGED <<event, entry, started, finishedBy>>
      /\ pc[r] = "delete" /\ response[r] = "none"
      /\ spans' = [spans EXCEPT ![event[r].id] = NoSpan]
  BY DEF DeleteSpan, tracer, SpansInv, AnsweredIsDone, S!Delete
<1>2. /\ \A q \in Request \ {r} : pc'[q] = pc[q] /\ response'[q] = response[q]
      /\ pc'[r] \in {"done", "startLookup"}
      /\ pc'[r] # "done" => response'[r] = "none"
  BY <1>1 DEF DeleteSpan, IsTransition, TypeInv, TypeOK, Goto, Answer
<1>3. \A i \in S!Stored(spans)' : /\ i \in S!Stored(spans) /\ spans'[i] = spans[i]
                                 /\ i # event[r].id
  BY <1>1 DEF S!Stored, TypeInv, TypeOK, S!Stores
<1>4. \A i \in S!Stored(spans) : spans[i] \in Request /\ response[spans[i]] = "200"
  BY DEF SpansInv, StoreHoldsAcceptedSpans, TypeInv, TypeOK, S!Stores, S!Stored
<1>5. \A s \in Request : response[s] = "200" => s # r
  BY <1>1
<1>6. AnsweredIsDone' /\ StatesFit' /\ StartedBeforeStore' /\ FinishersHaveEvents'
  BY <1>1, <1>2 DEF SpansInv, AnsweredIsDone, StatesFit, StartedBeforeStore,
                    FinishersHaveEvents, TypeInv, TypeOK
<1>7. HoldsOwnSpan' /\ EndsOwnSpan'
  BY <1>1, <1>2, <1>5 DEF SpansInv, HoldsOwnSpan, EndsOwnSpan
<1>8. StoreHoldsAcceptedSpans'
  BY <1>1, <1>2, <1>3, <1>4, <1>5 DEF SpansInv, StoreHoldsAcceptedSpans
<1>9. \A i \in S!Stored(spans)' : r \notin finishedBy[spans[i]]
  <2> SUFFICES ASSUME NEW i \in S!Stored(spans)', r \in finishedBy[spans[i]] PROVE FALSE
    OBVIOUS
  <2>1. event[spans[i]].id = i /\ spans[i] \in Request
    BY <1>3, <1>4 DEF SpansInv, StoreHoldsAcceptedSpans
  <2>2. event[r].id = event[spans[i]].id
    BY <2>1 DEF SpansInv, EndsOwnSpan
  <2>3. QED
    BY <1>3, <2>1, <2>2
<1>10. \A i \in S!Stored(spans)' : /\ spans'[i] = spans[i]
                                  /\ finishedBy'[spans'[i]] = finishedBy[spans[i]]
                                  /\ finishedBy[spans[i]] \subseteq Request \ {r}
                                  /\ \A q \in finishedBy[spans[i]] : pc[q] = "delete"
  BY FinishersAreRequests, <1>1, <1>3, <1>9 DEF SpansInv, FinishedLeavesStore
<1>11. FinishedLeavesStore'
  BY <1>2, <1>10 DEF FinishedLeavesStore
<1>12. QED
  BY <1>6, <1>7, <1>8, <1>11 DEF SpansInv

LEMMA SpansInvKept == ASSUME TypeInv, SpansInv, [Next]_vars PROVE SpansInv'
<1>1. CASE UNCHANGED vars
  BY <1>1 DEF vars, tracer, SpansInv, AnsweredIsDone, StatesFit, StartedBeforeStore,
              FinishersHaveEvents, HoldsOwnSpan, StoreHoldsAcceptedSpans, EndsOwnSpan,
              FinishedLeavesStore, S!Stored
<1>2. ASSUME NEW r \in Request, Receive(r) \/ Handle(r) PROVE SpansInv'
  BY <1>2, LocalStepKeepsSpans, EndLookupKeepsSpans, StoreKeepsSpans, FinishKeepsSpans,
     DeleteKeepsSpans DEF Handle
<1>3. QED
  BY <1>1, <1>2 DEF Next

LEMMA SpansInvInit == Init => SpansInv
BY WebhookAssumption
DEF Init, SpansInv, AnsweredIsDone, StatesFit, StartedBeforeStore, FinishersHaveEvents,
    HoldsOwnSpan, StoreHoldsAcceptedSpans, EndsOwnSpan, FinishedLeavesStore, S!Stored,
    S!EmptyStore

LEMMA SpansInvHolds == Spec => []SpansInv
BY SpansInvInit, SpansInvKept, TypeInvHolds, PTL DEF Spec

\* However handlers interleave, a lookup by id can only ever yield a span of
\* that id whose start was answered with success.
THEOREM StoreIsSound == Spec => []StoreHoldsAcceptedSpans
<1>1. SpansInv => StoreHoldsAcceptedSpans
  BY DEF SpansInv
<1>2. QED
  BY <1>1, SpansInvHolds, PTL

\* However handlers interleave, an end event finishes spans of its own id only.
THEOREM EndsAreIsolated == Spec => []EndsOwnSpan
<1>1. SpansInv => EndsOwnSpan
  BY DEF SpansInv
<1>2. QED
  BY <1>1, SpansInvHolds, PTL

\* However handlers interleave, a finished span is only in the store while
\* every handler that finished it has its Delete still to make.
THEOREM NoFinishedSpanStays == Spec => []FinishedLeavesStore
<1>1. SpansInv => FinishedLeavesStore
  BY DEF SpansInv
<1>2. QED
  BY <1>1, SpansInvHolds, PTL

=============================================================================

------------------------ MODULE WebhookOrderedProofs ------------------------
(***************************************************************************)
(* Theorems about Webhook when a sender waits for the answer to one event  *)
(* of an object before it sends the object's next one (~SameIdOverlap),    *)
(* for any requests, ids, events and bound.  Events of different ids still *)
(* interleave freely.                                                      *)
(***************************************************************************)
EXTENDS WebhookAnswerProofs

OneInFlight ==
    \A r, q \in Request : InFlight(r) /\ InFlight(q) /\ event[r].id = event[q].id => r = q

\* What an end looked up is what the store still holds, and nobody but this
\* end has finished it.
EndsCurrent ==
    \A r \in Request :
        /\ pc[r] \in {"finish", "delete"} => spans[event[r].id] = entry[r]
        /\ pc[r] = "finish" => finishedBy[entry[r]] = {}
        /\ pc[r] = "delete" => r \in finishedBy[entry[r]]

FinishedByOne == \A s \in Request : \A q, r \in finishedBy[s] : q = r

OrderedInv ==
    /\ OneInFlight
    /\ EndsCurrent
    /\ FinishedByOne
    /\ LostOnlyByReplacement

\* A handler of another id does not touch what this one looked up.
LEMMA OthersKeepCurrent ==
    ASSUME TypeInv, SpansInv, OrderedInv, NEW r \in Request, Receive(r) \/ Handle(r),
           NEW q \in Request \ {r}, pc[q] \in {"finish", "delete"}
    PROVE  /\ spans'[event'[q].id] = spans[event[q].id]
           /\ finishedBy'[entry'[q]] = finishedBy[entry[q]]
<1>1. /\ event'[q] = event[q] /\ entry'[q] = entry[q] /\ event[q].id \in Id
      /\ entry[q] \in Request /\ event[entry[q]].id = event[q].id
  BY StepIsLocal, WebhookAssumption DEF TypeInv, EventKept, EventRecords, SpansInv, HoldsOwnSpan
<1>2. pc[r] # "new" => event[r].id # event[q].id
  BY StepIsLocal DEF OrderedInv, OneInFlight, InFlight
<1>3. spans'[event[q].id] = spans[event[q].id]
  BY <1>1, <1>2, StoreChanges DEF StoreSpan, DeleteSpan
<1>4. CASE FinishSpan(r)
  <2>1. pc[r] = "finish" /\ entry[r] # entry[q]
    BY <1>1, <1>2, <1>4 DEF FinishSpan, SpansInv, HoldsOwnSpan
  <2>2. QED
    BY <1>1, <1>3, <1>4, <2>1 DEF FinishSpan, TypeInv, TypeOK
<1>5. QED
  BY <1>1, <1>3, <1>4, OnlyFinishEnds

\* The sender of r has its answers to what it sent before for the same id.
Waited(r) == \A q \in Request : InFlight(q) => event[q].id # event'[r].id

LEMMA SendersWait ==
    ASSUME ~SameIdOverlap, TypeInv, NEW r \in Request, Receive(r)
    PROVE  Waited(r)
BY DEF Receive, Waited, TypeInv, TypeOK

LEMMA OneInFlightKept ==
    ASSUME TypeInv, OneInFlight, NEW r \in Request, Receive(r) \/ Handle(r),
           Receive(r) => Waited(r)
    PROVE  OneInFlight'
<1>1. CASE Receive(r)
  <2>1. ASSUME NEW q \in Request \ {r}, InFlight(q)' 
        PROVE  InFlight(q) /\ event'[q] = event[q] /\ event'[q].id # event'[r].id
    BY <1>1, <2>1, StepIsLocal DEF Waited, InFlight
  <2>2. QED
    BY <2>1 DEF OneInFlight
<1>2. CASE Handle(r)
  <2>1. pc[r] \notin {"new", "done"}
    BY <1>2 DEF Handle, Dispatch, StartLookup, StartSpan, StoreSpan, EndLookup, FinishSpan,
                DeleteSpan
  <2>2. QED
    BY <2>1, StepIsLocal DEF OneInFlight, InFlight
<1>3. QED
  BY <1>1, <1>2

\* What a lookup yields has not been finished: whoever finished it would be
\* about to delete it, and so be a second request in flight for its id.
LEMMA LookupIsUnfinished ==
    ASSUME TypeInv, SpansInv, OneInFlight, NEW r \in Request, pc[r] = "endLookup",
           spans[event[r].id] # NoSpan
    PROVE  spans[event[r].id] \in Request /\ finishedBy[spans[event[r].id]] = {}
<1> DEFINE s == spans[event[r].id]
<1>1. event[r].id \in S!Stored(spans) /\ s \in Request
  BY WebhookAssumption DEF TypeInv, TypeOK, EventKept, EventRecords, S!Stored, S!Stores
<1>2. \A q \in finishedBy[s] : /\ q \in Request /\ pc[q] = "delete"
                               /\ event[q].id = event[r].id
  BY <1>1 DEF SpansInv, FinishedLeavesStore, EndsOwnSpan, StoreHoldsAcceptedSpans, TypeInv, TypeOK
<1>3. QED
  BY <1>1, <1>2 DEF OneInFlight, InFlight

LEMMA EndsCurrentKept ==
    ASSUME TypeInv, SpansInv, OrderedInv, NEW r \in Request, Receive(r) \/ Handle(r)
    PROVE  EndsCurrent'
<1>1. ASSUME NEW q \in Request \ {r} PROVE pc'[q] = pc[q] /\ entry'[q] = entry[q]
  BY StepIsLocal
<1>2. CASE EndLookup(r)
  <2>1. /\ pc[r] = "endLookup" /\ event'[r] = event[r]
        /\ pc'[r] # "delete" /\ spans' = spans /\ finishedBy' = finishedBy
        /\ pc'[r] = "finish" => /\ spans[event[r].id] # NoSpan
                                /\ entry'[r] = spans[event[r].id]
    BY <1>2 DEF EndLookup, EndFailed, IsTransition, Goto, Answer, TypeInv, TypeOK, S!Get, tracer
  <2>2. QED
    BY <1>1, <2>1, LookupIsUnfinished, OthersKeepCurrent DEF EndsCurrent, OrderedInv
<1>3. CASE FinishSpan(r)
  <2>1. /\ pc[r] = "finish" /\ UNCHANGED <<event, entry, spans>>
        /\ entry[r] \in Request
        /\ pc'[r] # "finish"
        /\ pc'[r] = "delete" => r \in finishedBy'[entry[r]]
    BY <1>3 DEF FinishSpan, Goto, Answer, TypeInv, TypeOK, SpansInv, HoldsOwnSpan
  <2>2. QED
    BY <1>1, <2>1, OthersKeepCurrent DEF EndsCurrent, OrderedInv
<1>4. CASE ~EndLookup(r) /\ ~FinishSpan(r)
  <2>1. pc'[r] \notin {"finish", "delete"}
    BY <1>4 DEF Handle, Receive, Dispatch, StartLookup, StartSpan, StoreSpan, DeleteSpan,
                Goto, Answer, TypeInv, TypeOK
  <2>2. QED
    BY <1>1, <2>1, OthersKeepCurrent DEF EndsCurrent, OrderedInv
<1>5. QED
  BY <1>2, <1>3, <1>4

LEMMA FinishedByOneKept ==
    ASSUME TypeInv, SpansInv, OrderedInv, NEW r \in Request, Receive(r) \/ Handle(r)
    PROVE  FinishedByOne'
<1>1. CASE FinishSpan(r)
  <2>1. entry[r] \in Request /\ finishedBy[entry[r]] = {}
    BY <1>1 DEF FinishSpan, SpansInv, HoldsOwnSpan, OrderedInv, EndsCurrent
  <2>2. QED
    BY <1>1, <2>1 DEF FinishSpan, OrderedInv, FinishedByOne, TypeInv, TypeOK
<1>2. QED
  BY <1>1, OnlyFinishEnds DEF OrderedInv, FinishedByOne

\* What a Delete takes out of the store is the span that it finished.
LEMMA DeletesFinished ==
    ASSUME TypeInv, SpansInv, OrderedInv, NEW r \in Request, DeleteSpan(r)
    PROVE  /\ spans[event[r].id] \in Request
           /\ r \in finishedBy[spans[event[r].id]]
BY DEF DeleteSpan, OrderedInv, EndsCurrent, SpansInv, HoldsOwnSpan

LEMMA LostOnlyKept ==
    ASSUME TypeInv, SpansInv, AnswerInv, OrderedInv, NEW r \in Request, Receive(r) \/ Handle(r)
    PROVE  LostOnlyByReplacement'
<1> SUFFICES ASSUME NEW s \in Request, Open(s)', response'[s] = "200", spans'[event'[s].id] # s
             PROVE  \E q \in started' \ {s} : event'[q].id = event'[s].id /\ response'[q] = "200"
  BY DEF LostOnlyByReplacement
<1>1. s # r
  <2> SUFFICES ASSUME s = r PROVE FALSE
    OBVIOUS
  <2>1. pc[r] = "store" /\ event'[r] = event[r] /\ spans' = [spans EXCEPT ![event[r].id] = r]
    BY AcceptedIsStored DEF Open, StoreSpan
  <2>2. event[r].id \in Id
    BY <2>1, WebhookAssumption DEF TypeInv, EventKept, EventRecords
  <2>3. QED
    BY <2>1, <2>2 DEF TypeInv, TypeOK, S!Stores
<1>2. /\ s \in started /\ response[s] = "200" /\ event'[s] = event[s] /\ pc[s] = "done"
      /\ finishedBy[s] = {} /\ started \subseteq started'
  BY <1>1, StepIsLocal DEF Open, Finished, SpansInv, AnsweredIsDone
<1>3. event[s].id \in Id
  BY <1>2, WebhookAssumption DEF TypeInv, EventKept, EventRecords
<1>4. CASE spans[event[s].id] = s
  <2>1. ~DeleteSpan(r) \/ event[r].id # event[s].id
    BY <1>2, <1>4, DeletesFinished
  <2>2. StoreSpan(r) /\ event[r].id = event[s].id /\ r \in started' /\ response'[r] = "200"
    BY <1>2, <1>3, <1>4, <2>1, StoreChanges
  <2>3. QED
    BY <1>1, <1>2, <2>2 DEF StoreSpan
<1>5. CASE spans[event[s].id] # s
  <2>1. PICK q \in started \ {s} : event[q].id = event[s].id /\ response[q] = "200"
    BY <1>2, <1>5 DEF OrderedInv, LostOnlyByReplacement, Open, Finished
  <2>2. q \in Request /\ q # r
    BY <2>1, StepIsLocal DEF TypeInv, TypeOK, SpansInv, AnsweredIsDone
  <2>3. QED
    BY <1>2, <2>1, <2>2, StepIsLocal
<1>6. QED
  BY <1>4, <1>5

LEMMA OrderedInvInit == Init => OrderedInv
BY DEF Init, OrderedInv, OneInFlight, InFlight, EndsCurrent, FinishedByOne, LostOnlyByReplacement, Open

LEMMA OrderedInvKept ==
    ASSUME ~SameIdOverlap
    PROVE  TypeInv /\ SpansInv /\ AnswerInv /\ OrderedInv /\ [Next]_vars => OrderedInv'
<1> SUFFICES ASSUME TypeInv, SpansInv, AnswerInv, OrderedInv, [Next]_vars PROVE OrderedInv'
  OBVIOUS
<1>1. CASE UNCHANGED vars
  BY <1>1 DEF vars, tracer, OrderedInv, OneInFlight, InFlight, EndsCurrent, FinishedByOne,
              LostOnlyByReplacement, Open, Finished
<1>2. ASSUME NEW r \in Request, Receive(r) \/ Handle(r) PROVE OrderedInv'
  BY <1>2, SendersWait, OneInFlightKept, EndsCurrentKept, FinishedByOneKept, LostOnlyKept DEF OrderedInv
<1>3. QED
  BY <1>1, <1>2 DEF Next

LEMMA OrderedInvHolds == ASSUME ~SameIdOverlap PROVE Spec => []OrderedInv
BY OrderedInvInit, OrderedInvKept, TypeInvHolds, SpansInvHolds, AnswerInvHolds, PTL DEF Spec

LEMMA OneFinisher == TypeInv /\ FinishedByOne => FinishedOnce
<1> SUFFICES ASSUME TypeInv, FinishedByOne, NEW s \in Request PROVE Cardinality(finishedBy[s]) <= 1
  BY DEF FinishedOnce
<1>1. finishedBy[s] = {} \/ \E q : finishedBy[s] = {q}
  BY DEF FinishedByOne
<1>2. CASE finishedBy[s] = {}
  <2>1. Cardinality({}) = 0
    BY FS_EmptySet
  <2>2. QED
    BY <1>2, <2>1
<1>3. CASE \E q : finishedBy[s] = {q}
  <2>1. PICK q : finishedBy[s] = {q}
    BY <1>3
  <2>2. Cardinality({q}) = 1
    BY FS_Singleton, Zenon
  <2>3. QED
    BY <2>1, <2>2
<1>4. QED
  BY <1>1, <1>2, <1>3

\* With a sender that waits, no span is reported to the tracing backend twice.
THEOREM FinishesOnce == ASSUME ~SameIdOverlap PROVE Spec => []FinishedOnce
BY OneFinisher, TypeInvHolds, OrderedInvHolds, PTL DEF OrderedInv

\* With a sender that waits, only an accepted start of its own id makes an
\* open span that was accepted unreachable.
THEOREM LosesOnlyByReplacement == ASSUME ~SameIdOverlap PROVE Spec => []LostOnlyByReplacement
<1>1. OrderedInv => LostOnlyByReplacement
  BY DEF OrderedInv
<1>2. QED
  BY <1>1, OrderedInvHolds, PTL

LEMMA NoStepDropsAnOpenSpan ==
    TypeInv /\ SpansInv /\ OrderedInv /\ [Next]_vars =>
        [\A i \in S!Stored(spans) : spans'[i] = NoSpan => Finished(spans[i])]_vars
<1> SUFFICES ASSUME TypeInv, SpansInv, OrderedInv, Next, NEW i \in S!Stored(spans), spans'[i] = NoSpan
             PROVE  Finished(spans[i])
  OBVIOUS
<1>1. PICK r \in Request : Receive(r) \/ Handle(r)
  BY DEF Next
<1>2. DeleteSpan(r) /\ event[r].id = i
  BY <1>1, StoreChanges, WebhookAssumption DEF S!Stored
<1>3. QED
  BY <1>2, DeletesFinished DEF Finished

\* With a sender that waits, no step deletes an open span from the store.
THEOREM DropsNoOpenSpan == ASSUME ~SameIdOverlap PROVE Spec => NeverDropsOpenSpan
BY NoStepDropsAnOpenSpan, TypeInvHolds, SpansInvHolds, OrderedInvHolds, PTL DEF Spec, NeverDropsOpenSpan

-----------------------------------------------------------------------------
(***************************************************************************)
(* The handlers implement SpanTracking: every step of a handler is one     *)
(* step of the abstract specification, or none.                            *)
(***************************************************************************)

\* The refinement mapping of Tracking.
Tracked == [i \in Id |-> IF spans[i] \in Request /\ Finished(spans[i]) THEN NoSpan ELSE spans[i]]
FinishedSpans == {s \in Request : Finished(s)}
Lost == {s \in Request : Unreachable(s)}

TrackedSpans == {Tracked[i] : i \in Id} \ {NoSpan}

Mapped == <<Tracked, FinishedSpans, Lost>>

Invs == TypeInv /\ CountInv /\ SpansInv /\ AnswerInv /\ OrderedInv

LEMMA MappingIsTracking ==
    /\ Tracking!trackingVars = Mapped
    /\ Tracking!TrackedSpans = TrackedSpans
    /\ Tracking!Fresh = Request \ (TrackedSpans \cup FinishedSpans \cup Lost)
    /\ \A set : Tracking!Cardinality(set) = Cardinality(set)
<1>1. Tracking!trackingVars = Mapped
  BY DEF Tracking!trackingVars, Mapped, Tracked, FinishedSpans, Lost
<1>2. \A set : Tracking!Cardinality(set) = Cardinality(set)
  BY DEF Tracking!Cardinality, Cardinality
<1>3. Tracking!TrackedSpans = TrackedSpans
  BY DEF Tracking!TrackedSpans, TrackedSpans, Tracked
<1>4. Tracking!Fresh = Request \ (TrackedSpans \cup FinishedSpans \cup Lost)
  BY <1>3 DEF Tracking!Fresh, FinishedSpans, Lost
<1>5. QED
  BY <1>1, <1>2, <1>3, <1>4

\* A span is tracked while the store leads to it and nobody finished it.
LEMMA TrackedIsStored ==
    ASSUME Invs, NEW i \in Id, Tracked[i] # NoSpan
    PROVE  /\ i \in S!Stored(spans) /\ Tracked[i] = spans[i] /\ spans[i] \in Request
           /\ Open(spans[i]) /\ event[spans[i]].id = i
           /\ response[spans[i]] = "200" /\ pc[spans[i]] = "done"
<1>1. i \in S!Stored(spans) /\ Tracked[i] = spans[i] /\ spans[i] \in Request /\ ~Finished(spans[i])
  BY DEF Tracked, Invs, TypeInv, TypeOK, S!Stores, S!Stored
<1>2. QED
  BY <1>1 DEF Open, Invs, SpansInv, StoreHoldsAcceptedSpans, AnsweredIsDone

LEMMA TrackedFewerThanBound ==
    ASSUME Invs, S!CanSet(spans)
    PROVE  Cardinality(TrackedSpans) < MaxAllowedSpans
<1> DEFINE A == {i \in Id : Tracked[i] # NoSpan}
           f == [i \in A |-> Tracked[i]]
<1>1. A \subseteq S!Stored(spans)
  BY TrackedIsStored
<1>2. IsFiniteSet(A) /\ Cardinality(A) <= Cardinality(S!Stored(spans))
  BY <1>1, FS_Subset DEF Invs, CountInv
<1>3. f \in Surjection(A, TrackedSpans)
  BY DEF Surjection, TrackedSpans
<1>4. Cardinality(TrackedSpans) <= Cardinality(A) /\ IsFiniteSet(TrackedSpans)
  BY <1>2, <1>3, FS_Surjection
<1>5. /\ Cardinality(TrackedSpans) \in Nat /\ Cardinality(A) \in Nat
      /\ Cardinality(S!Stored(spans)) \in Nat
  BY <1>2, <1>4, FS_CardinalityType DEF Invs, CountInv
<1>6. QED
  BY <1>2, <1>4, <1>5, CountIsCardinality, WebhookAssumption
  DEF Invs, CountInv, StoreBounded, S!CanSet

\* A request that has no answer yet has a span that nothing has happened to.
LEMMA UnansweredIsFresh ==
    ASSUME Invs, NEW r \in Request, response[r] = "none", pc[r] # "done"
    PROVE  r \in Tracking!Fresh /\ ~Finished(r) /\ \A i \in Id : spans[i] # r
<1>1. \A i \in Id : spans[i] # r
  BY WebhookAssumption DEF Invs, SpansInv, StoreHoldsAcceptedSpans, S!Stored
<1>2. ~Finished(r)
  BY DEF Finished, Invs, SpansInv, EndsOwnSpan, TypeInv, TypeOK
<1>3. r \notin TrackedSpans
  BY <1>1, TrackedIsStored DEF TrackedSpans
<1>4. QED
  BY <1>1, <1>2, <1>3, MappingIsTracking DEF FinishedSpans, Lost, Unreachable

\* The steps that start, store, finish and delete nothing are steps of nothing.
LEMMA LocalStutters ==
    ASSUME Invs, NEW r \in Request, Receive(r) \/ Handle(r), r \notin started,
           UNCHANGED <<spans, started, finishedBy>>
    PROVE  UNCHANGED Mapped
<1>1. Tracked' = Tracked /\ FinishedSpans' = FinishedSpans
  BY DEF Tracked, FinishedSpans, Finished
<1>2. \A s \in Request \ {r} : pc'[s] = pc[s] /\ event'[s] = event[s]
  BY StepIsLocal DEF Invs
<1>3. Lost' = Lost
  BY <1>2 DEF Lost, Unreachable, Open, Finished
<1>4. QED
  BY <1>1, <1>3 DEF Mapped

\* The tracer starts a span: a refusal when the handler ends there.
LEMMA StartSpanTracks ==
    ASSUME Invs, NEW r \in Request, StartSpan(r)
    PROVE  Tracking!Refuse(r) \/ UNCHANGED Mapped
<1>1. /\ started' = started \cup {r} /\ UNCHANGED <<event, spans, finishedBy>>
      /\ \A s \in Request \ {r} : pc'[s] = pc[s]
      /\ pc'[r] \in {"store", "done"} /\ pc[r] = "startSpan" /\ response[r] = "none"
  BY DEF StartSpan, Goto, Answer, Invs, TypeInv, TypeOK, SpansInv, AnsweredIsDone
<1>2. r \in Tracking!Fresh /\ ~Finished(r) /\ spans[event[r].id] # r
  BY <1>1, UnansweredIsFresh, WebhookAssumption DEF Invs, TypeInv, EventKept, EventRecords
<1>3. Tracked' = Tracked /\ FinishedSpans' = FinishedSpans
  BY <1>1 DEF Tracked, FinishedSpans, Finished
<1>4. Lost' = IF pc'[r] = "done" THEN Lost \cup {r} ELSE Lost
  BY <1>1, <1>2 DEF Lost, Unreachable, Open, Finished
<1>5. QED
  BY <1>1, <1>2, <1>3, <1>4 DEF Mapped, Tracking!Refuse, Tracked, FinishedSpans, Lost

\* Set: an opening, or a refusal when the store is full.
LEMMA StoreSpanTracks ==
    ASSUME Invs, NEW r \in Request, StoreSpan(r)
    PROVE  (\E i \in Id : Tracking!Open(i, r)) \/ Tracking!Refuse(r)
<1>0. PICK i \in Id : i = event[r].id
  BY WebhookAssumption DEF StoreSpan, Invs, TypeInv, EventKept, EventRecords
<1>1. /\ UNCHANGED <<event, started, finishedBy>> /\ r \in started
      /\ \A s \in Request \ {r} : pc'[s] = pc[s]
      /\ pc'[r] = "done" /\ pc[r] = "store" /\ response[r] = "none"
  BY DEF StoreSpan, Answer, Goto, tracer, Invs, TypeInv, TypeOK, SpansInv, AnsweredIsDone,
         StartedBeforeStore
<1>2. r \in Tracking!Fresh /\ ~Finished(r) /\ spans[i] # r
  BY <1>1, UnansweredIsFresh
<1>3. FinishedSpans' = FinishedSpans
  BY <1>1 DEF FinishedSpans, Finished
<1>4. CASE S!CanSet(spans) /\ spans' = [spans EXCEPT ![i] = r]
  <2>1. spans'[i] = r /\ \A j \in Id \ {i} : spans'[j] = spans[j]
    BY <1>1, <1>4 DEF Invs, TypeInv, TypeOK, S!Stores
  <2>2. Tracked' = [Tracked EXCEPT ![i] = r]
    BY <1>1, <1>2, <2>1 DEF Tracked, Finished
  <2>3. \A s \in Request : s \in Lost' <=> s \in Lost \/ (s = Tracked[i] /\ s # NoSpan)
    <3> TAKE s \in Request
    <3>1. CASE s = r
      BY <1>0, <1>1, <1>2, <2>1, <3>1, WebhookAssumption DEF Lost, Unreachable, Open, Tracked
    <3>2. CASE s # r /\ s = spans[i]
      <4>1. event[s].id = i /\ pc[s] = "done" /\ s \in started
        BY <1>1, <3>2, WebhookAssumption
        DEF Invs, SpansInv, StoreHoldsAcceptedSpans, AnsweredIsDone, S!Stored
      <4>2. QED
        BY <1>1, <2>1, <3>2, <4>1, WebhookAssumption DEF Lost, Unreachable, Open, Finished, Tracked
    <3>3. CASE s # r /\ s # spans[i]
      <4>1. pc[s] = "done" /\ s \in started => event[s].id \in Id
        BY WebhookAssumption DEF Invs, TypeInv, EventKept, EventRecords
      <4>2. s # Tracked[i] \/ s = NoSpan
        BY <1>1, <3>3 DEF Tracked
      <4>3. QED
        BY <1>1, <2>1, <3>3, <4>1, <4>2, WebhookAssumption DEF Lost, Unreachable, Open, Finished
    <3>4. QED
      BY <3>1, <3>2, <3>3
  <2>4. Lost' = Lost \cup ({Tracked[i]} \ {NoSpan})
    <3>1. Tracked[i] \in Request \cup {NoSpan}
      BY <1>1, TrackedIsStored
    <3>2. QED
      BY <2>3, <3>1 DEF Lost
  <2>5. Cardinality(TrackedSpans) < MaxAllowedSpans
    BY <1>4, TrackedFewerThanBound
  <2>6. Tracking!Open(i, r)
    BY <1>2, <1>3, <2>2, <2>4, <2>5, MappingIsTracking
    DEF Tracking!Open, Tracked, FinishedSpans, Lost
  <2>7. QED
    BY <2>6
<1>5. CASE spans' = spans
  <2>1. Tracked' = Tracked
    BY <1>1, <1>5 DEF Tracked, Finished
  <2>2. Lost' = Lost \cup {r}
    BY <1>0, <1>1, <1>2, <1>5 DEF Lost, Unreachable, Open, Finished
  <2>3. QED
    BY <1>2, <1>3, <2>1, <2>2 DEF Tracking!Refuse, Tracked, FinishedSpans, Lost
<1>6. QED
  BY <1>0, <1>4, <1>5 DEF StoreSpan, S!Set

\* Finish: a closing of the id that the event names.
LEMMA FinishSpanTracks ==
    ASSUME Invs, NEW r \in Request, FinishSpan(r)
    PROVE  (\E i \in Id : Tracking!Close(i)) \/ UNCHANGED Mapped
<1> DEFINE s == entry[r]
<1>0. PICK i \in Id : i = event[r].id
  BY WebhookAssumption DEF FinishSpan, Invs, TypeInv, EventKept, EventRecords
<1>1. /\ UNCHANGED <<event, spans, started>> /\ pc[r] = "finish"
      /\ \A q \in Request \ {r} : pc'[q] = pc[q]
      /\ r \notin started
  BY DEF FinishSpan, Goto, Answer, Invs, TypeInv, TypeOK, AnswerInv, RequestInv
<1>2. s \in Request /\ spans[i] = s /\ finishedBy[s] = {}
  BY <1>0, <1>1 DEF Invs, OrderedInv, EndsCurrent, SpansInv, HoldsOwnSpan
<1>3. s # NoSpan /\ Tracked[i] = s
  BY <1>1, <1>2, WebhookAssumption DEF Tracked, Finished
<1>4. CASE finishedBy' = [finishedBy EXCEPT ![s] = @ \cup {r}]
  <2>1. \A q \in Request : Finished(q)' <=> Finished(q) \/ q = s
    BY <1>2, <1>4 DEF Finished, Invs, TypeInv, TypeOK
  <2>2. FinishedSpans' = FinishedSpans \cup {Tracked[i]}
    BY <1>2, <1>3, <2>1 DEF FinishedSpans
  <2>3. \A j \in Id : spans[j] = s => j = i
    BY <1>1, <1>2, <1>3 DEF Invs, SpansInv, StoreHoldsAcceptedSpans, S!Stored
  <2>4. Tracked' = [Tracked EXCEPT ![i] = NoSpan]
    BY <1>1, <1>2, <2>1, <2>3 DEF Tracked
  <2>5. event[s].id = i
    BY <1>0, <1>1 DEF Invs, SpansInv, HoldsOwnSpan
  <2>6. Lost' = Lost
    BY <1>1, <1>2, <2>1, <2>5 DEF Lost, Unreachable, Open
  <2>7. Tracking!Close(i)
    BY <1>3, <2>2, <2>4, <2>6 DEF Tracking!Close, Tracked, FinishedSpans, Lost
  <2>8. QED
    BY <1>1, <2>7
<1>5. CASE finishedBy' = finishedBy
  <2>1. Handle(r)
    BY DEF Handle
  <2>2. QED
    BY <1>1, <1>5, <2>1, LocalStutters
<1>6. QED
  BY <1>4, <1>5 DEF FinishSpan

\* Delete only takes away what this end has finished.
LEMMA DeleteSpanTracks ==
    ASSUME Invs, NEW r \in Request, DeleteSpan(r)
    PROVE  UNCHANGED Mapped
<1> DEFINE i == event[r].id
<1>1. /\ UNCHANGED <<event, started, finishedBy>> /\ pc[r] = "delete" /\ i \in Id
      /\ \A q \in Request \ {r} : pc'[q] = pc[q]
      /\ r \notin started
      /\ spans'[i] = NoSpan /\ \A j \in Id \ {i} : spans'[j] = spans[j]
  BY WebhookAssumption
  DEF DeleteSpan, Goto, Answer, tracer, S!Delete, S!Stores, Invs, TypeInv, TypeOK, EventKept,
      EventRecords, AnswerInv, RequestInv
<1>2. spans[i] \in Request /\ Finished(spans[i])
  BY DeletesFinished DEF Finished, Invs
<1>3. FinishedSpans' = FinishedSpans /\ Tracked' = Tracked
  BY <1>1, <1>2, WebhookAssumption DEF FinishedSpans, Finished, Tracked
<1>4. ASSUME NEW s \in Request, Open(s), pc[s] = "done"
      PROVE  spans'[event[s].id] # s <=> spans[event[s].id] # s
  <2>1. event[s].id \in Id
    BY <1>4, WebhookAssumption DEF Invs, TypeInv, EventKept, EventRecords
  <2>2. QED
    BY <1>1, <1>2, <1>4, <2>1, WebhookAssumption DEF Open
<1>5. Lost' = Lost
  BY <1>1, <1>4 DEF Lost, Unreachable, Open, Finished
<1>6. QED
  BY <1>3, <1>5 DEF Mapped

LEMMA TrackingInit == Init => Tracking!Init
BY WebhookAssumption DEF Init, Tracking!Init, Unreachable, Finished, Open, S!EmptyStore

LEMMA TrackingStep == Invs /\ [Next]_vars => [Tracking!Next]_(Tracking!trackingVars)
<1> SUFFICES ASSUME Invs, [Next]_vars PROVE Tracking!Next \/ UNCHANGED Mapped
  BY DEF Tracking!trackingVars, Mapped, Tracked, FinishedSpans, Lost
<1>1. CASE UNCHANGED vars
  BY <1>1 DEF vars, tracer, Mapped, Tracked, FinishedSpans, Lost, Unreachable, Finished, Open
<1>2. ASSUME NEW r \in Request, Receive(r) \/ Handle(r)
      PROVE  Tracking!Next \/ UNCHANGED Mapped
  <2>1. CASE StartSpan(r)
    BY <2>1, StartSpanTracks DEF Tracking!Next
  <2>2. CASE StoreSpan(r)
    BY <2>2, StoreSpanTracks DEF Tracking!Next
  <2>3. CASE FinishSpan(r)
    BY <2>3, FinishSpanTracks DEF Tracking!Next
  <2>4. CASE DeleteSpan(r)
    BY <2>4, DeleteSpanTracks
  <2>5. CASE Receive(r) \/ Dispatch(r) \/ StartLookup(r) \/ EndLookup(r)
    <3>1. UNCHANGED <<spans, started, finishedBy>> /\ r \notin started
      BY <2>5 DEF Receive, Dispatch, StartLookup, EndLookup, tracer, Invs, AnswerInv, RequestInv
    <3>2. QED
      BY <1>2, <3>1, LocalStutters
  <2>6. QED
    BY <1>2, <2>1, <2>2, <2>3, <2>4, <2>5 DEF Handle
<1>3. QED
  BY <1>1, <1>2 DEF Next

LEMMA InvsHold == ASSUME ~SameIdOverlap PROVE Spec => []Invs
BY TypeInvHolds, CountInvHolds, SpansInvHolds, AnswerInvHolds, OrderedInvHolds, PTL DEF Invs

\* With a sender that waits, the handlers keep the promise of SpanTracking:
\* each accepted span is open under its id, is finished once, and gets lost
\* only by a refusal or a replacement, as if every delivery took effect at once.
THEOREM WebhookImplementsTracking == ASSUME ~SameIdOverlap PROVE Spec => ImplementsTracking
BY TrackingInit, TrackingStep, InvsHold, PTL DEF Spec, ImplementsTracking, Tracking!Spec

\* No step of SpanTracking takes a span out of lost.
LEMMA TrackingKeepsLost ==
    Invs /\ [Next]_vars => [\A s \in Request : Unreachable(s) => Unreachable(s)']_vars
<1> SUFFICES ASSUME Invs, Next PROVE \A s \in Request : Unreachable(s) => Unreachable(s)'
  OBVIOUS
<1>1. Tracking!Next \/ UNCHANGED Mapped
  BY TrackingStep DEF Tracking!trackingVars, Mapped, Tracked, FinishedSpans, Lost
<1>2. CASE UNCHANGED Mapped
  BY <1>2 DEF Mapped, Lost
<1>3. CASE Tracking!Next
  <2>1. Lost \subseteq Lost'
    BY <1>3 DEF Tracking!Next, Tracking!Open, Tracking!Refuse, Tracking!Close, Lost
  <2>2. QED
    BY <2>1 DEF Lost
<1>4. QED
  BY <1>1, <1>2, <1>3

\* With a sender that waits, a span that no event leads to any more is out of
\* every handler's hands too.
THEOREM LostStaysLost == ASSUME ~SameIdOverlap PROVE Spec => LostForGood
BY TrackingKeepsLost, InvsHold, PTL DEF Spec, LostForGood

=============================================================================

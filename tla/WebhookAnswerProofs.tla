------------------------- MODULE WebhookAnswerProofs -------------------------
(***************************************************************************)
(* What a client is told, and where an open span is, for any interleaving  *)
(* of the handlers.  Both rest on what a request has done by the time it   *)
(* is at a call, which is a matter of that request alone.                  *)
(***************************************************************************)
EXTENDS WebhookProofs

Ended(r) == \E s \in Request : r \in finishedBy[s]

\* What request r has done so far, by the call it makes next: what it counted,
\* whether it started a span and whether it finished one.
RequestInv(r) ==
    /\ pc[r] \in {"new", "dispatch"} => counted[r] = {}
    /\ r \in started => pc[r] \in {"store", "done"}
    /\ Ended(r) => pc[r] \notin {"new", "dispatch", "endLookup", "finish"}
    /\ pc[r] = "delete" => Ended(r)
    /\ pc[r] # "new" =>
         /\ pc[r] \in {"startLookup", "startSpan", "store"} \/ r \in started =>
              event[r].state \in {"start", "transition"}
         /\ pc[r] \in {"startSpan", "store"} => "start" \in counted[r]
         /\ event[r].state = "ignored" => counted[r] = {}
         /\ event[r].state \in {"start", "transition"} /\ response[r] = "200" =>
              r \in started /\ "start" \in counted[r]
         /\ event[r].state = "end" /\ pc[r] = "done" => (Ended(r) <=> response[r] = "200")
         /\ /\ pc[r] \notin {"dispatch", "endLookup"} /\ event[r].state \in {"end", "transition"}
            /\ event[r].fault \notin {"malformed", "panic", "tag"}
            => "end" \in counted[r]

AnswerInv == \A r \in Request : RequestInv(r)

\* A step is one request's: it changes nothing of what the others have done,
\* and what was once started or finished stays so.
LEMMA StepIsLocal ==
    ASSUME TypeInv, NEW r \in Request, Receive(r) \/ Handle(r)
    PROVE  /\ \A q \in Request \ {r} :
                /\ pc'[q] = pc[q] /\ event'[q] = event[q] /\ entry'[q] = entry[q]
                /\ counted'[q] = counted[q] /\ response'[q] = response[q]
                /\ q \in started' <=> q \in started
                /\ \A s \in Request : q \in finishedBy'[s] <=> q \in finishedBy[s]
           /\ pc[r] # "new" => event'[r] = event[r]
           /\ pc[r] # "done" /\ pc'[r] # "new"
           /\ started \subseteq started'
           /\ \A s \in Request : finishedBy[s] \subseteq finishedBy'[s]
<1> USE DEF TypeInv, TypeOK, Goto, Answer, Measure, tracer, stats
<1>1. CASE Receive(r)
  BY <1>1 DEF Receive
<1>2. CASE Dispatch(r)
  BY <1>2 DEF Dispatch
<1>3. CASE StartLookup(r)
  BY <1>3 DEF StartLookup
<1>4. CASE StartSpan(r)
  BY <1>4 DEF StartSpan
<1>5. CASE StoreSpan(r)
  BY <1>5 DEF StoreSpan
<1>6. CASE EndLookup(r)
  BY <1>6 DEF EndLookup, EndFailed
<1>7. CASE FinishSpan(r)
  BY <1>7 DEF FinishSpan
<1>8. CASE DeleteSpan(r)
  BY <1>8 DEF DeleteSpan
<1>9. QED
  BY <1>1, <1>2, <1>3, <1>4, <1>5, <1>6, <1>7, <1>8 DEF Handle

\* Only FinishSpan finishes.
LEMMA OnlyFinishEnds ==
    ASSUME TypeInv, NEW r \in Request, Receive(r) \/ Handle(r), ~FinishSpan(r)
    PROVE  finishedBy' = finishedBy
BY DEF Handle, Receive, Dispatch, StartLookup, StartSpan, StoreSpan, EndLookup, DeleteSpan, tracer

LEMMA RequestKeepsInv ==
    ASSUME TypeInv, SpansInv, NEW r \in Request, RequestInv(r), Receive(r) \/ Handle(r)
    PROVE  RequestInv(r)'
<1> USE DEF TypeInv, TypeOK, Goto, Answer, Measure, tracer, stats
<1>1. CASE Receive(r)
  <2>1. ~Ended(r)'
    BY <1>1 DEF Receive, RequestInv, Ended
  <2>2. /\ pc'[r] = "dispatch" /\ counted'[r] = {} /\ r \notin started' /\ response'[r] = "none"
    BY <1>1 DEF Receive, RequestInv, SpansInv, AnsweredIsDone
  <2>3. QED
    BY <2>1, <2>2 DEF RequestInv
<1>2. CASE pc[r] # "new" /\ ~FinishSpan(r)
  <2>1. event'[r] = event[r] /\ (Ended(r)' <=> Ended(r)) /\ response[r] = "none"
    BY <1>2, StepIsLocal, OnlyFinishEnds DEF Ended, SpansInv, AnsweredIsDone
  <2>2. event[r] \in EventRecords
    BY <1>2, WebhookAssumption DEF EventKept
  <2>3. CASE Dispatch(r)
    BY <2>1, <2>2, <2>3 DEF Dispatch, RequestInv
  <2>4. CASE StartLookup(r)
    BY <2>1, <2>4 DEF StartLookup, RequestInv
  <2>5. CASE StartSpan(r)
    BY <2>1, <2>5 DEF StartSpan, RequestInv
  <2>6. CASE StoreSpan(r)
    BY <2>1, <2>6 DEF StoreSpan, RequestInv, SpansInv, StartedBeforeStore
  <2>7. CASE EndLookup(r)
    BY <2>1, <2>7 DEF EndLookup, EndFailed, IsTransition, RequestInv, SpansInv, StatesFit
  <2>8. CASE DeleteSpan(r)
    BY <2>1, <2>8 DEF DeleteSpan, IsTransition, RequestInv, SpansInv, StatesFit
  <2>9. QED
    BY <1>2, <2>3, <2>4, <2>5, <2>6, <2>7, <2>8 DEF Handle, Receive
<1>3. CASE FinishSpan(r)
  <2>1. pc[r] = "finish" /\ UNCHANGED <<event, started, counted>> /\ response[r] = "none"
    BY <1>3 DEF FinishSpan, SpansInv, AnsweredIsDone
  <2>2. \/ pc'[r] = "done" /\ response'[r] = "aborted" /\ finishedBy' = finishedBy
        \/ /\ pc'[r] = "delete" /\ response'[r] = "none"
           /\ finishedBy' = [finishedBy EXCEPT ![entry[r]] = @ \cup {r}]
    BY <1>3, <2>1 DEF FinishSpan
  <2>3. entry[r] \in Request /\ ~Ended(r)
    BY <2>1 DEF SpansInv, HoldsOwnSpan, RequestInv
  <2>4. Ended(r)' <=> pc'[r] = "delete"
    BY <2>2, <2>3 DEF Ended
  <2>5. QED
    BY <2>1, <2>2, <2>4 DEF RequestInv, SpansInv, StatesFit
<1>4. QED
  BY <1>1, <1>2, <1>3 DEF Handle, Receive, Dispatch, StartLookup, StartSpan, StoreSpan, EndLookup,
                          FinishSpan, DeleteSpan

LEMMA AnswerInvKept ==
    ASSUME TypeInv, SpansInv, AnswerInv, [Next]_vars
    PROVE  AnswerInv'
<1> SUFFICES ASSUME NEW q \in Request PROVE RequestInv(q)'
  BY DEF AnswerInv
<1>1. CASE UNCHANGED vars
  BY <1>1 DEF vars, tracer, stats, AnswerInv, RequestInv, Ended
<1>2. ASSUME NEW r \in Request, Receive(r) \/ Handle(r), q # r PROVE RequestInv(q)'
  <2>1. Ended(q)' <=> Ended(q)
    BY <1>2, StepIsLocal DEF Ended
  <2>2. QED
    BY <1>2, <2>1, StepIsLocal DEF AnswerInv, RequestInv
<1>3. ASSUME Receive(q) \/ Handle(q) PROVE RequestInv(q)'
  BY <1>3, RequestKeepsInv DEF AnswerInv
<1>4. QED
  BY <1>1, <1>2, <1>3 DEF Next

LEMMA AnswerInvInit == Init => AnswerInv
BY DEF Init, AnswerInv, RequestInv, Ended

LEMMA AnswerInvHolds == Spec => []AnswerInv
BY AnswerInvInit, AnswerInvKept, TypeInvHolds, SpansInvHolds, PTL DEF Spec

LEMMA AnswersFollow == TypeInv /\ SpansInv /\ AnswerInv => AnswerMatchesEffect
<1> SUFFICES ASSUME TypeInv, SpansInv, AnswerInv, NEW r \in Request, pc[r] = "done"
             PROVE  /\ response[r] = "200" =>
                         CASE event[r].state = "start" ->
                                (r \in started /\ "start" \in counted[r]) /\ ~Ended(r)
                           [] event[r].state = "transition" ->
                                r \in started /\ "start" \in counted[r]
                           [] event[r].state = "end" -> Ended(r) /\ r \notin started
                           [] event[r].state = "ignored" -> ~Ended(r) /\ counted[r] = {}
                    /\ response[r] = "400" /\ event[r].state = "end" => ~Ended(r)
                    /\ /\ event[r].state \in {"end", "transition"}
                       /\ event[r].fault \notin {"malformed", "panic", "tag"}
                       => "end" \in counted[r]
  BY DEF AnswerMatchesEffect, Ended, SpansInv, AnsweredIsDone
<1>1. RequestInv(r) /\ event[r].state \in States
  BY WebhookAssumption DEF AnswerInv, TypeInv, EventKept, EventRecords
<1>2. Ended(r) => event[r].state \in {"end", "transition"}
  BY DEF Ended, SpansInv, EndsOwnSpan
<1>3. QED
  BY <1>1, <1>2 DEF RequestInv, States

\* However handlers interleave, the answer that a client sees says what was
\* done for its event, and every end event that could be read was counted.
THEOREM AnswersAreTrue == Spec => []AnswerMatchesEffect
BY AnswersFollow, TypeInvHolds, SpansInvHolds, AnswerInvHolds, PTL

\* One step changes the store at one id at most: that of its own event.
LEMMA StoreChanges ==
    ASSUME TypeInv, SpansInv, NEW r \in Request, Receive(r) \/ Handle(r),
           NEW i \in Id, spans'[i] # spans[i]
    PROVE  /\ event[r].id = i
           /\ \/ StoreSpan(r) /\ spans'[i] = r /\ r \in started' /\ response'[r] = "200"
              \/ DeleteSpan(r) /\ spans'[i] = NoSpan
<1>1. StoreSpan(r) \/ DeleteSpan(r)
  BY DEF Handle, Receive, Dispatch, StartLookup, StartSpan, EndLookup, FinishSpan
<1>2. CASE StoreSpan(r)
  BY <1>2 DEF StoreSpan, S!Set, tracer, Answer, SpansInv, StartedBeforeStore, TypeInv, TypeOK,
              S!Stores
<1>3. CASE DeleteSpan(r)
  BY <1>3 DEF DeleteSpan, S!Delete, TypeInv, TypeOK, S!Stores
<1>4. QED
  BY <1>1, <1>2, <1>3

\* Delivery q took, or is about to take, the entry of span s.
Rival(s, q) ==
    /\ event[q].id = event[s].id
    /\ \/ q \in started /\ response[q] = "200"
       \/ pc[q] # "delete" /\ Ended(q)

LEMMA RivalStays ==
    ASSUME TypeInv, SpansInv, AnswerInv, NEW r \in Request, Receive(r) \/ Handle(r),
           NEW s \in Request, s # r, NEW q \in Request, Rival(s, q)
    PROVE  Rival(s, q)'
<1>1. event'[s] = event[s] /\ started \subseteq started' /\ (Ended(q) => Ended(q)')
  BY StepIsLocal DEF Ended
<1>2. CASE q # r
  BY <1>1, <1>2, StepIsLocal DEF Rival
<1>3. CASE q = r
  <2>1. Ended(r) /\ pc[r] \notin {"new", "finish", "delete"}
    BY <1>3, StepIsLocal DEF Rival, SpansInv, AnsweredIsDone, AnswerInv, RequestInv
  <2>2. pc'[r] # "delete"
    BY <2>1 DEF Handle, Receive, Dispatch, StartLookup, StartSpan, StoreSpan, EndLookup,
                EndFailed, FinishSpan, DeleteSpan, TypeInv, TypeOK, Goto, Answer
  <2>3. QED
    BY <1>1, <1>3, <2>1, <2>2, StepIsLocal DEF Rival
<1>4. QED
  BY <1>2, <1>3

\* A span that its own request starts and has accepted by this step is stored by it.
LEMMA AcceptedIsStored ==
    ASSUME TypeInv, SpansInv, AnswerInv, NEW r \in Request, Receive(r) \/ Handle(r),
           r \in started', response'[r] = "200"
    PROVE  /\ StoreSpan(r) /\ S!CanSet(spans) /\ event'[r] = event[r]
           /\ spans' = [spans EXCEPT ![event[r].id] = r]
<1>1. RequestInv(r) /\ response[r] = "none"
  BY StepIsLocal DEF AnswerInv, SpansInv, AnsweredIsDone, TypeInv, TypeOK
<1>2. StoreSpan(r)
  <2> USE <1>1 DEF TypeInv, TypeOK, Goto, Answer, tracer, stats
  <2>1. ~Receive(r)
    BY DEF Receive
  <2>2. ~Dispatch(r)
    BY DEF Dispatch, RequestInv
  <2>3. ~StartLookup(r) /\ ~StartSpan(r) /\ ~FinishSpan(r)
    BY DEF StartLookup, StartSpan, FinishSpan
  <2>4. ~EndLookup(r)
    BY DEF EndLookup, EndFailed
  <2>5. ~DeleteSpan(r)
    BY DEF DeleteSpan, RequestInv, IsTransition, SpansInv, StatesFit
  <2>6. QED
    BY <2>1, <2>2, <2>3, <2>4, <2>5 DEF Handle
<1>3. QED
  BY <1>2 DEF StoreSpan, S!Set, Answer, TypeInv, TypeOK

\* However handlers interleave, a span that was accepted and is still open is
\* found under its id, or it was a delivery of its own id that took it away.
THEOREM OpenSpansAreKept == Spec => []OpenSpanAccountedFor
<1>1. Init => OpenSpanAccountedFor
  BY DEF Init, OpenSpanAccountedFor, Open
<1>2. TypeInv /\ SpansInv /\ AnswerInv /\ OpenSpanAccountedFor /\ [Next]_vars
      => OpenSpanAccountedFor'
  <2> SUFFICES ASSUME TypeInv, SpansInv, AnswerInv, OpenSpanAccountedFor, [Next]_vars
               PROVE  OpenSpanAccountedFor'
    OBVIOUS
  <2>1. CASE UNCHANGED vars
    BY <2>1 DEF vars, tracer, OpenSpanAccountedFor, Open, Finished
  <2>2. ASSUME NEW r \in Request, Receive(r) \/ Handle(r),
               NEW s \in Request, Open(s)', response'[s] = "200"
        PROVE  spans'[event'[s].id] = s \/ \E q \in Request \ {s} : Rival(s, q)'
    <3>1. CASE s = r
      <4>1. /\ pc[r] = "store" /\ event'[r] = event[r]
            /\ spans' = [spans EXCEPT ![event[r].id] = r]
        BY <2>2, <3>1, AcceptedIsStored DEF Open, StoreSpan
      <4>2. event[r].id \in Id
        BY <4>1, WebhookAssumption DEF TypeInv, EventKept, EventRecords
      <4>3. QED
        BY <3>1, <4>1, <4>2 DEF TypeInv, TypeOK, S!Stores
    <3>2. CASE s # r
      <4>1. /\ s \in started /\ response[s] = "200" /\ event'[s] = event[s] /\ pc[s] = "done"
            /\ finishedBy[s] = {}
        BY <2>2, <3>2, StepIsLocal DEF Open, Finished, SpansInv, AnsweredIsDone
      <4>2. event[s].id \in Id
        BY <4>1, WebhookAssumption DEF TypeInv, EventKept, EventRecords
      <4>3. spans[event[s].id] = s \/ \E q \in Request \ {s} : Rival(s, q)
        BY <4>1 DEF OpenSpanAccountedFor, Open, Finished, Rival, Ended
      <4>4. CASE spans[event[s].id] = s /\ spans'[event[s].id] # s
        <5>1. /\ event[r].id = event[s].id
              /\ \/ StoreSpan(r) /\ r \in started' /\ response'[r] = "200"
                 \/ DeleteSpan(r)
          BY <2>2, <4>2, <4>4, StoreChanges
        <5>2. event'[r] = event[r]
          BY <5>1 DEF StoreSpan, DeleteSpan
        <5>3. DeleteSpan(r) => pc'[r] # "delete" /\ Ended(r)'
          BY DEF DeleteSpan, Goto, Answer, AnswerInv, RequestInv, Ended, tracer, TypeInv, TypeOK
        <5>4. QED
          BY <3>2, <4>1, <5>1, <5>2, <5>3 DEF Rival
      <4>5. QED
        BY <2>2, <3>2, <4>1, <4>3, <4>4, RivalStays
    <3>3. QED
      BY <3>1, <3>2
  <2>3. QED
    <3>1. ASSUME NEW s \in Request, NEW q \in Request, Rival(s, q)'
          PROVE  /\ event'[q].id = event'[s].id
                 /\ \/ q \in started' /\ response'[q] = "200"
                    \/ pc'[q] # "delete" /\ \E t \in Request : q \in finishedBy'[t]
      BY <3>1 DEF Rival, Ended
    <3>2. QED
      BY <2>1, <2>2, <3>1 DEF Next, OpenSpanAccountedFor
<1>3. QED
  BY <1>1, <1>2, TypeInvHolds, SpansInvHolds, AnswerInvHolds, PTL DEF Spec

=============================================================================

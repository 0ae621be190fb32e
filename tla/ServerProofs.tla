---------------------------- MODULE ServerProofs ----------------------------
(***************************************************************************)
(* Theorems about Server, for any requests, ids, events, bound and number  *)
(* of resets: what the handlers guarantee survives the resets of the mock  *)
(* tracer, a quiet reset separates, and a start that fails closes what it  *)
(* opened.                                                                 *)
(***************************************************************************)
EXTENDS Server, WebhookOrderedProofs, SequenceTheorems

SourceNames == {"github", "gitlab", "customhttp", "jenkins", "jira"}

\* Which tracers are open: those of the first sources; closers run backwards
\* from the last of them, and only while no handler can have begun.
ClosersInv ==
    /\ built \in Seq(SourceNames) /\ closed \in Seq(SourceNames)
    /\ Len(built) <= Len(Sources)
    /\ \A k \in 1 .. Len(built) : built[k] = Sources[k]
    /\ Len(closed) <= Len(built)
    /\ \A k \in 1 .. Len(closed) : closed[k] = built[(Len(built) - k) + 1]
    /\ closed # <<>> => main = "unwinding"
    /\ main \in {"sources", "unwinding"} =>
         listener = "none" /\ started = {} /\ \A r \in Request : pc[r] = "new"
    /\ exit = "1" /\ main = "unwinding" => Len(closed) = Len(built)

\* A span of before the last quiet reset is in no handler's hands, and while
\* the present reset is quiet nothing is listed.
ResetInv ==
    /\ \A r \in Request : pc[r] \in {"finish", "delete"} => entry[r] \notin before
    /\ \A r \in before : pc[r] = "done"
    /\ quiet => reported = {} /\ \A r \in Request : ~InFlight(r)

HandlerInv == TypeInv /\ CountInv /\ SpansInv /\ AnswerInv

ServerInv == HandlerInv /\ ServerTypeOK /\ ClosersInv /\ ResetInv /\ ResetSeparates

LEMMA SourcesType == Sources \in Seq(SourceNames) /\ Len(Sources) = 5
BY DEF Sources, SourceNames

\* A step of the process is a step of a handler, a step that no handler sees,
\* or the second half of a reset.
LEMMA ServerStepForHandlers ==
    ASSUME ServerNext
    PROVE  [Next]_vars \/ DeleteAll
BY DEF ServerNext, BuildSource, StartFails, Unwind, Fatal, Started, Notify, Listen, Accept, Serve,
       Signal, Kill, ServeFails, DeadlineExpires, Exit, MonitorReads, MonitorRecords, ResetTracer,
       Next

LEMMA HandlerInvKept ==
    ASSUME HandlerInv, [ServerNext]_serverVars
    PROVE  HandlerInv'
<1>1. CASE [Next]_vars
  BY <1>1, TypeInvKept, CountInvKept, SpansInvKept, AnswerInvKept DEF HandlerInv
<1>2. CASE DeleteAll
  <2>1. /\ UNCHANGED <<pc, event, entry, started, parentOf, finishedBy, counted, latency, response>>
        /\ spans' = S!EmptyStore
    BY <1>2 DEF DeleteAll, tracer, stats
  <2>2. S!Stored(spans)' = {}
    BY <2>1 DEF S!Stored, S!EmptyStore
  <2>3. TypeInv'
    BY <2>1 DEF HandlerInv, TypeInv, TypeOK, EventKept, S!Stores, S!EmptyStore
  <2>4. CountInv'
    BY <2>2, FS_EmptySet, CountIsCardinality, WebhookAssumption DEF CountInv, StoreBounded
  <2>5. SpansInv'
    BY <2>1, <2>2 DEF HandlerInv, SpansInv, AnsweredIsDone, StatesFit, StartedBeforeStore,
          FinishersHaveEvents, HoldsOwnSpan, StoreHoldsAcceptedSpans, EndsOwnSpan, FinishedLeavesStore
  <2>6. AnswerInv'
    BY <2>1 DEF HandlerInv, AnswerInv, RequestInv, Ended
  <2>7. QED
    BY <2>3, <2>4, <2>5, <2>6 DEF HandlerInv
<1>3. CASE UNCHANGED serverVars
  BY <1>1, <1>3 DEF serverVars
<1>4. QED
  BY <1>1, <1>2, <1>3, ServerStepForHandlers

LEMMA ClosersInvKept ==
    ASSUME HandlerInv, ClosersInv, [ServerNext]_serverVars
    PROVE  ClosersInv'
<1> USE SourcesType
<1>1. CASE UNCHANGED serverVars
  BY <1>1 DEF serverVars, vars, tracer, processVars, startVars, ClosersInv
<1>2. CASE BuildSource /\ exit = "running"
  <2>1. /\ UNCHANGED <<pc, started, closed, main, listener, exit>>
        /\ built' = Append(built, Sources[Len(built) + 1]) /\ main = "sources"
        /\ Len(built) \in Nat /\ Len(built) < 5
    BY <1>2 DEF BuildSource, vars, tracer, ClosersInv
  <2>2. closed = <<>>
    BY <2>1 DEF ClosersInv
  <2>3. Sources[Len(built) + 1] \in SourceNames
    BY <2>1, ElementOfSeq
  <2>4. /\ built' \in Seq(SourceNames) /\ Len(built') = Len(built) + 1
        /\ \A k \in 1 .. Len(built') : built'[k] = Sources[k]
    BY <2>1, <2>3, AppendProperties DEF ClosersInv
  <2>5. QED
    BY <1>2, <2>1, <2>2, <2>4 DEF ClosersInv
<1>3. CASE Unwind /\ exit = "running"
  <2>1. /\ UNCHANGED <<pc, started, built, main, listener, exit>>
        /\ closed' = Append(closed, built[Len(built) - Len(closed)]) /\ main = "unwinding"
        /\ Len(built) \in Nat /\ Len(closed) \in Nat /\ Len(closed) < Len(built)
    BY <1>3 DEF Unwind, vars, tracer, ClosersInv
  <2>2. built[Len(built) - Len(closed)] \in SourceNames
    BY <2>1, ElementOfSeq DEF ClosersInv
  <2>3. /\ closed' \in Seq(SourceNames) /\ Len(closed') = Len(closed) + 1
        /\ \A k \in 1 .. Len(closed') : closed'[k] = built[(Len(built) - k) + 1]
    BY <2>1, <2>2, AppendProperties DEF ClosersInv
  <2>4. QED
    BY <1>3, <2>1, <2>3 DEF ClosersInv
<1>4. CASE exit = "running" /\ (StartFails \/ Fatal \/ Started \/ Notify)
  BY <1>4 DEF StartFails, Fatal, Started, Notify, vars, tracer, startVars, ClosersInv
<1>5. CASE Listen \/ Signal \/ Kill \/ ServeFails \/ DeadlineExpires \/ Exit
  BY <1>5 DEF Listen, Signal, Kill, ServeFails, DeadlineExpires, Exit, vars, tracer, startVars,
              ClosersInv
<1>6. CASE MonitorReads \/ MonitorRecords \/ ResetTracer \/ DeleteAll
  BY <1>6 DEF MonitorReads, MonitorRecords, ResetTracer, DeleteAll, vars, tracer, processVars,
              startVars, ClosersInv
<1>7. ASSUME NEW r \in Request, Accept(r) \/ Serve(r) PROVE ClosersInv'
  <2>1. UNCHANGED <<built, closed, main, listener, exit>>
    BY <1>7 DEF Accept, Serve, processVars, startVars
  <2>2. main \notin {"sources", "unwinding"}
    BY <1>7 DEF Accept, Serve, Handle, Dispatch, StartLookup, StartSpan, StoreSpan, EndLookup,
                FinishSpan, DeleteSpan, ClosersInv
  <2>3. QED
    BY <2>1, <2>2 DEF ClosersInv
<1>8. QED
  BY <1>1, <1>2, <1>3, <1>4, <1>5, <1>6, <1>7 DEF ServerNext

LEMMA ResetInvKept ==
    ASSUME HandlerInv, ServerTypeOK, ResetInv, ResetSeparates, [ServerNext]_serverVars
    PROVE  ResetInv' /\ ResetSeparates'
<1> USE DEF ResetInv, ResetSeparates
<1>1. CASE UNCHANGED <<pc, entry, spans, reported, before, quiet>>
  BY <1>1 DEF InFlight
<1>2. CASE ResetTracer
  BY <1>2 DEF ResetTracer, vars, InFlight
<1>3. CASE DeleteAll
  <2>1. /\ UNCHANGED <<pc, entry, reported, quiet>> /\ spans' = S!EmptyStore
        /\ before' = IF quiet THEN started ELSE {}
    BY <1>3 DEF DeleteAll
  <2>2. \A i \in Id : spans'[i] \notin before'
    BY <2>1, WebhookAssumption DEF S!EmptyStore, HandlerInv, TypeInv, TypeOK
  <2>3. CASE quiet
    <3>1. \A r \in Request : pc[r] \in {"new", "done"}
      BY <2>3 DEF InFlight
    <3>2. \A r \in started : pc[r] = "done"
      BY <3>1 DEF HandlerInv, AnswerInv, RequestInv, TypeInv, TypeOK
    <3>3. QED
      BY <2>1, <2>2, <2>3, <3>1, <3>2 DEF InFlight
  <2>4. CASE ~quiet
    BY <2>1, <2>2, <2>4
  <2>5. QED
    BY <2>3, <2>4
<1>4. ASSUME NEW r \in Request, Accept(r) PROVE ResetInv' /\ ResetSeparates'
  BY <1>4 DEF Accept, Receive, Goto, HandlerInv, TypeInv, TypeOK
<1>5. ASSUME NEW r \in Request, Serve(r) PROVE ResetInv' /\ ResetSeparates'
  <2>1. /\ Handle(r) /\ UNCHANGED <<before, quiet>>
        /\ reported' \subseteq reported \cup {s \in Request : finishedBy'[s] # finishedBy[s]}
    BY <1>5 DEF Serve, resetVars
  <2>2. /\ \A q \in Request \ {r} : pc'[q] = pc[q] /\ entry'[q] = entry[q]
        /\ pc[r] \notin {"new", "done"}
    BY <2>1, StepIsLocal DEF HandlerInv, Handle, Dispatch, StartLookup, StartSpan, StoreSpan,
                             EndLookup, FinishSpan, DeleteSpan
  <2>3. r \notin before /\ ~quiet
    BY <2>2 DEF InFlight
  <2>4. \A s \in Request : finishedBy'[s] # finishedBy[s] => s \notin before
    <3>1. CASE FinishSpan(r)
      BY <3>1 DEF FinishSpan, HandlerInv, TypeInv, TypeOK
    <3>2. CASE ~FinishSpan(r)
      BY <2>1, <3>2, OnlyFinishEnds DEF HandlerInv
    <3>3. QED
      BY <3>1, <3>2
  <2>5. \A i \in Id : spans'[i] \notin before
    <3>1. NoSpan \notin before
      BY WebhookAssumption DEF ServerTypeOK, TypeOK
    <3>2. QED
      BY <2>1, <2>3, <3>1, StoreChanges DEF HandlerInv
  <2>6. pc'[r] \in {"finish", "delete"} => entry'[r] \notin before
    <3>1. CASE EndLookup(r)
      <4>1. event[r].id \in Id
        BY <3>1, WebhookAssumption DEF EndLookup, HandlerInv, TypeInv, EventKept, EventRecords
      <4>2. QED
        BY <3>1, <4>1 DEF EndLookup, EndFailed, IsTransition, Goto, Answer, S!Get, HandlerInv,
                          TypeInv, TypeOK
    <3>2. CASE FinishSpan(r)
      BY <3>2 DEF FinishSpan
    <3>3. CASE ~EndLookup(r) /\ ~FinishSpan(r)
      BY <2>1, <3>3 DEF Handle, Dispatch, StartLookup, StartSpan, StoreSpan, DeleteSpan, Goto,
                        Answer, HandlerInv, TypeInv, TypeOK
    <3>4. QED
      BY <3>1, <3>2, <3>3
  <2>7. ~quiet'
    BY <2>1, <2>3, Zenon
  <2>8. reported' \cap before' = {}
    BY <2>1, <2>4
  <2>9. before' = before
    BY <2>1
  <2>10. \A q \in Request : pc'[q] \in {"finish", "delete"} => entry'[q] \notin before'
    BY <2>2, <2>6, <2>9
  <2>11. \A q \in before' : pc'[q] = "done"
    BY <2>2, <2>3, <2>9, WebhookAssumption DEF ServerTypeOK, TypeOK
  <2>12. QED
    BY <2>5, <2>7, <2>8, <2>9, <2>10, <2>11, Zenon
<1>6. QED
  <2>1. ASSUME ServerNext, ~ResetTracer, ~DeleteAll, \A r \in Request : ~Accept(r) /\ ~Serve(r)
        PROVE  UNCHANGED <<pc, entry, spans, reported, before, quiet>>
    BY <2>1 DEF ServerNext, BuildSource, StartFails, Unwind, Fatal, Started, Notify, Listen, Signal,
                Kill, ServeFails, DeadlineExpires, Exit, MonitorReads, MonitorRecords, vars, resetVars
  <2>2. CASE UNCHANGED serverVars
    BY <1>1, <2>2 DEF serverVars, vars, resetVars
  <2>3. QED
    BY <1>1, <1>2, <1>3, <1>4, <1>5, <2>1, <2>2

LEMMA FirstSourcesArePrefix ==
    ASSUME NEW b \in Seq(SourceNames), Len(b) <= Len(Sources),
           \A k \in 1 .. Len(b) : b[k] = Sources[k]
    PROVE  IsPrefix(b, Sources)
<1>1. Len(b) \in Nat
  BY LenProperties
<1>2. SubSeq(b, 1, Len(b)) = b
  BY SubSeqFull
<1>3. \A k \in 1 .. Len(b) : Sources[k] \in SourceNames
  BY SourcesType, <1>1, ElementOfSeq
<1>4. /\ SubSeq(Sources, 1, Len(b)) \in Seq(SourceNames)
      /\ Len(SubSeq(Sources, 1, Len(b))) = Len(b)
      /\ \A k \in 1 .. Len(b) : SubSeq(Sources, 1, Len(b))[k] = Sources[k]
  BY <1>1, <1>3, SubSeqProperties
<1>5. SubSeq(Sources, 1, Len(b)) = b
  BY <1>4, SeqEqual
<1>6. QED
  BY <1>2, <1>5 DEF IsPrefix

\* The reset and the mock tracer only ever list what was started.
LEMMA ListedAreStarted ==
    ASSUME HandlerInv, ServerTypeOK, [ServerNext]_serverVars
    PROVE  reported' \subseteq started' /\ before' \subseteq started'
<1>1. reported \subseteq started /\ before \subseteq started
  BY DEF ServerTypeOK
<1>2. CASE UNCHANGED <<started, reported, before>>
  BY <1>1, <1>2
<1>3. CASE ResetTracer
  BY <1>1, <1>3 DEF ResetTracer, vars, tracer
<1>4. CASE DeleteAll
  BY <1>1, <1>4 DEF DeleteAll, tracer
<1>5. ASSUME NEW r \in Request, Accept(r) PROVE reported' \subseteq started' /\ before' \subseteq started'
  BY <1>1, <1>5 DEF Accept, Receive, tracer
<1>6. ASSUME NEW r \in Request, Serve(r) PROVE reported' \subseteq started' /\ before' \subseteq started'
  <2>1. /\ started \subseteq started' /\ before' = before
        /\ reported' \subseteq reported \cup {s \in Request : finishedBy'[s] # finishedBy[s]}
    BY <1>6, StepIsLocal DEF Serve, resetVars, HandlerInv
  <2>2. \A s \in Request : finishedBy'[s] # finishedBy[s] => s \in started
    <3>1. CASE FinishSpan(r)
      BY <3>1 DEF FinishSpan, HandlerInv, TypeInv, TypeOK, SpansInv, HoldsOwnSpan
    <3>2. CASE ~FinishSpan(r)
      BY <1>6, <3>2, OnlyFinishEnds DEF Serve, HandlerInv
    <3>3. QED
      BY <3>1, <3>2
  <2>3. QED
    BY <1>1, <2>1, <2>2
<1>7. QED
  <2>1. ASSUME ServerNext, ~ResetTracer, ~DeleteAll, \A r \in Request : ~Accept(r) /\ ~Serve(r)
        PROVE  UNCHANGED <<started, reported, before>>
    BY <2>1 DEF ServerNext, BuildSource, StartFails, Unwind, Fatal, Started, Notify, Listen, Signal,
                Kill, ServeFails, DeadlineExpires, Exit, MonitorReads, MonitorRecords, vars, tracer,
                resetVars
  <2>2. CASE UNCHANGED serverVars
    BY <1>2, <2>2 DEF serverVars, vars, tracer, resetVars
  <2>3. QED
    BY <1>2, <1>3, <1>4, <1>5, <1>6, <2>1, <2>2

LEMMA ServerTypeKept ==
    ASSUME HandlerInv, HandlerInv', ServerTypeOK, ClosersInv', [ServerNext]_serverVars
    PROVE  ServerTypeOK'
<1> DEFINE ProcessType == /\ backend \in Backends
                          /\ main \in {"sources", "unwinding", "notify", "waiting", "shutdown"}
                          /\ listener \in {"none", "open", "closed"}
                          /\ exit \in {"running", "0", "1", "killed"}
           FlagsType == /\ signalled \in BOOLEAN /\ deadline \in BOOLEAN
           MonitorType == sample \in Nat \cup {NoSample} /\ gauge \in Nat
           ResetType == resetting \in {"idle", "deleteAll"} /\ resets \in 0 .. MaxResets
<1>1. ProcessType /\ FlagsType /\ MonitorType /\ ResetType /\ quiet \in BOOLEAN
  BY DEF ServerTypeOK
<1>2. S!Count(spans) \in Nat
  BY CountIsCardinality, FS_CardinalityType DEF HandlerInv, CountInv
<1>3. ProcessType'
  BY <1>1 DEF ServerNext, BuildSource, StartFails, Unwind, Fatal, Started, Notify, Listen, Accept,
       Serve, Signal, Kill, ServeFails, DeadlineExpires, Exit, MonitorReads, MonitorRecords,
       ResetTracer, DeleteAll, serverVars, processVars, startVars
<1>4. FlagsType'
  BY <1>1 DEF ServerNext, BuildSource, StartFails, Unwind, Fatal, Started, Notify, Listen, Accept,
       Serve, Signal, Kill, ServeFails, DeadlineExpires, Exit, MonitorReads, MonitorRecords,
       ResetTracer, DeleteAll, serverVars, processVars, startVars
<1>5. MonitorType'
  BY <1>1, <1>2 DEF ServerNext, BuildSource, StartFails, Unwind, Fatal, Started, Notify, Listen,
       Accept, Serve, Signal, Kill, ServeFails, DeadlineExpires, Exit, MonitorReads, MonitorRecords,
       ResetTracer, DeleteAll, serverVars, monitorVars, NoSample
<1>6. ResetType'
  BY <1>1, ServerAssumption
  DEF ServerNext, BuildSource, StartFails, Unwind, Fatal, Started, Notify, Listen, Accept,
       Serve, Signal, Kill, ServeFails, DeadlineExpires, Exit, MonitorReads, MonitorRecords,
       ResetTracer, DeleteAll, serverVars, resetVars
<1>7. quiet' \in BOOLEAN
  BY <1>1
  DEF ServerNext, BuildSource, StartFails, Unwind, Fatal, Started, Notify, Listen, Accept,
       Serve, Signal, Kill, ServeFails, DeadlineExpires, Exit, MonitorReads, MonitorRecords,
       ResetTracer, DeleteAll, serverVars, resetVars
<1>8. IsPrefix(built', Sources) /\ Len(closed') <= Len(built')
  BY FirstSourcesArePrefix DEF ClosersInv
<1>9. TypeOK'
  BY DEF HandlerInv, TypeInv
<1>10. QED
  BY <1>3, <1>4, <1>5, <1>6, <1>7, <1>8, <1>9, ListedAreStarted DEF ServerTypeOK

LEMMA ServerInvHolds == ServerSpec => []ServerInv
<1>1. ServerInit => ServerInv
  <2> SUFFICES ASSUME ServerInit PROVE ServerInv
    OBVIOUS
  <2>1. HandlerInv
    BY TypeInvInit, CountInvInit, SpansInvInit, AnswerInvInit DEF ServerInit, HandlerInv
  <2>2. ServerTypeOK
    <3>1. <<>> \in Seq(SourceNames) /\ Len(<<>>) = 0
      OBVIOUS
    <3>2. \A k \in 1 .. Len(<<>>) : <<>>[k] = Sources[k]
      <4>1. 1 .. Len(<<>>) = {}
        BY <3>1
      <4>2. QED
        BY <4>1, Zenon
    <3>3. Len(<<>>) <= Len(Sources)
      BY <3>1, SourcesType
    <3>4. IsPrefix(<<>>, Sources)
      BY <3>1, <3>2, <3>3, FirstSourcesArePrefix, Zenon
    <3>5. TypeOK
      BY <2>1 DEF HandlerInv, TypeInv
    <3>6. IsPrefix(built, Sources) /\ Len(closed) <= Len(built)
      BY <3>1, <3>4 DEF ServerInit
    <3>7. {signalled, deadline, quiet} \subseteq BOOLEAN
      BY DEF ServerInit
    <3>8. /\ backend \in Backends /\ main = "sources" /\ listener = "none" /\ exit = "running"
          /\ sample = NoSample /\ gauge = 0 /\ reported = {} /\ before = {} /\ resetting = "idle"
      BY DEF ServerInit
    <3>9. resets \in 0 .. MaxResets
      BY ServerAssumption DEF ServerInit
    <3>10. QED
      BY <3>5, <3>6, <3>7, <3>8, <3>9 DEF ServerTypeOK
  <2>3. ClosersInv
    BY SourcesType, EmptySeq DEF ServerInit, Init, ClosersInv
  <2>4. ResetInv /\ ResetSeparates
    BY DEF ServerInit, Init, ResetInv, ResetSeparates
  <2>5. QED
    BY <2>1, <2>2, <2>3, <2>4 DEF ServerInv
<1>2. ServerInv /\ [ServerNext]_serverVars => ServerInv'
  <2> SUFFICES ASSUME ServerInv, [ServerNext]_serverVars PROVE ServerInv'
    OBVIOUS
  <2>1. HandlerInv' /\ ClosersInv' /\ ResetInv' /\ ResetSeparates'
    BY HandlerInvKept, ClosersInvKept, ResetInvKept DEF ServerInv
  <2>2. ServerTypeOK'
    BY <2>1, ServerTypeKept DEF ServerInv
  <2>3. QED
    BY <2>1, <2>2 DEF ServerInv
<1>3. QED
  BY <1>1, <1>2, PTL DEF ServerSpec

LEMMA BackwardsIsReverse ==
    ASSUME NEW Elem, NEW b \in Seq(Elem), NEW c \in Seq(Elem), Len(c) = Len(b),
           \A k \in 1 .. Len(c) : c[k] = b[(Len(b) - k) + 1]
    PROVE  c = Reverse(b)
<1>1. Len(b) \in Nat
  BY LenProperties
<1>2. \A k \in 1 .. Len(b) : b[(Len(b) - k) + 1] \in Elem
  BY <1>1, ElementOfSeq
<1>3. /\ Reverse(b) \in Seq(Elem) /\ Len(Reverse(b)) = Len(b)
      /\ \A k \in 1 .. Len(b) : Reverse(b)[k] = b[(Len(b) - k) + 1]
  BY <1>1, <1>2 DEF Reverse
<1>4. QED
  BY <1>3, SeqEqual

\* Around the handlers, nothing of main.go, of the monitor or of a reset that
\* comes between two of their steps takes a variable out of its type.
THEOREM ServerTypeCorrect == ServerSpec => []ServerTypeOK
<1>1. ServerInv => ServerTypeOK
  BY DEF ServerInv
<1>2. QED
  BY <1>1, ServerInvHolds, PTL

\* HTTPMockTracer.Reset, two steps without a lock over both, separates the
\* tests before it from those after it if no handler runs at any moment of it.
THEOREM QuietResetSeparates == ServerSpec => []ResetSeparates
<1>1. ServerInv => ResetSeparates
  BY DEF ServerInv
<1>2. QED
  BY <1>1, ServerInvHolds, PTL

\* The deferred closers of main.go: a start that fails with any number of its
\* tracers open closes each of them, backwards; no other end closes one.
THEOREM StartUnwinds == ServerSpec => []FailedStartClosesAll
<1>1. ServerInv => FailedStartClosesAll
  <2> SUFFICES ASSUME ServerInv PROVE FailedStartClosesAll
    OBVIOUS
  <2>1. closed # <<>> => main = "unwinding" /\ started = {}
    BY DEF ServerInv, ClosersInv
  <2>2. exit = "1" /\ main = "unwinding" => closed = Reverse(built)
    BY BackwardsIsReverse DEF ServerInv, ClosersInv
  <2>3. QED
    BY <2>1, <2>2 DEF FailedStartClosesAll
<1>2. QED
  BY <1>1, ServerInvHolds, PTL

\* BufferedSpans.DeleteAll may come between any two steps of any handlers: they
\* still keep the store within its bound, end only the spans of their own ids
\* and leave no span in the store that was finished.
THEOREM HandlersSurviveResets ==
    ServerSpec => [](StoreBounded /\ EndsOwnSpan /\ FinishedLeavesStore /\ AnswerMatchesEffect)
<1>1. ServerInv => StoreBounded /\ EndsOwnSpan /\ FinishedLeavesStore /\ AnswerMatchesEffect
  BY AnswersFollow DEF ServerInv, HandlerInv, CountInv, SpansInv
<1>2. QED
  BY <1>1, ServerInvHolds, PTL

-----------------------------------------------------------------------------
(***************************************************************************)
(* A reset takes what an end looked up away from it, but gives it to       *)
(* nobody else: with senders that wait, that end alone can finish it.      *)
(***************************************************************************)
OnceInv ==
    /\ OneInFlight
    /\ FinishedByOne
    /\ \A r \in Request : pc[r] = "finish" => finishedBy[entry[r]] = {}

LEMMA OnceInvKeptByHandlers ==
    ASSUME ~SameIdOverlap, TypeInv, SpansInv, OnceInv, NEW r \in Request, Receive(r) \/ Handle(r)
    PROVE  OnceInv'
<1>1. OneInFlight'
  BY SendersWait, OneInFlightKept DEF OnceInv
<1>2. FinishedByOne'
  <2>1. CASE FinishSpan(r)
    BY <2>1 DEF FinishSpan, SpansInv, HoldsOwnSpan, OnceInv, FinishedByOne, TypeInv, TypeOK
  <2>2. QED
    BY <2>1, OnlyFinishEnds DEF OnceInv, FinishedByOne
<1>3. ASSUME NEW q \in Request, pc'[q] = "finish" PROVE finishedBy'[entry'[q]] = {}
  <2>1. CASE q # r
    <3>1. pc[q] = "finish" /\ entry'[q] = entry[q] /\ finishedBy[entry[q]] = {}
      BY <1>3, <2>1, StepIsLocal DEF OnceInv
    <3>2. CASE FinishSpan(r)
      <4>1. pc[r] = "finish" /\ event[r].id # event[q].id
        BY <2>1, <3>1, <3>2 DEF FinishSpan, OnceInv, OneInFlight, InFlight
      <4>2. entry[r] # entry[q] /\ entry[r] \in Request /\ entry[q] \in Request
        BY <3>1, <4>1 DEF SpansInv, HoldsOwnSpan
      <4>3. QED
        BY <3>1, <3>2, <4>2 DEF FinishSpan, TypeInv, TypeOK
    <3>3. QED
      BY <3>1, <3>2, OnlyFinishEnds
  <2>2. CASE q = r
    <3>1. EndLookup(r)
      BY <1>3, <2>2 DEF Receive, Handle, Dispatch, StartLookup, StartSpan, StoreSpan, FinishSpan,
                        DeleteSpan, Goto, Answer, TypeInv, TypeOK
    <3>2. /\ pc[r] = "endLookup" /\ finishedBy' = finishedBy
          /\ spans[event[r].id] # NoSpan /\ entry'[r] = spans[event[r].id]
      BY <1>3, <2>2, <3>1
      DEF EndLookup, EndFailed, IsTransition, Goto, Answer, TypeInv, TypeOK, S!Get, tracer
    <3>3. QED
      BY <2>2, <3>2, LookupIsUnfinished DEF OnceInv
  <2>3. QED
    BY <2>1, <2>2
<1>4. QED
  BY <1>1, <1>2, <1>3 DEF OnceInv

\* Under --tracer=mock too, and however the two halves of its resets come
\* between the steps of the handlers, no span is finished twice if senders wait.
THEOREM ProcessFinishesOnce == ASSUME ~SameIdOverlap PROVE ServerSpec => []FinishedOnce
<1>1. ServerInit => OnceInv
  BY DEF ServerInit, Init, OnceInv, OneInFlight, InFlight, FinishedByOne
<1>2. HandlerInv /\ OnceInv /\ [ServerNext]_serverVars => OnceInv'
  <2> SUFFICES ASSUME HandlerInv, OnceInv, [ServerNext]_serverVars PROVE OnceInv'
    OBVIOUS
  <2>1. CASE UNCHANGED <<pc, event, entry, finishedBy>>
    BY <2>1 DEF OnceInv, OneInFlight, InFlight, FinishedByOne
  <2>2. ASSUME NEW r \in Request, Receive(r) \/ Handle(r) PROVE OnceInv'
    BY <2>2, OnceInvKeptByHandlers DEF HandlerInv
  <2>3. UNCHANGED <<pc, event, entry, finishedBy>> \/ \E r \in Request : Receive(r) \/ Handle(r)
    BY ServerStepForHandlers DEF serverVars, vars, tracer, DeleteAll, Next
  <2>4. QED
    BY <2>1, <2>2, <2>3
<1>3. HandlerInv /\ OnceInv => FinishedOnce
  BY OneFinisher DEF HandlerInv, OnceInv
<1>4. ServerSpec => []HandlerInv
  BY ServerInvHolds, PTL DEF ServerInv
<1>5. QED
  BY <1>1, <1>2, <1>3, <1>4, PTL DEF ServerSpec

-----------------------------------------------------------------------------
(***************************************************************************)
(* With a real tracer nobody resets anything: the process is the handlers  *)
(* of Webhook and steps that they do not see, and keeps their contract.    *)
(***************************************************************************)
NeverReset == backend # "mock" /\ resetting = "idle"

LEMMA NeverResetKept == NeverReset /\ [ServerNext]_serverVars => NeverReset'
<1> SUFFICES ASSUME NeverReset, [ServerNext]_serverVars PROVE NeverReset'
  OBVIOUS
<1>1. UNCHANGED <<backend, resetting>>
  BY DEF NeverReset, ServerNext, BuildSource, StartFails, Unwind, Fatal, Started, Notify, Listen,
         Accept, Serve, Signal, Kill, ServeFails, DeadlineExpires, Exit, MonitorReads,
         MonitorRecords, ResetTracer, DeleteAll, serverVars, processVars, startVars, resetVars
<1>2. QED
  BY <1>1 DEF NeverReset

LEMMA StepsAreHandlers == NeverReset /\ [ServerNext]_serverVars => [Next]_vars
<1> SUFFICES ASSUME NeverReset, [ServerNext]_serverVars PROVE [Next]_vars
  OBVIOUS
<1>1. ~DeleteAll
  BY DEF NeverReset, DeleteAll
<1>2. QED
  BY <1>1, ServerStepForHandlers DEF serverVars

\* The process with a real tracer, its start, shutdown and monitor included,
\* implements SpanTracking, and so finishes no span twice, drops none that is
\* open and never comes back to one that is lost.
THEOREM ProcessImplementsTracking ==
    ASSUME ~SameIdOverlap
    PROVE  ServerSpec /\ backend # "mock" =>
               ImplementsTracking /\ []FinishedOnce /\ NeverDropsOpenSpan /\ LostForGood
<1>1. ServerInit /\ backend # "mock" => Init /\ NeverReset
  BY DEF ServerInit, NeverReset
<1>2. ServerSpec /\ backend # "mock" => Init /\ [][Next]_vars
  BY <1>1, NeverResetKept, StepsAreHandlers, PTL DEF ServerSpec
<1>3. Invs /\ [Next]_vars => Invs'
  BY TypeInvKept, CountInvKept, SpansInvKept, AnswerInvKept, OrderedInvKept DEF Invs
<1>4. Init => Invs
  BY TypeInvInit, CountInvInit, SpansInvInit, AnswerInvInit, OrderedInvInit DEF Invs
<1>5. Invs => FinishedOnce
  BY OneFinisher DEF Invs, OrderedInv
<1>6. Invs /\ [Next]_vars => [\A i \in S!Stored(spans) : spans'[i] = NoSpan => Finished(spans[i])]_vars
  BY NoStepDropsAnOpenSpan DEF Invs
<1>7. QED
  BY <1>2, <1>3, <1>4, <1>5, <1>6, TrackingInit, TrackingStep, TrackingKeepsLost, PTL
  DEF ImplementsTracking, Tracking!Spec, NeverDropsOpenSpan, LostForGood

=============================================================================

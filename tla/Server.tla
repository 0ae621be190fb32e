------------------------------- MODULE Server -------------------------------
(***************************************************************************)
(* The process of main.go around the webhook handlers: its start, source   *)
(* by source; ListenAndServe in a goroutine of its own, waitForShutdown in *)
(* the main one, Monitor of the span store, and the reset of the mock      *)
(* tracer that service tests call.                                         *)
(***************************************************************************)
EXTENDS Webhook, SequencesExt

CONSTANTS
    Backends,    \* the values of --tracer
    MaxResets    \* bound: calls of /mocktracer/reset

ASSUME ServerAssumption == MaxResets \in Nat

VARIABLES
    backend,    \* the tracer implementation of this process
    main,       \* the main goroutine: "sources", "unwinding" after an error,
                \* "notify" and "waiting" in waitForShutdown, "shutdown"
    built,      \* the sources with a tracer, whose closers are deferred
    closed,     \* the closers that were called
    listener,   \* ListenAndServe's: "none" yet, "open" or "closed"
    signalled,  \* has a signal come?
    deadline,   \* has Shutdown's context expired?
    exit,       \* the status of the process: "running", "0", "1" or "killed"
    sample,     \* Monitor: the size that it read and has not recorded yet
    gauge,      \* Monitor: the recorded BufferedSpansTotal
    reported,   \* the spans that FinishedSpans of the mock tracer lists
    resetting,  \* HTTPMockTracer.Reset: "idle", or "deleteAll" half way
    resets,     \* its calls so far
    quiet,      \* did no handler run at any moment of the present reset?
    before      \* the spans started before the last reset that was quiet

resetVars == <<resetting, resets, quiet, before>>
monitorVars == <<sample, gauge>>
startVars == <<backend, built, closed>>
processVars == <<startVars, main, listener, signalled, deadline, exit>>
serverVars == <<vars, processVars, monitorVars, reported, resetVars>>

NoSample == -1

Sources == <<"github", "gitlab", "customhttp", "jenkins", "jira">>

ServerTypeOK ==
    /\ TypeOK
    /\ backend \in Backends
    /\ main \in {"sources", "unwinding", "notify", "waiting", "shutdown"}
    /\ IsPrefix(built, Sources) /\ Len(closed) <= Len(built)
    /\ listener \in {"none", "open", "closed"}
    /\ {signalled, deadline, quiet} \subseteq BOOLEAN
    /\ exit \in {"running", "0", "1", "killed"}
    /\ sample \in Nat \cup {NoSample}
    /\ gauge \in Nat
    /\ reported \subseteq started /\ before \subseteq started
    /\ resetting \in {"idle", "deleteAll"}
    /\ resets \in 0 .. MaxResets

ServerInit ==
    /\ Init
    /\ backend \in Backends
    /\ main = "sources"
    /\ built = <<>> /\ closed = <<>>
    /\ listener = "none"
    /\ signalled = FALSE
    /\ deadline = FALSE
    /\ exit = "running"
    /\ sample = NoSample
    /\ gauge = 0
    /\ reported = {}
    /\ resetting = "idle"
    /\ resets = 0
    /\ quiet = FALSE
    /\ before = {}

Busy == (\E r \in Request : InFlight(r)) \/ resetting # "idle"

-----------------------------------------------------------------------------
\* InitializerFromCLI: only Jaeger's constructor can return an error.
TracerMayFail(b) == b = "jaeger"

\* One turn of the loop over the sources: a tracer, its deferred closer, the
\* webhook and its route.
BuildSource ==
    /\ main = "sources"
    /\ Len(built) < Len(Sources)
    /\ built' = Append(built, Sources[Len(built) + 1])
    /\ UNCHANGED <<vars, backend, closed, main, listener, signalled, deadline, exit, monitorVars,
                   reported, resetVars>>

\* A tracer of Jaeger cannot be initialized, or the exporter and the views cannot be
\* registered: the action returns an error, and the deferred calls run.
StartFails ==
    /\ main = "sources"
    /\ TracerMayFail(backend) \/ Len(built) = Len(Sources)
    /\ main' = "unwinding"
    /\ UNCHANGED <<vars, startVars, listener, signalled, deadline, exit, monitorVars, reported,
                   resetVars>>

\* Bug: the deferred functions share one variable, the last closer.
Unwind_Shared ==
    /\ main = "unwinding"
    /\ Len(closed) < Len(built)
    /\ closed' = Append(closed, Last(built))
    /\ UNCHANGED <<vars, backend, built, main, listener, signalled, deadline, exit, monitorVars,
                   reported, resetVars>>

\* The deferred closers, in reverse order, ...
Unwind ==
    /\ main = "unwinding"
    /\ Len(closed) < Len(built)
    /\ closed' = Append(closed, built[Len(built) - Len(closed)])
    /\ UNCHANGED <<vars, backend, built, main, listener, signalled, deadline, exit, monitorVars,
                   reported, resetVars>>

\* ... before app.Run returns the error to main's log.Fatal.
Fatal ==
    /\ main = "unwinding"
    /\ Len(closed) = Len(built)
    /\ exit' = "1"
    /\ UNCHANGED <<vars, startVars, main, listener, signalled, deadline, monitorVars, reported,
                   resetVars>>

\* Everything is set up, and the goroutine of ListenAndServe is on its way.
Started ==
    /\ main = "sources"
    /\ Len(built) = Len(Sources)
    /\ main' = "notify"
    /\ UNCHANGED <<vars, startVars, listener, signalled, deadline, exit, monitorVars, reported,
                   resetVars>>

\* signal.Notify of waitForShutdown.
Notify ==
    /\ main = "notify"
    /\ main' = "waiting"
    /\ UNCHANGED <<vars, startVars, listener, signalled, deadline, exit, monitorVars, reported,
                   resetVars>>

\* ListenAndServe binds its address, perhaps before Notify.
Listen ==
    /\ main \in {"notify", "waiting"}
    /\ listener = "none"
    /\ listener' = "open"
    /\ UNCHANGED <<vars, startVars, main, signalled, deadline, exit, monitorVars, reported, resetVars>>

Accept(r) ==
    /\ listener = "open"
    /\ Receive(r)
    /\ quiet' = FALSE
    /\ UNCHANGED <<processVars, monitorVars, reported, resetting, resets, before>>

\* Bug: the mock tracer lists the span that the id leads to by now.
Serve_Current(r) ==
    /\ Handle(r)
    /\ reported' = IF FinishSpan(r) THEN reported \cup {r} ELSE reported
    /\ UNCHANGED <<processVars, monitorVars, resetVars>>

\* A handler runs on; the mock tracer lists each span that is finished.
Serve(r) ==
    /\ Handle(r)
    /\ reported' = IF backend = "mock"
                   THEN reported \cup {s \in Request : finishedBy'[s] # finishedBy[s]}
                   ELSE reported
    /\ UNCHANGED <<processVars, monitorVars, resetVars>>

\* SIGINT or SIGTERM: srv.Shutdown closes the listeners.
Signal ==
    /\ main = "waiting"
    /\ signalled' = TRUE
    /\ main' = "shutdown"
    /\ listener' = "closed"
    /\ UNCHANGED <<vars, startVars, deadline, exit, monitorVars, reported, resetVars>>

\* Before Notify, the runtime's own handling ends the process.
Kill ==
    /\ main \notin {"waiting", "shutdown"}
    /\ signalled' = TRUE
    /\ exit' = "killed"
    /\ UNCHANGED <<vars, startVars, main, listener, deadline, monitorVars, reported, resetVars>>

\* The address is taken, or ListenAndServe returns ErrServerClosed, which it
\* does as soon as Shutdown begins: log.Fatal exits.
ServeFails ==
    /\ main \in {"notify", "waiting", "shutdown"}
    /\ listener # "open"
    /\ exit' = "1"
    /\ UNCHANGED <<vars, startVars, main, listener, signalled, deadline, monitorVars, reported,
                   resetVars>>

DeadlineExpires ==
    /\ main = "shutdown"
    /\ ~deadline
    /\ deadline' = TRUE
    /\ UNCHANGED <<vars, startVars, main, listener, signalled, exit, monitorVars, reported, resetVars>>

\* Bug: the process exits only if Shutdown returned without an error.
Exit_IfDrained ==
    /\ main = "shutdown"
    /\ ~Busy /\ ~deadline
    /\ exit' = "0"
    /\ UNCHANGED <<vars, startVars, main, listener, signalled, deadline, monitorVars, reported,
                   resetVars>>

\* Shutdown returns when no connection is active or its context is done, and
\* waitForShutdown exits either way, without a deferred call.
Exit ==
    /\ main = "shutdown"
    /\ ~Busy \/ deadline
    /\ exit' = "0"
    /\ UNCHANGED <<vars, startVars, main, listener, signalled, deadline, monitorVars, reported,
                   resetVars>>

\* Bug: spans are counted that were started but never stored.
MonitorReads_Started ==
    /\ sample = NoSample
    /\ sample' = Cardinality(started)
    /\ UNCHANGED <<vars, processVars, gauge, reported, resetVars>>

\* A tick of Monitor: the size is read under the lock, ...
MonitorReads ==
    /\ sample = NoSample
    /\ sample' = S!Count(spans)
    /\ UNCHANGED <<vars, processVars, gauge, reported, resetVars>>

\* ... and recorded, with its percentage of maxAllowedSpans, without it.
MonitorRecords ==
    /\ sample # NoSample
    /\ gauge' = sample
    /\ sample' = NoSample
    /\ UNCHANGED <<vars, processVars, reported, resetVars>>

\* HTTPMockTracer.Reset: the tracer forgets the spans it lists, ...
ResetTracer ==
    /\ backend = "mock" /\ listener = "open"
    /\ resetting = "idle"
    /\ resets < MaxResets
    /\ reported' = {}
    /\ resetting' = "deleteAll"
    /\ resets' = resets + 1
    /\ quiet' = ~\E r \in Request : InFlight(r)
    /\ UNCHANGED <<vars, processVars, monitorVars, before>>

\* Bug: the store is left as it is.
DeleteAll_Skipped ==
    /\ resetting = "deleteAll"
    /\ resetting' = "idle"
    /\ before' = IF quiet THEN started ELSE {}
    /\ UNCHANGED <<vars, processVars, monitorVars, reported, resets, quiet>>

\* ... and BufferedSpans.DeleteAll empties the store.
DeleteAll ==
    /\ resetting = "deleteAll"
    /\ spans' = S!EmptyStore
    /\ resetting' = "idle"
    /\ before' = IF quiet THEN started ELSE {}
    /\ UNCHANGED <<pc, event, entry, tracer, stats, response>>
    /\ UNCHANGED <<processVars, monitorVars, reported, resets, quiet>>

\* Nothing of the process runs any more once it has exited.
ServerNext ==
    /\ exit = "running"
    /\ \/ BuildSource \/ StartFails \/ Unwind \/ Fatal \/ Started \/ Notify \/ Listen
       \/ \E r \in Request : Accept(r) \/ Serve(r)
       \/ Signal \/ Kill \/ ServeFails \/ DeadlineExpires \/ Exit
       \/ MonitorReads \/ MonitorRecords
       \/ ResetTracer \/ DeleteAll

\* The runtime schedules every goroutine, Monitor's ticker ticks, and the
\* deadline passes.  Nobody has to send a request or a signal.
ServerFairness ==
    /\ \A r \in Request : WF_serverVars(exit = "running" /\ Serve(r))
    /\ WF_serverVars(exit = "running" /\ DeadlineExpires)
    /\ WF_serverVars(exit = "running" /\ Exit)
    /\ WF_serverVars(exit = "running" /\ (MonitorReads \/ MonitorRecords))

ServerSpec == ServerInit /\ [][ServerNext]_serverVars /\ ServerFairness

-----------------------------------------------------------------------------
\* A signal at any moment ends the process, whatever the handlers do.
SignalEndsProcess == signalled ~> exit # "running"

\* A start that fails closes every tracer that it has opened, once, the last
\* one first, and before it any span was started with them.  No other end of
\* the process closes a tracer: what a tracer buffers then is lost.
FailedStartClosesAll ==
    /\ exit = "1" /\ main = "unwinding" => closed = Reverse(built)
    /\ closed # <<>> => main = "unwinding" /\ started = {}

\* What Monitor records lags behind the store, as the store changes between
\* reading and recording, but a size that stays (a store that is full for good)
\* is what it records from some time on.
GaugeCatchesUp ==
    \A n \in 0 .. MaxAllowedSpans :
        <>[](exit = "running" /\ S!Count(spans) = n) => <>[](gauge = n)

\* The reset of the mock tracer separates one service test from the next: if
\* no delivery is being handled during it, no span of before is listed or can
\* still be finished by an event of after.
ResetSeparates ==
    /\ before \cap reported = {}
    /\ \A i \in Id : spans[i] \notin before

\* waitForShutdown: "Create a deadline to wait for."  Handlers that are
\* running when the signal comes have until the deadline.
DeadlineIsGranted == exit # "running" /\ main = "shutdown" /\ ~deadline => ~Busy

=============================================================================

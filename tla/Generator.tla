----------------------------- MODULE Generator -----------------------------
(***************************************************************************)
(* cmd/generatetestdata: three loops that make up pull requests, issues    *)
(* and builds, post that each was opened, sleep, and post that it was      *)
(* closed.  They read answers but not their status; a connection that      *)
(* fails is a panic, which ends all of them.  The random numbers have a    *)
(* fixed seed: the draws of one run differ, but the next run may draw the  *)
(* same ids again.                                                         *)
(***************************************************************************)
EXTENDS Deliveries

CONSTANTS
    Drawn,     \* the objects that may be drawn: twins have the same id
    MaxRuns    \* bound: how often the program is started

ASSUME GeneratorAssumption == MaxRuns \in Nat \ {0}

Loops == {"github_pr", "github_issue", "jenkins"}

VARIABLES
    loop,      \* where each loop is
    hand,      \* the object it drew last
    drawnNow,  \* what was drawn in this run
    runs,      \* how often the program was started
    orphans    \* the objects that were in hand when the program panicked

generatorVars == <<loop, hand, drawnNow, runs, orphans>>
systemVars == <<allVars, generatorVars>>

Generating == live = Drawn

GeneratorTypeOK ==
    /\ DeliveriesTypeOK
    /\ loop \in [Loops -> {"tick", "creating", "sleeping", "closing", "cut", "dead"}]
    /\ hand \in [Loops -> live \cup {NoObject}]
    /\ drawnNow \subseteq Drawn /\ orphans \subseteq Drawn
    /\ runs \in 1 .. MaxRuns

GeneratorInit ==
    /\ DeliveriesInit
    /\ loop = [l \in Loops |-> "tick"]
    /\ hand = [l \in Loops |-> NoObject]
    /\ drawnNow = {} /\ orphans = {} /\ runs = 1

\* buildPullRequestEvent, buildIssuesEvent, buildJenkinsEvent: an object that
\* is new to this run.
Draws(l) ==
    {o \in Drawn : Kind[o] = l /\ status[o] = "none"
                   /\ \A q \in drawnNow : q # o /\ ~Twins(q, o)}

Opened(l) == IF l = "jenkins" THEN {"INPROGRESS"} ELSE {"opened"}
Closed(l) == IF l = "jenkins" THEN {"SUCCESS", "FAILURE"} ELSE {"closed"}

\* An event is posted: the connection is there, and its handler runs.
Post(l, o, sts, next) ==
    /\ up /\ MayChange
    /\ \E e \in Following(o) : e.status \in sts /\ Turn(o, e) /\ Deliver(o, e)
    /\ loop' = [loop EXCEPT ![l] = next]
    /\ hand' = [hand EXCEPT ![l] = o]
    /\ UNCHANGED <<live, faultVars, runs, orphans>>

Create(l) ==
    /\ loop[l] = "tick"
    /\ \E o \in Draws(l) :
         Post(l, o, Opened(l), "creating") /\ drawnNow' = drawnNow \cup {o}

\* Bug: the closing event is built anew.
Close_Rebuilt(l) ==
    /\ loop[l] = "sleeping"
    /\ \E o \in Draws(l) :
         Post(l, o, Opened(l), "closing") /\ drawnNow' = drawnNow \cup {o}

\* time.Sleep is over.
Close(l) ==
    /\ loop[l] = "sleeping"
    /\ Post(l, hand[l], Closed(l), "closing")
    /\ UNCHANGED drawnNow

\* client.Do returns an answer, whatever its status.
Answered(l) ==
    /\ \/ loop[l] = "creating" /\ loop' = [loop EXCEPT ![l] = "sleeping"] /\ UNCHANGED hand
       \/ loop[l] = "closing" /\ loop' = [loop EXCEPT ![l] = "tick"]
          /\ hand' = [hand EXCEPT ![l] = NoObject]
    /\ todo[hand[l]] = <<>>
    /\ UNCHANGED <<allVars, drawnNow, runs, orphans>>

\* client.Do returns an error: nobody listens, or the answer was cut off.
Panic ==
    /\ \E l \in Loops : loop[l] \in (IF up THEN {"cut"} ELSE {"cut", "tick", "sleeping"})
    /\ loop' = [l \in Loops |-> "dead"]
    /\ orphans' = orphans \cup ({hand[l] : l \in Loops} \ {NoObject})
    /\ hand' = [l \in Loops |-> NoObject]
    /\ UNCHANGED <<allVars, drawnNow, runs>>

\* The program is started again, with the same seed.
Rerun ==
    /\ \A l \in Loops : loop[l] = "dead"
    /\ runs < MaxRuns
    /\ runs' = runs + 1
    /\ loop' = [l \in Loops |-> "tick"]
    /\ drawnNow' = {}
    /\ UNCHANGED <<allVars, hand, orphans>>

\* A handler of ValueStream runs on.
Work(o) ==
    /\ Start(o) \/ End(o)
    /\ UNCHANGED <<live, faultVars, generatorVars>>

\* ValueStream stops while the loops wait for its answers, or do not.
CutOff ==
    /\ Crash
    /\ loop' = [l \in Loops |-> IF loop[l] \in {"creating", "closing"} THEN "cut" ELSE loop[l]]
    /\ UNCHANGED <<hand, drawnNow, runs, orphans>>

GeneratorNext ==
    \/ \E l \in Loops : Create(l) \/ Close(l) \/ Answered(l)
    \/ Panic \/ Rerun
    \/ \E o \in live : Work(o)
    \/ CutOff
    \/ Boot /\ UNCHANGED generatorVars

\* Either the generator sends the events, or the systems of the objects do.
Step ==
    \/ Generating /\ GeneratorNext
    \/ ~Generating /\ DeliveriesNext /\ UNCHANGED generatorVars

SystemSpec == GeneratorInit /\ [][Step]_systemVars

-----------------------------------------------------------------------------
\* The generator leaves nothing open behind it: every open span is about the
\* object that one of its loops has in hand, or had when it panicked.
GeneratorClosesWhatItOpens ==
    Generating =>
        \A s \in T!TrackedSpans : about[s] \in orphans \/ \E l \in Loops : hand[l] = about[s]

=============================================================================

---------------------- MODULE DeliveriesHistoryProofs ----------------------
(***************************************************************************)
(* Theorems about what the deliveries of an object leave behind: which     *)
(* spans stay open, which are lost, which ends are refused and which spans *)
(* are errors, for any objects, payloads, bounds, mishaps and crashes.     *)
(***************************************************************************)
EXTENDS DeliveriesProofs

\* What the event of an object of kind k with status st does.
StateOf(k, st) == State([kind |-> k, status |-> st])

\* Statuses whose events are ignored but in which the work goes on.
Kept == {<<"github_issue", "labeled">>, <<"github_pr", "labeled">>, <<"jira_issue", "Code Review">>,
         <<"gitlab_pipeline", "failed">>, <<"gitlab_job", "failed">>}

InWork(k, st) == StateOf(k, st) \in {"start", "transition"} \/ <<k, st>> \in Kept

\* Statuses that the objects of most kinds have before each start of theirs.
BeforeWork(k, st) ==
    \/ st = "none"
    \/ k = "jira_sprint" /\ st = "future"
    \/ k \in GitHubEvents /\ st = "closed"

StartsAnew == {"gitlab_issue", "gitlab_merge", "gitlab_job"}

Bad == {"canceled", "FAILURE"}

\* The parameters of a Jenkins build and the type of a custom event stay.
SameTypes ==
    \A o \in Objects : Kind[o] \in {"jenkins", "customhttp"} => Of[o].endType = Of[o].type

\* Of an object whose payloads can be read and tagged, at least.
Sound(o) == \A e \in OwnEvents(o) : e.fault \in {"none", "timings"}

NoneTracked(o) == \A i \in DOMAIN tracked : tracked[i] # NoSpan => about[tracked[i]] # o

-----------------------------------------------------------------------------
\* The span of an object whose payloads cannot be read was never stored.
ReadableInv ==
    \A i \in DOMAIN tracked : tracked[i] # NoSpan =>
        \E e \in OwnEvents(about[tracked[i]]) : e.fault = "none"

\* An end that was handled leaves nothing open.
EndedInv ==
    \A o \in live :
        todo[o] = <<>> /\ event[o].state = "end" /\ event[o].fault # "timings" => NoneTracked(o)

\* A start, or the end of a transition, that was handled leaves its span open.
WorkInv ==
    \A o \in live :
        ~HasTwin(o) /\ answer[o] = "200" /\ todo[o] = <<>> /\ event[o].state \in {"start", "transition"} =>
            \E s \in Span : /\ about[s] = o
                            /\ tracked[event[o].id] = s \/ s \in crashed
                            /\ \A q \in Span : about[q] = o => q <= s

\* What is handled, or on its way, was sent by an object that exists.
SentInv ==
    \A o \in live : /\ todo[o] # <<>> => event[o].status # "none"
                    /\ \A e \in held[o] : e.status # "none"

\* The events of objects that went wrong.
FailedAs(o, st) == st \in Bad \/ (Kind[o] = "customhttp" /\ st = "end" /\ Of[o].error)

\* No event of an object that went wrong comes after the one that says so, and
\* what was finished as an error was finished by that one.
ErrorInv ==
    /\ \A o \in live : \A e \in held[o] \cup {event[o]} : FailedAs(o, e.status) => status[o] = e.status
    /\ \A s \in failed : FailedAs(closedBy[s], status[closedBy[s]])
    /\ \A o \in live :
         todo[o] = <<>> /\ event[o].state = "end" /\ answer[o] = "200" =>
             \E s \in finished : closedBy[s] = o /\ (event[o].error => s \in failed)

\* Who starts anew without an end before has a reason.
Calm(o) == o \notin disturbed /\ Kind[o] \notin StartsAnew /\ ~EndsAtNoTime(o)

TransitionFree(o) ==
    todo[o] = <<"start">> /\ event[o].state = "transition" => tracked[event[o].id] = NoSpan

StartFree(o) == todo[o] = <<"start">> => tracked[event[o].id] = NoSpan

BeforeFree(o) ==
    todo[o] = <<>> /\ BeforeWork(Kind[o], status[o]) => \A e \in OwnEvents(o) : tracked[e.id] = NoSpan

RestartInv ==
    \A o \in live : ~HasTwin(o) =>
        TransitionFree(o) /\ (Calm(o) => StartFree(o) /\ BeforeFree(o))

Lossy(o) ==
    \/ Kind[o] \in StartsAnew
    \/ HasTwin(o) \/ EndsAtNoTime(o)
    \/ o \in disturbed /\ Kind[o] # "jira_issue"

LostInv == \A s \in lost \ (refused \cup crashed) : Lossy(about[s])

\* While all goes well with an object, its work has an open span until it ends,
\* so that its end is accepted; but a Jira issue may come to the backlog first.
Steady(o) == o \notin disturbed /\ ~HasTwin(o) /\ SpansOf(o) \cap refused = {} /\ Sound(o)

NoWorkYet(o) == Kind[o] = "jira_issue" /\ SpansOf(o) = {}

WorkFound(o) == todo[o] = <<>> /\ InWork(Kind[o], status[o]) => tracked[event[o].id] # NoSpan

EndFound(o) ==
    todo[o] = <<"end">> => answer[o] = "200" /\ (tracked[event[o].id] # NoSpan \/ NoWorkYet(o))

NotBegun(o) == status[o] = "none" => SpansOf(o) = {}

EndTaken(o) ==
    /\ todo[o] = <<>> /\ event[o].state = "end" /\ event[o].status # "none"
    /\ event[o].fault = "none" /\ answer[o] # "200"
    => NoWorkYet(o)

SteadyInv ==
    \A o \in live : Steady(o) => WorkFound(o) /\ EndFound(o) /\ NotBegun(o) /\ EndTaken(o)

\* What the loops of the generator have in hand.  An object leaves a loop when the
\* answer to its end is there; a panic drops all of them.
InHand(o) == o \in orphans \/ \E l \in Loops : hand[l] = o

HandsDrawn ==
    /\ \A l \in Loops : hand[l] # NoObject => Kind[hand[l]] = l /\ status[hand[l]] # "none"
    /\ \A l \in Loops : loop[l] \in {"tick", "dead"} => hand[l] = NoObject
    /\ \A l \in Loops : loop[l] = "closing" => event[hand[l]].state = "end"

WorkInHand == \A o \in live : todo[o] # <<>> => InHand(o)

OpenInHand == \A i \in DOMAIN tracked : tracked[i] # NoSpan => InHand(about[tracked[i]])

LoopsInv == Generating => HandsDrawn /\ WorkInHand /\ OpenInHand

-----------------------------------------------------------------------------
LEMMA StateOfGitHub ==
    ASSUME NEW k \in {"github_issue", "github_pr"}, NEW st
    PROVE  /\ st \in {"opened", "reopened"} => StateOf(k, st) = "start"
           /\ st = "closed" => StateOf(k, st) = "end"
           /\ st \notin {"opened", "reopened", "closed"} => StateOf(k, st) = "ignored"
BY DEF StateOf, State, GitHubState

LEMMA StateOfGitLab ==
    ASSUME NEW k \in {"gitlab_issue", "gitlab_merge"}, NEW st
    PROVE  /\ st \in {"opened", "reopened"} => StateOf(k, st) = "start"
           /\ st = "closed" => StateOf(k, st) = "end"
           /\ st \notin {"opened", "reopened", "closed"} => StateOf(k, st) = "ignored"
BY DEF StateOf, State, GitLabState

LEMMA StateOfBuild ==
    ASSUME NEW k \in {"gitlab_pipeline", "gitlab_job"}, NEW st
    PROVE  /\ st = "pending" => StateOf(k, st) = "start"
           /\ st = "created" => StateOf(k, st) = (IF k = "gitlab_job" THEN "start" ELSE "ignored")
           /\ st = "running" => StateOf(k, st) = "transition"
           /\ st \in {"canceled", "success"} => StateOf(k, st) = "end"
           /\ st \notin {"pending", "created", "running", "canceled", "success"} => StateOf(k, st) = "ignored"
BY DEF StateOf, State, PipelineState, JobState

LEMMA StateOfJenkins ==
    ASSUME NEW st
    PROVE  /\ st = "INPROGRESS" => StateOf("jenkins", st) = "start"
           /\ st # "INPROGRESS" => StateOf("jenkins", st) = "end"
BY DEF StateOf, State, JenkinsState

LEMMA StateOfSprint ==
    ASSUME NEW st
    PROVE  /\ st = "active" => StateOf("jira_sprint", st) = "start"
           /\ st = "closed" => StateOf("jira_sprint", st) = "end"
           /\ st \notin {"active", "closed"} => StateOf("jira_sprint", st) = "ignored"
BY DEF StateOf, State, SprintState

LEMMA StateOfJiraIssue ==
    ASSUME NEW st
    PROVE  /\ st \in {"Selected for Development", "In Progress"} => StateOf("jira_issue", st) = "transition"
           /\ st \in {"Done", "Backlog"} => StateOf("jira_issue", st) = "end"
           /\ st \notin {"Selected for Development", "In Progress", "Done", "Backlog"} =>
                StateOf("jira_issue", st) = "ignored"
BY DEF StateOf, State, JiraIssueState

LEMMA StateOfCustom ==
    ASSUME NEW st
    PROVE  /\ st \in {"start", "end"} => StateOf("customhttp", st) = st
           /\ st \notin {"start", "end"} => StateOf("customhttp", st) = "ignored"
BY DEF StateOf, State, CustomState

LEMMA StateOfEvent ==
    ASSUME NEW o \in Objects, NEW e \in OwnEvents(o)
    PROVE  e.state = StateOf(Kind[o], e.status)
<1> DEFINE p == Payload(o, e.status)
<1>1. e.state = State(p)
  BY EventFields DEF Event
<1>2. p.kind = Kind[o] /\ p.status = e.status /\ Kind[o] \in Kinds
  BY KindsAreKnown DEF Payload
<1> HIDE DEF p
<1>3. State(p) = State([kind |-> Kind[o], status |-> e.status])
  BY <1>2 DEF State, Kinds
<1>4. QED
  BY <1>1, <1>3 DEF StateOf

\* How the statuses of one kind may follow each other.
Follows(k, a, b) ==
    /\ a \notin Bad /\ b # "none" /\ (k = "customhttp" => a # "end")
    /\ StateOf(k, b) = "end" => InWork(k, a) \/ (k = "jira_issue" /\ a = "none")
    /\ <<k, b>> \in Kept => InWork(k, a)
    /\ k \notin StartsAnew /\ StateOf(k, b) = "start" => BeforeWork(k, a)
    /\ BeforeWork(k, b) => \/ a = "none" /\ StateOf(k, b) = "ignored"
                           \/ k \in GitHubEvents /\ StateOf(k, b) = "end"
    /\ b \in Over /\ <<k, b>> \notin NeverEnded => StateOf(k, b) = "end"
    /\ b \in Bad => StateOf(k, b) = "end"
    /\ b = "canceled" => k \in Builds
    /\ b = "FAILURE" => k = "jenkins"

Selected == "Selected for Development"
InProgress == "In Progress"
InReview == "Code Review"

LEMMA JiraIssueSteps ==
    /\ Successors["jira_issue"] =
         {<<"none", "Backlog">>, <<"Backlog", Selected>>, <<Selected, InProgress>>,
          <<Selected, "Backlog">>, <<InProgress, InProgress>>, <<InProgress, InReview>>,
          <<InProgress, "Done">>, <<InReview, "Done">>, <<"Done", InProgress>>}
    /\ StateOf("jira_issue", Selected) = "transition" /\ StateOf("jira_issue", InProgress) = "transition"
    /\ StateOf("jira_issue", "Done") = "end" /\ StateOf("jira_issue", "Backlog") = "end"
    /\ StateOf("jira_issue", InReview) = "ignored"
<1>1. Successors["jira_issue"] =
        {<<"none", "Backlog">>, <<"Backlog", Selected>>, <<Selected, InProgress>>,
          <<Selected, "Backlog">>, <<InProgress, InProgress>>, <<InProgress, InReview>>,
          <<InProgress, "Done">>, <<InReview, "Done">>, <<"Done", InProgress>>}
  BY Zenon DEF Successors, Selected, InProgress, InReview
<1>2. /\ StateOf("jira_issue", Selected) = "transition"
      /\ StateOf("jira_issue", InProgress) = "transition"
  BY StateOfJiraIssue, Zenon DEF Selected, InProgress
<1>3. /\ StateOf("jira_issue", "Done") = "end" /\ StateOf("jira_issue", "Backlog") = "end"
  BY StateOfJiraIssue, Zenon
<1>4. InReview \notin {"Selected for Development", "In Progress", "Done", "Backlog"}
  BY Zenon DEF InReview
<1>5. StateOf("jira_issue", InReview) = "ignored"
  BY <1>4, StateOfJiraIssue, Zenon
<1>6. QED
  BY <1>1, <1>2, <1>3, <1>5

LEMMA NamesDiffer ==
    /\ {Selected, InProgress, InReview} \cap (Over \cup Bad \cup {"none", "future", "labeled", "Backlog"}) = {}
    /\ Kept = {<<"github_issue", "labeled">>, <<"github_pr", "labeled">>, <<"jira_issue", InReview>>,
               <<"gitlab_pipeline", "failed">>, <<"gitlab_job", "failed">>}
    /\ Selected # InReview /\ InProgress # InReview
BY Zenon DEF Selected, InProgress, InReview, Over, Bad, Kept

LEMMA StepsFollow ==
    ASSUME NEW k \in Kinds, NEW step \in Successors[k]
    PROVE  Follows(k, step[1], step[2])
<1> USE NamesDiffer DEF Follows, InWork, BeforeWork, Bad, StartsAnew, GitHubEvents, Over, NeverEnded,
                        Builds
<1>1. CASE k = "github_issue"
  BY <1>1, StateOfGitHub DEF Successors, Tracker
<1>2. CASE k = "github_pr"
  BY <1>2, StateOfGitHub DEF Successors, Tracker
<1>3. CASE k = "gitlab_issue"
  BY <1>3, StateOfGitLab DEF Successors
<1>4. CASE k = "gitlab_merge"
  BY <1>4, StateOfGitLab DEF Successors
<1>5. CASE k = "gitlab_pipeline"
  BY <1>5, StateOfBuild DEF Successors
<1>6. CASE k = "gitlab_job"
  BY <1>6, StateOfBuild DEF Successors
<1>7. CASE k = "jenkins"
  BY <1>7, StateOfJenkins DEF Successors
<1>8. CASE k = "jira_issue"
  <2>1. \/ step[1] = "none" /\ step[2] = "Backlog"
        \/ step[1] \in {"Backlog", "Done"} /\ step[2] \in {Selected, InProgress}
        \/ step[1] = Selected /\ step[2] \in {InProgress, "Backlog"}
        \/ step[1] = InProgress /\ step[2] \in {InProgress, InReview, "Done"}
        \/ step[1] = InReview /\ step[2] = "Done"
    BY <1>8, JiraIssueSteps
  <2>2. QED
    BY <1>8, <2>1, JiraIssueSteps
<1>9. CASE k = "jira_sprint"
  BY <1>9, StateOfSprint DEF Successors
<1>10. CASE k = "customhttp"
  BY <1>10, StateOfCustom DEF Successors
<1>11. QED
  BY <1>1, <1>2, <1>3, <1>4, <1>5, <1>6, <1>7, <1>8, <1>9, <1>10 DEF Kinds

LEMMA FollowingFollows ==
    ASSUME NEW o \in Objects, NEW e \in Following(o)
    PROVE  Follows(Kind[o], status[o], e.status)
<1>1. Kind[o] \in Kinds
  BY KindsAreKnown
<1>2. PICK step \in Successors[Kind[o]] : step[1] = status[o] /\ step[2] = e.status
  BY FollowingIsOwn
<1>3. QED
  BY <1>1, <1>2, StepsFollow

LEMMA NoneIsNoWork ==
    ASSUME NEW o \in Objects
    PROVE  StateOf(Kind[o], "none") \notin {"start", "transition"}
<1>1. Kind[o] \in Kinds
  BY KindsAreKnown
<1>2. QED
  <2>1. "none" \notin {"Selected for Development", "In Progress", "Done", "Backlog"}
    OBVIOUS
  <2>2. StateOf("jira_issue", "none") = "ignored"
    BY <2>1, StateOfJiraIssue, Zenon
  <2>3. QED
    BY <1>1, <2>2, StateOfGitHub, StateOfGitLab, StateOfBuild, StateOfJenkins, StateOfSprint,
       StateOfCustom DEF Kinds

LEMMA StatusFacts ==
    ASSUME NEW o \in Objects, NEW st \in Statuses(o)
    PROVE  /\ st \in Over /\ <<Kind[o], st>> \notin NeverEnded => StateOf(Kind[o], st) = "end"
           /\ st \in Bad => StateOf(Kind[o], st) = "end"
           /\ st = "canceled" => Kind[o] \in Builds
           /\ st = "FAILURE" => Kind[o] = "jenkins"
<1>1. Kind[o] \in Kinds
  BY KindsAreKnown
<1>2. CASE st = "none"
  BY <1>2 DEF Over, Bad
<1>3. ASSUME NEW step \in Successors[Kind[o]], st = step[2]
      PROVE  /\ st \in Over /\ <<Kind[o], st>> \notin NeverEnded => StateOf(Kind[o], st) = "end"
             /\ st \in Bad => StateOf(Kind[o], st) = "end"
             /\ st = "canceled" => Kind[o] \in Builds
             /\ st = "FAILURE" => Kind[o] = "jenkins"
  BY <1>1, <1>3, StepsFollow DEF Follows
<1>4. QED
  BY <1>2, <1>3 DEF Statuses

\* What is wrong with a payload whatever its status.
Flawed(p) ==
    \/ ~Parsed(p) \/ StateOfNothing(p) \/ Needs(p) \cap p.lacks # {}
    \/ NoTagValue(p) \/ ParentOfNothing(p) \/ TagsOfNothing(p)

LEMMA FaultIs ==
    ASSUME NEW p
    PROVE  /\ Fault(p) \in {"none", "timings"} <=> ~Flawed(p)
           /\ Fault(p) = "timings" => NilClosedAt(p)
           /\ Fault(p) = "tag" => NoTagValue(p)
BY DEF Fault, Flawed

LEMMA EventFaults ==
    ASSUME NEW o \in Objects, NEW e \in OwnEvents(o)
    PROVE  /\ e.fault = "timings" => Kind[o] \in GitHubEvents /\ EndsAtNoTime(o)
           /\ e.fault = "tag" => Kind[o] = "customhttp"
<1> DEFINE p == Payload(o, e.status)
<1>1. e.fault = Fault(p)
  BY EventFields DEF Event
<1>2. p.kind = Kind[o] /\ p.lacks = Of[o].lacks
  BY DEF Payload
<1> HIDE DEF p
<1>3. NilClosedAt(p) => p.kind \in GitHubEvents /\ "closed_at" \in p.lacks /\ "created_at" \notin p.lacks
  BY DEF NilClosedAt, EventTimings
<1>4. NoTagValue(p) => p.kind = "customhttp"
  BY DEF NoTagValue
<1>5. QED
  BY <1>1, <1>2, <1>3, <1>4, FaultIs DEF EndsAtNoTime

LEMMA FaultsAgree ==
    ASSUME NEW o \in Objects, NEW e \in OwnEvents(o), NEW f \in OwnEvents(o),
           Kind[o] = "customhttp" => Of[o].endType = Of[o].type,
           e.fault \in {"none", "timings"}
    PROVE  f.fault \in {"none", "timings"}
<1> DEFINE p == Payload(o, e.status)
           r == Payload(o, f.status)
<1>1. e.fault = Fault(p) /\ f.fault = Fault(r)
  BY EventFields DEF Event
<1>2. p.kind = Kind[o] /\ p.lacks = Of[o].lacks /\ r.kind = Kind[o] /\ r.lacks = Of[o].lacks
  BY DEF Payload
<1>3. Kind[o] = "customhttp" => p.type = r.type
  BY DEF Payload
<1> HIDE DEF p, r
<1>4. Flawed(p) <=> Flawed(r)
  <2>1. Parsed(p) <=> Parsed(r)
    BY <1>2 DEF Parsed
  <2>2. StateOfNothing(p) <=> StateOfNothing(r)
    BY <1>2 DEF StateOfNothing
  <2>3. Needs(p) = Needs(r)
    BY <1>2 DEF Needs
  <2>4. NoTagValue(p) <=> NoTagValue(r)
    BY <1>2, <1>3 DEF NoTagValue
  <2>5. ParentOfNothing(p) <=> ParentOfNothing(r)
    BY <1>2 DEF ParentOfNothing
  <2>6. TagsOfNothing(p) <=> TagsOfNothing(r)
    BY <1>2 DEF TagsOfNothing
  <2>7. QED
    BY <1>2, <2>1, <2>2, <2>3, <2>4, <2>5, <2>6 DEF Flawed
<1>5. QED
  BY <1>1, <1>4, FaultIs

\* The events of an object have one id, unless its type at its end is another one.
LEMMA OneId ==
    ASSUME NEW o \in Objects, NEW e \in OwnEvents(o), NEW f \in OwnEvents(o),
           Kind[o] \in {"jenkins", "customhttp"} => Of[o].endType = Of[o].type
    PROVE  e.id = f.id
<1> DEFINE p == Payload(o, e.status)
           r == Payload(o, f.status)
<1>1. e.id = SpanID(p) /\ f.id = SpanID(r)
  BY EventFields DEF Event
<1>2. /\ p.kind = Kind[o] /\ p.scope = Of[o].scope /\ p.number = Of[o].number
      /\ r.kind = Kind[o] /\ r.scope = Of[o].scope /\ r.number = Of[o].number
  BY DEF Payload
<1>3. Kind[o] \in {"jenkins", "customhttp"} => p.type = r.type
  BY DEF Payload
<1> HIDE DEF p, r
<1>4. Kind[o] \in Kinds
  BY KindsAreKnown
<1>5. CASE Kind[o] = "jenkins"
  <2>1. OperationName(p) = OperationName(r)
    BY <1>2, <1>3, <1>5 DEF OperationName
  <2>2. SpanID(p) = JenkinsSpanID(p) /\ SpanID(r) = JenkinsSpanID(r)
    BY <1>2, <1>5 DEF SpanID
  <2>3. QED
    BY <1>1, <1>2, <2>1, <2>2 DEF JenkinsSpanID, Numbered
<1>6. CASE Kind[o] = "customhttp"
  <2>1. SpanID(p) = CustomSpanID(p) /\ SpanID(r) = CustomSpanID(r)
    BY <1>2, <1>6 DEF SpanID
  <2>2. QED
    BY <1>1, <1>2, <1>3, <1>6, <2>1 DEF CustomSpanID, Numbered
<1>7. CASE Kind[o] \notin {"jenkins", "customhttp"}
  BY <1>1, <1>2, <1>4, <1>7
  DEF Kinds, SpanID, GitHubIssueSpanID, GitHubPullRequestSpanID, GitLabIssueSpanID, MergeSpanID,
      PipelineSpanID, JobSpanID, SprintSpanID, JiraIssueSpanID, Numbered
<1>8. QED
  BY <1>5, <1>6, <1>7

-----------------------------------------------------------------------------
LEMMA LiveFacts ==
    ASSUME SystemInv, NEW o \in live
    PROVE  /\ o \in Objects /\ o # NoObject
           /\ event[o] \in OwnEvents(o) /\ event[o].id \in DOMAIN tracked
           /\ event[o].state = StateOf(Kind[o], event[o].status)
BY LifecyclesAssumption, StateOfEvent DEF SystemInv, DeliveryInv, SpansInv, SpansTyped

\* A span that begins is new, and younger than all others.
LEMMA BeginFacts ==
    ASSUME SystemInv, NEW o \in live, NextSpan \in T!Fresh, Begins(o, NextSpan)
    PROVE  /\ NextSpan \in Span /\ NextSpan # NoSpan /\ about[NextSpan] = NoObject
           /\ \A q \in Span : about[q] # NoObject => q < NextSpan
           /\ about' = [about EXCEPT ![NextSpan] = o]
           /\ \A q \in Span \ {NextSpan} : about'[q] = about[q]
           /\ about'[NextSpan] = o
           /\ DOMAIN tracked' = DOMAIN tracked
           /\ \A i \in DOMAIN tracked : i # event[o].id => tracked'[i] = tracked[i]
<1>1. PICK n \in 0 .. MaxStarts : StartsInOrder(n)
  BY DEF SystemInv, SpansInv, OrderInv
<1>2. NextSpan = n + 1 /\ NextSpan \in Span /\ about[NextSpan] = NoObject
  BY <1>1, NextSpanIsNext DEF SystemInv
<1>3. NextSpan # NoSpan /\ \A q \in Span : about[q] # NoObject => q < NextSpan
  BY <1>1, <1>2, LifecyclesAssumption DEF StartsInOrder, Span, NoSpan
<1>4. /\ about' = [about EXCEPT ![NextSpan] = o] /\ DOMAIN tracked' = DOMAIN tracked
      /\ \A i \in DOMAIN tracked : i # event[o].id => tracked'[i] = tracked[i]
  BY DEF Begins, Refuses, Stores
<1>5. /\ \A q \in Span \ {NextSpan} : about'[q] = about[q]
      /\ about'[NextSpan] = o
  BY <1>2, <1>4 DEF SystemInv, SpansInv, SpansTyped
<1>6. QED
  BY <1>2, <1>3, <1>4, <1>5

LEMMA FinishFacts ==
    ASSUME SystemInv, NEW o \in live, Finishes(o)
    PROVE  /\ DOMAIN tracked' = DOMAIN tracked /\ about' = about
           /\ tracked'[event[o].id] = NoSpan
           /\ \A i \in DOMAIN tracked : i # event[o].id => tracked'[i] = tracked[i]
           /\ tracked[event[o].id] \in Span \ finished
           /\ about[tracked[event[o].id]] \in live
BY LiveFacts DEF Finishes, SystemInv, SpansInv, SpansTyped, PlacesInv

\* Every step does one of these to the spans.
LEMMA SpanCases ==
    ASSUME SystemInv, [Step]_systemVars
    PROVE  \/ UNCHANGED spanVars
           \/ \E o \in live : Starts(o) /\ NextSpan \in T!Fresh /\ Begins(o, NextSpan)
           \/ \E o \in live : Ends(o) /\ Finishes(o)
           \/ Crash
<1>1. ASSUME NEW o \in live, Starts(o)
      PROVE  UNCHANGED spanVars \/ (NextSpan \in T!Fresh /\ Begins(o, NextSpan))
  BY <1>1, StartCases DEF Starts, SystemInv
<1>2. ASSUME NEW o \in live, Ends(o)
      PROVE  UNCHANGED spanVars \/ Finishes(o)
  BY <1>2, EndCases DEF Ends, SystemInv
<1>3. QED
  BY <1>1, <1>2, StepCases DEF SystemInv, Rests, Advances, Misses, Repeats, Deliver

LEMMA ReadableInvKept ==
    ASSUME SystemInv, ReadableInv, [Step]_systemVars
    PROVE  ReadableInv'
<1>1. CASE UNCHANGED spanVars
  BY <1>1 DEF spanVars, ReadableInv
<1>2. ASSUME NEW o \in live, NextSpan \in T!Fresh, Begins(o, NextSpan)
      PROVE  ReadableInv'
  <2> SUFFICES ASSUME NEW i \in DOMAIN tracked, tracked'[i] # NoSpan
               PROVE  \E e \in OwnEvents(about'[tracked'[i]]) : e.fault = "none"
    BY <1>2, BeginFacts DEF ReadableInv
  <2>1. \/ tracked'[i] = tracked[i]
        \/ tracked'[i] = NextSpan /\ event[o].fault = "none"
    BY <1>2, LiveFacts DEF Begins, Refuses, Stores
  <2>2. CASE tracked'[i] = tracked[i]
    <3>1. tracked[i] \in Span /\ about[tracked[i]] # NoObject
      BY <2>2 DEF SystemInv, SpansInv, SpansTyped, PlacesInv
    <3>2. about'[tracked[i]] = about[tracked[i]]
      BY <1>2, <3>1, BeginFacts
    <3>3. QED
      BY <2>2, <3>2 DEF ReadableInv
  <2>3. CASE tracked'[i] = NextSpan /\ event[o].fault = "none"
    BY <1>2, <2>3, BeginFacts, LiveFacts
  <2>4. QED
    BY <2>1, <2>2, <2>3
<1>3. ASSUME NEW o \in live, Finishes(o)
      PROVE  ReadableInv'
  BY <1>3, FinishFacts DEF ReadableInv
<1>4. CASE Crash
  BY <1>4 DEF Crash, ReadableInv
<1>5. QED
  BY <1>1, <1>2, <1>3, <1>4, SpanCases

\* A delivery leaves something to do, unless it cannot be read or is ignored; and
\* the last step of each plan is of its own kind.
LEMMA PlanFacts ==
    ASSUME SystemInv, NEW o \in live
    PROVE  /\ \A e \in OwnEvents(o) : Deliver(o, e) /\ todo'[o] = <<>> =>
                e.fault \in Unread \/ e.state = "ignored"
           /\ Start(o) => todo'[o] = <<>> /\ event[o].state \in {"start", "transition"}
           /\ End(o) => \/ todo[o] = <<"end">> /\ event[o].state = "end" /\ todo'[o] = <<>>
                        \/ todo[o] = <<"end", "start">> /\ event[o].state = "transition" /\ todo'[o] = <<"start">>
           /\ (Start(o) \/ End(o)) => \A q \in live \ {o} : todo'[q] = todo[q]
<1>1. DeliveryInv
  BY DEF SystemInv
<1>2. ASSUME NEW e \in OwnEvents(o), Deliver(o, e), todo'[o] = <<>>, e.fault \notin Unread
      PROVE  e.state = "ignored"
  <2>1. e.state \in EventStates /\ todo'[o] = Effects(e.state)
    BY <1>1, <1>2, DeliverDoes, StateIsKnown DEF DeliveryInv
  <2>2. QED
    BY <1>2, <2>1, EffectsOf, PlansDiffer DEF EventStates
<1>3. QED
  BY <1>1, <1>2, PlanSteps DEF DeliveryInv

LEMMA UnsoundIsUntracked ==
    ASSUME SystemInv, ReadableInv, NEW o \in live, NEW e \in OwnEvents(o),
           Kind[o] = "customhttp" => Of[o].endType = Of[o].type,
           e.fault \notin {"none", "timings"}
    PROVE  NoneTracked(o)
BY LiveFacts, FaultsAgree DEF ReadableInv, NoneTracked

LEMMA OwnIdsOnly ==
    ASSUME SystemInv, SameTypes, NEW o \in live, NEW i \in DOMAIN tracked,
           tracked[i] # NoSpan, about[tracked[i]] = o
    PROVE  i = event[o].id
<1>1. PICK e \in OwnEvents(o) : e.id = i
  BY DEF SystemInv, SpansInv, PlacesInv
<1>2. QED
  BY <1>1, LiveFacts, OneId DEF SameTypes

LEMMA EndedInvKept ==
    ASSUME SystemInv, ReadableInv, EndedInv, SameTypes, [Step]_systemVars
    PROVE  EndedInv'
<1>1. CASE Rests \/ \E o \in live : \E e : Misses(o, e)
  BY <1>1 DEF Rests, Misses, deliveryVars, spanVars, EndedInv, NoneTracked
<1>2. CASE Crash
  BY <1>2 DEF Crash, EndedInv, NoneTracked
<1>3. ASSUME NEW o \in live, NEW e, Advances(o, e) \/ Repeats(o, e)
      PROVE  EndedInv'
  <2>1. /\ e \in OwnEvents(o) /\ Deliver(o, e) /\ live' = live
        /\ UNCHANGED spanVars
    BY <1>3, FollowingIsOwn, LiveFacts DEF Advances, Repeats, bystanders, Deliver, SystemInv, DeliveryInv
  <2>2. /\ event'[o] = e /\ \A q \in live \ {o} : event'[q] = event[q] /\ todo'[q] = todo[q]
    BY <2>1, DeliverDoes DEF SystemInv, DeliveryInv
  <2>3. todo'[o] = <<>> /\ e.state = "end" => NoneTracked(o)
    BY <2>1, PlanFacts, UnsoundIsUntracked, LiveFacts DEF Unread, SameTypes
  <2>4. \A q \in live : NoneTracked(q)' <=> NoneTracked(q)
    BY <2>1 DEF spanVars, NoneTracked
  <2>5. QED
    BY <2>1, <2>2, <2>3, <2>4 DEF EndedInv
<1>4. ASSUME NEW o \in live, Starts(o)
      PROVE  EndedInv'
  <2>1. /\ UNCHANGED <<live, event>> /\ event[o].state # "end"
        /\ \A q \in live \ {o} : todo'[q] = todo[q]
    BY <1>4, PlanFacts DEF Starts, Start, bystanders
  <2>2. ASSUME NEW q \in live \ {o}, NoneTracked(q) PROVE NoneTracked(q)'
    <3>1. CASE UNCHANGED spanVars
      BY <2>2, <3>1 DEF spanVars, NoneTracked
    <3>2. CASE NextSpan \in T!Fresh /\ Begins(o, NextSpan)
      <4> SUFFICES ASSUME NEW i \in DOMAIN tracked, tracked'[i] # NoSpan
                   PROVE  about'[tracked'[i]] # q
        BY <3>2, BeginFacts DEF NoneTracked
      <4>1. tracked'[i] = tracked[i] \/ tracked'[i] = NextSpan
        BY <3>2, LiveFacts DEF Begins, Refuses, Stores
      <4>2. CASE tracked'[i] = NextSpan
        BY <3>2, <4>2, BeginFacts
      <4>3. CASE tracked'[i] = tracked[i] /\ tracked[i] # NextSpan
        BY <2>2, <3>2, <4>3, BeginFacts DEF NoneTracked, SystemInv, SpansInv, SpansTyped
      <4>4. QED
        BY <4>1, <4>2, <4>3
    <3>3. QED
      BY <1>4, <3>1, <3>2, StartCases DEF Starts, SystemInv
  <2>3. QED
    BY <2>1, <2>2 DEF EndedInv
<1>5. ASSUME NEW o \in live, Ends(o)
      PROVE  EndedInv'
  <2>1. /\ UNCHANGED <<live, event>>
        /\ \A q \in live \ {o} : todo'[q] = todo[q]
    BY <1>5, PlanFacts DEF Ends, End, bystanders
  <2>2. UNCHANGED spanVars \/ Finishes(o)
    BY <1>5, EndCases DEF Ends, SystemInv
  <2>3. ASSUME NEW q \in live, NoneTracked(q) PROVE NoneTracked(q)'
    BY <2>2, <2>3, FinishFacts DEF spanVars, NoneTracked
  <2>4. ASSUME todo'[o] = <<>>, event[o].fault # "timings" PROVE NoneTracked(o)'
    <3>1. CASE Finishes(o)
      <4> SUFFICES ASSUME NEW i \in DOMAIN tracked, tracked'[i] # NoSpan
                   PROVE  about'[tracked'[i]] # o
        BY <3>1, FinishFacts DEF NoneTracked
      <4>1. i # event[o].id /\ tracked'[i] = tracked[i] /\ about' = about
        BY <3>1, FinishFacts
      <4>2. QED
        BY <4>1, OwnIdsOnly
    <3>2. CASE event[o].fault = "tag"
      BY <2>3, <3>2, LiveFacts, UnsoundIsUntracked DEF SameTypes
    <3>3. CASE UNCHANGED spanVars /\ tracked[event[o].id] = NoSpan
      BY <3>3, OwnIdsOnly DEF spanVars, NoneTracked
    <3>4. QED
      BY <1>5, <2>4, <3>1, <3>2, <3>3, EndCases DEF Ends, SystemInv
  <2>5. QED
    BY <2>1, <2>3, <2>4 DEF EndedInv
<1>6. QED
  BY <1>1, <1>2, <1>3, <1>4, <1>5, StepCases DEF SystemInv

\* For any objects whose types do not change until their ends: when the work on an
\* object is over and was said to be so last, none of its spans is left open.
THEOREM NothingOutlivesItsObject ==
    ASSUME SameTypes
    PROVE  SystemSpec => []NoSpanOutlivesItsObject
<1>1. GeneratorInit => ReadableInv /\ EndedInv
  BY DEF GeneratorInit, DeliveriesInit, Init, ReadableInv, EndedInv, NoneTracked
<1>2. SystemInv /\ ReadableInv /\ EndedInv /\ [Step]_systemVars => ReadableInv' /\ EndedInv'
  BY SameTypes, ReadableInvKept, EndedInvKept
<1>3. SystemInv /\ EndedInv => NoSpanOutlivesItsObject
  <2> SUFFICES ASSUME SystemInv, EndedInv, NEW o \in live, UpToDate(o), status[o] \in Over,
                      <<Kind[o], status[o]>> \notin NeverEnded, event[o].fault # "timings"
               PROVE  NoneTracked(o)
    BY DEF NoSpanOutlivesItsObject, NoneTracked
  <2>1. o \in Objects /\ status[o] \in Statuses(o)
    BY DEF SystemInv, DeliveryInv
  <2>2. event[o].state = "end" /\ todo[o] = <<>>
    BY <2>1, LiveFacts, StatusFacts DEF UpToDate
  <2>3. QED
    BY <2>2 DEF EndedInv
<1>4. QED
  BY <1>1, <1>2, <1>3, SystemInvHolds, PTL DEF SystemSpec

-----------------------------------------------------------------------------
\* Objects without a twin have their ids for themselves.
LEMMA OwnIds ==
    ASSUME SystemInv, NEW o \in live, NEW q \in live \ {o}, ~HasTwin(q),
           NEW e \in OwnEvents(o), NEW f \in OwnEvents(q)
    PROVE  e.id # f.id
BY LiveFacts, SameIdMeansTwins DEF HasTwin

Worked(o) ==
    \E s \in Span : /\ about[s] = o
                    /\ tracked[event[o].id] = s \/ s \in crashed
                    /\ \A q \in Span : about[q] = o => q <= s

LEMMA WorkInvKept ==
    ASSUME SystemInv, WorkInv, [Step]_systemVars
    PROVE  WorkInv'
<1> USE DEF HasTwin
<1>1. CASE Rests \/ \E o \in live : \E e : Misses(o, e)
  BY <1>1 DEF Rests, Misses, deliveryVars, spanVars, WorkInv
<1>2. CASE Crash
  <2>1. ASSUME NEW o \in live, Worked(o) PROVE Worked(o)'
    <3>1. PICK s \in Span : /\ about[s] = o
                            /\ tracked[event[o].id] = s \/ s \in crashed
                            /\ \A q \in Span : about[q] = o => q <= s
      BY <2>1 DEF Worked
    <3>2. s \in crashed'
      BY <1>2, <3>1, LiveFacts, LifecyclesAssumption DEF Crash, T!TrackedSpans, Span, NoSpan
    <3>3. about' = about
      BY <1>2 DEF Crash
    <3>4. QED
      BY <3>1, <3>2, <3>3 DEF Worked
  <2>2. /\ UNCHANGED <<live, event>>
        /\ answer' = [o \in live |-> IF todo[o] = <<>> THEN answer[o] ELSE "aborted"]
    BY <1>2 DEF Crash
  <2>3. QED
    BY <2>1, <2>2 DEF WorkInv, Worked
<1>3. ASSUME NEW o \in live, NEW e, Advances(o, e) \/ Repeats(o, e)
      PROVE  WorkInv'
  <2>1. /\ e \in OwnEvents(o) /\ Deliver(o, e) /\ UNCHANGED <<live, crashed>>
        /\ UNCHANGED spanVars
    BY <1>3, FollowingIsOwn, LiveFacts DEF Advances, Repeats, bystanders, Deliver, SystemInv, DeliveryInv
  <2>2. /\ event'[o] = e
        /\ \A q \in live \ {o} : event'[q] = event[q] /\ todo'[q] = todo[q] /\ answer'[q] = answer[q]
    BY <2>1, DeliverDoes DEF SystemInv, DeliveryInv
  <2>3. todo'[o] = <<>> /\ answer'[o] = "200" => e.state = "ignored"
    BY <2>1, PlanFacts, DeliverDoes DEF Unread, SystemInv
  <2>4. QED
    BY <2>1, <2>2, <2>3 DEF spanVars, WorkInv
<1>4. ASSUME NEW o \in live, Starts(o)
      PROVE  WorkInv'
  <2>1. /\ UNCHANGED <<live, event, crashed>>
        /\ \A q \in live \ {o} : todo'[q] = todo[q] /\ answer'[q] = answer[q]
    BY <1>4, PlanFacts, AnswerSteps DEF Starts, Start, bystanders, SystemInv
  <2>2. CASE UNCHANGED spanVars /\ answer'[o] # "200"
    BY <2>1, <2>2 DEF spanVars, WorkInv
  <2>3. CASE NextSpan \in T!Fresh /\ Begins(o, NextSpan)
    <3>1. ASSUME NEW q \in live \ {o}, ~HasTwin(q), Worked(q) PROVE Worked(q)'
      <4>1. PICK s \in Span : /\ about[s] = q
                              /\ tracked[event[q].id] = s \/ s \in crashed
                              /\ \A x \in Span : about[x] = q => x <= s
        BY <3>1 DEF Worked
      <4>2. event[q].id # event[o].id /\ event[q].id \in DOMAIN tracked /\ q # NoObject
        BY <3>1, LiveFacts, OwnIds
      <4>3. tracked'[event[q].id] = tracked[event[q].id]
        BY <2>3, <4>2, BeginFacts
      <4>4. \A x \in Span : about'[x] = q <=> about[x] = q
        BY <2>3, <4>2, BeginFacts
      <4>5. /\ about'[s] = q
            /\ \A x \in Span : about'[x] = q => x <= s
        BY <4>1, <4>4
      <4>6. tracked'[event'[q].id] = s \/ s \in crashed'
        BY <2>1, <4>1, <4>3
      <4>7. QED
        BY <4>5, <4>6 DEF Worked
    <3>2. answer'[o] = "200" => Worked(o)'
      <4> SUFFICES ASSUME answer'[o] = "200" PROVE Worked(o)'
        OBVIOUS
      <4>1. tracked'[event[o].id] = NextSpan
        BY <2>3, LiveFacts DEF Begins, Refuses, Stores
      <4>2. /\ NextSpan \in Span /\ about'[NextSpan] = o
            /\ \A x \in Span : about'[x] = o => x <= NextSpan
        BY <2>3, BeginFacts, LiveFacts, LifecyclesAssumption DEF Span
      <4>3. QED
        BY <2>1, <4>1, <4>2 DEF Worked
    <3>3. QED
      BY <2>1, <3>1, <3>2 DEF WorkInv, Worked
  <2>4. QED
    BY <1>4, <2>2, <2>3, StartCases DEF Starts, SystemInv
<1>5. ASSUME NEW o \in live, Ends(o)
      PROVE  WorkInv'
  <2>1. /\ UNCHANGED <<live, event, crashed>>
        /\ \A q \in live \ {o} : todo'[q] = todo[q] /\ answer'[q] = answer[q]
        /\ todo'[o] # <<>> \/ event[o].state = "end"
    BY <1>5, PlanFacts, AnswerSteps, PlansDiffer DEF Ends, End, bystanders, SystemInv
  <2>2. ASSUME NEW q \in live \ {o}, ~HasTwin(q), Worked(q) PROVE Worked(q)'
    <3>1. UNCHANGED spanVars \/ Finishes(o)
      BY <1>5, EndCases DEF Ends, SystemInv
    <3>2. event[q].id # event[o].id /\ event[q].id \in DOMAIN tracked
      BY <2>2, LiveFacts, OwnIds
    <3>3. tracked'[event[q].id] = tracked[event[q].id] /\ about' = about
      BY <3>1, <3>2, FinishFacts DEF spanVars
    <3>4. PICK s \in Span : /\ about[s] = q
                            /\ tracked[event[q].id] = s \/ s \in crashed
                            /\ \A x \in Span : about[x] = q => x <= s
      BY <2>2 DEF Worked
    <3>5. tracked'[event'[q].id] = s \/ s \in crashed'
      BY <2>1, <3>3, <3>4
    <3>6. QED
      BY <2>1, <3>3, <3>4, <3>5 DEF Worked
  <2>3. QED
    BY <2>1, <2>2 DEF WorkInv, Worked
<1>6. QED
  BY <1>1, <1>2, <1>3, <1>4, <1>5, StepCases DEF SystemInv

\* While the last accepted webhook of an object says that it is being worked on, its
\* latest span is found under its id, unless ValueStream crashed since.
THEOREM WorkStaysTracked == SystemSpec => []WorkIsTracked
<1>1. GeneratorInit => WorkInv
  BY DEF GeneratorInit, DeliveriesInit, Init, WorkInv
<1>2. SystemInv /\ WorkInv /\ [Step]_systemVars => WorkInv'
  BY WorkInvKept
<1>3. WorkInv => WorkIsTracked
  BY DEF WorkInv, WorkIsTracked, SpansOf
<1>4. QED
  BY <1>1, <1>2, <1>3, SystemInvHolds, PTL DEF SystemSpec

-----------------------------------------------------------------------------
\* An event that ends its object says whether it is an error: exactly when it went wrong.
LEMMA ErrorFacts ==
    ASSUME NEW o \in Objects, NEW e \in OwnEvents(o), e.status # "none"
    PROVE  /\ FailedAs(o, e.status) => e.state = "end" /\ e.error
           /\ e.state \in {"end", "transition"} /\ e.error => FailedAs(o, e.status)
<1> DEFINE p == Payload(o, e.status)
           k == Kind[o]
           st == e.status
<1>1. (e.error <=> IsError(p)) /\ e.state = StateOf(k, st) /\ st \in Statuses(o)
  BY EventFields, StateOfEvent DEF Event
<1>2. k \in Kinds /\ p.kind = k /\ p.status = st /\ (p.error <=> Of[o].error)
  BY KindsAreKnown DEF Payload
<1> HIDE DEF p
<1>3. CASE k \in {"gitlab_pipeline", "gitlab_job"}
  <2>1. IsError(p) <=> st \notin {"success", "running"}
    BY <1>2, <1>3 DEF IsError, BuildIsError
  <2>2. FailedAs(o, st) <=> st = "canceled"
    BY <1>1, <1>3, StatusFacts DEF FailedAs, Bad
  <2>3. k \in Builds /\ st # "none"
    BY <1>3 DEF Builds
  <2>4. /\ st \in {"pending", "created"} => e.state \in {"start", "ignored"}
        /\ st = "canceled" => e.state = "end"
        /\ st \notin {"pending", "created", "running", "canceled", "success"} => e.state = "ignored"
    BY <1>1, <1>3, StateOfBuild
  <2>5. QED
    BY <1>1, <2>1, <2>2, <2>4
<1>4. CASE k = "jenkins"
  <2>1. IsError(p) <=> st # "SUCCESS"
    BY <1>2, <1>4 DEF IsError
  <2>2. st \in {"none", "INPROGRESS", "SUCCESS", "FAILURE"}
    BY <1>1, <1>4 DEF Statuses, Successors
  <2>3. FailedAs(o, st) <=> st = "FAILURE"
    BY <1>4, <2>2 DEF FailedAs, Bad
  <2>4. /\ e.state = "end" <=> st # "INPROGRESS"
        /\ e.state \in {"start", "end"}
    BY <1>1, <1>4, StateOfJenkins
  <2>5. st \in {"INPROGRESS", "SUCCESS", "FAILURE"}
    BY <2>2
  <2>6. QED
    BY <1>1, <2>1, <2>3, <2>4, <2>5
<1>5. CASE k = "customhttp"
  <2>1. IsError(p) <=> Of[o].error
    BY <1>2, <1>5 DEF IsError
  <2>2. st \in {"none", "start", "end"}
    BY <1>1, <1>5 DEF Statuses, Successors
  <2>3. FailedAs(o, st) <=> st = "end" /\ Of[o].error
    BY <1>5, <2>2 DEF FailedAs, Bad
  <2>4. QED
    BY <1>1, <1>5, <2>1, <2>2, <2>3, StateOfCustom
<1>6. CASE k \notin {"gitlab_pipeline", "gitlab_job", "jenkins", "customhttp"}
  <2>1. ~IsError(p)
    BY <1>2, <1>6 DEF IsError, Kinds
  <2>2. ~FailedAs(o, st)
    BY <1>1, <1>6, StatusFacts DEF FailedAs, Bad, Builds
  <2>3. QED
    BY <1>1, <2>1, <2>2
<1>7. QED
  BY <1>3, <1>4, <1>5, <1>6

LEMMA SentInvKept ==
    ASSUME SystemInv, SentInv, [Step]_systemVars
    PROVE  SentInv'
<1>1. CASE Rests \/ Crash
  BY <1>1 DEF Rests, Crash, deliveryVars, SentInv
<1>2. ASSUME NEW o \in live, NEW e, Advances(o, e) \/ Misses(o, e)
      PROVE  SentInv'
  <2>1. e.status # "none" /\ e \in OwnEvents(o) /\ held \in [live -> SUBSET Events]
    BY <1>2, FollowingFollows, FollowingIsOwn, LiveFacts
       DEF Advances, Misses, Follows, SystemInv, DeliveryInv
  <2>2. CASE Deliver(o, e) /\ UNCHANGED <<live, held>>
    BY <2>1, <2>2, DeliverDoes DEF SentInv, SystemInv, DeliveryInv
  <2>3. CASE UNCHANGED <<live, todo, event>> /\ (UNCHANGED held \/ held' = [held EXCEPT ![o] = {e}])
    BY <2>1, <2>3 DEF SentInv
  <2>4. QED
    BY <1>2, <2>2, <2>3 DEF Advances, Misses, bystanders, deliveryVars
<1>3. ASSUME NEW o \in live, NEW e, Repeats(o, e)
      PROVE  SentInv'
  <2>1. /\ e \in OwnEvents(o) /\ Deliver(o, e) /\ UNCHANGED live /\ e.status # "none"
        /\ \A q \in live : held'[q] \subseteq held[q]
    BY <1>3, LiveFacts DEF Repeats, SystemInv, DeliveryInv, SentInv
  <2>2. QED
    BY <2>1, DeliverDoes DEF SentInv, SystemInv, DeliveryInv
<1>4. ASSUME NEW o \in live, Starts(o) \/ Ends(o)
      PROVE  SentInv'
  <2>1. /\ UNCHANGED <<live, event, held>> /\ todo[o] # <<>>
        /\ \A q \in live \ {o} : todo'[q] = todo[q]
    BY <1>4, PlanFacts DEF Starts, Ends, Start, End, bystanders
  <2>2. QED
    BY <2>1 DEF SentInv
<1>5. QED
  BY <1>1, <1>2, <1>3, <1>4, StepCases DEF SystemInv

LEMMA ErrorInvKept ==
    ASSUME SystemInv, SentInv, ErrorInv, [Step]_systemVars
    PROVE  ErrorInv'
<1> DEFINE Latest(o) == \A e \in held[o] \cup {event[o]} : FailedAs(o, e.status) => status[o] = e.status
           Ended(o) == todo[o] = <<>> /\ event[o].state = "end" /\ answer[o] = "200" =>
                         \E s \in finished : closedBy[s] = o /\ (event[o].error => s \in failed)
           Caused == \A s \in failed : FailedAs(closedBy[s], status[closedBy[s]])
<1>1. CASE Rests
  BY <1>1 DEF Rests, deliveryVars, spanVars, ErrorInv
<1>2. CASE Crash
  <2>1. /\ UNCHANGED <<live, held, event, status, finished, closedBy, failed>>
        /\ answer' = [o \in live |-> IF todo[o] = <<>> THEN answer[o] ELSE "aborted"]
    BY <1>2 DEF Crash
  <2>2. QED
    BY <2>1 DEF ErrorInv
\* A change comes after no failure, so that its event is the only one to say so.
<1>3. ASSUME NEW o \in live, NEW e \in Following(o), Turn(o, e), UNCHANGED <<live, spanVars>>
      PROVE  /\ \A q \in live \ {o} : status'[q] = status[q]
             /\ status'[o] = e.status
             /\ \A f \in held[o] \cup {event[o]} : ~FailedAs(o, f.status)
             /\ Caused'
  <2>1. ~FailedAs(o, status[o])
    BY FollowingFollows, LiveFacts DEF Follows, FailedAs
  <2>2. status' = [status EXCEPT ![o] = e.status] /\ status \in [live -> AllStatuses]
    BY <1>3 DEF Turn, SystemInv, DeliveryInv
  <2>3. \A f \in held[o] \cup {event[o]} : ~FailedAs(o, f.status)
    BY <2>1 DEF ErrorInv
  <2>4. ASSUME NEW s \in failed PROVE closedBy[s] \in live \ {o}
    <3>1. closedBy[s] \in live
      BY DEF SystemInv, SpansInv, SpansTyped, PlacesInv
    <3>2. QED
      BY <2>1, <3>1 DEF ErrorInv
  <2>5. Caused'
    BY <1>3, <2>2, <2>4 DEF ErrorInv, spanVars
  <2>6. QED
    BY <2>2, <2>3, <2>5
<1>4. ASSUME NEW o \in live, NEW e, Deliver(o, e), e \in OwnEvents(o), UNCHANGED live
      PROVE  /\ event'[o] = e /\ \A q \in live \ {o} : event'[q] = event[q]
             /\ \A q \in live : Ended(q)'
  <2>1. /\ event'[o] = e /\ UNCHANGED spanVars
        /\ \A q \in live \ {o} : event'[q] = event[q] /\ todo'[q] = todo[q] /\ answer'[q] = answer[q]
    BY <1>4, DeliverDoes DEF SystemInv, DeliveryInv
  <2>2. todo'[o] = <<>> /\ answer'[o] = "200" => e.state = "ignored"
    BY <1>4, PlanFacts, DeliverDoes DEF Unread, SystemInv
  <2>3. QED
    BY <2>1, <2>2 DEF spanVars, ErrorInv
<1>5. ASSUME NEW o \in live, NEW e, Advances(o, e)
      PROVE  ErrorInv'
  <2>1. /\ e \in Following(o) /\ Turn(o, e) /\ Deliver(o, e) /\ e \in OwnEvents(o)
        /\ UNCHANGED <<live, held, spanVars>>
    BY <1>5, FollowingIsOwn, LiveFacts DEF Advances, bystanders, Deliver
  <2>2. \A q \in live : Latest(q)'
    BY <1>3, <1>4, <2>1 DEF ErrorInv
  <2>3. QED
    BY <1>3, <1>4, <2>1, <2>2 DEF ErrorInv
<1>6. ASSUME NEW o \in live, NEW e, Misses(o, e)
      PROVE  ErrorInv'
  <2>1. /\ e \in Following(o) /\ Turn(o, e) /\ UNCHANGED <<live, event, todo, answer, spanVars>>
        /\ UNCHANGED held \/ held' = [held EXCEPT ![o] = {e}]
        /\ held \in [live -> SUBSET Events]
    BY <1>6 DEF Misses, deliveryVars, SystemInv, DeliveryInv
  <2>2. \A q \in live : Latest(q)'
    BY <1>3, <2>1 DEF ErrorInv
  <2>3. QED
    BY <1>3, <2>1, <2>2 DEF ErrorInv, spanVars
<1>7. ASSUME NEW o \in live, NEW e, Repeats(o, e)
      PROVE  ErrorInv'
  <2>1. /\ e \in held[o] \cup {event[o]} /\ Deliver(o, e) /\ e \in OwnEvents(o)
        /\ UNCHANGED <<live, status, spanVars>>
        /\ \A q \in live : held'[q] \subseteq held[q]
    BY <1>7, LiveFacts DEF Repeats, Deliver, SystemInv, DeliveryInv
  <2>2. \A q \in live : Latest(q)'
    BY <1>4, <2>1 DEF ErrorInv
  <2>3. QED
    BY <1>4, <2>1, <2>2 DEF ErrorInv, spanVars
<1>8. ASSUME NEW o \in live, Starts(o)
      PROVE  ErrorInv'
  <2>1. /\ UNCHANGED <<live, held, event, status, finished, closedBy, failed>>
        /\ event[o].state # "end"
        /\ \A q \in live \ {o} : todo'[q] = todo[q] /\ answer'[q] = answer[q]
    BY <1>8, PlanFacts, AnswerSteps, StartCases
       DEF Starts, Start, bystanders, Begins, spanVars, SystemInv
  <2>2. QED
    BY <2>1 DEF ErrorInv
<1>9. ASSUME NEW o \in live, Ends(o)
      PROVE  ErrorInv'
  <2>1. /\ UNCHANGED <<live, held, event, status>>
        /\ \A q \in live \ {o} : todo'[q] = todo[q] /\ answer'[q] = answer[q]
        /\ event[o].state \in {"end", "transition"}
        /\ event[o].state = "end" => todo[o] = <<"end">>
    BY <1>9, PlanFacts, AnswerSteps DEF Ends, End, bystanders, SystemInv
  <2>2. CASE UNCHANGED spanVars /\ (todo[o] = <<"end">> => answer'[o] # "200")
    BY <2>1, <2>2 DEF ErrorInv, spanVars
  <2>3. CASE Finishes(o)
    <3> DEFINE s == tracked[event[o].id]
    <3>1. /\ s \in Span \ finished /\ finished' = finished \cup {s}
          /\ closedBy'[s] = o
          /\ \A q \in finished : closedBy'[q] = closedBy[q]
          /\ failed \subseteq finished
      <4>1. s \in Span \ finished
        BY <2>3, FinishFacts
      <4>2. /\ finished \subseteq Span /\ failed \subseteq finished
            /\ closedBy \in [Span -> live \cup {NoObject}]
        BY DEF SystemInv, SpansInv, SpansTyped
      <4>3. finished' = finished \cup {s} /\ closedBy' = [closedBy EXCEPT ![s] = o]
        BY <2>3 DEF Finishes
      <4> HIDE DEF s
      <4>4. QED
        BY <4>1, <4>2, <4>3
    <3>2. event[o].error => failed' = failed \cup {s}
      BY <2>3 DEF Finishes
    <3>3. ~event[o].error => failed' = failed
      BY <2>3 DEF Finishes
    <3> HIDE DEF s
    <3>4. Caused'
      <4>1. event[o].error => FailedAs(o, event[o].status)
        BY <1>9, <2>1, ErrorFacts, LiveFacts DEF SentInv, Ends, End
      <4>2. event[o].error => FailedAs(o, status[o])
        BY <4>1 DEF ErrorInv
      <4>3. QED
        BY <2>1, <3>1, <3>2, <3>3, <4>2 DEF ErrorInv
    <3>5. \A q \in live : Ended(q)'
      BY <2>1, <3>1, <3>2, <3>3 DEF ErrorInv
    <3>6. QED
      BY <2>1, <3>4, <3>5 DEF ErrorInv
  <2>4. QED
    BY <1>9, <2>2, <2>3, EndCases DEF Ends, SystemInv
<1>10. QED
  BY <1>1, <1>2, <1>5, <1>6, <1>7, <1>8, <1>9, StepCases DEF SystemInv

\* A span is finished as an error exactly when its object went wrong, whatever was
\* lost, late, doubled or crashed.
THEOREM ErrorsAreFailures == SystemSpec => []ErrorMeansFailure
<1>1. GeneratorInit => SentInv /\ ErrorInv
  <2> SUFFICES ASSUME GeneratorInit PROVE SentInv /\ ErrorInv
    OBVIOUS
  <2>1. SystemInv
    BY SystemInvInit
  <2>2. /\ event = [o \in live |-> EventOf[o]["none"]] /\ held = [o \in live |-> {}]
        /\ answer = [o \in live |-> "none"] /\ failed = {} /\ todo = [o \in live |-> <<>>]
    BY DEF GeneratorInit, DeliveriesInit, Init
  <2>3. \A o \in live : event[o].status = "none"
    <3> SUFFICES ASSUME NEW o \in live PROVE event[o].status = "none"
      OBVIOUS
    <3>1. o \in Objects /\ "none" \in Statuses(o) /\ event[o] = EventOf[o]["none"]
      BY <2>1, <2>2, LiveFacts DEF Statuses
    <3>2. event[o] = Event(o, "none")
      BY <3>1, EventsOfStatus
    <3>3. QED
      BY <3>2 DEF Event
  <2>4. QED
    BY <2>2, <2>3 DEF SentInv, ErrorInv, FailedAs, Bad
<1>2. SystemInv /\ SentInv /\ ErrorInv /\ [Step]_systemVars => SentInv' /\ ErrorInv'
  BY SentInvKept, ErrorInvKept
<1>3. SystemInv /\ ErrorInv => ErrorMeansFailure
  <2> SUFFICES ASSUME SystemInv, ErrorInv PROVE ErrorMeansFailure
    OBVIOUS
  <2>1. \A o \in live : WentWrong(o) <=> FailedAs(o, status[o])
    BY DEF WentWrong, FailedAs, Bad
  <2>2. \A s \in failed : closedBy[s] \in live
    BY DEF SystemInv, SpansInv, SpansTyped, PlacesInv
  <2>3. ASSUME NEW o \in live, UpToDate(o), WentWrong(o), answer[o] = "200"
        PROVE  \E s \in finished : closedBy[s] = o /\ s \in failed
    <3>1. event[o].state = "end" /\ event[o].error
      BY <2>1, <2>3, ErrorFacts, LiveFacts DEF UpToDate, FailedAs, Bad
    <3>2. QED
      BY <2>3, <3>1 DEF ErrorInv, UpToDate
  <2>4. QED
    BY <2>1, <2>2, <2>3 DEF ErrorMeansFailure, ErrorInv
<1>4. QED
  BY <1>1, <1>2, <1>3, SystemInvHolds, PTL DEF SystemSpec

-----------------------------------------------------------------------------
LEMMA BeforeIsNoWork ==
    ASSUME NEW o \in Objects, NEW st, BeforeWork(Kind[o], st)
    PROVE  /\ StateOf(Kind[o], st) \notin {"start", "transition"}
           /\ StateOf(Kind[o], st) = "end" /\ st # "none" => Kind[o] \in GitHubEvents
BY NoneIsNoWork, StateOfSprint, StateOfGitHub DEF BeforeWork, GitHubEvents

LEMMA JiraIssuesNeverStart == \A st : StateOf("jira_issue", st) # "start"
<1> SUFFICES ASSUME NEW st PROVE StateOf("jira_issue", st) # "start"
  OBVIOUS
<1>1. StateOf("jira_issue", st) \in {"transition", "end", "ignored"}
  BY StateOfJiraIssue, Zenon
<1>2. QED
  BY <1>1

\* Events that make a transition have no tag or timings to fail.
LEMMA TransitionsWork ==
    ASSUME NEW o \in Objects, NEW e \in OwnEvents(o), e.state = "transition"
    PROVE  e.fault \notin {"tag", "timings"}
<1>1. e.state = StateOf(Kind[o], e.status)
  BY StateOfEvent
<1>2. Kind[o] \notin GitHubEvents \cup {"customhttp"}
  BY <1>1, StateOfGitHub, StateOfCustom DEF GitHubEvents
<1>3. QED
  BY <1>2, EventFaults

\* What happens to an object does not touch the ids of another one, if that has no twin.
LEMMA OthersStay ==
    ASSUME SystemInv, NEW o \in live, Starts(o) \/ Ends(o), NEW q \in live \ {o}
    PROVE  /\ event'[q] = event[q] /\ todo'[q] = todo[q] /\ answer'[q] = answer[q]
           /\ ~HasTwin(q) => \A f \in OwnEvents(q) : tracked'[f.id] = tracked[f.id]
<1>1. /\ event'[q] = event[q] /\ todo'[q] = todo[q] /\ answer'[q] = answer[q]
  BY PlanFacts, AnswerSteps DEF Starts, Ends, Start, End, SystemInv
<1>2. ASSUME ~HasTwin(q), NEW f \in OwnEvents(q)
      PROVE  tracked'[f.id] = tracked[f.id]
  <2>1. f.id # event[o].id /\ f.id \in DOMAIN tracked
    BY <1>2, OwnIds, LiveFacts DEF SystemInv, SpansInv, SpansTyped
  <2>2. \/ UNCHANGED spanVars
        \/ NextSpan \in T!Fresh /\ Begins(o, NextSpan)
        \/ Finishes(o)
    BY StartCases, EndCases DEF Starts, Ends, SystemInv
  <2>3. QED
    BY <2>1, <2>2, BeginFacts, FinishFacts DEF spanVars
<1>3. QED
  BY <1>1, <1>2

LEMMA NoneTrackedIds ==
    ASSUME SystemInv, NEW o \in live, ~HasTwin(o), NoneTracked(o), NEW e \in OwnEvents(o)
    PROVE  tracked[e.id] = NoSpan
<1> SUFFICES ASSUME tracked[e.id] # NoSpan PROVE FALSE
  OBVIOUS
<1> DEFINE q == about[tracked[e.id]]
<1>1. e.id \in DOMAIN tracked
  BY DEF SystemInv, SpansInv, SpansTyped
<1>2. q # o /\ q \in live /\ \E f \in OwnEvents(q) : f.id = e.id
  BY <1>1 DEF NoneTracked, SystemInv, SpansInv, SpansTyped, PlacesInv
<1>3. QED
  BY <1>2, LiveFacts, SameIdMeansTwins DEF HasTwin

LEMMA RestartInvKept ==
    ASSUME SystemInv, SentInv, ReadableInv, RestartInv, [Step]_systemVars
    PROVE  RestartInv'
<1> DEFINE Free(o) == TransitionFree(o) /\ (Calm(o) => StartFree(o) /\ BeforeFree(o))
<1>1. CASE Rests
  BY <1>1 DEF Rests, deliveryVars, spanVars, RestartInv, TransitionFree, Calm, StartFree, BeforeFree, HasTwin
<1>2. CASE Crash
  BY <1>2, PlansDiffer DEF Crash, RestartInv, TransitionFree, Calm, HasTwin, SystemInv, DeliveryInv
<1>3. ASSUME NEW o \in live, NEW e, Misses(o, e)
      PROVE  RestartInv'
  <2>1. /\ UNCHANGED <<live, event, todo, tracked>> /\ disturbed' = disturbed \cup {o}
        /\ \A q \in live \ {o} : status'[q] = status[q]
    BY <1>3 DEF Misses, Turn, deliveryVars, spanVars, SystemInv, DeliveryInv
  <2>2. QED
    BY <2>1 DEF RestartInv, TransitionFree, Calm, StartFree, BeforeFree, HasTwin
<1>4. ASSUME NEW o \in live, NEW e, Advances(o, e) \/ Repeats(o, e)
      PROVE  RestartInv'
  <2>1. /\ e \in OwnEvents(o) /\ Deliver(o, e) /\ UNCHANGED <<live, tracked>>
        /\ disturbed \subseteq disturbed'
        /\ \A q \in live \ {o} : status'[q] = status[q]
    BY <1>4, FollowingIsOwn, LiveFacts
       DEF Advances, Repeats, bystanders, Deliver, Turn, spanVars, SystemInv, DeliveryInv
  <2>2. /\ event'[o] = e /\ todo[o] = <<>>
        /\ \A q \in live \ {o} : event'[q] = event[q] /\ todo'[q] = todo[q]
    BY <2>1, DeliverDoes DEF SystemInv, DeliveryInv
  <2>3. ASSUME NEW q \in live \ {o}, Free(q) PROVE Free(q)'
    BY <2>1, <2>2, <2>3 DEF TransitionFree, Calm, StartFree, BeforeFree
  <2>4. /\ todo'[o] = <<"start">> => e.state = "start"
        /\ todo'[o] = <<>> => e.fault \in Unread \/ e.state = "ignored"
    BY <2>1, PlanFacts, DeliverDoes, StateIsKnown, EffectsOf, PlansDiffer, LiveFacts
       DEF SystemInv, EventStates
  <2>5. ASSUME ~HasTwin(o), Calm(o)' PROVE StartFree(o)' /\ BeforeFree(o)'
    <3>1. o \notin disturbed /\ Calm(o)
      BY <2>1, <2>5 DEF Calm
    <3>2. e \in Following(o) /\ status'[o] = e.status
      BY <1>4, <2>5, <3>1 DEF Advances, Repeats, Turn, Calm, SystemInv, DeliveryInv
    <3>3. Follows(Kind[o], status[o], e.status) /\ e.state = StateOf(Kind[o], e.status)
      BY <2>1, <3>2, FollowingFollows, StateOfEvent, LiveFacts
    <3>4. BeforeWork(Kind[o], status[o]) => \A f \in OwnEvents(o) : tracked[f.id] = NoSpan
      BY <2>2, <2>5, <3>1 DEF RestartInv, BeforeFree
    <3>5. StartFree(o)'
      BY <2>1, <2>2, <2>4, <3>1, <3>3, <3>4 DEF Follows, StartFree, Calm
    <3>6. ASSUME todo'[o] = <<>>, BeforeWork(Kind[o], e.status), NEW f \in OwnEvents(o)
          PROVE  tracked[f.id] = NoSpan
      <4>1. CASE status[o] = "none"
        BY <3>4, <4>1 DEF BeforeWork
      <4>2. CASE Kind[o] \in GitHubEvents /\ e.state = "end"
        BY <2>1, <2>4, <2>5, <3>6, <4>2, UnsoundIsUntracked, NoneTrackedIds DEF Unread, GitHubEvents
      <4>3. QED
        BY <3>3, <3>6, <4>1, <4>2 DEF Follows
    <3>7. QED
      BY <2>1, <3>2, <3>5, <3>6 DEF BeforeFree
  <2>6. TransitionFree(o)'
    BY <2>2, <2>4 DEF TransitionFree
  <2>7. QED
    BY <2>1, <2>3, <2>5, <2>6 DEF RestartInv, HasTwin
<1>5. ASSUME NEW o \in live, Starts(o) \/ Ends(o)
      PROVE  RestartInv'
  <2>1. UNCHANGED <<live, status, event, disturbed>>
    BY <1>5 DEF Starts, Ends, Start, End, bystanders
  <2>2. ASSUME NEW q \in live \ {o}, ~HasTwin(q), Free(q) PROVE Free(q)'
    BY <1>5, <2>1, <2>2, OthersStay, LiveFacts DEF TransitionFree, Calm, StartFree, BeforeFree
  <2>3. CASE Starts(o)
    <3>1. todo'[o] = <<>> /\ event[o].state \in {"start", "transition"}
      BY <2>3, PlanFacts DEF Starts
    <3>2. Calm(o) => ~BeforeWork(Kind[o], status[o])
      <4>1. o \in Objects /\ event[o].state = StateOf(Kind[o], event[o].status)
        BY LiveFacts
      <4>2. Calm(o) => event[o].status = status[o]
        BY DEF Calm, SystemInv, DeliveryInv
      <4>3. BeforeWork(Kind[o], event[o].status) => event[o].state \notin {"start", "transition"}
        BY <4>1, BeforeIsNoWork
      <4>4. QED
        BY <3>1, <4>2, <4>3
    <3>3. /\ Calm(o)' => Calm(o)
          /\ status' = status /\ todo'[o] # <<"start">>
      <4>1. Calm(o)' => Calm(o)
        BY <2>1 DEF Calm
      <4>2. todo'[o] # <<"start">>
        BY <3>1, PlansDiffer
      <4>3. QED
        BY <2>1, <4>1, <4>2
    <3>4. TransitionFree(o)' /\ StartFree(o)'
      BY <3>3 DEF TransitionFree, StartFree
    <3>5. Calm(o)' => BeforeFree(o)'
      BY <3>2, <3>3 DEF BeforeFree
    <3>6. Free(o)'
      BY <3>4, <3>5
    <3>7. QED
      BY <2>1, <2>2, <3>6 DEF RestartInv, HasTwin
  <2>4. CASE Ends(o)
    <3>1. \/ todo[o] = <<"end">> /\ event[o].state = "end" /\ todo'[o] = <<>>
          \/ todo[o] = <<"end", "start">> /\ event[o].state = "transition" /\ todo'[o] = <<"start">>
      BY <2>4, PlanFacts DEF Ends
    <3>2. \/ tracked'[event[o].id] = NoSpan
          \/ UNCHANGED tracked /\ event[o].fault \in {"tag", "timings"}
      BY <2>4, EndCases, FinishFacts DEF Ends, SystemInv, spanVars
    <3>3. event[o].state = "transition" => tracked'[event[o].id] = NoSpan
      BY <3>2, TransitionsWork, LiveFacts
    <3>4. ASSUME Calm(o), BeforeWork(Kind[o], status[o]), event[o].state = "end",
                 NEW f \in OwnEvents(o)
          PROVE  tracked'[f.id] = NoSpan
      <4>1. event[o].status = status[o] /\ event[o].status # "none"
        BY <2>4, <3>4 DEF Calm, Ends, End, SentInv, SystemInv, DeliveryInv
      <4>2. Kind[o] \in GitHubEvents
        BY <3>4, <4>1, BeforeIsNoWork, LiveFacts
      <4>3. f.id = event[o].id
        BY <3>4, <4>2, OneId, LiveFacts DEF GitHubEvents
      <4>4. event[o].fault \notin {"tag", "timings"}
        BY <3>4, <4>2, EventFaults, LiveFacts DEF GitHubEvents, Calm
      <4>5. QED
        BY <3>2, <4>3, <4>4
    <3>5. Free(o)'
      BY <2>1, <3>1, <3>3, <3>4, PlansDiffer DEF TransitionFree, Calm, StartFree, BeforeFree
    <3>6. QED
      BY <2>1, <2>2, <3>5 DEF RestartInv, HasTwin
  <2>5. QED
    BY <1>5, <2>3, <2>4
<1>6. QED
  BY <1>1, <1>2, <1>3, <1>4, <1>5, StepCases DEF SystemInv

LEMMA LostInvKept ==
    ASSUME SystemInv, RestartInv, LostInv, [Step]_systemVars
    PROVE  LostInv'
<1>1. live' = live /\ disturbed \subseteq disturbed'
  BY StepCases DEF SystemInv, Rests, Crash, Starts, Ends, Advances, Misses, Repeats, bystanders
<1>2. \A o : Lossy(o) => Lossy(o)'
  BY <1>1 DEF Lossy, HasTwin
<1>3. refused \subseteq refused' /\ crashed \subseteq crashed'
  BY StepCases, SpanCases
     DEF SystemInv, Rests, Crash, Starts, Ends, Advances, Misses, Repeats, bystanders,
         spanVars, Begins, Refuses, Stores, Finishes
<1>4. CASE UNCHANGED <<lost, about>>
  BY <1>2, <1>3, <1>4 DEF LostInv
<1>5. CASE Crash
  BY <1>2, <1>5 DEF Crash, LostInv
<1>6. ASSUME NEW o \in live, Starts(o), NextSpan \in T!Fresh, Begins(o, NextSpan)
      PROVE  LostInv'
  <2>1. /\ about[NextSpan] = NoObject
        /\ \A s \in Span \ {NextSpan} : about'[s] = about[s]
    BY <1>6, BeginFacts
  <2>2. lost \subseteq Span /\ \A s \in lost : about'[s] = about[s]
    BY <2>1 DEF SystemInv, SpansInv, SpansTyped, PlacesInv
  <2>3. CASE Refuses(o, NextSpan)
    BY <1>2, <1>3, <2>2, <2>3 DEF Refuses, LostInv
  <2>4. CASE Stores(o, NextSpan)
    <3> DEFINE s == tracked[event[o].id]
    <3>1. lost' = lost \cup ({s} \ {NoSpan})
      BY <2>4 DEF Stores
    <3>2. ASSUME s # NoSpan PROVE Lossy(about[s]) /\ about'[s] = about[s]
      <4>1. /\ s \in Span /\ about[s] \in live /\ s # NextSpan
            /\ \E f \in OwnEvents(about[s]) : f.id = event[o].id
        BY <2>1, <3>2, LiveFacts DEF SystemInv, SpansInv, SpansTyped, PlacesInv
      <4>2. ASSUME about[s] # o PROVE Lossy(about[s])
        <5>1. PICK f \in OwnEvents(about[s]) : f.id = event[o].id
          BY <4>1
        <5>2. Twins(about[s], o) \/ Confusable(about[s], o)
          BY <4>1, <4>2, <5>1, LiveFacts, SameIdMeansTwins
        <5>3. QED
          BY <5>2 DEF Lossy, HasTwin
      <4>3. ASSUME about[s] = o PROVE Lossy(about[s])
        <5>1. todo[o] = <<"start">> /\ event[o].state \in {"start", "transition"}
          BY <1>6, PlanSteps, PlanFacts DEF Starts, SystemInv
        <5>2. HasTwin(o) \/ (event[o].state = "start" /\ ~Calm(o))
          BY <3>2, <5>1 DEF RestartInv, TransitionFree, StartFree
        <5>3. event[o].state = "start" => Kind[o] # "jira_issue"
          BY LiveFacts, JiraIssuesNeverStart
        <5>4. QED
          BY <4>3, <5>2, <5>3 DEF Lossy, Calm
      <4>4. QED
        BY <2>1, <4>1, <4>2, <4>3
    <3> HIDE DEF s
    <3>3. QED
      BY <1>2, <1>3, <2>2, <3>1, <3>2 DEF LostInv
  <2>5. QED
    BY <1>6, <2>3, <2>4 DEF Begins
<1>7. QED
  BY <1>4, <1>5, <1>6, SpanCases DEF spanVars, Finishes

\* An open span is replaced only by those whose source sends starts anew, by a twin,
\* after an end without closed_at, or when webhooks went astray.
THEOREM ReplacedOnlyWithReason == SystemSpec => []LostOnlyByRestart
<1>1. GeneratorInit => SentInv /\ ReadableInv /\ RestartInv /\ LostInv
  <2> SUFFICES ASSUME GeneratorInit PROVE SentInv /\ ReadableInv /\ RestartInv /\ LostInv
    OBVIOUS
  <2>1. SystemInv
    BY SystemInvInit
  <2>2. \A i \in DOMAIN tracked : tracked[i] = NoSpan
    BY DEF GeneratorInit, DeliveriesInit, Init
  <2>3. \A o \in live : \A e \in OwnEvents(o) : tracked[e.id] = NoSpan
    BY <2>1, <2>2 DEF SystemInv, SpansInv, SpansTyped
  <2>4. todo = [o \in live |-> <<>>] /\ held = [o \in live |-> {}] /\ lost = {}
    BY DEF GeneratorInit, DeliveriesInit, Init
  <2>5. QED
    BY <2>1, <2>2, <2>3, <2>4, LiveFacts, PlansDiffer
       DEF SentInv, ReadableInv, RestartInv, TransitionFree, StartFree, BeforeFree, LostInv
<1>2. /\ SystemInv /\ SentInv /\ ReadableInv /\ RestartInv /\ LostInv /\ [Step]_systemVars
      => SentInv' /\ ReadableInv' /\ RestartInv' /\ LostInv'
  BY SentInvKept, ReadableInvKept, RestartInvKept, LostInvKept
<1>3. LostInv => LostOnlyByRestart
  BY DEF LostInv, Lossy, StartsAnew, LostOnlyByRestart
<1>4. QED
  BY <1>1, <1>2, <1>3, SystemInvHolds, PTL DEF SystemSpec

-----------------------------------------------------------------------------
LEMMA KeptIsIgnored ==
    ASSUME NEW k \in Kinds, NEW st, <<k, st>> \in Kept
    PROVE  StateOf(k, st) = "ignored" /\ st # "none"
BY NamesDiffer, JiraIssueSteps, StateOfGitHub, StateOfBuild

\* Where the payloads of an object are sound after a step, they were before.
LEMMA SteadyBefore ==
    ASSUME SystemInv, [Step]_systemVars, NEW o \in live, Steady(o)'
    PROVE  Steady(o)
<1>1. live' = live /\ disturbed \subseteq disturbed' /\ refused \subseteq refused'
  BY StepCases, SpanCases
     DEF SystemInv, Rests, Crash, Starts, Ends, Advances, Misses, Repeats, bystanders,
         spanVars, Begins, Refuses, Stores, Finishes
<1>2. SpansOf(o) \subseteq SpansOf(o)'
  <2>1. CASE UNCHANGED about
    BY <2>1 DEF SpansOf
  <2>2. ASSUME NEW q \in live, NextSpan \in T!Fresh, Begins(q, NextSpan)
        PROVE  SpansOf(o) \subseteq SpansOf(o)'
    BY <2>2, BeginFacts, LiveFacts DEF SpansOf
  <2>3. QED
    BY <2>1, <2>2, SpanCases DEF spanVars, Finishes, Crash
<1>3. QED
  BY <1>1, <1>2 DEF Steady, HasTwin, Sound

LEMMA SteadyInvKept ==
    ASSUME SystemInv, SentInv, SteadyInv, SameTypes, [Step]_systemVars
    PROVE  SteadyInv'
<1> DEFINE Goes(o) == WorkFound(o) /\ EndFound(o) /\ NotBegun(o) /\ EndTaken(o)
<1>1. CASE Rests
  BY <1>1, SteadyBefore
     DEF Rests, deliveryVars, spanVars, SteadyInv, WorkFound, EndFound, NotBegun, EndTaken, NoWorkYet, SpansOf
<1>2. CASE Crash
  BY <1>2 DEF Crash, SteadyInv, Steady
<1>3. ASSUME NEW o \in live, NEW e, Misses(o, e)
      PROVE  SteadyInv'
  <2>1. /\ UNCHANGED <<live, event, todo, answer, tracked, about>> /\ o \in disturbed'
        /\ \A q \in live \ {o} : status'[q] = status[q]
    BY <1>3 DEF Misses, Turn, deliveryVars, spanVars, SystemInv, DeliveryInv
  <2>2. ASSUME NEW q \in live \ {o}, Goes(q) PROVE Goes(q)'
    BY <2>1, <2>2 DEF WorkFound, EndFound, NotBegun, EndTaken, NoWorkYet, SpansOf
  <2>3. QED
    BY <2>1, <2>2, SteadyBefore DEF SteadyInv, Steady
<1>4. ASSUME NEW o \in live, NEW e, Advances(o, e) \/ Repeats(o, e)
      PROVE  SteadyInv'
  <2>1. /\ e \in OwnEvents(o) /\ Deliver(o, e) /\ UNCHANGED <<live, tracked, about>>
        /\ \A q \in live \ {o} : status'[q] = status[q]
    BY <1>4, FollowingIsOwn, LiveFacts
       DEF Advances, Repeats, bystanders, Deliver, Turn, spanVars, SystemInv, DeliveryInv
  <2>2. /\ event'[o] = e /\ todo[o] = <<>>
        /\ \A q \in live \ {o} : event'[q] = event[q] /\ todo'[q] = todo[q] /\ answer'[q] = answer[q]
    BY <2>1, DeliverDoes DEF SystemInv, DeliveryInv
  <2>3. ASSUME NEW q \in live \ {o}, Goes(q) PROVE Goes(q)'
    BY <2>1, <2>2, <2>3 DEF WorkFound, EndFound, NotBegun, EndTaken, NoWorkYet, SpansOf
  <2>4. ASSUME Steady(o)' PROVE Goes(o)'
    <3>1. Steady(o) /\ o \notin disturbed'
      BY <2>4, SteadyBefore DEF Steady
    <3>2. e \in Following(o) /\ status'[o] = e.status
      BY <1>4, <3>1 DEF Advances, Repeats, Turn, Steady, SystemInv, DeliveryInv
    <3>3. Follows(Kind[o], status[o], e.status) /\ e.state = StateOf(Kind[o], e.status)
      BY <2>1, <3>2, FollowingFollows, StateOfEvent, LiveFacts
    <3>4. e.fault \notin Unread /\ e.id = event[o].id
      BY <2>1, <3>1, OneId, LiveFacts DEF Steady, Sound, Unread, SameTypes
    <3>5. WorkFound(o) /\ NotBegun(o)
      BY <3>1 DEF SteadyInv
    <3>6. /\ todo'[o] = <<>> => e.state = "ignored"
          /\ todo'[o] = <<"end">> => e.state = "end"
          /\ answer'[o] = "200"
      <4>1. todo'[o] = Effects(e.state) /\ answer'[o] = "200" /\ e.state \in EventStates
        BY <2>1, <3>4, DeliverDoes, StateIsKnown, LiveFacts DEF SystemInv
      <4>2. QED
        BY <4>1, EffectsOf, PlansDiffer DEF EventStates
    <3>7. WorkFound(o)'
      BY <2>1, <2>2, <3>2, <3>3, <3>4, <3>5, <3>6 DEF Follows, WorkFound, InWork
    <3>8. EndFound(o)'
      <4>1. e.state = "end" => tracked[event[o].id] # NoSpan \/ NoWorkYet(o)
        BY <2>2, <3>3, <3>5 DEF Follows, WorkFound, NotBegun, NoWorkYet
      <4>2. QED
        BY <2>1, <2>2, <3>4, <3>6, <4>1 DEF EndFound, NoWorkYet, SpansOf
    <3>9. NotBegun(o)' /\ EndTaken(o)'
      BY <2>2, <3>2, <3>3, <3>6 DEF Follows, NotBegun, EndTaken
    <3>10. QED
      BY <3>7, <3>8, <3>9
  <2>5. QED
    BY <2>1, <2>3, <2>4, SteadyBefore DEF SteadyInv
<1>5. ASSUME NEW o \in live, Starts(o) \/ Ends(o)
      PROVE  SteadyInv'
  <2>1. UNCHANGED <<live, status, event>>
    BY <1>5 DEF Starts, Ends, Start, End, bystanders
  <2>2. \A q \in live \ {o} : SpansOf(q)' = SpansOf(q)
    <3>1. UNCHANGED about \/ (NextSpan \in T!Fresh /\ Begins(o, NextSpan))
      BY <1>5, StartCases, EndCases DEF Starts, Ends, spanVars, Finishes, SystemInv
    <3>2. QED
      BY <3>1, BeginFacts, LiveFacts DEF SpansOf
  <2>3. ASSUME NEW q \in live \ {o}, ~HasTwin(q), Goes(q) PROVE Goes(q)'
    BY <1>5, <2>1, <2>2, <2>3, OthersStay, LiveFacts
       DEF WorkFound, EndFound, NotBegun, EndTaken, NoWorkYet
  <2>4. ASSUME Steady(o)' PROVE Goes(o)'
    <3>1. Steady(o) /\ Goes(o)
      BY <2>4, SteadyBefore DEF SteadyInv
    <3>2. event[o].status = status[o] /\ status[o] # "none" /\ event[o].fault \in {"none", "timings"}
      BY <1>5, <3>1, LiveFacts
         DEF Steady, Sound, Starts, Ends, Start, End, SentInv, SystemInv, DeliveryInv
    <3>3. NotBegun(o)'
      BY <2>1, <3>2 DEF NotBegun
    <3>4. CASE Starts(o)
      <4>1. todo'[o] = <<>> /\ event[o].state # "end"
        BY <3>4, PlanFacts DEF Starts
      <4>2. NextSpan \in T!Fresh /\ Begins(o, NextSpan)
        BY <3>2, <3>4, StartCases DEF Starts, SystemInv
      <4>3. NextSpan \in SpansOf(o)'
        BY <4>2, BeginFacts DEF SpansOf
      <4>4. Stores(o, NextSpan)
        BY <2>4, <4>2, <4>3 DEF Steady, Begins, Refuses
      <4>5. tracked'[event[o].id] # NoSpan
        BY <4>2, <4>4, BeginFacts, LiveFacts DEF Stores
      <4>6. QED
        BY <2>1, <3>3, <4>1, <4>5, PlansDiffer DEF WorkFound, EndFound, EndTaken
    <3>5. CASE Ends(o)
      <4>1. \/ todo[o] = <<"end">> /\ event[o].state = "end" /\ todo'[o] = <<>>
            \/ todo'[o] = <<"start">>
        BY <3>5, PlanFacts DEF Ends
      <4>2. event[o].state = "end" => ~InWork(Kind[o], status[o])
        BY <3>2, KeptIsIgnored, KindsAreKnown, LiveFacts DEF InWork
      <4>3. todo[o] = <<"end">> /\ answer'[o] # "200" /\ event[o].fault = "none" =>
              NoWorkYet(o) /\ UNCHANGED about
        BY <3>1, <3>5, EndCases DEF EndFound, Ends, Finishes, SystemInv, spanVars
      <4>4. QED
        BY <2>1, <3>3, <4>1, <4>2, <4>3, PlansDiffer DEF WorkFound, EndFound, EndTaken, NoWorkYet, SpansOf
    <3>6. QED
      BY <1>5, <3>4, <3>5
  <2>5. QED
    BY <2>1, <2>3, <2>4, SteadyBefore DEF SteadyInv, Steady
<1>6. QED
  BY <1>1, <1>2, <1>3, <1>4, <1>5, StepCases DEF SystemInv

\* For any objects whose types do not change until their ends: an end that is refused
\* has one of the reasons of RefusedOnlyWithReason.
THEOREM EndsAreRefusedWithReason ==
    ASSUME SameTypes
    PROVE  SystemSpec => []RefusedOnlyWithReason
<1>1. GeneratorInit => SentInv /\ SteadyInv
  <2> SUFFICES ASSUME GeneratorInit PROVE SentInv /\ SteadyInv
    OBVIOUS
  <2>1. SystemInv
    BY SystemInvInit
  <2>2. /\ status = [o \in live |-> "none"] /\ event = [o \in live |-> EventOf[o]["none"]]
        /\ todo = [o \in live |-> <<>>] /\ held = [o \in live |-> {}]
        /\ about = [s \in Span |-> NoObject]
    BY DEF GeneratorInit, DeliveriesInit, Init
  <2>3. ASSUME NEW o \in live
        PROVE  WorkFound(o) /\ EndFound(o) /\ NotBegun(o) /\ EndTaken(o)
    <3>1. o \in Objects /\ o # NoObject /\ "none" \in Statuses(o) /\ event[o] = EventOf[o]["none"]
      BY <2>1, <2>2, LiveFacts DEF Statuses
    <3>2. event[o] = Event(o, "none")
      BY <3>1, EventsOfStatus
    <3>3. event[o].status = "none"
      BY <3>2 DEF Event
    <3>4. ~InWork(Kind[o], "none")
      BY <3>1, NoneIsNoWork, KeptIsIgnored, KindsAreKnown DEF InWork
    <3>5. SpansOf(o) = {} /\ status[o] = "none" /\ todo[o] = <<>>
      BY <2>2, <3>1 DEF SpansOf
    <3>6. QED
      BY <3>3, <3>4, <3>5, PlansDiffer DEF WorkFound, EndFound, NotBegun, EndTaken
  <2>4. QED
    BY <2>2, <2>3 DEF SentInv, SteadyInv
<1>2. SystemInv /\ SentInv /\ SteadyInv /\ [Step]_systemVars => SentInv' /\ SteadyInv'
  BY SameTypes, SentInvKept, SteadyInvKept
<1>3. SystemInv /\ SteadyInv => RefusedOnlyWithReason
  <2> SUFFICES ASSUME SystemInv, SteadyInv, NEW o \in live,
                      event[o].status # "none", todo[o] = <<>>, event[o].state = "end",
                      answer[o] # "200", o \notin disturbed, ~HasTwin(o),
                      SpansOf(o) \cap refused = {}, event[o].fault = "none"
               PROVE  Kind[o] = "jira_issue" /\ SpansOf(o) = {}
    BY DEF RefusedOnlyWithReason
  <2>1. Sound(o)
    BY SameTypes, LiveFacts, FaultsAgree DEF Sound, SameTypes
  <2>2. QED
    BY <2>1 DEF SteadyInv, Steady, EndTaken, NoWorkYet
<1>4. QED
  BY <1>1, <1>2, <1>3, SystemInvHolds, PTL DEF SystemSpec

-----------------------------------------------------------------------------
\* The payloads that are drawn name no end without a start.
DrawnEnd == \A o \in Drawn : ~EndsAtNoTime(o)

LEMMA LoopsClose ==
    ASSUME NEW l \in Loops, NEW o \in Objects, Kind[o] = l, NEW e \in OwnEvents(o), e.status \in Closed(l)
    PROVE  e.state = "end"
BY StateOfEvent, StateOfGitHub, StateOfJenkins DEF Loops, Closed

\* A loop posts an event of an object, which it draws now or has in hand.
LEMMA PostKeepsLoops ==
    ASSUME SystemInv, Generating, HandsDrawn, WorkInHand, OpenInHand,
           NEW l \in Loops, NEW o \in live, NEW sts, NEW next \in {"creating", "closing"},
           Post(l, o, sts, next), Kind[o] = l, hand[l] \in {NoObject, o},
           next = "closing" => sts = Closed(l)
    PROVE  LoopsInv'
<1>1. PICK e \in Following(o) : e.status \in sts /\ Turn(o, e) /\ Deliver(o, e)
  BY DEF Post
<1>2. /\ loop' = [loop EXCEPT ![l] = next] /\ hand' = [hand EXCEPT ![l] = o]
      /\ UNCHANGED <<live, orphans>>
  BY DEF Post
<1>3. e \in OwnEvents(o) /\ e.status # "none" /\ o # NoObject
  BY <1>1, FollowingIsOwn, FollowingFollows, LiveFacts DEF Follows
<1>4. /\ UNCHANGED spanVars /\ event'[o] = e
      /\ \A q \in live \ {o} : event'[q] = event[q] /\ todo'[q] = todo[q]
  BY <1>1, <1>3, DeliverDoes DEF SystemInv, DeliveryInv
<1>5. status'[o] = e.status /\ \A q \in live \ {o} : status'[q] = status[q]
  BY <1>1 DEF Turn, SystemInv, DeliveryInv
<1>6. /\ loop'[l] = next /\ hand'[l] = o
      /\ \A k \in Loops \ {l} : loop'[k] = loop[k] /\ hand'[k] = hand[k]
      /\ hand \in [Loops -> live \cup {NoObject}]
  BY <1>2 DEF SystemInv, HandsInv
<1>7. \A q : InHand(q) /\ q # NoObject => InHand(q)'
  BY <1>2, <1>6 DEF InHand
<1>8. InHand(o)'
  BY <1>6 DEF InHand
<1>9. HandsDrawn'
  <2>1. ASSUME NEW k \in Loops \ {l}, hand[k] # NoObject PROVE hand[k] \in live \ {o}
    BY <1>6, <2>1 DEF HandsDrawn
  <2>2. \A k \in Loops : hand'[k] # NoObject => Kind[hand'[k]] = k /\ status'[hand'[k]] # "none"
    BY <1>3, <1>5, <1>6, <2>1 DEF HandsDrawn
  <2>3. \A k \in Loops : loop'[k] \in {"tick", "dead"} => hand'[k] = NoObject
    BY <1>6 DEF HandsDrawn
  <2>4. ASSUME NEW k \in Loops, loop'[k] = "closing" PROVE event'[hand'[k]].state = "end"
    <3>1. CASE k = l
      BY <1>1, <1>3, <1>4, <1>6, <2>4, <3>1, LoopsClose, LiveFacts
    <3>2. CASE k # l
      <4>1. hand[k] \in live /\ hand[k] # NoObject
        BY <1>6, <2>4, <3>2, LiveFacts DEF SystemInv, HandsInv
      <4>2. QED
        BY <1>4, <1>6, <2>1, <2>4, <3>2, <4>1 DEF HandsDrawn
    <3>3. QED
      BY <3>1, <3>2
  <2>5. QED
    BY <2>2, <2>3, <2>4 DEF HandsDrawn
<1>10. WorkInHand'
  BY <1>2, <1>4, <1>7, <1>8, LiveFacts DEF WorkInHand
<1>11. OpenInHand'
  BY <1>4, <1>7 DEF OpenInHand, spanVars, SystemInv, SpansInv, PlacesInv
<1>12. QED
  BY <1>9, <1>10, <1>11 DEF LoopsInv

LEMMA LoopsInvKept ==
    ASSUME SystemInv, EndedInv, LoopsInv, DrawnEnd, [Step]_systemVars
    PROVE  LoopsInv'
<1>1. CASE UNCHANGED systemVars
  BY <1>1 DEF systemVars, allVars, vars, deliveryVars, spanVars, generatorVars, LoopsInv, Generating,
              HandsDrawn, WorkInHand, OpenInHand, InHand
<1>2. CASE ~Generating /\ DeliveriesNext
  <2>1. live' = live
    BY <1>2 DEF DeliveriesNext, Regular, Lose, HoldBack, DeliverLate, DeliverAgain, Crash, Boot, vars
  <2>2. QED
    BY <1>2, <2>1 DEF LoopsInv, Generating
<1>3. CASE Generating /\ GeneratorNext
  <2> USE <1>3
  <2>1. HandsDrawn /\ WorkInHand /\ OpenInHand
    BY DEF LoopsInv
  <2>2. ASSUME NEW l \in Loops, Create(l) PROVE LoopsInv'
    <3>1. hand[l] = NoObject
      BY <2>1, <2>2 DEF Create, HandsDrawn
    <3>2. PICK o \in Draws(l) : Post(l, o, Opened(l), "creating")
      BY <2>2 DEF Create
    <3>3. o \in live /\ Kind[o] = l
      BY DEF Draws, Generating
    <3>4. QED
      BY <2>1, <3>1, <3>2, <3>3, PostKeepsLoops
  <2>3. ASSUME NEW l \in Loops, Close(l) PROVE LoopsInv'
    <3>1. hand[l] \in live /\ Kind[hand[l]] = l
      BY <2>1, <2>3, LiveFacts DEF Close, HandsDrawn, SystemInv, HandsInv
    <3>2. QED
      BY <2>1, <2>3, <3>1, PostKeepsLoops DEF Close
  <2>4. ASSUME NEW l \in Loops, Answered(l) PROVE LoopsInv'
    <3> DEFINE o == hand[l]
    <3>1. /\ loop[l] \in {"creating", "closing"} /\ o \in live /\ todo[o] = <<>>
          /\ UNCHANGED <<allVars, orphans>>
      BY <2>4 DEF Answered, SystemInv, HandsInv
    <3>2. UNCHANGED <<live, status, event, todo, tracked, about>>
      BY <3>1 DEF allVars, vars, deliveryVars, spanVars
    <3>3. CASE loop[l] = "creating" /\ loop' = [loop EXCEPT ![l] = "sleeping"] /\ UNCHANGED hand
      BY <2>1, <3>1, <3>2, <3>3
         DEF LoopsInv, HandsDrawn, WorkInHand, OpenInHand, InHand, SystemInv, HandsInv
    <3>4. CASE /\ loop[l] = "closing" /\ loop' = [loop EXCEPT ![l] = "tick"]
               /\ hand' = [hand EXCEPT ![l] = NoObject]
      <4>1. event[o].state = "end" /\ event[o].fault # "timings"
        BY <2>1, <3>1, <3>4, EventFaults, LiveFacts DEF HandsDrawn, DrawnEnd, Generating
      <4>2. NoneTracked(o)
        BY <3>1, <4>1 DEF EndedInv
      <4>3. /\ loop'[l] = "tick" /\ hand'[l] = NoObject
            /\ \A k \in Loops \ {l} : loop'[k] = loop[k] /\ hand'[k] = hand[k]
        BY <3>4 DEF SystemInv, HandsInv
      <4>4. ASSUME NEW q, q # o, q # NoObject, InHand(q) PROVE InHand(q)'
        BY <3>1, <4>3, <4>4 DEF InHand
      <4>5. HandsDrawn'
        BY <2>1, <3>2, <4>3 DEF HandsDrawn
      <4>6. WorkInHand'
        BY <2>1, <3>1, <3>2, <4>4, LiveFacts DEF WorkInHand
      <4>7. OpenInHand'
        BY <2>1, <3>2, <4>2, <4>4 DEF OpenInHand, NoneTracked, SystemInv, SpansInv, PlacesInv
      <4>8. QED
        BY <4>5, <4>6, <4>7 DEF LoopsInv
    <3>5. QED
      BY <2>4, <3>3, <3>4 DEF Answered
  <2>5. CASE Panic
    <3>1. /\ loop' = [l \in Loops |-> "dead"] /\ hand' = [l \in Loops |-> NoObject]
          /\ orphans' = orphans \cup ({hand[l] : l \in Loops} \ {NoObject})
      BY <2>5 DEF Panic
    <3>2. UNCHANGED <<live, todo, tracked, about>>
      BY <2>5 DEF Panic, allVars, vars, deliveryVars, spanVars
    <3>3. \A q : InHand(q) /\ q # NoObject => InHand(q)'
      BY <3>1 DEF InHand
    <3>4. HandsDrawn'
      BY <3>1 DEF HandsDrawn
    <3>5. WorkInHand' /\ OpenInHand'
      BY <2>1, <3>2, <3>3, LiveFacts DEF WorkInHand, OpenInHand, SystemInv, SpansInv, PlacesInv
    <3>6. QED
      BY <3>4, <3>5 DEF LoopsInv
  <2>6. CASE Rerun
    <3>1. UNCHANGED <<live, status, event, todo, tracked, about, hand, orphans>>
      BY <2>6 DEF Rerun, allVars, vars, deliveryVars, spanVars
    <3>2. \A l \in Loops : loop[l] = "dead" /\ loop'[l] = "tick"
      BY <2>6 DEF Rerun
    <3>3. QED
      BY <2>1, <3>1, <3>2 DEF LoopsInv, HandsDrawn, WorkInHand, OpenInHand, InHand
  <2>7. ASSUME NEW o \in live, Work(o) PROVE LoopsInv'
    <3>1. /\ UNCHANGED <<live, status, event, loop, hand, orphans>>
          /\ todo[o] # <<>> /\ \A q \in live \ {o} : todo'[q] = todo[q]
          /\ Start(o) \/ End(o)
      BY <2>7, PlanFacts DEF Work, Start, End, generatorVars
    <3>2. InHand(o) /\ \A q : InHand(q)' <=> InHand(q)
      BY <2>1, <3>1 DEF WorkInHand, InHand
    <3>3. HandsDrawn' /\ WorkInHand'
      BY <2>1, <3>1, <3>2 DEF HandsDrawn, WorkInHand
    <3>4. CASE UNCHANGED <<tracked, about>>
      BY <2>1, <3>2, <3>3, <3>4 DEF LoopsInv, OpenInHand
    <3>5. CASE NextSpan \in T!Fresh /\ Begins(o, NextSpan)
      <4> SUFFICES ASSUME NEW i \in DOMAIN tracked, tracked'[i] # NoSpan
                   PROVE  InHand(about'[tracked'[i]])
        BY <3>2, <3>3, <3>5, BeginFacts DEF LoopsInv, OpenInHand
      <4>1. tracked'[i] = tracked[i] \/ tracked'[i] = NextSpan
        BY <3>5, LiveFacts DEF Begins, Refuses, Stores
      <4>2. CASE tracked'[i] = NextSpan
        BY <3>2, <3>5, <4>2, BeginFacts
      <4>3. CASE tracked'[i] = tracked[i] /\ tracked[i] # NextSpan
        BY <2>1, <3>5, <4>3, BeginFacts DEF OpenInHand, SystemInv, SpansInv, SpansTyped
      <4>4. QED
        BY <4>1, <4>2, <4>3
    <3>6. CASE Finishes(o)
      BY <2>1, <3>2, <3>3, <3>6, FinishFacts DEF LoopsInv, OpenInHand
    <3>7. QED
      BY <3>1, <3>4, <3>5, <3>6, StartCases, EndCases DEF SystemInv, spanVars
  <2>8. CASE CutOff
    <3>1. /\ UNCHANGED <<live, status, event, hand, orphans>>
          /\ \A q \in live : todo'[q] = <<>>
          /\ \A i \in DOMAIN tracked' : tracked'[i] = NoSpan
          /\ \A l \in Loops : loop'[l] = loop[l] \/ loop'[l] = "cut"
      BY <2>8 DEF CutOff, Crash
    <3>2. QED
      BY <2>1, <3>1 DEF LoopsInv, HandsDrawn, WorkInHand, OpenInHand
  <2>9. CASE Boot /\ UNCHANGED generatorVars
    BY <2>1, <2>9 DEF Boot, vars, deliveryVars, spanVars, generatorVars, LoopsInv, HandsDrawn,
       WorkInHand, OpenInHand, InHand
  <2>10. QED
    BY <2>2, <2>3, <2>4, <2>5, <2>6, <2>7, <2>8, <2>9 DEF GeneratorNext
<1>4. QED
  BY <1>1, <1>2, <1>3 DEF Step

\* For any objects whose types do not change until their ends, and any draws that name
\* no end without a start: the generator leaves no open span behind that is not about
\* an object in hand.
THEOREM GeneratorLeavesNothingOpen ==
    ASSUME SameTypes, DrawnEnd
    PROVE  SystemSpec => []GeneratorClosesWhatItOpens
<1>1. GeneratorInit => ReadableInv /\ EndedInv /\ LoopsInv
  BY DEF GeneratorInit, DeliveriesInit, Init, ReadableInv, EndedInv, NoneTracked, LoopsInv, HandsDrawn,
         WorkInHand, OpenInHand
<1>2. /\ SystemInv /\ ReadableInv /\ EndedInv /\ LoopsInv /\ [Step]_systemVars
      => ReadableInv' /\ EndedInv' /\ LoopsInv'
  BY SameTypes, DrawnEnd, ReadableInvKept, EndedInvKept, LoopsInvKept
<1>3. SystemInv /\ LoopsInv => GeneratorClosesWhatItOpens
  BY DEF LoopsInv, OpenInHand, InHand, GeneratorClosesWhatItOpens, T!TrackedSpans
<1>4. QED
  BY <1>1, <1>2, <1>3, SystemInvHolds, PTL DEF SystemSpec

=============================================================================

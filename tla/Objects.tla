------------------------------ MODULE Objects ------------------------------
(***************************************************************************)
(* The issues, pull requests, builds, ... that the events are about: how   *)
(* they change in their own systems, and what the handler reads from the   *)
(* event of each change.                                                   *)
(***************************************************************************)
EXTENDS Payloads

CONSTANTS
    Scenarios,   \* sets of objects that live side by side: issues, builds, ...
    Of           \* the payload of each object, without its status

Objects == UNION Scenarios

Kind == [o \in Objects |-> Of[o].kind]

(***************************************************************************)
(* How the statuses of the objects follow each other in the systems that   *)
(* send the events.                                                        *)
(***************************************************************************)
Tracker == {<<"none", "opened">>, <<"opened", "labeled">>, <<"opened", "closed">>,
            <<"labeled", "closed">>, <<"closed", "reopened">>, <<"reopened", "closed">>}

Successors ==
    [github_issue |-> Tracker,
     github_pr    |-> Tracker,
     gitlab_issue |-> {<<"none", "opened">>, <<"opened", "opened">>, <<"opened", "closed">>,
                       <<"closed", "opened">>},
     gitlab_merge |-> {<<"none", "opened">>, <<"opened", "opened">>, <<"opened", "closed">>,
                       <<"closed", "opened">>, <<"opened", "merged">>},
     gitlab_pipeline |-> {<<"none", "pending">>, <<"pending", "running">>,
                          <<"pending", "canceled">>, <<"running", "success">>,
                          <<"running", "failed">>, <<"running", "canceled">>,
                          <<"failed", "running">>},
     gitlab_job   |-> {<<"none", "created">>, <<"created", "pending">>, <<"pending", "running">>,
                       <<"running", "success">>, <<"running", "failed">>,
                       <<"pending", "canceled">>},
     jenkins      |-> {<<"none", "INPROGRESS">>, <<"INPROGRESS", "SUCCESS">>,
                       <<"INPROGRESS", "FAILURE">>},
     jira_issue   |-> {<<"none", "Backlog">>, <<"Backlog", "Selected for Development">>,
                       <<"Selected for Development", "In Progress">>,
                       <<"Selected for Development", "Backlog">>,
                       <<"In Progress", "In Progress">>, <<"In Progress", "Code Review">>,
                       <<"In Progress", "Done">>, <<"Code Review", "Done">>,
                       <<"Done", "In Progress">>},
     jira_sprint  |-> {<<"none", "future">>, <<"future", "active">>, <<"active", "closed">>},
     customhttp   |-> {<<"none", "start">>, <<"start", "end">>}]

\* The statuses in which the work on an object is over.
Over == {"closed", "merged", "success", "failed", "canceled", "SUCCESS", "FAILURE", "Done", "end"}

\* The parameters of a Jenkins build need not be the same at its end.
Payload(o, st) ==
    [kind |-> Kind[o], scope |-> Of[o].scope, number |-> Of[o].number, status |-> st,
     param |-> Of[o].param, text |-> Of[o].text, error |-> Of[o].error, lacks |-> Of[o].lacks,
     type |-> IF st \in Over THEN Of[o].endType ELSE Of[o].type]

\* The number in the system of the object is one; a custom event's is whatever its
\* sender likes.  A sprint's id names no project.  A job names its project with the
\* group (the test data has "Daniel Mican / test-project"), a pipeline without; if
\* they could be equal, a job and a pipeline of one number would be one to
\* ValueStream.  A payload names a parent only where its source looks for one.
ASSUME ObjectsAssumption ==
    /\ \A o \in Objects :
         /\ Kind[o] \in DOMAIN Successors
         /\ {Of[o].scope, Of[o].number, Of[o].type, Of[o].endType, Of[o].text} \subseteq Seq(Tokens)
         /\ Kind[o] # "customhttp" => \E w \in Words : Of[o].number = <<w>>
         /\ Of[o].param \in Seq(Tokens) \cup {NoRef}
         /\ Kind[o] \notin {"gitlab_job", "jenkins", "customhttp"} => Of[o].param = NoRef
         /\ Kind[o] \notin {"github_pr", "gitlab_merge", "jenkins"} => Of[o].text = <<>>
    /\ \A o, q \in Objects :
         /\ Kind[o] = "jira_sprint" /\ Kind[q] = "jira_sprint" => Of[o].scope = Of[q].scope
         /\ Kind[o] = "gitlab_pipeline" /\ Kind[q] = "gitlab_job" => Of[o].scope # Of[q].scope

Statuses(o) == {"none"} \cup {step[2] : step \in Successors[Kind[o]]}

AllStatuses == UNION {Statuses(o) : o \in Objects}

\* What the handler asks the event of o with status st for.
Event(o, st) ==
    LET p == Payload(o, st)
    IN  [object |-> o, status |-> st, id |-> SpanID(p), state |-> State(p),
         parent |-> ParentSpanID(p), error |-> IsError(p), fault |-> Fault(p)]

EventOf == [o \in Objects |-> [st \in Statuses(o) |-> Event(o, st)]]

Events == UNION {{EventOf[o][st] : st \in Statuses(o)} : o \in Objects}

Ids == {e.id : e \in Events}

\* The id under which a span of o starts.
StartId == [o \in Objects |-> EventOf[o]["none"].id]

=============================================================================

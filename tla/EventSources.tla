---------------------------- MODULE EventSources ----------------------------
(***************************************************************************)
(* The event sources (eventsources/github, gitlab, jenkins, jiracloud and  *)
(* http): how the payload of a webhook becomes the SpanID, State,          *)
(* ParentSpanID and IsError that webhooks.Webhook works with.              *)
(*                                                                         *)
(* A payload is a record of the fields that these methods read:            *)
(*   kind    the Go type of the event                                      *)
(*   scope   the repository, project or namespace, the Jenkins job, or     *)
(*           what stands before the number in the key of a Jira issue      *)
(*   number  the issue, build, ... number or identifier                    *)
(*   status  the action, state or result                                   *)
(*   type    the "type" build parameter, the Type of a custom event        *)
(*   error   the Error of a custom event                                   *)
(*   param   an explicit parent: vstrace-trace-id, ParentID, or the name   *)
(*           of the repository with Commit.ID; NoRef if there is none      *)
(*   text    the branch or the description that may name another span      *)
(*                                                                         *)
(* The strings (scope, number, type, param, text and the span ids) are     *)
(* sequences of tokens: a word is a run of ASCII letters and digits, a     *)
(* mark any other character.  The letters vstrace are a token of their own *)
(* wherever they stand, so that two strings are the same exactly if their  *)
(* tokens are.  Statuses are only compared, and are strings of TLA+.       *)
(***************************************************************************)
EXTENDS Sequences, Integers

CONSTANTS
    Words,   \* the runs of ASCII letters and digits
    Marks    \* the other characters

Tokens == Words \cup Marks

ASSUME TokensAssumption ==
    /\ {"vstrace", "github", "gitlab", "jenkins", "jiracloud", "customhttp", "issue", "pull",
        "request", "build", "deploy", "sprint", "origin"} \subseteq Words
    /\ {"-", "_", ":", "/"} \subseteq Marks
    /\ Words \cap Marks = {}
    /\ "" \notin Tokens

Dash == <<"-">>

\* A pointer to no string; <<>> is the empty string.
NoRef == <<"">>

StartsWith(s, prefix) ==
    Len(prefix) <= Len(s) /\ SubSeq(s, 1, Len(prefix)) = prefix

-----------------------------------------------------------------------------
\* IssuesEvent.State and PREvent.State of GitHub.
GitHubState(action) ==
    CASE action \in {"opened", "reopened"} -> "start"
      [] action = "closed"                 -> "end"
      [] OTHER                             -> "ignored"

\* IssueEvent.State and MergeEvent.State of GitLab, which look at the state
\* of the object and not at the action: every update of an open one starts.
GitLabState(state) ==
    CASE state \in {"opened", "reopened"} -> "start"
      [] state = "closed"                 -> "end"
      [] OTHER                            -> "ignored"

\* Bug: a cancelled pipeline is forgotten.
PipelineState_NoCancel(st) ==
    CASE st = "pending" -> "start"
      [] st = "running" -> "transition"
      [] st = "success" -> "end"
      [] OTHER          -> "ignored"

PipelineState(st) ==
    CASE st = "pending"                 -> "start"
      [] st = "running"                 -> "transition"
      [] st \in {"canceled", "success"} -> "end"
      [] OTHER                          -> "ignored"

JobState(st) ==
    CASE st \in {"pending", "created"}  -> "start"
      [] st = "running"                 -> "transition"
      [] st \in {"canceled", "success"} -> "end"
      [] OTHER                          -> "ignored"

JenkinsState(result) == IF result = "INPROGRESS" THEN "start" ELSE "end"

SprintState(state) ==
    CASE state = "active" -> "start"
      [] state = "closed" -> "end"
      [] OTHER            -> "ignored"

\* Bug: work that starts is a start, whatever stage the issue was in before.
JiraIssueState_StartsAgain(name) ==
    CASE name \in {"Selected for Development", "In Progress"} -> "start"
      [] name \in {"Done", "Backlog"}                         -> "end"
      [] OTHER                                                -> "ignored"

JiraIssueState(name) ==
    CASE name \in {"Selected for Development", "In Progress"} -> "transition"
      [] name \in {"Done", "Backlog"}                         -> "end"
      [] OTHER                                                -> "ignored"

CustomState(action) == IF action \in {"start", "end"} THEN action ELSE "ignored"

State(p) ==
    CASE p.kind \in {"github_issue", "github_pr"}    -> GitHubState(p.status)
      [] p.kind \in {"gitlab_issue", "gitlab_merge"} -> GitLabState(p.status)
      [] p.kind = "gitlab_pipeline"                  -> PipelineState(p.status)
      [] p.kind = "gitlab_job"                       -> JobState(p.status)
      [] p.kind = "jenkins"                          -> JenkinsState(p.status)
      [] p.kind = "jira_sprint"                      -> SprintState(p.status)
      [] p.kind = "jira_issue"                       -> JiraIssueState(p.status)
      [] p.kind = "customhttp"                       -> CustomState(p.status)

-----------------------------------------------------------------------------
\* A Jenkins job is a deploy when its name or its parameters say so.
OperationName(p) ==
    IF StartsWith(p.scope, <<"deploy", ":">>) \/ p.type = <<"deploy">>
    THEN <<"deploy">> ELSE <<"build">>

\* strings.Join of the prefix, the source and the parts of an id.
JoinedId(source, type, rest) == <<"vstrace", "-", source, "-">> \o type \o Dash \o rest

PullRequest == <<"pull", "_", "request">>
Numbered(p) == p.scope \o Dash \o p.number

\* The span ids of GitHub, GitLab and Jira name the repository or the project
\* without its owner.
GitHubIssueSpanID(p) == JoinedId("github", <<"issue">>, Numbered(p))
GitHubPullRequestSpanID(p) == JoinedId("github", PullRequest, Numbered(p))
GitLabIssueSpanID(p) == JoinedId("gitlab", <<"issue">>, Numbered(p))
MergeSpanID(p) == JoinedId("gitlab", PullRequest, Numbered(p))
PipelineSpanID(p) == JoinedId("gitlab", <<"build">>, Numbered(p))
JobSpanID(p) == JoinedId("gitlab", <<"build">>, Numbered(p))
SprintSpanID(p) == JoinedId("jiracloud", <<"sprint">>, p.number)
JiraIssueSpanID(p) == JoinedId("jiracloud", <<"issue">>, Numbered(p))

\* Bug: the result of the build is a part of its id.
JenkinsSpanID_WithResult(p) == JoinedId("jenkins", OperationName(p), Numbered(p) \o <<p.status>>)

JenkinsSpanID(p) == JoinedId("jenkins", OperationName(p), Numbered(p))
CustomSpanID(p) == JoinedId("customhttp", p.type, Numbered(p))

\* Bug: the number of the object is left out.
SpanID_OfProject(p) == JoinedId(p.kind, p.type, p.scope)

SpanID(p) ==
    CASE p.kind = "github_issue"    -> GitHubIssueSpanID(p)
      [] p.kind = "github_pr"       -> GitHubPullRequestSpanID(p)
      [] p.kind = "gitlab_issue"    -> GitLabIssueSpanID(p)
      [] p.kind = "gitlab_merge"    -> MergeSpanID(p)
      [] p.kind = "gitlab_pipeline" -> PipelineSpanID(p)
      [] p.kind = "gitlab_job"      -> JobSpanID(p)
      [] p.kind = "jenkins"         -> JenkinsSpanID(p)
      [] p.kind = "jira_sprint"     -> SprintSpanID(p)
      [] p.kind = "jira_issue"      -> JiraIssueSpanID(p)
      [] p.kind = "customhttp"      -> CustomSpanID(p)

\* Bug: whatever is not a success is an error.
BuildIsError_Running(st) == st # "success"

\* PipelineEvent.IsError and JobEvent.IsError.
BuildIsError(st) == st \notin {"success", "running"}

IsError(p) ==
    CASE p.kind \in {"gitlab_pipeline", "gitlab_job"} -> BuildIsError(p.status)
      [] p.kind = "jenkins"                           -> p.status # "SUCCESS"
      [] p.kind = "customhttp"                        -> p.error
      [] OTHER                                        -> FALSE

-----------------------------------------------------------------------------
\* The tokens m to n of t, at least one, are all of C.
Segment(t, m, n, C) == m <= n /\ \A k \in m .. n : t[k] \in C

\* The regular expression of traces.Matches, which has four parts after vstrace,
\* matches the tokens i to j of t.
Pattern(t, i, j) ==
    /\ i + 2 <= j /\ t[i] = "vstrace" /\ t[i + 1] = "-"
    /\ \E a, b, c \in i + 3 .. j - 1 :
         /\ t[a] = "-" /\ t[b] = "-" /\ t[c] = "-"
         /\ Segment(t, i + 2, a - 1, Words)
         /\ Segment(t, a + 1, b - 1, Words \cup {"_"})
         /\ Segment(t, b + 1, c - 1, Words \cup {"-"})
         /\ Segment(t, c + 1, j, Words \cup {"-"})

\* Bug: the pattern must match from the start of the text.
Matches_Anchored(t) ==
    LET found == {j \in 1 .. Len(t) : Pattern(t, 1, j)}
    IN  IF found = {} THEN NoRef
        ELSE SubSeq(t, 1, CHOOSE j \in found : \A k \in found : k <= j)

\* traces.Matches: the leftmost match, and there the longest, as + is greedy
\* and the last two parts may hold dashes.
Matches(t) ==
    LET found == {m \in (1 .. Len(t)) \X (1 .. Len(t)) : Pattern(t, m[1], m[2])}
        first == CHOOSE m \in found :
                     \A n \in found : m[1] < n[1] \/ (m[1] = n[1] /\ m[2] >= n[2])
    IN  IF found = {} THEN NoRef ELSE SubSeq(t, first[1], first[2])

Origin == <<"origin", "/">>

\* branchID of Jenkins: the whole branch without origin/.
BranchID(t) ==
    IF StartsWith(t, Origin) THEN SubSeq(t, Len(Origin) + 1, Len(t)) ELSE t

\* Bug: every event names its own span as parent.
ParentSpanID_Self(p) == SpanID(p)

PullRequestParent(p) == Matches(p.text)
JobParent(p) == JoinedId("gitlab", <<"build">>, p.param)
JenkinsParent(p) == IF p.param # NoRef THEN p.param ELSE BranchID(p.text)

ParentSpanID(p) ==
    CASE p.kind \in {"github_pr", "gitlab_merge"} -> PullRequestParent(p)
      [] p.kind = "gitlab_job"                    -> JobParent(p)
      [] p.kind = "jenkins"                       -> JenkinsParent(p)
      [] p.kind = "customhttp"                    -> p.param
      [] OTHER                                    -> NoRef

=============================================================================

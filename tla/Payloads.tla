------------------------------ MODULE Payloads ------------------------------
(***************************************************************************)
(* What can be wrong with a payload, and where the handler notices it: the *)
(* ValidatePayload and Event of each source, and the errors and nil        *)
(* dereferences of its events' methods, in the order in which              *)
(* webhooks.Webhook calls them.  No source has a secret key, so every      *)
(* payload passes ValidatePayload.                                         *)
(*                                                                         *)
(* The field lacks of a payload is the set of what is absent (or empty)    *)
(* in it; "json" says that it does not parse.                              *)
(***************************************************************************)
EXTENDS EventSources

CONSTANT NotTagValues   \* the strings that OpenCensus refuses as a tag value

\* Source.Event of each source: other kinds of its webhooks are errors.
GitHubEvents == {"github_issue", "github_pr"}
GitLabEvents == {"gitlab_issue", "gitlab_merge", "gitlab_pipeline", "gitlab_job"}
JiraEvents == {"jira_sprint", "jira_issue"}

\* A Jenkins or a custom event may be any JSON object.
JenkinsEvents == {"jenkins"}
CustomEvents == {"customhttp"}

Parsed(p) ==
    /\ "json" \notin p.lacks
    /\ p.kind \in GitHubEvents \cup GitLabEvents \cup JiraEvents \cup JenkinsEvents \cup CustomEvents

\* What SpanID and State report as missing.
GitHubIssueNeeds == {"issue", "number", "repo", "name", "action"}
GitHubPullRequestNeeds == {"pull_request", "number", "action"}
GitLabIssueNeeds == {"number", "status"}

Needs(p) ==
    CASE p.kind = "github_issue" -> GitHubIssueNeeds
      [] p.kind = "github_pr"    -> GitHubPullRequestNeeds
      [] p.kind = "gitlab_issue" -> GitLabIssueNeeds
      [] p.kind \in {"gitlab_merge", "gitlab_pipeline", "gitlab_job", "jira_issue"} -> {"status"}
      [] OTHER                   -> {}

\* IssueEvent.State of Jira takes the fields of the issue for granted, ...
StateOfNothing(p) == p.kind = "jira_issue" /\ "fields" \in p.lacks

\* ... its Tags also a priority, which not every project has; ...
TagsOfNothing(p) == p.kind = "jira_issue" /\ "priority" \in p.lacks

\* ... JobEvent.ParentSpanID a repository.
ParentOfNothing(p) == p.kind = "gitlab_job" /\ "repository" \in p.lacks

\* OpenCensus takes printable ASCII of at most 255 bytes as a tag value; only
\* a custom event's operation name, its type, is not a constant.
NoTagValue(p) == p.kind = "customhttp" /\ p.type \in NotTagValues

\* Timings: only GitHub's closed issues and pull requests have a duration.
EventTimings(p) ==
    [err      |-> FALSE,
     duration |-> p.kind \in GitHubEvents /\ p.status = "closed" /\ "created_at" \notin p.lacks]

\* IssuesEvent.Timings and PREvent.Timings subtract from a nil ClosedAt.
NilClosedAt(p) == EventTimings(p).duration /\ "closed_at" \in p.lacks

(***************************************************************************)
(* The first thing that goes wrong with a payload, as Webhook names it.    *)
(***************************************************************************)
Fault(p) ==
    IF ~Parsed(p) THEN "malformed"
    ELSE IF StateOfNothing(p) THEN "panic"
    ELSE IF Needs(p) \cap p.lacks # {} THEN "malformed"
    ELSE IF NoTagValue(p) THEN "tag"
    ELSE IF ParentOfNothing(p) THEN "parentPanic"
    ELSE IF TagsOfNothing(p) THEN "tagsPanic"
    ELSE IF NilClosedAt(p) THEN "timings"
    ELSE "none"

=============================================================================

---------------------------- MODULE MCLifecycles ----------------------------
EXTENDS Generator

CONSTANT Case

Obj(kind, scope, number, type, endType, param, text) ==
    [kind |-> kind, scope |-> scope, number |-> number, type |-> type, endType |-> endType,
     param |-> param, text |-> text, error |-> FALSE, lacks |-> {}]

Plain(kind, scope, number) == Obj(kind, scope, number, <<>>, <<>>, NoRef, <<>>)

Without(object, field) == [object EXCEPT !.lacks = {field}]

\* A branch or a description.
Text(kind, number, text) == Obj(kind, <<"app">>, number, <<>>, <<>>, NoRef, text)

\* What vscli start and vscli end send.
VscliEvent(xid, type, parentEventId) ==
    Obj("customhttp", <<"default">>, xid, type, type, parentEventId, <<>>)

\* A custom event of another sender.
Custom(type, namespace) == Obj("customhttp", namespace, <<"x5">>, type, type, NoRef, <<>>)

\* What buildPullRequestEvent and buildIssuesEvent build: there are no times.
Generated(kind, repo, number) ==
    [Plain(kind, repo, number) EXCEPT !.lacks = {"created_at", "closed_at"}]

Deploy == <<"deploy">>

\* What buildJenkinsEvent builds.
GeneratedBuild(number) == Obj("jenkins", <<"deploy", ":", "app">>, number, Deploy, Deploy, NoRef, <<>>)

MCDrawn == {"drawnPR", "nextPR", "againPR", "drawnIssue", "drawnBuild"}

MCNotTagValues == {<<"deploy", "\n">>}

App == <<"app">>
MyRepo == <<"my", "_", "repo">>
TestRepo(n) == <<"test", "_", n>>
Grouped == <<"me", " ", "/", " ", "app">>

IssueId == <<"vstrace", "-", "github", "-", "issue", "-", "app", "-", "1">>
OddId == <<"vstrace", "-", "github", "-", "issue", "-", "my", "_", "repo", "-", "4">>
JiraId == <<"vstrace", "-", "jiracloud", "-", "issue", "-", "APP", "-", "1">>
SprintId == <<"vstrace", "-", "jiracloud", "-", "sprint", "-", "2">>
MergeId == <<"vstrace", "-", "gitlab", "-", "pull", "_", "request", "-", "app", "-", "6">>

MCWords == {"vstrace", "github", "gitlab", "jenkins", "jiracloud", "customhttp", "issue", "pull",
            "request", "build", "deploy", "sprint", "origin", "feature", "hi", "more", "app", "APP",
            "me", "my", "repo", "test", "solo", "team", "a", "default", "x1", "x2", "x3", "x4", "x5",
            "0", "1", "2", "3", "4", "5", "6", "7", "8", "9", "10", "17", "42", "43"}

MCMarks == {"-", "_", ":", "/", " ", "\n"}

MCOf ==
    [issue       |-> Plain("github_issue", App, <<"1">>),
     pull        |-> Text("github_pr", <<"9">>, <<"feature", "/">> \o IssueId \o <<"/", "hi">>),
     pipeline    |-> Plain("gitlab_pipeline", App, <<"7">>),
     job         |-> Obj("gitlab_job", Grouped, <<"7">>, <<>>, <<>>, <<"app", "-", "7">>, <<>>),
     selfJob     |-> Obj("gitlab_job", <<"solo">>, <<"8">>, <<>>, <<>>, <<"solo", "-", "8">>, <<>>),
     twin        |-> Plain("github_issue", App, <<"1">>),
     otherIssue  |-> Plain("github_issue", App, <<"2">>),
     oddIssue    |-> Plain("github_issue", MyRepo, <<"4">>),
     oddPull     |-> Text("github_pr", <<"5">>, OddId),
     merge       |-> Text("gitlab_merge", <<"3">>, IssueId \o <<"-", "more">>),
     selfMerge   |-> Text("gitlab_merge", <<"6">>, <<"more", " ">> \o MergeId),
     gitlabIssue |-> Plain("gitlab_issue", App, <<"3">>),
     build       |-> Text("jenkins", <<"5">>, Origin \o IssueId),
     deploy      |-> Obj("jenkins", App, <<"6">>, Deploy, Deploy, IssueId, <<>>),
     bareDeploy  |-> Obj("jenkins", App, <<"6">>, Deploy, <<>>, NoRef, <<>>),
     deployJob   |-> Plain("jenkins", <<"deploy", ":", "app">>, <<"5">>),
     jiraIssue   |-> Plain("jira_issue", <<"APP">>, <<"1">>),
     jiraPull    |-> Text("github_pr", <<"10">>, JiraId),
     sprint      |-> Plain("jira_sprint", <<>>, <<"2">>),
     sprintMerge |-> Text("gitlab_merge", <<"4">>, SprintId),
     noPriority  |-> Without(Plain("jira_issue", <<"APP">>, <<"2">>), "priority"),
     noClosedAt  |-> Without(Plain("github_pr", App, <<"8">>), "closed_at"),
     noNumber    |-> Without(Plain("gitlab_issue", App, <<"0">>), "number"),
     noRepo      |-> Without(Plain("gitlab_job", Grouped, <<"9">>), "repository"),
     badType     |-> VscliEvent(<<"x3">>, <<"deploy", "\n">>, NoRef),
     drawnPR     |-> Generated("github_pr", TestRepo("1"), <<"42">>),
     drawnIssue  |-> Generated("github_issue", TestRepo("1"), <<"17">>),
     drawnBuild  |-> GeneratedBuild(<<"3">>),
     nextPR      |-> Generated("github_pr", TestRepo("2"), <<"43">>),
     againPR     |-> Generated("github_pr", TestRepo("1"), <<"42">>),
     brokenTask  |-> [VscliEvent(<<"x4">>, Deploy, NoRef) EXCEPT !.error = TRUE],
     teamDeploy  |-> Custom(Deploy, <<"team", "-", "a">>),
     deployTeam  |-> Custom(<<"deploy", "-", "team">>, <<"a">>),
     x1          |-> VscliEvent(<<"x1">>, Deploy, NoRef),
     x2          |-> VscliEvent(<<"x2">>, <<"build">>, <<"x1">>)]

MCScenarios ==
    CASE Case = "all" -> {{"issue", "pull"}, {"issue", "build"}, {"build", "deploy"},
                          {"pipeline", "job"}, {"issue", "twin"}, {"issue", "otherIssue"},
                          {"issue", "merge"}, {"oddIssue", "oddPull"}, {"gitlabIssue", "brokenTask"},
                          {"jiraIssue", "jiraPull"}, {"sprint", "sprintMerge"},
                          {"deployJob", "noPriority"}, {"noClosedAt", "badType"},
                          {"noNumber", "noRepo"}, {"selfMerge", "selfJob"},
                          {"teamDeploy", "deployTeam"}, MCDrawn}
      [] Case = "deploy" -> {{"bareDeploy"}}
      [] Case = "vscli" -> {{"x1", "x2"}}

=============================================================================

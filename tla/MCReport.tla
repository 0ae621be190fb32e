------------------------------ MODULE MCReport ------------------------------
EXTENDS Report

CONSTANT Limits   \* the values of max-prs

PullRequest(repo, created, ended, merged, lines, comments) ==
    [repo |-> repo, created |-> created, ended |-> ended, merged |-> merged,
     lines |-> lines, comments |-> comments]

MCOwned == <<"a", "b", "c">>

\* One is closed without a merge, one is open; two change no line, one of them
\* merged when it was created.
MCPR == <<PullRequest("a", 1, 3, TRUE, 2, 0), PullRequest("b", 2, 2, TRUE, 0, 1),
          PullRequest("a", 2, 4, FALSE, 0, 0), PullRequest("a", 5, 6, TRUE, 1, 1),
          PullRequest("b", 3, StillOpen, FALSE, 1, 2)>>

\* Only a command for all repositories pages through them.
MCConfs ==
    [repo : {All}, reposPerPage : {1, 2}, maxRepos : {2, 3}, prsPerPage : {1, 2}, maxPRs : Limits]
        \cup [repo : {<<>>, <<"a">>, <<"b", "a">>}, reposPerPage : {1}, maxRepos : {2},
              prsPerPage : {1, 2}, maxPRs : Limits]

=============================================================================

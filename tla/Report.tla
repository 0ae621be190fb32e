------------------------------- MODULE Report -------------------------------
(***************************************************************************)
(* vsperformancereport: `github pull-requests' pages through the           *)
(* repositories of an organization and through their pull requests, and    *)
(* writes what it collected; `agg' aggregates what was written.            *)
(***************************************************************************)
EXTENDS PullRequestMetrics, SequencesExt

CONSTANTS
    Owned,       \* the organization's repositories, as GitHub lists them
    PR,          \* its pull requests: number |-> their repository, creation, ...
    Confs,       \* the command lines
    Sinces,      \* the values of agg's calc-percentiles-gte-unix
    MaxUpdates   \* bound: pull requests updated while the command runs

VARIABLES
    conf,       \* the command line
    updated,    \* GitHub: when each pull request was last updated
    updates,    \* the pull requests updated since the command began, in order
    pc,
    repos,      \* the repositories to visit
    at,         \* the one being visited
    page,
    cursor,     \* the end of the last page of pull requests
    collected,  \* the numbers of the pull requests fetched so far
    tick,       \* is a tick waiting in the Limiter's channel, which holds one?
    asked,      \* the queries made since the Limiter last ticked
    signal,     \* is an interrupt waiting in SignalChan?
    result,     \* how the command ended: "ok", "error" or "killed"
    out         \* the rows of the output file

vars == <<conf, updated, updates, pc, repos, at, page, cursor, collected, tick, asked, signal,
          result, out>>

Number == DOMAIN PR
NoCursor == 0

All == <<"*">>

\* GitHub lists no repository twice, and pull requests are numbered from 1. A
\* command line names `*' or repositories of the organization, and GitHub takes
\* no page size that is not positive; a limit may be any number.
ASSUME ReportAssumption ==
    /\ Cardinality(Number) \in Nat /\ Number = 1 .. Cardinality(Number)
    /\ MaxUpdates \in Nat
    /\ Owned \in Seq(ToSet(Owned))
    /\ \A i, j \in DOMAIN Owned : Owned[i] = Owned[j] => i = j
    /\ \A c \in Confs : /\ c.repo = All \/ c.repo \in Seq(ToSet(Owned))
                        /\ c.reposPerPage \in Nat \ {0} /\ c.prsPerPage \in Nat \ {0}
                        /\ c.maxRepos \in Int /\ c.maxPRs \in Int

\* Times are unsigned, and counts of lines and comments are.
ASSUME RowsAssumption ==
    /\ \A n \in Number : PR[n].created \in Nat /\ PR[n].lines \in Nat /\ PR[n].comments \in Nat
    /\ Sinces \subseteq Int

TypeOK ==
    /\ conf \in Confs
    /\ updated \in [Number -> 1 .. Cardinality(Number) + MaxUpdates]
    /\ ToSet(updates) \subseteq Number /\ Len(updates) <= MaxUpdates
    /\ pc \in {"repos", "reposWait", "prs", "pageWait", "repoWait", "write", "done"}
    /\ ToSet(repos) \subseteq ToSet(Owned)
    /\ at \in 1 .. Len(repos) + 1
    /\ pc \in {"prs", "pageWait", "repoWait"} => at \in DOMAIN repos
    /\ page \in Nat \ {0}
    /\ cursor \in {NoCursor} \cup 1 .. Cardinality(Number) + MaxUpdates
    /\ ToSet(collected) \subseteq Number /\ ToSet(out) \subseteq Number
    /\ tick \in BOOLEAN /\ asked \in Nat /\ signal \in BOOLEAN
    /\ result \in {"none", "ok", "error", "killed"}

world == <<conf, updated, updates>>
limiter == <<tick, asked>>

\* Bug: the first repository is visited without asking whether there is one.
Begin_AtFirst(visited) == "prs"

\* The range over the repositories.
Begin(visited) == IF visited = <<>> THEN "write" ELSE "prs"

Init ==
    /\ conf \in Confs
    /\ updated = [n \in Number |-> n]
    /\ updates = <<>>
    /\ repos = IF conf.repo = All THEN <<>> ELSE conf.repo
    /\ pc = IF conf.repo = All THEN "repos" ELSE Begin(conf.repo)
    /\ at = 1 /\ page = 1 /\ cursor = NoCursor
    /\ collected = <<>>
    /\ tick = FALSE /\ asked = 0
    /\ signal = FALSE
    /\ result = "none"
    /\ out = <<>>

-----------------------------------------------------------------------------
(***************************************************************************)
(* GitHub: pull requests are listed the last updated first; a cursor is a  *)
(* position in that order, not a number of pull requests.                  *)
(***************************************************************************)
Remaining(repo) ==
    {n \in Number : PR[n].repo = repo /\ (cursor # NoCursor => updated[n] < cursor)}

\* The lists of up to size of S that a page may have: before each of them come
\* the later updated, and they only. There is one, since no two are updated at
\* the same time.
FirstOf(S, size) ==
    {nodes \in [1 .. Min({size, Cardinality(S)}) -> S] :
        \A i \in DOMAIN nodes : \A n \in S :
            updated[n] > updated[nodes[i]] <=> \E j \in 1 .. i - 1 : nodes[j] = n}

\* PageInfo.HasNextPage of a page of pull requests.
HasNextPage(rest, size) == size < Cardinality(rest)

\* The next page of ReposQueryV4.
ReposPage(size) == SubSeq(Owned, Len(repos) + 1, Min({Len(repos) + size, Len(Owned)}))

Update(n) ==
    /\ pc # "done" /\ Len(updates) < MaxUpdates
    /\ updates' = Append(updates, n)
    /\ updated' = [updated EXCEPT ![n] = Cardinality(Number) + Len(updates')]
    /\ UNCHANGED <<conf, pc, repos, at, page, cursor, collected, limiter, signal, result, out>>

Interrupt ==
    /\ pc # "done" /\ ~signal
    /\ signal' = TRUE
    /\ UNCHANGED <<world, pc, repos, at, page, cursor, collected, limiter, result, out>>

-----------------------------------------------------------------------------
(***************************************************************************)
(* The Limiter ticks every wait-between-requests; a tick is dropped while  *)
(* the one before it waits.                                                *)
(***************************************************************************)
Tick ==
    /\ pc # "done" /\ ~(tick /\ asked = 0)
    /\ tick' = TRUE /\ asked' = 0
    /\ UNCHANGED <<world, pc, repos, at, page, cursor, collected, signal, result, out>>

Ask == asked' = asked + 1 /\ UNCHANGED tick

\* A select that was woken by the Limiter.
Wait == tick /\ tick' = FALSE /\ UNCHANGED asked

-----------------------------------------------------------------------------
Exit(how) ==
    /\ pc' = "done"
    /\ result' = how
    /\ UNCHANGED <<world, repos, at, page, cursor, collected, signal>>

QueryFails == pc \in {"repos", "prs"} /\ Exit("error") /\ Ask /\ UNCHANGED out

\* One of the selects: both of its channels may be ready.
Killed ==
    pc \in {"reposWait", "pageWait", "repoWait"} /\ signal /\ Exit("killed") /\ UNCHANGED <<limiter, out>>

\* Bug: the limit is looked at one page late.
Enough_Late(size, limit) == (page - 1) * size = limit

\* Have as many pages been read as the limit has?
Enough(size, limit) == page * size = limit

QueryRepos ==
    LET size == conf.reposPerPage
    IN  /\ pc = "repos" /\ Ask
        /\ repos' = repos \o ReposPage(size)
        /\ IF Enough(size, conf.maxRepos) \/ Len(repos') = Len(Owned)
             THEN pc' = Begin(repos') /\ page' = 1
             ELSE pc' = "reposWait" /\ page' = page + 1
        /\ UNCHANGED <<world, at, cursor, collected, signal, result, out>>

WaitRepos ==
    /\ pc = "reposWait" /\ Wait
    /\ pc' = "repos"
    /\ UNCHANGED <<world, repos, at, page, cursor, collected, signal, result, out>>

\* Bug: the cursor stays where it was.
QueryPullRequests_SamePage ==
    LET rest == Remaining(repos[at])
    IN  /\ pc = "prs" /\ Ask
        /\ \E nodes \in FirstOf(rest, conf.prsPerPage) : collected' = collected \o nodes
        /\ pc' = IF ~HasNextPage(rest, conf.prsPerPage) \/ Enough(conf.prsPerPage, conf.maxPRs)
                   THEN "repoWait" ELSE "pageWait"
        /\ UNCHANGED <<world, repos, at, page, cursor, signal, result, out>>

QueryPullRequests ==
    LET rest == Remaining(repos[at])
    IN  /\ pc = "prs" /\ Ask
        /\ \E nodes \in FirstOf(rest, conf.prsPerPage) :
             /\ collected' = collected \o nodes
             /\ cursor' = IF nodes = <<>> THEN cursor ELSE updated[Last(nodes)]
        /\ pc' = IF ~HasNextPage(rest, conf.prsPerPage) \/ Enough(conf.prsPerPage, conf.maxPRs)
                   THEN "repoWait" ELSE "pageWait"
        /\ UNCHANGED <<world, repos, at, page, signal, result, out>>

WaitPage ==
    /\ pc = "pageWait" /\ Wait
    /\ pc' = "prs"
    /\ page' = page + 1
    /\ UNCHANGED <<world, repos, at, cursor, collected, signal, result, out>>

\* Bug: the next repository is read at once.
WaitRepo_AtOnce ==
    /\ pc = "repoWait"
    /\ at' = at + 1
    /\ page' = 1 /\ cursor' = NoCursor
    /\ pc' = IF at = Len(repos) THEN "write" ELSE "prs"
    /\ UNCHANGED <<world, repos, collected, limiter, signal, result, out>>

\* Bug: the next repository is read from where the last one ended.
WaitRepo_KeepsCursor ==
    /\ pc = "repoWait" /\ Wait
    /\ at' = at + 1
    /\ page' = 1
    /\ pc' = IF at = Len(repos) THEN "write" ELSE "prs"
    /\ UNCHANGED <<world, repos, cursor, collected, signal, result, out>>

WaitRepo ==
    /\ pc = "repoWait" /\ Wait
    /\ at' = at + 1
    /\ page' = 1 /\ cursor' = NoCursor
    /\ pc' = IF at = Len(repos) THEN "write" ELSE "prs"
    /\ UNCHANGED <<world, repos, collected, signal, result, out>>

\* The marshalling may fail half way.
Write ==
    /\ pc = "write" /\ UNCHANGED limiter
    /\ \/ out' = collected /\ Exit("ok")
       \/ \E rows \in 0 .. Len(collected) : out' = SubSeq(collected, 1, rows) /\ Exit("error")

Next ==
    \/ \E n \in Number : Update(n)
    \/ Interrupt \/ Tick
    \/ QueryFails \/ Killed
    \/ QueryRepos \/ WaitRepos
    \/ QueryPullRequests \/ WaitPage \/ WaitRepo
    \/ Write

Spec == Init /\ [][Next]_vars

-----------------------------------------------------------------------------
Of(repo, rows) == {n \in ToSet(rows) : PR[n].repo = repo}

\* No page repeats what an earlier one had, whatever is updated in between.
NothingTwice == \A i, j \in DOMAIN collected : collected[i] = collected[j] => i = j

Todo(repo) == {n \in Number : PR[n].repo = repo}

\* A report that was written has every repository of the organization, unless
\* their limit was reached, and every pull request of every repository, but for
\* those that were updated, and so moved to the front of the list, while the
\* command ran, and where their limit was reached.
ReportComplete ==
    result = "ok" =>
        /\ conf.repo = All => repos = Owned \/ (conf.maxRepos > 0 /\ Len(repos) = conf.maxRepos)
        /\ \A repo \in ToSet(repos) :
             \/ Todo(repo) \ ToSet(updates) \subseteq Of(repo, out)
             \/ conf.maxPRs > 0 /\ Cardinality(Of(repo, out)) = conf.maxPRs

\* Paging ends, however much is updated meanwhile: a further page is asked for
\* only where fewer were read than there are, of the organization's
\* repositories as of the pull requests of each.
PagesEnd ==
    page > 1 =>
        /\ pc \in {"repos", "reposWait"} => (page - 1) * conf.reposPerPage < Len(Owned)
        /\ pc \in {"prs", "pageWait", "repoWait"} =>
             (page - 1) * conf.prsPerPage < Cardinality(Todo(repos[at]))

\* wait-between-requests: between two ticks of the Limiter at most two queries
\* are made, the one that waited for the last tick and was late, and the one
\* that this tick lets through. A third one is made only where the first query
\* for pull requests follows the last one for repositories without a wait.
QueriesSpaced == asked <= 2 \/ (asked = 3 /\ conf.repo = All /\ at + page <= 3)

\* A limit of whole pages is a limit.
WholePagesLimit ==
    conf.maxPRs > 0 /\ conf.maxPRs % conf.prsPerPage = 0 =>
        \A repo \in ToSet(repos) : Cardinality(Of(repo, collected)) <= conf.maxPRs

RowOf == [n \in Number |-> Metric(PR[n])]

Rows == [i \in DOMAIN out |-> RowOf[out[i]]]

Aggregations == {Aggregation(interval, since, Rows) : interval \in DOMAIN Length, since \in Sinces}

\* The aggregation of a report that was written never fails: percentiles are
\* asked only of buckets that have durations for them.
AggregationSucceeds == \A a \in Aggregations : a.ok

\* The repository and the interval of row i.
Names(interval, agg, i) ==
    PR[out[i]].repo = agg.repo /\ BeginningOf(interval, PR[out[i]].created) = agg.start

\* The aggregates account for every row: each row is named by exactly one, which
\* counts it.
AggregatesPartition ==
    \A interval \in DOMAIN Length, since \in Sinces :
        LET aggs == Aggregation(interval, since, Rows).aggs
        IN  /\ \A i \in DOMAIN out : \E agg \in aggs :
                 \A other \in aggs : Names(interval, other, i) <=> other = agg
            /\ \A agg \in aggs :
                 /\ agg.total = Cardinality({i \in DOMAIN out : Names(interval, agg, i)})
                 /\ agg.numMerged <= agg.total

\* The averages are numbers, but for the duration per line of an aggregate that
\* has a pull request without changed lines, which is infinite or, when it was
\* merged at once, no number: one row takes the average of its bucket, and of
\* no other.
AveragesAreNumbers ==
    \A interval \in DOMAIN Length : \A agg \in Aggregation(interval, 0, Rows).aggs :
        /\ agg.perComment = "number"
        /\ agg.perLine # "number" <=>
             \E i \in DOMAIN out : PR[out[i]].lines = 0 /\ Names(interval, agg, i)

\* max-prs: "Max number of pr records to pull".
LimitRespected ==
    conf.maxPRs > 0 =>
        \A repo \in ToSet(repos) : Cardinality(Of(repo, collected)) <= conf.maxPRs

\* calc-percentiles-gte-unix: "will calculate running percentiles for any
\* aggregations greater-than or equal-to this date", of all the durations of
\* the repository from that date on.
PercentilesRun ==
    \A interval \in DOMAIN Length, since \in Sinces :
        \A agg \in Aggregation(interval, since, Rows).aggs :
            since > 0 /\ agg.start >= since =>
                {pr \in ToSet(Rows) : /\ pr.repo = agg.repo /\ pr.created >= since
                                      /\ BeginningOf(interval, pr.created) <= agg.start}
                    \subseteq agg.running

=============================================================================

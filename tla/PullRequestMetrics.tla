------------------------- MODULE PullRequestMetrics -------------------------
(***************************************************************************)
(* NewPullRequestPerformanceMetric: what a report says of a pull request.  *)
(* NewPullRequestPerformanceAggregation: the rows of a report, gathered by *)
(* the interval they were created in and by repository.                    *)
(***************************************************************************)
EXTENDS Integers, FiniteSets

-----------------------------------------------------------------------------
\* A pull request that was neither merged nor closed.
StillOpen == 0

\* A division of floating-point numbers.
Quotient(x, n) == IF n # 0 THEN "number" ELSE IF x = 0 THEN "NaN" ELSE "infinity"

\* An open pull request lasts until now, which is later than its creation.
Duration(pr) == IF pr.ended = StillOpen THEN 1 ELSE pr.ended - pr.created

\* Bug: a pull request without comments is divided by none.
Metric_AnyComments(pr) ==
    [repo |-> pr.repo, created |-> pr.created, merged |-> pr.merged,
     perLine    |-> Quotient(Duration(pr), pr.lines),
     perComment |-> Quotient(Duration(pr), pr.comments)]

Metric(pr) ==
    [repo |-> pr.repo, created |-> pr.created, merged |-> pr.merged,
     perLine    |-> Quotient(Duration(pr), pr.lines),
     perComment |-> IF pr.comments > 0 THEN Quotient(Duration(pr), pr.comments) ELSE "number"]

-----------------------------------------------------------------------------
\* The mean of numbers of which none is negative.
MeanOf(kinds) ==
    IF "NaN" \in kinds THEN "NaN" ELSE IF "infinity" \in kinds THEN "infinity" ELSE "number"

\* The scaled lengths of the intervals that agg-window may name.
Length == [day |-> 1, week |-> 2, month |-> 4]

BeginningOf(interval, t) == t - (t % Length[interval])

\* Bug: the repository is no part of a bucket's key.
BucketKey_NoRepo(interval, pr) == <<BeginningOf(interval, pr.created)>>

BucketKey(interval, pr) == <<BeginningOf(interval, pr.created), pr.repo>>

\* Bug: a pull request that was created at the given time is left out.
InPercentiles_After(since, pr) == since > 0 /\ pr.created > since

InPercentiles(since, pr) == since > 0 /\ pr.created >= since

\* A bucket is a set of positions in ms.  sort.Slice puts its rows in the order
\* of their creation, those of one moment in any: it has a first and a last.
FirstIn(ms, bucket) == CHOOSE i \in bucket : \A j \in bucket : ms[i].created <= ms[j].created

LastIn(ms, bucket) == CHOOSE i \in bucket : \A j \in bucket : ms[j].created <= ms[i].created

\* The pull requests that the percentiles of a bucket are taken of.
AllDurations(since, ms, bucket) == {i \in bucket : InPercentiles(since, ms[i])}

HasPercentiles(interval, since, ms, bucket) ==
    since > 0 /\ BeginningOf(interval, ms[LastIn(ms, bucket)].created) >= since

\* stats.Percentile has no answer for an empty input.
Fails(interval, since, ms, bucket) ==
    HasPercentiles(interval, since, ms, bucket) /\ AllDurations(since, ms, bucket) = {}

Aggregate(interval, since, ms, bucket) ==
    LET first == ms[FirstIn(ms, bucket)]
    IN  [start      |-> BeginningOf(interval, first.created),
         repo       |-> first.repo,
         total      |-> Cardinality(bucket),
         numMerged  |-> Cardinality({i \in bucket : ms[i].merged}),
         perLine    |-> MeanOf({ms[i].perLine : i \in bucket}),
         perComment |-> MeanOf({ms[i].perComment : i \in bucket}),
         running    |-> IF HasPercentiles(interval, since, ms, bucket)
                          THEN {ms[i] : i \in AllDurations(since, ms, bucket)} ELSE {}]

Buckets(interval, ms) ==
    {{i \in DOMAIN ms : BucketKey(interval, ms[i]) = key} :
        key \in {BucketKey(interval, ms[i]) : i \in DOMAIN ms}}

\* The aggregates, or an error for all of them.
Aggregation(interval, since, ms) ==
    LET buckets == IF interval \in DOMAIN Length THEN Buckets(interval, ms) ELSE {}
    IN  [ok   |-> /\ interval \in DOMAIN Length \/ ms = <<>>
                  /\ \A bucket \in buckets : ~Fails(interval, since, ms, bucket),
         aggs |-> {Aggregate(interval, since, ms, bucket) : bucket \in buckets}]

=============================================================================

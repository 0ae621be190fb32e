------------------------- MODULE AggregationProofs -------------------------
(***************************************************************************)
(* Theorems about `agg', for any pull requests: it fails for no report,    *)
(* its aggregates account for every row, and an average that is no number  *)
(* stays in its own aggregate.                                             *)
(***************************************************************************)
EXTENDS ReportProofs

-----------------------------------------------------------------------------
(***************************************************************************)
(* Intervals and buckets.                                                  *)
(***************************************************************************)

\* A time lies in the interval that begins at its beginning, and all times of
\* an interval have one beginning.
LEMMA IntervalHolds ==
    ASSUME NEW interval \in DOMAIN Length, NEW t \in Nat
    PROVE  /\ BeginningOf(interval, t) \in Nat
           /\ BeginningOf(interval, t) <= t /\ t < BeginningOf(interval, t) + Length[interval]
           /\ \A u \in Nat :
                BeginningOf(interval, t) <= u /\ u < BeginningOf(interval, t) + Length[interval]
                    => BeginningOf(interval, u) = BeginningOf(interval, t)
<1>1. interval \in {"day", "week", "month"} /\ Length[interval] \in {1, 2, 4}
    BY DEF Length
<1>2. CASE Length[interval] = 1
    BY <1>2 DEF BeginningOf
<1>3. CASE Length[interval] = 2
    BY <1>3 DEF BeginningOf
<1>4. CASE Length[interval] = 4
    BY <1>4 DEF BeginningOf
<1> QED
    BY <1>1, <1>2, <1>3, <1>4

\* Rows, the n of them, as agg reads them.
Dated(ms, n) == n \in Nat /\ DOMAIN ms = 1 .. n /\ \A i \in 1 .. n : ms[i].created \in Nat

LEMMA FirstAndLast ==
    ASSUME NEW n, NEW ms, Dated(ms, n), NEW bucket, bucket \subseteq DOMAIN ms, bucket # {}
    PROVE  FirstIn(ms, bucket) \in bucket /\ LastIn(ms, bucket) \in bucket
<1> DEFINE later == [i \in 1 .. n |-> ms[i].created]
           earlier == [i \in 1 .. n |-> -ms[i].created]
<1>1. \A i \in 1 .. n : later[i] \in Int /\ earlier[i] \in Int
    BY DEF Dated
<1>2. n \in Nat /\ bucket \subseteq 1 .. n
    BY DEF Dated
<1> HIDE DEF later, earlier
<1>3. \E i \in bucket : \A j \in bucket : later[j] <= later[i]
    BY <1>1, <1>2, GreatestValue
<1>4. \E i \in bucket : \A j \in bucket : earlier[j] <= earlier[i]
    BY <1>1, <1>2, GreatestValue
<1> USE DEF later, earlier
<1>5. \E i \in bucket : \A j \in bucket : ms[j].created <= ms[i].created
    BY <1>2, <1>3
<1>6. \E i \in bucket : \A j \in bucket : ms[i].created <= ms[j].created
    <2>1. PICK i \in bucket : \A j \in bucket : earlier[j] <= earlier[i]
        BY <1>4
    <2>2. \A j \in bucket : -ms[j].created <= -ms[i].created
        BY <1>2, <2>1
    <2>3. \A j \in bucket : ms[j].created \in Nat
        BY <1>2 DEF Dated
    <2>4. \A j \in bucket : ms[i].created <= ms[j].created
        BY <2>1, <2>2, <2>3
    <2> QED
        BY <2>1, <2>4
<1> QED
    BY <1>5, <1>6 DEF FirstIn, LastIn

\* What the rows of a bucket have in common, and no others.
LEMMA BucketIs ==
    ASSUME NEW n, NEW ms, Dated(ms, n), NEW interval \in DOMAIN Length, NEW bucket \in Buckets(interval, ms)
    PROVE  /\ bucket \subseteq DOMAIN ms /\ bucket # {} /\ IsFiniteSet(bucket)
           /\ \A i \in bucket : \A j \in DOMAIN ms :
                j \in bucket <=> /\ ms[j].repo = ms[i].repo
                                 /\ BeginningOf(interval, ms[j].created) = BeginningOf(interval, ms[i].created)
<1>1. PICK i \in DOMAIN ms :
          bucket = {j \in DOMAIN ms : BucketKey(interval, ms[j]) = BucketKey(interval, ms[i])}
    BY DEF Buckets
<1>2. IsFiniteSet(bucket)
    BY <1>1, FS_Interval, FS_Subset DEF Dated
<1> QED
    BY <1>1, <1>2 DEF BucketKey

-----------------------------------------------------------------------------
(***************************************************************************)
(* The report that agg reads.                                              *)
(***************************************************************************)
LEMMA RowsAre ==
    ASSUME Shape
    PROVE  /\ Dated(Rows, Len(out)) /\ DOMAIN Rows = DOMAIN out
           /\ \A i \in DOMAIN out :
                /\ out[i] \in Number /\ Rows[i] = Metric(PR[out[i]])
                /\ Rows[i].repo = PR[out[i]].repo /\ Rows[i].created = PR[out[i]].created
<1>1. DOMAIN out = 1 .. Len(out) /\ Len(out) \in Nat /\ \A i \in DOMAIN out : out[i] \in Number
    BY DEF Shape, Kinds
<1>2. DOMAIN Rows = DOMAIN out /\ \A i \in DOMAIN out : Rows[i] = Metric(PR[out[i]])
    BY <1>1 DEF Rows, RowOf
<1>3. \A i \in DOMAIN out : Rows[i].repo = PR[out[i]].repo /\ Rows[i].created = PR[out[i]].created
    BY <1>2 DEF Metric
<1> QED
    BY <1>1, <1>2, <1>3, RowsAssumption DEF RowsAssumption, Dated

\* The aggregate of a bucket names the bucket's rows, and them only.
LEMMA AggregateNames ==
    ASSUME Shape, NEW interval \in DOMAIN Length, NEW since, NEW bucket \in Buckets(interval, Rows)
    PROVE  LET agg == Aggregate(interval, since, Rows, bucket)
           IN  \A i \in DOMAIN out : Names(interval, agg, i) <=> i \in bucket
<1> DEFINE first == FirstIn(Rows, bucket)
           agg == Aggregate(interval, since, Rows, bucket)
<1>1. first \in bucket /\ bucket \subseteq DOMAIN out
    BY RowsAre, BucketIs, FirstAndLast
<1>2. /\ agg.repo = Rows[first].repo
      /\ agg.start = BeginningOf(interval, Rows[first].created)
    BY DEF Aggregate
<1>3. ASSUME NEW i \in DOMAIN out
      PROVE  i \in bucket <=> Rows[i].repo = agg.repo /\ BeginningOf(interval, Rows[i].created) = agg.start
    BY <1>1, <1>2, RowsAre, BucketIs
<1>4. ASSUME NEW i \in DOMAIN out PROVE Names(interval, agg, i) <=> i \in bucket
    BY <1>3, RowsAre DEF Names
<1> QED
    BY <1>4

LEMMA AggregatesAre ==
    ASSUME NEW interval \in DOMAIN Length, NEW since
    PROVE  /\ Aggregation(interval, since, Rows).aggs
                = {Aggregate(interval, since, Rows, bucket) : bucket \in Buckets(interval, Rows)}
           /\ Aggregation(interval, since, Rows).ok
                <=> \A bucket \in Buckets(interval, Rows) : ~Fails(interval, since, Rows, bucket)
BY DEF Aggregation

\* The last pull request of a bucket was created no earlier than the bucket
\* begins: if percentiles are asked for, there is a duration for them.
LEMMA NoBucketFails ==
    ASSUME Shape, NEW interval \in DOMAIN Length, NEW since \in Int,
           NEW bucket \in Buckets(interval, Rows)
    PROVE  ~Fails(interval, since, Rows, bucket)
<1>1. LastIn(Rows, bucket) \in bucket /\ bucket \subseteq DOMAIN Rows
    BY RowsAre, BucketIs, FirstAndLast
<1>2. PICK t \in Nat : t = Rows[LastIn(Rows, bucket)].created
    BY <1>1, RowsAre DEF Dated
<1>3. BeginningOf(interval, t) \in Nat /\ BeginningOf(interval, t) <= t
    BY IntervalHolds
<1> QED
    BY <1>1, <1>2, <1>3 DEF Fails, HasPercentiles, AllDurations, InPercentiles

\* The aggregation of a report never fails for want of durations.
THEOREM AggregationNeverFails == Spec => []AggregationSucceeds
<1>1. ASSUME Shape PROVE AggregationSucceeds
    <2> SUFFICES ASSUME NEW interval \in DOMAIN Length, NEW since \in Sinces
                 PROVE  Aggregation(interval, since, Rows).ok
        BY DEF AggregationSucceeds, Aggregations
    <2>1. since \in Int
        BY RowsAssumption DEF RowsAssumption
    <2> QED
        BY <1>1, <2>1, NoBucketFails, AggregatesAre
<1>2. Spec => []Shape
    BY ShapeAtFirst, ShapeKept, PTL DEF Spec
<1> QED
    BY <1>1, <1>2, PTL

\* Each row of a report is in one aggregate, which names its repository and its
\* interval and counts all such rows.
THEOREM RowsArePartitioned == Spec => []AggregatesPartition
<1>1. ASSUME Shape PROVE AggregatesPartition
    <2> SUFFICES ASSUME NEW interval \in DOMAIN Length, NEW since \in Sinces
                 PROVE  LET aggs == Aggregation(interval, since, Rows).aggs
                        IN  /\ \A i \in DOMAIN out : \E agg \in aggs :
                                 \A other \in aggs : Names(interval, other, i) <=> other = agg
                            /\ \A agg \in aggs :
                                 /\ agg.total = Cardinality({i \in DOMAIN out : Names(interval, agg, i)})
                                 /\ agg.numMerged <= agg.total
        BY DEF AggregatesPartition
    <2> DEFINE Agg(bucket) == Aggregate(interval, since, Rows, bucket)
               aggs == {Agg(bucket) : bucket \in Buckets(interval, Rows)}
    <2>1. Aggregation(interval, since, Rows).aggs = aggs
        BY AggregatesAre
    <2>2. \A bucket \in Buckets(interval, Rows) : \A i \in DOMAIN out :
            Names(interval, Agg(bucket), i) <=> i \in bucket
        BY <1>1, AggregateNames
    <2>3. ASSUME NEW i \in DOMAIN out
          PROVE  \E agg \in aggs : \A other \in aggs : Names(interval, other, i) <=> other = agg
        <3> DEFINE mine == {j \in DOMAIN Rows :
                               BucketKey(interval, Rows[j]) = BucketKey(interval, Rows[i])}
        <3>1. mine \in Buckets(interval, Rows) /\ i \in mine
            BY <1>1, RowsAre DEF Buckets
        <3>2. \A bucket \in Buckets(interval, Rows) : i \in bucket => bucket = mine
            BY DEF Buckets
        <3>3. Names(interval, Agg(mine), i)
            BY <2>2, <3>1
        <3>4. \A bucket \in Buckets(interval, Rows) :
                Names(interval, Agg(bucket), i) => Agg(bucket) = Agg(mine)
            <4> HIDE DEF mine
            <4> QED
                BY <2>2, <3>2
        <3> HIDE DEF mine, Agg
        <3> QED
            BY <3>1, <3>3, <3>4
    <2>4. ASSUME NEW bucket \in Buckets(interval, Rows)
          PROVE  /\ Agg(bucket).total = Cardinality({i \in DOMAIN out : Names(interval, Agg(bucket), i)})
                 /\ Agg(bucket).numMerged <= Agg(bucket).total
        <3>1. bucket \subseteq DOMAIN out /\ IsFiniteSet(bucket)
            BY <1>1, RowsAre, BucketIs
        <3>2. {i \in DOMAIN out : Names(interval, Agg(bucket), i)} = bucket
            <4> HIDE DEF Agg
            <4> QED
                BY <2>2, <3>1
        <3>3. /\ Agg(bucket).total = Cardinality(bucket)
              /\ Agg(bucket).numMerged = Cardinality({i \in bucket : Rows[i].merged})
            BY DEF Aggregate
        <3>4. Cardinality({i \in bucket : Rows[i].merged}) <= Cardinality(bucket)
            BY <3>1, FS_Subset
        <3> HIDE DEF Agg
        <3> QED
            BY <3>2, <3>3, <3>4
    <2> HIDE DEF Agg
    <2> QED
        BY <2>1, <2>3, <2>4
<1>2. Spec => []Shape
    BY ShapeAtFirst, ShapeKept, PTL DEF Spec
<1> QED
    BY <1>1, <1>2, PTL

\* A row is no number exactly where its pull request changed no line, and one
\* such row makes the average of its bucket none.
LEMMA PerLineOf ==
    ASSUME Shape, NEW interval \in DOMAIN Length, NEW since, NEW bucket \in Buckets(interval, Rows)
    PROVE  Aggregate(interval, since, Rows, bucket).perLine # "number"
             <=> \E i \in bucket : PR[out[i]].lines = 0
<1> DEFINE kinds == {Rows[i].perLine : i \in bucket}
<1>1. bucket \subseteq DOMAIN out
    BY RowsAre, BucketIs
<1>2. \A i \in bucket : Rows[i].perLine = Quotient(Duration(PR[out[i]]), PR[out[i]].lines)
    BY <1>1, RowsAre DEF Metric
<1>3. \A i \in bucket : /\ Rows[i].perLine \in {"number", "NaN", "infinity"}
                        /\ Rows[i].perLine # "number" <=> PR[out[i]].lines = 0
    BY <1>2 DEF Quotient
<1>4. Aggregate(interval, since, Rows, bucket).perLine = MeanOf(kinds)
    BY DEF Aggregate
<1>5. MeanOf(kinds) # "number" <=> "NaN" \in kinds \/ "infinity" \in kinds
    BY DEF MeanOf
<1> QED
    BY <1>3, <1>4, <1>5

LEMMA PerCommentOf ==
    ASSUME Shape, NEW interval \in DOMAIN Length, NEW since, NEW bucket \in Buckets(interval, Rows)
    PROVE  Aggregate(interval, since, Rows, bucket).perComment = "number"
<1> DEFINE kinds == {Rows[i].perComment : i \in bucket}
<1>1. bucket \subseteq DOMAIN out
    BY RowsAre, BucketIs
<1>2. \A i \in bucket : PR[out[i]].comments \in Nat
    BY <1>1, RowsAre, RowsAssumption DEF RowsAssumption
<1>3. \A i \in bucket : Rows[i].perComment = "number"
    BY <1>1, <1>2, RowsAre DEF Metric, Quotient
<1>4. Aggregate(interval, since, Rows, bucket).perComment = MeanOf(kinds)
    BY DEF Aggregate
<1> QED
    BY <1>3, <1>4 DEF MeanOf

\* The averages are numbers but where a pull request changed no line.
THEOREM AveragesStayNumbers == Spec => []AveragesAreNumbers
<1>1. ASSUME Shape PROVE AveragesAreNumbers
    <2> SUFFICES ASSUME NEW interval \in DOMAIN Length, NEW bucket \in Buckets(interval, Rows)
                 PROVE  LET agg == Aggregate(interval, 0, Rows, bucket)
                        IN  /\ agg.perComment = "number"
                            /\ agg.perLine # "number" <=>
                                 \E i \in DOMAIN out : PR[out[i]].lines = 0 /\ Names(interval, agg, i)
        BY AggregatesAre DEF AveragesAreNumbers
    <2>1. bucket \subseteq DOMAIN out
        BY <1>1, RowsAre, BucketIs
    <2> QED
        BY <1>1, <2>1, AggregateNames, PerLineOf, PerCommentOf
<1>2. Spec => []Shape
    BY ShapeAtFirst, ShapeKept, PTL DEF Spec
<1> QED
    BY <1>1, <1>2, PTL

=============================================================================

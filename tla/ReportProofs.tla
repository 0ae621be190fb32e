---------------------------- MODULE ReportProofs ----------------------------
(***************************************************************************)
(* Proofs about vsperformancereport: the types of its variables, how fast  *)
(* it asks GitHub, and what the pages that it collects amount to while     *)
(* pull requests are updated.                                              *)
(***************************************************************************)
EXTENDS Report, FiniteSetTheorems, SequenceTheorems, WellFoundedInduction, TLAPS

-----------------------------------------------------------------------------
(***************************************************************************)
(* Numbers, sequences and the constants.                                   *)
(***************************************************************************)

\* The smaller of two numbers.
LEMMA MinOfTwo ==
    ASSUME NEW a \in Int, NEW b \in Int
    PROVE  Min({a, b}) = IF a <= b THEN a ELSE b
<1>1. \E x \in {a, b} : \A y \in {a, b} : x <= y
    OBVIOUS
<1>2. Min({a, b}) \in {a, b} /\ \A y \in {a, b} : Min({a, b}) <= y
    BY <1>1 DEF Min
<1> QED
    BY <1>2

\* The elements of a concatenation.
LEMMA ConcatElements ==
    ASSUME NEW S, NEW s \in Seq(S), NEW t \in Seq(S)
    PROVE  ToSet(s \o t) = ToSet(s) \cup ToSet(t)
<1>1. /\ DOMAIN s = 1 .. Len(s) /\ DOMAIN t = 1 .. Len(t)
      /\ DOMAIN (s \o t) = 1 .. Len(s) + Len(t)
      /\ Len(s) \in Nat /\ Len(t) \in Nat
    BY ConcatProperties, LenProperties
<1>2. \A i \in 1 .. Len(s) + Len(t) : (s \o t)[i] = IF i <= Len(s) THEN s[i] ELSE t[i - Len(s)]
    BY ConcatProperties
<1>3. ToSet(s \o t) \subseteq ToSet(s) \cup ToSet(t)
    BY <1>1, <1>2 DEF ToSet
<1>4. ASSUME NEW i \in DOMAIN s PROVE s[i] \in ToSet(s \o t)
    <2>1. (s \o t)[i] = s[i] /\ i \in DOMAIN (s \o t)
        BY <1>1, <1>2
    <2> QED
        BY <2>1 DEF ToSet
<1>5. ASSUME NEW i \in DOMAIN t PROVE t[i] \in ToSet(s \o t)
    <2>1. (s \o t)[i + Len(s)] = t[i] /\ i + Len(s) \in DOMAIN (s \o t)
        BY <1>1, <1>2
    <2> QED
        BY <2>1 DEF ToSet
<1> QED
    BY <1>3, <1>4, <1>5 DEF ToSet

\* The elements of a sequence to which one is appended.
LEMMA AppendElements ==
    ASSUME NEW S, NEW s \in Seq(S), NEW x \in S
    PROVE  ToSet(Append(s, x)) = ToSet(s) \cup {x}
<1>1. /\ DOMAIN s = 1 .. Len(s) /\ Len(s) \in Nat
      /\ DOMAIN Append(s, x) = 1 .. Len(s) + 1
      /\ Append(s, x)[Len(s) + 1] = x
      /\ \A i \in 1 .. Len(s) : Append(s, x)[i] = s[i]
    BY AppendProperties, LenProperties
<1> QED
    BY <1>1 DEF ToSet

\* A sequence over a set has its elements there.
LEMMA ElementsOf ==
    ASSUME NEW S, NEW s \in Seq(S)
    PROVE  /\ ToSet(s) \subseteq S
           /\ DOMAIN s = 1 .. Len(s) /\ Len(s) \in Nat
           /\ \A i \in 1 .. Len(s) : s[i] \in S
           /\ s # <<>> <=> Len(s) > 0
BY LenProperties, EmptySeq DEF ToSet

\* A sequence of n different elements has n elements.
LEMMA CountDistinct ==
    ASSUME NEW S, NEW s \in Seq(S), \A i, j \in 1 .. Len(s) : s[i] = s[j] => i = j
    PROVE  IsFiniteSet(ToSet(s)) /\ Cardinality(ToSet(s)) = Len(s)
<1>1. DOMAIN s = 1 .. Len(s) /\ Len(s) \in Nat
    BY ElementsOf
<1>2. s \in [1 .. Len(s) -> ToSet(s)]
    <2>1. s \in [1 .. Len(s) -> S]
        BY LenProperties
    <2> QED
        BY <2>1, <1>1 DEF ToSet
<1>3. s \in Injection(1 .. Len(s), ToSet(s))
    BY <1>1, <1>2 DEF Injection, IsInjective
<1>4. s \in Surjection(1 .. Len(s), ToSet(s))
    <2>1. \A x \in ToSet(s) : \E i \in 1 .. Len(s) : s[i] = x
        BY <1>1 DEF ToSet
    <2> QED
        BY <1>2, <2>1 DEF Surjection
<1>5. IsFiniteSet(1 .. Len(s)) /\ Cardinality(1 .. Len(s)) = Len(s)
    BY <1>1, FS_Interval, SMTT(30)
<1> QED
    BY <1>3, <1>4, <1>5, FS_Surjection, SMTT(30)

\* What is assumed of a command line.
LEMMA ConfHas ==
    ASSUME NEW c \in Confs
    PROVE  /\ c.repo = All \/ c.repo \in Seq(ToSet(Owned))
           /\ c.reposPerPage \in Nat \ {0} /\ c.prsPerPage \in Nat \ {0}
           /\ c.maxRepos \in Int /\ c.maxPRs \in Int
BY ReportAssumption DEF ReportAssumption

-----------------------------------------------------------------------------
(***************************************************************************)
(* The pages of pull requests.                                             *)
(***************************************************************************)

\* When pull requests were last updated: no two at the same time, and those
\* that were not touched when they were numbered.
Times ==
    /\ updated \in [Number -> 1 .. Cardinality(Number) + Len(updates)]
    /\ \A m, n \in Number : updated[m] = updated[n] => m = n
    /\ \A n \in Number \ ToSet(updates) : updated[n] = n

\* A page lists different members of S, as many as fit, the last updated ones.
LEMMA PageIsAPrefix ==
    ASSUME updated \in [Number -> Int], \A m, n \in Number : updated[m] = updated[n] => m = n,
           NEW S \in SUBSET Number, NEW size \in Nat \ {0}, NEW nodes \in FirstOf(S, size)
    PROVE  /\ IsFiniteSet(S) /\ Cardinality(S) \in Nat
           /\ nodes \in Seq(S)
           /\ Len(nodes) = IF size <= Cardinality(S) THEN size ELSE Cardinality(S)
           /\ \A i, j \in 1 .. Len(nodes) : nodes[i] = nodes[j] => i = j
           /\ nodes # <<>> => /\ Last(nodes) \in S
                              /\ \A n \in S : n \in ToSet(nodes) <=>
                                               updated[n] >= updated[Last(nodes)]
<1> DEFINE len == IF size <= Cardinality(S) THEN size ELSE Cardinality(S)
<1>1. IsFiniteSet(S) /\ Cardinality(S) \in Nat
    <2>1. Cardinality(Number) \in Nat /\ Number = 1 .. Cardinality(Number)
        BY ReportAssumption DEF ReportAssumption
    <2>2. IsFiniteSet(Number)
        BY <2>1, FS_Interval
    <2> QED
        BY <2>2, FS_Subset, FS_CardinalityType
<1>2. Min({size, Cardinality(S)}) = len /\ len \in Nat
    BY <1>1, MinOfTwo
<1>3. nodes \in [1 .. len -> S]
    BY <1>2 DEF FirstOf
<1>4. nodes \in Seq(S) /\ Len(nodes) = len /\ DOMAIN nodes = 1 .. len
    BY <1>2, <1>3
<1> HIDE DEF len
<1>5. \A i \in 1 .. len : \A n \in S :
        updated[n] > updated[nodes[i]] <=> \E j \in 1 .. i - 1 : nodes[j] = n
    BY <1>4 DEF FirstOf
<1>6. ASSUME NEW i \in 1 .. len, NEW j \in 1 .. len, nodes[i] = nodes[j] PROVE i = j
    <2>1. nodes[i] \in S /\ nodes[i] \in Number /\ updated[nodes[i]] \in Int
        BY <1>3
    <2>2. ~(updated[nodes[i]] > updated[nodes[i]])
        BY <2>1
    <2>3. ~(i \in 1 .. j - 1)
        BY <1>5, <1>6, <2>1, <2>2
    <2>4. ~(j \in 1 .. i - 1)
        BY <1>5, <1>6, <2>1, <2>2
    <2> QED
        BY <2>3, <2>4, <1>2
<1>7. ASSUME nodes # <<>>
      PROVE  /\ Last(nodes) \in S
             /\ \A n \in S : n \in ToSet(nodes) <=> updated[n] >= updated[Last(nodes)]
    <2>1. len \in 1 .. len
        BY <1>2, <1>4, <1>7, EmptySeq
    <2>2. Last(nodes) = nodes[len] /\ Last(nodes) \in S /\ Last(nodes) \in Number
        BY <1>3, <1>4, <2>1 DEF Last
    <2>3. ASSUME NEW n \in S PROVE n \in ToSet(nodes) <=> updated[n] >= updated[Last(nodes)]
        <3>1. updated[n] > updated[Last(nodes)] <=> \E j \in 1 .. len - 1 : nodes[j] = n
            BY <1>5, <2>1, <2>2
        <3>2. n = Last(nodes) <=> updated[n] = updated[Last(nodes)]
            BY <2>2
        <3>3. n \in ToSet(nodes) <=> \E j \in 1 .. len : nodes[j] = n
            BY <1>4 DEF ToSet
        <3>4. updated[n] \in Int /\ updated[Last(nodes)] \in Int
            BY <2>2
        <3>5. \A j \in 1 .. len : j \in 1 .. len - 1 \/ j = len
            BY <1>2
        <3>6. (\E j \in 1 .. len : nodes[j] = n) <=>
                (\E j \in 1 .. len - 1 : nodes[j] = n) \/ n = Last(nodes)
            BY <3>5, <2>1, <2>2, <1>2
        <3> QED
            BY <3>1, <3>2, <3>3, <3>4, <3>6
    <2> QED
        BY <2>2, <2>3
<1> QED
    BY <1>1, <1>4, <1>6, <1>7 DEF len

\* A page without a next one has all of S.
LEMMA LastPageHasAll ==
    ASSUME updated \in [Number -> Int], \A m, n \in Number : updated[m] = updated[n] => m = n,
           NEW S \in SUBSET Number, NEW size \in Nat \ {0}, NEW nodes \in FirstOf(S, size),
           ~HasNextPage(S, size)
    PROVE  ToSet(nodes) = S
<1>1. /\ IsFiniteSet(S) /\ Cardinality(S) \in Nat /\ nodes \in Seq(S)
      /\ Len(nodes) = IF size <= Cardinality(S) THEN size ELSE Cardinality(S)
      /\ \A i, j \in 1 .. Len(nodes) : nodes[i] = nodes[j] => i = j
    BY PageIsAPrefix
<1>2. Len(nodes) = Cardinality(S)
    BY <1>1 DEF HasNextPage
<1>3. ToSet(nodes) \in SUBSET S /\ Cardinality(ToSet(nodes)) = Len(nodes)
    BY <1>1, CountDistinct, ElementsOf
<1> QED
    BY <1>1, <1>2, <1>3, FS_Subset

-----------------------------------------------------------------------------
(***************************************************************************)
(* Types.                                                                  *)
(***************************************************************************)

Kinds ==
    /\ conf \in Confs
    /\ updates \in Seq(Number) /\ Len(updates) <= MaxUpdates
    /\ pc \in {"repos", "reposWait", "prs", "pageWait", "repoWait", "write", "done"}
    /\ repos \in Seq(ToSet(Owned))
    /\ at \in 1 .. Len(repos) + 1
    /\ page \in Nat \ {0}
    /\ cursor \in {NoCursor} \cup 1 .. Cardinality(Number) + MaxUpdates
    /\ collected \in Seq(Number) /\ out \in Seq(Number)
    /\ tick \in BOOLEAN /\ asked \in Nat /\ signal \in BOOLEAN
    /\ result \in {"none", "ok", "error", "killed"}

\* Only a command for all repositories pages through them, before any pull
\* request is read; a pull request is read of a repository that there is.
Position ==
    /\ pc \in {"repos", "reposWait"} =>
         conf.repo = All /\ at = 1 /\ cursor = NoCursor /\ collected = <<>>
    /\ pc \in {"prs", "pageWait", "repoWait"} => at <= Len(repos)

Shape == Kinds /\ Times /\ Position

LEMMA ShapeGivesTypes == Shape => TypeOK
<1> SUFFICES ASSUME Shape PROVE TypeOK
    OBVIOUS
<1>1. /\ ToSet(updates) \subseteq Number /\ Len(updates) \in Nat
      /\ ToSet(repos) \subseteq ToSet(Owned)
      /\ DOMAIN repos = 1 .. Len(repos)
      /\ ToSet(collected) \subseteq Number /\ ToSet(out) \subseteq Number
    BY ElementsOf DEF Shape, Kinds
<1>2. updated \in [Number -> 1 .. Cardinality(Number) + MaxUpdates]
    <2>1. updated \in [Number -> 1 .. Cardinality(Number) + Len(updates)]
        BY DEF Shape, Times
    <2>2. Cardinality(Number) \in Nat /\ MaxUpdates \in Nat /\ Len(updates) <= MaxUpdates
        BY ReportAssumption DEF ReportAssumption, Shape, Kinds
    <2>3. 1 .. Cardinality(Number) + Len(updates) \subseteq 1 .. Cardinality(Number) + MaxUpdates
        BY <1>1, <2>2
    <2> QED
        BY <2>1, <2>3
<1>3. pc \in {"prs", "pageWait", "repoWait"} => at \in DOMAIN repos
    BY <1>1 DEF Shape, Kinds, Position
<1> QED
    BY <1>1, <1>2, <1>3 DEF Shape, Kinds, TypeOK

LEMMA ShapeAtFirst == Init => Shape
<1> SUFFICES ASSUME Init PROVE Shape
    OBVIOUS
<1>1. conf \in Confs /\ updates = <<>> /\ Len(updates) = 0
    BY DEF Init
<1>2. Cardinality(Number) \in Nat /\ Number = 1 .. Cardinality(Number) /\ MaxUpdates \in Nat
    BY ReportAssumption DEF ReportAssumption
<1>3. repos \in Seq(ToSet(Owned)) /\ Len(repos) \in Nat /\ (repos # <<>> <=> Len(repos) > 0)
    BY <1>1, ConfHas, ElementsOf, EmptySeq DEF Init
<1>4. Times
    BY <1>1, <1>2 DEF Init, Times
<1>5. Position
    BY <1>3 DEF Init, Position, Begin
<1>6. Kinds
    <2>1. <<>> \in Seq(Number)
        BY EmptySeq
    <2>2. at \in 1 .. Len(repos) + 1 /\ page \in Nat \ {0} /\ asked \in Nat
        BY <1>3 DEF Init
    <2>3. pc \in {"repos", "prs", "write"}
        BY DEF Init, Begin
    <2>4. tick \in BOOLEAN /\ signal \in BOOLEAN /\ result \in {"none", "ok", "error", "killed"}
        BY DEF Init
    <2>5. cursor \in {NoCursor} \cup 1 .. Cardinality(Number) + MaxUpdates
        BY DEF Init
    <2>6. updates \in Seq(Number) /\ Len(updates) <= MaxUpdates
        BY <1>1, <1>2, <2>1
    <2>7. collected \in Seq(Number) /\ out \in Seq(Number)
        BY <2>1 DEF Init
    <2> QED
        BY <1>1, <1>3, <2>2, <2>3, <2>4, <2>5, <2>6, <2>7 DEF Kinds
<1> QED
    BY <1>4, <1>5, <1>6 DEF Shape

\* What a query for pull requests reads.
LEMMA QueryReads ==
    ASSUME Shape
    PROVE  /\ updated \in [Number -> Int]
           /\ \A m, n \in Number : updated[m] = updated[n] => m = n
           /\ \A n \in Number : updated[n] \in 1 .. Cardinality(Number) + MaxUpdates
           /\ Remaining(repos[at]) \in SUBSET Number
           /\ conf.prsPerPage \in Nat \ {0}
<1>1. updated \in [Number -> 1 .. Cardinality(Number) + MaxUpdates]
    BY ShapeGivesTypes DEF TypeOK
<1>2. Cardinality(Number) \in Nat /\ MaxUpdates \in Nat
    BY ReportAssumption DEF ReportAssumption
<1>3. 1 .. Cardinality(Number) + MaxUpdates \subseteq Int
    BY <1>2
<1>4. conf.prsPerPage \in Nat \ {0}
    BY ConfHas DEF Shape, Kinds
<1> QED
    BY <1>1, <1>3, <1>4 DEF Shape, Times, Remaining

\* A query for repositories adds the next ones of the organization.
LEMMA ReposGrow ==
    ASSUME Shape, NEW size \in Nat \ {0}
    PROVE  /\ ReposPage(size) \in Seq(ToSet(Owned))
           /\ repos \o ReposPage(size) \in Seq(ToSet(Owned))
           /\ Len(repos \o ReposPage(size)) \in Nat
           /\ Len(repos \o ReposPage(size)) >= Len(repos)
<1>1. Owned \in Seq(ToSet(Owned)) /\ repos \in Seq(ToSet(Owned))
    BY ReportAssumption DEF ReportAssumption, Shape, Kinds
<1>2. Len(Owned) \in Nat /\ Len(repos) \in Nat /\ \A i \in 1 .. Len(Owned) : Owned[i] \in ToSet(Owned)
    BY <1>1, ElementsOf
<1>3. Min({Len(repos) + size, Len(Owned)})
        = IF Len(repos) + size <= Len(Owned) THEN Len(repos) + size ELSE Len(Owned)
    BY <1>2, MinOfTwo
<1> DEFINE end == Min({Len(repos) + size, Len(Owned)})
<1>4. end \in Int /\ end <= Len(Owned) /\ Len(repos) + 1 \in Int
    BY <1>2, <1>3
<1>5. ReposPage(size) \in Seq(ToSet(Owned))
    <2>1. ReposPage(size) = SubSeq(Owned, Len(repos) + 1, end)
        BY DEF ReposPage
    <2> HIDE DEF end
    <2>2. \A i \in Len(repos) + 1 .. end : i \in 1 .. Len(Owned)
        BY <1>2, <1>4
    <2>3. \A i \in Len(repos) + 1 .. end : Owned[i] \in ToSet(Owned)
        BY <1>2, <2>2
    <2> QED
        BY <1>4, <2>1, <2>3, SubSeqProperties
<1>6. Len(ReposPage(size)) \in Nat
    BY <1>5, ElementsOf
<1> QED
    BY <1>1, <1>2, <1>5, <1>6, ConcatProperties

\* Only an update changes when a pull request was updated.
LEMMA TimesKept == Shape /\ [Next]_vars => Times'
<1> SUFFICES ASSUME Shape, [Next]_vars PROVE Times'
    OBVIOUS
<1> USE DEF Shape
<1>1. ASSUME NEW n \in Number, Update(n) PROVE Times'
    <2>1. /\ updates \in Seq(Number) /\ Len(updates) \in Nat /\ Cardinality(Number) \in Nat
          /\ updates' = Append(updates, n) /\ Len(updates') = Len(updates) + 1
          /\ updated' = [updated EXCEPT ![n] = Cardinality(Number) + Len(updates) + 1]
        <3>1. /\ updates' = Append(updates, n)
              /\ updated' = [updated EXCEPT ![n] = Cardinality(Number) + Len(updates')]
            BY <1>1 DEF Update
        <3>2. updates \in Seq(Number) /\ Len(updates) \in Nat /\ Cardinality(Number) \in Nat
            BY ElementsOf, ReportAssumption DEF Kinds, ReportAssumption
        <3>3. Len(updates') = Len(updates) + 1
            BY <3>1, <3>2, AppendProperties
        <3>4. Cardinality(Number) + Len(updates') = Cardinality(Number) + Len(updates) + 1
            BY <3>2, <3>3
        <3> QED
            BY <3>1, <3>2, <3>3, <3>4
    <2>2. updated \in [Number -> 1 .. Cardinality(Number) + Len(updates)]
        BY DEF Times
    <2>3. \A m \in Number : updated[m] \in 1 .. Cardinality(Number) + Len(updates)
        BY <2>2
    <2>4. updated' \in [Number -> 1 .. Cardinality(Number) + Len(updates')]
        BY <2>1, <2>2, <2>3
    <2>5. \A m \in Number : updated'[m] = IF m = n THEN Cardinality(Number) + Len(updates) + 1 ELSE updated[m]
        BY <2>1, <2>2
    <2>6. \A l, m \in Number : updated'[l] = updated'[m] => l = m
        BY <2>1, <2>3, <2>5 DEF Times
    <2>7. ToSet(Append(updates, n)) = ToSet(updates) \cup {n}
        BY <2>1, AppendElements
    <2>8. \A m \in Number \ ToSet(updates') : updated'[m] = m
        BY <2>1, <2>5, <2>7 DEF Times
    <2> QED
        BY <2>4, <2>6, <2>8 DEF Times
<1>2. ASSUME UNCHANGED world PROVE Times'
    BY <1>2 DEF world, Times
<1>3. CASE Interrupt BY <1>2, <1>3 DEF Interrupt
<1>4. CASE Tick BY <1>2, <1>4 DEF Tick
<1>5. CASE QueryFails BY <1>2, <1>5 DEF QueryFails, Exit
<1>6. CASE Killed BY <1>2, <1>6 DEF Killed, Exit
<1>7. CASE QueryRepos BY <1>2, <1>7 DEF QueryRepos
<1>8. CASE WaitRepos BY <1>2, <1>8 DEF WaitRepos
<1>9. CASE QueryPullRequests BY <1>2, <1>9 DEF QueryPullRequests
<1>10. CASE WaitPage BY <1>2, <1>10 DEF WaitPage
<1>11. CASE WaitRepo BY <1>2, <1>11 DEF WaitRepo
<1>12. CASE Write BY <1>2, <1>12 DEF Write, Exit
<1>13. CASE UNCHANGED vars BY <1>2, <1>13 DEF vars, world
<1> QED
    BY <1>1, <1>3, <1>4, <1>5, <1>6, <1>7, <1>8, <1>9, <1>10, <1>11, <1>12, <1>13 DEF Next

\* A query for pull requests adds a page of them.
LEMMA PullRequestsRead ==
    ASSUME Shape, QueryPullRequests
    PROVE  \E nodes \in FirstOf(Remaining(repos[at]), conf.prsPerPage) :
             /\ nodes \in Seq(Number)
             /\ collected' = collected \o nodes /\ collected' \in Seq(Number)
             /\ cursor' = IF nodes = <<>> THEN cursor ELSE updated[Last(nodes)]
             /\ nodes # <<>> => Last(nodes) \in Number
<1>1. PICK nodes \in FirstOf(Remaining(repos[at]), conf.prsPerPage) :
         /\ collected' = collected \o nodes
         /\ cursor' = IF nodes = <<>> THEN cursor ELSE updated[Last(nodes)]
    BY DEF QueryPullRequests
<1>2. /\ nodes \in Seq(Remaining(repos[at]))
      /\ nodes # <<>> => Last(nodes) \in Remaining(repos[at])
      /\ Remaining(repos[at]) \in SUBSET Number
    BY <1>1, QueryReads, PageIsAPrefix
<1>3. nodes \in Seq(Number)
    BY <1>2, SeqMonotonic
<1>4. collected' \in Seq(Number)
    BY <1>1, <1>3, ConcatProperties DEF Shape, Kinds
<1> QED
    BY <1>1, <1>2, <1>3, <1>4

LEMMA ShapeKept == Shape /\ [Next]_vars => Shape'
<1> SUFFICES ASSUME Shape, [Next]_vars PROVE Kinds' /\ Position'
    BY TimesKept DEF Shape
<1>0. Kinds /\ Position /\ Len(repos) \in Nat
    BY ElementsOf DEF Shape, Kinds
<1>1. ASSUME NEW n \in Number, Update(n) PROVE Kinds' /\ Position'
    <2>1. updates' \in Seq(Number) /\ Len(updates') <= MaxUpdates
        <3>1. updates' = Append(updates, n) /\ updates \in Seq(Number) /\ Len(updates) < MaxUpdates
            BY <1>0, <1>1 DEF Update, Kinds
        <3>2. MaxUpdates \in Nat /\ Len(updates) \in Nat
            BY <3>1, ElementsOf, ReportAssumption DEF ReportAssumption
        <3>3. updates' \in Seq(Number) /\ Len(updates') = Len(updates) + 1
            BY <3>1, AppendProperties
        <3> QED
            BY <3>1, <3>2, <3>3
    <2>2. UNCHANGED <<conf, pc, repos, at, page, cursor, collected, tick, asked, signal, result, out>>
        BY <1>1 DEF Update, limiter
    <2> QED
        BY <1>0, <2>1, <2>2 DEF Kinds, Position
<1>3. CASE Interrupt
    BY <1>0, <1>3 DEF Interrupt, Kinds, Position, world, limiter
<1>4. CASE Tick
    BY <1>0, <1>4 DEF Tick, Kinds, Position, world
<1>5. CASE QueryFails
    BY <1>0, <1>5 DEF QueryFails, Exit, Ask, Kinds, Position, world
<1>6. CASE Killed
    BY <1>0, <1>6 DEF Killed, Exit, Kinds, Position, world, limiter
<1>7. CASE QueryRepos
    <2>1. /\ repos' \in Seq(ToSet(Owned)) /\ Len(repos') \in Nat /\ Len(repos') >= Len(repos)
          /\ repos' # <<>> <=> Len(repos') > 0
        <3>1. conf.reposPerPage \in Nat \ {0}
            BY <1>0, ConfHas DEF Kinds
        <3>2. repos' = repos \o ReposPage(conf.reposPerPage)
            BY <1>7 DEF QueryRepos
        <3> QED
            BY <3>1, <3>2, ReposGrow, ElementsOf
    <2>2. /\ UNCHANGED <<conf, updated, updates, at, cursor, collected, signal, result, out, tick>>
          /\ asked' = asked + 1 /\ page' \in {1, page + 1}
          /\ pc' \in {"reposWait", "prs", "write"} /\ (pc' = "prs" => repos' # <<>>)
        BY <1>7 DEF QueryRepos, Begin, Ask, world
    <2>3. conf.repo = All /\ at = 1 /\ cursor = NoCursor /\ collected = <<>>
        BY <1>0, <1>7 DEF QueryRepos, Position
    <2>4. at' \in 1 .. Len(repos') + 1 /\ page' \in Nat \ {0} /\ asked' \in Nat
        BY <1>0, <2>1, <2>2, <2>3 DEF Kinds
    <2>5. Position'
        BY <2>1, <2>2, <2>3 DEF Position
    <2> QED
        BY <1>0, <2>1, <2>2, <2>4, <2>5 DEF Kinds
<1>8. CASE WaitRepos
    BY <1>0, <1>8 DEF WaitRepos, Wait, Kinds, Position, world
<1>9. CASE QueryPullRequests
    <2>1. PICK nodes \in FirstOf(Remaining(repos[at]), conf.prsPerPage) :
             /\ collected' \in Seq(Number)
             /\ cursor' = IF nodes = <<>> THEN cursor ELSE updated[Last(nodes)]
             /\ nodes # <<>> => Last(nodes) \in Number
        BY <1>9, PullRequestsRead
    <2>2. cursor' \in {NoCursor} \cup 1 .. Cardinality(Number) + MaxUpdates
        BY <1>0, <2>1, QueryReads DEF Kinds
    <2>3. /\ UNCHANGED <<conf, updates, repos, at, page, signal, result, out, tick>>
          /\ pc = "prs" /\ asked' = asked + 1 /\ pc' \in {"repoWait", "pageWait"}
        BY <1>9 DEF QueryPullRequests, Ask, world
    <2> QED
        BY <1>0, <2>1, <2>2, <2>3 DEF Kinds, Position
<1>10. CASE WaitPage
    <2>1. /\ UNCHANGED <<conf, updates, repos, at, cursor, collected, asked, signal, result, out>>
          /\ pc = "pageWait" /\ pc' = "prs" /\ page' = page + 1 /\ tick' = FALSE
        BY <1>10 DEF WaitPage, Wait, world
    <2>2. page' \in Nat \ {0}
        BY <1>0, <2>1 DEF Kinds
    <2> QED
        BY <1>0, <2>1, <2>2 DEF Kinds, Position
<1>11. CASE WaitRepo
    <2>1. /\ UNCHANGED <<conf, updates, repos, collected, asked, signal, result, out>>
          /\ pc = "repoWait" /\ at' = at + 1 /\ page' = 1 /\ cursor' = NoCursor /\ tick' = FALSE
          /\ pc' = IF at = Len(repos) THEN "write" ELSE "prs"
        BY <1>11 DEF WaitRepo, Wait, world
    <2>2. at <= Len(repos) /\ at \in Nat /\ at >= 1
        BY <1>0, <2>1 DEF Position, Kinds
    <2>3. at' \in 1 .. Len(repos) + 1 /\ (pc' = "prs" => at' <= Len(repos))
        BY <1>0, <2>1, <2>2
    <2>4. Kinds'
        <3>1. cursor' \in {NoCursor} \cup 1 .. Cardinality(Number) + MaxUpdates
            BY <2>1
        <3>2. page' \in Nat \ {0}
            BY <2>1
        <3>3. pc' \in {"prs", "write"}
            BY <2>1
        <3>4. tick' \in BOOLEAN
            BY <2>1
        <3> QED
            BY <1>0, <2>1, <2>3, <3>1, <3>2, <3>3, <3>4 DEF Kinds
    <2>5. pc' \in {"prs", "write"}
        BY <2>1
    <2> QED
        BY <2>1, <2>3, <2>4, <2>5 DEF Position
<1>12. CASE Write
    <2>1. out' \in Seq(Number)
        <3>1. CASE out' = collected
            BY <1>0, <3>1 DEF Kinds
        <3>2. ASSUME NEW rows \in 0 .. Len(collected), out' = SubSeq(collected, 1, rows)
              PROVE  out' \in Seq(Number)
            <4>1. Len(collected) \in Nat /\ \A i \in 1 .. Len(collected) : collected[i] \in Number
                BY <1>0, ElementsOf DEF Kinds
            <4>2. rows \in Int /\ \A i \in 1 .. rows : collected[i] \in Number
                BY <4>1
            <4> QED
                BY <3>2, <4>2, SubSeqProperties
        <3> QED
            BY <1>12, <3>1, <3>2 DEF Write
    <2>2. /\ UNCHANGED <<conf, updates, repos, at, page, cursor, collected, tick, asked, signal>>
          /\ pc' = "done" /\ result' \in {"ok", "error"}
        BY <1>12 DEF Write, Exit, world, limiter
    <2> QED
        BY <1>0, <2>1, <2>2 DEF Kinds, Position
<1>13. CASE UNCHANGED vars
    BY <1>0, <1>13 DEF vars, Kinds, Position
<1> QED
    BY <1>1, <1>3, <1>4, <1>5, <1>6, <1>7, <1>8, <1>9, <1>10, <1>11, <1>12, <1>13 DEF Next

\* Whatever the command line and whatever is updated on GitHub meanwhile, every
\* variable of the command keeps its type.
THEOREM ReportTypeCorrect == Spec => []TypeOK
<1>1. Spec => []Shape
    BY ShapeAtFirst, ShapeKept, PTL DEF Spec
<1> QED
    BY <1>1, ShapeGivesTypes, PTL

-----------------------------------------------------------------------------
(***************************************************************************)
(* The Limiter.  A wait takes the tick that let it end, so that a query    *)
(* which follows a wait finds none, or one that came since, after which    *)
(* nothing was asked.  Where the first page of pull requests follows the   *)
(* last page of repositories without a wait, one query more was made, and  *)
(* it takes two waits until this is made up for.                           *)
(***************************************************************************)
AtMost(ticked, unticked) == asked <= IF tick THEN ticked ELSE unticked

Hurried(step) == conf.repo = All /\ at + page = step
Unhurried == conf.repo # All \/ at + page >= 4

PaceOfQueries ==
    /\ pc = "repos" => AtMost(0, 1)
    /\ pc = "prs" => /\ Unhurried => AtMost(0, 1)
                     /\ Hurried(3) => AtMost(0, 2)
                     /\ Hurried(2) => AtMost(1, 2)

PaceOfWaits ==
    /\ pc = "reposWait" => AtMost(1, 2)
    /\ pc \in {"pageWait", "repoWait"} => /\ Unhurried => AtMost(1, 2)
                                          /\ Hurried(3) => AtMost(1, 3)
                                          /\ Hurried(2) => AtMost(2, 3)

PaceInv == PaceOfQueries /\ PaceOfWaits /\ QueriesSpaced

LEMMA PaceKept == Shape /\ PaceInv /\ [Next]_vars => PaceInv'
<1> SUFFICES ASSUME Shape, PaceInv, [Next]_vars PROVE PaceInv'
    OBVIOUS
<1>0. at \in Nat \ {0} /\ page \in Nat \ {0} /\ asked \in Nat /\ tick \in BOOLEAN
    BY ElementsOf DEF Shape, Kinds
<1>1. ASSUME UNCHANGED <<conf, pc, at, page, tick, asked>> PROVE PaceInv'
    BY <1>1 DEF PaceInv, PaceOfQueries, PaceOfWaits, QueriesSpaced, AtMost, Hurried, Unhurried
<1>2. ASSUME NEW n \in Number, Update(n) PROVE PaceInv'
    BY <1>1, <1>2 DEF Update, limiter
<1>3. CASE Interrupt
    BY <1>1, <1>3 DEF Interrupt, world, limiter
<1>4. CASE Tick
    <2>1. tick' = TRUE /\ asked' = 0
        BY <1>4 DEF Tick
    <2> QED
        BY <2>1 DEF PaceInv, PaceOfQueries, PaceOfWaits, QueriesSpaced, AtMost
<1>5. CASE QueryFails
    <2>1. UNCHANGED <<conf, at, page>> /\ asked' = asked + 1 /\ pc' = "done" /\ pc \in {"repos", "prs"}
        BY <1>5 DEF QueryFails, Exit, Ask, world
    <2>2. QueriesSpaced'
        BY <1>0, <2>1 DEF PaceInv, PaceOfQueries, QueriesSpaced, AtMost, Hurried, Unhurried, Shape, Position
    <2> QED
        BY <2>1, <2>2 DEF PaceInv, PaceOfQueries, PaceOfWaits
<1>6. CASE Killed
    <2>1. UNCHANGED <<conf, at, page, asked>> /\ pc' = "done"
        BY <1>6 DEF Killed, Exit, world, limiter
    <2> QED
        BY <2>1 DEF PaceInv, PaceOfQueries, PaceOfWaits, QueriesSpaced
<1>7. CASE QueryRepos
    <2>1. /\ UNCHANGED <<conf, at, tick>> /\ asked' = asked + 1 /\ pc = "repos"
          /\ \/ pc' = "reposWait"
             \/ pc' \in {"prs", "write"} /\ page' = 1
        BY <1>7 DEF QueryRepos, Ask, Begin, world
    <2>2. AtMost(0, 1) /\ at = 1 /\ conf.repo = All
        BY <2>1 DEF PaceInv, PaceOfQueries, Shape, Position
    <2>3. AtMost(1, 2)' /\ asked' <= 2
        BY <1>0, <2>1, <2>2 DEF AtMost
    <2>4. pc' = "prs" => Hurried(2)' /\ ~Hurried(3)' /\ ~Unhurried'
        BY <2>1, <2>2 DEF Hurried, Unhurried
    <2> QED
        BY <2>1, <2>3, <2>4 DEF PaceInv, PaceOfQueries, PaceOfWaits, QueriesSpaced
<1>8. CASE WaitRepos
    <2>1. UNCHANGED <<conf, at, page, asked>> /\ tick = TRUE /\ tick' = FALSE /\ pc = "reposWait" /\ pc' = "repos"
        BY <1>8 DEF WaitRepos, Wait, world
    <2>2. asked <= 1
        BY <2>1 DEF PaceInv, PaceOfWaits, AtMost
    <2> QED
        BY <1>0, <2>1, <2>2 DEF PaceInv, PaceOfQueries, PaceOfWaits, QueriesSpaced, AtMost
<1>9. CASE QueryPullRequests
    <2>1. /\ UNCHANGED <<conf, at, page, tick>> /\ asked' = asked + 1
          /\ pc = "prs" /\ pc' \in {"repoWait", "pageWait"}
        BY <1>9 DEF QueryPullRequests, Ask, world
    <2>2. PaceOfWaits'
        BY <1>0, <2>1 DEF PaceInv, PaceOfQueries, PaceOfWaits, AtMost, Hurried, Unhurried
    <2>3. QueriesSpaced'
        BY <1>0, <2>1 DEF PaceInv, PaceOfQueries, QueriesSpaced, AtMost, Hurried, Unhurried
    <2> QED
        BY <2>1, <2>2, <2>3 DEF PaceInv, PaceOfQueries
<1>10. ASSUME WaitPage \/ WaitRepo PROVE PaceInv'
    <2>1. /\ UNCHANGED <<conf, asked>> /\ tick = TRUE /\ tick' = FALSE
          /\ pc \in {"pageWait", "repoWait"} /\ pc' \in {"prs", "write"}
          /\ \/ at' = at /\ page' = page + 1
             \/ at' = at + 1 /\ page' = 1
        BY <1>10 DEF WaitPage, WaitRepo, Wait, world
    <2>2. asked <= 2 /\ (asked = 2 => Hurried(2))
        BY <1>0, <2>1 DEF PaceInv, PaceOfWaits, AtMost, Hurried, Unhurried
    <2>3. /\ QueriesSpaced'
          /\ asked' <= 1 \/ (asked' <= 2 /\ Hurried(3)' /\ ~Unhurried')
          /\ ~Hurried(2)'
        BY <1>0, <2>1, <2>2 DEF QueriesSpaced, Hurried, Unhurried
    <2> QED
        BY <1>0, <2>1, <2>3 DEF PaceInv, PaceOfQueries, PaceOfWaits, AtMost
<1>12. CASE Write
    <2>1. UNCHANGED <<conf, at, page, asked>> /\ pc' = "done"
        BY <1>12 DEF Write, Exit, world, limiter
    <2> QED
        BY <2>1 DEF PaceInv, PaceOfQueries, PaceOfWaits, QueriesSpaced
<1>13. CASE UNCHANGED vars
    BY <1>1, <1>13 DEF vars
<1> QED
    BY <1>2, <1>3, <1>4, <1>5, <1>6, <1>7, <1>8, <1>9, <1>10, <1>12, <1>13 DEF Next

\* For any pace of the Limiter and any pages: no more than two queries are made
\* between two of its ticks, but where pull requests follow repositories.
THEOREM LimiterHolds == Spec => []QueriesSpaced
<1>1. Spec => []Shape
    BY ShapeAtFirst, ShapeKept, PTL DEF Spec
<1>2. Init => PaceInv
    <2> SUFFICES ASSUME Init PROVE PaceInv
        OBVIOUS
    <2>1. asked = 0 /\ pc \in {"repos", "prs", "write"}
        BY DEF Init, Begin
    <2> QED
        BY <2>1 DEF PaceInv, PaceOfQueries, PaceOfWaits, QueriesSpaced, AtMost
<1>3. PaceInv => QueriesSpaced
    BY DEF PaceInv
<1> QED
    BY <1>1, <1>2, <1>3, PaceKept, PTL DEF Spec

-----------------------------------------------------------------------------
(***************************************************************************)
(* The repositories to visit: those that the command line names, or the    *)
(* first ones of the organization.                                         *)
(***************************************************************************)

\* A command line names no repository twice.
NoRepoTwice == \A c \in Confs : \A i, j \in DOMAIN c.repo : c.repo[i] = c.repo[j] => i = j

Listing ==
    IF conf.repo = All
      THEN Len(repos) <= Len(Owned) /\ \A i \in 1 .. Len(repos) : repos[i] = Owned[i]
      ELSE repos = conf.repo

\* The next page of repositories, in numbers.
LEMMA NextRepos ==
    ASSUME Shape, Listing, conf.repo = All, NEW size \in Nat \ {0}
    PROVE  LET longer == repos \o ReposPage(size)
           IN  /\ Len(longer) = IF Len(repos) + size <= Len(Owned) THEN Len(repos) + size ELSE Len(Owned)
               /\ \A i \in 1 .. Len(longer) : longer[i] = Owned[i]
<1>1. Owned \in Seq(ToSet(Owned)) /\ repos \in Seq(ToSet(Owned))
    BY ReportAssumption DEF ReportAssumption, Shape, Kinds
<1>2. /\ Len(Owned) \in Nat /\ Len(repos) \in Nat /\ Len(repos) <= Len(Owned)
      /\ \A i \in 1 .. Len(Owned) : Owned[i] \in ToSet(Owned)
    BY <1>1, ElementsOf DEF Listing
<1> DEFINE end == IF Len(repos) + size <= Len(Owned) THEN Len(repos) + size ELSE Len(Owned)
<1>3. ReposPage(size) = SubSeq(Owned, Len(repos) + 1, end)
    BY <1>2, MinOfTwo DEF ReposPage
<1>4. end \in Int /\ end <= Len(Owned) /\ end >= Len(repos) /\ Len(repos) + 1 \in Int
    BY <1>2
<1> HIDE DEF end
<1>5. \A i \in Len(repos) + 1 .. end : Owned[i] \in ToSet(Owned)
    <2>1. \A i \in Len(repos) + 1 .. end : i \in 1 .. Len(Owned)
        BY <1>2, <1>4
    <2> QED
        BY <1>2, <2>1
<1>6. /\ ReposPage(size) \in Seq(ToSet(Owned))
      /\ Len(ReposPage(size)) = IF Len(repos) + 1 <= end THEN end - (Len(repos) + 1) + 1 ELSE 0
      /\ \A i \in 1 .. end - (Len(repos) + 1) + 1 : ReposPage(size)[i] = Owned[Len(repos) + 1 + i - 1]
    BY <1>3, <1>4, <1>5, SubSeqProperties
<1>7. Len(ReposPage(size)) = end - Len(repos)
    BY <1>2, <1>4, <1>6
<1>8. /\ Len(repos \o ReposPage(size)) = end
      /\ \A i \in 1 .. end : (repos \o ReposPage(size))[i]
                               = IF i <= Len(repos) THEN repos[i] ELSE ReposPage(size)[i - Len(repos)]
    <2>1. Len(repos) + Len(ReposPage(size)) = end
        BY <1>2, <1>4, <1>7
    <2> QED
        BY <1>1, <1>6, <2>1, ConcatProperties
<1>9. ASSUME NEW i \in 1 .. end PROVE (repos \o ReposPage(size))[i] = Owned[i]
    <2>1. CASE i <= Len(repos)
        BY <1>2, <1>8, <2>1 DEF Listing
    <2>2. CASE i > Len(repos)
        <3>1. i - Len(repos) \in 1 .. end - (Len(repos) + 1) + 1 /\ Len(repos) + 1 + (i - Len(repos)) - 1 = i
            BY <1>2, <1>4, <2>2
        <3>2. (repos \o ReposPage(size))[i] = ReposPage(size)[i - Len(repos)]
            BY <1>2, <1>8, <2>2
        <3>3. ReposPage(size)[i - Len(repos)] = Owned[Len(repos) + 1 + (i - Len(repos)) - 1]
            BY <1>6, <3>1
        <3> QED
            BY <3>1, <3>2, <3>3
    <2>3. i <= Len(repos) \/ i > Len(repos)
        BY <1>2, <1>4
    <2> QED
        BY <2>1, <2>2, <2>3
<1> QED
    BY <1>8, <1>9 DEF end

LEMMA ListingKept == Shape /\ Listing /\ [Next]_vars => Listing'
<1> SUFFICES ASSUME Shape, Listing, [Next]_vars PROVE Listing'
    OBVIOUS
<1>1. CASE QueryRepos
    <2>1. conf.repo = All /\ conf' = conf /\ repos' = repos \o ReposPage(conf.reposPerPage)
        BY <1>1 DEF QueryRepos, Shape, Position, world
    <2>2. conf.reposPerPage \in Nat \ {0}
        BY ConfHas DEF Shape, Kinds
    <2>3. Len(repos) \in Nat /\ Len(Owned) \in Nat
        BY ElementsOf, ReportAssumption DEF Shape, Kinds, ReportAssumption
    <2>4. Len(repos') <= Len(Owned) /\ \A i \in 1 .. Len(repos') : repos'[i] = Owned[i]
        <3>1. LET longer == repos \o ReposPage(conf.reposPerPage)
              IN  /\ Len(longer) = IF Len(repos) + conf.reposPerPage <= Len(Owned)
                                     THEN Len(repos) + conf.reposPerPage ELSE Len(Owned)
                  /\ \A i \in 1 .. Len(longer) : longer[i] = Owned[i]
            BY <2>1, <2>2, NextRepos
        <3>2. \A i \in 1 .. Len(repos') : repos'[i] = Owned[i]
            BY <2>1, <3>1
        <3>3. Len(repos') <= Len(Owned)
            BY <2>1, <2>2, <2>3, <3>1
        <3> QED
            BY <3>2, <3>3
    <2> QED
        BY <2>1, <2>4 DEF Listing
<1>2. CASE UNCHANGED <<conf, repos>>
    BY <1>2 DEF Listing
<1>3. QueryRepos \/ UNCHANGED <<conf, repos>>
    BY DEF Next, Update, Interrupt, Tick, QueryFails, Killed, WaitRepos, QueryPullRequests, WaitPage,
           WaitRepo, Write, Exit, world, vars
<1> QED
    BY <1>1, <1>2, <1>3

LEMMA ListingAtFirst == Init => Listing
<1> SUFFICES ASSUME Init PROVE Listing
    OBVIOUS
<1>1. Len(Owned) \in Nat /\ Len(<<>>) = 0
    BY ElementsOf, ReportAssumption DEF ReportAssumption
<1> QED
    BY <1>1 DEF Init, Listing

\* No repository is visited twice.
LEMMA ReposDiffer ==
    ASSUME NoRepoTwice, Shape, Listing, NEW i \in 1 .. Len(repos), NEW j \in 1 .. Len(repos),
           repos[i] = repos[j]
    PROVE  i = j
<1>1. DOMAIN repos = 1 .. Len(repos) /\ Len(repos) \in Nat
    BY ElementsOf DEF Shape, Kinds
<1>2. CASE conf.repo = All
    <2>1. DOMAIN Owned = 1 .. Len(Owned) /\ Len(Owned) \in Nat
        BY ElementsOf, ReportAssumption DEF ReportAssumption
    <2>2. i \in DOMAIN Owned /\ j \in DOMAIN Owned /\ Owned[i] = Owned[j]
        BY <1>1, <1>2, <2>1 DEF Listing
    <2> QED
        BY <2>2, ReportAssumption DEF ReportAssumption
<1>3. CASE conf.repo # All
    BY <1>1, <1>3 DEF Listing, NoRepoTwice, Shape, Kinds
<1> QED
    BY <1>2, <1>3

-----------------------------------------------------------------------------
(***************************************************************************)
(* No pull request twice: of the repository that is being visited, the     *)
(* collected ones were updated at the cursor or later, and a time of       *)
(* update only rises; the next page has earlier ones.                      *)
(***************************************************************************)
Behind ==
    \A n \in ToSet(collected) : \E j \in 1 .. Len(repos) :
        /\ j <= at /\ repos[j] = PR[n].repo
        /\ j = at => cursor # NoCursor /\ updated[n] >= cursor

TwiceInv == Listing /\ Behind /\ NothingTwice

\* A page has nothing that was collected before.
LEMMA PageIsNew ==
    ASSUME NoRepoTwice, Shape, Listing, Behind, pc = "prs",
           NEW n \in Remaining(repos[at]), n \in ToSet(collected)
    PROVE  FALSE
<1>1. /\ PR[n].repo = repos[at] /\ (cursor # NoCursor => updated[n] < cursor)
      /\ updated[n] \in Int /\ cursor \in Int
    BY QueryReads, ReportAssumption DEF Remaining, Shape, Kinds, NoCursor, ReportAssumption
<1>2. PICK j \in 1 .. Len(repos) :
         /\ j <= at /\ repos[j] = PR[n].repo
         /\ j = at => cursor # NoCursor /\ updated[n] >= cursor
    BY DEF Behind
<1>3. at \in 1 .. Len(repos)
    BY DEF Shape, Kinds, Position
<1>4. j = at
    BY <1>1, <1>2, <1>3, ReposDiffer
<1> QED
    BY <1>1, <1>2, <1>4

\* Two lists without repetition and without a common element.
LEMMA ConcatDiffer ==
    ASSUME NEW S, NEW s \in Seq(S), NEW t \in Seq(S),
           \A i, j \in DOMAIN s : s[i] = s[j] => i = j,
           \A i, j \in DOMAIN t : t[i] = t[j] => i = j,
           \A i \in DOMAIN s, j \in DOMAIN t : s[i] # t[j],
           NEW i \in DOMAIN (s \o t), NEW j \in DOMAIN (s \o t), (s \o t)[i] = (s \o t)[j]
    PROVE  i = j
<1>1. /\ DOMAIN s = 1 .. Len(s) /\ DOMAIN t = 1 .. Len(t) /\ Len(s) \in Nat /\ Len(t) \in Nat
      /\ i \in 1 .. Len(s) + Len(t) /\ j \in 1 .. Len(s) + Len(t)
    BY ElementsOf, ConcatProperties
<1>2. \A k \in 1 .. Len(s) + Len(t) :
        \/ k \in DOMAIN s /\ (s \o t)[k] = s[k]
        \/ k - Len(s) \in DOMAIN t /\ k > Len(s) /\ (s \o t)[k] = t[k - Len(s)]
    <2>1. \A k \in 1 .. Len(s) + Len(t) : (s \o t)[k] = IF k <= Len(s) THEN s[k] ELSE t[k - Len(s)]
        BY ConcatProperties
    <2>2. \A k \in 1 .. Len(s) + Len(t) : k \in DOMAIN s \/ (k > Len(s) /\ k - Len(s) \in DOMAIN t)
        BY <1>1
    <2> QED
        BY <1>1, <2>1, <2>2
<1>3. CASE i \in DOMAIN s /\ (s \o t)[i] = s[i]
    BY <1>1, <1>2, <1>3
<1>4. CASE i - Len(s) \in DOMAIN t /\ i > Len(s) /\ (s \o t)[i] = t[i - Len(s)]
    <2>1. j - Len(s) \in DOMAIN t /\ (s \o t)[j] = t[j - Len(s)]
        BY <1>1, <1>2, <1>4
    <2>2. i - Len(s) = j - Len(s)
        BY <1>4, <2>1
    <2> QED
        BY <1>1, <2>2
<1> QED
    BY <1>1, <1>2, <1>3, <1>4

\* A query for pull requests adds a page of what remains of the repository.
LEMMA NextPage ==
    ASSUME NoRepoTwice, Shape, Listing, Behind, QueryPullRequests
    PROVE  \E nodes \in FirstOf(Remaining(repos[at]), conf.prsPerPage) :
             /\ nodes \in Seq(Number) /\ ToSet(nodes) \subseteq Remaining(repos[at])
             /\ \A i, j \in DOMAIN nodes : nodes[i] = nodes[j] => i = j
             /\ nodes # <<>> => /\ Last(nodes) \in Remaining(repos[at])
                                /\ \A n \in Remaining(repos[at]) : n \in ToSet(nodes) <=>
                                                                  updated[n] >= updated[Last(nodes)]
             /\ nodes = <<>> => ToSet(nodes) = {}
             /\ collected' = collected \o nodes
             /\ ToSet(collected') = ToSet(collected) \cup ToSet(nodes)
             /\ ToSet(nodes) \cap ToSet(collected) = {}
             /\ cursor' = IF nodes = <<>> THEN cursor ELSE updated[Last(nodes)]
<1>1. PICK nodes \in FirstOf(Remaining(repos[at]), conf.prsPerPage) :
         /\ nodes \in Seq(Number)
         /\ collected' = collected \o nodes
         /\ cursor' = IF nodes = <<>> THEN cursor ELSE updated[Last(nodes)]
    BY PullRequestsRead
<1>2. /\ nodes \in Seq(Remaining(repos[at]))
      /\ \A i, j \in 1 .. Len(nodes) : nodes[i] = nodes[j] => i = j
      /\ nodes # <<>> => /\ Last(nodes) \in Remaining(repos[at])
                         /\ \A n \in Remaining(repos[at]) : n \in ToSet(nodes) <=>
                                                           updated[n] >= updated[Last(nodes)]
    <2> DEFINE rest == Remaining(repos[at])
               size == conf.prsPerPage
    <2>1. rest \in SUBSET Number /\ size \in Nat \ {0} /\ nodes \in FirstOf(rest, size)
        BY <1>1, QueryReads
    <2> HIDE DEF rest, size
    <2>2. /\ nodes \in Seq(rest)
          /\ \A i, j \in 1 .. Len(nodes) : nodes[i] = nodes[j] => i = j
          /\ nodes # <<>> => /\ Last(nodes) \in rest
                             /\ \A n \in rest : n \in ToSet(nodes) <=>
                                                 updated[n] >= updated[Last(nodes)]
        BY <2>1, QueryReads, PageIsAPrefix
    <2> QED
        BY <2>2 DEF rest
<1>3. ToSet(nodes) \subseteq Remaining(repos[at]) /\ DOMAIN nodes = 1 .. Len(nodes)
    BY <1>2, ElementsOf
<1>4. ToSet(collected') = ToSet(collected) \cup ToSet(nodes)
    BY <1>1, ConcatElements DEF Shape, Kinds
<1>5. nodes = <<>> => ToSet(nodes) = {}
    BY DEF ToSet
<1>6. ToSet(nodes) \cap ToSet(collected) = {}
    BY <1>3, PageIsNew DEF QueryPullRequests
<1> QED
    BY <1>1, <1>2, <1>3, <1>4, <1>5, <1>6

LEMMA TwiceKept ==
    ASSUME NoRepoTwice, Shape, TwiceInv, [Next]_vars
    PROVE  TwiceInv'
<1> SUFFICES (Behind /\ NothingTwice)'
    BY ListingKept DEF TwiceInv
<1> USE DEF TwiceInv
<1>0. /\ updated \in [Number -> Int] /\ ToSet(collected) \subseteq Number
      /\ DOMAIN collected = 1 .. Len(collected)
      /\ at \in Nat /\ cursor \in Int /\ Len(repos) \in Nat
    BY QueryReads, ElementsOf, ReportAssumption DEF Shape, Kinds, NoCursor, ReportAssumption
<1>1. ASSUME UNCHANGED <<updated, repos, at, cursor, collected>> PROVE (Behind /\ NothingTwice)'
    BY <1>1 DEF Behind, NothingTwice
<1>2. ASSUME NEW n \in Number, Update(n) PROVE (Behind /\ NothingTwice)'
    <2>1. /\ UNCHANGED <<repos, at, cursor, collected>>
          /\ updated' = [updated EXCEPT ![n] = Cardinality(Number) + Len(updates')]
          /\ updates' = Append(updates, n)
        BY <1>2 DEF Update
    <2>2. updated \in [Number -> 1 .. Cardinality(Number) + Len(updates)]
        BY DEF Shape, Times
    <2>3. /\ Cardinality(Number) \in Nat /\ Len(updates) \in Nat
          /\ Len(updates') = Len(updates) + 1
        BY <2>1, ElementsOf, AppendProperties, ReportAssumption DEF Shape, Kinds, ReportAssumption
    <2>4. \A m \in Number : updated'[m] >= updated[m] /\ updated'[m] \in Int /\ updated[m] \in Int
        BY <2>1, <2>2, <2>3
    <2>5. Behind'
        BY <1>0, <2>1, <2>4 DEF Behind
    <2> QED
        BY <2>1, <2>5 DEF NothingTwice
<1>3. CASE Interrupt
    BY <1>1, <1>3 DEF Interrupt, world
<1>4. CASE Tick
    BY <1>1, <1>4 DEF Tick, world
<1>5. CASE QueryFails
    BY <1>1, <1>5 DEF QueryFails, Exit, world
<1>6. CASE Killed
    BY <1>1, <1>6 DEF Killed, Exit, world
<1>7. CASE QueryRepos
    <2>1. collected = <<>> /\ collected' = collected
        BY <1>7 DEF QueryRepos, Shape, Position
    <2>2. ToSet(collected') = {} /\ DOMAIN collected' = {}
        BY <2>1 DEF ToSet
    <2> QED
        BY <2>2 DEF Behind, NothingTwice
<1>8. CASE WaitRepos
    BY <1>1, <1>8 DEF WaitRepos, world
<1>9. CASE QueryPullRequests
    <2>1. PICK nodes \in FirstOf(Remaining(repos[at]), conf.prsPerPage) :
             /\ nodes \in Seq(Number) /\ ToSet(nodes) \subseteq Remaining(repos[at])
             /\ \A i, j \in DOMAIN nodes : nodes[i] = nodes[j] => i = j
             /\ nodes # <<>> => /\ Last(nodes) \in Remaining(repos[at])
                                /\ \A n \in Remaining(repos[at]) : n \in ToSet(nodes) <=>
                                                                  updated[n] >= updated[Last(nodes)]
             /\ nodes = <<>> => ToSet(nodes) = {}
             /\ collected' = collected \o nodes
             /\ ToSet(collected') = ToSet(collected) \cup ToSet(nodes)
             /\ ToSet(nodes) \cap ToSet(collected) = {}
             /\ cursor' = IF nodes = <<>> THEN cursor ELSE updated[Last(nodes)]
        BY <1>9, NextPage
    <2>2. UNCHANGED <<updated, repos, at>> /\ pc = "prs"
        BY <1>9 DEF QueryPullRequests, world
    <2>6. NothingTwice'
        <3>1. \A i \in DOMAIN collected, j \in DOMAIN nodes : collected[i] # nodes[j]
            BY <2>1 DEF ToSet
        <3>2. collected \in Seq(Number)
            BY DEF Shape, Kinds
        <3> QED
            BY <2>1, <3>1, <3>2, ConcatDiffer DEF NothingTwice
    <2>7. Behind'
        <3>1. ASSUME NEW n \in ToSet(nodes)
              PROVE  /\ at \in 1 .. Len(repos) /\ repos[at] = PR[n].repo
                     /\ cursor' # NoCursor /\ updated[n] >= cursor'
            <4>1. nodes # <<>> /\ n \in Remaining(repos[at])
                BY <2>1, <3>1
            <4>2. cursor' = updated[Last(nodes)] /\ updated[n] >= cursor'
                BY <2>1, <3>1, <4>1
            <4>3. cursor' # NoCursor
                BY <2>1, <4>1, <4>2, QueryReads DEF NoCursor
            <4>4. PR[n].repo = repos[at]
                BY <4>1 DEF Remaining
            <4> QED
                BY <2>2, <4>2, <4>3, <4>4 DEF Shape, Kinds, Position
        <3>2. ASSUME cursor # NoCursor PROVE cursor' # NoCursor /\ cursor' <= cursor /\ cursor' \in Int
            <4>1. CASE nodes = <<>>
                BY <1>0, <2>1, <3>2, <4>1
            <4>2. CASE nodes # <<>>
                <5>1. Last(nodes) \in Remaining(repos[at]) /\ cursor' = updated[Last(nodes)]
                    BY <2>1, <4>2
                <5>2. updated[Last(nodes)] < cursor
                    BY <3>2, <5>1 DEF Remaining
                <5>3. updated[Last(nodes)] \in Int /\ updated[Last(nodes)] >= 1
                    BY <5>1, QueryReads
                <5> QED
                    BY <1>0, <5>1, <5>2, <5>3 DEF NoCursor
            <4> QED
                BY <4>1, <4>2
        <3>3. ASSUME NEW n \in ToSet(collected)
              PROVE  \E j \in 1 .. Len(repos) :
                       /\ j <= at /\ repos[j] = PR[n].repo
                       /\ j = at => cursor' # NoCursor /\ updated[n] >= cursor'
            BY <1>0, <3>2, <3>3 DEF Behind
        <3> QED
            BY <1>0, <2>1, <2>2, <3>1, <3>3 DEF Behind
    <2> QED
        BY <2>6, <2>7
<1>10. CASE WaitPage
    BY <1>1, <1>10 DEF WaitPage, world
<1>11. CASE WaitRepo
    <2>1. UNCHANGED <<updated, repos, collected>> /\ at' = at + 1
        BY <1>11 DEF WaitRepo, world
    <2>2. Behind'
        BY <1>0, <2>1 DEF Behind
    <2> QED
        BY <2>1, <2>2 DEF NothingTwice
<1>12. CASE Write
    BY <1>1, <1>12 DEF Write, Exit, world
<1>13. CASE UNCHANGED vars
    BY <1>1, <1>13 DEF vars
<1> QED
    BY <1>2, <1>3, <1>4, <1>5, <1>6, <1>7, <1>8, <1>9, <1>10, <1>11, <1>12, <1>13 DEF Next

LEMMA TwiceAtFirst == Init => TwiceInv
<1> SUFFICES ASSUME Init PROVE Behind /\ NothingTwice
    BY ListingAtFirst DEF TwiceInv
<1>1. ToSet(collected) = {} /\ DOMAIN collected = {}
    BY DEF Init, ToSet
<1> QED
    BY <1>1 DEF Behind, NothingTwice

\* Whatever is updated while the command pages through the repositories, no
\* pull request is collected twice.
THEOREM NothingIsReadTwice == ASSUME NoRepoTwice PROVE Spec => []NothingTwice
<1>1. Init => Shape /\ TwiceInv
    BY ShapeAtFirst, TwiceAtFirst
<1>2. Shape /\ TwiceInv /\ [Next]_vars => (Shape /\ TwiceInv)'
    BY NoRepoTwice, ShapeKept, TwiceKept
<1>3. TwiceInv => NothingTwice
    BY DEF TwiceInv
<1> QED
    BY <1>1, <1>2, <1>3, PTL DEF Spec

-----------------------------------------------------------------------------
(***************************************************************************)
(* What the pages amount to.  All of them but the last one are full, so    *)
(* that the number of a page says how much was read; what was not updated  *)
(* since the command began was either read or comes after the cursor.      *)
(***************************************************************************)
Finished(repo) ==
    \/ Todo(repo) \ ToSet(updates) \subseteq Of(repo, collected)
    \/ conf.maxPRs > 0 /\ Cardinality(Of(repo, collected)) = conf.maxPRs

Visited == \A j \in 1 .. Len(repos) : j < at => Finished(repos[j])

\* What was not updated was read, or the next page is where it comes.
Passed ==
    pc \in {"prs", "pageWait"} =>
        \A n \in Todo(repos[at]) \ ToSet(updates) :
            n \in ToSet(collected) \/ cursor = NoCursor \/ updated[n] < cursor

FullPages ==
    /\ pc = "prs" => Cardinality(Of(repos[at], collected)) = (page - 1) * conf.prsPerPage
    /\ pc = "pageWait" => Cardinality(Of(repos[at], collected)) = page * conf.prsPerPage

Visiting == Passed /\ FullPages /\ (pc = "repoWait" => Finished(repos[at]))

AllListed == conf.repo = All => repos = Owned \/ (conf.maxRepos > 0 /\ Len(repos) = conf.maxRepos)

ListedSoFar ==
    /\ pc \in {"repos", "reposWait"} => Len(repos) = (page - 1) * conf.reposPerPage
    /\ pc \in {"prs", "pageWait", "repoWait", "write"} \/ result = "ok" => AllListed

Ending ==
    /\ pc = "write" \/ result = "ok" => at = Len(repos) + 1
    /\ result = "ok" => pc = "done" /\ out = collected

CompleteInv == Visited /\ Visiting /\ ListedSoFar /\ Ending

\* A limit of whole pages.
Whole == conf.maxPRs > 0 /\ conf.maxPRs % conf.prsPerPage = 0

WithinLimit == \A j \in 1 .. Len(repos) : Cardinality(Of(repos[j], collected)) <= conf.maxPRs

PageWithinLimit ==
    /\ pc \in {"prs", "pageWait", "repoWait"} => page * conf.prsPerPage <= conf.maxPRs
    /\ pc = "pageWait" => page * conf.prsPerPage # conf.maxPRs

LimitInv == Whole => WithinLimit /\ PageWithinLimit

LEMMA OfIsFinite ==
    ASSUME NEW repo, NEW rows \in Seq(Number)
    PROVE  IsFiniteSet(Of(repo, rows)) /\ Cardinality(Of(repo, rows)) \in Nat
<1>1. IsFiniteSet(Number)
    BY FS_Interval, ReportAssumption DEF ReportAssumption
<1>2. Of(repo, rows) \in SUBSET Number
    BY ElementsOf DEF Of
<1> QED
    BY <1>1, <1>2, FS_Subset, FS_CardinalityType

\* What a query adds to the collected pull requests of the repository.
LEMMA PageCounts ==
    ASSUME NoRepoTwice, Shape, Listing, Behind, QueryPullRequests
    PROVE  LET full == HasNextPage(Remaining(repos[at]), conf.prsPerPage)
               had  == Cardinality(Of(repos[at], collected))
               has  == Cardinality(Of(repos[at], collected'))
           IN  /\ \A repo : repo # repos[at] => Of(repo, collected') = Of(repo, collected)
               /\ ToSet(collected) \subseteq ToSet(collected')
               /\ had \in Nat /\ has \in Nat /\ has <= had + conf.prsPerPage
               /\ full => /\ has = had + conf.prsPerPage
                          /\ \A n \in Remaining(repos[at]) :
                                n \in ToSet(collected') \/ updated[n] < cursor'
               /\ ~full => Remaining(repos[at]) \subseteq ToSet(collected')
<1> DEFINE rest == Remaining(repos[at])
           size == conf.prsPerPage
<1>1. PICK nodes \in FirstOf(rest, size) :
         /\ nodes \in Seq(Number) /\ ToSet(nodes) \subseteq rest
         /\ \A i, j \in DOMAIN nodes : nodes[i] = nodes[j] => i = j
         /\ nodes # <<>> => /\ Last(nodes) \in rest
                            /\ \A n \in rest : n \in ToSet(nodes) <=> updated[n] >= updated[Last(nodes)]
         /\ nodes = <<>> => ToSet(nodes) = {}
         /\ collected' = collected \o nodes
         /\ ToSet(collected') = ToSet(collected) \cup ToSet(nodes)
         /\ ToSet(nodes) \cap ToSet(collected) = {}
         /\ cursor' = IF nodes = <<>> THEN cursor ELSE updated[Last(nodes)]
    BY NextPage
<1>2. /\ rest \in SUBSET Number /\ size \in Nat \ {0}
      /\ updated \in [Number -> Int] /\ \A m, n \in Number : updated[m] = updated[n] => m = n
    BY QueryReads
<1>3. \A n \in rest : PR[n].repo = repos[at]
    BY DEF Remaining
<1>4. collected \in Seq(Number) /\ collected' \in Seq(Number)
    BY <1>1, ConcatProperties DEF Shape, Kinds
<1> HIDE DEF rest, size
<1>5. /\ Cardinality(rest) \in Nat
      /\ Len(nodes) = IF size <= Cardinality(rest) THEN size ELSE Cardinality(rest)
    BY <1>1, <1>2, PageIsAPrefix
<1>6. Of(repos[at], collected') = Of(repos[at], collected) \cup ToSet(nodes)
    BY <1>1, <1>3 DEF Of
<1>7. Cardinality(Of(repos[at], collected')) = Cardinality(Of(repos[at], collected)) + Len(nodes)
    <2>1. Of(repos[at], collected) \cap ToSet(nodes) = {}
        BY <1>1 DEF Of
    <2>2. DOMAIN nodes = 1 .. Len(nodes) /\ Len(nodes) \in Nat
        BY <1>1, ElementsOf
    <2>3. IsFiniteSet(ToSet(nodes)) /\ Cardinality(ToSet(nodes)) = Len(nodes)
        BY <1>1, <2>2, CountDistinct
    <2>4. IsFiniteSet(Of(repos[at], collected)) /\ Cardinality(Of(repos[at], collected)) \in Nat
        BY <1>4, OfIsFinite
    <2>5. Cardinality({}) = 0
        BY FS_EmptySet
    <2>6. Cardinality(Of(repos[at], collected) \cup ToSet(nodes))
            = Cardinality(Of(repos[at], collected)) + Cardinality(ToSet(nodes))
              - Cardinality(Of(repos[at], collected) \cap ToSet(nodes))
        BY <2>3, <2>4, FS_Union
    <2>7. Cardinality(Of(repos[at], collected) \cup ToSet(nodes))
            = Cardinality(Of(repos[at], collected)) + Len(nodes) - 0
        BY <2>1, <2>3, <2>5, <2>6
    <2> DEFINE had == Cardinality(Of(repos[at], collected))
    <2>8. had \in Nat /\ Cardinality(Of(repos[at], collected')) = had + Len(nodes) - 0
        BY <1>6, <2>4, <2>7
    <2> HIDE DEF had
    <2>9. Cardinality(Of(repos[at], collected')) = had + Len(nodes)
        BY <2>2, <2>8
    <2> QED
        BY <2>9 DEF had
<1>8. ASSUME NEW repo, repo # repos[at] PROVE Of(repo, collected') = Of(repo, collected)
    BY <1>1, <1>3, <1>8 DEF Of
<1>9. Cardinality(Of(repos[at], collected)) \in Nat /\ Cardinality(Of(repos[at], collected')) \in Nat
    BY <1>4, OfIsFinite
<1>10. Cardinality(Of(repos[at], collected')) <= Cardinality(Of(repos[at], collected)) + size
    BY <1>2, <1>5, <1>7, <1>9
<1>11. ASSUME HasNextPage(rest, size)
       PROVE  /\ Cardinality(Of(repos[at], collected')) = Cardinality(Of(repos[at], collected)) + size
              /\ \A n \in rest : n \in ToSet(collected') \/ updated[n] < cursor'
    <2>1. Len(nodes) = size /\ size > 0
        BY <1>2, <1>5, <1>11 DEF HasNextPage
    <2>2. nodes # <<>>
        BY <1>1, <2>1, ElementsOf
    <2>3. cursor' = updated[Last(nodes)] /\ Last(nodes) \in rest
        BY <1>1, <2>2
    <2>4. \A n \in rest : updated[n] \in Int /\ updated[Last(nodes)] \in Int
        BY <1>2, <2>3
    <2>5. \A n \in rest : n \in ToSet(collected') \/ updated[n] < cursor'
        BY <1>1, <2>2, <2>3, <2>4
    <2> QED
        BY <1>7, <2>1, <2>5
<1>12. ASSUME ~HasNextPage(rest, size) PROVE rest \subseteq ToSet(collected')
    BY <1>1, <1>2, <1>12, LastPageHasAll
<1> QED
    BY <1>1, <1>8, <1>9, <1>10, <1>11, <1>12 DEF rest, size

\* Nothing was collected of a repository that comes later.
LEMMA NothingAhead ==
    ASSUME NoRepoTwice, Shape, Listing, Behind, NEW j \in 1 .. Len(repos),
           j > at \/ (j = at /\ cursor = NoCursor)
    PROVE  Of(repos[j], collected) = {} /\ Cardinality(Of(repos[j], collected)) = 0
<1>1. ASSUME NEW n \in Of(repos[j], collected) PROVE FALSE
    <2>1. n \in ToSet(collected) /\ PR[n].repo = repos[j]
        BY DEF Of
    <2>2. PICK k \in 1 .. Len(repos) : /\ k <= at /\ repos[k] = PR[n].repo
                                       /\ k = at => cursor # NoCursor
        BY <2>1 DEF Behind
    <2>3. k = j
        BY <2>1, <2>2, ReposDiffer
    <2>4. at \in Nat /\ Len(repos) \in Nat
        BY ElementsOf DEF Shape, Kinds
    <2> QED
        BY <2>2, <2>3, <2>4
<1>2. Of(repos[j], collected) = {}
    BY <1>1
<1> QED
    BY <1>2, FS_EmptySet

-----------------------------------------------------------------------------
(***************************************************************************)
(* A limit of whole pages.                                                 *)
(***************************************************************************)
LEMMA OnePageMore ==
    ASSUME NEW p \in Nat \ {0}, NEW s \in Nat \ {0}
    PROVE  /\ (p - 1) * s \in Nat /\ p * s \in Nat \ {0} /\ (p + 1) * s = p * s + s
           /\ (p - 1) * s + s = p * s /\ (p + 1 - 1) * s = p * s /\ 1 * s = s /\ (1 - 1) * s = 0
<1>1. \A n \in Nat : n * s \in Nat /\ (n + 1) * s = n * s + s
    OBVIOUS
<1>2. PICK n \in Nat : p = n + 1
    <2>1. p - 1 \in Nat /\ p = (p - 1) + 1
        OBVIOUS
    <2> QED
        BY <2>1
<1>3. p - 1 = n /\ p + 1 - 1 = p /\ 1 - 1 = 0
    BY <1>2
<1>4. n * s \in Nat /\ p * s = n * s + s /\ (p + 1) * s = p * s + s
    BY <1>1, <1>2
<1> QED
    BY <1>3, <1>4

\* If fewer whole pages than the limit were read, the next one fits.
LEMMA NextPageFits ==
    ASSUME NEW p \in Nat, NEW s \in Nat \ {0}, NEW m \in Nat, m % s = 0, p * s < m
    PROVE  (p + 1) * s <= m
<1>1. PICK q \in Nat : m = q * s
    <2>1. m \div s \in Nat /\ m = s * (m \div s) + (m % s)
        OBVIOUS
    <2>2. m = (m \div s) * s
        BY <2>1
    <2> QED
        BY <2>1, <2>2
<1>2. p < q
    <2>1. SUFFICES ASSUME q <= p PROVE FALSE
        OBVIOUS
    <2>2. PICK d \in Nat : p = q + d
        <3>1. p - q \in Nat /\ p = q + (p - q)
            BY <2>1
        <3> QED
            BY <3>1
    <2>3. p * s = q * s + d * s /\ d * s >= 0
        BY <2>2
    <2> QED
        BY <1>1, <2>3
<1>3. PICK d \in Nat : q = p + 1 + d
    <2>1. q - p - 1 \in Nat /\ q = p + 1 + (q - p - 1)
        BY <1>2
    <2> QED
        BY <2>1
<1>4. q * s = (p + 1) * s + d * s /\ d * s \in Nat /\ (p + 1) * s \in Nat
    BY <1>3
<1> QED
    BY <1>1, <1>4

LEMMA LimitKept ==
    ASSUME NoRepoTwice, Shape, TwiceInv, FullPages, LimitInv, [Next]_vars
    PROVE  LimitInv'
<1> SUFFICES ASSUME Whole' PROVE WithinLimit' /\ PageWithinLimit'
    BY DEF LimitInv
<1>0. /\ conf' = conf /\ WithinLimit /\ PageWithinLimit
      /\ conf.maxPRs \in Nat \ {0} /\ conf.prsPerPage \in Nat \ {0}
      /\ conf.maxPRs % conf.prsPerPage = 0
    <2>1. conf' = conf
        BY DEF Next, Update, Interrupt, Tick, QueryFails, Killed, QueryRepos, WaitRepos,
               QueryPullRequests, WaitPage, WaitRepo, Write, Exit, world, vars
    <2>2. Whole
        BY <2>1 DEF Whole
    <2>3. conf.maxPRs \in Int /\ conf.prsPerPage \in Nat \ {0}
        BY ConfHas DEF Shape, Kinds
    <2> QED
        BY <2>1, <2>2, <2>3 DEF Whole, LimitInv
<1>a. /\ Listing /\ Behind /\ page \in Nat \ {0} /\ at \in Nat /\ Len(repos) \in Nat
      /\ pc \in {"prs", "pageWait", "repoWait"} => at \in 1 .. Len(repos)
    BY ElementsOf DEF TwiceInv, Shape, Kinds, Position
<1>b. conf.prsPerPage <= conf.maxPRs
    <2>1. 0 * conf.prsPerPage = 0 /\ (0 + 1) * conf.prsPerPage = conf.prsPerPage
        BY <1>0
    <2>2. 0 * conf.prsPerPage < conf.maxPRs
        BY <1>0, <2>1
    <2> QED
        BY <1>0, <2>1, <2>2, NextPageFits
<1>1. ASSUME UNCHANGED <<pc, repos, page, collected>> PROVE WithinLimit' /\ PageWithinLimit'
    BY <1>0, <1>1 DEF WithinLimit, PageWithinLimit
<1>2. ASSUME UNCHANGED <<repos, collected>>, pc' \in {"done", "repos"} PROVE WithinLimit' /\ PageWithinLimit'
    BY <1>0, <1>2 DEF WithinLimit, PageWithinLimit
<1>3. ASSUME NEW n \in Number, Update(n) PROVE WithinLimit' /\ PageWithinLimit'
    BY <1>1, <1>3 DEF Update
<1>4. CASE Interrupt
    BY <1>1, <1>4 DEF Interrupt
<1>5. CASE Tick
    BY <1>1, <1>5 DEF Tick
<1>6. CASE QueryFails \/ Killed \/ Write
    BY <1>2, <1>6 DEF QueryFails, Killed, Write, Exit
<1>7. CASE QueryRepos
    <2>1. /\ collected' = <<>> /\ pc' \in {"reposWait", "prs", "write"}
          /\ pc' = "prs" => page' = 1
        BY <1>7 DEF QueryRepos, Begin, Shape, Position
    <2>2. \A repo : Of(repo, collected') = {}
        BY <2>1 DEF Of, ToSet
    <2>3. WithinLimit'
        <3>1. Cardinality({}) = 0
            BY FS_EmptySet
        <3>2. 0 <= conf.maxPRs
            BY <1>0
        <3>3. ASSUME NEW j \in 1 .. Len(repos') PROVE Cardinality(Of(repos'[j], collected')) <= conf'.maxPRs
            <4>1. Of(repos'[j], collected') = {}
                BY <2>2
            <4> QED
                BY <1>0, <3>1, <3>2, <4>1
        <3> QED
            BY <3>3 DEF WithinLimit
    <2>4. 1 * conf.prsPerPage = conf.prsPerPage
        BY <1>0
    <2> QED
        BY <1>0, <1>b, <2>1, <2>3, <2>4 DEF PageWithinLimit
<1>8. CASE WaitRepos
    BY <1>2, <1>8 DEF WaitRepos
<1>9. CASE QueryPullRequests
    <2>1. /\ UNCHANGED <<repos, at, page>> /\ pc = "prs" /\ pc' \in {"pageWait", "repoWait"}
          /\ pc' = "pageWait" => page * conf.prsPerPage # conf.maxPRs
        BY <1>9 DEF QueryPullRequests, Enough, world
    <2>2. /\ \A repo : repo # repos[at] => Of(repo, collected') = Of(repo, collected)
          /\ Cardinality(Of(repos[at], collected')) \in Nat
          /\ Cardinality(Of(repos[at], collected'))
                <= Cardinality(Of(repos[at], collected)) + conf.prsPerPage
        BY <1>9, <1>a, PageCounts
    <2>3. Cardinality(Of(repos[at], collected)) + conf.prsPerPage = page * conf.prsPerPage
        <3>1. Cardinality(Of(repos[at], collected)) = (page - 1) * conf.prsPerPage
            BY <2>1 DEF FullPages
        <3> QED
            BY <1>0, <1>a, <3>1, OnePageMore
    <2>4. page * conf.prsPerPage <= conf.maxPRs
        BY <1>0, <2>1 DEF PageWithinLimit
    <2>5. Cardinality(Of(repos[at], collected')) <= conf.maxPRs
        <3>1. page * conf.prsPerPage \in Nat
            BY <1>0, <1>a, OnePageMore
        <3>2. Cardinality(Of(repos[at], collected')) <= page * conf.prsPerPage
            BY <2>2, <2>3
        <3> QED
            BY <1>0, <2>2, <2>4, <3>1, <3>2
    <2>6. WithinLimit'
        BY <1>0, <2>1, <2>2, <2>5 DEF WithinLimit
    <2>7. PageWithinLimit'
        BY <1>0, <2>1, <2>4 DEF PageWithinLimit
    <2> QED
        BY <2>6, <2>7
<1>10. CASE WaitPage
    <2>1. UNCHANGED <<repos, collected>> /\ pc = "pageWait" /\ pc' = "prs" /\ page' = page + 1
        BY <1>10 DEF WaitPage
    <2>2. page * conf.prsPerPage < conf.maxPRs
        <3>1. page * conf.prsPerPage <= conf.maxPRs /\ page * conf.prsPerPage # conf.maxPRs
            BY <1>0, <2>1 DEF PageWithinLimit
        <3>2. page * conf.prsPerPage \in Nat
            BY <1>0, <1>a, OnePageMore
        <3> QED
            BY <1>0, <3>1, <3>2
    <2>3. page' * conf.prsPerPage <= conf.maxPRs
        BY <1>0, <1>a, <2>1, <2>2, NextPageFits
    <2> QED
        BY <1>0, <2>1, <2>3 DEF WithinLimit, PageWithinLimit
<1>11. CASE WaitRepo
    <2>1. UNCHANGED <<repos, collected>> /\ pc' \in {"prs", "write"} /\ page' = 1
        BY <1>11 DEF WaitRepo
    <2>2. 1 * conf.prsPerPage = conf.prsPerPage
        BY <1>0
    <2> QED
        BY <1>0, <1>b, <2>1, <2>2 DEF WithinLimit, PageWithinLimit
<1>13. CASE UNCHANGED vars
    BY <1>1, <1>13 DEF vars
<1> QED
    BY <1>3, <1>4, <1>5, <1>6, <1>7, <1>8, <1>9, <1>10, <1>11, <1>13 DEF Next

-----------------------------------------------------------------------------
(***************************************************************************)
(* A report that was written is complete.                                  *)
(***************************************************************************)

\* What is finished stays so, unless more is read of it.
LEMMA FinishedStays ==
    ASSUME NEW repo, conf' = conf, ToSet(updates) \subseteq ToSet(updates'),
           Of(repo, collected') = Of(repo, collected), Finished(repo)
    PROVE  Finished(repo)'
BY DEF Finished

\* The end of the page of repositories.
LEMMA ListedKept ==
    ASSUME Shape, Listing, ListedSoFar, Ending, QueryRepos
    PROVE  ListedSoFar'
<1>1. /\ conf.repo = All /\ conf' = conf /\ pc = "repos" /\ result' = result
      /\ repos' = repos \o ReposPage(conf.reposPerPage)
      /\ \/ /\ page * conf.reposPerPage = conf.maxRepos \/ Len(repos') = Len(Owned)
            /\ pc' \in {"prs", "write"}
         \/ /\ page * conf.reposPerPage # conf.maxRepos /\ Len(repos') # Len(Owned)
            /\ pc' = "reposWait" /\ page' = page + 1
    BY DEF QueryRepos, Begin, Enough, Shape, Position, world
<1>2. /\ conf.reposPerPage \in Nat \ {0} /\ page \in Nat \ {0} /\ conf.maxRepos \in Int
      /\ Len(repos) \in Nat /\ Len(Owned) \in Nat
    BY ConfHas, ElementsOf, ReportAssumption DEF Shape, Kinds, ReportAssumption
<1>3. /\ Len(repos') = IF Len(repos) + conf.reposPerPage <= Len(Owned)
                         THEN Len(repos) + conf.reposPerPage ELSE Len(Owned)
      /\ \A i \in 1 .. Len(repos') : repos'[i] = Owned[i]
    <2>1. LET longer == repos \o ReposPage(conf.reposPerPage)
          IN  /\ Len(longer) = IF Len(repos) + conf.reposPerPage <= Len(Owned)
                                 THEN Len(repos) + conf.reposPerPage ELSE Len(Owned)
              /\ \A i \in 1 .. Len(longer) : longer[i] = Owned[i]
        BY <1>1, <1>2, NextRepos
    <2> QED
        BY <1>1, <2>1
<1>4. /\ Len(repos) + conf.reposPerPage = page * conf.reposPerPage
      /\ (page + 1 - 1) * conf.reposPerPage = page * conf.reposPerPage
      /\ page * conf.reposPerPage \in Nat \ {0}
    BY <1>1, <1>2, OnePageMore DEF ListedSoFar
<1>5. Len(repos') = Len(Owned) => repos' = Owned
    <2>1. Owned \in Seq(ToSet(Owned)) /\ repos' \in Seq(ToSet(Owned))
        BY <1>1, <1>2, ReposGrow, ReportAssumption DEF ReportAssumption
    <2> QED
        BY <1>3, <2>1, SeqEqual
<1>6. Len(repos') # Len(Owned) => Len(repos') = page * conf.reposPerPage
    BY <1>3, <1>4
<1>7. pc' = "reposWait" => Len(repos') = (page' - 1) * conf'.reposPerPage
    <2>1. SUFFICES ASSUME pc' = "reposWait" PROVE Len(repos') = (page' - 1) * conf'.reposPerPage
        OBVIOUS
    <2>2. Len(repos') = page * conf.reposPerPage /\ page' = page + 1
        BY <1>1, <1>6, <2>1
    <2>3. (page' - 1) * conf'.reposPerPage = (page + 1 - 1) * conf.reposPerPage
        <3>1. page' - 1 = page + 1 - 1
            BY <1>2, <2>2
        <3>2. conf' = conf
            BY <1>1
        <3> QED
            BY <3>1, <3>2, Zenon
    <2> QED
        BY <1>4, <2>2, <2>3
<1>8. AllListed' \/ pc' = "reposWait"
    <2>1. CASE Len(repos') = Len(Owned)
        BY <1>5, <2>1 DEF AllListed
    <2>2. CASE Len(repos') # Len(Owned) /\ pc' # "reposWait"
        <3>1. Len(repos') = conf.maxRepos
            BY <1>1, <1>6, <2>2
        <3>2. conf.maxRepos > 0
            BY <1>1, <1>4, <2>2
        <3> QED
            BY <1>1, <3>1, <3>2 DEF AllListed
    <2> QED
        BY <2>1, <2>2
<1>9. result' # "ok"
    BY <1>1 DEF Ending
<1> QED
    BY <1>1, <1>7, <1>8, <1>9 DEF ListedSoFar

\* An update takes its pull request out of what the report promises.
LEMMA UpdateSparesOthers ==
    ASSUME Shape, NEW n \in Number, Update(n)
    PROVE  /\ UNCHANGED <<conf, pc, repos, at, page, cursor, collected, result, out>>
           /\ ToSet(updates) \subseteq ToSet(updates')
           /\ \A m \in Number \ ToSet(updates') : updated'[m] = updated[m]
<1>1. /\ UNCHANGED <<conf, pc, repos, at, page, cursor, collected, result, out>>
      /\ updates' = Append(updates, n) /\ updates \in Seq(Number)
      /\ updated' = [updated EXCEPT ![n] = Cardinality(Number) + Len(updates')]
      /\ updated \in [Number -> Int]
    BY QueryReads DEF Update, Shape, Kinds
<1>2. ToSet(Append(updates, n)) = ToSet(updates) \cup {n}
    BY <1>1, AppendElements
<1> QED
    BY <1>1, <1>2

\* What one query does to the repository that is being visited.
LEMMA QueryVisits ==
    ASSUME NoRepoTwice, Shape, TwiceInv, CompleteInv, QueryPullRequests
    PROVE  Visited' /\ Visiting'
<1>0. /\ UNCHANGED <<conf, updated, updates, repos, at, page>> /\ pc = "prs"
      /\ pc' = IF ~HasNextPage(Remaining(repos[at]), conf.prsPerPage) \/ page * conf.prsPerPage = conf.maxPRs
                 THEN "repoWait" ELSE "pageWait"
    BY DEF QueryPullRequests, Enough, world
<1>1. /\ at \in 1 .. Len(repos) /\ Len(repos) \in Nat /\ page \in Nat \ {0}
      /\ conf.prsPerPage \in Nat \ {0} /\ conf.maxPRs \in Int
      /\ cursor \in Int /\ updated \in [Number -> Int]
    BY <1>0, QueryReads, ConfHas, ElementsOf, ReportAssumption
       DEF Shape, Kinds, Position, NoCursor, ReportAssumption
<1> DEFINE full == HasNextPage(Remaining(repos[at]), conf.prsPerPage)
           had  == Cardinality(Of(repos[at], collected))
           has  == Cardinality(Of(repos[at], collected'))
<1>2. /\ \A repo : repo # repos[at] => Of(repo, collected') = Of(repo, collected)
      /\ ToSet(collected) \subseteq ToSet(collected')
      /\ full => /\ has = had + conf.prsPerPage
                 /\ \A n \in Remaining(repos[at]) : n \in ToSet(collected') \/ updated[n] < cursor'
      /\ ~full => Remaining(repos[at]) \subseteq ToSet(collected')
    BY PageCounts DEF TwiceInv
<1>3. full => has = page * conf.prsPerPage
    <2>1. had = (page - 1) * conf.prsPerPage
        BY <1>0 DEF CompleteInv, Visiting, FullPages
    <2>2. (page - 1) * conf.prsPerPage + conf.prsPerPage = page * conf.prsPerPage
        BY <1>1, OnePageMore
    <2> QED
        BY <1>2, <2>1, <2>2
<1>4. \A n \in Todo(repos[at]) \ ToSet(updates) : n \in ToSet(collected) \/ n \in Remaining(repos[at])
    BY <1>0 DEF CompleteInv, Visiting, Passed, Todo, Remaining
<1> HIDE DEF full, had, has
<1>5. Visited'
    <2> SUFFICES ASSUME NEW j \in 1 .. Len(repos), j < at PROVE Finished(repos[j])'
        BY <1>0 DEF Visited
    <2>1. repos[j] # repos[at]
        BY <1>1, ReposDiffer DEF TwiceInv
    <2>2. Of(repos[j], collected') = Of(repos[j], collected)
        BY <1>2, <2>1
    <2>3. Finished(repos[j])
        BY <1>1 DEF CompleteInv, Visited
    <2> QED
        BY <1>0, <2>2, <2>3 DEF Finished
<1>6. Passed'
    <2> SUFFICES ASSUME pc' = "pageWait", NEW n \in Todo(repos[at]) \ ToSet(updates)
                 PROVE  n \in ToSet(collected') \/ cursor' = NoCursor \/ updated[n] < cursor'
        BY <1>0 DEF Passed
    <2>1. full
        BY <1>0 DEF full
    <2> QED
        BY <1>2, <1>4, <2>1
<1>7. FullPages'
    <2>1. pc' = "pageWait" => full
        BY <1>0 DEF full
    <2> QED
        BY <1>0, <1>3, <2>1 DEF FullPages, has
<1>8. pc' = "repoWait" => Finished(repos[at])'
    <2> SUFFICES ASSUME pc' = "repoWait" PROVE Finished(repos[at])'
        OBVIOUS
    <2>1. CASE ~full
        <3>1. \A n \in Todo(repos[at]) \ ToSet(updates) : n \in Of(repos[at], collected')
            BY <1>2, <1>4, <2>1 DEF Of, Todo
        <3> QED
            BY <1>0, <3>1 DEF Finished
    <2>2. CASE full
        <3>1. page * conf.prsPerPage = conf.maxPRs
            BY <1>0, <2>2 DEF full
        <3>2. conf.maxPRs > 0
            BY <1>1, <3>1, OnePageMore
        <3> QED
            BY <1>0, <1>3, <2>2, <3>1, <3>2 DEF Finished, has
    <2> QED
        BY <2>1, <2>2
<1> QED
    BY <1>0, <1>5, <1>6, <1>7, <1>8 DEF Visiting

LEMMA CompleteKept ==
    ASSUME NoRepoTwice, Shape, TwiceInv, CompleteInv, [Next]_vars
    PROVE  CompleteInv'
<1>0. /\ Visited /\ Visiting /\ ListedSoFar /\ Ending /\ Listing /\ Behind
      /\ at \in Nat \ {0} /\ page \in Nat \ {0} /\ Len(repos) \in Nat
      /\ conf.prsPerPage \in Nat \ {0}
    BY ConfHas, ElementsOf DEF CompleteInv, TwiceInv, Shape, Kinds
<1>1. ASSUME UNCHANGED <<conf, updates, updated, pc, repos, at, page, cursor, collected, result, out>>
      PROVE  CompleteInv'
    BY <1>0, <1>1 DEF CompleteInv, Visited, Visiting, Passed, FullPages, Finished, ListedSoFar, AllListed, Ending
<1>2. ASSUME NEW n \in Number, Update(n) PROVE CompleteInv'
    <2>1. /\ UNCHANGED <<conf, pc, repos, at, page, cursor, collected, result, out>>
          /\ ToSet(updates) \subseteq ToSet(updates')
          /\ \A m \in Number \ ToSet(updates') : updated'[m] = updated[m]
        BY <1>2, UpdateSparesOthers
    <2>2. \A repo : Finished(repo) => Finished(repo)'
        BY <2>1 DEF Finished
    <2>3. Visited'
        BY <1>0, <2>1, <2>2 DEF Visited
    <2>4. pc' = "repoWait" => Finished(repos[at])'
        BY <1>0, <2>1, <2>2 DEF Visiting
    <2>5. Passed' /\ FullPages'
        BY <1>0, <2>1 DEF Visiting, Passed, FullPages, Todo
    <2>6. ListedSoFar' /\ Ending'
        BY <1>0, <2>1 DEF ListedSoFar, AllListed, Ending
    <2> QED
        BY <2>1, <2>3, <2>4, <2>5, <2>6 DEF CompleteInv, Visiting
<1>3. CASE Interrupt
    BY <1>1, <1>3 DEF Interrupt, world
<1>4. CASE Tick
    BY <1>1, <1>4 DEF Tick, world
<1>5. CASE QueryFails \/ Killed
    <2>1. /\ UNCHANGED <<conf, updates, repos, at, collected>>
          /\ pc' = "done" /\ result' \in {"error", "killed"}
        BY <1>5 DEF QueryFails, Killed, Exit, world
    <2> QED
        BY <1>0, <2>1 DEF CompleteInv, Visited, Visiting, Passed, FullPages, Finished, ListedSoFar, Ending
<1>7. CASE QueryRepos
    <2>1. /\ collected' = <<>> /\ at' = 1 /\ cursor' = NoCursor /\ conf' = conf /\ result' = result
          /\ pc = "repos" /\ pc' \in {"reposWait", "prs", "write"}
          /\ pc' = "prs" => page' = 1
          /\ pc' = "write" => repos' = <<>>
        BY <1>7 DEF QueryRepos, Begin, Shape, Position, world
    <2>2. result' # "ok"
        BY <1>0, <2>1 DEF Ending
    <2>3. Visited'
        BY <2>1 DEF Visited
    <2>4. Visiting'
        <3>1. Cardinality({}) = 0
            BY FS_EmptySet
        <3>2. Of(repos'[at'], collected') = {}
            BY <2>1 DEF Of, ToSet
        <3>3. (1 - 1) * conf.prsPerPage = 0
            BY <1>0, OnePageMore
        <3>4. pc' = "prs" => Cardinality(Of(repos'[at'], collected')) = (page' - 1) * conf'.prsPerPage
            BY <2>1, <3>1, <3>2, <3>3
        <3> QED
            BY <2>1, <3>4 DEF Visiting, Passed, FullPages
    <2>5. Ending'
        <3>1. Len(<<>>) = 0
            OBVIOUS
        <3> QED
            BY <2>1, <2>2, <3>1 DEF Ending
    <2> QED
        BY <1>0, <1>7, <2>3, <2>4, <2>5, ListedKept DEF CompleteInv
<1>8. CASE WaitRepos
    <2>1. /\ UNCHANGED <<conf, updates, repos, at, page, collected, result>>
          /\ pc = "reposWait" /\ pc' = "repos"
        BY <1>8 DEF WaitRepos, world
    <2> QED
        BY <1>0, <2>1 DEF CompleteInv, Visited, Visiting, Passed, FullPages, Finished, ListedSoFar, AllListed, Ending
<1>9. CASE QueryPullRequests
    <2>1. UNCHANGED <<conf, repos, at, result>> /\ pc = "prs" /\ pc' \in {"pageWait", "repoWait"}
        BY <1>9 DEF QueryPullRequests, world
    <2>2. ListedSoFar' /\ Ending'
        BY <1>0, <2>1 DEF ListedSoFar, AllListed, Ending
    <2> QED
        BY <1>9, <2>2, QueryVisits DEF CompleteInv
<1>10. CASE WaitPage
    <2>1. /\ UNCHANGED <<conf, updates, updated, repos, at, cursor, collected, result>>
          /\ pc = "pageWait" /\ pc' = "prs" /\ page' = page + 1
        BY <1>10 DEF WaitPage, world
    <2>2. FullPages'
        <3>1. (page + 1 - 1) * conf.prsPerPage = page * conf.prsPerPage
            BY <1>0, OnePageMore
        <3>2. page' - 1 = page + 1 - 1
            BY <1>0, <2>1
        <3>3. Cardinality(Of(repos[at], collected)) = page * conf.prsPerPage
            BY <1>0, <2>1 DEF Visiting, FullPages
        <3>4. Cardinality(Of(repos'[at'], collected')) = (page' - 1) * conf'.prsPerPage
            BY <2>1, <3>1, <3>2, <3>3
        <3> QED
            BY <2>1, <3>4 DEF FullPages
    <2>3. Passed'
        BY <1>0, <2>1 DEF Visiting, Passed
    <2> QED
        BY <1>0, <2>1, <2>2, <2>3
        DEF CompleteInv, Visited, Visiting, Finished, ListedSoFar, AllListed, Ending
<1>11. CASE WaitRepo
    <2>1. /\ UNCHANGED <<conf, updates, updated, repos, collected, result>>
          /\ pc = "repoWait" /\ at' = at + 1 /\ page' = 1 /\ cursor' = NoCursor
          /\ pc' = IF at = Len(repos) THEN "write" ELSE "prs"
          /\ at \in 1 .. Len(repos)
        BY <1>11 DEF WaitRepo, world, Shape, Kinds, Position
    <2>2. Visited'
        <3>1. \A j \in 1 .. Len(repos) : j < at + 1 => Finished(repos[j])
            BY <1>0, <2>1 DEF Visited, Visiting
        <3> QED
            BY <2>1, <3>1 DEF Visited, Finished
    <2>3. Visiting'
        <3>1. SUFFICES ASSUME pc' = "prs"
                       PROVE  Cardinality(Of(repos'[at'], collected')) = (page' - 1) * conf'.prsPerPage
            BY <2>1 DEF Visiting, Passed, FullPages
        <3>2. at + 1 \in 1 .. Len(repos) /\ at + 1 > at
            BY <1>0, <2>1, <3>1
        <3>3. Cardinality(Of(repos[at + 1], collected)) = 0
            BY <1>0, <3>2, NothingAhead
        <3>4. (1 - 1) * conf.prsPerPage = 0
            BY <1>0, OnePageMore
        <3> QED
            BY <2>1, <3>3, <3>4
    <2>4. ListedSoFar' /\ Ending'
        <3>1. result' # "ok"
            BY <1>0, <2>1 DEF Ending
        <3> QED
            BY <1>0, <2>1, <3>1 DEF ListedSoFar, AllListed, Ending
    <2> QED
        BY <2>2, <2>3, <2>4 DEF CompleteInv
<1>12. CASE Write
    <2>1. /\ UNCHANGED <<conf, updates, repos, at, collected>>
          /\ pc = "write" /\ pc' = "done"
          /\ result' = "ok" => out' = collected
        BY <1>12 DEF Write, Exit, world
    <2>2. Visited' /\ Visiting'
        BY <1>0, <2>1 DEF Visited, Visiting, Passed, FullPages, Finished
    <2>3. ListedSoFar' /\ Ending'
        BY <1>0, <2>1 DEF ListedSoFar, AllListed, Ending
    <2> QED
        BY <2>2, <2>3 DEF CompleteInv
<1>13. CASE UNCHANGED vars
    BY <1>1, <1>13 DEF vars
<1> QED
    BY <1>2, <1>3, <1>4, <1>5, <1>7, <1>8, <1>9, <1>10, <1>11, <1>12, <1>13 DEF Next

LEMMA CompleteAtFirst == Init => CompleteInv /\ LimitInv
<1> SUFFICES ASSUME Init PROVE CompleteInv /\ LimitInv
    OBVIOUS
<1>1. /\ collected = <<>> /\ at = 1 /\ page = 1 /\ cursor = NoCursor /\ result = "none"
      /\ conf.repo = All => pc = "repos" /\ repos = <<>>
      /\ conf.repo # All => pc = Begin(repos) /\ repos = conf.repo
      /\ conf \in Confs
    BY DEF Init
<1>2. /\ conf.prsPerPage \in Nat \ {0} /\ conf.reposPerPage \in Nat \ {0} /\ conf.maxPRs \in Int
    BY <1>1, ConfHas
<1>3. /\ Cardinality({}) = 0 /\ Len(<<>>) = 0
      /\ (1 - 1) * conf.prsPerPage = 0 /\ 1 * conf.prsPerPage = conf.prsPerPage
      /\ (1 - 1) * conf.reposPerPage = 0
    <2>1. Cardinality({}) = 0 /\ Len(<<>>) = 0
        BY FS_EmptySet
    <2> QED
        BY <1>2, <2>1, OnePageMore
<1>4. \A repo : Of(repo, collected) = {}
    BY <1>1 DEF Of, ToSet
<1>5. pc \in {"repos", "prs", "write"} /\ (pc = "write" => repos = <<>>)
    BY <1>1 DEF Begin
<1>6. Visited
    BY <1>1 DEF Visited
<1>7. Visiting
    <2>1. Cardinality(Of(repos[at], collected)) = (page - 1) * conf.prsPerPage
        BY <1>1, <1>3, <1>4
    <2> QED
        BY <1>1, <1>5, <2>1 DEF Visiting, Passed, FullPages
<1>8. ListedSoFar
    <2>1. pc = "repos" => repos = <<>>
        BY <1>1, <1>5 DEF Begin
    <2>2. pc = "repos" => Len(repos) = (page - 1) * conf.reposPerPage
        BY <1>1, <1>3, <2>1
    <2> QED
        BY <1>1, <1>5, <2>2 DEF ListedSoFar, AllListed
<1>9. Ending
    BY <1>1, <1>3, <1>5 DEF Ending
<1>10. LimitInv
    <2> SUFFICES ASSUME Whole PROVE WithinLimit /\ PageWithinLimit
        BY DEF LimitInv
    <2>1. conf.maxPRs \in Nat /\ conf.maxPRs % conf.prsPerPage = 0 /\ conf.maxPRs > 0
        BY <1>2 DEF Whole
    <2>2. 0 * conf.prsPerPage = 0 /\ (0 + 1) * conf.prsPerPage = conf.prsPerPage
        BY <1>2
    <2>3. conf.prsPerPage <= conf.maxPRs
        BY <1>2, <2>1, <2>2, NextPageFits
    <2>4. WithinLimit
        <3>1. ASSUME NEW j \in 1 .. Len(repos) PROVE Cardinality(Of(repos[j], collected)) <= conf.maxPRs
            <4>1. Of(repos[j], collected) = {}
                BY <1>4
            <4> QED
                BY <1>3, <2>1, <4>1
        <3> QED
            BY <3>1 DEF WithinLimit
    <2>5. PageWithinLimit
        BY <1>1, <1>3, <1>5, <2>3 DEF PageWithinLimit
    <2> QED
        BY <2>4, <2>5
<1> QED
    BY <1>6, <1>7, <1>8, <1>9, <1>10 DEF CompleteInv

LEMMA CompleteGivesReport ==
    ASSUME Shape, CompleteInv
    PROVE  ReportComplete
<1> SUFFICES ASSUME result = "ok" PROVE ReportComplete
    BY DEF ReportComplete
<1>1. at = Len(repos) + 1 /\ out = collected /\ AllListed /\ Visited
    BY DEF CompleteInv, Ending, ListedSoFar
<1>2. DOMAIN repos = 1 .. Len(repos) /\ Len(repos) \in Nat
    BY ElementsOf DEF Shape, Kinds
<1>3. \A repo \in ToSet(repos) : Finished(repo)
    BY <1>1, <1>2 DEF Visited, ToSet
<1> QED
    BY <1>1, <1>3 DEF ReportComplete, AllListed, Finished, Todo

LEMMA LimitGivesWhole ==
    ASSUME Shape, LimitInv
    PROVE  WholePagesLimit
<1>1. DOMAIN repos = 1 .. Len(repos)
    BY ElementsOf DEF Shape, Kinds
<1> QED
    BY <1>1 DEF LimitInv, Whole, WithinLimit, WholePagesLimit, ToSet

\* The pages, whatever is updated while they are read.
LEMMA PagesSound == ASSUME NoRepoTwice PROVE Spec => [](Shape /\ TwiceInv /\ CompleteInv /\ LimitInv)
<1>1. Init => Shape /\ TwiceInv /\ CompleteInv /\ LimitInv
    BY ShapeAtFirst, TwiceAtFirst, CompleteAtFirst
<1>2. (Shape /\ TwiceInv /\ CompleteInv /\ LimitInv) /\ [Next]_vars
        => (Shape /\ TwiceInv /\ CompleteInv /\ LimitInv)'
    <2> SUFFICES ASSUME Shape, TwiceInv, CompleteInv, LimitInv, [Next]_vars
                 PROVE  (Shape /\ TwiceInv /\ CompleteInv /\ LimitInv)'
        OBVIOUS
    <2>1. FullPages
        BY DEF CompleteInv, Visiting
    <2> QED
        BY <2>1, NoRepoTwice, ShapeKept, TwiceKept, CompleteKept, LimitKept
<1> QED
    BY <1>1, <1>2, PTL DEF Spec

\* A report that was written lacks no repository and no pull request, but for
\* those that were updated meanwhile and where a limit was reached.
THEOREM WrittenReportsAreComplete == ASSUME NoRepoTwice PROVE Spec => []ReportComplete
<1>1. Spec => [](Shape /\ TwiceInv /\ CompleteInv /\ LimitInv)
    BY NoRepoTwice, PagesSound
<1> QED
    BY <1>1, CompleteGivesReport, PTL

\* A limit that is a multiple of the size of a page is never passed.
THEOREM WholePagesKeepTheLimit == ASSUME NoRepoTwice PROVE Spec => []WholePagesLimit
<1>1. Spec => [](Shape /\ TwiceInv /\ CompleteInv /\ LimitInv)
    BY NoRepoTwice, PagesSound
<1> QED
    BY <1>1, LimitGivesWhole, PTL

-----------------------------------------------------------------------------
(***************************************************************************)
(* Paging ends.  What was read of a repository and what its next page is   *)
(* taken from are together no more than it has: an update takes a pull     *)
(* request away from what comes, never back into it.                       *)
(***************************************************************************)
HasRead == IF pc = "prs" THEN (page - 1) * conf.prsPerPage ELSE page * conf.prsPerPage

ReposInPages == pc \in {"repos", "reposWait"} => Len(repos) = (page - 1) * conf.reposPerPage

NeverMore ==
    pc \in {"prs", "pageWait"} =>
        HasRead + Cardinality(Remaining(repos[at])) <= Cardinality(Todo(repos[at]))

MoreToCome == pc = "pageWait" => page * conf.prsPerPage < Cardinality(Todo(repos[at]))

PagesInv == ReposInPages /\ NeverMore /\ MoreToCome /\ PagesEnd

LEMMA FinitelyMany ==
    ASSUME NEW S \in SUBSET Number
    PROVE  /\ Cardinality(Number) \in Nat /\ Number = 1 .. Cardinality(Number)
           /\ IsFiniteSet(S) /\ Cardinality(S) \in Nat
<1>1. Cardinality(Number) \in Nat /\ Number = 1 .. Cardinality(Number)
    BY ReportAssumption DEF ReportAssumption
<1>2. IsFiniteSet(Number)
    BY <1>1, FS_Interval
<1> QED
    BY <1>1, <1>2, FS_Subset, FS_CardinalityType

LEMMA Counts ==
    ASSUME NEW repo
    PROVE  /\ Cardinality(Todo(repo)) \in Nat /\ IsFiniteSet(Todo(repo)) /\ Todo(repo) \subseteq Number
           /\ Remaining(repo) \subseteq Todo(repo)
           /\ Cardinality(Remaining(repo)) \in Nat /\ IsFiniteSet(Remaining(repo))
           /\ Cardinality(Remaining(repo)) <= Cardinality(Todo(repo))
<1>1. Todo(repo) \in SUBSET Number /\ Remaining(repo) \in SUBSET Todo(repo)
    BY DEF Todo, Remaining
<1>2. IsFiniteSet(Todo(repo)) /\ Cardinality(Todo(repo)) \in Nat
    BY <1>1, FinitelyMany
<1> QED
    BY <1>1, <1>2, FS_Subset, FS_CardinalityType

LEMMA CountsNext ==
    /\ Cardinality(Todo(repos[at]))' \in Nat
    /\ Cardinality(Remaining(repos[at]))' \in Nat
    /\ Cardinality(Remaining(repos[at]))' <= Cardinality(Todo(repos[at]))'
<1>1. Todo(repos[at])' \in SUBSET Number /\ Remaining(repos[at])' \in SUBSET Todo(repos[at])'
    BY DEF Todo, Remaining
<1>2. IsFiniteSet(Todo(repos[at])') /\ Cardinality(Todo(repos[at])') \in Nat
    BY <1>1, FinitelyMany
<1> QED
    BY <1>1, <1>2, FS_Subset, FS_CardinalityType

\* An update takes its pull request away from what comes, unless nothing was
\* read of its repository.
LEMMA UpdateAddsNothing ==
    ASSUME Shape, NEW n \in Number, Update(n), NEW repo
    PROVE  Cardinality(Remaining(repo)') <= Cardinality(Remaining(repo))
<1>1. updated \in [Number -> 1 .. Cardinality(Number) + Len(updates)]
      /\ updates \in Seq(Number) /\ Cardinality(Number) \in Nat /\ Len(updates) \in Nat
    BY FinitelyMany, ElementsOf DEF Shape, Times, Kinds
<1>2. updated' = [updated EXCEPT ![n] = Cardinality(Number) + Len(updates) + 1] /\ cursor' = cursor
    <2>1. updates' = Append(updates, n) /\ cursor' = cursor
          /\ updated' = [updated EXCEPT ![n] = Cardinality(Number) + Len(updates')]
        BY DEF Update
    <2>2. Len(updates') = Len(updates) + 1
        BY <1>1, <2>1, AppendProperties
    <2>3. Cardinality(Number) + Len(updates') = Cardinality(Number) + Len(updates) + 1
        BY <1>1, <2>2
    <2> QED
        BY <2>1, <2>3
<1>3. \A m \in Number : updated[m] \in Int /\ updated'[m] \in Int /\ updated[m] <= updated'[m]
    <2>1. \A m \in Number : updated[m] \in 1 .. Cardinality(Number) + Len(updates)
        BY <1>1
    <2>2. \A m \in Number : updated'[m] = IF m = n THEN Cardinality(Number) + Len(updates) + 1 ELSE updated[m]
        BY <1>1, <1>2
    <2> QED
        BY <1>1, <2>1, <2>2
<1>4. cursor \in Int
    BY FinitelyMany, ReportAssumption DEF Shape, Kinds, NoCursor, ReportAssumption
<1>5. Remaining(repo)' \in SUBSET Remaining(repo)
    BY <1>2, <1>3, <1>4 DEF Remaining
<1> QED
    BY <1>5, Counts, FS_Subset

\* A page with a next one takes as many as fit away from what comes.
LEMMA PageTakesItsSize ==
    ASSUME Shape, QueryPullRequests, HasNextPage(Remaining(repos[at]), conf.prsPerPage)
    PROVE  Cardinality(Remaining(repos[at])') + conf.prsPerPage <= Cardinality(Remaining(repos[at]))
<1> DEFINE rest == Remaining(repos[at])
           size == conf.prsPerPage
<1>1. /\ rest \in SUBSET Number /\ size \in Nat \ {0}
      /\ updated \in [Number -> Int] /\ \A m, n \in Number : updated[m] = updated[n] => m = n
    BY QueryReads
<1>2. PICK nodes \in FirstOf(rest, size) :
         cursor' = IF nodes = <<>> THEN cursor ELSE updated[Last(nodes)]
    BY PullRequestsRead
<1>3. IsFiniteSet(rest) /\ Cardinality(rest) \in Nat /\ size < Cardinality(rest)
    BY Counts DEF HasNextPage
<1> HIDE DEF rest, size
<1>4. /\ nodes \in Seq(rest) /\ Len(nodes) = size
      /\ \A i, j \in 1 .. Len(nodes) : nodes[i] = nodes[j] => i = j
      /\ nodes # <<>> => /\ Last(nodes) \in rest
                         /\ \A n \in rest : n \in ToSet(nodes) <=> updated[n] >= updated[Last(nodes)]
    <2>1. Len(nodes) = IF size <= Cardinality(rest) THEN size ELSE Cardinality(rest)
        BY <1>1, <1>2, PageIsAPrefix
    <2>2. Len(nodes) = size
        BY <1>1, <1>3, <2>1
    <2> QED
        BY <1>1, <1>2, <2>2, PageIsAPrefix
<1>5. ToSet(nodes) \subseteq rest /\ Cardinality(ToSet(nodes)) = size /\ nodes # <<>>
    BY <1>1, <1>4, CountDistinct, ElementsOf
<1>6. Cardinality(rest \ ToSet(nodes)) = Cardinality(rest) - size
    <2>1. rest \cap ToSet(nodes) = ToSet(nodes)
        BY <1>5
    <2>2. Cardinality(rest \ ToSet(nodes)) = Cardinality(rest) - Cardinality(rest \cap ToSet(nodes))
        BY <1>3, FS_Difference
    <2> QED
        BY <1>5, <2>1, <2>2
<1>7. rest' \in SUBSET (rest \ ToSet(nodes))
    <2>1. repos' = repos /\ at' = at /\ updated' = updated
        BY DEF QueryPullRequests, world
    <2>2. cursor' = updated[Last(nodes)] /\ Last(nodes) \in rest /\ Last(nodes) \in Number
        BY <1>1, <1>2, <1>4, <1>5
    <2>3. cursor' # NoCursor
        <3>1. updated[Last(nodes)] \in 1 .. Cardinality(Number) + MaxUpdates
            BY <2>2, QueryReads
        <3>2. 1 .. Cardinality(Number) + MaxUpdates \subseteq Nat \ {0}
            BY FinitelyMany, ReportAssumption DEF ReportAssumption
        <3> QED
            BY <2>2, <3>1, <3>2 DEF NoCursor
    <2>4. ASSUME NEW n \in rest' PROVE n \in rest \ ToSet(nodes)
        <3>1. n \in Number /\ PR[n].repo = repos[at] /\ updated[n] < updated[Last(nodes)]
            BY <2>1, <2>2, <2>3 DEF rest, Remaining
        <3>2. updated[n] \in Int /\ updated[Last(nodes)] \in Int
            BY <1>1, <2>2, <3>1
        <3>3. cursor # NoCursor => updated[n] < cursor
            <4>1. cursor # NoCursor => updated[Last(nodes)] < cursor
                BY <2>2 DEF rest, Remaining
            <4>2. cursor \in Int
                BY FinitelyMany, ReportAssumption DEF Shape, Kinds, NoCursor, ReportAssumption
            <4> QED
                BY <3>1, <3>2, <4>1, <4>2
        <3>4. n \in rest
            BY <3>1, <3>3 DEF rest, Remaining
        <3> QED
            BY <1>4, <1>5, <3>1, <3>2, <3>4
    <2> QED
        BY <2>4
<1>8. Cardinality(rest') <= Cardinality(rest) - size
    <2>1. IsFiniteSet(rest \ ToSet(nodes))
        BY <1>3, FS_Difference
    <2>2. Cardinality(rest') <= Cardinality(rest \ ToSet(nodes))
        BY <1>7, <2>1, FS_Subset
    <2> QED
        BY <1>6, <2>2
<1>9. Cardinality(rest') \in Nat
    <2>1. IsFiniteSet(rest \ ToSet(nodes))
        BY <1>3, FS_Difference
    <2> QED
        BY <1>7, <2>1, FS_Subset, FS_CardinalityType
<1>10. Cardinality(rest') + size <= Cardinality(rest)
    BY <1>1, <1>3, <1>8, <1>9
<1> QED
    BY <1>10 DEF rest, size

\* Where the first page of a repository is asked for.
LEMMA FirstPageFits == page = 1 /\ conf.prsPerPage \in Nat \ {0} /\ pc = "prs" => PagesInv
<1> SUFFICES ASSUME page = 1, conf.prsPerPage \in Nat \ {0}, pc = "prs" PROVE PagesInv
    OBVIOUS
<1>1. Cardinality(Remaining(repos[at])) \in Nat
      /\ Cardinality(Remaining(repos[at])) <= Cardinality(Todo(repos[at]))
    BY Counts
<1>2. HasRead = 0
    BY OnePageMore DEF HasRead
<1> QED
    BY <1>1, <1>2 DEF PagesInv, ReposInPages, NeverMore, MoreToCome, PagesEnd

LEMMA FirstPageFitsNext ==
    page' = 1 /\ conf'.prsPerPage \in Nat \ {0} /\ pc' = "prs" => PagesInv'
<1>1. (page = 1 /\ conf.prsPerPage \in Nat \ {0} /\ pc = "prs" => PagesInv)'
    BY FirstPageFits, PTL
<1> QED
    BY <1>1

LEMMA PagesAtFirst == Init => PagesInv
<1> SUFFICES ASSUME Init PROVE PagesInv
    OBVIOUS
<1>1. conf.prsPerPage \in Nat \ {0} /\ conf.reposPerPage \in Nat \ {0} /\ page = 1
    BY ConfHas DEF Init
<1>2. pc = "prs" \/ pc = "write" \/ (pc = "repos" /\ Len(repos) = 0)
    BY DEF Init, Begin
<1>3. CASE pc = "prs"
    BY <1>1, <1>3, FirstPageFits
<1>4. CASE pc = "write"
    BY <1>1, <1>4 DEF PagesInv, ReposInPages, NeverMore, MoreToCome, PagesEnd
<1>5. CASE pc = "repos" /\ Len(repos) = 0
    BY <1>1, <1>5, OnePageMore DEF PagesInv, ReposInPages, NeverMore, MoreToCome, PagesEnd
<1> QED
    BY <1>2, <1>3, <1>4, <1>5

LEMMA QueryReposPages ==
    ASSUME Shape, Listing, PagesInv, QueryRepos
    PROVE  PagesInv'
<1>1. /\ conf.repo = All /\ conf' = conf /\ pc = "repos"
      /\ repos' = repos \o ReposPage(conf.reposPerPage)
      /\ \/ pc' \in {"prs", "write"} /\ page' = 1
         \/ Len(repos') # Len(Owned) /\ pc' = "reposWait" /\ page' = page + 1
    BY DEF QueryRepos, Begin, Shape, Position, world
<1>2. /\ conf.reposPerPage \in Nat \ {0} /\ conf.prsPerPage \in Nat \ {0} /\ page \in Nat \ {0}
      /\ Len(repos) \in Nat /\ Len(Owned) \in Nat
    BY ConfHas, ElementsOf, ReportAssumption DEF Shape, Kinds, ReportAssumption
<1>3. CASE pc' = "prs"
    BY <1>1, <1>2, <1>3, FirstPageFitsNext
<1>4. CASE pc' = "write"
    BY <1>4 DEF PagesInv, ReposInPages, NeverMore, MoreToCome, PagesEnd
<1>5. CASE pc' = "reposWait"
    <2>1. Len(repos') # Len(Owned) /\ page' = page + 1
        BY <1>1, <1>5
    <2>2. Len(repos') = IF Len(repos) + conf.reposPerPage <= Len(Owned)
                          THEN Len(repos) + conf.reposPerPage ELSE Len(Owned)
        BY <1>1, <1>2, NextRepos
    <2>3. Len(repos) + conf.reposPerPage = page * conf.reposPerPage /\ page * conf.reposPerPage \in Nat
        <3>1. /\ page * conf.reposPerPage \in Nat
              /\ (page - 1) * conf.reposPerPage + conf.reposPerPage = page * conf.reposPerPage
            BY <1>2, OnePageMore
        <3>2. Len(repos) = (page - 1) * conf.reposPerPage
            BY <1>1 DEF PagesInv, ReposInPages
        <3> QED
            BY <3>1, <3>2, Zenon
    <2>4. Len(repos') = page * conf.reposPerPage /\ page * conf.reposPerPage < Len(Owned)
        BY <1>2, <2>1, <2>2, <2>3
    <2>5. Len(repos') = (page' - 1) * conf'.reposPerPage /\ (page' - 1) * conf'.reposPerPage < Len(Owned)
        <3>1. page' - 1 = page
            BY <1>2, <2>1
        <3>2. conf' = conf
            BY <1>1
        <3> QED
            BY <2>4, <3>1, <3>2, Zenon
    <2> QED
        BY <1>5, <2>5 DEF PagesInv, ReposInPages, NeverMore, MoreToCome, PagesEnd
<1> QED
    BY <1>1, <1>3, <1>4, <1>5

LEMMA QueryPullRequestsPages ==
    ASSUME Shape, PagesInv, QueryPullRequests
    PROVE  PagesInv'
<1> DEFINE rest == Remaining(repos[at])
           size == conf.prsPerPage
           all == Todo(repos[at])
<1>1. /\ pc = "prs" /\ pc' \in {"pageWait", "repoWait"} /\ (pc' = "pageWait" => HasNextPage(rest, size))
      /\ conf' = conf /\ page' = page /\ repos' = repos /\ at' = at
    BY DEF QueryPullRequests, world
<1>2. size \in Nat \ {0} /\ page \in Nat \ {0} /\ Cardinality(rest) \in Nat /\ Cardinality(all) \in Nat
      /\ Cardinality(rest') \in Nat
    BY Counts, CountsNext, ConfHas DEF Shape, Kinds
<1>3. all' = all
    BY <1>1 DEF Todo
<1>4. (page - 1) * size + Cardinality(rest) <= Cardinality(all)
    BY <1>1 DEF PagesInv, NeverMore, HasRead
<1>5. (page - 1) * size \in Nat /\ page * size \in Nat /\ (page - 1) * size + size = page * size
    BY <1>2, OnePageMore
<1>6. page > 1 => (page - 1) * size < Cardinality(all)
    BY <1>1 DEF PagesInv, PagesEnd
<1>7. ASSUME pc' = "pageWait"
      PROVE  /\ page * size + Cardinality(rest') <= Cardinality(all)
             /\ page * size < Cardinality(all)
    <2>1. HasNextPage(rest, size)
        BY <1>1, <1>7
    <2>2. Cardinality(rest') + size <= Cardinality(rest)
        BY <2>1, PageTakesItsSize
    <2>3. size < Cardinality(rest)
        BY <2>1 DEF HasNextPage
    <2> HIDE DEF rest, size, all
    <2> QED
        BY <1>2, <1>4, <1>5, <2>2, <2>3
<1>8. PagesEnd'
    BY <1>1, <1>3, <1>6 DEF PagesEnd
<1>9. MoreToCome'
    BY <1>1, <1>3, <1>7 DEF MoreToCome
<1>10. NeverMore'
    BY <1>1, <1>3, <1>7 DEF NeverMore, HasRead
<1>11. ReposInPages'
    BY <1>1 DEF ReposInPages
<1> QED
    BY <1>8, <1>9, <1>10, <1>11 DEF PagesInv

LEMMA WaitPagePages ==
    ASSUME Shape, PagesInv, WaitPage
    PROVE  PagesInv'
<1> DEFINE rest == Remaining(repos[at])
           size == conf.prsPerPage
           all == Todo(repos[at])
<1>1. /\ pc = "pageWait" /\ pc' = "prs" /\ page' = page + 1
      /\ conf' = conf /\ repos' = repos /\ at' = at /\ rest' = rest /\ all' = all
    BY DEF WaitPage, Wait, world, Remaining, Todo
<1>2. size \in Nat \ {0} /\ page \in Nat \ {0}
    BY ConfHas DEF Shape, Kinds
<1>3. page * size + Cardinality(rest) <= Cardinality(all) /\ page * size < Cardinality(all)
    BY <1>1 DEF PagesInv, NeverMore, HasRead, MoreToCome
<1>4. (page' - 1) * size = page * size
    <2>1. page' - 1 = page
        BY <1>1, <1>2
    <2> QED
        BY <2>1
<1>5. /\ (page' - 1) * size + Cardinality(rest') <= Cardinality(all')
      /\ (page' - 1) * size < Cardinality(all')
    BY <1>1, <1>3, <1>4
<1> QED
    BY <1>1, <1>5 DEF PagesInv, ReposInPages, NeverMore, HasRead, MoreToCome, PagesEnd

LEMMA PagesKept == Shape /\ Listing /\ PagesInv /\ [Next]_vars => PagesInv'
<1> SUFFICES ASSUME Shape, Listing, PagesInv, [Next]_vars PROVE PagesInv'
    OBVIOUS
<1>1. ASSUME UNCHANGED <<conf, pc, repos, at, page, cursor, updated>> PROVE PagesInv'
    BY <1>1 DEF PagesInv, ReposInPages, NeverMore, HasRead, MoreToCome, PagesEnd, Remaining, Todo
<1>2. ASSUME pc' \in {"done", "write"} PROVE PagesInv'
    BY <1>2 DEF PagesInv, ReposInPages, NeverMore, MoreToCome, PagesEnd
<1>3. ASSUME NEW n \in Number, Update(n) PROVE PagesInv'
    <2>1. UNCHANGED <<conf, pc, repos, at, page>>
        BY <1>3 DEF Update
    <2>2. Todo(repos[at])' = Todo(repos[at])
        BY <2>1 DEF Todo
    <2>3. Cardinality(Remaining(repos[at])') <= Cardinality(Remaining(repos[at]))
        <3>1. PICK repo : repo = repos[at]
            OBVIOUS
        <3>2. Remaining(repos[at])' = Remaining(repo)'
            BY <2>1, <3>1 DEF Remaining
        <3> QED
            BY <1>3, <3>1, <3>2, UpdateAddsNothing
    <2>4. HasRead' = HasRead
        BY <2>1 DEF HasRead
    <2>5. NeverMore'
        <3>1. pc \in {"prs", "pageWait"} => HasRead \in Nat
            BY OnePageMore, ConfHas DEF HasRead, Shape, Kinds
        <3>2. /\ Cardinality(Remaining(repos[at])) \in Nat /\ Cardinality(Todo(repos[at])) \in Nat
              /\ Cardinality(Remaining(repos[at])') \in Nat
            BY Counts, CountsNext
        <3> QED
            BY <2>1, <2>2, <2>3, <2>4, <3>1, <3>2 DEF NeverMore, PagesInv
    <2> QED
        BY <2>1, <2>2, <2>5 DEF PagesInv, ReposInPages, MoreToCome, PagesEnd
<1>4. CASE WaitRepo
    <2>1. page' = 1 /\ conf' = conf /\ pc' \in {"prs", "write"}
        BY <1>4 DEF WaitRepo, world
    <2>2. conf.prsPerPage \in Nat \ {0}
        BY ConfHas DEF Shape, Kinds
    <2>3. CASE pc' = "prs"
        BY <2>1, <2>2, <2>3, FirstPageFitsNext
    <2> QED
        BY <1>2, <2>1, <2>3
<1>5. CASE WaitRepos
    <2>1. pc = "reposWait" /\ pc' = "repos" /\ UNCHANGED <<conf, repos, page>>
        BY <1>5 DEF WaitRepos, world
    <2> QED
        BY <2>1 DEF PagesInv, ReposInPages, NeverMore, MoreToCome, PagesEnd
<1>6. CASE Interrupt
    BY <1>1, <1>6 DEF Interrupt, world
<1>7. CASE Tick
    BY <1>1, <1>7 DEF Tick, world
<1>8. CASE QueryFails \/ Killed \/ Write
    BY <1>2, <1>8 DEF QueryFails, Killed, Write, Exit
<1>9. CASE UNCHANGED vars
    BY <1>1, <1>9 DEF vars
<1> QED
    BY <1>3, <1>4, <1>5, <1>6, <1>7, <1>8, <1>9, QueryReposPages, QueryPullRequestsPages, WaitPagePages
    DEF Next

\* The command asks for no more pages than there is something to read for.
THEOREM PagingEnds == Spec => []PagesEnd
<1>1. Init => Shape /\ Listing /\ PagesInv
    BY ShapeAtFirst, ListingAtFirst, PagesAtFirst
<1>2. Shape /\ Listing /\ PagesInv /\ [Next]_vars => (Shape /\ Listing /\ PagesInv)'
    BY ShapeKept, ListingKept, PagesKept
<1>3. PagesInv => PagesEnd
    BY DEF PagesInv
<1> QED
    BY <1>1, <1>2, <1>3, PTL DEF Spec

-----------------------------------------------------------------------------
(***************************************************************************)
(* A query for pull requests has one answer, so that QueryPullRequests is  *)
(* neither stuck nor free to choose.                                       *)
(***************************************************************************)
LEMMA LeastNumber ==
    ASSUME NEW S, S \subseteq Nat, S # {}
    PROVE  \E x \in S : \A y \in S : x <= y
<1>1. PICK x \in S : \A y \in S : ~(<<y, x>> \in OpToRel(<, Nat))
    BY WFMin, NatLessThanWellFounded
<1>2. \A y \in S : ~(y < x)
    BY <1>1 DEF OpToRel
<1> QED
    BY <1>2

\* Of finitely many members, one has the greatest value.
LEMMA GreatestValue ==
    ASSUME NEW n \in Nat, NEW f, \A i \in 1 .. n : f[i] \in Int,
           NEW S, S \subseteq 1 .. n, S # {}
    PROVE  \E i \in S : \A j \in S : f[j] <= f[i]
<1> DEFINE Has(R) == \E i \in R : \A j \in R : f[j] <= f[i]
           Bad == {k \in 0 .. n : \E R \in SUBSET (1 .. k) : R # {} /\ ~Has(R)}
<1>1. ASSUME Bad # {} PROVE FALSE
    <2>1. PICK k \in Bad : \A l \in Bad : k <= l
        <3>1. Bad \subseteq Nat
            OBVIOUS
        <3> HIDE DEF Bad
        <3> QED
            BY <1>1, <3>1, LeastNumber
    <2>2. PICK R \in SUBSET (1 .. k) : R # {} /\ ~Has(R)
        BY <2>1
    <2>3. k \in 1 .. n /\ k - 1 \in 0 .. n /\ k - 1 \notin Bad
        <3>1. k \in 0 .. n /\ k # 0
            <4>1. k \in 0 .. n
                BY <2>1
            <4>2. \E x \in R : x \in 1 .. k
                BY <2>2
            <4> QED
                BY <4>1, <4>2
        <3>2. k - 1 \notin Bad
            <4> HIDE DEF Bad
            <4> QED
                BY <2>1, <3>1
        <3> QED
            BY <3>1, <3>2
    <2>4. R \ {k} \in SUBSET (1 .. k - 1)
        BY <2>2, <2>3
    <2>5. k \in R
        BY <2>2, <2>3, <2>4
    <2>6. R \ {k} # {}
        BY <2>2, <2>3, <2>5
    <2>7. PICK i \in R \ {k} : \A j \in R \ {k} : f[j] <= f[i]
        BY <2>3, <2>4, <2>6
    <2>8. i \in 1 .. n /\ \A j \in R : j \in 1 .. n
        BY <2>2, <2>3
    <2>9. \A j \in R : f[j] <= f[i] \/ f[j] <= f[k]
        BY <2>3, <2>7, <2>8
    <2>10. (\A j \in R : f[j] <= f[i]) \/ (\A j \in R : f[j] <= f[k])
        BY <2>3, <2>7, <2>8
    <2> QED
        BY <2>2, <2>5, <2>7, <2>10
<1>2. S \in SUBSET (1 .. n) /\ n \in 0 .. n
    OBVIOUS
<1> QED
    BY <1>1, <1>2


\* The lists of the k last updated of S.
Leading(S, k) ==
    {nodes \in [1 .. k -> S] :
        \A i \in 1 .. k : \A n \in S :
            updated[n] > updated[nodes[i]] <=> \E j \in 1 .. i - 1 : nodes[j] = n}

\* Nodes without what they have, followed by the last updated of the others.
LEMMA OneMore ==
    ASSUME updated \in [Number -> Int], \A m, n \in Number : updated[m] = updated[n] => m = n,
           NEW S \in SUBSET Number, NEW k \in 1 .. Cardinality(S),
           NEW nodes \in Leading(S, k - 1)
    PROVE  Leading(S, k) # {}
<1> DEFINE had == {nodes[j] : j \in 1 .. k - 1}
           left == S \ had
<1>1. /\ Cardinality(Number) \in Nat /\ Number = 1 .. Cardinality(Number)
      /\ IsFiniteSet(S) /\ Cardinality(S) \in Nat /\ k \in Nat
    BY FinitelyMany
<1>2. nodes \in [1 .. k - 1 -> S] /\ had \subseteq S
    BY DEF Leading
<1>3. left # {}
    <2>1. nodes \in Surjection(1 .. k - 1, had)
        BY <1>2 DEF Surjection
    <2>2. IsFiniteSet(1 .. k - 1) /\ Cardinality(1 .. k - 1) = k - 1
        BY <1>1, FS_Interval
    <2>3. Cardinality(had) <= k - 1
        BY <2>1, <2>2, FS_Surjection
    <2>4. had # S
        <3> HIDE DEF had
        <3>1. ~(Cardinality(S) <= k - 1)
            BY <1>1
        <3> QED
            BY <2>3, <3>1
    <2> QED
        BY <1>2, <2>4
<1>4. PICK g \in left : \A n \in left : updated[n] <= updated[g]
    <2>1. left \subseteq 1 .. Cardinality(Number) /\ \A n \in 1 .. Cardinality(Number) : updated[n] \in Int
        BY <1>1
    <2> HIDE DEF left
    <2> QED
        BY <1>1, <1>3, <2>1, GreatestValue
<1> DEFINE more == [i \in 1 .. k |-> IF i = k THEN g ELSE nodes[i]]
<1>5. /\ more \in [1 .. k -> S] /\ more[k] = g
      /\ \A i \in 1 .. k - 1 : more[i] = nodes[i]
    BY <1>1, <1>2, <1>4
<1> HIDE DEF more
<1>6. ASSUME NEW i \in 1 .. k, NEW n \in S
      PROVE  updated[n] > updated[more[i]] <=> \E j \in 1 .. i - 1 : more[j] = n
    <2>1. CASE i # k
        <3>1. i \in 1 .. k - 1 /\ \A j \in 1 .. i - 1 : j \in 1 .. k - 1
            BY <1>1, <2>1
        <3>2. updated[n] > updated[nodes[i]] <=> \E j \in 1 .. i - 1 : nodes[j] = n
            BY <3>1 DEF Leading
        <3> QED
            BY <1>5, <3>1, <3>2
    <2>2. CASE i = k
        <3>1. updated[n] \in Int /\ updated[g] \in Int /\ g \in S
            BY <1>4
        <3>2. CASE n \in left
            <4>1. \A j \in 1 .. k - 1 : nodes[j] # n
                BY <3>2
            <4>2. ~(updated[n] > updated[g])
                BY <1>4, <3>1, <3>2
            <4> QED
                BY <1>5, <2>2, <4>1, <4>2
        <3>3. CASE n \notin left
            <4>1. PICK j \in 1 .. k - 1 : nodes[j] = n
                BY <3>3
            <4>2. updated[g] > updated[n] <=> \E l \in 1 .. j - 1 : nodes[l] = g
                BY <3>1, <4>1 DEF Leading
            <4>3. \A l \in 1 .. j - 1 : nodes[l] # g
                BY <1>1, <1>4, <4>1
            <4>4. updated[g] # updated[n]
                BY <1>4, <3>1, <4>1
            <4>5. updated[n] > updated[g]
                BY <3>1, <4>2, <4>3, <4>4
            <4> QED
                BY <1>5, <2>2, <4>1, <4>5
        <3> QED
            BY <3>2, <3>3
    <2> QED
        BY <2>1, <2>2
<1> QED
    BY <1>5, <1>6 DEF Leading

LEMMA LeadingExists ==
    ASSUME updated \in [Number -> Int], \A m, n \in Number : updated[m] = updated[n] => m = n,
           NEW S \in SUBSET Number, Cardinality(S) \in Nat, NEW len \in 0 .. Cardinality(S)
    PROVE  Leading(S, len) # {}
<1> DEFINE Bad == {k \in 0 .. Cardinality(S) : Leading(S, k) = {}}
<1> SUFFICES ASSUME Bad # {} PROVE FALSE
    OBVIOUS
<1>1. PICK k \in Bad : \A l \in Bad : k <= l
    <2>1. Bad \subseteq Nat
        OBVIOUS
    <2> HIDE DEF Bad
    <2> QED
        BY <2>1, LeastNumber
<1>2. k \in 0 .. Cardinality(S) /\ Leading(S, k) = {}
    BY <1>1
<1>3. CASE k = 0
    <2>1. [i \in 1 .. 0 |-> i] \in Leading(S, 0)
        BY DEF Leading
    <2> QED
        BY <1>2, <1>3, <2>1
<1>4. CASE k # 0
    <2>1. k \in 1 .. Cardinality(S) /\ k - 1 \in 0 .. Cardinality(S)
        BY <1>2, <1>4
    <2>2. k - 1 \notin Bad
        <3> HIDE DEF Bad
        <3> QED
            BY <1>1, <2>1
    <2>3. PICK nodes : nodes \in Leading(S, k - 1)
        BY <2>1, <2>2
    <2> QED
        BY <1>2, <2>1, <2>3, OneMore
<1> QED
    BY <1>3, <1>4

LEMMA LeadingIsUnique ==
    ASSUME updated \in [Number -> Int], \A m, n \in Number : updated[m] = updated[n] => m = n,
           NEW S \in SUBSET Number, NEW len \in Nat,
           NEW a \in Leading(S, len), NEW b \in Leading(S, len)
    PROVE  a = b
<1> DEFINE Differ == {i \in 1 .. len : a[i] # b[i]}
<1>1. a \in [1 .. len -> S] /\ b \in [1 .. len -> S]
    BY DEF Leading
<1>2. ASSUME Differ # {} PROVE FALSE
    <2>1. PICK i \in Differ : \A l \in Differ : i <= l
        <3>1. Differ \subseteq Nat
            OBVIOUS
        <3> HIDE DEF Differ
        <3> QED
            BY <1>2, <3>1, LeastNumber
    <2>2. i \in 1 .. len /\ a[i] # b[i]
        BY <2>1
    <2>3. \A j \in 1 .. i - 1 : a[j] = b[j]
        <3>1. \A j \in 1 .. i - 1 : j \in 1 .. len /\ ~(i <= j)
            BY <2>2
        <3> QED
            BY <2>1, <3>1
    <2>4. \A n \in S : updated[n] > updated[a[i]] <=> updated[n] > updated[b[i]]
        <3>1. ASSUME NEW n \in S
              PROVE  /\ updated[n] > updated[a[i]] <=> \E j \in 1 .. i - 1 : a[j] = n
                     /\ updated[n] > updated[b[i]] <=> \E j \in 1 .. i - 1 : b[j] = n
            BY <2>2 DEF Leading
        <3> QED
            BY <2>3, <3>1
    <2>5. a[i] \in S /\ b[i] \in S /\ updated[a[i]] \in Int /\ updated[b[i]] \in Int
        BY <1>1, <2>2
    <2>6. updated[a[i]] = updated[b[i]]
        BY <2>4, <2>5
    <2> QED
        BY <2>2, <2>5, <2>6
<1> QED
    BY <1>1, <1>2

\* PullRequestForRepoQueryV4 has one answer whenever it is made.
OneAnswer ==
    pc = "prs" => \E nodes : FirstOf(Remaining(repos[at]), conf.prsPerPage) = {nodes}

\* Whenever the command asks for a page of pull requests there is exactly one
\* that GitHub answers with, whatever was updated before.
THEOREM QueriesHaveOneAnswer == Spec => []OneAnswer
<1>1. ASSUME Shape, pc = "prs"
      PROVE  \E nodes : FirstOf(Remaining(repos[at]), conf.prsPerPage) = {nodes}
    <2> DEFINE S == Remaining(repos[at])
               len == Min({conf.prsPerPage, Cardinality(S)})
    <2>1. /\ updated \in [Number -> Int] /\ S \in SUBSET Number /\ conf.prsPerPage \in Nat
          /\ \A m, n \in Number : updated[m] = updated[n] => m = n
        BY <1>1, QueryReads
    <2>2. Cardinality(S) \in Nat
        BY <2>1, FinitelyMany
    <2>3. len \in 0 .. Cardinality(S)
        BY <2>1, <2>2, MinOfTwo
    <2> HIDE DEF S
    <2>4. FirstOf(S, conf.prsPerPage) = Leading(S, len)
        BY <2>3 DEF FirstOf, Leading
    <2> HIDE DEF len
    <2>5. PICK nodes : nodes \in Leading(S, len)
        BY <2>1, <2>2, <2>3, LeadingExists
    <2>6. Leading(S, len) = {nodes}
        BY <2>1, <2>2, <2>3, <2>5, LeadingIsUnique
    <2> QED
        BY <2>4, <2>6 DEF S
<1>2. Spec => []Shape
    BY ShapeAtFirst, ShapeKept, PTL DEF Spec
<1>3. Shape => OneAnswer
    BY <1>1 DEF OneAnswer
<1> QED
    BY <1>2, <1>3, PTL

=============================================================================

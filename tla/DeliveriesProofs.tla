-------------------------- MODULE DeliveriesProofs --------------------------
(***************************************************************************)
(* Theorems about objects, their webhooks and the spans that follow them,  *)
(* for any objects, payloads, bounds, mishaps and crashes, and with the    *)
(* test data generator as one of the senders.                              *)
(***************************************************************************)
EXTENDS Generator, FiniteSetTheorems, SequenceTheorems, WellFoundedInduction, TLAPS

Kinds == {"github_issue", "github_pr", "gitlab_issue", "gitlab_merge", "gitlab_pipeline",
          "gitlab_job", "jenkins", "jira_issue", "jira_sprint", "customhttp"}

\* The events that an object can send.
OwnEvents(o) == {EventOf[o][st] : st \in Statuses(o)}

LEMMA KindsAreKnown == \A o \in Objects : Kind[o] \in Kinds /\ Kind[o] = Of[o].kind
BY ObjectsAssumption DEF Successors, Kinds, Kind

LEMMA EventsOfStatus ==
    ASSUME NEW o \in Objects, NEW st \in Statuses(o)
    PROVE  EventOf[o][st] = Event(o, st) /\ EventOf[o][st] \in Events
BY DEF EventOf, Events

LEMMA EventFields ==
    ASSUME NEW o \in Objects, NEW e \in OwnEvents(o)
    PROVE  /\ e.object = o /\ e.status \in Statuses(o)
           /\ e = EventOf[o][e.status] /\ e = Event(o, e.status)
           /\ e \in Events /\ e.id \in Ids
<1>1. PICK st \in Statuses(o) : e = EventOf[o][st]
  BY DEF OwnEvents
<1>2. e = Event(o, st) /\ e \in Events
  BY <1>1, EventsOfStatus
<1>3. e.object = o /\ e.status = st
  BY <1>2 DEF Event
<1>4. QED
  BY <1>1, <1>2, <1>3 DEF Ids

LEMMA FollowingIsOwn ==
    ASSUME NEW o \in Objects, NEW e \in Following(o)
    PROVE  /\ e \in OwnEvents(o)
           /\ \E step \in Successors[Kind[o]] : step[1] = status[o] /\ step[2] = e.status
<1>1. PICK step \in Successors[Kind[o]] : step[1] = status[o] /\ e = EventOf[o][step[2]]
  BY DEF Following
<1>2. step[2] \in Statuses(o)
  BY DEF Statuses
<1>3. e = Event(o, step[2])
  BY <1>1, <1>2, EventsOfStatus
<1>4. e.status = step[2]
  BY <1>3 DEF Event
<1>5. QED
  BY <1>1, <1>2, <1>4 DEF OwnEvents

-----------------------------------------------------------------------------
\* Sequences joined with an m, element by element.
LEMMA Joining ==
    ASSUME NEW S, NEW a \in Seq(S), NEW m \in S, NEW x \in Seq(S)
    PROVE  /\ a \o <<m>> \o x \in Seq(S) /\ Len(a \o <<m>> \o x) = Len(a) + 1 + Len(x)
           /\ \A k \in 1 .. Len(a) : (a \o <<m>> \o x)[k] = a[k]
           /\ (a \o <<m>> \o x)[Len(a) + 1] = m
           /\ \A k \in 1 .. Len(x) : (a \o <<m>> \o x)[Len(a) + 1 + k] = x[k]
<1>1. <<m>> \in Seq(S)
  OBVIOUS
<1>2. a \o <<m>> \in Seq(S)
  BY <1>1
<1>3. Len(a \o <<m>>) = Len(a) + 1
  BY <1>1
<1>4. \A k \in 1 .. Len(a) : (a \o <<m>>)[k] = a[k]
  BY <1>1
<1>5. (a \o <<m>>)[Len(a) + 1] = m
  BY <1>1
<1>6. a \o <<m>> \o x \in Seq(S) 
  BY <1>2
<1>7. Len(a \o <<m>> \o x) = Len(a) + 1 + Len(x)
  BY <1>1, <1>2
<1>8. \A k \in 1 .. Len(a) : (a \o <<m>> \o x)[k] = a[k]
  BY <1>1, <1>2
<1>9. (a \o <<m>> \o x)[Len(a) + 1] = m
  BY <1>1, <1>2
<1>10. \A k \in 1 .. Len(x) : (a \o <<m>> \o x)[Len(a) + 1 + k] = x[k]
  BY <1>1, <1>2
<1>11. QED
  BY <1>6, <1>7, <1>8, <1>9, <1>10

Joined(a, m, x) == a \o <<m>> \o x

\* What stands before the first m, and after it, is determined.
LEMMA First ==
    ASSUME NEW S, NEW m \in S, NEW a \in Seq(S), NEW b \in Seq(S), NEW x \in Seq(S), NEW y \in Seq(S),
           \A k \in 1 .. Len(a) : a[k] # m,
           \A k \in 1 .. Len(b) : b[k] # m, Joined(a, m, x) = Joined(b, m, y)
    PROVE  a = b /\ x = y
<1> USE DEF Joined
<1> DEFINE j == a \o <<m>> \o x
<1>1. Len(a) \in Nat /\ Len(b) \in Nat /\ Len(x) \in Nat /\ Len(y) \in Nat
  OBVIOUS
<1>2. Len(j) = Len(a) + 1 + Len(x) /\ Len(j) = Len(b) + 1 + Len(y)
  <2>1. Len(a \o <<m>> \o x) = Len(a) + 1 + Len(x) /\ Len(b \o <<m>> \o y) = Len(b) + 1 + Len(y)
    BY Joining
  <2>2. QED
    BY <2>1
<1>3. /\ \A k \in 1 .. Len(a) : j[k] = a[k]
      /\ \A k \in 1 .. Len(b) : j[k] = b[k]
  <2>1. /\ \A k \in 1 .. Len(a) : (a \o <<m>> \o x)[k] = a[k]
        /\ \A k \in 1 .. Len(b) : (b \o <<m>> \o y)[k] = b[k]
    BY Joining
  <2>2. QED
    BY <2>1
<1>4. j[Len(a) + 1] = m /\ j[Len(b) + 1] = m
  <2>1. (a \o <<m>> \o x)[Len(a) + 1] = m /\ (b \o <<m>> \o y)[Len(b) + 1] = m
    BY Joining
  <2>2. QED
    BY <2>1
<1>5. /\ \A k \in 1 .. Len(x) : j[Len(a) + 1 + k] = x[k]
      /\ \A k \in 1 .. Len(y) : j[Len(b) + 1 + k] = y[k]
  <2>1. /\ \A k \in 1 .. Len(x) : (a \o <<m>> \o x)[Len(a) + 1 + k] = x[k]
        /\ \A k \in 1 .. Len(y) : (b \o <<m>> \o y)[Len(b) + 1 + k] = y[k]
    BY Joining
  <2>2. QED
    BY <2>1
<1> HIDE DEF j
<1>6. ~(Len(a) < Len(b)) /\ ~(Len(b) < Len(a))
  <2>1. ASSUME Len(a) < Len(b) PROVE FALSE
    <3>1. Len(a) + 1 \in 1 .. Len(b)
      BY <1>1, <2>1
    <3>2. QED
      BY <1>3, <1>4, <3>1
  <2>2. ASSUME Len(b) < Len(a) PROVE FALSE
    <3>1. Len(b) + 1 \in 1 .. Len(a)
      BY <1>1, <2>2
    <3>2. QED
      BY <1>3, <1>4, <3>1
  <2>3. QED
    BY <2>1, <2>2
<1>7. Len(a) = Len(b) /\ Len(x) = Len(y)
  BY <1>1, <1>2, <1>6
<1>8. a = b
  BY <1>3, <1>7, SeqEqual
<1>9. x = y
  <2>1. \A k \in 1 .. Len(x) : x[k] = y[k]
    BY <1>1, <1>5, <1>7
  <2>2. QED
    BY <1>7, <2>1, SeqEqual
<1>10. QED
  BY <1>8, <1>9

\* What stands before the last m is determined if one element stands after it.
LEMMA Last ==
    ASSUME NEW S, NEW m \in S, NEW a \in Seq(S), NEW b \in Seq(S), NEW v \in S, NEW w \in S,
           Joined(a, m, <<v>>) = Joined(b, m, <<w>>)
    PROVE  a = b /\ v = w
<1> USE DEF Joined
<1>1. <<v>> \in Seq(S) /\ <<w>> \in Seq(S) /\ Len(a) \in Nat /\ Len(b) \in Nat
  OBVIOUS
<1>2. Len(a) = Len(b)
  <2>1. Len(a \o <<m>> \o <<v>>) = Len(a) + 1 + Len(<<v>>)
    BY <1>1, Joining
  <2>2. Len(b \o <<m>> \o <<w>>) = Len(b) + 1 + Len(<<w>>)
    BY <1>1, Joining
  <2>3. QED
    BY <1>1, <2>1, <2>2
<1>3. \A k \in 1 .. Len(a) : a[k] = b[k]
  <2>1. \A k \in 1 .. Len(a) : (a \o <<m>> \o <<v>>)[k] = a[k]
    BY <1>1, Joining
  <2>2. \A k \in 1 .. Len(b) : (b \o <<m>> \o <<w>>)[k] = b[k]
    BY <1>1, Joining
  <2>3. QED
    BY <1>2, <2>1, <2>2
<1>4. a = b
  BY <1>2, <1>3, SeqEqual
<1>5. v = w
  <2> DEFINE i == a \o <<m>> \o <<v>>
             j == b \o <<m>> \o <<w>>
  <2>1. \A k \in 1 .. Len(<<v>>) : i[Len(a) + 1 + k] = <<v>>[k]
    BY <1>1, Joining
  <2>2. \A k \in 1 .. Len(<<w>>) : j[Len(b) + 1 + k] = <<w>>[k]
    BY <1>1, Joining
  <2>3. i = j
    OBVIOUS
  <2> HIDE DEF i, j
  <2>4. i[Len(a) + 1 + 1] = v /\ j[Len(b) + 1 + 1] = w
    BY <2>1, <2>2
  <2>5. QED
    BY <1>2, <2>3, <2>4
<1>6. QED
  BY <1>4, <1>5

LEMMA DashIsToken == "-" \in Tokens /\ "-" \notin Words
BY TokensAssumption DEF Tokens

Join(a, x) == a \o Dash \o x

\* Strings joined with a dash, token by token.
LEMMA JoinShape ==
    ASSUME NEW a \in Seq(Tokens), NEW x \in Seq(Tokens)
    PROVE  /\ Join(a, x) \in Seq(Tokens) /\ Len(Join(a, x)) = Len(a) + 1 + Len(x)
           /\ \A k \in 1 .. Len(a) : Join(a, x)[k] = a[k]
           /\ Join(a, x)[Len(a) + 1] = "-"
           /\ \A k \in 1 .. Len(x) : Join(a, x)[Len(a) + 1 + k] = x[k]
<1> DEFINE S == Tokens
           m == "-"
<1>1. m \in S /\ a \in Seq(S) /\ x \in Seq(S) /\ Join(a, x) = Joined(a, m, x)
  BY DashIsToken DEF Dash, Join, Joined
<1> HIDE DEF S, m
<1>2. /\ Joined(a, m, x) \in Seq(S) /\ Len(Joined(a, m, x)) = Len(a) + 1 + Len(x)
      /\ \A k \in 1 .. Len(a) : Joined(a, m, x)[k] = a[k]
      /\ Joined(a, m, x)[Len(a) + 1] = m
      /\ \A k \in 1 .. Len(x) : Joined(a, m, x)[Len(a) + 1 + k] = x[k]
  BY <1>1, Joining DEF Joined
<1>3. QED
  BY <1>1, <1>2 DEF S, m

LEMMA FirstDash ==
    ASSUME NEW a \in Seq(Tokens), NEW b \in Seq(Tokens), NEW x \in Seq(Tokens), NEW y \in Seq(Tokens),
           \A k \in 1 .. Len(a) : a[k] # "-", \A k \in 1 .. Len(b) : b[k] # "-",
           Join(a, x) = Join(b, y)
    PROVE  a = b /\ x = y
<1> DEFINE S == Tokens
           m == "-"
<1>1. /\ m \in S /\ a \in Seq(S) /\ b \in Seq(S) /\ x \in Seq(S) /\ y \in Seq(S)
      /\ \A k \in 1 .. Len(a) : a[k] # m
      /\ \A k \in 1 .. Len(b) : b[k] # m
  BY DashIsToken
<1>2. Joined(a, m, x) = Joined(b, m, y)
  BY DEF Dash, Join, Joined
<1> HIDE DEF S, m
<1>3. QED
  BY <1>1, <1>2, First

LEMMA LastDash ==
    ASSUME NEW a \in Seq(Tokens), NEW b \in Seq(Tokens), NEW v \in Words, NEW w \in Words,
           Join(a, <<v>>) = Join(b, <<w>>)
    PROVE  a = b /\ v = w
<1> DEFINE S == Tokens
           m == "-"
<1>1. m \in S /\ a \in Seq(S) /\ b \in Seq(S) /\ v \in S /\ w \in S
  BY DashIsToken DEF Tokens
<1>2. Joined(a, m, <<v>>) = Joined(b, m, <<w>>)
  BY DEF Dash, Join, Joined
<1> HIDE DEF S, m
<1>3. QED
  BY <1>1, <1>2, Last

LEMMA ConcatTokens ==
    ASSUME NEW a \in Seq(Tokens), NEW b \in Seq(Tokens), NEW c \in Seq(Tokens)
    PROVE  (a \o b) \o c = a \o (b \o c)
<1> DEFINE S == Tokens
<1>1. a \in Seq(S) /\ b \in Seq(S) /\ c \in Seq(S)
  OBVIOUS
<1> HIDE DEF S
<1>2. QED
  BY <1>1, ConcatAssociative

LEMMA JoinedTwice ==
    ASSUME NEW t \in Seq(Tokens), NEW s \in Seq(Tokens), NEW n \in Seq(Tokens)
    PROVE  Join(Join(t, s), n) = Join(t, Join(s, n))
<1> DEFINE d == t \o Dash
           m == s \o Dash
<1>1. Dash \in Seq(Tokens)
  BY DashIsToken DEF Dash
<1>2. d \in Seq(Tokens) /\ m \in Seq(Tokens)
  BY <1>1
<1> HIDE DEF d
<1>3. (d \o s) \o Dash = d \o m
  BY <1>1, <1>2, ConcatTokens
<1>4. (d \o m) \o n = d \o (m \o n)
  <2>1. d \in Seq(Tokens) /\ m \in Seq(Tokens) /\ n \in Seq(Tokens)
    BY <1>2
  <2> HIDE DEF m
  <2>2. QED
    BY <2>1, ConcatTokens, SMTT(30)
<1>5. QED
  BY <1>3, <1>4 DEF d, m, Join

\* A span id, position by position.
LEMMA IdShape ==
    ASSUME NEW source \in Words, NEW ty \in Seq(Tokens), NEW rest \in Seq(Tokens)
    PROVE  /\ JoinedId(source, ty, rest) = <<"vstrace", "-", source, "-">> \o (ty \o Dash \o rest)
           /\ <<"vstrace", "-", source, "-">> \in Seq(Tokens)
           /\ ty \o Dash \o rest \in Seq(Tokens)
<1> DEFINE head == <<"vstrace", "-", source, "-">>
<1>1. head \in Seq(Tokens)
  <2>1. "vstrace" \in Tokens /\ source \in Tokens /\ "-" \in Tokens
    BY TokensAssumption DEF Tokens
  <2>2. QED
    BY <2>1
<1> HIDE DEF head
<1>2. Dash \in Seq(Tokens)
  BY DashIsToken DEF Dash
<1>3. ty \o Dash \in Seq(Tokens)
  BY <1>2
<1>4. ty \o Dash \o rest \in Seq(Tokens)
  BY <1>3
<1>5. (head \o ty) \o Dash = head \o (ty \o Dash)
  BY <1>1, <1>2, ConcatTokens
<1>6. (head \o (ty \o Dash)) \o rest = head \o ((ty \o Dash) \o rest)
  <2> DEFINE d == ty \o Dash
  <2>1. d \in Seq(Tokens)
    BY <1>3
  <2> HIDE DEF d
  <2>2. (head \o d) \o rest = head \o (d \o rest)
    BY <1>1, <2>1, ConcatTokens
  <2>3. QED
    BY <2>2 DEF d
<1>7. QED
  BY <1>1, <1>4, <1>5, <1>6 DEF JoinedId, head

\* Equal ids have the same source, and are joined from the same parts.
LEMMA SameIds ==
    ASSUME NEW p \in Words, NEW q \in Words, NEW a \in Seq(Tokens), NEW b \in Seq(Tokens),
           NEW x \in Seq(Tokens), NEW y \in Seq(Tokens), JoinedId(p, a, x) = JoinedId(q, b, y)
    PROVE  p = q /\ Join(a, x) = Join(b, y)
<1> DEFINE f == <<"vstrace", "-", p, "-">>
           g == <<"vstrace", "-", q, "-">>
           i == a \o Dash \o x
           j == b \o Dash \o y
<1>1. f \o i = g \o j /\ f \in Seq(Tokens) /\ g \in Seq(Tokens) /\ i \in Seq(Tokens) /\ j \in Seq(Tokens)
  <2>1. JoinedId(p, a, x) = f \o i /\ f \in Seq(Tokens) /\ i \in Seq(Tokens)
    BY IdShape
  <2>2. JoinedId(q, b, y) = g \o j /\ g \in Seq(Tokens) /\ j \in Seq(Tokens)
    BY IdShape
  <2>3. QED
    BY <2>1, <2>2
<1>2. Len(f) = 4 /\ f[3] = p /\ Len(g) = 4 /\ g[3] = q
  OBVIOUS
<1> HIDE DEF f, g, i, j
<1>3. /\ \A k \in 1 .. Len(f) : (f \o i)[k] = f[k]
      /\ \A k \in 1 .. Len(g) : (g \o j)[k] = g[k]
  BY <1>1
<1>4. p = q
  <2>1. 3 \in 1 .. Len(f) /\ 3 \in 1 .. Len(g)
    BY <1>2
  <2>2. (f \o i)[3] = f[3] /\ (g \o j)[3] = g[3]
    BY <1>3, <2>1
  <2>3. QED
    BY <1>1, <1>2, <2>2
<1>5. f = g
  BY <1>4 DEF f, g
<1>6. i = j
  <2>1. f \in Seq(Tokens) /\ i \in Seq(Tokens) /\ j \in Seq(Tokens)
    BY <1>1
  <2>2. /\ Len(f \o i) = Len(f) + Len(i) /\ Len(f \o j) = Len(f) + Len(j)
        /\ Len(i) \in Nat /\ Len(j) \in Nat
    BY <2>1
  <2>3. Len(i) = Len(j)
    BY <1>1, <1>2, <1>5, <2>2
  <2>4. \A k \in 1 .. Len(i) : (f \o i)[Len(f) + k] = i[k]
    BY <2>1
  <2>5. \A k \in 1 .. Len(j) : (f \o j)[Len(f) + k] = j[k]
    BY <2>1
  <2>6. f \o i = f \o j
    BY <1>1, <1>5
  <2> DEFINE h == f \o i
  <2>7. (\A k \in 1 .. Len(i) : h[Len(f) + k] = i[k]) /\ (\A k \in 1 .. Len(j) : h[Len(f) + k] = j[k])
    BY <2>4, <2>5, <2>6
  <2> HIDE DEF h
  <2>8. \A k \in 1 .. Len(i) : i[k] = j[k]
    BY <2>3, <2>7
  <2>9. QED
    BY <1>1, <2>3, <2>8, SeqEqual
<1>7. QED
  BY <1>4, <1>6 DEF i, j, Join

SourceOf ==
    [github_issue |-> "github", github_pr |-> "github", gitlab_issue |-> "gitlab",
     gitlab_merge |-> "gitlab", gitlab_pipeline |-> "gitlab", gitlab_job |-> "gitlab",
     jenkins |-> "jenkins", jira_sprint |-> "jiracloud", jira_issue |-> "jiracloud",
     customhttp |-> "customhttp"]

TypesOf(o) ==
    CASE Kind[o] \in {"github_issue", "gitlab_issue", "jira_issue"} -> {<<"issue">>}
      [] Kind[o] \in {"github_pr", "gitlab_merge"}                 -> {PullRequest}
      [] Kind[o] \in {"gitlab_pipeline", "gitlab_job"}             -> {<<"build">>}
      [] Kind[o] = "jira_sprint"                                   -> {<<"sprint">>}
      [] Kind[o] = "jenkins"                                       -> {<<"build">>, <<"deploy">>}
      [] Kind[o] = "customhttp"                                    -> {Of[o].type, Of[o].endType}

RestOf(o) ==
    IF Kind[o] = "jira_sprint" THEN Of[o].number ELSE Of[o].scope \o Dash \o Of[o].number

LEMMA PartsAreStrings ==
    ASSUME NEW o \in Objects
    PROVE  /\ Of[o].scope \in Seq(Tokens) /\ Of[o].number \in Seq(Tokens)
           /\ Of[o].type \in Seq(Tokens) /\ Of[o].endType \in Seq(Tokens) /\ Of[o].text \in Seq(Tokens)
           /\ RestOf(o) \in Seq(Tokens) /\ SourceOf[Kind[o]] \in Words
           /\ TypesOf(o) \subseteq Seq(Tokens)
<1>1. /\ Of[o].scope \in Seq(Tokens) /\ Of[o].number \in Seq(Tokens)
      /\ Of[o].type \in Seq(Tokens) /\ Of[o].endType \in Seq(Tokens) /\ Of[o].text \in Seq(Tokens)
  BY ObjectsAssumption
<1>2. Dash \in Seq(Tokens)
  BY DashIsToken DEF Dash
<1>3. Of[o].scope \o Dash \o Of[o].number \in Seq(Tokens)
  <2>1. Of[o].scope \o Dash \in Seq(Tokens)
    BY <1>1, <1>2
  <2>2. QED
    BY <1>1, <2>1
<1>4. Kind[o] \in Kinds
  BY KindsAreKnown
<1>5. SourceOf[Kind[o]] \in Words
  <2>1. SourceOf[Kind[o]] \in {"github", "gitlab", "jenkins", "jiracloud", "customhttp"}
    BY <1>4 DEF Kinds, SourceOf
  <2>2. QED
    BY <2>1, TokensAssumption
<1>6. \A ty \in {<<"issue">>, PullRequest, <<"build">>, <<"sprint">>, <<"deploy">>} : ty \in Seq(Tokens)
  <2>1. /\ "issue" \in Tokens /\ "build" \in Tokens /\ "sprint" \in Tokens /\ "deploy" \in Tokens
        /\ "pull" \in Tokens /\ "_" \in Tokens /\ "request" \in Tokens
    BY TokensAssumption DEF Tokens
  <2>2. \A w \in Tokens : <<w>> \in Seq(Tokens)
    OBVIOUS
  <2>3. \A v, w, z \in Tokens : <<v, w, z>> \in Seq(Tokens)
    OBVIOUS
  <2>4. QED
    BY <2>1, <2>2, <2>3 DEF PullRequest
<1>7. TypesOf(o) \subseteq Seq(Tokens)
  BY <1>1, <1>4, <1>6 DEF TypesOf, Kinds
<1>8. QED
  BY <1>1, <1>3, <1>5, <1>7 DEF RestOf

\* Every id is joined from the source, a type and the rest.
LEMMA IdForm ==
    ASSUME NEW o \in Objects, NEW e \in OwnEvents(o)
    PROVE  \E ty \in TypesOf(o) : e.id = JoinedId(SourceOf[Kind[o]], ty, RestOf(o))
<1> DEFINE p == Payload(o, e.status)
<1>1. e.id = SpanID(p)
  BY EventFields DEF Event
<1>2. p.kind = Kind[o] /\ p.scope = Of[o].scope /\ p.number = Of[o].number
      /\ p.type \in {Of[o].type, Of[o].endType}
  BY DEF Payload
<1>3. OperationName(p) \in {<<"build">>, <<"deploy">>}
  BY DEF OperationName
<1> HIDE DEF p
<1>4. Kind[o] \in Kinds
  BY KindsAreKnown
<1>5. CASE Kind[o] \in {"github_issue", "gitlab_issue", "jira_issue"}
  BY <1>1, <1>2, <1>5
  DEF SpanID, GitHubIssueSpanID, GitLabIssueSpanID, JiraIssueSpanID, Numbered, SourceOf, TypesOf, RestOf
<1>6. CASE Kind[o] \in {"github_pr", "gitlab_merge"}
  BY <1>1, <1>2, <1>6
  DEF SpanID, GitHubPullRequestSpanID, MergeSpanID, Numbered, SourceOf, TypesOf, RestOf
<1>7. CASE Kind[o] \in {"gitlab_pipeline", "gitlab_job"}
  BY <1>1, <1>2, <1>7 DEF SpanID, PipelineSpanID, JobSpanID, Numbered, SourceOf, TypesOf, RestOf
<1>8. CASE Kind[o] = "jira_sprint"
  BY <1>1, <1>2, <1>8 DEF SpanID, SprintSpanID, SourceOf, TypesOf, RestOf
<1>9. CASE Kind[o] = "jenkins"
  BY <1>1, <1>2, <1>3, <1>9 DEF SpanID, JenkinsSpanID, Numbered, SourceOf, TypesOf, RestOf
<1>10. CASE Kind[o] = "customhttp"
  BY <1>1, <1>2, <1>10 DEF SpanID, CustomSpanID, Numbered, SourceOf, TypesOf, RestOf
<1>11. QED
  BY <1>4, <1>5, <1>6, <1>7, <1>8, <1>9, <1>10 DEF Kinds

LEMMA TypesDiffer ==
    /\ <<"issue">> # PullRequest /\ <<"build">> # PullRequest /\ <<"issue">> # <<"build">>
    /\ <<"sprint">> # <<"issue">>
<1>1. Len(PullRequest) = 3 /\ Len(<<"issue">>) = 1 /\ Len(<<"build">>) = 1
  BY DEF PullRequest
<1>2. <<"issue">>[1] = "issue" /\ <<"build">>[1] = "build" /\ <<"sprint">>[1] = "sprint"
  OBVIOUS
<1>3. QED
  BY <1>1, <1>2

LEMMA WordTypesHaveNoDash ==
    ASSUME NEW o \in Objects, Kind[o] # "customhttp", NEW t \in TypesOf(o)
    PROVE  \A k \in 1 .. Len(t) : t[k] # "-"
<1>1. Kind[o] \in Kinds
  BY KindsAreKnown
<1>2. t \in {<<"issue">>, PullRequest, <<"build">>, <<"sprint">>, <<"deploy">>}
  BY <1>1 DEF Kinds, TypesOf
<1>3. CASE t = PullRequest
  <2>1. Len(t) = 3 /\ t[1] = "pull" /\ t[2] = "_" /\ t[3] = "request"
    BY <1>3 DEF PullRequest
  <2>2. \A k \in 1 .. 3 : k = 1 \/ k = 2 \/ k = 3
    OBVIOUS
  <2>3. QED
    BY <2>1, <2>2
<1>4. CASE t # PullRequest
  <2>1. Len(t) = 1 /\ t[1] \in {"issue", "build", "sprint", "deploy"}
    BY <1>2, <1>4
  <2>2. QED
    BY <2>1
<1>5. QED
  BY <1>3, <1>4

LEMMA StartIdIsOwn ==
    ASSUME NEW o \in Objects
    PROVE  EventOf[o]["none"] \in OwnEvents(o) /\ StartId[o] = SpanID(Payload(o, "none"))
<1>1. "none" \in Statuses(o)
  BY DEF Statuses
<1>2. EventOf[o]["none"] = Event(o, "none")
  BY <1>1, EventsOfStatus
<1>3. EventOf[o]["none"].id = SpanID(Payload(o, "none"))
  BY <1>2 DEF Event
<1>4. QED
  BY <1>1, <1>3 DEF OwnEvents, StartId

\* Only the end of a Jenkins build or of a custom event may have another id.
LEMMA StartsUnderStartId ==
    ASSUME NEW o \in Objects, NEW e \in OwnEvents(o), e.state \in {"start", "transition"}
    PROVE  e.id = StartId[o]
<1> DEFINE p == Payload(o, e.status)
           n == Payload(o, "none")
<1>1. e.id = SpanID(p) /\ e.state = State(p) /\ StartId[o] = SpanID(n)
  BY EventFields, StartIdIsOwn DEF Event
<1>2. /\ p.kind = Kind[o] /\ p.scope = n.scope /\ p.number = n.number /\ p.status = e.status
      /\ n.kind = Kind[o] /\ "none" \notin Over
      /\ e.status \notin Over => p.type = n.type
  BY DEF Payload, Over
<1> HIDE DEF p, n
<1>3. Kind[o] \in Kinds
  BY KindsAreKnown
<1>4. CASE Kind[o] \in {"jenkins", "customhttp"}
  <2>1. e.status \in {"INPROGRESS", "start"}
    BY <1>1, <1>2, <1>4 DEF State, JenkinsState, CustomState
  <2>2. p.type = n.type
    BY <1>2, <2>1 DEF Over
  <2>3. OperationName(p) = OperationName(n) /\ Numbered(p) = Numbered(n)
    BY <1>2, <2>2 DEF OperationName, Numbered
  <2>4. QED
    BY <1>1, <1>2, <1>4, <2>2, <2>3 DEF SpanID, JenkinsSpanID, CustomSpanID
<1>5. CASE Kind[o] \notin {"jenkins", "customhttp"}
  <2>1. Numbered(p) = Numbered(n)
    BY <1>2 DEF Numbered
  <2>2. SpanID(p) = SpanID(n)
    BY <1>2, <1>3, <1>5, <2>1
    DEF SpanID, GitHubIssueSpanID, GitHubPullRequestSpanID, GitLabIssueSpanID, MergeSpanID,
        PipelineSpanID, JobSpanID, SprintSpanID, JiraIssueSpanID, Kinds
  <2>3. QED
    BY <1>1, <2>2
<1>6. QED
  BY <1>4, <1>5

\* SpanID of the five sources: objects that share an id agree in their kind, in the
\* short name of their repository or project, and in their number.  Custom events
\* share one, too, if their parts read the same when they are joined with dashes,
\* for which one of them must have a dash before its identifier.
THEOREM SameIdMeansTwins ==
    ASSUME NEW o \in Objects, NEW q \in Objects, NEW e \in OwnEvents(o), NEW f \in OwnEvents(q),
           e.id = f.id
    PROVE  o = q \/ Twins(o, q) \/ (Confusable(o, q) /\ (Dashed(o) \/ Dashed(q)))
<1>1. Kind[o] \in Kinds /\ Kind[q] \in Kinds
  BY KindsAreKnown
<1>2. PICK t \in TypesOf(o) : e.id = JoinedId(SourceOf[Kind[o]], t, RestOf(o))
  BY IdForm
<1>3. PICK u \in TypesOf(q) : f.id = JoinedId(SourceOf[Kind[q]], u, RestOf(q))
  BY IdForm
<1>4. /\ t \in Seq(Tokens) /\ u \in Seq(Tokens)
      /\ RestOf(o) \in Seq(Tokens) /\ RestOf(q) \in Seq(Tokens)
      /\ SourceOf[Kind[o]] \in Words /\ SourceOf[Kind[q]] \in Words
  BY PartsAreStrings
<1>5. SourceOf[Kind[o]] = SourceOf[Kind[q]] /\ Join(t, RestOf(o)) = Join(u, RestOf(q))
  <2> DEFINE p == SourceOf[Kind[o]]
             r == SourceOf[Kind[q]]
             x == RestOf(o)
             y == RestOf(q)
  <2>1. JoinedId(p, t, x) = JoinedId(r, u, y)
    BY <1>2, <1>3
  <2>2. /\ t \in Seq(Tokens) /\ u \in Seq(Tokens) /\ x \in Seq(Tokens) /\ y \in Seq(Tokens)
        /\ p \in Words /\ r \in Words
    BY <1>4
  <2> HIDE DEF p, r, x, y
  <2>3. p = r /\ Join(t, x) = Join(u, y)
    BY <2>1, <2>2, SameIds
  <2>4. QED
    BY <2>3 DEF p, r, x, y
<1>6. CASE Kind[o] # "customhttp"
  <2>1. Kind[q] # "customhttp"
    BY <1>1, <1>5, <1>6 DEF Kinds, SourceOf
  <2>2. \A k \in 1 .. Len(t) : t[k] # "-"
    BY <1>1, <1>6, DashIsToken, WordTypesHaveNoDash
  <2>3. \A k \in 1 .. Len(u) : u[k] # "-"
    BY <1>1, <2>1, WordTypesHaveNoDash
  <2>4. t = u /\ RestOf(o) = RestOf(q)
    <3> DEFINE x == RestOf(o)
               y == RestOf(q)
    <3>1. /\ t \in Seq(Tokens) /\ u \in Seq(Tokens) /\ x \in Seq(Tokens) /\ y \in Seq(Tokens)
          /\ Join(t, x) = Join(u, y)
      BY <1>4, <1>5
    <3> HIDE DEF x, y
    <3>2. t = u /\ x = y
      BY <2>2, <2>3, <3>1, FirstDash
    <3>3. QED
      BY <3>2 DEF x, y
  <2>5. \/ Kind[o] = Kind[q]
        \/ Kind[o] = "gitlab_pipeline" /\ Kind[q] = "gitlab_job"
        \/ Kind[q] = "gitlab_pipeline" /\ Kind[o] = "gitlab_job"
    BY <1>1, <1>5, <1>6, <2>1, <2>4, TypesDiffer DEF Kinds, SourceOf, TypesOf
  <2>6. CASE Kind[o] = "jira_sprint"
    BY <2>4, <2>5, <2>6, ObjectsAssumption DEF RestOf, Twins
  <2>7. CASE Kind[o] # "jira_sprint"
    <3>1. PICK v \in Words : Of[o].number = <<v>>
      BY <1>6, ObjectsAssumption
    <3>2. PICK w \in Words : Of[q].number = <<w>>
      BY <2>1, ObjectsAssumption
    <3>3. Join(Of[o].scope, <<v>>) = Join(Of[q].scope, <<w>>)
      BY <2>4, <2>5, <2>7, <3>1, <3>2 DEF RestOf, Join
    <3>4. Of[o].scope = Of[q].scope /\ v = w
      BY <3>3, PartsAreStrings, LastDash
    <3>5. QED
      BY <2>5, <3>1, <3>2, <3>4, ObjectsAssumption DEF Twins
  <2>8. QED
    BY <2>6, <2>7
<1>7. CASE Kind[o] = "customhttp"
  <2>1. Kind[q] = "customhttp"
    BY <1>1, <1>5, <1>7 DEF Kinds, SourceOf
  <2>2. /\ t \in {Of[o].type, Of[o].endType} /\ RestOf(o) = Join(Of[o].scope, Of[o].number)
        /\ u \in {Of[q].type, Of[q].endType} /\ RestOf(q) = Join(Of[q].scope, Of[q].number)
    BY <1>7, <2>1 DEF TypesOf, RestOf, Join
  <2> DEFINE s == Of[o].scope
             r == Of[q].scope
             m == Of[o].number
             n == Of[q].number
  <2>3. /\ t \in Seq(Tokens) /\ u \in Seq(Tokens) /\ s \in Seq(Tokens) /\ r \in Seq(Tokens)
        /\ m \in Seq(Tokens) /\ n \in Seq(Tokens)
    BY <1>4, PartsAreStrings
  <2>4. Join(t, Join(s, m)) = Join(u, Join(r, n))
    BY <1>5, <2>2
  <2>5. ~Dashed(o) => (\A k \in 1 .. Len(t) : t[k] # "-") /\ \A k \in 1 .. Len(s) : s[k] # "-"
    BY <2>2, <2>3 DEF Dashed
  <2>6. ~Dashed(q) => (\A k \in 1 .. Len(u) : u[k] # "-") /\ \A k \in 1 .. Len(r) : r[k] # "-"
    BY <2>2, <2>3 DEF Dashed
  <2> HIDE DEF s, r, m, n
  <2>7. Join(Join(t, s), m) = Join(Join(u, r), n)
    BY <2>3, <2>4, JoinedTwice
  <2>8. o # q => Confusable(o, q)
    BY <1>7, <2>1, <2>2, <2>7, Zenon DEF Confusable, Join, s, r, m, n
  <2>9. ASSUME ~Dashed(o), ~Dashed(q) PROVE s = r /\ m = n
    <3>1. Join(s, m) \in Seq(Tokens) /\ Join(r, n) \in Seq(Tokens)
      BY <1>4, <2>2 DEF s, r, m, n
    <3>2. Join(s, m) = Join(r, n)
      <4> DEFINE i == Join(s, m)
                 j == Join(r, n)
      <4>1. i \in Seq(Tokens) /\ j \in Seq(Tokens) /\ Join(t, i) = Join(u, j)
        BY <2>4, <3>1
      <4> HIDE DEF i, j
      <4>2. i = j
        BY <2>3, <2>5, <2>6, <2>9, <4>1, FirstDash
      <4>3. QED
        BY <4>2 DEF i, j
    <3>3. QED
      BY <2>3, <2>5, <2>6, <2>9, <3>2, FirstDash
  <2>10. QED
    BY <1>7, <2>1, <2>8, <2>9 DEF Twins, s, r, m, n
<1>8. QED
  BY <1>6, <1>7

-----------------------------------------------------------------------------
\* What a step of the system does to the objects, their webhooks and the spans.
bystanders == <<live, held, disturbed, crashed, boundary>>

\* An object changes, and its webhook arrives at once, ...
Advances(o, e) ==
    e \in Following(o) /\ Turn(o, e) /\ Deliver(o, e) /\ UNCHANGED bystanders

\* ... or not now, ...
Misses(o, e) ==
    /\ e \in Following(o) /\ Turn(o, e)
    /\ disturbed' = disturbed \cup {o}
    /\ UNCHANGED held \/ held' = [held EXCEPT ![o] = {e}]
    /\ UNCHANGED <<live, deliveryVars, spanVars, crashed, boundary>>

\* ... but later, or again.
Repeats(o, e) ==
    /\ Deliver(o, e)
    /\ \/ /\ e \in held[o]
          /\ held' = [held EXCEPT ![o] = @ \ {e}]
          /\ UNCHANGED disturbed
       \/ /\ e = event[o] /\ e.status # "none"
          /\ disturbed' = disturbed \cup {o}
          /\ UNCHANGED held
    /\ UNCHANGED <<live, status, crashed, boundary>>

Starts(o) == Start(o) /\ UNCHANGED bystanders

Ends(o) == End(o) /\ UNCHANGED bystanders

Rests == UNCHANGED <<live, status, deliveryVars, spanVars, held, disturbed, crashed, boundary>>

\* Where the generator is waiting for an answer or sleeping, it has drawn an object.
HandsInv ==
    /\ hand \in [Loops -> live \cup {NoObject}]
    /\ loop \in [Loops -> {"tick", "creating", "sleeping", "closing", "cut", "dead"}]
    /\ \A l \in Loops : loop[l] \in {"creating", "sleeping", "closing"} => hand[l] \in live
    /\ live \in Scenarios

LEMMA PostAdvances ==
    ASSUME HandsInv, Generating, NEW l \in Loops, NEW o \in live, NEW sts, NEW next, Post(l, o, sts, next)
    PROVE  \E e \in Following(o) : Advances(o, e)
BY DEF Post, Advances, faultVars, bystanders

LEMMA StepCases ==
    ASSUME HandsInv, [Step]_systemVars
    PROVE  \/ Rests \/ Crash
           \/ \E o \in live : Starts(o) \/ Ends(o)
           \/ \E o \in live : \E e : Advances(o, e) \/ Misses(o, e) \/ Repeats(o, e)
<1>1. CASE UNCHANGED systemVars
  BY <1>1 DEF systemVars, allVars, vars, faultVars, Rests
<1>2. CASE Generating /\ GeneratorNext
  <2>1. ASSUME NEW l \in Loops, Create(l)
        PROVE  \E o \in live : \E e : Advances(o, e)
    BY <1>2, <2>1, PostAdvances DEF Create, Draws, Generating
  <2>2. ASSUME NEW l \in Loops, Close(l)
        PROVE  \E o \in live : \E e : Advances(o, e)
    BY <1>2, <2>2, PostAdvances DEF Close, HandsInv
  <2>3. CASE Panic \/ Rerun \/ \E l \in Loops : Answered(l)
    BY <2>3 DEF Panic, Rerun, Answered, allVars, vars, faultVars, Rests
  <2>4. CASE \E o \in live : Work(o)
    BY <2>4 DEF Work, faultVars, bystanders, Starts, Ends
  <2>5. CASE CutOff
    BY <2>5 DEF CutOff
  <2>6. CASE Boot
    BY <2>6 DEF Boot, vars, Rests
  <2>7. QED
    BY <1>2, <2>1, <2>2, <2>3, <2>4, <2>5, <2>6 DEF GeneratorNext
<1>3. CASE DeliveriesNext
  <2>1. ASSUME NEW o \in live, Regular(o)
        PROVE  Starts(o) \/ Ends(o) \/ \E e : Advances(o, e)
    BY <2>1 DEF Regular, Change, faultVars, bystanders, Starts, Ends, Advances
  <2>2. ASSUME NEW o \in live, Lose(o) \/ HoldBack(o)
        PROVE  \E e : Misses(o, e)
    BY <2>2 DEF Lose, HoldBack, Mishap, Misses
  <2>3. ASSUME NEW o \in live, DeliverLate(o) \/ DeliverAgain(o)
        PROVE  \E e : Repeats(o, e)
    BY <2>3 DEF DeliverLate, DeliverAgain, Mishap, Repeats
  <2>4. CASE Boot
    BY <2>4 DEF Boot, vars, Rests
  <2>5. QED
    BY <1>3, <2>1, <2>2, <2>3, <2>4 DEF DeliveriesNext
<1>4. QED
  BY <1>1, <1>2, <1>3 DEF Step

-----------------------------------------------------------------------------
EventStates == {"start", "end", "transition", "ignored"}
Plans == {<<>>, <<"start">>, <<"end">>, <<"end", "start">>}
Unread == {"malformed", "panic"}

LEMMA StateIsKnown ==
    ASSUME NEW o \in Objects, NEW e \in OwnEvents(o)
    PROVE  e.state \in EventStates
<1> DEFINE p == Payload(o, e.status)
<1>1. e.state = State(p)
  BY EventFields DEF Event
<1>2. p.kind \in Kinds
  BY KindsAreKnown DEF Payload
<1> HIDE DEF p
<1>3. QED
  BY <1>1, <1>2 DEF Kinds, State, GitHubState, GitLabState, PipelineState, JobState, JenkinsState,
       SprintState, JiraIssueState, CustomState, EventStates

LEMMA EffectsOf ==
    /\ Effects("start") = <<"start">> /\ Effects("end") = <<"end">>
    /\ Effects("transition") = <<"end", "start">> /\ Effects("ignored") = <<>>
BY DEF Effects

\* The deliveries of each object are its own, one at a time, and are handled
\* step by step; what is late, or not what the object is like by now, was disturbed.
DeliveryInv ==
    /\ live \subseteq Objects /\ disturbed \subseteq live
    /\ status \in [live -> AllStatuses] /\ \A o \in live : status[o] \in Statuses(o)
    /\ event \in [live -> Events] /\ \A o \in live : event[o] \in OwnEvents(o)
    /\ held \in [live -> SUBSET Events] /\ \A o \in live : held[o] \subseteq OwnEvents(o)
    /\ todo \in [live -> Plans]
    /\ answer \in [live -> {"none", "200", "400", "aborted"}]
    /\ \A o \in live :
         /\ held[o] # {} \/ event[o].status # status[o] => o \in disturbed
         /\ todo[o] # <<>> => event[o].fault \notin Unread
         /\ todo[o] = <<"end">> => event[o].state = "end"
         /\ todo[o] = <<"end", "start">> => event[o].state = "transition"
         /\ todo[o] = <<"start">> => event[o].state \in {"start", "transition"}

LEMMA DeliverDoes ==
    ASSUME DeliveryInv, NEW o \in live, NEW e \in OwnEvents(o), Deliver(o, e)
    PROVE  /\ UNCHANGED spanVars /\ todo[o] = <<>>
           /\ event' = [event EXCEPT ![o] = e]
           /\ todo' \in [live -> Plans]
           /\ answer' \in [live -> {"none", "200", "400", "aborted"}]
           /\ e.fault \in Unread => todo'[o] = <<>> /\ answer'[o] # "200"
           /\ e.fault \notin Unread => todo'[o] = Effects(e.state) /\ answer'[o] = "200"
           /\ \A q \in live \ {o} : todo'[q] = todo[q] /\ answer'[q] = answer[q]
<1>1. /\ UNCHANGED spanVars /\ todo[o] = <<>>
      /\ event' = [event EXCEPT ![o] = e]
  BY DEF Deliver
<1>2. e.state \in EventStates
  BY StateIsKnown DEF DeliveryInv
<1>3. Effects(e.state) \in Plans
  BY <1>2, EffectsOf DEF EventStates, Plans
<1>4. /\ todo' = [todo EXCEPT ![o] = IF e.fault \in Unread THEN <<>> ELSE Effects(e.state)]
  BY DEF Deliver, Unread
<1>5. PICK a : /\ answer' = [answer EXCEPT ![o] = a]
               /\ a = CASE e.fault = "malformed" -> "400"
                        [] e.fault = "panic"     -> "aborted"
                        [] OTHER                 -> "200"
  BY DEF Deliver
<1>6. /\ a \in {"200", "400", "aborted"}
      /\ e.fault \in Unread <=> a # "200"
  BY <1>5 DEF Unread
<1>7. <<>> \in Plans
  BY DEF Plans
<1>8. /\ answer' \in [live -> {"none", "200", "400", "aborted"}] /\ answer'[o] = a
      /\ \A q \in live \ {o} : answer'[q] = answer[q]
  BY <1>5, <1>6 DEF DeliveryInv
<1>9. /\ todo' \in [live -> Plans]
      /\ todo'[o] = IF e.fault \in Unread THEN <<>> ELSE Effects(e.state)
      /\ \A q \in live \ {o} : todo'[q] = todo[q]
  BY <1>3, <1>4, <1>7 DEF DeliveryInv
<1>10. QED
  BY <1>1, <1>6, <1>8, <1>9

LEMMA PlansDiffer ==
    /\ <<>> # <<"start">> /\ <<>> # <<"end">> /\ <<>> # <<"end", "start">>
    /\ <<"start">> # <<"end">> /\ <<"start">> # <<"end", "start">> /\ <<"end">> # <<"end", "start">>
<1>1. /\ Len(<<>>) = 0 /\ Len(<<"start">>) = 1 /\ Len(<<"end">>) = 1
      /\ Len(<<"end", "start">>) = 2
  OBVIOUS
<1>2. <<"start">>[1] = "start" /\ <<"end">>[1] = "end"
  OBVIOUS
<1>3. QED
  BY <1>1, <1>2

Answers == {"none", "200", "400", "aborted"}

LEMMA PlanSteps ==
    ASSUME DeliveryInv, NEW o \in live
    PROVE  /\ Start(o) => /\ todo[o] = <<"start">>
                          /\ todo' = [todo EXCEPT ![o] = <<>>]
           /\ End(o) => \/ todo[o] = <<"end">> /\ todo' = [todo EXCEPT ![o] = <<>>]
                        \/ todo[o] = <<"end", "start">> /\ todo' = [todo EXCEPT ![o] = <<"start">>]
<1>1. todo[o] \in Plans
  BY DEF DeliveryInv
<1>2. /\ Head(<<"start">>) = "start" /\ Head(<<"end">>) = "end" /\ Head(<<"end", "start">>) = "end"
      /\ Tail(<<"start">>) = <<>> /\ Tail(<<"end">>) = <<>> /\ Tail(<<"end", "start">>) = <<"start">>
  OBVIOUS
<1>3. Start(o) => /\ todo[o] # <<>> /\ Head(todo[o]) = "start"
                  /\ todo' = [todo EXCEPT ![o] = Tail(todo[o])]
  BY DEF Start
<1>4. End(o) => /\ todo[o] # <<>> /\ Head(todo[o]) = "end"
                /\ todo' = [todo EXCEPT ![o] = Tail(todo[o])]
  BY DEF End
<1>5. QED
  BY <1>1, <1>2, <1>3, <1>4 DEF Plans

\* The answer that a handler gives in the end is to its own delivery.
LEMMA AnswerSteps ==
    ASSUME DeliveryInv, NEW o \in live, Start(o) \/ End(o)
    PROVE  /\ answer' \in [live -> Answers]
           /\ \A q \in live \ {o} : answer'[q] = answer[q]
<1>1. answer \in [live -> Answers]
  BY DEF DeliveryInv, Answers
<1>2. ASSUME NEW a \in Answers, answer' = [answer EXCEPT ![o] = a]
      PROVE  /\ answer' \in [live -> Answers]
             /\ \A q \in live \ {o} : answer'[q] = answer[q]
  BY <1>1, <1>2
<1>3. CASE StartFails(o)
  BY <1>2, <1>3 DEF StartFails, Answers
<1>4. CASE \E s : StartSpanOnly(o, s)
  BY <1>2, <1>4 DEF StartSpanOnly, Answers
<1>5. CASE EndFails(o)
  BY <1>1, <1>2, <1>5 DEF EndFails, Answers
<1>6. CASE UNCHANGED answer
  BY <1>1, <1>6
<1>7. QED
  BY <1>3, <1>4, <1>5, <1>6 DEF Start, End, StartAndStore, EndAndDelete

\* What is planned for an event that arrives fits its state.
LEMMA PlanOfEvent ==
    ASSUME DeliveryInv, NEW o \in live, NEW e \in OwnEvents(o), Deliver(o, e)
    PROVE  /\ todo'[o] # <<>> => e.fault \notin Unread
           /\ todo'[o] = <<"end">> => e.state = "end"
           /\ todo'[o] = <<"end", "start">> => e.state = "transition"
           /\ todo'[o] = <<"start">> => e.state \in {"start", "transition"}
<1>1. todo'[o] = <<>> \/ todo'[o] = Effects(e.state)
  BY DeliverDoes
<1>2. e.fault \in Unread => todo'[o] = <<>>
  BY DeliverDoes
<1>3. e.state \in EventStates
  BY StateIsKnown DEF DeliveryInv
<1>4. CASE todo'[o] = <<>>
  BY <1>4, PlansDiffer
<1>5. CASE todo'[o] = Effects(e.state)
  <2>1. \/ e.state = "start" /\ todo'[o] = <<"start">>
        \/ e.state = "end" /\ todo'[o] = <<"end">>
        \/ e.state = "transition" /\ todo'[o] = <<"end", "start">>
        \/ e.state = "ignored" /\ todo'[o] = <<>>
    BY <1>3, <1>5, EffectsOf DEF EventStates
  <2>2. QED
    BY <1>2, <2>1, PlansDiffer
<1>6. QED
  BY <1>1, <1>4, <1>5

LEMMA DeliveryInvKept ==
    ASSUME DeliveryInv, HandsInv, [Step]_systemVars
    PROVE  DeliveryInv'
<1>1. CASE Rests
  BY <1>1 DEF Rests, deliveryVars, DeliveryInv
<1>2. CASE Crash
  BY <1>2 DEF Crash, DeliveryInv, Plans
<1>3. ASSUME NEW o \in live, Starts(o) \/ Ends(o)
      PROVE  DeliveryInv'
  <2>1. UNCHANGED <<live, disturbed, status, event, held>>
    BY <1>3 DEF Starts, Ends, bystanders, Start, End
  <2>2. answer' \in [live -> {"none", "200", "400", "aborted"}]
    BY <1>3, AnswerSteps DEF Starts, Ends, Answers
  <2>3. /\ todo' \in [live -> Plans] /\ \A q \in live \ {o} : todo'[q] = todo[q]
        /\ \/ todo'[o] = <<>>
           \/ todo[o] = <<"end", "start">> /\ todo'[o] = <<"start">>
    BY <1>3, PlanSteps DEF Starts, Ends, DeliveryInv, Plans
  <2>4. \A q \in live :
            /\ todo'[q] # <<>> => todo[q] # <<>>
            /\ todo'[q] = <<"end">> => todo[q] = <<"end">>
            /\ todo'[q] = <<"end", "start">> => todo[q] = <<"end", "start">>
            /\ todo'[q] = <<"start">> => todo[q] \in {<<"start">>, <<"end", "start">>}
    BY <2>3, PlansDiffer
  <2>5. QED
    BY <2>1, <2>2, <2>3, <2>4 DEF DeliveryInv
<1>4. ASSUME NEW o \in live, NEW e, Advances(o, e)
      PROVE  DeliveryInv'
  <2>1. /\ e \in OwnEvents(o) /\ Deliver(o, e) /\ UNCHANGED <<live, disturbed, held>>
        /\ status' = [status EXCEPT ![o] = e.status]
    BY <1>4, FollowingIsOwn DEF Advances, bystanders, Turn, DeliveryInv
  <2>2. e \in Events /\ e.status \in Statuses(o) /\ e.status \in AllStatuses
    BY <2>1, EventFields DEF DeliveryInv, AllStatuses
  <2>3. e.state \in EventStates
    BY <2>1, StateIsKnown DEF DeliveryInv
  <2>4. /\ event' \in [live -> Events] /\ event'[o] = e
        /\ \A q \in live \ {o} : event'[q] = event[q]
    BY <2>1, <2>2, DeliverDoes DEF DeliveryInv
  <2>5. /\ todo'[o] # <<>> => e.fault \notin Unread
        /\ todo'[o] = <<"end">> => e.state = "end"
        /\ todo'[o] = <<"end", "start">> => e.state = "transition"
        /\ todo'[o] = <<"start">> => e.state \in {"start", "transition"}
    BY <2>1, PlanOfEvent
  <2>6. /\ status' \in [live -> AllStatuses] /\ status'[o] = e.status
        /\ \A q \in live \ {o} : status'[q] = status[q]
    BY <2>1, <2>2 DEF DeliveryInv
  <2>7. QED
    BY <2>1, <2>2, <2>4, <2>5, <2>6, DeliverDoes, SMTT(30) DEF DeliveryInv
<1>5. ASSUME NEW o \in live, NEW e, Misses(o, e)
      PROVE  DeliveryInv'
  <2>1. /\ e \in OwnEvents(o) /\ UNCHANGED <<live, event, todo, answer>>
        /\ status' = [status EXCEPT ![o] = e.status] /\ disturbed' = disturbed \cup {o}
        /\ UNCHANGED held \/ held' = [held EXCEPT ![o] = {e}]
    BY <1>5, FollowingIsOwn DEF Misses, deliveryVars, Turn, DeliveryInv
  <2>2. e \in Events /\ e.status \in Statuses(o) /\ e.status \in AllStatuses
    BY <2>1, EventFields DEF DeliveryInv, AllStatuses
  <2>3. QED
    BY <2>1, <2>2 DEF DeliveryInv
<1>6. ASSUME NEW o \in live, NEW e, Repeats(o, e)
      PROVE  DeliveryInv'
  <2>1. /\ e \in OwnEvents(o) /\ Deliver(o, e) /\ UNCHANGED <<live, status>>
        /\ o \in disturbed' /\ disturbed \subseteq disturbed' /\ disturbed' \subseteq live'
        /\ UNCHANGED held \/ held' = [held EXCEPT ![o] = @ \ {e}]
    BY <1>6 DEF Repeats, DeliveryInv
  <2>2. e \in Events
    BY <2>1, EventFields DEF DeliveryInv
  <2>3. e.state \in EventStates
    BY <2>1, StateIsKnown DEF DeliveryInv
  <2>4. /\ held' \in [live -> SUBSET Events]
        /\ \A q \in live : held'[q] \subseteq held[q]
        /\ \A q \in live \ {o} : held'[q] = held[q]
    BY <2>1 DEF DeliveryInv
  <2>5. /\ event' \in [live -> Events] /\ event'[o] = e
        /\ \A q \in live \ {o} : event'[q] = event[q]
    BY <2>1, <2>2, DeliverDoes DEF DeliveryInv
  <2>6. /\ todo'[o] # <<>> => e.fault \notin Unread
        /\ todo'[o] = <<"end">> => e.state = "end"
        /\ todo'[o] = <<"end", "start">> => e.state = "transition"
        /\ todo'[o] = <<"start">> => e.state \in {"start", "transition"}
    BY <2>1, PlanOfEvent
  <2>7. QED
    BY <2>1, <2>4, <2>5, <2>6, DeliverDoes DEF DeliveryInv
<1>7. QED
  BY <1>1, <1>2, <1>3, <1>4, <1>5, <1>6, StepCases

-----------------------------------------------------------------------------
SpansTyped ==
    /\ tracked \in [DOMAIN tracked -> Span \cup {NoSpan}] /\ DOMAIN tracked \subseteq Ids
    /\ \A o \in live : \A e \in OwnEvents(o) : e.id \in DOMAIN tracked
    /\ finished \subseteq Span /\ lost \subseteq Span
    /\ failed \subseteq finished /\ refused \subseteq lost /\ crashed \subseteq lost
    /\ about \in [Span -> live \cup {NoObject}]
    /\ parent \in [Span -> Span \cup {NoSpan}]
    /\ closedBy \in [Span -> live \cup {NoObject}]
    /\ boundary \in 0 .. MaxStarts

\* A span that was started is in one place: found under one id, of its object,
\* or finished, by its object or one that shares its id, or lost.
PlacesInv ==
    /\ \A i \in DOMAIN tracked : tracked[i] # NoSpan =>
         /\ tracked[i] \notin finished /\ tracked[i] \notin lost
         /\ about[tracked[i]] # NoObject
         /\ \E e \in OwnEvents(about[tracked[i]]) : e.id = i
         /\ \A j \in DOMAIN tracked : tracked[j] = tracked[i] => i = j
    /\ finished \cap lost = {}
    /\ \A s \in finished \cup lost : about[s] # NoObject
    /\ \A s \in Span : about[s] # NoObject => s \in T!TrackedSpans \cup finished \cup lost
    /\ \A s \in Span : closedBy[s] # NoObject <=> s \in finished
    /\ \A i \in DOMAIN tracked : tracked[i] # NoSpan => i = StartId[about[tracked[i]]]
    /\ EndsOwnObject

\* Spans are numbered in the order of their starts.
StartsInOrder(n) == \A s \in Span : about[s] # NoObject <=> s <= n

OrderInv ==
    /\ \E n \in 0 .. MaxStarts : StartsInOrder(n) /\ boundary <= n
    /\ \A i \in DOMAIN tracked : tracked[i] # NoSpan => tracked[i] > boundary
    /\ \A s \in Span : parent[s] # NoSpan =>
         /\ about[s] # NoObject
         /\ parent[s] < s
         /\ s > boundary => parent[s] > boundary

SpansInv == SpansTyped /\ PlacesInv /\ OrderInv

\* What a start or an end does to the spans, if it does not fail before.
Refuses(o, s) ==
    /\ event[o].fault = "none" => answer'[o] = "400"
    /\ event[o].fault # "none" => answer'[o] = "aborted"
    /\ lost' = lost \cup {s} /\ refused' = refused \cup {s}
    /\ UNCHANGED tracked

Stores(o, s) ==
    /\ event[o].fault = "none"
    /\ tracked' = [tracked EXCEPT ![event[o].id] = s]
    /\ lost' = lost \cup ({tracked[event[o].id]} \ {NoSpan})
    /\ UNCHANGED <<refused, answer>>

Begins(o, s) ==
    /\ event[o].id = StartId[o]
    /\ Refuses(o, s) \/ Stores(o, s)
    /\ about' = [about EXCEPT ![s] = o]
    /\ parent' = [parent EXCEPT ![s] = IF event[o].parent \in DOMAIN tracked
                                      THEN tracked[event[o].parent] ELSE NoSpan]
    /\ UNCHANGED <<finished, closedBy, failed>>

Finishes(o) ==
    LET s == tracked[event[o].id]
    IN  /\ s # NoSpan /\ event[o].fault \notin {"tag", "timings"}
        /\ finished' = finished \cup {s}
        /\ tracked' = [tracked EXCEPT ![event[o].id] = NoSpan]
        /\ closedBy' = [closedBy EXCEPT ![s] = o]
        /\ failed' = IF event[o].error THEN failed \cup {s} ELSE failed
        /\ UNCHANGED <<answer, about, parent, refused, lost>>

\* The next span is the one with the smallest number that is not used.
LEMMA NextSpanIsNext ==
    ASSUME SpansInv, NextSpan \in T!Fresh, NEW n \in 0 .. MaxStarts, StartsInOrder(n)
    PROVE  NextSpan = n + 1 /\ NextSpan \in Span /\ about[NextSpan] = NoObject
<1>1. T!Fresh = {s \in Span : about[s] = NoObject}
  BY DEF SpansInv, SpansTyped, PlacesInv, T!Fresh, T!TrackedSpans
<1>2. T!Fresh = {s \in Span : s > n}
  BY <1>1, LifecyclesAssumption DEF StartsInOrder, Span
<1>3. n + 1 \in T!Fresh /\ \A q \in T!Fresh : n + 1 <= q
  BY <1>2, LifecyclesAssumption DEF Span
<1>4. NextSpan \in T!Fresh /\ \A q \in T!Fresh : NextSpan <= q
  BY <1>3, Zenon DEF NextSpan
<1>5. NextSpan = n + 1
  BY <1>2, <1>3, <1>4, LifecyclesAssumption DEF Span
<1>6. QED
  BY <1>1, <1>4, <1>5

LEMMA StartCases ==
    ASSUME DeliveryInv, NEW o \in live, Start(o)
    PROVE  \/ /\ UNCHANGED spanVars /\ answer'[o] # "200"
              /\ event[o].fault \in {"tag", "parentPanic"}
           \/ NextSpan \in T!Fresh /\ Begins(o, NextSpan)
<1>1. CASE StartFails(o)
  BY <1>1 DEF StartFails, DeliveryInv
<1>2. CASE ~StartFails(o)
  <2>1. /\ StartSpanOnly(o, NextSpan) \/ StartAndStore(o, NextSpan)
        /\ about' = [about EXCEPT ![NextSpan] = o]
        /\ parent' = [parent EXCEPT ![NextSpan] = IF event[o].parent \in DOMAIN tracked
                                                 THEN tracked[event[o].parent] ELSE NoSpan]
        /\ UNCHANGED <<closedBy, failed>>
    BY <1>2 DEF Start
  <2>2. /\ NextSpan \in T!Fresh /\ UNCHANGED finished
        /\ Refuses(o, NextSpan) \/ Stores(o, NextSpan)
    BY <2>1 DEF StartSpanOnly, StartAndStore, T!Refuse, T!Open, Refuses, Stores, DeliveryInv
  <2>3. event[o].id = StartId[o]
    <3>1. todo[o] = <<"start">>
      BY PlanSteps
    <3>2. QED
      BY <3>1, StartsUnderStartId DEF DeliveryInv
  <2>4. QED
    BY <2>1, <2>2, <2>3 DEF Begins
<1>3. QED
  BY <1>1, <1>2

LEMMA EndCases ==
    ASSUME DeliveryInv, NEW o \in live, End(o)
    PROVE  \/ /\ UNCHANGED spanVars
              /\ event[o].fault \in {"tag", "timings"} \/ tracked[event[o].id] = NoSpan
              /\ todo[o] = <<"end">> => answer'[o] # "200"
           \/ Finishes(o)
<1>1. CASE EndFails(o)
  BY <1>1 DEF EndFails, DeliveryInv
<1>2. CASE EndAndDelete(o)
  BY <1>2 DEF EndAndDelete, T!Close, Finishes
<1>3. QED
  BY <1>1, <1>2 DEF End

LEMMA SpansStay ==
    ASSUME SpansInv, UNCHANGED <<live, spanVars, crashed, boundary>>
    PROVE  SpansInv'
BY DEF spanVars, SpansInv, SpansTyped, PlacesInv, EndsOwnObject, OrderInv, StartsInOrder, T!TrackedSpans

LEMMA BeginKeepsSpans ==
    ASSUME DeliveryInv, SpansInv, NEW o \in live, NextSpan \in T!Fresh, Begins(o, NextSpan),
           UNCHANGED <<live, crashed, boundary>>
    PROVE  SpansInv'
<1> DEFINE s == NextSpan
           id == event[o].id
<1>1. PICK n \in 0 .. MaxStarts : StartsInOrder(n) /\ boundary <= n
  BY DEF SpansInv, OrderInv
<1>2. s = n + 1 /\ s \in Span /\ about[s] = NoObject /\ s # NoSpan
  BY <1>1, NextSpanIsNext DEF Span, NoSpan
<1>3. id \in DOMAIN tracked /\ event[o] \in OwnEvents(o) /\ o # NoObject
  BY LifecyclesAssumption DEF DeliveryInv, SpansInv, SpansTyped
<1>4. /\ about' = [about EXCEPT ![s] = o]
      /\ parent' = [parent EXCEPT ![s] = IF event[o].parent \in DOMAIN tracked
                                        THEN tracked[event[o].parent] ELSE NoSpan]
      /\ UNCHANGED <<finished, closedBy, failed>>
      /\ DOMAIN tracked' = DOMAIN tracked
      /\ \/ tracked' = tracked /\ lost' = lost \cup {s} /\ refused' = refused \cup {s}
         \/ /\ tracked' = [tracked EXCEPT ![id] = s]
            /\ lost' = lost \cup ({tracked[id]} \ {NoSpan}) /\ UNCHANGED refused
  BY DEF Begins, Refuses, Stores
<1> HIDE DEF s, id
<1>5. SpansTyped'
  BY <1>2, <1>3, <1>4 DEF SpansInv, SpansTyped
<1>6. /\ \A q \in Span \ {s} : about'[q] = about[q] /\ parent'[q] = parent[q]
      /\ about'[s] = o
      /\ s \notin finished /\ s \notin lost /\ closedBy[s] = NoObject
      /\ \A i \in DOMAIN tracked : tracked[i] # s
  BY <1>2, <1>4 DEF SpansInv, SpansTyped, PlacesInv
<1>7. ASSUME NEW i \in DOMAIN tracked, tracked'[i] # NoSpan
      PROVE  \/ i = id /\ tracked'[i] = s /\ s \notin lost'
             \/ tracked'[i] = tracked[i] /\ tracked[i] \in Span \ {s} /\ tracked[i] \notin lost'
  <2>1. CASE UNCHANGED tracked /\ lost' = lost \cup {s}
    BY <1>6, <1>7, <2>1 DEF SpansInv, SpansTyped, PlacesInv
  <2>2. CASE i = id /\ tracked' = [tracked EXCEPT ![id] = s] /\ lost' = lost \cup ({tracked[id]} \ {NoSpan})
    BY <1>3, <1>6, <1>7, <2>2
  <2>3. CASE i # id /\ tracked' = [tracked EXCEPT ![id] = s] /\ lost' = lost \cup ({tracked[id]} \ {NoSpan})
    <3>1. tracked'[i] = tracked[i] /\ tracked[i] # NoSpan /\ tracked[i] \in Span \ {s}
      BY <1>6, <1>7, <2>3 DEF SpansInv, SpansTyped
    <3>2. tracked[i] \notin lost /\ tracked[i] # tracked[id]
      BY <1>3, <2>3, <3>1 DEF SpansInv, PlacesInv
    <3>3. QED
      BY <2>3, <3>1, <3>2
  <2>4. QED
    BY <1>4, <2>1, <2>2, <2>3
<1>8. \A i \in DOMAIN tracked' : tracked'[i] # NoSpan =>
         /\ tracked'[i] \notin finished' /\ tracked'[i] \notin lost'
         /\ about'[tracked'[i]] # NoObject
         /\ \E e \in OwnEvents(about'[tracked'[i]]) : e.id = i
         /\ \A j \in DOMAIN tracked' : tracked'[j] = tracked'[i] => i = j
  <2> SUFFICES ASSUME NEW i \in DOMAIN tracked, tracked'[i] # NoSpan
      PROVE  /\ tracked'[i] \notin finished' /\ tracked'[i] \notin lost'
             /\ about'[tracked'[i]] # NoObject
             /\ \E e \in OwnEvents(about'[tracked'[i]]) : e.id = i
             /\ \A j \in DOMAIN tracked : tracked'[j] = tracked'[i] => i = j
    BY <1>4
  <2>1. CASE i = id /\ tracked'[i] = s /\ s \notin lost'
    <3>1. \A j \in DOMAIN tracked : tracked'[j] = s => j = i
      BY <1>2, <1>6, <1>7, <2>1
    <3>2. \E e \in OwnEvents(about'[s]) : e.id = i
      BY <1>3, <1>6, <2>1 DEF id
    <3>3. QED
      BY <1>3, <1>4, <1>6, <2>1, <3>1, <3>2
  <2>2. CASE tracked'[i] = tracked[i] /\ tracked[i] \in Span \ {s} /\ tracked[i] \notin lost'
    <3>1. /\ tracked[i] \notin finished /\ about[tracked[i]] # NoObject
          /\ \E e \in OwnEvents(about[tracked[i]]) : e.id = i
          /\ \A j \in DOMAIN tracked : tracked[j] = tracked[i] => i = j
      BY <2>2 DEF SpansInv, PlacesInv
    <3>2. \A j \in DOMAIN tracked : tracked'[j] = tracked'[i] => i = j
      BY <1>7, <2>2, <3>1
    <3>3. QED
      BY <1>4, <1>6, <2>2, <3>1, <3>2
  <2>3. QED
    BY <1>7, <2>1, <2>2
<1>9. \A q \in Span : about'[q] # NoObject => q \in T!TrackedSpans' \cup finished' \cup lost'
  <2>1. s \in lost' \/ tracked'[id] = s
    BY <1>3, <1>4
  <2>2. s \in T!TrackedSpans' \cup lost'
    BY <1>2, <1>3, <1>4, <2>1 DEF T!TrackedSpans
  <2>3. \A q \in T!TrackedSpans : q \in T!TrackedSpans' \cup lost'
    <3> TAKE q \in T!TrackedSpans
    <3>1. PICK i \in DOMAIN tracked : q = tracked[i] /\ q # NoSpan
      BY DEF T!TrackedSpans
    <3>2. tracked'[i] = q \/ q \in lost'
      BY <1>4, <3>1
    <3>3. QED
      BY <1>4, <3>1, <3>2 DEF T!TrackedSpans
  <2>4. QED
    BY <1>4, <1>6, <2>2, <2>3 DEF SpansInv, PlacesInv
<1>10. lost' \subseteq lost \cup {s} \cup T!TrackedSpans
  BY <1>3, <1>4 DEF T!TrackedSpans
<1>11. finished' \cap lost' = {} /\ \A q \in lost' : about'[q] # NoObject
  BY <1>3, <1>4, <1>6, <1>10 DEF SpansInv, SpansTyped, PlacesInv, T!TrackedSpans
<1>12. PlacesInv'
  <2>1. EndsOwnObject'
    BY <1>4, <1>6 DEF SpansInv, SpansTyped, PlacesInv, EndsOwnObject
  <2>2. ASSUME NEW i \in DOMAIN tracked', tracked'[i] # NoSpan
        PROVE  i = StartId[about'[tracked'[i]]]
    <3>1. CASE i = id /\ tracked'[i] = s
      BY <1>6, <3>1 DEF Begins, id
    <3>2. CASE tracked'[i] = tracked[i] /\ tracked[i] \in Span \ {s}
      BY <1>4, <1>6, <2>2, <3>2 DEF SpansInv, PlacesInv
    <3>3. QED
      BY <1>4, <1>7, <2>2, <3>1, <3>2
  <2>3. /\ \A q \in finished' \cup lost' : about'[q] # NoObject
        /\ \A q \in Span : closedBy'[q] # NoObject <=> q \in finished'
    BY <1>4, <1>6, <1>11 DEF SpansInv, SpansTyped, PlacesInv
  <2>4. QED
    BY <1>8, <1>9, <1>11, <2>1, <2>2, <2>3 DEF PlacesInv
<1>13. OrderInv'
  <2>1. StartsInOrder(n + 1)' /\ n + 1 \in 0 .. MaxStarts /\ boundary' <= n + 1
    <3>1. n + 1 \in 0 .. MaxStarts /\ boundary' <= n + 1
      BY <1>1, <1>2, LifecyclesAssumption DEF SpansInv, SpansTyped, Span
    <3>2. \A q \in Span : about'[q] # NoObject <=> q <= n + 1
      BY <1>1, <1>2, <1>3, <1>6, LifecyclesAssumption DEF StartsInOrder, Span
    <3>3. QED
      BY <3>1, <3>2 DEF StartsInOrder
  <2>2. \A i \in DOMAIN tracked' : tracked'[i] # NoSpan => tracked'[i] > boundary'
    BY <1>1, <1>2, <1>4, <1>7, LifecyclesAssumption DEF SpansInv, SpansTyped, OrderInv
  <2>3. parent'[s] = NoSpan \/ \E i \in DOMAIN tracked : tracked[i] # NoSpan /\ parent'[s] = tracked[i]
    BY <1>2, <1>4 DEF SpansInv, SpansTyped
  <2>4. parent'[s] # NoSpan => parent'[s] < s /\ parent'[s] > boundary
    <3> SUFFICES ASSUME NEW i \in DOMAIN tracked, tracked[i] # NoSpan, parent'[s] = tracked[i]
                 PROVE  tracked[i] < s /\ tracked[i] > boundary
      BY <2>3
    <3>1. tracked[i] \in Span /\ about[tracked[i]] # NoObject /\ tracked[i] > boundary
      BY DEF SpansInv, SpansTyped, PlacesInv, OrderInv
    <3>2. tracked[i] <= n
      BY <1>1, <3>1 DEF StartsInOrder
    <3>3. QED
      BY <1>2, <3>1, <3>2 DEF Span
  <2>5. \A q \in Span : parent'[q] # NoSpan =>
            /\ about'[q] # NoObject
            /\ parent'[q] < q
            /\ q > boundary' => parent'[q] > boundary'
    BY <1>3, <1>6, <2>4 DEF SpansInv, OrderInv
  <2>6. QED
    BY <2>1, <2>2, <2>5 DEF OrderInv
<1>14. QED
  BY <1>5, <1>12, <1>13 DEF SpansInv

LEMMA FinishKeepsSpans ==
    ASSUME DeliveryInv, SpansInv, NEW o \in live, Finishes(o), UNCHANGED <<live, crashed, boundary>>
    PROVE  SpansInv'
<1> DEFINE id == event[o].id
           s == tracked[id]
<1>1. id \in DOMAIN tracked /\ event[o] \in OwnEvents(o) /\ o # NoObject
  BY LifecyclesAssumption DEF DeliveryInv, SpansInv, SpansTyped
<1>2. /\ s # NoSpan /\ finished' = finished \cup {s}
      /\ tracked' = [tracked EXCEPT ![id] = NoSpan]
      /\ closedBy' = [closedBy EXCEPT ![s] = o]
      /\ failed' \subseteq failed \cup {s}
      /\ UNCHANGED <<about, parent, refused, lost>>
  BY DEF Finishes
<1>3. s \in Span /\ s \notin finished /\ s \notin lost /\ about[s] \in live
  BY <1>1, <1>2 DEF SpansInv, SpansTyped, PlacesInv
<1>4. \/ about[s] = o \/ Twins(o, about[s])
      \/ Confusable(o, about[s]) /\ (Dashed(o) \/ Dashed(about[s]))
  BY <1>1, <1>2, <1>3, SameIdMeansTwins DEF SpansInv, PlacesInv, DeliveryInv
<1> HIDE DEF s, id
<1>5. SpansTyped'
  BY <1>1, <1>2, <1>3 DEF SpansInv, SpansTyped
<1>6. \A i \in DOMAIN tracked' : tracked'[i] # NoSpan => i # id /\ tracked'[i] = tracked[i] /\ tracked[i] # s
  BY <1>1, <1>2, <1>3 DEF SpansInv, PlacesInv, s
<1>7. PlacesInv'
  <2>1. \A i \in DOMAIN tracked' : tracked'[i] # NoSpan =>
         /\ tracked'[i] \notin finished' /\ tracked'[i] \notin lost'
         /\ about'[tracked'[i]] # NoObject
         /\ \E e \in OwnEvents(about'[tracked'[i]]) : e.id = i
         /\ \A j \in DOMAIN tracked' : tracked'[j] = tracked'[i] => i = j
    BY <1>2, <1>6 DEF SpansInv, PlacesInv
  <2>2. \A q \in T!TrackedSpans : q \in T!TrackedSpans' \cup finished'
    BY <1>1, <1>2 DEF T!TrackedSpans, s
  <2>3. EndsOwnObject'
    BY <1>2, <1>3, <1>4 DEF SpansInv, SpansTyped, PlacesInv, EndsOwnObject
  <2>4. /\ \A q \in finished' \cup lost' : about'[q] # NoObject
        /\ \A q \in Span : closedBy'[q] # NoObject <=> q \in finished'
        /\ finished' \cap lost' = {}
    BY <1>1, <1>2, <1>3, LifecyclesAssumption DEF SpansInv, SpansTyped, PlacesInv, DeliveryInv
  <2>5. QED
    BY <1>2, <2>1, <2>2, <2>3, <2>4 DEF SpansInv, PlacesInv
<1>8. OrderInv'
  BY <1>2, <1>6 DEF SpansInv, OrderInv, StartsInOrder
<1>9. QED
  BY <1>5, <1>7, <1>8 DEF SpansInv

LEMMA CrashKeepsSpans ==
    ASSUME SpansInv, Crash
    PROVE  SpansInv'
<1>1. /\ tracked' = [i \in DOMAIN tracked |-> NoSpan]
      /\ lost' = lost \cup T!TrackedSpans /\ crashed' = crashed \cup T!TrackedSpans
      /\ boundary' = Cardinality(Span \ T!Fresh)
      /\ UNCHANGED <<live, finished, about, parent, closedBy, failed, refused>>
  BY DEF Crash
<1>2. PICK n \in 0 .. MaxStarts : StartsInOrder(n)
  BY DEF SpansInv, OrderInv
<1>3. boundary' = n
  <2>1. T!Fresh = {s \in Span : about[s] = NoObject}
    BY DEF SpansInv, SpansTyped, PlacesInv, T!Fresh, T!TrackedSpans
  <2>2. Span \ T!Fresh = 1 .. n
    BY <1>2, <2>1, LifecyclesAssumption DEF StartsInOrder, Span
  <2>3. n \in Nat /\ Cardinality(1 .. n) = n
    BY <1>2, FS_Interval, LifecyclesAssumption
  <2>4. QED
    BY <1>1, <2>2, <2>3
<1>4. T!TrackedSpans \subseteq Span /\ \A s \in T!TrackedSpans : about[s] # NoObject /\ s \notin finished
  BY DEF T!TrackedSpans, SpansInv, SpansTyped, PlacesInv
<1>5. SpansTyped'
  BY <1>1, <1>2, <1>3, <1>4 DEF SpansInv, SpansTyped
<1>6. PlacesInv'
  BY <1>1, <1>4 DEF SpansInv, PlacesInv, EndsOwnObject
<1>7. OrderInv'
  <2>1. StartsInOrder(n)' /\ boundary' <= n
    BY <1>1, <1>2, <1>3 DEF StartsInOrder
  <2>2. \A s \in Span : parent[s] # NoSpan => ~(s > boundary')
    BY <1>2, <1>3, LifecyclesAssumption DEF SpansInv, OrderInv, StartsInOrder, Span
  <2>3. QED
    BY <1>1, <2>1, <2>2 DEF SpansInv, OrderInv
<1>8. QED
  BY <1>5, <1>6, <1>7 DEF SpansInv

LEMMA SpansInvKept ==
    ASSUME DeliveryInv, HandsInv, SpansInv, [Step]_systemVars
    PROVE  SpansInv'
<1>1. CASE Rests
  BY <1>1, SpansStay DEF Rests
<1>2. ASSUME NEW o \in live, NEW e, Advances(o, e) \/ Misses(o, e) \/ Repeats(o, e)
      PROVE  SpansInv'
  BY <1>2, SpansStay DEF Advances, Misses, Repeats, bystanders, Deliver
<1>3. ASSUME NEW o \in live, Starts(o)
      PROVE  SpansInv'
  BY <1>3, StartCases, SpansStay, BeginKeepsSpans DEF Starts, bystanders
<1>4. ASSUME NEW o \in live, Ends(o)
      PROVE  SpansInv'
  BY <1>4, EndCases, SpansStay, FinishKeepsSpans DEF Ends, bystanders
<1>5. QED
  BY <1>1, <1>2, <1>3, <1>4, CrashKeepsSpans, StepCases

-----------------------------------------------------------------------------
BoundsInv ==
    /\ changes \in 0 .. MaxChanges /\ mishaps \in 0 .. MaxMishaps /\ crashes \in 0 .. MaxCrashes
    /\ runs \in 1 .. MaxRuns
    /\ drawnNow \subseteq Drawn /\ orphans \subseteq Drawn

LEMMA HandsInvKept ==
    ASSUME HandsInv, BoundsInv, [Step]_systemVars
    PROVE  HandsInv'
<1>1. CASE UNCHANGED systemVars
  BY <1>1 DEF systemVars, allVars, vars, generatorVars, HandsInv
<1>2. CASE ~Generating /\ DeliveriesNext /\ UNCHANGED generatorVars
  BY <1>2 DEF DeliveriesNext, Regular, Lose, HoldBack, DeliverLate, DeliverAgain, Crash, Boot,
              generatorVars, vars, HandsInv
<1>3. CASE Generating /\ GeneratorNext
  <2>1. ASSUME NEW l \in Loops, NEW o \in live, NEW sts, NEW next \in {"creating", "closing"},
               Post(l, o, sts, next)
        PROVE  HandsInv'
    BY <2>1 DEF Post, HandsInv
  <2>2. ASSUME NEW l \in Loops, Create(l) \/ Close(l) PROVE HandsInv'
    BY <1>3, <2>1, <2>2 DEF Create, Close, Draws, Generating, HandsInv
  <2>3. ASSUME NEW l \in Loops, Answered(l) PROVE HandsInv'
    BY <2>3 DEF Answered, allVars, vars, HandsInv
  <2>4. CASE Panic \/ Rerun
    BY <2>4 DEF Panic, Rerun, allVars, vars, HandsInv
  <2>5. CASE CutOff
    BY <2>5 DEF CutOff, Crash, HandsInv
  <2>6. CASE (\E o \in live : Work(o)) \/ (Boot /\ UNCHANGED generatorVars)
    BY <2>6 DEF Work, Boot, generatorVars, vars, HandsInv
  <2>7. QED
    BY <1>3, <2>2, <2>3, <2>4, <2>5, <2>6 DEF GeneratorNext
<1>4. QED
  BY <1>1, <1>2, <1>3 DEF Step

LEMMA BoundsInvKept ==
    ASSUME HandsInv, BoundsInv, [Step]_systemVars
    PROVE  BoundsInv'
<1> USE DeliveriesAssumption, LifecyclesAssumption, GeneratorAssumption
<1>1. CASE UNCHANGED systemVars
  BY <1>1 DEF systemVars, allVars, vars, faultVars, generatorVars, BoundsInv
<1>2. CASE DeliveriesNext /\ UNCHANGED generatorVars
  <2>1. UNCHANGED <<runs, drawnNow, orphans>>
    BY <1>2 DEF generatorVars
  <2>2. changes' \in 0 .. MaxChanges /\ mishaps' \in 0 .. MaxMishaps /\ crashes' \in 0 .. MaxCrashes
    BY <1>2 DEF DeliveriesNext, Regular, Lose, HoldBack, DeliverLate, DeliverAgain, Mishap, Crash,
                Boot, Change, Start, End, MayChange, Turn, vars, faultVars, BoundsInv
  <2>3. QED
    BY <2>1, <2>2 DEF BoundsInv
<1>3. CASE Generating /\ GeneratorNext
  <2>1. ASSUME NEW l \in Loops, NEW o, NEW sts, NEW next, Post(l, o, sts, next)
        PROVE  /\ changes' \in 0 .. MaxChanges /\ mishaps' \in 0 .. MaxMishaps
               /\ crashes' \in 0 .. MaxCrashes /\ UNCHANGED <<runs, orphans>>
    BY <2>1 DEF Post, MayChange, Turn, faultVars, BoundsInv
  <2>2. ASSUME NEW l \in Loops, Create(l) \/ Close(l) PROVE BoundsInv'
    <3>1. drawnNow' \subseteq Drawn
      BY <2>2 DEF Create, Close, Draws, BoundsInv
    <3>2. QED
      BY <2>1, <2>2, <3>1 DEF Create, Close, BoundsInv
  <2>3. CASE Panic
    <3>1. {hand[l] : l \in Loops} \ {NoObject} \subseteq Drawn
      BY <1>3 DEF HandsInv, Generating
    <3>2. QED
      BY <2>3, <3>1 DEF Panic, allVars, vars, faultVars, BoundsInv
  <2>4. CASE Rerun \/ \E l \in Loops : Answered(l)
    BY <2>4 DEF Rerun, Answered, allVars, vars, faultVars, BoundsInv
  <2>5. CASE CutOff
    BY <2>5 DEF CutOff, Crash, BoundsInv
  <2>6. CASE (\E o \in live : Work(o)) \/ (Boot /\ UNCHANGED generatorVars)
    BY <2>6 DEF Work, Start, End, Boot, generatorVars, faultVars, vars, BoundsInv
  <2>7. QED
    BY <1>3, <2>2, <2>3, <2>4, <2>5, <2>6 DEF GeneratorNext
<1>4. QED
  BY <1>1, <1>2, <1>3 DEF Step

LEMMA UpIsBoolean ==
    ASSUME up \in BOOLEAN, [Step]_systemVars
    PROVE  up' \in BOOLEAN
BY DEF Step, GeneratorNext, DeliveriesNext, Create, Close, Post, Answered, Panic, Rerun, Work, CutOff,
       Crash, Boot, Regular, Lose, HoldBack, DeliverLate, DeliverAgain, faultVars, allVars, systemVars

SystemInv ==
    /\ HandsInv /\ DeliveryInv /\ SpansInv
    /\ BoundsInv /\ up \in BOOLEAN

LEMMA SystemInvInit == GeneratorInit => SystemInv
<1> SUFFICES ASSUME GeneratorInit PROVE SystemInv
  OBVIOUS
<1>1. /\ live \in Scenarios /\ live \subseteq Objects
      /\ status = [o \in live |-> "none"] /\ changes = 0
      /\ event = [o \in live |-> EventOf[o]["none"]]
      /\ todo = [o \in live |-> <<>>] /\ answer = [o \in live |-> "none"]
      /\ tracked = [i \in {e.id : e \in {e \in Events : e.object \in live}} |-> NoSpan]
      /\ finished = {} /\ lost = {} /\ failed = {} /\ refused = {}
      /\ about = [s \in Span |-> NoObject] /\ parent = [s \in Span |-> NoSpan]
      /\ closedBy = [s \in Span |-> NoObject]
      /\ up = TRUE /\ held = [o \in live |-> {}] /\ mishaps = 0 /\ crashes = 0
      /\ disturbed = {} /\ crashed = {} /\ boundary = NoSpan
      /\ loop = [l \in Loops |-> "tick"] /\ hand = [l \in Loops |-> NoObject]
      /\ drawnNow = {} /\ orphans = {} /\ runs = 1
  BY DEF GeneratorInit, DeliveriesInit, Init, Objects
<1>2. HandsInv
  BY <1>1 DEF HandsInv
<1>3. DeliveryInv
  <2>1. \A o \in live : "none" \in Statuses(o) /\ "none" \in AllStatuses
    BY <1>1 DEF Statuses, AllStatuses
  <2>2. \A o \in live : /\ EventOf[o]["none"] \in OwnEvents(o) /\ EventOf[o]["none"] \in Events
                        /\ EventOf[o]["none"].status = "none"
    <3> TAKE o \in live
    <3>1. EventOf[o]["none"] = Event(o, "none") /\ EventOf[o]["none"] \in Events
      BY <1>1, <2>1, EventsOfStatus
    <3>2. EventOf[o]["none"].status = "none"
      BY <3>1 DEF Event
    <3>3. QED
      BY <2>1, <3>1, <3>2 DEF OwnEvents
  <2>3. QED
    BY <1>1, <2>1, <2>2, PlansDiffer DEF DeliveryInv, Plans
<1>4. SpansInv
  <2>1. \A o \in live : \A e \in OwnEvents(o) : e \in Events /\ e.object = o
    BY <1>1, EventFields
  <2>2. SpansTyped
    BY <1>1, <2>1, LifecyclesAssumption DEF SpansTyped, Ids, NoSpan
  <2>3. PlacesInv
    BY <1>1 DEF PlacesInv, EndsOwnObject
  <2>4. StartsInOrder(0)
    BY <1>1, LifecyclesAssumption DEF StartsInOrder, Span
  <2>5. OrderInv
    BY <1>1, <2>4, LifecyclesAssumption DEF OrderInv, NoSpan
  <2>6. QED
    BY <2>2, <2>3, <2>5 DEF SpansInv
<1>5. BoundsInv
  BY <1>1, DeliveriesAssumption, LifecyclesAssumption, GeneratorAssumption DEF BoundsInv
<1>6. QED
  BY <1>1, <1>2, <1>3, <1>4, <1>5 DEF SystemInv

LEMMA SystemInvHolds == SystemSpec => []SystemInv
<1>1. SystemInv /\ [Step]_systemVars => SystemInv'
  BY HandsInvKept, DeliveryInvKept, SpansInvKept, BoundsInvKept, UpIsBoolean DEF SystemInv
<1>2. QED
  BY <1>1, SystemInvInit, PTL DEF SystemSpec

-----------------------------------------------------------------------------
\* The hosts, ValueStream and the generator keep every variable in its type,
\* whatever is lost, late, repeated or crashed.
THEOREM SystemTypeCorrect == SystemSpec => []GeneratorTypeOK
<1>1. SystemInv => GeneratorTypeOK
  <2> SUFFICES ASSUME SystemInv PROVE GeneratorTypeOK
    OBVIOUS
  <2>1. TypeOK
    BY DEF TypeOK, SystemInv, HandsInv, DeliveryInv, SpansInv, SpansTyped, BoundsInv, Plans
  <2>2. DeliveriesTypeOK
    <3>1. up \in BOOLEAN
      BY DEF SystemInv
    <3>2. /\ \A o \in live : held[o] \subseteq Events
          /\ mishaps \in 0 .. MaxMishaps /\ crashes \in 0 .. MaxCrashes
          /\ disturbed \subseteq live
          /\ crashed \subseteq lost
          /\ boundary \in Span \cup {NoSpan}
      BY LifecyclesAssumption
      DEF SystemInv, DeliveryInv, SpansInv, SpansTyped, BoundsInv, Span, NoSpan
    <3>3. QED
      BY <2>1, <3>1, <3>2 DEF DeliveriesTypeOK
  <2>3. QED
    BY <2>2 DEF GeneratorTypeOK, SystemInv, HandsInv, BoundsInv
<1>2. QED
  BY <1>1, SystemInvHolds, PTL

\* Whatever the objects, their payloads and the faults of the network, an event
\* finishes spans of its own object, of its twin, or of a custom event whose id reads
\* the same when its parts are joined with dashes, one of which is in the parts.
THEOREM EventsEndTheirObject == SystemSpec => []EndsOwnObject
<1>1. SystemInv => EndsOwnObject
  BY DEF SystemInv, SpansInv, PlacesInv
<1>2. QED
  BY <1>1, SystemInvHolds, PTL

-----------------------------------------------------------------------------
\* Ids in branches and descriptions.
LEMMA LeastNumber ==
    ASSUME NEW S, S \subseteq Nat, S # {}
    PROVE  \E x \in S : \A y \in S : x <= y
<1>1. PICK x \in S : \A y \in S : ~(<<y, x>> \in OpToRel(<, Nat))
  BY WFMin, NatLessThanWellFounded
<1>2. \A y \in S : ~(y < x)
  BY <1>1 DEF OpToRel
<1>3. QED
  BY <1>2

\* Of the stretches m[1] to m[2] of a text, one is leftmost, and there the longest.
LEMMA LeftmostLongest ==
    ASSUME NEW n \in Nat, NEW M, M \subseteq (1 .. n) \X (1 .. n), M # {}
    PROVE  \E m \in M : \A k \in M : m[1] < k[1] \/ (m[1] = k[1] /\ m[2] >= k[2])
<1> DEFINE I == {m[1] : m \in M}
<1>1. PICK i \in I : \A k \in I : i <= k
  <2>1. I \subseteq Nat /\ I # {}
    OBVIOUS
  <2> HIDE DEF I
  <2>2. QED
    BY <2>1, LeastNumber
<1> DEFINE J == {n - m[2] : m \in {m \in M : m[1] = i}}
<1>2. PICK j \in J : \A k \in J : j <= k
  <2>1. J \subseteq Nat
    OBVIOUS
  <2>2. J # {}
    BY <1>1
  <2> HIDE DEF J
  <2>3. QED
    BY <2>1, <2>2, LeastNumber
<1>3. PICK m \in M : m[1] = i /\ j = n - m[2]
  BY <1>2
<1>4. ASSUME NEW k \in M PROVE m[1] < k[1] \/ (m[1] = k[1] /\ m[2] >= k[2])
  <2>1. m[1] <= k[1] /\ m[1] \in Nat /\ k[1] \in Nat /\ m[2] \in Nat /\ k[2] \in Nat
    BY <1>1, <1>3
  <2>2. k[1] = i => n - m[2] <= n - k[2]
    BY <1>2, <1>3
  <2>3. QED
    BY <1>3, <2>1, <2>2
<1>5. QED
  BY <1>4

LEMMA SubSeqAt ==
    ASSUME NEW t \in Seq(Tokens), NEW i \in 1 .. Len(t), NEW j \in 1 .. Len(t), NEW k \in 1 .. j - i + 1
    PROVE  SubSeq(t, i, j)[k] = t[i + k - 1]
<1>1. Len(t) \in Nat
  OBVIOUS
<1>2. QED
  BY <1>1

LEMMA MatchesFirst ==
    ASSUME NEW t \in Seq(Tokens), NEW i \in 1 .. Len(t), NEW j \in 1 .. Len(t), Pattern(t, i, j)
    PROVE  \E m, n \in 1 .. Len(t) :
             /\ Matches(t) = SubSeq(t, m, n) /\ Pattern(t, m, n)
             /\ m < i \/ (m = i /\ n >= j)
<1> DEFINE found == {m \in (1 .. Len(t)) \X (1 .. Len(t)) : Pattern(t, m[1], m[2])}
           Best(m) == \A k \in found : m[1] < k[1] \/ (m[1] = k[1] /\ m[2] >= k[2])
           first == CHOOSE m \in found : Best(m)
<1>1. <<i, j>> \in found /\ found \subseteq (1 .. Len(t)) \X (1 .. Len(t)) /\ Len(t) \in Nat
  OBVIOUS
<1>2. Matches(t) = SubSeq(t, first[1], first[2])
  BY <1>1, Zenon DEF Matches
<1>3. \E m \in found : Best(m)
  <2>1. found # {}
    BY <1>1
  <2> HIDE DEF found
  <2>2. QED
    BY <1>1, <2>1, LeftmostLongest
<1>4. first \in found /\ Best(first)
  BY <1>3, Zenon
<1> HIDE DEF first
<1>5. first[1] \in 1 .. Len(t) /\ first[2] \in 1 .. Len(t) /\ Pattern(t, first[1], first[2])
  BY <1>4
<1>6. first[1] < i \/ (first[1] = i /\ first[2] >= j)
  BY <1>1, <1>4
<1>7. QED
  BY <1>2, <1>5, <1>6

\* What Matches returns stands in the text.
LEMMA MatchesIsIn ==
    ASSUME NEW t \in Seq(Tokens), Matches(t) # NoRef
    PROVE  \E i \in DOMAIN t : HasAt(t, i, Matches(t))
<1>1. \E i, j \in 1 .. Len(t) : Pattern(t, i, j)
  <2> DEFINE found == {m \in (1 .. Len(t)) \X (1 .. Len(t)) : Pattern(t, m[1], m[2])}
  <2>1. found # {}
    BY Zenon DEF Matches
  <2>2. QED
    BY <2>1
<1>2. PICK m, n \in 1 .. Len(t) : Matches(t) = SubSeq(t, m, n) /\ Pattern(t, m, n)
  BY <1>1, MatchesFirst
<1>3. m <= n /\ Len(t) \in Nat
  <2>1. Len(t) \in Nat
    OBVIOUS
  <2>2. m + 2 <= n
    BY <1>2 DEF Pattern
  <2>3. QED
    BY <2>1, <2>2
<1>4. Len(SubSeq(t, m, n)) = n - m + 1
  BY <1>3
<1>5. HasAt(t, m, Matches(t))
  BY <1>2, <1>3, <1>4 DEF HasAt
<1>6. QED
  BY <1>5

TypeTokens == Words \cup {"_"}

LEMMA TypeTokensHaveNoDash == "-" \notin TypeTokens
<1>1. "-" # "_"
  BY Zenon
<1>2. QED
  BY <1>1, DashIsToken, Zenon DEF TypeTokens

FourParts(t, i, b, c, j) ==
    /\ 1 <= i /\ i + 4 < b /\ b + 1 < c /\ c < j /\ j <= Len(t)
    /\ t[i] = "vstrace" /\ t[i + 1] = "-" /\ t[i + 2] \in Words /\ t[i + 3] = "-"
    /\ t[b] = "-" /\ t[c] = "-"
    /\ \A k \in i + 4 .. b - 1 : t[k] \in TypeTokens
    /\ \A k \in b + 1 .. c - 1 : t[k] \in Words \cup {"-"}
    /\ \A k \in c + 1 .. j : t[k] \in Words \cup {"-"}
    /\ \A k \in 1 .. i - 1 : t[k] # "vstrace"
    /\ \A k \in j + 1 .. Len(t) : k = j + 1 => t[k] \notin Words \cup {"-"}

\* Four parts after vstrace, which stands nowhere before, and no letter, digit or
\* dash behind them: the pattern matches them and nothing else.
LEMMA MatchesWhatStands ==
    ASSUME NEW t \in Seq(Tokens), NEW i \in Nat, NEW b \in Nat, NEW c \in Nat, NEW j \in Nat,
           FourParts(t, i, b, c, j)
    PROVE  Matches(t) = SubSeq(t, i, j)
<1> USE DEF FourParts
<1>1. Len(t) \in Nat /\ i \in 1 .. Len(t) /\ j \in 1 .. Len(t)
  <2>1. Len(t) \in Nat
    OBVIOUS
  <2>2. QED
    BY <2>1
<1>2. Pattern(t, i, j)
  <2>1. /\ i + 3 \in i + 3 .. j - 1 /\ b \in i + 3 .. j - 1 /\ c \in i + 3 .. j - 1
        /\ i + 2 <= j
    BY <1>1
  <2>2. Segment(t, i + 2, (i + 3) - 1, Words)
    BY <1>1 DEF Segment
  <2>3. Segment(t, (i + 3) + 1, b - 1, TypeTokens)
    BY <1>1 DEF Segment
  <2>4. Segment(t, b + 1, c - 1, Words \cup {"-"}) /\ Segment(t, c + 1, j, Words \cup {"-"})
    BY <1>1 DEF Segment
  <2>5. QED
    BY <2>1, <2>2, <2>3, <2>4, Zenon DEF Pattern, TypeTokens
<1>3. ASSUME NEW l \in 1 .. Len(t), Pattern(t, i, l), l > j PROVE FALSE
  <2>1. l \in Nat /\ l <= Len(t)
    BY <1>1
  <2>2. PICK d, e, f \in i + 3 .. l - 1 :
             /\ t[d] = "-" /\ t[e] = "-" /\ t[f] = "-"
             /\ Segment(t, i + 2, d - 1, Words)
             /\ Segment(t, d + 1, e - 1, TypeTokens)
             /\ Segment(t, e + 1, f - 1, Words \cup {"-"})
             /\ Segment(t, f + 1, l, Words \cup {"-"})
    BY <1>3, Zenon DEF Pattern, TypeTokens
  <2>3. "-" \notin Words /\ "-" \notin TypeTokens
    BY DashIsToken, TypeTokensHaveNoDash
  <2>4. d = i + 3
    <3>1. ASSUME d > i + 3 PROVE FALSE
      <4>1. i + 3 \in i + 2 .. d - 1
        BY <2>1, <2>2, <3>1
      <4>2. QED
        BY <2>2, <2>3, <4>1 DEF Segment
    <3>2. QED
      BY <2>1, <2>2, <3>1
  <2>5. e <= b
    <3>1. ASSUME e > b PROVE FALSE
      <4>1. b \in d + 1 .. e - 1
        BY <2>1, <2>2, <2>4, <3>1
      <4>2. QED
        BY <2>2, <2>3, <4>1 DEF Segment
    <3>2. QED
      BY <2>1, <2>2, <3>1
  <2>6. \A k \in e + 1 .. l : t[k] \in Words \cup {"-"}
    <3>1. ASSUME NEW k \in e + 1 .. l PROVE k \in e + 1 .. f - 1 \/ k = f \/ k \in f + 1 .. l
      BY <2>1, <2>2, <3>1
    <3>2. QED
      BY <2>2, <3>1 DEF Segment
  <2>7. j + 1 \in e + 1 .. l /\ j + 1 <= Len(t)
    <3>1. e \in Nat /\ e <= b /\ b < j /\ j < l /\ l <= Len(t) /\ Len(t) \in Nat
      BY <1>1, <1>3, <2>1, <2>2, <2>5
    <3>2. QED
      BY <2>1, <3>1
  <2>8. QED
    BY <2>6, <2>7
<1>4. PICK m, n \in 1 .. Len(t) :
         /\ Matches(t) = SubSeq(t, m, n) /\ Pattern(t, m, n)
         /\ m < i \/ (m = i /\ n >= j)
  BY <1>1, <1>2, MatchesFirst
<1>5. m = i
  <2>1. t[m] = "vstrace"
    BY <1>4 DEF Pattern
  <2>2. QED
    BY <1>1, <1>4, <2>1
<1>6. n = j
  BY <1>1, <1>3, <1>4, <1>5
<1>7. QED
  BY <1>4, <1>5, <1>6

\* The parts of an id, position by position.
Positions(id, source, ty, scope, number) ==
    LET b == 5 + Len(ty)
        c == b + 1 + Len(scope)
    IN  /\ id \in Seq(Tokens) /\ b \in Nat /\ c \in Nat /\ Len(id) = c + Len(number)
        /\ id[1] = "vstrace" /\ id[2] = "-" /\ id[3] = source /\ id[4] = "-"
        /\ id[b] = "-" /\ id[c] = "-"
        /\ \A k \in 5 .. b - 1 : id[k] = ty[k - 4]
        /\ \A k \in b + 1 .. c - 1 : id[k] = scope[k - b]
        /\ \A k \in c + 1 .. Len(id) : id[k] = number[k - c]

LEMMA IdPositions ==
    ASSUME NEW source \in Words, NEW ty \in Seq(Tokens), NEW scope \in Seq(Tokens), NEW number \in Seq(Tokens)
    PROVE  Positions(JoinedId(source, ty, Join(scope, number)), source, ty, scope, number)
<1> DEFINE id == JoinedId(source, ty, Join(scope, number))
           b == 5 + Len(ty)
           c == b + 1 + Len(scope)
<1> DEFINE head == <<"vstrace", "-", source, "-">>
           rest == Join(scope, number)
           body == Join(ty, rest)
<1>1. Len(ty) \in Nat /\ Len(scope) \in Nat /\ Len(number) \in Nat
  OBVIOUS
<1>2. /\ rest \in Seq(Tokens) /\ Len(rest) = Len(scope) + 1 + Len(number)
      /\ \A k \in 1 .. Len(scope) : rest[k] = scope[k]
      /\ rest[Len(scope) + 1] = "-"
      /\ \A k \in 1 .. Len(number) : rest[Len(scope) + 1 + k] = number[k]
  BY JoinShape
<1> HIDE DEF rest
<1>3. /\ body \in Seq(Tokens) /\ Len(body) = Len(ty) + 1 + Len(rest)
      /\ \A k \in 1 .. Len(ty) : body[k] = ty[k]
      /\ body[Len(ty) + 1] = "-"
      /\ \A k \in 1 .. Len(rest) : body[Len(ty) + 1 + k] = rest[k]
  BY <1>2, JoinShape
<1>4. id = head \o body /\ head \in Seq(Tokens)
  BY <1>2, IdShape DEF rest, Join
<1> HIDE DEF id
<1>5. Len(head) = 4 /\ head[1] = "vstrace" /\ head[2] = "-" /\ head[3] = source /\ head[4] = "-"
  OBVIOUS
<1> HIDE DEF head, body
<1>6. /\ id \in Seq(Tokens) /\ Len(id) = 4 + Len(body)
      /\ \A k \in 1 .. 4 : id[k] = head[k]
      /\ \A k \in 1 .. Len(body) : id[4 + k] = body[k]
  <2>1. head \in Seq(Tokens) /\ body \in Seq(Tokens)
    BY <1>3, <1>4
  <2>2. /\ head \o body \in Seq(Tokens) /\ Len(head \o body) = Len(head) + Len(body)
    BY <2>1
  <2>3. \A k \in 1 .. Len(head) : (head \o body)[k] = head[k]
    BY <1>3, <1>4
  <2>4. \A k \in 1 .. Len(body) : (head \o body)[Len(head) + k] = body[k]
    BY <1>3, <1>4
  <2>5. QED
    BY <1>4, <1>5, <2>2, <2>3, <2>4
<1>7. b \in Nat /\ c \in Nat /\ Len(id) = c + Len(number) /\ b = Len(ty) + 5 /\ c = Len(ty) + Len(scope) + 6
  BY <1>1, <1>2, <1>3, <1>6
<1>8. b = 5 + Len(ty) /\ c = b + 1 + Len(scope)
  OBVIOUS
<1> HIDE DEF b, c
<1>9. id[1] = "vstrace" /\ id[2] = "-" /\ id[3] = source /\ id[4] = "-"
  BY <1>5, <1>6
<1>10. ASSUME NEW k \in 5 .. b - 1 PROVE id[k] = ty[k - 4]
  <2>1. k - 4 \in 1 .. Len(ty) /\ k - 4 \in 1 .. Len(body) /\ k = 4 + (k - 4)
    BY <1>1, <1>2, <1>3, <1>7
  <2>2. id[k] = body[k - 4]
    BY <1>6, <2>1
  <2>3. QED
    BY <1>3, <2>1, <2>2
<1>11. id[b] = "-"
  <2>1. Len(ty) + 1 \in 1 .. Len(body) /\ b = 4 + (Len(ty) + 1)
    BY <1>1, <1>2, <1>3, <1>7
  <2>2. QED
    BY <1>3, <1>6, <2>1
<1>12. ASSUME NEW k \in 1 .. Len(rest) PROVE id[b + k] = rest[k]
  <2>1. Len(ty) + 1 + k \in 1 .. Len(body) /\ b + k = 4 + (Len(ty) + 1 + k)
    BY <1>1, <1>2, <1>3, <1>7
  <2>2. id[b + k] = body[Len(ty) + 1 + k]
    BY <1>6, <2>1
  <2>3. QED
    BY <1>3, <2>2
<1>13. ASSUME NEW k \in b + 1 .. c - 1 PROVE id[k] = scope[k - b]
  <2>1. k - b \in 1 .. Len(scope) /\ k - b \in 1 .. Len(rest) /\ k = b + (k - b)
    BY <1>1, <1>2, <1>7
  <2>2. id[k] = rest[k - b]
    BY <1>12, <2>1
  <2>3. QED
    BY <1>2, <2>1, <2>2
<1>14. id[c] = "-"
  <2>1. Len(scope) + 1 \in 1 .. Len(rest) /\ c = b + (Len(scope) + 1)
    BY <1>1, <1>2, <1>7
  <2>2. QED
    BY <1>2, <1>12, <2>1
<1>15. ASSUME NEW k \in c + 1 .. Len(id) PROVE id[k] = number[k - c]
  <2>1. /\ k - c \in 1 .. Len(number) /\ Len(scope) + 1 + (k - c) \in 1 .. Len(rest)
        /\ k = b + (Len(scope) + 1 + (k - c))
    BY <1>1, <1>2, <1>7
  <2>2. id[k] = rest[Len(scope) + 1 + (k - c)]
    BY <1>12, <2>1
  <2>3. QED
    BY <1>2, <2>1, <2>2
<1>16. QED
  <2>1. id \in Seq(Tokens)
    BY <1>6
  <2>2. QED
    BY <1>7, <1>9, <1>10, <1>11, <1>13, <1>14, <1>15, <2>1, Zenon DEF Positions, id, b, c

\* The type in a readable id is not empty, and is of letters, digits and "_".
LEMMA ReadableTypes ==
    ASSUME NEW q \in Objects, Readable(q),
           NEW ty \in TypesOf(q), Kind[q] = "customhttp" => ty = Of[q].type
    PROVE  ty # <<>> /\ \A k \in DOMAIN ty : ty[k] \in TypeTokens
<1>1. Kind[q] \in Kinds /\ Kind[q] # "jira_sprint"
  BY KindsAreKnown DEF Readable
<1>2. \A w \in Words : <<w>> # <<>> /\ \A k \in DOMAIN <<w>> : <<w>>[k] \in TypeTokens
  <2> TAKE w \in Words
  <2>1. w \in TypeTokens
    BY Zenon DEF TypeTokens
  <2>2. DOMAIN <<w>> = {1} /\ <<w>>[1] = w /\ <<w>> # <<>>
    OBVIOUS
  <2>3. QED
    BY <2>1, <2>2
<1>3. {"issue", "build", "deploy", "pull", "request"} \subseteq Words
  BY TokensAssumption
<1>4. CASE Kind[q] = "customhttp"
  <2>1. Spelled(ty, TypeTokens)
    BY <1>4, Zenon DEF Readable, TypeTokens
  <2>2. QED
    BY <2>1 DEF Spelled
<1>5. CASE Kind[q] \in {"github_pr", "gitlab_merge"}
  <2>1. ty = PullRequest
    BY <1>5 DEF TypesOf
  <2>2. \A u, v, w : /\ DOMAIN <<u, v, w>> = {1, 2, 3} /\ <<u, v, w>> # <<>>
                     /\ <<u, v, w>>[1] = u /\ <<u, v, w>>[2] = v /\ <<u, v, w>>[3] = w
    OBVIOUS
  <2>3. "pull" \in TypeTokens /\ "_" \in TypeTokens /\ "request" \in TypeTokens
    BY <1>3, Zenon DEF TypeTokens
  <2>4. /\ PullRequest # <<>> /\ DOMAIN PullRequest = {1, 2, 3}
        /\ PullRequest[1] \in TypeTokens /\ PullRequest[2] \in TypeTokens /\ PullRequest[3] \in TypeTokens
    BY <2>2, <2>3, Zenon DEF PullRequest
  <2>5. QED
    BY <2>1, <2>4
<1>6. QED
  BY <1>1, <1>2, <1>3, <1>4, <1>5 DEF TypesOf, Kinds

LEMMA SpanIdIsString ==
    ASSUME NEW o \in Objects, NEW e \in OwnEvents(o)
    PROVE  /\ e.id \in Seq(Tokens) /\ Len(e.id) \in Nat /\ Len(e.id) >= 5
           /\ e.id[1] = "vstrace" /\ e.id[2] = "-" /\ e.id # NoRef
<1>1. PICK ty \in TypesOf(o) : e.id = JoinedId(SourceOf[Kind[o]], ty, RestOf(o))
  BY IdForm
<1> DEFINE source == SourceOf[Kind[o]]
           rest == RestOf(o)
           head == <<"vstrace", "-", source, "-">>
           body == Join(ty, rest)
<1>2. source \in Words /\ ty \in Seq(Tokens) /\ rest \in Seq(Tokens) /\ e.id = JoinedId(source, ty, rest)
  BY <1>1, PartsAreStrings
<1> HIDE DEF source, rest
<1>3. e.id = head \o body /\ head \in Seq(Tokens)
  BY <1>2, IdShape DEF Join
<1>4. body \in Seq(Tokens) /\ Len(body) = Len(ty) + 1 + Len(rest)
  BY <1>2, JoinShape
<1>5. Len(head) = 4 /\ head[1] = "vstrace" /\ head[2] = "-" /\ Len(ty) \in Nat /\ Len(rest) \in Nat
  BY <1>2
<1> HIDE DEF head, body
<1>6. /\ head \o body \in Seq(Tokens) /\ Len(head \o body) = Len(head) + Len(body)
      /\ \A k \in 1 .. Len(head) : (head \o body)[k] = head[k]
  <2>1. head \in Seq(Tokens) /\ body \in Seq(Tokens)
    BY <1>3, <1>4
  <2>2. QED
    BY <2>1
<1>7. Len(e.id) >= 5 /\ e.id \in Seq(Tokens) /\ Len(e.id) \in Nat
  BY <1>3, <1>4, <1>5, <1>6
<1>8. e.id[1] = "vstrace" /\ e.id[2] = "-"
  BY <1>3, <1>5, <1>6
<1>9. Len(NoRef) = 1
  BY DEF NoRef
<1>10. QED
  BY <1>7, <1>8, <1>9

LEMMA StartIdForm ==
    ASSUME NEW o \in Objects
    PROVE  \E ty \in TypesOf(o) : /\ StartId[o] = JoinedId(SourceOf[Kind[o]], ty, RestOf(o))
                                  /\ Kind[o] = "customhttp" => ty = Of[o].type
<1> DEFINE e == EventOf[o]["none"]
<1>1. e \in OwnEvents(o) /\ e.id = StartId[o]
  BY StartIdIsOwn DEF StartId
<1> HIDE DEF e
<1>2. CASE Kind[o] # "customhttp"
  BY <1>1, <1>2, IdForm
<1>3. CASE Kind[o] = "customhttp"
  <2> DEFINE p == Payload(o, "none")
  <2>1. StartId[o] = SpanID(p)
    BY StartIdIsOwn
  <2>2. p.kind = "customhttp" /\ p.scope = Of[o].scope /\ p.number = Of[o].number /\ p.type = Of[o].type
    BY <1>3 DEF Payload, Over
  <2> HIDE DEF p
  <2>3. StartId[o] = JoinedId("customhttp", Of[o].type, RestOf(o))
    BY <1>3, <2>1, <2>2 DEF SpanID, CustomSpanID, Numbered, RestOf
  <2>4. Of[o].type \in TypesOf(o) /\ SourceOf[Kind[o]] = "customhttp"
    BY <1>3 DEF TypesOf, SourceOf
  <2>5. QED
    BY <2>3, <2>4
<1>4. QED
  BY <1>2, <1>3

\* Where a readable id stands in a text, the pattern matches it.
LEMMA ReadableIsMatched ==
    ASSUME NEW q \in Objects, Readable(q),
           NEW t \in Seq(Tokens), NEW i \in DOMAIN t, StandsAt(t, i, StartId[q])
    PROVE  Matches(t) = StartId[q]
<1>1. PICK ty \in TypesOf(q) : /\ StartId[q] = JoinedId(SourceOf[Kind[q]], ty, RestOf(q))
                               /\ Kind[q] = "customhttp" => ty = Of[q].type
  BY StartIdForm
<1> DEFINE id == StartId[q]
           source == SourceOf[Kind[q]]
           scope == Of[q].scope
           number == Of[q].number
           b == 5 + Len(ty)
           c == b + 1 + Len(scope)
<1>2. /\ source \in Words /\ ty \in Seq(Tokens) /\ scope \in Seq(Tokens) /\ number \in Seq(Tokens)
      /\ id = JoinedId(source, ty, Join(scope, number))
  BY <1>1, PartsAreStrings DEF Readable, RestOf, Join
<1>3. scope # <<>> /\ number # <<>> /\ ty # <<>>
  <2>1. Spelled(Of[q].scope, Words \cup {"-"}) /\ Spelled(Of[q].number, Words \cup {"-"})
    BY Zenon DEF Readable
  <2>2. ty # <<>>
    BY <1>1, ReadableTypes
  <2>3. QED
    BY <2>1, <2>2 DEF Spelled
<1>4. \A k \in 1 .. Len(ty) : ty[k] \in TypeTokens
  <2>1. DOMAIN ty = 1 .. Len(ty)
    BY <1>2
  <2>2. QED
    BY <1>1, <2>1, ReadableTypes
<1>5. /\ \A k \in 1 .. Len(scope) : scope[k] \in Words \cup {"-"}
      /\ \A k \in 1 .. Len(number) : number[k] \in Words \cup {"-"}
  <2>1. Spelled(Of[q].scope, Words \cup {"-"}) /\ Spelled(Of[q].number, Words \cup {"-"})
    BY Zenon DEF Readable
  <2>2. DOMAIN scope = 1 .. Len(scope) /\ DOMAIN number = 1 .. Len(number)
    BY <1>2
  <2>3. QED
    BY <2>1, <2>2 DEF Spelled
<1> HIDE DEF id, source, scope, number
<1>6. Len(ty) \in Nat \ {0} /\ Len(scope) \in Nat \ {0} /\ Len(number) \in Nat \ {0}
  BY <1>2, <1>3
<1> HIDE DEF b, c
<1>7. b = 5 + Len(ty) /\ c = b + 1 + Len(scope)
  BY DEF b, c
<1>8. /\ id \in Seq(Tokens) /\ b \in Nat /\ c \in Nat /\ Len(id) = c + Len(number)
      /\ id[1] = "vstrace" /\ id[2] = "-" /\ id[3] = source /\ id[4] = "-"
      /\ id[b] = "-" /\ id[c] = "-"
      /\ \A k \in 5 .. b - 1 : id[k] = ty[k - 4]
      /\ \A k \in b + 1 .. c - 1 : id[k] = scope[k - b]
      /\ \A k \in c + 1 .. Len(id) : id[k] = number[k - c]
  <2>1. Positions(id, source, ty, scope, number)
    BY <1>2, IdPositions
  <2>2. QED
    BY <2>1, Zenon DEF Positions, b, c
<1>9. /\ \A k \in 5 .. b - 1 : id[k] \in TypeTokens
      /\ \A k \in b + 1 .. c - 1 : id[k] \in Words \cup {"-"}
      /\ \A k \in c + 1 .. Len(id) : id[k] \in Words \cup {"-"}
  <2>1. \A k \in 5 .. b - 1 : k - 4 \in 1 .. Len(ty)
    BY <1>6, <1>7, <1>8
  <2>2. \A k \in b + 1 .. c - 1 : k - b \in 1 .. Len(scope)
    BY <1>6, <1>7, <1>8
  <2>3. \A k \in c + 1 .. Len(id) : k - c \in 1 .. Len(number)
    BY <1>6, <1>7, <1>8
  <2>4. QED
    BY <1>4, <1>5, <1>8, <2>1, <2>2, <2>3
<1> DEFINE j == i + Len(id) - 1
           off == i - 1
<1>10. Len(t) \in Nat /\ i \in 1 .. Len(t) /\ Len(id) \in Nat /\ off \in Nat /\ 8 <= Len(id)
  <2>1. Len(t) \in Nat /\ DOMAIN t = 1 .. Len(t)
    OBVIOUS
  <2>2. QED
    BY <1>6, <1>7, <1>8, <2>1
<1>11. j <= Len(t) /\ SubSeq(t, i, j) = id
  BY DEF StandsAt, HasAt, id
<1>12. \A k \in 1 .. Len(id) : t[off + k] = id[k]
  <2>1. j \in 1 .. Len(t) /\ i <= j /\ j - i + 1 = Len(id)
    BY <1>10, <1>11
  <2>2. \A k \in i .. j : t[k] \in Tokens
    BY <1>10, <2>1, ElementOfSeq
  <2> HIDE DEF j
  <2>3. \A k \in 1 .. j - i + 1 : SubSeq(t, i, j)[k] = t[i + k - 1]
    BY <1>10, <2>1, SubSeqAt
  <2>4. \A k \in 1 .. Len(id) : i + k - 1 = off + k
    BY <1>10
  <2>5. QED
    BY <1>11, <2>1, <2>3, <2>4
<1>13. /\ \A k \in 1 .. i - 1 : t[k] # "vstrace"
       /\ \A k \in j + 1 .. Len(t) : k = j + 1 => t[k] \notin Words \cup {"-"}
  <2>1. /\ \A k \in 1 .. i - 1 : t[k] # "vstrace"
        /\ i + Len(id) <= Len(t) => t[i + Len(id)] \notin Words \cup {"-"}
    BY DEF StandsAt, id
  <2>2. j + 1 = i + Len(id)
    BY <1>10
  <2>3. QED
    BY <1>10, <2>1, <2>2
<1> HIDE DEF off
<1>14. j = off + Len(id) /\ i = off + 1
  BY <1>10 DEF off
<1> HIDE DEF j
<1>15. /\ off \in Nat /\ b \in Nat /\ c \in Nat /\ Len(id) \in Nat /\ i = off + 1 /\ j = off + Len(id)
       /\ 5 < b /\ b + 1 < c /\ c < Len(id)
  BY <1>6, <1>7, <1>8, <1>10, <1>14
<1>16. /\ t[i] = "vstrace" /\ t[i + 1] = "-" /\ t[i + 2] \in Words /\ t[i + 3] = "-"
       /\ t[off + b] = "-" /\ t[off + c] = "-"
  <2>1. /\ i = off + 1 /\ i + 1 = off + 2 /\ i + 2 = off + 3 /\ i + 3 = off + 4
        /\ {1, 2, 3, 4, b, c} \subseteq 1 .. Len(id)
    BY <1>6, <1>7, <1>8, <1>10, <1>14
  <2>2. QED
    BY <1>2, <1>8, <1>12, <2>1
<1>17. /\ \A k \in i + 4 .. (off + b) - 1 : t[k] \in TypeTokens
       /\ \A k \in (off + b) + 1 .. (off + c) - 1 : t[k] \in Words \cup {"-"}
       /\ \A k \in (off + c) + 1 .. j : t[k] \in Words \cup {"-"}
  <2>1. \A k \in i + 4 .. (off + b) - 1 : k - off \in 5 .. b - 1 /\ k - off \in 1 .. Len(id) /\ k = off + (k - off)
    BY <1>15
  <2>2. \A k \in (off + b) + 1 .. (off + c) - 1 :
            k - off \in b + 1 .. c - 1 /\ k - off \in 1 .. Len(id) /\ k = off + (k - off)
    BY <1>15
  <2>3. \A k \in (off + c) + 1 .. j :
            k - off \in c + 1 .. Len(id) /\ k - off \in 1 .. Len(id) /\ k = off + (k - off)
    BY <1>15
  <2>4. QED
    BY <1>9, <1>12, <2>1, <2>2, <2>3
<1>18. /\ i \in Nat /\ off + b \in Nat /\ off + c \in Nat /\ j \in Nat
       /\ 1 <= i /\ i + 4 < off + b /\ (off + b) + 1 < off + c /\ off + c < j /\ j <= Len(t)
  BY <1>6, <1>7, <1>8, <1>10, <1>11, <1>14
<1> DEFINE u == off + b
           v == off + c
<1> HIDE DEF u, v
<1>19. Matches(t) = SubSeq(t, i, j)
  <2>1. /\ u \in Nat /\ v \in Nat /\ i + 4 < u /\ u + 1 < v /\ v < j
        /\ t[u] = "-" /\ t[v] = "-"
        /\ \A k \in i + 4 .. u - 1 : t[k] \in TypeTokens
        /\ \A k \in u + 1 .. v - 1 : t[k] \in Words \cup {"-"}
        /\ \A k \in v + 1 .. j : t[k] \in Words \cup {"-"}
    BY <1>16, <1>17, <1>18 DEF u, v
  <2>2. FourParts(t, i, u, v, j)
    BY <1>13, <1>16, <1>18, <2>1, Zenon DEF FourParts
  <2>3. QED
    BY <1>18, <2>1, <2>2, MatchesWhatStands
<1>20. QED
  BY <1>11, <1>19 DEF id
-----------------------------------------------------------------------------
\* Parents.
LEMMA ParentByKind ==
    ASSUME NEW o \in Objects, NEW e \in OwnEvents(o)
    PROVE  e.parent = CASE Kind[o] \in {"github_pr", "gitlab_merge"} -> Matches(Of[o].text)
                        [] Kind[o] = "gitlab_job" -> JoinedId("gitlab", <<"build">>, Of[o].param)
                        [] Kind[o] = "jenkins" -> IF Of[o].param # NoRef THEN Of[o].param
                                                  ELSE BranchID(Of[o].text)
                        [] Kind[o] = "customhttp" -> Of[o].param
                        [] OTHER -> NoRef
<1> DEFINE p == Payload(o, e.status)
<1>1. e.parent = ParentSpanID(p)
  BY EventFields DEF Event
<1>2. p.kind = Kind[o] /\ p.param = Of[o].param /\ p.text = Of[o].text
  BY DEF Payload
<1> HIDE DEF p
<1>3. QED
  BY <1>1, <1>2 DEF ParentSpanID, PullRequestParent, JobParent, JenkinsParent

\* The branch without origin/ stands in the text.
LEMMA BranchIsIn ==
    ASSUME NEW t \in Seq(Tokens), BranchID(t) # <<>>
    PROVE  \E i \in DOMAIN t : HasAt(t, i, BranchID(t))
<1>1. Len(t) \in Nat /\ DOMAIN t = 1 .. Len(t) /\ Len(Origin) = 2
  BY DEF Origin
<1>2. CASE StartsWith(t, Origin)
  <2>1. BranchID(t) = SubSeq(t, 3, Len(t)) /\ 2 <= Len(t)
    BY <1>1, <1>2 DEF BranchID, StartsWith
  <2>2. Len(t) # 2
    <3>1. Len(t) = 2 => SubSeq(t, 3, Len(t)) \in Seq(Tokens) /\ Len(SubSeq(t, 3, Len(t))) = 0
      BY <1>1
    <3>2. QED
      BY <2>1, <3>1, EmptySeq
  <2>3. 3 \in DOMAIN t /\ Len(SubSeq(t, 3, Len(t))) = Len(t) - 2
    BY <1>1, <2>1, <2>2
  <2>4. 3 + (Len(t) - 2) - 1 = Len(t)
    BY <1>1
  <2>5. HasAt(t, 3, BranchID(t))
    BY <1>1, <2>1, <2>3, <2>4 DEF HasAt
  <2>6. QED
    BY <2>3, <2>5
<1>3. CASE ~StartsWith(t, Origin)
  <2>1. BranchID(t) = t /\ 1 \in DOMAIN t
    BY <1>1, <1>3 DEF BranchID
  <2>2. SubSeq(t, 1, Len(t)) = t /\ 1 + Len(t) - 1 = Len(t) /\ Len(t) <= Len(t)
    BY <1>1
  <2>3. HasAt(t, 1, t)
    BY <2>2, Zenon DEF HasAt
  <2>4. QED
    BY <2>1, <2>3
<1>4. QED
  BY <1>2, <1>3

\* What a source takes for the id of the parent stands in the payload.
LEMMA ParentIsInPayload ==
    ASSUME NEW o \in Objects, NEW e \in OwnEvents(o), NEW q \in Objects, e.parent = StartId[q]
    PROVE  Mentions(o, e.parent)
<1>1. e.parent # NoRef /\ e.parent # <<>>
  <2>1. EventOf[q]["none"] \in OwnEvents(q) /\ EventOf[q]["none"].id = StartId[q]
    BY StartIdIsOwn DEF StartId
  <2>2. StartId[q] # NoRef /\ Len(StartId[q]) >= 5
    BY <2>1, SpanIdIsString
  <2>3. QED
    BY <2>2
<1>2. Of[o].text \in Seq(Tokens)
  BY PartsAreStrings
<1>3. CASE Kind[o] \in {"github_pr", "gitlab_merge"}
  <2>1. e.parent = Matches(Of[o].text) /\ Of[o].param = NoRef
    BY <1>3, ParentByKind, ObjectsAssumption
  <2>2. QED
    BY <1>1, <1>2, <1>3, <2>1, MatchesIsIn DEF Mentions
<1>4. CASE Kind[o] = "gitlab_job"
  BY <1>4, ParentByKind DEF Mentions
<1>5. CASE Kind[o] = "jenkins"
  <2>1. e.parent = IF Of[o].param # NoRef THEN Of[o].param ELSE BranchID(Of[o].text)
    BY <1>5, ParentByKind
  <2>2. QED
    BY <1>1, <1>2, <1>5, <2>1, BranchIsIn DEF Mentions
<1>6. CASE Kind[o] \notin {"github_pr", "gitlab_merge", "gitlab_job", "jenkins"}
  <2>1. e.parent = Of[o].param
    BY <1>1, <1>6, ParentByKind
  <2>2. QED
    BY <1>6, <2>1 DEF Mentions
<1>7. QED
  BY <1>3, <1>4, <1>5, <1>6

\* A parent is one that the payload mentions; one of the span's own object gave
\* its place to the span, or the span got none.
ParentsInv ==
    \A s \in Span : parent[s] # NoSpan =>
        /\ Mentions(about[s], StartId[about[parent[s]]])
        /\ about[parent[s]] = about[s] => parent[s] \in lost \/ s \in refused

LEMMA ParentsInvKept ==
    ASSUME SystemInv, ParentsInv, [Step]_systemVars
    PROVE  ParentsInv'
<1> USE DEF SystemInv
<1>1. ASSUME UNCHANGED <<about, parent>>, lost \subseteq lost', refused \subseteq refused'
      PROVE  ParentsInv'
  BY <1>1 DEF ParentsInv
<1>2. ASSUME NEW o \in live, NextSpan \in T!Fresh, Begins(o, NextSpan)
      PROVE  ParentsInv'
  <2> DEFINE s == NextSpan
             id == event[o].id
             named == event[o].parent
  <2>1. s \in Span /\ about[s] = NoObject /\ s # NoSpan
    BY <1>2, NextSpanIsNext, LifecyclesAssumption DEF SpansInv, OrderInv, Span, NoSpan
  <2>2. /\ about' = [about EXCEPT ![s] = o] /\ id = StartId[o]
        /\ parent' = [parent EXCEPT ![s] = IF named \in DOMAIN tracked THEN tracked[named] ELSE NoSpan]
    BY <1>2 DEF Begins
  <2>3. id \in DOMAIN tracked /\ o # NoObject /\ o \in Objects /\ event[o] \in OwnEvents(o)
    BY LifecyclesAssumption DEF DeliveryInv, SpansInv, SpansTyped
  <2>4. lost \subseteq lost' /\ refused \subseteq refused' /\ (s \in refused' \/ tracked[id] \in lost' \cup {NoSpan})
    BY <1>2 DEF Begins, Refuses, Stores
  <2> HIDE DEF s, named, id
  <2>5. ASSUME named \in DOMAIN tracked, tracked[named] # NoSpan
        PROVE  /\ tracked[named] \in Span /\ tracked[named] # s
               /\ Mentions(o, StartId[about[tracked[named]]])
               /\ about[tracked[named]] = o => tracked[named] \in lost' \/ s \in refused'
    <3>1. /\ tracked[named] \in Span /\ about[tracked[named]] # NoObject
          /\ named = StartId[about[tracked[named]]]
      BY <2>5 DEF SpansInv, SpansTyped, PlacesInv
    <3>2. about[tracked[named]] \in Objects
      BY <3>1 DEF SpansInv, SpansTyped, DeliveryInv
    <3>3. Mentions(o, named)
      BY <2>3, <3>1, <3>2, ParentIsInPayload DEF named
    <3>4. about[tracked[named]] = o => named = id
      BY <2>2, <3>1
    <3>5. QED
      BY <2>1, <2>4, <2>5, <3>1, <3>3, <3>4
  <2>6. \A q \in Span : parent[q] # NoSpan => parent[q] # s /\ q # s /\ parent[q] \in Span
    <3>1. PICK n \in 0 .. MaxStarts : StartsInOrder(n)
      BY DEF SpansInv, OrderInv
    <3>2. s = n + 1
      BY <1>2, <3>1, NextSpanIsNext DEF s
    <3> TAKE q \in Span
    <3> HAVE parent[q] # NoSpan
    <3>3. parent[q] \in Span /\ parent[q] < q /\ about[q] # NoObject
      BY DEF SpansInv, SpansTyped, OrderInv
    <3>4. q <= n
      BY <3>1, <3>3 DEF StartsInOrder
    <3>5. QED
      BY <3>2, <3>3, <3>4, LifecyclesAssumption DEF Span
  <2>7. ASSUME NEW q \in Span, parent'[q] # NoSpan
        PROVE  /\ Mentions(about'[q], StartId[about'[parent'[q]]])
               /\ about'[parent'[q]] = about'[q] => parent'[q] \in lost' \/ q \in refused'
    <3>1. CASE q = s
      <4>1. parent'[s] = tracked[named] /\ named \in DOMAIN tracked /\ tracked[named] # NoSpan
        BY <2>1, <2>2, <2>7, <3>1 DEF SpansInv, SpansTyped
      <4>2. about'[s] = o /\ about'[tracked[named]] = about[tracked[named]]
        BY <2>1, <2>2, <2>5, <4>1 DEF SpansInv, SpansTyped
      <4>3. QED
        BY <2>5, <3>1, <4>1, <4>2
    <3>2. CASE q # s
      <4>1. parent'[q] = parent[q] /\ parent[q] # NoSpan
        BY <2>1, <2>2, <2>7, <3>2 DEF SpansInv, SpansTyped
      <4>2. about'[q] = about[q] /\ about'[parent[q]] = about[parent[q]]
        BY <2>1, <2>2, <2>6, <3>2, <4>1 DEF SpansInv, SpansTyped
      <4>3. QED
        BY <2>4, <4>1, <4>2 DEF ParentsInv
    <3>3. QED
      BY <3>1, <3>2
  <2>8. QED
    BY <2>7 DEF ParentsInv
<1>3. ASSUME NEW o \in live, Finishes(o)
      PROVE  ParentsInv'
  BY <1>1, <1>3 DEF Finishes
<1>4. CASE Rests \/ Crash \/ \E o \in live : \E e : Advances(o, e) \/ Misses(o, e) \/ Repeats(o, e)
  BY <1>1, <1>4 DEF Rests, Crash, Advances, Misses, Repeats, Deliver, spanVars
<1>5. CASE UNCHANGED spanVars
  BY <1>1, <1>5 DEF spanVars
<1>6. QED
  BY <1>2, <1>3, <1>4, <1>5, StepCases, StartCases, EndCases DEF Starts, Ends

\* For any objects and payloads, also those that name their own object, and across
\* faults and crashes: a span hangs only under one that started before it and after
\* the last crash before it, and whose id its payload has; under one of its own
\* object only if it took its place in the store or found the store full.
THEOREM ParentsAreMentioned == SystemSpec => []ParentIsMentioned
<1>1. GeneratorInit => ParentsInv
  BY DEF GeneratorInit, DeliveriesInit, Init, ParentsInv
<1>2. ParentsInv /\ SystemInv /\ [Step]_systemVars => ParentsInv'
  BY ParentsInvKept
<1>3. SystemInv /\ ParentsInv => ParentIsMentioned
  BY DEF SystemInv, SpansInv, OrderInv, ParentsInv, ParentIsMentioned
<1>4. QED
  BY <1>1, <1>2, <1>3, SystemInvHolds, PTL DEF SystemSpec

-----------------------------------------------------------------------------
LEMMA JoinParts ==
    ASSUME NEW a \in Seq(Tokens), NEW x \in Seq(Tokens)
    PROVE  LET t == a \o x
           IN  /\ Len(t) = Len(a) + Len(x)
               /\ SubSeq(t, 1, Len(a)) = a /\ SubSeq(t, Len(a) + 1, Len(t)) = x
<1> DEFINE t == a \o x
<1>1. t \in Seq(Tokens)
  OBVIOUS
<1>2. Len(t) = Len(a) + Len(x) /\ Len(x) \in Nat /\ Len(a) \in Nat
  OBVIOUS
<1>3. \A k \in 1 .. Len(a) : t[k] = a[k]
  OBVIOUS
<1>4. \A k \in 1 .. Len(x) : t[Len(a) + k] = x[k]
  OBVIOUS
<1> HIDE DEF t
<1>5. SubSeq(t, 1, Len(a)) = a
  <2>1. SubSeq(t, 1, Len(a)) \in Seq(Tokens) /\ Len(SubSeq(t, 1, Len(a))) = Len(a)
    BY <1>1, <1>2
  <2>2. \A k \in 1 .. Len(a) : SubSeq(t, 1, Len(a))[k] = a[k]
    BY <1>1, <1>2, <1>3
  <2>3. QED
    BY <2>1, <2>2, SeqEqual
<1>6. SubSeq(t, Len(a) + 1, Len(t)) = x
  <2> DEFINE r == SubSeq(t, Len(a) + 1, Len(t))
  <2>1. r \in Seq(Tokens) /\ Len(r) = Len(x)
    BY <1>1, <1>2
  <2>2. \A k \in 1 .. Len(x) : r[k] = x[k]
    <3> TAKE k \in 1 .. Len(x)
    <3>1. r[k] = t[Len(a) + k]
      BY <1>1, <1>2
    <3>2. QED
      BY <1>4, <3>1
  <2> HIDE DEF r
  <2>3. QED
    BY <2>1, <2>2, SeqEqual DEF r
<1>7. QED
  BY <1>2, <1>5, <1>6 DEF t

\* What a source makes of the parent that a payload names.
LEMMA NamedIsRead ==
    ASSUME NEW o \in Objects, NEW e \in OwnEvents(o), NEW q \in Objects, NEW id, id = StartId[q],
           NamesByParam(o, id) \/ NamesByText(o, q, id)
    PROVE  e.parent = id
<1>1. id \in Seq(Tokens) /\ Len(id) \in Nat /\ Len(id) >= 5 /\ id[1] = "vstrace" /\ id # NoRef
  <2>1. EventOf[q]["none"] \in OwnEvents(q) /\ EventOf[q]["none"].id = id
    BY StartIdIsOwn DEF StartId
  <2>2. QED
    BY <2>1, SpanIdIsString
<1>2. CASE NamesByParam(o, id)
  <2>1. CASE Kind[o] = "gitlab_job"
    BY <1>2, <2>1, ParentByKind DEF NamesByParam
  <2>2. CASE Kind[o] = "jenkins"
    BY <1>1, <1>2, <2>2, ParentByKind DEF NamesByParam
  <2>3. CASE Kind[o] = "customhttp"
    BY <1>1, <1>2, <2>3, ParentByKind DEF NamesByParam
  <2>4. QED
    BY <1>2, <2>1, <2>2, <2>3 DEF NamesByParam
<1>3. CASE Kind[o] = "jenkins" /\ Of[o].param = NoRef /\ Of[o].text = id
  <2>1. ~StartsWith(id, Origin)
    <3>1. SubSeq(id, 1, 2)[1] = id[1]
      BY <1>1
    <3>2. Len(Origin) = 2 /\ Origin[1] = "origin" /\ "origin" # "vstrace"
      BY DEF Origin
    <3>3. QED
      BY <1>1, <3>1, <3>2 DEF StartsWith
  <2>2. BranchID(id) = id
    BY <2>1 DEF BranchID
  <2>3. QED
    BY <1>3, <2>2, ParentByKind
<1>4. CASE Kind[o] = "jenkins" /\ Of[o].param = NoRef /\ Of[o].text = Origin \o id
  <2> DEFINE t == Origin \o id
  <2>1. Origin \in Seq(Tokens) /\ Len(Origin) = 2
    <3>1. "origin" \in Tokens /\ "/" \in Tokens
      BY TokensAssumption, Zenon DEF Tokens
    <3>2. \A u, v \in Tokens : <<u, v>> \in Seq(Tokens) /\ Len(<<u, v>>) = 2
      OBVIOUS
    <3>3. QED
      BY <3>1, <3>2, Zenon DEF Origin
  <2>2. /\ Len(t) = Len(Origin) + Len(id)
        /\ SubSeq(t, 1, Len(Origin)) = Origin /\ SubSeq(t, Len(Origin) + 1, Len(t)) = id
    BY <1>1, <2>1, JoinParts
  <2>3. BranchID(t) = id
    <3> HIDE DEF t
    <3>1. StartsWith(t, Origin)
      BY <1>1, <2>1, <2>2 DEF StartsWith
    <3>2. QED
      BY <2>2, <3>1 DEF BranchID
  <2>4. QED
    BY <1>4, <2>3, ParentByKind
<1>5. CASE /\ Kind[o] \in {"github_pr", "gitlab_merge"} /\ Readable(q)
           /\ \E i \in DOMAIN Of[o].text : StandsAt(Of[o].text, i, id)
  <2>1. e.parent = Matches(Of[o].text) /\ Of[o].text \in Seq(Tokens)
    BY <1>5, ParentByKind, PartsAreStrings
  <2>2. Matches(Of[o].text) = id
    BY <1>5, <2>1, ReadableIsMatched
  <2>3. QED
    BY <2>1, <2>2
<1>6. QED
  BY <1>2, <1>3, <1>4, <1>5 DEF NamesByText

\* For any objects and payloads, and across faults and crashes: a span that starts
\* hangs under the span that its payload names by a parameter, by its branch, or by
\* an id in its description, wherever it stands, if that one is open at this moment.
THEOREM NamedParentsAreUsed == SystemSpec => NamedParentIsUsed
<1> DEFINE Used(s) ==
      \A id \in DOMAIN tracked : tracked[id] # NoSpan =>
          LET o == about'[s]
          IN  NamesByParam(o, id) \/ NamesByText(o, about[tracked[id]], id) => parent'[s] = tracked[id]
<1>1. ASSUME SystemInv, [Step]_systemVars, NEW s \in Span, about[s] = NoObject, about'[s] # NoObject
      PROVE  Used(s)
  <2> USE <1>1 DEF SystemInv
  <2>1. PICK o \in live : NextSpan \in T!Fresh /\ Begins(o, NextSpan)
    <3>1. ~ UNCHANGED about
      BY <1>1
    <3>2. CASE Rests \/ Crash \/ \E o \in live : \E e : Advances(o, e) \/ Misses(o, e) \/ Repeats(o, e)
      BY <3>1, <3>2 DEF Rests, Crash, Advances, Misses, Repeats, Deliver, spanVars
    <3>3. ASSUME NEW o \in live, Ends(o) PROVE FALSE
      BY <3>1, <3>3, EndCases DEF Ends, Finishes, spanVars
    <3>4. QED
      BY <1>1, <3>1, <3>2, <3>3, StepCases, StartCases DEF Starts, spanVars
  <2>2. /\ about' = [about EXCEPT ![NextSpan] = o]
        /\ parent' = [parent EXCEPT ![NextSpan] = IF event[o].parent \in DOMAIN tracked
                                                 THEN tracked[event[o].parent] ELSE NoSpan]
    BY <2>1 DEF Begins
  <2>3. s = NextSpan /\ about'[s] = o
    BY <1>1, <2>2 DEF SpansInv, SpansTyped
  <2>4. SUFFICES ASSUME NEW id \in DOMAIN tracked, tracked[id] # NoSpan,
                        NamesByParam(o, id) \/ NamesByText(o, about[tracked[id]], id)
                 PROVE  parent'[s] = tracked[id]
    BY <2>3
  <2>5. id = StartId[about[tracked[id]]] /\ about[tracked[id]] \in Objects
    BY <2>4 DEF SpansInv, SpansTyped, PlacesInv, DeliveryInv
  <2>6. event[o].parent = id
    <3>1. o \in Objects /\ event[o] \in OwnEvents(o)
      BY DEF DeliveryInv
    <3>2. QED
      BY <2>4, <2>5, <3>1, NamedIsRead
  <2>7. QED
    BY <2>2, <2>3, <2>4, <2>6 DEF SpansInv, SpansTyped
<1>2. UNCHANGED vars => UNCHANGED about
  BY DEF vars, spanVars
<1>3. SystemInv /\ [Step]_systemVars =>
        [\A s \in Span : about[s] = NoObject /\ about'[s] # NoObject => Used(s)]_vars
  BY <1>1
<1>4. QED
  BY <1>3, SystemInvHolds, PTL DEF SystemSpec, NamedParentIsUsed

=============================================================================

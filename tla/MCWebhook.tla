----------------------------- MODULE MCWebhook -----------------------------
(***************************************************************************)
(* Small instances of Webhook for TLC.                                     *)
(***************************************************************************)
EXTENDS Webhook, TLC

CONSTANTS
    Root, Child,
    Flaws   \* the faults that the events of this instance have

PayloadWords ==
    {"vstrace", "github", "gitlab", "jenkins", "jiracloud", "customhttp", "issue", "pull",
     "request", "build", "deploy", "sprint", "origin"}

P == INSTANCE Payloads
     WITH Words <- PayloadWords, Marks <- {"-", "_", ":", "/", "\n"},
          NotTagValues <- {<<"deploy", "\n">>}

RequestSymmetry == Permutations(Request)

\* The event that a payload of kind becomes; its id is abstracted to id, and no
\* string but the type is read.
Ev(id, parent, kind, status, type, lacks) ==
    LET p == [kind |-> kind, scope |-> <<>>, number |-> <<>>, status |-> status, type |-> type,
              error |-> FALSE, param |-> P!NoRef, text |-> <<>>, lacks |-> lacks]
    IN  [id |-> id, state |-> P!State(p), parent |-> parent, fault |-> P!Fault(p),
         timings |-> P!EventTimings(p)]

\* Events go on to fail where the interface lets a source fail and none does.
Failing(e, fault) == [e EXCEPT !.fault = fault]

\* One object of each of two ids; the events of Child name Root as parent.
AllEvents ==
    {Ev(Root, NoId, "gitlab_pipeline", st, <<>>, {}) :
            st \in {"pending", "running", "success", "failed"}}
        \cup {Ev(Child, Root, "github_pr", st, <<>>, {}) : st \in {"opened", "closed"}}
        \cup {Failing(Ev(Root, NoId, "gitlab_pipeline", "running", <<>>, {}), f) :
                  f \in {"tag", "parent", "tags"}}
        \cup {Ev(Root, NoId, "gitlab_job", "", <<>>, {"status"}),
              Ev(Root, NoId, "gitlab_job", "running", <<>>, {"repository"}),
              Ev(Root, NoId, "jira_issue", "Done", <<>>, {"fields"}),
              Ev(Root, NoId, "jira_issue", "In Progress", <<>>, {"priority"}),
              Ev(Root, NoId, "customhttp", "end", <<"deploy", "\n">>, {}),
              Ev(Root, NoId, "github_issue", "closed", <<>>, {"closed_at"})}

MCEvents == {e \in AllEvents : e.fault \in Flaws}

=============================================================================

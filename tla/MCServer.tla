------------------------------ MODULE MCServer ------------------------------
EXTENDS Server

CONSTANT Root

MCEvents ==
    {[id |-> Root, state |-> st, parent |-> NoId, fault |-> "none",
      timings |-> [err |-> FALSE, duration |-> FALSE]] : st \in {"start", "end", "transition"}}

=============================================================================

------------------------------ MODULE Chatlog ------------------------------
(***************************************************************************)
(* Package chatlog: the transaction helpers that matching, safety and chat *)
(* call while they hold the pair's advisory lock.  Every transaction that  *)
(* writes a pair takes that lock first, so the modules that extend this    *)
(* one model each transaction as one step.                                 *)
(***************************************************************************)
EXTENDS Store

\* Emit writes one event per member of each conversation in cs.  The row is
\* still there after the devices of that person caught up; what matters is
\* that it is ahead of their cursor.
Emit(cs) ==
    unseen' = [u \in Users |-> unseen[u] \cup {c \in cs : u \in Members(c)}]

MutantMissingMatch(p) ==
    {c \in Conversations : /\ c = <<p, "match">>
                           /\ conversations[c].state \in {"none", "closed"}}

\* The match conversations EnsureMatch has to insert for a pair: none when
\* the row exists, whatever its state.
MissingMatch(p) ==
    {c \in Conversations : /\ c = <<p, "match">>
                           /\ conversations[c].state = "none"}

\* The table after EnsureMatch: insert ... on conflict do nothing.
EnsureMatch(p) ==
    [c \in Conversations |->
        IF c \in MissingMatch(p) THEN NewRow("open", Nobody)
                                 ELSE conversations[c]]

MutantClosingSilent(p, datingOnly) ==
    {c \in Conversations : /\ Members(c) = p
                           /\ Live(conversations[c])
                           /\ conversations[c].last_seq > 0
                           /\ datingOnly => Origin(c) = "match"}

\* The conversations ClosePair selects for update.
Closing(p, datingOnly) ==
    {c \in Conversations : /\ Members(c) = p
                           /\ Live(conversations[c])
                           /\ datingOnly => Origin(c) = "match"}

\* Every conversation that is closed is announced.
ClosePair(p, datingOnly) ==
    /\ conversations' =
           [c \in Conversations |->
               IF c \in Closing(p, datingOnly)
               THEN [conversations[c] EXCEPT !.state = "closed"]
               ELSE conversations[c]]
    /\ Emit(Closing(p, datingOnly))
============================================================================

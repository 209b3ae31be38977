------------------------------- MODULE Safety -------------------------------
(***************************************************************************)
(* internal/safety: blocks, unmatching and the suspension of an account.   *)
(***************************************************************************)
EXTENDS Chatlog

\* Only the blocker's own notices about the other person are removed.
Block(u, v) ==
    /\ u # v
    /\ ClosePair(Pair(u, v), FALSE)
    /\ blocks' = blocks \cup {<<u, v>>}
    /\ matches' = matches \ {Pair(u, v)}
    /\ ended' = ended \cup (matches \cap {Pair(u, v)})
    /\ likes' = likes \ {<<u, v>>, <<v, u>>}
    /\ notifications' = notifications \ {<<u, v>>}
    /\ UNCHANGED <<status, hidden, waiting, passes, messages, participants,
                   consents>>

Unblock(u, v) ==
    /\ <<u, v>> \in blocks
    /\ blocks' = blocks \ {<<u, v>>}
    /\ UNCHANGED <<status, hidden, waiting, unseen, socialVars, threadVars>>

Unmatch(u, p) ==
    /\ p \in matches
    /\ u \in p
    /\ ClosePair(p, TRUE)
    /\ matches' = matches \ {p}
    /\ ended' = ended \cup {p}
    /\ likes' = {l \in likes : {l[1], l[2]} # p}
    /\ passes' = passes \cup {l \in p \X p : l[1] # l[2]}
    /\ UNCHANGED <<status, hidden, blocks, waiting, notifications, messages,
                   participants, consents>>

\* An unmatch that read its match before it waited for the lock, and got it
\* once the match had ended: it does not look again, and writes all the rest.
\* The pair may be blocked by then, or matched again by another row, which
\* stays.
LateUnmatch(u, p) ==
    /\ p \in ended
    /\ u \in p
    /\ ClosePair(p, TRUE)
    /\ likes' = {l \in likes : {l[1], l[2]} # p}
    /\ passes' = passes \cup {l \in p \X p : l[1] # l[2]}
    /\ UNCHANGED <<status, hidden, blocks, waiting, matches, ended,
                   notifications, messages, participants, consents>>

\* Resolve with decision.Suspend set: the account's status changes and
\* nothing else does.
Resolve(u) ==
    /\ Active(u)
    /\ status' = [status EXCEPT ![u] = "suspended"]
    /\ UNCHANGED <<hidden, blocks, waiting, unseen, socialVars, threadVars>>
============================================================================

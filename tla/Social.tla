------------------------------- MODULE Social -------------------------------
(***************************************************************************)
(* internal/social: passes, likes, matches and the notices they produce.   *)
(* RequireAuth reads the caller's status in a statement of its own, so a   *)
(* request it let through may still run once the account is suspended:     *)
(* where the handler does not look again, the model asks for nothing.      *)
(***************************************************************************)
EXTENDS Chatlog

Pass(u, v) ==
    /\ u # v
    /\ passes' = passes \cup {<<u, v>>}
    /\ UNCHANGED <<status, hidden, blocks, waiting, unseen, likes, matches,
                   ended, notifications, threadVars>>

MutantReciprocal(u, v) == <<u, v>> \in likes

Reciprocal(u, v) == <<v, u>> \in likes

\* A like nobody has returned: the row, and a notice that names nobody.
LikeUnanswered(u, v) ==
    /\ ~ Reciprocal(u, v)
    /\ likes' = likes \cup {<<u, v>>}
    /\ notifications' = notifications \cup {<<v, Nobody>>}
    /\ UNCHANGED <<matches, conversations, unseen>>

\* A returned like: the match row, its conversation, the two likes consumed,
\* and a notice to each side that names the other.
createMatch(u, v) ==
    /\ Reciprocal(u, v)
    /\ matches' = matches \cup {Pair(u, v)}
    /\ conversations' = EnsureMatch(Pair(u, v))
    /\ Emit(MissingMatch(Pair(u, v)))
    /\ likes' = likes \ {<<u, v>>, <<v, u>>}
    /\ notifications' = notifications \cup {<<u, v>>, <<v, u>>}

\* Like reads neither the match table nor the passes, nor the status of the
\* person who is liked.
Like(u, v) ==
    /\ u # v
    /\ ~ Blocked(Pair(u, v))
    /\ LikeUnanswered(u, v) \/ createMatch(u, v)
    /\ UNCHANGED <<status, hidden, blocks, waiting, passes, ended, messages,
                   participants, consents>>

\* Either side of a like may remove it.
RemoveLike(u, like) ==
    /\ like \in likes
    /\ u \in {like[1], like[2]}
    /\ likes' = likes \ {like}
    /\ UNCHANGED <<status, hidden, blocks, waiting, unseen, passes, matches,
                   ended, notifications, threadVars>>
============================================================================

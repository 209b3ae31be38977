--------------------------- MODULE PairTransactions ---------------------------
(***************************************************************************)
(* Likes, unmatches and blocks at the granularity of their statements, with *)
(* requests in flight.  Like takes the pair's advisory lock before it reads *)
(* anything and keeps it to its commit; Unmatch reads the match it is to    *)
(* end before it takes the lock; RemoveLike is one statement and takes no   *)
(* lock.  Every other write of a pair is a transaction that holds the lock  *)
(* from its first read on: one step, taken when the lock is free.           *)
(***************************************************************************)
EXTENDS Visibility

VARIABLE req  \* the request of each account that has read but not committed

pairVars == <<vars, req>>

NoRequest == [op |-> "none", peer |-> Nobody, found |-> FALSE]

Request == [op : {"none", "like", "unmatch", "safety"},
            peer : Users \cup {Nobody}, found : BOOLEAN]

PairTypeOK == TypeOK /\ req \in [Users -> Request]

PairInit == Init /\ req = [u \in Users |-> NoRequest]

\* The open like of u towards v.  It holds the lock of the pair and, until it
\* ends, the row of the like it has written.
InFlight(u, v) == req[u].op = "like" /\ req[u].peer = v

\* pg_advisory_xact_lock on the pair would be granted at once.
LockFree(p) == \A u, v \in p : ~ InFlight(u, v)

\* An unmatch keeps the id of the row it read: when that row goes, a later
\* match of the pair is another row.
AfterMatch(p, c, w) ==
    IF c.op = "unmatch" /\ Pair(w, c.peer) = p THEN [c EXCEPT !.found = FALSE]
                                               ELSE c

----------------------------------------------------------------------------

MutantLikeRead(u, v) ==
    /\ req[u] = NoRequest
    /\ u # v
    /\ ~ Blocked(Pair(u, v))
    /\ req' = [req EXCEPT ![u] =
           [op |-> "like", peer |-> v, found |-> Reciprocal(u, v)]]
    /\ UNCHANGED vars

\* social.Like up to its look for the other's like: the lock, the block check
\* and the caller's own like, which nobody else sees before the commit.
LikeRead(u, v) ==
    /\ req[u] = NoRequest
    /\ u # v
    /\ LockFree(Pair(u, v))
    /\ ~ Blocked(Pair(u, v))
    /\ req' = [req EXCEPT ![u] =
           [op |-> "like", peer |-> v, found |-> Reciprocal(u, v)]]
    /\ UNCHANGED vars

\* The rest of Like.  What it read decides; it does not look again.
LikeCommit(u, v) ==
    /\ InFlight(u, v)
    /\ IF req[u].found
       THEN /\ matches' = matches \cup {Pair(u, v)}
            /\ conversations' = EnsureMatch(Pair(u, v))
            /\ Emit(MissingMatch(Pair(u, v)))
            /\ likes' = likes \ {<<u, v>>, <<v, u>>}
            /\ notifications' = notifications \cup {<<u, v>>, <<v, u>>}
       ELSE /\ likes' = likes \cup {<<u, v>>}
            /\ notifications' = notifications \cup {<<v, Nobody>>}
            /\ UNCHANGED <<matches, conversations, unseen>>
    /\ req' = [req EXCEPT ![u] = NoRequest]
    /\ UNCHANGED <<status, hidden, blocks, waiting, passes, ended, messages,
                   participants, consents>>

\* An error, a cancelled request or a lost connection: the deferred rollback.
Abort(u) ==
    /\ req[u].op # "none"
    /\ req' = [req EXCEPT ![u] = NoRequest]
    /\ UNCHANGED vars

\* RemoveLike waits for a like that is being written, and for nothing else.
Withdraw(u, like) ==
    /\ ~ InFlight(like[1], like[2])
    /\ RemoveLike(u, like)
    /\ UNCHANGED req

\* The first statement of Unmatch: the match is there and is the caller's.
UnmatchRead(u, v) ==
    /\ req[u] = NoRequest
    /\ u # v
    /\ Pair(u, v) \in matches
    /\ req' = [req EXCEPT ![u] =
           [op |-> "unmatch", peer |-> v, found |-> TRUE]]
    /\ UNCHANGED vars

MutantUnmatchCommit(u, v) ==
    /\ req[u].op = "unmatch" /\ req[u].peer = v
    /\ LockFree(Pair(u, v))
    /\ ClosePair(Pair(u, v), TRUE)
    /\ matches' = IF req[u].found THEN matches \ {Pair(u, v)} ELSE matches
    /\ ended' = ended \cup (matches \ matches')
    /\ likes' = likes \ {<<u, v>>, <<v, u>>}
    /\ passes' = passes \cup {<<u, v>>}
    /\ req' = [w \in Users |->
           IF w = u THEN NoRequest
           ELSE IF req[u].found THEN AfterMatch(Pair(u, v), req[w], w)
           ELSE req[w]]
    /\ UNCHANGED <<status, hidden, blocks, waiting, notifications, messages,
                   participants, consents>>

\* The statements under the lock, whatever became of the match meanwhile.
UnmatchCommit(u, v) ==
    /\ req[u].op = "unmatch" /\ req[u].peer = v
    /\ LockFree(Pair(u, v))
    /\ ClosePair(Pair(u, v), TRUE)
    /\ matches' = IF req[u].found THEN matches \ {Pair(u, v)} ELSE matches
    /\ ended' = ended \cup (matches \ matches')
    /\ likes' = likes \ {<<u, v>>, <<v, u>>}
    /\ passes' = passes \cup {<<u, v>>, <<v, u>>}
    /\ req' = [w \in Users |->
           IF w = u THEN NoRequest
           ELSE IF req[u].found THEN AfterMatch(Pair(u, v), req[w], w)
           ELSE req[w]]
    /\ UNCHANGED <<status, hidden, blocks, waiting, notifications, messages,
                   participants, consents>>

MutantBlockCommit(u, v) ==
    /\ Block(u, v)
    /\ req' = [w \in Users |-> AfterMatch(Pair(u, v), req[w], w)]

\* safety.Block, whose first statement is the lock.
BlockCommit(u, v) ==
    /\ LockFree(Pair(u, v))
    /\ Block(u, v)
    /\ req' = [w \in Users |-> AfterMatch(Pair(u, v), req[w], w)]

\* chat.handleSafety: who the other person is, read through a conversation
\* that is open at that moment.  The transaction ends with the read.
SafetyRead(u, c) ==
    /\ req[u] = NoRequest
    /\ Access(u, c, conversations[c])
    /\ \E v \in Members(c) \ {u} :
           req' = [req EXCEPT ![u] =
               [op |-> "safety", peer |-> v, found |-> TRUE]]
    /\ UNCHANGED vars

\* Then Block, whatever became of the conversation.  Asked for a report, or
\* refused, the request leaves no trace here: it ends as Abort does.
SafetyBlock(u, v) ==
    /\ req[u].op = "safety" /\ req[u].peer = v
    /\ LockFree(Pair(u, v))
    /\ Block(u, v)
    /\ req' = [w \in Users |-> IF w = u THEN NoRequest
                                ELSE AfterMatch(Pair(u, v), req[w], w)]

\* chat.Open for a match, whose first statement is the lock.
OpenCommit(u, v) ==
    /\ LockFree(Pair(u, v))
    /\ \/ OpenMatch(u, v)
       \/ \E in \in SendInput : OpenMatchWith(u, v, in)
    /\ UNCHANGED req

\* Single statements that neither take the lock nor meet a row one holds.
Statement ==
    /\ \/ \E u, v \in Users : Pass(u, v) \/ Unblock(u, v)
       \/ \E u \in Users : Resolve(u)
       \/ ProfileNext
    /\ UNCHANGED req

PairNext ==
    \/ \E u, v \in Users :
           \/ LikeRead(u, v) \/ LikeCommit(u, v)
           \/ UnmatchRead(u, v) \/ UnmatchCommit(u, v)
           \/ BlockCommit(u, v) \/ SafetyBlock(u, v)
           \/ OpenCommit(u, v)
    \/ \E u \in Users, c \in Conversations : SafetyRead(u, c)
    \/ \E u \in Users : Abort(u)
    \/ \E u \in Users, like \in likes : Withdraw(u, like)
    \/ Statement

PairSpec == PairInit /\ [][PairNext]_pairVars

----------------------------------------------------------------------------

\* A like that a transaction has read and is about to answer counts as there
\* until that transaction ends: withdrawing it meanwhile comes too late.
LikesRead ==
    {e \in Edges : \E u, v \in Users :
        e = <<v, u>> /\ InFlight(u, v) /\ req[u].found}

Abs == INSTANCE Velora WITH likes <- likes \cup LikesRead

\* The statements of Like, Unmatch, Block and RemoveLike, interleaved as
\* PostgreSQL allows, change the tables as the transactions of Velora do: the
\* only trace of a step in between is a like withdrawn too late.
ImplementsVelora == Abs!Spec
=============================================================================

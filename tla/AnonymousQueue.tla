---------------------------- MODULE AnonymousQueue ----------------------------
(***************************************************************************)
(* internal/chat/anonymous.go, statement by statement.  A join holds a     *)
(* global advisory lock from its first statement to its end, so at most    *)
(* one is under way; leaving the queue, blocking and the other requests do *)
(* not take that lock and may run between its statements.                  *)
(***************************************************************************)
EXTENDS Velora

\* The queue pairs people into anonymous conversations.
ASSUME QueueAssumption == "anonymous" \in Origins

VARIABLES
    call,   \* the join of each account that has begun and not ended
    left,   \* history: accounts that left the queue and did not join since
    late    \* history: pairings of each account since it left

joinVars == <<call, left, late>>
queueVars == <<vars, joinVars>>

Idle == [stage |-> "none", peer |-> Nobody]

Call == [stage : {"none", "checked", "picked"}, peer : Users \cup {Nobody}]

QueueTypeOK ==
    /\ TypeOK
    /\ call \in [Users -> Call]
    /\ left \subseteq Users
    /\ late \in [Users -> Nat]

QueueInit ==
    /\ Init
    /\ matches = {}
    /\ call = [u \in Users |-> Idle]
    /\ left = {}
    /\ late = [u \in Users |-> 0]

----------------------------------------------------------------------------

MutantQueueLockFree(u) == call[u] = Idle

\* pg_advisory_xact_lock(8716354201) would be granted.
QueueLockFree(u) == \A v \in Users : call[v] = Idle

\* The caller may join, and has nobody to talk to yet.
JoinCheck(u) ==
    /\ QueueLockFree(u)
    /\ Active(u) /\ u \notin hidden
    /\ ~ Paired(u)
    /\ call' = [call EXCEPT ![u] = [stage |-> "checked", peer |-> Nobody]]
    /\ left' = left \ {u}
    /\ late' = [late EXCEPT ![u] = 0]
    /\ UNCHANGED vars

\* Nobody to pair with: the caller's row is committed and the caller waits.
JoinWaits(u) ==
    /\ call[u].stage = "checked"
    /\ Candidates(u) = {}
    /\ waiting' = waiting \cup {u}
    /\ call' = [call EXCEPT ![u] = Idle]
    /\ UNCHANGED <<status, hidden, blocks, unseen, socialVars, threadVars,
                   left, late>>

\* Somebody is picked.  The caller's own row is written, and not committed.
Pick(u, v) ==
    /\ call[u].stage = "checked"
    /\ v \in Candidates(u)
    /\ call' = [call EXCEPT ![u] = [stage |-> "picked", peer |-> v]]
    /\ UNCHANGED <<vars, left, late>>

\* The check under the lock that block takes as well.
Recheck(p) == ~ Blocked(p)

\* The block landed first: the whole join is rolled back.
Refused(u, v) ==
    /\ call[u] = [stage |-> "picked", peer |-> v]
    /\ ~ Recheck(Pair(u, v))
    /\ call' = [call EXCEPT ![u] = Idle]
    /\ UNCHANGED <<vars, left, late>>

MutantDequeued(u, v) == {u}

\* The rows that are deleted once two people are paired.
Dequeued(u, v) == {u, v}

\* The pair's lock, the check, the conversation, and the commit.  Nothing but
\* the block is looked at again.
PairCommit(u, v) ==
    LET c == <<Pair(u, v), "anonymous">>
    IN  /\ call[u] = [stage |-> "picked", peer |-> v]
        /\ Recheck(Pair(u, v))
        /\ conversations[c].state = "none"
        /\ conversations' = [conversations EXCEPT ![c] = NewRow("open", Nobody)]
        /\ waiting' = waiting \ Dequeued(u, v)
        /\ Emit({c})
        /\ call' = [call EXCEPT ![u] = Idle]
        /\ late' = [w \in Users |->
                       IF w \in left \cap {u, v} THEN late[w] + 1 ELSE late[w]]
        /\ UNCHANGED <<status, hidden, blocks, socialVars, messages,
                       participants, consents, left>>

\* An error or a lost client.
JoinFails(u) ==
    /\ call[u] # Idle
    /\ call' = [call EXCEPT ![u] = Idle]
    /\ UNCHANGED <<vars, left, late>>

\* The DELETE of the queue entry, one statement.  It waits for a row that the
\* caller's own join has written; it does not wait for whoever picked it.
Leave(u) ==
    /\ call[u].stage # "picked"
    /\ u \in waiting
    /\ waiting' = waiting \ {u}
    /\ left' = IF call[u] = Idle THEN left \cup {u} ELSE left
    /\ UNCHANGED <<status, hidden, blocks, unseen, socialVars, threadVars,
                   call, late>>

\* The 30 seconds of a queue entry run out.
Expire(u) ==
    /\ call[u].stage # "picked"
    /\ u \in waiting
    /\ waiting' = waiting \ {u}
    /\ UNCHANGED <<status, hidden, blocks, unseen, socialVars, threadVars,
                   joinVars>>

\* The requests that change what a join has read.
Elsewhere ==
    /\ \/ \E u, v \in Users : Block(u, v) \/ Unblock(u, v)
       \/ \E u \in Users : Resolve(u)
       \/ \E u \in Users, c \in Conversations : Reveal(u, c)
       \/ ProfileNext
    /\ UNCHANGED joinVars

JoinNext(u) ==
    \/ JoinCheck(u)
    \/ JoinWaits(u)
    \/ \E v \in Users : Pick(u, v) \/ Refused(u, v) \/ PairCommit(u, v)
    \/ JoinFails(u)

WaitingNext == \E u \in Users : JoinNext(u) \/ Leave(u) \/ Expire(u)

WaitingSpec == QueueInit /\ [][WaitingNext \/ Elsewhere]_queueVars

----------------------------------------------------------------------------

\* Nobody has two strangers to talk to at once, although a join looks at its
\* caller's conversations only and never at those of the person it picks.
OnePartner == \A u \in Users : \A c, d \in Partners(u) : c = d

\* Whoever leaves the queue can still be paired by the one join that had
\* picked them, and by no other.
LeaverPairedOnce == \A u \in Users : late[u] <= 1

\* Joins, statement by statement, implement Velora, where they are one step:
\* neither of the two has a partner, no block stands between them, and no
\* earlier anonymous conversation is reopened.
QueueImplementsVelora == Spec
=============================================================================

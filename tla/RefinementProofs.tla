--------------------------- MODULE RefinementProofs ---------------------------
(***************************************************************************)
(* The statements of the services implement Velora.  Joins of the          *)
(* anonymous queue do, nobody has two partners, and whoever leaves is      *)
(* paired at most once; likes, unmatches and blocks do, and what is proved *)
(* of Velora's tables holds between their statements: for any number of    *)
(* accounts.                                                               *)
(***************************************************************************)
EXTENDS AnonymousQueue, PairTransactions, ThreadProofs

\* An account with a join under way.
Joining(u) == call[u].stage # "none"

\* One join at a time, for a caller without a partner, who has not left.
OneJoin ==
    \A u \in Users : Joining(u) =>
        /\ \A v \in Users : Joining(v) => u = v
        /\ Partners(u) = {}
        /\ u \notin left

\* Whoever waits has no partner, and has not left.
Waiters == \A u \in waiting : Partners(u) = {} /\ u \notin left

\* Whoever is picked could be paired when they were, and has no partner since.
\* They may have left, but were not paired after that.
Picks ==
    \A u, v \in Users : call[u] = [stage |-> "picked", peer |-> v] =>
        /\ u # v
        /\ Pair(u, v) \in Compatible
        /\ Partners(v) = {}
        /\ late[v] = 0

\* Only whoever left has late pairings, and then one.
Late == \A u \in Users : late[u] <= 1 /\ (u \notin left => late[u] = 0)

QInv == QueueTypeOK /\ BlockSevers /\ OnePartner /\ OneJoin /\ Waiters
            /\ Picks /\ Late

----------------------------------------------------------------------------

\* A conversation that is open is not a blocked pair's.
LEMMA OpenUnblocked ==
    ASSUME TypeOK, BlockSevers, NEW c \in Conversations,
           conversations[c].state = "open"
    PROVE  ~ Blocked(Members(c))
<1>1. ASSUME NEW u \in Members(c), NEW v \in Members(c), u # v,
             <<u, v>> \in blocks
      PROVE  FALSE
  <2>1. Members(c) \in Pairs
    BY DEF Conversations, Members
  <2>2. u \in Users /\ v \in Users /\ Members(c) = Pair(u, v)
    BY <1>1, <2>1 DEF Pairs, Pair
  <2>3. QED
    BY <1>1, <2>2 DEF BlockSevers, Live
<1>2. QED
  BY <1>1 DEF Blocked

\* A step that opens no conversation gives nobody a partner.
LEMMA PartnersShrink ==
    ASSUME TypeOK, BlockSevers,
           \A c \in Conversations :
               conversations'[c].state = "open" /\ ~ conversations'[c].revealed
                   => /\ conversations[c].state = "open"
                      /\ ~ conversations[c].revealed,
           NEW u
    PROVE  Partners(u)' \subseteq Partners(u)
<1> SUFFICES ASSUME NEW c \in Partners(u)' PROVE c \in Partners(u)
  OBVIOUS
<1>1. /\ c \in Conversations /\ u \in Members(c) /\ Origin(c) = "anonymous"
      /\ conversations'[c].state = "open" /\ ~ conversations'[c].revealed
  BY DEF Partners
<1>2. conversations[c].state = "open" /\ ~ conversations[c].revealed
  BY <1>1
<1>3. ~ Blocked(Members(c))
  BY <1>1, <1>2, OpenUnblocked
<1>4. QED
  BY <1>1, <1>2, <1>3 DEF Partners

\* The invariant holds at the start.
LEMMA QInvInit == QueueInit => QInv
<1> SUFFICES ASSUME QueueInit PROVE QInv
  OBVIOUS
<1>1. TypeOK /\ BlockSevers
  BY TypeInit DEF QueueInit, Init, BlockSevers
<1>2. \A u \in Users : Partners(u) = {}
  BY DEF QueueInit, Init, Partners, NoRow
<1>3. QueueTypeOK
  BY <1>1 DEF QueueInit, QueueTypeOK, Call, Idle
<1>4. OneJoin /\ Waiters /\ Picks /\ Late /\ OnePartner
  BY <1>2 DEF QueueInit, Init, OneJoin, Waiters, Picks, Late, Joining, Idle,
              OnePartner
<1>5. QED
  BY <1>1, <1>3, <1>4 DEF QInv

----------------------------------------------------------------------------

\* A join's last statement is Velora's pairing.
LEMMA PairCommitPairs ==
    ASSUME QInv, NEW u \in Users, NEW v \in Users, PairCommit(u, v)
    PROVE  PairAnonymously(u, v)
<1> DEFINE c == <<Pair(u, v), "anonymous">>
<1>1. call[u] = [stage |-> "picked", peer |-> v]
  BY DEF PairCommit
<1>2. /\ u # v /\ Pair(u, v) \in Compatible
      /\ Partners(u) = {} /\ Partners(v) = {}
  BY <1>1 DEF QInv, Picks, OneJoin, Joining
<1>3. c \in Conversations
  BY <1>2, PairIsPair, QueueAssumption DEF Conversations
<1>4. QED
  BY <1>2, <1>3 DEF PairCommit, PairAnonymously, Paired, Recheck, Dequeued

\* Every step of the queue is a step of Velora, or none.
LEMMA QueueStepMaps ==
    ASSUME QInv, [WaitingNext \/ Elsewhere]_queueVars
    PROVE  [Next]_vars
<1>1. CASE UNCHANGED queueVars
  BY <1>1 DEF queueVars
<1>2. CASE Elsewhere
  BY <1>2 DEF Elsewhere, Next, SafetyNext, InboxNext
<1>3. ASSUME NEW u \in Users, JoinCheck(u) \/ JoinFails(u) PROVE UNCHANGED vars
  BY <1>3 DEF JoinCheck, JoinFails
<1>4. ASSUME NEW u \in Users, JoinWaits(u) PROVE Next
  <2>1. ~ Paired(u)
    BY <1>4 DEF JoinWaits, QInv, OneJoin, Joining, Paired
  <2>2. JoinQueue(u)
    BY <1>4, <2>1, QueueAssumption DEF JoinWaits, JoinQueue
  <2>3. QED
    BY <2>2 DEF Next, QueueNext
<1>5. ASSUME NEW u \in Users, NEW v \in Users, Pick(u, v) \/ Refused(u, v)
      PROVE  UNCHANGED vars
  BY <1>5 DEF Pick, Refused
<1>6. ASSUME NEW u \in Users, NEW v \in Users, PairCommit(u, v) PROVE Next
  BY <1>6, PairCommitPairs DEF Next, QueueNext
<1>7. ASSUME NEW u \in Users, Leave(u) \/ Expire(u) PROVE Next
  <2>1. LeaveQueue(u)
    BY <1>7 DEF Leave, Expire, LeaveQueue
  <2>2. QED
    BY <2>1 DEF Next, QueueNext
<1>8. QED
  BY <1>1, <1>2, <1>3, <1>4, <1>5, <1>6, <1>7 DEF WaitingNext, JoinNext

----------------------------------------------------------------------------

\* What a step outside a pairing keeps: it gives nobody a partner, starts no
\* join and puts nobody in the queue.
LEMMA Quiet ==
    ASSUME QInv, QueueTypeOK', BlockSevers',
           \A c \in Conversations :
               conversations'[c].state = "open" /\ ~ conversations'[c].revealed
                   => /\ conversations[c].state = "open"
                      /\ ~ conversations[c].revealed,
           waiting' \subseteq waiting,
           \A u \in Users : call'[u] = call[u] \/ ~ Joining(u)',
           late' = late, left \subseteq left',
           \A u \in left' : u \in left \/ (u \notin waiting' /\ ~ Joining(u)')
    PROVE  QInv'
<1>1. \A u \in Users : Partners(u)' \subseteq Partners(u)
  BY PartnersShrink DEF QInv, QueueTypeOK
<1>2. OnePartner'
  BY <1>1 DEF QInv, OnePartner
<1>3. OneJoin'
  BY <1>1 DEF QInv, OneJoin, Joining
<1>4. Waiters'
  <2>1. waiting \subseteq Users
    BY DEF QInv, QueueTypeOK, TypeOK
  <2>2. QED
    BY <1>1, <2>1 DEF QInv, Waiters
<1>5. Picks'
  <2> SUFFICES ASSUME NEW u \in Users, NEW v \in Users,
                      call'[u] = [stage |-> "picked", peer |-> v]
               PROVE  /\ u # v
                      /\ Pair(u, v) \in Compatible
                      /\ Partners(v)' = {}
                      /\ late'[v] = 0
    BY DEF Picks, Pair
  <2>1. call'[u] = call[u]
    BY DEF Joining
  <2>2. QED
    BY <1>1, <2>1 DEF QInv, Picks
<1>6. Late'
  BY DEF QInv, Late
<1>7. QED
  BY <1>2, <1>3, <1>4, <1>5, <1>6 DEF QInv

\* The types of a join's own state.
LEMMA QueueTypeStep ==
    ASSUME QInv, [WaitingNext \/ Elsewhere]_queueVars
    PROVE  QueueTypeOK' /\ BlockSevers'
<1>1. [Next]_vars
  BY QueueStepMaps
<1>2. TypeOK' /\ BlockSevers'
  BY <1>1, TypeStep, BlockSeversStep DEF QInv, QueueTypeOK
<1>3. /\ call \in [Users -> Call] /\ left \subseteq Users
      /\ late \in [Users -> Nat]
  BY DEF QInv, QueueTypeOK
<1>4. Idle \in Call
  BY DEF Idle, Call
<1>5. /\ call' \in [Users -> Call]
      /\ left' \subseteq Users
      /\ late' \in [Users -> Nat]
  <2>1. CASE UNCHANGED joinVars
    BY <1>3, <2>1 DEF joinVars
  <2>2. ASSUME NEW u \in Users, JoinCheck(u)
        PROVE  /\ call' \in [Users -> Call] /\ left' \subseteq Users
               /\ late' \in [Users -> Nat]
    <3>1. [stage |-> "checked", peer |-> Nobody] \in Call
      BY DEF Call
    <3>2. QED
      BY <1>3, <2>2, <3>1 DEF JoinCheck
  <2>3. ASSUME NEW u \in Users, NEW v \in Users, Pick(u, v)
        PROVE  /\ call' \in [Users -> Call] /\ left' \subseteq Users
               /\ late' \in [Users -> Nat]
    <3>1. [stage |-> "picked", peer |-> v] \in Call
      BY DEF Call
    <3>2. QED
      BY <1>3, <2>3, <3>1 DEF Pick
  <2>4. ASSUME NEW u \in Users, NEW v \in Users, PairCommit(u, v)
        PROVE  /\ call' \in [Users -> Call] /\ left' \subseteq Users
               /\ late' \in [Users -> Nat]
    BY <1>3, <1>4, <2>4 DEF PairCommit
  <2>5. ASSUME NEW u \in Users, NEW v \in Users,
               JoinWaits(u) \/ Refused(u, v) \/ JoinFails(u) \/ Leave(u)
        PROVE  /\ call' \in [Users -> Call] /\ left' \subseteq Users
               /\ late' \in [Users -> Nat]
    BY <1>3, <1>4, <2>5 DEF JoinWaits, Refused, JoinFails, Leave
  <2>6. CASE Elsewhere
    BY <2>1, <2>6 DEF Elsewhere
  <2>7. ASSUME NEW u \in Users, Expire(u) PROVE UNCHANGED joinVars
    BY <2>7 DEF Expire
  <2>8. CASE UNCHANGED queueVars
    BY <2>1, <2>8 DEF queueVars
  <2>9. QED
    BY <2>1, <2>2, <2>3, <2>4, <2>5, <2>6, <2>7, <2>8 DEF WaitingNext, JoinNext
<1>6. QED
  BY <1>2, <1>5 DEF QueueTypeOK

\* Blocks, suspensions, reveals and hidden profiles open no conversation.
LEMMA ElsewhereKeeps ==
    ASSUME QInv, QueueTypeOK', BlockSevers', Elsewhere
    PROVE  QInv'
<1> DEFINE NoneOpened == \A c \in Conversations :
               conversations'[c].state = "open" /\ ~ conversations'[c].revealed
                   => /\ conversations[c].state = "open"
                      /\ ~ conversations[c].revealed
<1>0. TypeOK
  BY DEF QInv, QueueTypeOK
<1>1. ASSUME NEW u \in Users, NEW v \in Users, Block(u, v) PROVE NoneOpened
  <2> SUFFICES ASSUME NEW c \in Conversations, conversations'[c].state = "open",
                      ~ conversations'[c].revealed
               PROVE  /\ conversations[c].state = "open"
                      /\ ~ conversations[c].revealed
    OBVIOUS
  <2>1. Live(conversations'[c])
    BY DEF Live
  <2>2. c \notin Closing(Pair(u, v), FALSE)
    BY <1>0, <1>1, <2>1, ClosePairLive DEF Block
  <2>3. conversations'[c] = conversations[c]
    BY <1>1, <2>2 DEF Block, ClosePair
  <2>4. QED
    BY <2>3
<1>2. ASSUME NEW u \in Users, NEW v \in Users, Unblock(u, v) PROVE NoneOpened
  BY <1>2 DEF Unblock, threadVars
<1>3. ASSUME NEW u \in Users, Resolve(u) PROVE NoneOpened
  BY <1>3 DEF Resolve, threadVars
<1>4. ASSUME NEW u \in Users, NEW c \in Conversations, Reveal(u, c)
      PROVE  NoneOpened
  <2>1. ~ conversations[c].revealed /\ conversations[c].state = "open"
    BY <1>4 DEF Reveal
  <2>2. \A d \in Conversations : d # c => conversations'[d] = conversations[d]
    BY <1>0, <1>4 DEF Reveal, TypeOK
  <2>3. QED
    BY <2>1, <2>2
<1>5. ASSUME ProfileNext PROVE NoneOpened
  BY <1>5 DEF ProfileNext, SetHidden, threadVars
<1>6. NoneOpened
  BY <1>1, <1>2, <1>3, <1>4, <1>5 DEF Elsewhere
<1>7. waiting' = waiting /\ UNCHANGED joinVars
  BY DEF Elsewhere, Block, Unblock, Resolve, Reveal, ProfileNext, SetHidden
<1>8. QED
  BY <1>6, <1>7, Quiet DEF joinVars, Joining

\* The steps of a join before its last statement keep the invariant.
LEMMA JoinKeeps ==
    ASSUME QInv, QueueTypeOK', BlockSevers', NEW u \in Users
    PROVE  /\ JoinCheck(u) => QInv'
           /\ JoinWaits(u) => QInv'
           /\ JoinFails(u) => QInv'
           /\ \A v \in Users : Pick(u, v) \/ Refused(u, v) => QInv'
<1>0. /\ call \in [Users -> Call] /\ left \subseteq Users
      /\ late \in [Users -> Nat] /\ waiting \subseteq Users
  BY DEF QInv, QueueTypeOK, TypeOK
<1>1. ASSUME JoinCheck(u) PROVE QInv'
  <2>1. \A v \in Users : ~ Joining(v) /\ Partners(v)' = Partners(v)
    BY <1>1 DEF JoinCheck, QueueLockFree, Joining, Idle, vars, Partners,
                threadVars, Blocked
  <2>2. Partners(u) = {}
    BY <1>1 DEF JoinCheck, Paired
  <2>3. \A v \in Users : Joining(v)' <=> v = u
    BY <1>0, <1>1, <2>1 DEF JoinCheck, Joining
  <2>4. call'[u].stage = "checked" /\ u \notin left'
    BY <1>0, <1>1 DEF JoinCheck
  <2>5. OneJoin' /\ OnePartner'
    BY <2>1, <2>2, <2>3, <2>4 DEF OneJoin, OnePartner, QInv
  <2>6. Waiters'
    BY <1>0, <1>1, <2>1 DEF JoinCheck, Waiters, QInv, vars
  <2>7. Picks'
    BY <2>3, <2>4 DEF Picks, Joining
  <2>8. Late'
    BY <1>0, <1>1 DEF JoinCheck, Late, QInv
  <2>9. QED
    BY <2>5, <2>6, <2>7, <2>8 DEF QInv
<1>2. ASSUME JoinWaits(u) PROVE QInv'
  <2>1. \A v \in Users : Partners(v)' = Partners(v)
    BY <1>2 DEF JoinWaits, Partners, threadVars, Blocked
  <2>2. Joining(u)
    BY <1>2 DEF JoinWaits, Joining
  <2>3. \A v \in Users : ~ Joining(v)'
    BY <1>0, <1>2, <2>2 DEF JoinWaits, Joining, Idle, QInv, OneJoin
  <2>4. OneJoin' /\ OnePartner' /\ Picks'
    BY <2>1, <2>3 DEF OneJoin, OnePartner, Picks, Joining, QInv
  <2>5. Waiters'
    BY <1>0, <1>2, <2>1, <2>2 DEF JoinWaits, Waiters, OneJoin, QInv
  <2>6. Late'
    BY <1>2 DEF JoinWaits, Late, QInv
  <2>7. QED
    BY <2>4, <2>5, <2>6 DEF QInv
<1>3. ASSUME NEW v \in Users, JoinFails(u) \/ Refused(u, v) PROVE QInv'
  <2>1. /\ conversations' = conversations /\ waiting' = waiting
        /\ late' = late /\ left' = left
    BY <1>3 DEF JoinFails, Refused, vars, threadVars
  <2>2. \A w \in Users : call'[w] = call[w] \/ ~ Joining(w)'
    BY <1>0, <1>3 DEF JoinFails, Refused, Joining, Idle
  <2>3. QED
    BY <2>1, <2>2, Quiet
<1>4. ASSUME NEW v \in Users, Pick(u, v) PROVE QInv'
  <2>1. \A w \in Users : Partners(w)' = Partners(w)
    BY <1>4 DEF Pick, vars, Partners, threadVars, Blocked
  <2>2. Joining(u)
    BY <1>4 DEF Pick, Joining
  <2>3. \A w \in Users : Joining(w)' <=> w = u
    BY <1>0, <1>4, <2>2 DEF Pick, Joining, QInv, OneJoin
  <2>4. OneJoin' /\ OnePartner'
    BY <1>4, <2>1, <2>2, <2>3 DEF Pick, OneJoin, OnePartner, QInv
  <2>5. Waiters' /\ Late'
    BY <1>0, <1>4, <2>1 DEF Pick, Waiters, Late, QInv, vars
  <2>6. /\ v \in waiting \ {u} /\ Pair(u, v) \in Compatible
        /\ Partners(v) = {} /\ late[v] = 0
    BY <1>4 DEF Pick, Candidates, QInv, Waiters, Late
  <2>7. call'[u] = [stage |-> "picked", peer |-> v] /\ late' = late
    BY <1>0, <1>4 DEF Pick
  <2>8. Picks'
    BY <2>1, <2>3, <2>6, <2>7 DEF Picks, Joining, Pair
  <2>9. QED
    BY <2>4, <2>5, <2>8 DEF QInv
<1>5. QED
  BY <1>1, <1>2, <1>3, <1>4

\* A pairing gives each of the two their only partner.
LEMMA PairCommitKeeps ==
    ASSUME QInv, QueueTypeOK', BlockSevers', NEW u \in Users, NEW v \in Users,
           PairCommit(u, v)
    PROVE  QInv'
<1> DEFINE c == <<Pair(u, v), "anonymous">>
<1>0. /\ call \in [Users -> Call] /\ left \subseteq Users /\ TypeOK
      /\ late \in [Users -> Nat] /\ waiting \subseteq Users
  BY DEF QInv, QueueTypeOK, TypeOK
<1>1. call[u] = [stage |-> "picked", peer |-> v] /\ Joining(u)
  BY DEF PairCommit, Joining
<1>2. Partners(u) = {} /\ Partners(v) = {} /\ late[v] = 0 /\ late[u] = 0
  BY <1>1 DEF QInv, Picks, OneJoin, Late
<1>3. \A d \in Conversations : d # c => conversations'[d] = conversations[d]
  BY <1>0 DEF PairCommit, TypeOK
<1>4. \A w \in Users : Partners(w)' \subseteq Partners(w) \cup {c}
  BY <1>3 DEF PairCommit, Partners, Blocked
<1>5. \A w \in Users \ {u, v} : Partners(w)' \subseteq Partners(w)
  <2>1. Members(c) = {u, v}
    BY DEF Members, Pair
  <2>2. \A w \in Users \ {u, v} : c \notin Partners(w)'
    BY <2>1 DEF Partners
  <2>3. QED
    BY <1>4, <2>2
<1> HIDE DEF c
<1>6. OnePartner'
  BY <1>2, <1>4, <1>5 DEF QInv, OnePartner
<1>7. \A w \in Users : ~ Joining(w)'
  BY <1>0, <1>1 DEF PairCommit, Joining, Idle, QInv, OneJoin
<1>8. OneJoin' /\ Picks'
  BY <1>7 DEF OneJoin, Picks, Joining
<1>9. Waiters'
  <2>1. waiting' = waiting \ {u, v} /\ left' = left
    BY DEF PairCommit, Dequeued
  <2>2. QED
    BY <1>0, <1>5, <2>1 DEF Waiters, QInv
<1>10. Late'
  <2>1. left' = left
    BY DEF PairCommit
  <2>2. ASSUME NEW w \in Users
        PROVE  late'[w] <= 1 /\ (w \notin left => late'[w] = 0)
    <3>1. late'[w] = IF w \in left \cap {u, v} THEN late[w] + 1 ELSE late[w]
      BY DEF PairCommit
    <3>2. late[w] <= 1 /\ (w \notin left => late[w] = 0) /\ late[w] \in Nat
      BY <1>0 DEF QInv, Late
    <3>3. QED
      BY <1>2, <3>1, <3>2
  <2>3. QED
    BY <2>1, <2>2 DEF Late
<1>11. QED
  BY <1>6, <1>8, <1>9, <1>10 DEF QInv

\* Every step keeps the invariant.
LEMMA QInvStep == QInv /\ [WaitingNext \/ Elsewhere]_queueVars => QInv'
<1> SUFFICES ASSUME QInv, [WaitingNext \/ Elsewhere]_queueVars PROVE QInv'
  OBVIOUS
<1>1. QueueTypeOK' /\ BlockSevers'
  BY QueueTypeStep
<1>2. ASSUME NEW u \in Users, Leave(u) \/ Expire(u) PROVE QInv'
  <2>0. call \in [Users -> Call] /\ left \subseteq Users
    BY DEF QInv, QueueTypeOK
  <2>1. /\ conversations' = conversations /\ waiting' = waiting \ {u}
        /\ call' = call /\ late' = late
    BY <1>2 DEF Leave, Expire, threadVars, joinVars
  <2>2. /\ left \subseteq left'
        /\ \A w \in left' : w \in left \/ (w = u /\ call[u] = Idle)
    BY <1>2 DEF Leave, Expire, joinVars
  <2>3. \A w \in left' : w \in left \/ (w \notin waiting' /\ ~ Joining(w)')
    BY <2>1, <2>2 DEF Joining, Idle
  <2>4. QED
    BY <1>1, <2>1, <2>2, <2>3, Quiet
<1>3. CASE UNCHANGED queueVars
  <2>1. /\ conversations' = conversations /\ waiting' = waiting
        /\ call' = call /\ late' = late /\ left' = left
    BY <1>3 DEF queueVars, vars, threadVars, joinVars
  <2>2. QED
    BY <1>1, <2>1, Quiet
<1>4. QED
  BY <1>1, <1>2, <1>3, ElsewhereKeeps, JoinKeeps, PairCommitKeeps
     DEF WaitingNext, JoinNext

----------------------------------------------------------------------------

\* Nobody ever has two partners: OnePartner.
THEOREM OnePartnerAlways == WaitingSpec => []OnePartner
<1>1. QInv => OnePartner
  BY DEF QInv
<1>2. QED
  BY <1>1, QInvInit, QInvStep, PTL DEF WaitingSpec

\* Whoever leaves is paired at most once after that: LeaverPairedOnce.
THEOREM LeaversPairedOnce == WaitingSpec => []LeaverPairedOnce
<1>1. QInv => LeaverPairedOnce
  BY DEF QInv, Late, LeaverPairedOnce
<1>2. QED
  BY <1>1, QInvInit, QInvStep, PTL DEF WaitingSpec

\* Joins implement Velora: QueueImplementsVelora.
THEOREM QueueRefines == WaitingSpec => QueueImplementsVelora
<1>1. QueueInit => Init
  BY DEF QueueInit
<1>2. QInv /\ [WaitingNext \/ Elsewhere]_queueVars => [Next]_vars
  BY QueueStepMaps
<1>3. QED
  BY <1>1, <1>2, QInvInit, QInvStep, PTL
     DEF WaitingSpec, QueueImplementsVelora, Spec

----------------------------------------------------------------------------

\* The theorems of Velora, of the tables as the transactions see them.
Proved == INSTANCE ThreadProofs WITH likes <- likes \cup LikesRead

\* The likes that are there, or count as there.
LikesSeen == likes \cup LikesRead

\* An open like is of two people, nobody else holds their lock, no block lies
\* between them, and it missed no like that is there.
LikesOK ==
    \A u, v \in Users : InFlight(u, v) =>
        /\ u # v
        /\ ~ InFlight(v, u)
        /\ ~ Blocked(Pair(u, v))
        /\ Reciprocal(u, v) => req[u].found

\* An open unmatch holds on to a match that is there, or one that has ended.
UnmatchesOK ==
    \A u \in Users : req[u].op = "unmatch" =>
        /\ req[u].peer \in Users \ {u}
        /\ req[u].found => Pair(u, req[u].peer) \in matches
        /\ ~ req[u].found => Pair(u, req[u].peer) \in ended

\* What a request has read names a person.
NamesPeer == \A u \in Users : req[u].op # "none" => req[u].peer \in Users

PairInv == PairTypeOK /\ LikesOK /\ UnmatchesOK /\ NamesPeer

----------------------------------------------------------------------------

\* The abstraction renames nothing but the likes.
LEMMA AbsNames ==
    /\ Abs!Pairs = Pairs
    /\ Abs!Conversations = Conversations
    /\ \A u, v : Abs!Pair(u, v) = Pair(u, v)
    /\ \A p : Abs!Blocked(p) = Blocked(p)
    /\ \A p : Abs!MissingMatch(p) = MissingMatch(p)
    /\ \A p : Abs!EnsureMatch(p) = EnsureMatch(p)
    /\ \A p, d : Abs!ClosePair(p, d) = ClosePair(p, d)
    /\ \A cs : Abs!Emit(cs) = Emit(cs)
<1>1. Abs!Pairs = Pairs
  BY DEF Abs!Pairs, Pairs
<1>2. Abs!Conversations = Conversations
  BY <1>1 DEF Abs!Conversations, Conversations
<1>3. \A u, v : Abs!Pair(u, v) = Pair(u, v)
  BY DEF Abs!Pair, Pair
<1>4. \A p : Abs!Blocked(p) = Blocked(p)
  BY DEF Abs!Blocked, Blocked
<1>5. \A p : Abs!MissingMatch(p) = MissingMatch(p)
  BY <1>2 DEF Abs!MissingMatch, MissingMatch
<1>6. \A p : Abs!EnsureMatch(p) = EnsureMatch(p)
  BY <1>2, <1>5
     DEF Abs!EnsureMatch, EnsureMatch, Abs!NewRow, NewRow, Abs!NoRow, NoRow
<1>7. \A cs : Abs!Emit(cs) = Emit(cs)
  BY DEF Abs!Emit, Emit, Abs!Members, Members
<1>8. \A p, d : Abs!Closing(p, d) = Closing(p, d)
  BY <1>2 DEF Abs!Closing, Closing, Abs!Members, Members, Abs!Live, Live,
              Abs!Origin, Origin
<1>9. \A p, d : Abs!ClosePair(p, d) = ClosePair(p, d)
  BY <1>2, <1>7, <1>8 DEF Abs!ClosePair, ClosePair
<1>10. QED
  BY <1>1, <1>2, <1>3, <1>4, <1>5, <1>6, <1>7, <1>9

\* What LikesRead holds: the likes that open requests have found.
LEMMA ReadLike ==
    ASSUME PairInv, NEW u \in Users, NEW v \in Users
    PROVE  <<v, u>> \in LikesRead <=> InFlight(u, v) /\ req[u].found
<1>1. ASSUME InFlight(u, v) PROVE <<v, u>> \in Edges
  BY <1>1 DEF PairInv, LikesOK, Edges
<1>2. QED
  BY <1>1 DEF LikesRead

\* All likes are edges, the ones that count as there included.
LEMMA SeenEdges == ASSUME PairInv PROVE LikesSeen \subseteq Edges
BY DEF PairInv, PairTypeOK, TypeOK, LikesSeen, LikesRead

\* A step that takes no like up, and ends none but of pair p, keeps the rest.
LEMMA ReadKept ==
    ASSUME \A w \in Users : req[w].op = "like" \/ req'[w].op = "like" =>
               req'[w] = req[w]
    PROVE  LikesRead' = LikesRead
BY DEF LikesRead, InFlight

\* Nobody has read a like of a pair whose lock is free.
LEMMA FreeUnread ==
    ASSUME PairInv, NEW u \in Users, NEW v \in Users, LockFree(Pair(u, v))
    PROVE  <<u, v>> \notin LikesRead /\ <<v, u>> \notin LikesRead
<1>1. ~ InFlight(u, v) /\ ~ InFlight(v, u)
  BY DEF LockFree, Pair
<1>2. QED
  BY <1>1, ReadLike

----------------------------------------------------------------------------

\* A lookup by the lock.
LEMMA MapsLikeRead ==
    ASSUME PairInv, NEW u \in Users, NEW v \in Users, LikeRead(u, v)
    PROVE  UNCHANGED vars /\ LikesSeen' = LikesSeen
<1>1. req' = [req EXCEPT ![u] =
          [op |-> "like", peer |-> v, found |-> Reciprocal(u, v)]]
      /\ req[u] = NoRequest /\ UNCHANGED vars /\ req \in [Users -> Request]
  BY DEF LikeRead, PairInv, PairTypeOK
<1>2. likes' = likes
  BY <1>1 DEF vars, socialVars
<1>3. ASSUME NEW e \in LikesRead' PROVE e \in LikesSeen
  <2>1. PICK w, x \in Users : e = <<x, w>> /\ InFlight(w, x)' /\ req'[w].found
    BY DEF LikesRead
  <2>2. CASE w = u
    BY <1>1, <2>1, <2>2 DEF InFlight, Reciprocal, LikesSeen
  <2>3. CASE w # u
    BY <1>1, <2>1, <2>3 DEF InFlight, LikesSeen, LikesRead
  <2>4. QED
    BY <2>2, <2>3
<1>4. ASSUME NEW e \in LikesRead PROVE e \in LikesRead'
  <2>1. PICK w, x \in Users : e = <<x, w>> /\ InFlight(w, x) /\ req[w].found
    BY DEF LikesRead
  <2>2. w # u
    BY <1>1, <2>1 DEF InFlight, NoRequest
  <2>3. QED
    BY <1>1, <2>1, <2>2 DEF InFlight, LikesRead
<1>5. QED
  BY <1>1, <1>2, <1>3, <1>4 DEF LikesSeen

\* The end of a request takes its like out of those that count as there.
LEMMA ReadEnds ==
    ASSUME PairInv, NEW u \in Users, NEW v \in Users, InFlight(u, v),
           req' = [req EXCEPT ![u] = NoRequest]
    PROVE  LikesRead' = LikesRead \ {<<v, u>>}
<1>1. req \in [Users -> Request]
  BY DEF PairInv, PairTypeOK
<1>2. ASSUME NEW e \in LikesRead' PROVE e \in LikesRead \ {<<v, u>>}
  <2>1. PICK w, x \in Users : e = <<x, w>> /\ InFlight(w, x)' /\ req'[w].found
    BY DEF LikesRead
  <2>2. w # u
    BY <1>1, <2>1 DEF InFlight, NoRequest
  <2>3. QED
    BY <1>1, <2>1, <2>2 DEF InFlight, LikesRead
<1>3. ASSUME NEW e \in LikesRead, e # <<v, u>> PROVE e \in LikesRead'
  <2>1. PICK w, x \in Users : e = <<x, w>> /\ InFlight(w, x) /\ req[w].found
    BY DEF LikesRead
  <2>2. w # u
    BY <1>3, <2>1 DEF InFlight
  <2>3. QED
    BY <1>1, <2>1, <2>2 DEF InFlight, LikesRead
<1>4. QED
  BY <1>2, <1>3

\* The rest of Like is Like, for those to whom a like it found is still there.
LEMMA MapsLikeCommit ==
    ASSUME PairInv, NEW u \in Users, NEW v \in Users, LikeCommit(u, v)
    PROVE  Abs!Like(u, v)
<1>1. /\ InFlight(u, v) /\ u # v /\ ~ InFlight(v, u) /\ ~ Blocked(Pair(u, v))
      /\ Reciprocal(u, v) => req[u].found
  BY DEF LikeCommit, PairInv, LikesOK
<1>2. LikesRead' = LikesRead \ {<<v, u>>}
  BY <1>1, ReadEnds DEF LikeCommit
<1>3. <<u, v>> \notin LikesRead
  BY <1>1, ReadLike
<1>4. CASE req[u].found
  <2>1. <<v, u>> \in LikesSeen
    BY <1>1, <1>4, ReadLike DEF LikesSeen
  <2>2. LikesSeen' = LikesSeen \ {<<u, v>>, <<v, u>>}
    BY <1>2, <1>3, <1>4 DEF LikeCommit, LikesSeen
  <2>3. Abs!createMatch(u, v)
    BY <1>4, <2>1, <2>2, AbsNames
       DEF LikeCommit, Abs!createMatch, Abs!Reciprocal, LikesSeen
  <2>4. QED
    BY <1>1, <2>3, AbsNames DEF LikeCommit, Abs!Like
<1>5. CASE ~ req[u].found
  <2>1. <<v, u>> \notin LikesSeen
    BY <1>1, <1>5, ReadLike DEF LikesSeen, Reciprocal
  <2>2. LikesSeen' = LikesSeen \cup {<<u, v>>}
    BY <1>2, <1>5, <2>1 DEF LikeCommit, LikesSeen
  <2>3. Abs!LikeUnanswered(u, v)
    BY <1>5, <2>1, <2>2
       DEF LikeCommit, Abs!LikeUnanswered, Abs!Reciprocal, LikesSeen
  <2>4. QED
    BY <1>1, <2>3, AbsNames DEF LikeCommit, Abs!Like
<1>6. QED
  BY <1>4, <1>5

\* A rollback withdraws at last the like that was withdrawn too late.
LEMMA MapsAbort ==
    ASSUME PairInv, NEW u \in Users, Abort(u)
    PROVE  Abs!SocialNext \/ UNCHANGED <<vars, LikesSeen>>
<1>1. /\ req' = [req EXCEPT ![u] = NoRequest] /\ req \in [Users -> Request]
      /\ UNCHANGED vars /\ likes' = likes
  BY DEF Abort, PairInv, PairTypeOK, vars, socialVars
<1>2. CASE req[u].op # "like"
  <2>1. LikesRead' = LikesRead
    BY <1>1, <1>2, ReadKept DEF NoRequest
  <2>2. QED
    BY <1>1, <2>1 DEF LikesSeen
<1>3. CASE req[u].op = "like"
  <2>1. PICK v \in Users : InFlight(u, v)
    BY <1>3 DEF PairInv, NamesPeer, InFlight
  <2>2. LikesRead' = LikesRead \ {<<v, u>>}
    BY <1>1, <2>1, ReadEnds
  <2>3. CASE <<v, u>> \in likes \/ <<v, u>> \notin LikesRead
    BY <1>1, <2>2, <2>3 DEF LikesSeen
  <2>4. CASE <<v, u>> \notin likes /\ <<v, u>> \in LikesRead
    <3>1. LikesSeen' = LikesSeen \ {<<v, u>>} /\ <<v, u>> \in LikesSeen
      BY <1>1, <2>2, <2>4 DEF LikesSeen
    <3>2. Abs!RemoveLike(u, <<v, u>>)
      BY <1>1, <3>1
         DEF Abs!RemoveLike, vars, socialVars, LikesSeen, Abs!threadVars,
             threadVars
    <3>3. QED
      BY <3>1, <3>2 DEF Abs!SocialNext, LikesSeen
  <2>5. QED
    BY <2>3, <2>4
<1>4. QED
  BY <1>2, <1>3

\* A like that is withdrawn is gone, or stays for whoever has read it.
LEMMA MapsWithdraw ==
    ASSUME PairInv, NEW u \in Users, NEW like \in likes, Withdraw(u, like)
    PROVE  \/ Abs!SocialNext
           \/ /\ LikesSeen' = LikesSeen
              /\ UNCHANGED <<status, hidden, blocks, waiting, unseen, passes,
                             matches, ended, notifications, threadVars>>
<1>1. /\ likes' = likes \ {like} /\ req' = req /\ u \in {like[1], like[2]}
      /\ UNCHANGED <<status, hidden, blocks, waiting, unseen, passes, matches,
                     ended, notifications, threadVars>>
  BY DEF Withdraw, RemoveLike
<1>2. LikesRead' = LikesRead
  BY <1>1, ReadKept
<1>3. CASE like \in LikesRead
  BY <1>1, <1>2, <1>3 DEF LikesSeen
<1>4. CASE like \notin LikesRead
  <2>1. LikesSeen' = LikesSeen \ {like} /\ like \in LikesSeen
    BY <1>1, <1>2, <1>4 DEF LikesSeen
  <2>2. Abs!RemoveLike(u, like)
    BY <1>1, <2>1 DEF Abs!RemoveLike, LikesSeen, Abs!threadVars, threadVars
  <2>3. QED
    BY <2>1, <2>2 DEF Abs!SocialNext, LikesSeen
<1>5. QED
  BY <1>3, <1>4

\* The first statement of Unmatch writes nothing.
LEMMA MapsUnmatchRead ==
    ASSUME PairInv, NEW u \in Users, NEW v \in Users, UnmatchRead(u, v)
    PROVE  UNCHANGED <<vars, LikesSeen>>
<1>1. /\ req' = [req EXCEPT ![u] =
              [op |-> "unmatch", peer |-> v, found |-> TRUE]]
      /\ req[u] = NoRequest /\ UNCHANGED vars /\ req \in [Users -> Request]
      /\ likes' = likes
  BY DEF UnmatchRead, PairInv, PairTypeOK, vars, socialVars
<1>2. LikesRead' = LikesRead
  BY <1>1, ReadKept DEF NoRequest
<1>3. QED
  BY <1>1, <1>2 DEF LikesSeen

\* Nor does the first transaction of a block made from a conversation.
LEMMA MapsSafetyRead ==
    ASSUME PairInv, NEW u \in Users, NEW c \in Conversations, SafetyRead(u, c)
    PROVE  UNCHANGED <<vars, LikesSeen>>
<1>1. PICK v : /\ req' = [req EXCEPT ![u] =
                       [op |-> "safety", peer |-> v, found |-> TRUE]]
               /\ req[u] = NoRequest /\ UNCHANGED vars
               /\ req \in [Users -> Request] /\ likes' = likes
  BY DEF SafetyRead, PairInv, PairTypeOK, vars, socialVars
<1>2. LikesRead' = LikesRead
  BY <1>1, ReadKept DEF NoRequest
<1>3. QED
  BY <1>1, <1>2 DEF LikesSeen

\* What the end of a match does to the requests that are open.
LEMMA AfterMatchLike ==
    ASSUME NEW p, NEW c \in Request, NEW w
    PROVE  /\ AfterMatch(p, c, w) \in Request
           /\ AfterMatch(p, c, w).op = c.op
           /\ AfterMatch(p, c, w).peer = c.peer
           /\ c.op # "unmatch" => AfterMatch(p, c, w) = c
           /\ c.op = "unmatch" => AfterMatch(p, c, w).found
                  = (c.found /\ Pair(w, c.peer) # p)
BY DEF AfterMatch, Request

\* Closing a pair under its lock leaves no like of it, read or not.
LEMMA PairGone ==
    ASSUME PairInv, NEW u \in Users, NEW v \in Users, u # v,
           LockFree(Pair(u, v)), LikesRead' = LikesRead,
           likes' = likes \ {<<u, v>>, <<v, u>>}
    PROVE  /\ LikesSeen' = LikesSeen \ {<<u, v>>, <<v, u>>}
           /\ LikesSeen' = {l \in LikesSeen : {l[1], l[2]} # Pair(u, v)}
<1>1. LikesSeen' = LikesSeen \ {<<u, v>>, <<v, u>>}
  BY FreeUnread DEF LikesSeen
<1>2. ASSUME NEW l \in LikesSeen
      PROVE  l \in {<<u, v>>, <<v, u>>} <=> {l[1], l[2]} = Pair(u, v)
  BY SeenEdges DEF Edges, Pair
<1>3. QED
  BY <1>1, <1>2

\* The end of an unmatch is Unmatch, or comes late.
LEMMA MapsUnmatchCommit ==
    ASSUME PairInv, NEW u \in Users, NEW v \in Users, UnmatchCommit(u, v)
    PROVE  Abs!SafetyNext
<1> DEFINE p == Pair(u, v)
<1>1. /\ u # v /\ p \in Pairs /\ u \in p
      /\ req[u].found => p \in matches
      /\ ~ req[u].found => p \in ended
      /\ req \in [Users -> Request]
  BY DEF UnmatchCommit, PairInv, UnmatchesOK, PairTypeOK, Pair, Pairs
<1>2. LikesRead' = LikesRead
  <2>1. ASSUME NEW w \in Users
        PROVE  /\ req'[w].op = "like" <=> req[w].op = "like"
               /\ req[w].op = "like" => req'[w] = req[w]
    BY <1>1, AfterMatchLike DEF UnmatchCommit, NoRequest
  <2>2. QED
    BY <2>1, ReadKept
<1>3. LikesSeen' = {l \in LikesSeen : {l[1], l[2]} # p}
  BY <1>1, <1>2, PairGone DEF UnmatchCommit
<1>4. passes' = passes \cup {l \in p \X p : l[1] # l[2]}
  <2>1. {l \in p \X p : l[1] # l[2]} = {<<u, v>>, <<v, u>>}
    BY <1>1 DEF Pair
  <2>2. QED
    BY <2>1 DEF UnmatchCommit
<1>5. Abs!ClosePair(p, TRUE)
  BY AbsNames DEF UnmatchCommit
<1>6. CASE req[u].found
  <2>1. matches' = matches \ {p} /\ ended' = ended \cup {p}
    BY <1>1, <1>6 DEF UnmatchCommit
  <2>2. Abs!Unmatch(u, p)
    BY <1>1, <1>3, <1>4, <1>5, <1>6, <2>1
       DEF UnmatchCommit, Abs!Unmatch, LikesSeen
  <2>3. QED
    BY <1>1, <2>2, AbsNames DEF Abs!SafetyNext
<1>7. CASE ~ req[u].found
  <2>1. matches' = matches /\ ended' = ended
    BY <1>7 DEF UnmatchCommit
  <2>2. Abs!LateUnmatch(u, p)
    BY <1>1, <1>3, <1>4, <1>5, <1>7, <2>1
       DEF UnmatchCommit, Abs!LateUnmatch, LikesSeen
  <2>3. QED
    BY <1>1, <2>2, AbsNames DEF Abs!SafetyNext
<1>8. QED
  BY <1>6, <1>7

\* A block under the pair's lock is Block.
LEMMA MapsBlock ==
    ASSUME PairInv, NEW u \in Users, NEW v \in Users, LockFree(Pair(u, v)),
           Block(u, v),
           \A w \in Users : req[w].op = "like" \/ req'[w].op = "like" =>
               req'[w] = req[w]
    PROVE  Abs!SafetyNext
<1>1. LikesRead' = LikesRead
  BY ReadKept
<1>2. LikesSeen' = LikesSeen \ {<<u, v>>, <<v, u>>}
  BY <1>1, PairGone DEF Block
<1>3. Abs!ClosePair(Pair(u, v), FALSE)
  BY AbsNames DEF Block
<1>4. Abs!Block(u, v)
  BY <1>2, <1>3, AbsNames DEF Block, Abs!Block, LikesSeen
<1>5. QED
  BY <1>4 DEF Abs!SafetyNext

\* What the requests of others become when a block ends a match.
LEMMA BlockKeepsLikes ==
    ASSUME PairInv, NEW u \in Users, NEW v \in Users,
           BlockCommit(u, v) \/ SafetyBlock(u, v)
    PROVE  \A w \in Users : req[w].op = "like" \/ req'[w].op = "like" =>
               req'[w] = req[w]
<1>1. \A w \in Users : req[w] \in Request
  BY DEF PairInv, PairTypeOK
<1>2. QED
  BY <1>1, AfterMatchLike DEF BlockCommit, SafetyBlock, NoRequest

\* What chat reads and writes is not among the likes.
LEMMA AbsChat ==
    /\ \A u, v : Abs!CanOpen(u, v) <=> CanOpen(u, v)
    /\ \A u, c, row : Abs!Access(u, c, row) <=> Access(u, c, row)
    /\ \A c, row, u, in : Abs!insert(c, row, u, in) <=> insert(c, row, u, in)
    /\ Abs!SendInput = SendInput
<1>1. \A p : Abs!BothActive(p) <=> BothActive(p)
  BY DEF Abs!BothActive, BothActive, Abs!Active, Active
<1>2. \A u, v : Abs!CanOpen(u, v) <=> CanOpen(u, v)
  BY <1>1, AbsNames DEF Abs!CanOpen, CanOpen
<1>3. \A u, c, row : Abs!Access(u, c, row) <=> Access(u, c, row)
  BY <1>1, AbsNames
     DEF Abs!Access, Access, Abs!Members, Members, Abs!Origin, Origin,
         Abs!Live, Live
<1>4. \A c, row, u, in : Abs!insert(c, row, u, in) <=> insert(c, row, u, in)
  BY AbsNames
     DEF Abs!insert, insert, Abs!Stored, Stored, Abs!CanWrite, CanWrite,
         Abs!NewMessage, NewMessage
<1>5. QED
  BY <1>2, <1>3, <1>4 DEF Abs!SendInput, SendInput

\* Opening a match is opening it, whatever likes are in flight.
LEMMA MapsOpen ==
    ASSUME PairInv, NEW u \in Users, NEW v \in Users, OpenCommit(u, v)
    PROVE  Abs!OpenNext
<1>1. LikesSeen' = LikesSeen
  BY ReadKept
     DEF OpenCommit, OpenMatch, OpenMatchWith, socialVars, LikesSeen
<1>2. CASE OpenMatch(u, v)
  <2>1. Abs!OpenMatch(u, v)
    BY <1>1, <1>2, AbsChat, AbsNames
       DEF OpenMatch, Abs!OpenMatch, socialVars, Abs!socialVars, LikesSeen
  <2>2. QED
    BY <2>1 DEF Abs!OpenNext
<1>3. ASSUME NEW in \in SendInput, OpenMatchWith(u, v, in)
      PROVE  Abs!OpenNext
  <2>1. Abs!OpenMatchWith(u, v, in)
    BY <1>1, <1>3, AbsChat, AbsNames
       DEF OpenMatchWith, Abs!OpenMatchWith, socialVars, Abs!socialVars,
           LikesSeen
  <2>2. QED
    BY <2>1, AbsChat DEF Abs!OpenNext
<1>4. QED
  BY <1>2, <1>3 DEF OpenCommit

\* So do the statements that meet no lock.
LEMMA MapsStatement ==
    ASSUME PairInv, Statement
    PROVE  Abs!SocialNext \/ Abs!SafetyNext \/ Abs!ProfileNext
<1>1. LikesSeen' = LikesSeen
  BY ReadKept
     DEF Statement, Pass, Unblock, Resolve, ProfileNext, SetHidden, socialVars,
         LikesSeen
<1>2. ASSUME NEW u \in Users, NEW v \in Users, Pass(u, v)
      PROVE  Abs!SocialNext
  BY <1>1, <1>2
     DEF Pass, Abs!SocialNext, Abs!Pass, LikesSeen, threadVars, Abs!threadVars
<1>3. ASSUME NEW u \in Users, NEW v \in Users, Unblock(u, v)
      PROVE  Abs!SafetyNext
  BY <1>1, <1>3
     DEF Unblock, Abs!SafetyNext, Abs!Unblock, LikesSeen, threadVars,
         Abs!threadVars, socialVars, Abs!socialVars
<1>4. ASSUME NEW u \in Users, Resolve(u) PROVE Abs!SafetyNext
  BY <1>1, <1>4
     DEF Resolve, Abs!SafetyNext, Abs!Resolve, LikesSeen, threadVars,
         Abs!threadVars, socialVars, Abs!socialVars, Active, Abs!Active
<1>5. ASSUME ProfileNext PROVE Abs!ProfileNext
  BY <1>1, <1>5
     DEF ProfileNext, Abs!ProfileNext, SetHidden, Abs!SetHidden, LikesSeen,
         threadVars, Abs!threadVars, socialVars, Abs!socialVars
<1>6. QED
  BY <1>2, <1>3, <1>4, <1>5 DEF Statement

\* The steps of Velora that the statements take.
Moves == Abs!SocialNext \/ Abs!SafetyNext \/ Abs!OpenNext \/ Abs!ProfileNext

\* Every step of the statements is a step of Velora, or changes nothing that
\* Velora sees.
LEMMA PairStepMaps ==
    ASSUME PairInv, [PairNext]_pairVars
    PROVE  [Moves]_(Abs!vars)
<1> USE DEF LikesSeen, Moves
<1>1. UNCHANGED <<vars, LikesSeen>> => UNCHANGED Abs!vars
  BY DEF vars, socialVars, threadVars, Abs!vars, Abs!socialVars,
         Abs!threadVars
<1>2. ASSUME UNCHANGED pairVars PROVE UNCHANGED Abs!vars
  <2>1. LikesRead' = LikesRead
    BY <1>2, ReadKept DEF pairVars
  <2>2. QED
    BY <1>1, <1>2, <2>1 DEF pairVars, vars, socialVars
<1>3. ASSUME NEW u \in Users, NEW v \in Users, LikeRead(u, v)
      PROVE  UNCHANGED Abs!vars
  BY <1>1, <1>3, MapsLikeRead
<1>4. ASSUME NEW u \in Users, NEW v \in Users, LikeCommit(u, v)
      PROVE  Moves
  BY <1>4, MapsLikeCommit DEF Moves, Abs!SocialNext
<1>5. ASSUME NEW u \in Users, NEW v \in Users, UnmatchRead(u, v)
      PROVE  UNCHANGED Abs!vars
  BY <1>1, <1>5, MapsUnmatchRead
<1>6. ASSUME NEW u \in Users, NEW v \in Users,
             BlockCommit(u, v) \/ SafetyBlock(u, v)
      PROVE  Moves
  BY <1>6, BlockKeepsLikes, MapsBlock DEF BlockCommit, SafetyBlock
<1>7. ASSUME NEW u \in Users, NEW c \in Conversations, SafetyRead(u, c)
      PROVE  UNCHANGED Abs!vars
  BY <1>1, <1>7, MapsSafetyRead
<1>8. ASSUME NEW u \in Users, Abort(u) PROVE [Moves]_(Abs!vars)
  BY <1>1, <1>8, MapsAbort
<1>9. ASSUME NEW u \in Users, NEW like \in likes, Withdraw(u, like)
      PROVE  [Moves]_(Abs!vars)
  BY <1>9, MapsWithdraw
     DEF vars, socialVars, threadVars, Abs!vars, Abs!socialVars,
         Abs!threadVars
<1>10. CASE PairNext
  BY <1>3, <1>4, <1>5, <1>6, <1>7, <1>8, <1>9, <1>10, MapsUnmatchCommit,
     MapsOpen, MapsStatement
     DEF PairNext
<1>11. QED
  BY <1>2, <1>10
----------------------------------------------------------------------------

\* Abs is the module that Proved has theorems of: the same definitions, of
\* the same tables.
LEMMA SameInit == Abs!Init <=> Proved!Init
BY DEF Abs!Init, Proved!Init, Abs!Pairs, Proved!Pairs, Abs!Conversations,
       Proved!Conversations, Abs!NoRow, Proved!NoRow, Abs!NewParticipant,
       Proved!NewParticipant

LEMMA SameSocial == Abs!SocialNext <=> Proved!SocialNext
BY DEF Abs!SocialNext, Proved!SocialNext, Abs!Pass, Proved!Pass,
       Abs!threadVars, Proved!threadVars, Abs!Like, Proved!Like, Abs!Blocked,
       Proved!Blocked, Abs!Pair, Proved!Pair, Abs!LikeUnanswered,
       Proved!LikeUnanswered, Abs!Reciprocal, Proved!Reciprocal,
       Abs!createMatch, Proved!createMatch, Abs!EnsureMatch,
       Proved!EnsureMatch, Abs!Conversations, Proved!Conversations, Abs!Pairs,
       Proved!Pairs, Abs!MissingMatch, Proved!MissingMatch, Abs!NewRow,
       Proved!NewRow, Abs!NoRow, Proved!NoRow, Abs!Emit, Proved!Emit,
       Abs!Members, Proved!Members, Abs!RemoveLike, Proved!RemoveLike

LEMMA SameSafety == Abs!SafetyNext <=> Proved!SafetyNext
BY DEF Abs!SafetyNext, Proved!SafetyNext, Abs!Block, Proved!Block,
       Abs!ClosePair, Proved!ClosePair, Abs!Conversations,
       Proved!Conversations, Abs!Pairs, Proved!Pairs, Abs!Closing,
       Proved!Closing, Abs!Members, Proved!Members, Abs!Live, Proved!Live,
       Abs!Origin, Proved!Origin, Abs!Emit, Proved!Emit, Abs!Pair,
       Proved!Pair, Abs!Unblock, Proved!Unblock, Abs!socialVars,
       Proved!socialVars, Abs!threadVars, Proved!threadVars, Abs!Unmatch,
       Proved!Unmatch, Abs!LateUnmatch, Proved!LateUnmatch, Abs!Resolve,
       Proved!Resolve, Abs!Active, Proved!Active

LEMMA SameOpen == Abs!OpenNext <=> Proved!OpenNext
BY DEF Abs!OpenNext, Proved!OpenNext, Abs!OpenMatch, Proved!OpenMatch,
       Abs!CanOpen, Proved!CanOpen, Abs!BothActive, Proved!BothActive,
       Abs!Active, Proved!Active, Abs!Pair, Proved!Pair, Abs!Blocked,
       Proved!Blocked, Abs!MissingMatch, Proved!MissingMatch,
       Abs!Conversations, Proved!Conversations, Abs!Pairs, Proved!Pairs,
       Abs!EnsureMatch, Proved!EnsureMatch, Abs!NewRow, Proved!NewRow,
       Abs!NoRow, Proved!NoRow, Abs!Emit, Proved!Emit, Abs!Members,
       Proved!Members, Abs!socialVars, Proved!socialVars, Abs!SendInput,
       Proved!SendInput, Abs!OpenMatchWith, Proved!OpenMatchWith, Abs!Access,
       Proved!Access, Abs!Live, Proved!Live, Abs!Origin, Proved!Origin,
       Abs!insert, Proved!insert, Abs!Stored, Proved!Stored, Abs!CanWrite,
       Proved!CanWrite, Abs!NewMessage, Proved!NewMessage, Abs!OpenRequest,
       Proved!OpenRequest, Abs!RequestRow, Proved!RequestRow

LEMMA SameProfile == Abs!ProfileNext <=> Proved!ProfileNext
BY DEF Abs!ProfileNext, Proved!ProfileNext, Abs!SetHidden, Proved!SetHidden,
       Abs!socialVars, Proved!socialVars, Abs!threadVars, Proved!threadVars

LEMMA SameVars == UNCHANGED Abs!vars <=> UNCHANGED Proved!vars
BY DEF Abs!vars, Proved!vars, Abs!socialVars, Proved!socialVars,
       Abs!threadVars, Proved!threadVars

\* The assumption of Velora is the one of the statements.
LEMMA SameAssumption == Proved!StoreAssumption
BY StoreAssumption DEF Proved!AllOrigins, AllOrigins, Proved!Pairs, Pairs

\* A step of the statements is one that the theorems of Velora are about.
LEMMA PairStepProved ==
    ASSUME PairInv, [PairNext]_pairVars
    PROVE  [Proved!Next]_(Proved!vars)
<1>1. Moves => Proved!Next
  BY SameSocial, SameSafety, SameOpen, SameProfile DEF Moves, Proved!Next
<1>2. QED
  BY <1>1, PairStepMaps, SameVars

\* Types of the tables, seen either way.
LEMMA SameTypes ==
    ASSUME PairInv
    PROVE  Proved!TypeOK
BY SeenEdges
   DEF PairInv, PairTypeOK, TypeOK, Proved!TypeOK, LikesSeen, Edges,
       Proved!Edges, Pairs, Proved!Pairs, Conversations, Proved!Conversations,
       Row, Proved!Row, Message, Proved!Message, Participant,
       Proved!Participant

\* Every step keeps the types of the tables.
LEMMA PairTypeStep == ASSUME PairInv, [PairNext]_pairVars PROVE TypeOK'
<1>1. Proved!TypeOK'
  BY SameTypes, PairStepProved, Proved!TypeStep, SameAssumption
     DEF Proved!StoreAssumption
<1>2. QED
  BY <1>1
     DEF TypeOK, Proved!TypeOK, Edges,
       Proved!Edges, Pairs, Proved!Pairs, Conversations, Proved!Conversations,
       Row, Proved!Row, Message, Proved!Message, Participant,
       Proved!Participant

----------------------------------------------------------------------------

\* The invariant holds at the start.
LEMMA PairInvInit == PairInit => PairInv
<1> SUFFICES ASSUME PairInit PROVE PairInv
  OBVIOUS
<1>1. TypeOK
  BY TypeInit DEF PairInit
<1>2. \A u \in Users : req[u] = NoRequest
  BY DEF PairInit
<1>3. PairTypeOK
  BY <1>1 DEF PairInit, PairTypeOK, NoRequest, Request
<1>4. QED
  BY <1>2, <1>3
     DEF PairInv, LikesOK, UnmatchesOK, NamesPeer, InFlight, NoRequest

\* Every step keeps the types of the requests.
LEMMA RequestTypeStep ==
    ASSUME PairInv, PairNext
    PROVE  req' \in [Users -> Request]
<1>1. /\ req \in [Users -> Request] /\ NoRequest \in Request
  BY DEF PairInv, PairTypeOK, NoRequest, Request
<1>2. ASSUME NEW u \in Users, NEW r \in Request, req' = [req EXCEPT ![u] = r]
      PROVE  req' \in [Users -> Request]
  BY <1>1, <1>2
<1>3. ASSUME NEW u \in Users, NEW v \in Users,
             LikeRead(u, v) \/ UnmatchRead(u, v)
      PROVE  req' \in [Users -> Request]
  <2>1. /\ [op |-> "like", peer |-> v, found |-> Reciprocal(u, v)] \in Request
        /\ [op |-> "unmatch", peer |-> v, found |-> TRUE] \in Request
    BY DEF Request, Reciprocal
  <2>2. QED
    BY <1>2, <1>3, <2>1 DEF LikeRead, UnmatchRead
<1>4. ASSUME NEW u \in Users, NEW v \in Users, LikeCommit(u, v) \/ Abort(u)
      PROVE  req' \in [Users -> Request]
  BY <1>1, <1>4 DEF LikeCommit, Abort
<1>5. ASSUME NEW u \in Users, NEW v \in Users,
             UnmatchCommit(u, v) \/ BlockCommit(u, v) \/ SafetyBlock(u, v)
      PROVE  req' \in [Users -> Request]
  <2>1. \A w \in Users : AfterMatch(Pair(u, v), req[w], w) \in Request
    BY <1>1, AfterMatchLike
  <2>2. CASE BlockCommit(u, v)
    BY <2>1, <2>2 DEF BlockCommit
  <2>3. CASE SafetyBlock(u, v)
    BY <1>1, <2>1, <2>3 DEF SafetyBlock
  <2>4. CASE UnmatchCommit(u, v)
    <3> DEFINE after(w) == IF w = u THEN NoRequest
                           ELSE IF req[u].found
                                THEN AfterMatch(Pair(u, v), req[w], w)
                                ELSE req[w]
    <3>1. \A w \in Users : after(w) \in Request
      BY <1>1, <2>1
    <3>2. req' = [w \in Users |-> after(w)]
      BY <2>4 DEF UnmatchCommit
    <3> HIDE DEF after
    <3>3. QED
      BY <3>1, <3>2
  <2>5. QED
    BY <1>5, <2>2, <2>3, <2>4
<1>6. ASSUME NEW u \in Users, NEW c \in Conversations, SafetyRead(u, c)
      PROVE  req' \in [Users -> Request]
  <2>1. Members(c) \subseteq Users
    BY DEF Conversations, Pairs, Members
  <2>2. QED
    BY <1>1, <1>6, <2>1 DEF SafetyRead, Request
<1>7. CASE req' = req
  BY <1>1, <1>7
<1>8. QED
  BY <1>3, <1>4, <1>5, <1>6, <1>7
     DEF PairNext, OpenCommit, Withdraw, Statement

\* Whoever a request names is a person.
LEMMA NamesPeerStep == ASSUME PairInv, PairNext PROVE NamesPeer'
<1>1. req \in [Users -> Request]
  BY DEF PairInv, PairTypeOK
<1>2. ASSUME NEW u \in Users, NEW v \in Users,
             LikeRead(u, v) \/ UnmatchRead(u, v)
      PROVE  NamesPeer'
  BY <1>1, <1>2 DEF LikeRead, UnmatchRead, PairInv, NamesPeer
<1>3. ASSUME NEW u \in Users, NEW c \in Conversations, SafetyRead(u, c)
      PROVE  NamesPeer'
  <2>1. Members(c) \subseteq Users
    BY DEF Conversations, Pairs, Members
  <2>2. QED
    BY <1>1, <1>3, <2>1 DEF SafetyRead, PairInv, NamesPeer
<1>4. ASSUME \A w \in Users : \/ req'[w] = NoRequest
                              \/ /\ req'[w].op = req[w].op
                                 /\ req'[w].peer = req[w].peer
      PROVE  NamesPeer'
  BY <1>4 DEF PairInv, NamesPeer, NoRequest
<1>5. ASSUME NEW u \in Users, NEW v \in Users, LikeCommit(u, v) \/ Abort(u)
      PROVE  NamesPeer'
  BY <1>1, <1>4, <1>5 DEF LikeCommit, Abort
<1>6. ASSUME NEW u \in Users, NEW v \in Users,
             UnmatchCommit(u, v) \/ BlockCommit(u, v) \/ SafetyBlock(u, v)
      PROVE  NamesPeer'
  <2>1. ASSUME NEW w \in Users
        PROVE  \/ req'[w] = NoRequest \/ req'[w] = req[w]
               \/ req'[w] = AfterMatch(Pair(u, v), req[w], w)
    BY <1>6 DEF UnmatchCommit, BlockCommit, SafetyBlock
  <2>2. ASSUME NEW w \in Users
        PROVE  \/ req'[w] = NoRequest
               \/ req'[w].op = req[w].op /\ req'[w].peer = req[w].peer
    BY <1>1, <2>1, AfterMatchLike
  <2>3. QED
    BY <1>4, <2>2
<1>7. CASE req' = req
  BY <1>4, <1>7
<1>8. QED
  BY <1>2, <1>3, <1>5, <1>6, <1>7
     DEF PairNext, OpenCommit, Withdraw, Statement

\* A like in flight stays as it is while nothing it rests on is written: no
\* block and no like of the pair.
LEMMA LikesKept ==
    ASSUME PairInv,
           \A w \in Users : req'[w].op = "like" => req'[w] = req[w],
           \A u, v \in Users : InFlight(u, v) =>
               /\ Blocked(Pair(u, v))' => Blocked(Pair(u, v))
               /\ Reciprocal(u, v)' => Reciprocal(u, v)
    PROVE  LikesOK'
<1> SUFFICES ASSUME NEW u \in Users, NEW v \in Users, InFlight(u, v)'
             PROVE  /\ u # v
                    /\ ~ InFlight(v, u)'
                    /\ ~ Blocked(Pair(u, v))'
                    /\ Reciprocal(u, v)' => req'[u].found
  BY DEF LikesOK, InFlight
<1>1. InFlight(u, v) /\ req'[u] = req[u]
  BY DEF InFlight
<1>2. InFlight(v, u)' => InFlight(v, u)
  BY DEF InFlight
<1>3. QED
  BY <1>1, <1>2 DEF PairInv, LikesOK

\* What the lock protects stays as an open like read it.
LEMMA LikesStep == ASSUME PairInv, PairNext PROVE LikesOK'
<1>1. req \in [Users -> Request]
  BY DEF PairInv, PairTypeOK
<1>2. ASSUME NEW u \in Users, NEW v \in Users, LikeRead(u, v) PROVE LikesOK'
  <2>1. /\ req' = [req EXCEPT ![u] =
                [op |-> "like", peer |-> v, found |-> Reciprocal(u, v)]]
        /\ u # v /\ ~ Blocked(Pair(u, v)) /\ ~ InFlight(v, u)
        /\ likes' = likes /\ blocks' = blocks
    BY <1>2 DEF LikeRead, LockFree, Pair, vars, socialVars
  <2> SUFFICES ASSUME NEW a \in Users, NEW b \in Users, InFlight(a, b)'
               PROVE  /\ a # b
                      /\ ~ InFlight(b, a)'
                      /\ ~ Blocked(Pair(a, b))'
                      /\ Reciprocal(a, b)' => req'[a].found
    BY DEF LikesOK, InFlight
  <2>2. CASE a = u
    BY <1>1, <2>1, <2>2 DEF InFlight, Blocked, Pair, Reciprocal
  <2>3. CASE a # u
    <3>1. InFlight(a, b) /\ req'[a] = req[a]
      BY <1>1, <2>1, <2>3 DEF InFlight
    <3>2. ~ InFlight(b, a)'
      BY <1>1, <2>1, <2>3, <3>1 DEF InFlight, PairInv, LikesOK
    <3>3. QED
      BY <2>1, <3>1, <3>2 DEF PairInv, LikesOK, Blocked, Pair, Reciprocal
  <2>4. QED
    BY <2>2, <2>3
<1>3. ASSUME NEW u \in Users, NEW v \in Users, LikeCommit(u, v) PROVE LikesOK'
  <2>1. /\ InFlight(u, v) /\ ~ InFlight(v, u) /\ blocks' = blocks
        /\ likes' \subseteq likes \cup {<<u, v>>}
    BY <1>3 DEF LikeCommit, PairInv, LikesOK
  <2>2. \A w \in Users : req'[w].op = "like" => req'[w] = req[w]
    BY <1>1, <1>3 DEF LikeCommit, NoRequest
  <2>3. QED
    BY <2>1, <2>2, LikesKept DEF Blocked, Pair, Reciprocal
<1>4. ASSUME NEW u \in Users, NEW v \in Users,
             BlockCommit(u, v) \/ SafetyBlock(u, v)
      PROVE  LikesOK'
  <2>1. /\ LockFree(Pair(u, v)) /\ blocks' = blocks \cup {<<u, v>>}
        /\ likes' \subseteq likes
    BY <1>4 DEF BlockCommit, SafetyBlock, Block
  <2>2. \A w \in Users : req'[w].op = "like" => req'[w] = req[w]
    BY <1>4, BlockKeepsLikes
  <2>3. ASSUME NEW a \in Users, NEW b \in Users, InFlight(a, b),
               Blocked(Pair(a, b))'
        PROVE  Blocked(Pair(a, b))
    BY <2>1, <2>3 DEF LockFree, Pair, Blocked
  <2>4. QED
    BY <2>1, <2>2, <2>3, LikesKept DEF Reciprocal
<1>5. ASSUME NEW u \in Users, NEW v \in Users, UnmatchCommit(u, v)
      PROVE  LikesOK'
  <2>1. blocks' = blocks /\ likes' \subseteq likes
    BY <1>5 DEF UnmatchCommit
  <2>2. \A w \in Users : req'[w].op = "like" => req'[w] = req[w]
    BY <1>1, <1>5, AfterMatchLike DEF UnmatchCommit, NoRequest
  <2>3. QED
    BY <2>1, <2>2, LikesKept DEF Blocked, Pair, Reciprocal
<1>6. ASSUME blocks' \subseteq blocks, likes' \subseteq likes,
             \A w \in Users : req'[w].op = "like" => req'[w] = req[w]
      PROVE  LikesOK'
  BY <1>6, LikesKept DEF Blocked, Pair, Reciprocal
<1>7. ASSUME NEW u \in Users, NEW v \in Users, UnmatchRead(u, v) \/ Abort(u)
      PROVE  LikesOK'
  BY <1>1, <1>6, <1>7 DEF UnmatchRead, Abort, NoRequest, vars, socialVars
<1>8. ASSUME NEW u \in Users, NEW c \in Conversations, SafetyRead(u, c)
      PROVE  LikesOK'
  BY <1>1, <1>6, <1>8 DEF SafetyRead, vars, socialVars
<1>9. ASSUME NEW u \in Users, NEW v \in Users, OpenCommit(u, v)
      PROVE  LikesOK'
  BY <1>6, <1>9 DEF OpenCommit, OpenMatch, OpenMatchWith, socialVars
<1>10. ASSUME NEW u \in Users, NEW like \in likes, Withdraw(u, like)
       PROVE  LikesOK'
  BY <1>6, <1>10 DEF Withdraw, RemoveLike
<1>11. ASSUME Statement PROVE LikesOK'
  BY <1>6, <1>11
     DEF Statement, Pass, Unblock, Resolve, ProfileNext, SetHidden, socialVars
<1>12. QED
  BY <1>2, <1>3, <1>4, <1>5, <1>7, <1>8, <1>9, <1>10, <1>11 DEF PairNext

\* An open unmatch stays as it is, or learns that its match has ended.
LEMMA UnmatchesKept ==
    ASSUME PairInv, ended \subseteq ended',
           \A w \in Users : req'[w].op = "unmatch" =>
               /\ req[w].op = "unmatch" /\ req'[w].peer = req[w].peer
               /\ LET p == Pair(w, req[w].peer)
                  IN  /\ req'[w].found => req[w].found /\ p \in matches'
                      /\ req[w].found /\ ~ req'[w].found => p \in ended'
    PROVE  UnmatchesOK'
BY DEF PairInv, UnmatchesOK, Pair

\* A match that an open unmatch has read ends for it as for everybody else.
LEMMA UnmatchesEnd ==
    ASSUME PairInv, NEW p, matches' = matches \ {p},
           ended' = ended \cup (matches \cap {p}),
           \A w \in Users : \/ req'[w] = NoRequest
                             \/ req'[w] = AfterMatch(p, req[w], w)
    PROVE  UnmatchesOK'
<1>1. \A w \in Users : req[w] \in Request
  BY DEF PairInv, PairTypeOK
<1>2. ASSUME NEW w \in Users, req'[w].op = "unmatch"
      PROVE  /\ req[w].op = "unmatch" /\ req'[w].peer = req[w].peer
             /\ req'[w].found = (req[w].found /\ Pair(w, req[w].peer) # p)
  BY <1>1, <1>2, AfterMatchLike DEF NoRequest
<1>3. ASSUME NEW w \in Users, req[w].op = "unmatch", req[w].found
      PROVE  Pair(w, req[w].peer) \in matches
  BY <1>3 DEF PairInv, UnmatchesOK
<1>4. QED
  BY <1>2, <1>3, UnmatchesKept

\* What the row of a match tells an open unmatch stays true.
LEMMA UnmatchesStep == ASSUME PairInv, PairNext PROVE UnmatchesOK'
<1>1. req \in [Users -> Request]
  BY DEF PairInv, PairTypeOK
<1>2. ASSUME matches \subseteq matches', ended' = ended,
             \A w \in Users : req'[w].op = "unmatch" => req'[w] = req[w]
      PROVE  UnmatchesOK'
  BY <1>2 DEF PairInv, UnmatchesOK, Pair
<1>3. ASSUME NEW u \in Users, NEW v \in Users, UnmatchRead(u, v)
      PROVE  UnmatchesOK'
  BY <1>1, <1>3
     DEF UnmatchRead, PairInv, UnmatchesOK, Pair, vars, socialVars
<1>4. ASSUME NEW u \in Users, NEW v \in Users, UnmatchCommit(u, v)
      PROVE  UnmatchesOK'
  <2>1. CASE req[u].found
    <3>1. matches' = matches \ {Pair(u, v)}
      BY <1>4, <2>1 DEF UnmatchCommit
    <3>2. ended' = ended \cup (matches \cap {Pair(u, v)})
      BY <1>4, <3>1 DEF UnmatchCommit
    <3>3. ASSUME NEW w \in Users
          PROVE  \/ req'[w] = NoRequest
                 \/ req'[w] = AfterMatch(Pair(u, v), req[w], w)
      BY <1>4, <2>1 DEF UnmatchCommit
    <3>4. QED
      BY <3>1, <3>2, <3>3, UnmatchesEnd
  <2>2. CASE ~ req[u].found
    <3>1. matches' = matches /\ ended' = ended
      BY <1>4, <2>2 DEF UnmatchCommit
    <3>2. \A w \in Users : req'[w].op = "unmatch" => req'[w] = req[w]
      BY <1>4, <2>2 DEF UnmatchCommit, NoRequest
    <3>3. QED
      BY <1>2, <3>1, <3>2
  <2>3. QED
    BY <2>1, <2>2
<1>5. ASSUME NEW u \in Users, NEW v \in Users,
             BlockCommit(u, v) \/ SafetyBlock(u, v)
      PROVE  UnmatchesOK'
  <2>1. /\ matches' = matches \ {Pair(u, v)}
        /\ ended' = ended \cup (matches \cap {Pair(u, v)})
    BY <1>5 DEF BlockCommit, SafetyBlock, Block
  <2>2. ASSUME NEW w \in Users
        PROVE  \/ req'[w] = NoRequest
               \/ req'[w] = AfterMatch(Pair(u, v), req[w], w)
    BY <1>5 DEF BlockCommit, SafetyBlock
  <2>3. QED
    BY <2>1, <2>2, UnmatchesEnd
<1>6. ASSUME NEW u \in Users, NEW v \in Users,
             LikeRead(u, v) \/ LikeCommit(u, v) \/ Abort(u)
      PROVE  UnmatchesOK'
  BY <1>1, <1>2, <1>6
     DEF LikeRead, LikeCommit, Abort, NoRequest, vars, socialVars
<1>7. ASSUME NEW u \in Users, NEW c \in Conversations, SafetyRead(u, c)
      PROVE  UnmatchesOK'
  BY <1>1, <1>2, <1>7 DEF SafetyRead, vars, socialVars
<1>8. ASSUME NEW u \in Users, NEW v \in Users, OpenCommit(u, v)
      PROVE  UnmatchesOK'
  BY <1>2, <1>8 DEF OpenCommit, OpenMatch, OpenMatchWith, socialVars
<1>9. ASSUME NEW u \in Users, NEW like \in likes, Withdraw(u, like)
      PROVE  UnmatchesOK'
  BY <1>2, <1>9 DEF Withdraw, RemoveLike
<1>10. ASSUME Statement PROVE UnmatchesOK'
  BY <1>2, <1>10
     DEF Statement, Pass, Unblock, Resolve, ProfileNext, SetHidden, socialVars
<1>11. QED
  BY <1>3, <1>4, <1>5, <1>6, <1>7, <1>8, <1>9, <1>10 DEF PairNext

\* Every step keeps the invariant.
LEMMA PairInvStep == PairInv /\ [PairNext]_pairVars => PairInv'
<1> SUFFICES ASSUME PairInv, [PairNext]_pairVars PROVE PairInv'
  OBVIOUS
<1>1. CASE PairNext
  BY <1>1, PairTypeStep, RequestTypeStep, NamesPeerStep, LikesStep,
     UnmatchesStep
     DEF PairInv, PairTypeOK
<1>2. CASE UNCHANGED pairVars
  <2>1. UNCHANGED <<req, matches, ended, likes, blocks>>
    BY <1>2 DEF pairVars, vars, socialVars
  <2>2. LikesOK' /\ UnmatchesOK' /\ NamesPeer'
    BY <2>1
       DEF PairInv, LikesOK, UnmatchesOK, NamesPeer, InFlight, Blocked,
           Reciprocal, Pair
  <2>3. TypeOK'
    BY PairTypeStep
  <2>4. QED
    BY <2>1, <2>2, <2>3 DEF PairInv, PairTypeOK
<1>3. QED
  BY <1>1, <1>2

\* The statements start where Velora does.
LEMMA PairInitMaps == PairInit => Abs!Init
<1> SUFFICES ASSUME PairInit PROVE Abs!Init
  OBVIOUS
<1>1. LikesRead = {}
  BY DEF PairInit, NoRequest, LikesRead, InFlight
<1>2. QED
  BY <1>1, AbsNames
     DEF PairInit, Init, Abs!Init, Abs!NoRow, NoRow, Abs!NewParticipant,
         NewParticipant

\* The statements of Like, Unmatch, Block and RemoveLike, interleaved as the
\* pair lock allows, implement the transactions of Velora: ImplementsVelora.
THEOREM StatementsRefine == PairSpec => ImplementsVelora
<1>1. Moves => Abs!Next
  BY DEF Moves, Abs!Next
<1>2. PairInv /\ [PairNext]_pairVars => [Abs!Next]_(Abs!vars)
  BY <1>1, PairStepMaps
<1>3. QED
  BY <1>2, PairInitMaps, PairInvInit, PairInvStep, PTL
     DEF PairSpec, ImplementsVelora, Abs!Spec

\* So what is proved of Velora holds of them.
LEMMA StatementsProved == PairSpec => Proved!Spec
<1>1. PairInv /\ [PairNext]_pairVars => [Proved!Next]_(Proved!vars)
  BY PairStepProved
<1>2. PairInit => Proved!Init
  BY PairInitMaps, SameInit
<1>3. QED
  BY <1>1, <1>2, PairInvInit, PairInvStep, PTL DEF PairSpec, Proved!Spec

\* A block severs the pair between any two statements: BlockSevers.
THEOREM StatementsSever == PairSpec => []BlockSevers
<1>1. Proved!BlockSevers => BlockSevers
  BY DEF Proved!BlockSevers, BlockSevers, Proved!Pair, Pair, Proved!Members,
         Members, Proved!Live, Live, Proved!Conversations, Conversations,
         Proved!Pairs, Pairs
<1>2. Proved!Spec => []Proved!BlockSevers
  BY Proved!BlockAlwaysSevers, SameAssumption DEF Proved!StoreAssumption
<1>3. QED
  BY <1>1, <1>2, StatementsProved, PTL

\* A live match conversation is backed by a match, though an unmatch may come
\* late: MatchThreadBacked.
THEOREM StatementsBacked == PairSpec => []MatchThreadBacked
<1>1. Proved!MatchThreadBacked => MatchThreadBacked
  BY DEF Proved!MatchThreadBacked, MatchThreadBacked, Proved!Origin, Origin,
         Proved!Members, Members, Proved!Live, Live, Proved!Conversations,
         Conversations, Proved!Pairs, Pairs
<1>2. Proved!Spec => []Proved!MatchThreadBacked
  BY Proved!MatchThreadAlwaysBacked, SameAssumption DEF Proved!StoreAssumption
<1>3. QED
  BY <1>1, <1>2, StatementsProved, PTL

\* Two likes never wait for each other, the ones withdrawn while they were
\* being answered included: NoMutualLikes.
THEOREM StatementsNeverMutual == PairSpec => []NoMutualLikes
<1>1. Proved!NoMutualLikes => NoMutualLikes
  BY DEF Proved!NoMutualLikes, NoMutualLikes
<1>2. Proved!Spec => []Proved!NoMutualLikes
  BY Proved!LikesNeverMutual, SameAssumption DEF Proved!StoreAssumption
<1>3. QED
  BY <1>1, <1>2, StatementsProved, PTL

\* Whoever reached out is shown to the person they reached out to, between
\* any two statements: ReachedOutIsVisible.
THEOREM StatementsShow == PairSpec => []ReachedOutIsVisible
<1>1. PairInv => TypeOK
  BY DEF PairInv, PairTypeOK
<1>2. QED
  BY <1>1, ReachedOutShown, StatementsSever, PairInvInit, PairInvStep, PTL
     DEF PairSpec

\* No statement reopens a conversation that has ended: EndedStaysEnded.
THEOREM StatementsNeverReopen == PairSpec => EndedStaysEnded
<1>1. Proved!Conversations = Conversations
  BY DEF Proved!Conversations, Conversations, Proved!Pairs, Pairs
<1>2. [\A c \in Proved!Conversations :
          conversations[c].state \in {"closed", "declined"} =>
              conversations'[c] = conversations[c]]_(Proved!vars)
      => [\A c \in Conversations :
          conversations[c].state \in {"closed", "declined"} =>
              conversations'[c] = conversations[c]]_vars
  BY <1>1 DEF Proved!vars, vars, Proved!threadVars, threadVars
<1>3. Proved!Spec => Proved!EndedStaysEnded
  BY Proved!EndedForGood, SameAssumption DEF Proved!StoreAssumption
<1>4. QED
  BY <1>2, <1>3, StatementsProved, PTL
     DEF Proved!EndedStaysEnded, EndedStaysEnded

\* A statement that ends a match leaves the pair blocked, or passed both ways.
LEMMA StatementEnds ==
    ASSUME PairInv, [PairNext]_pairVars, NEW u \in Users, NEW v \in Users,
           u # v, Pair(u, v) \in matches, Pair(u, v) \notin matches'
    PROVE  Blocked(Pair(u, v))' \/ <<u, v>> \in passes'
<1> DEFINE p == Pair(u, v)
<1>1. Proved!Next
  BY PairStepProved DEF Proved!vars, Proved!socialVars
<1>2. p \in Proved!Pairs
  BY DEF Pair, Proved!Pairs
<1>3. \/ \E x, y \in Users : /\ x # y /\ p = Proved!Pair(x, y)
                             /\ <<x, y>> \in blocks'
      \/ \A x, y \in p : x # y => <<x, y>> \in passes'
  BY <1>1, <1>2, SameTypes, Proved!EndedHow, SameAssumption
     DEF Proved!StoreAssumption
<1>4. QED
  BY <1>3 DEF Proved!Pair, Pair, Blocked

\* Whoever ended a match and the person it was with are not put back into
\* each other's feeds, whichever statement ended it: EndedMatchStaysOut.
THEOREM StatementsKeepOut == PairSpec => EndedMatchStaysOut
<1> DEFINE Out == \A u, v \in Users :
                      Pair(u, v) \in matches /\ Pair(u, v) \notin matches' =>
                          v \notin FeedCandidates({}, u)'
<1>1. PairInv /\ [PairNext]_pairVars => [Out]_vars
  <2> SUFFICES ASSUME PairInv, [PairNext]_pairVars,
                      NEW u \in Users, NEW v \in Users,
                      Pair(u, v) \in matches, Pair(u, v) \notin matches'
               PROVE  v \notin FeedCandidates({}, u)'
    OBVIOUS
  <2>1. CASE u = v
    BY <2>1 DEF FeedCandidates, Visible
  <2>2. CASE u # v
    BY <2>2, StatementEnds DEF FeedCandidates, Visible
  <2>3. QED
    BY <2>1, <2>2
<1>2. QED
  BY <1>1, PairInvInit, PairInvStep, PTL DEF PairSpec, EndedMatchStaysOut
==============================================================================

------------------------------- MODULE Velora -------------------------------
(***************************************************************************)
(* The social, safety and chat services over their shared database, at the *)
(* granularity of transactions.                                            *)
(***************************************************************************)
EXTENDS Social, Safety, Chat

\* The one profile field the services read: PATCH /me with "hidden".
SetHidden(u, value) ==
    /\ hidden' = IF value THEN hidden \cup {u} ELSE hidden \ {u}
    /\ UNCHANGED <<status, blocks, waiting, unseen, socialVars, threadVars>>

SocialNext ==
    \/ \E u, v \in Users : Pass(u, v) \/ Like(u, v)
    \/ \E u \in Users, like \in likes : RemoveLike(u, like)

SafetyNext ==
    \/ \E u, v \in Users : Block(u, v) \/ Unblock(u, v)
    \/ \E u \in Users, p \in Pairs : Unmatch(u, p) \/ LateUnmatch(u, p)
    \/ \E u \in Users : Resolve(u)

OpenNext ==
    \E u, v \in Users :
        \/ OpenMatch(u, v)
        \/ \E in \in SendInput : OpenMatchWith(u, v, in) \/ OpenRequest(u, v, in)

ThreadNext ==
    \E u \in Users, c \in Conversations :
        \/ \E in \in SendInput : Send(u, c, in)
        \/ \E n \in 0..MaxMessages, read \in BOOLEAN : Receipt(u, c, n, read)
        \/ \E state \in {"open", "declined"} : Answer(u, c, state)

InboxNext ==
    \E u \in Users, c \in Conversations :
        \/ Reveal(u, c)
        \/ \E value \in BOOLEAN : Mute(u, c, value) \/ Archive(u, c, value)

QueueNext ==
    \/ \E u \in Users : JoinQueue(u) \/ LeaveQueue(u)
    \/ \E u, v \in Users : PairAnonymously(u, v)

FeedNext == \E u \in Users : Events(u)

ProfileNext == \E u \in Users, value \in BOOLEAN : SetHidden(u, value)

Next == \/ SocialNext
        \/ SafetyNext
        \/ OpenNext
        \/ ThreadNext
        \/ InboxNext
        \/ QueueNext
        \/ FeedNext
        \/ ProfileNext

Spec == Init /\ [][Next]_vars

----------------------------------------------------------------------------

\* A block severs the pair in both directions: no match, no like either way,
\* no live conversation of any origin, and no notice to the blocker about the
\* person they blocked (safety.Block, and the block checks of Like, Open,
\* access and handleAnonymous).
BlockSevers ==
    \A u, v \in Users : <<u, v>> \in blocks =>
        /\ Pair(u, v) \notin matches
        /\ <<u, v>> \notin likes /\ <<v, u>> \notin likes
        /\ <<u, v>> \notin notifications
        /\ \A c \in Conversations :
               Members(c) = Pair(u, v) => ~ Live(conversations[c])

\* A live match conversation is backed by a match row: whoever ends a match
\* also ends its conversation (Unmatch, Block against EnsureMatch).
MatchThreadBacked ==
    \A c \in Conversations :
        Origin(c) = "match" /\ Live(conversations[c]) => Members(c) \in matches

\* Two people never both wait for each other: the second like of a pair turns
\* into a match (social.Like).
NoMutualLikes ==
    \A u, v \in Users : ~ (<<u, v>> \in likes /\ <<v, u>> \in likes)

\* Positions are gap-free and unique, so "everything after n" is complete
\* (messages.seq against conversations.last_seq).
GapFree ==
    \A c \in Conversations :
        /\ {m.seq : m \in messages[c]} = 1..conversations[c].last_seq
        /\ \A m, n \in messages[c] : m.seq = n.seq => m = n

\* A client message id names at most one message of its sender in a
\* conversation, however often it is retried and through whichever endpoint.
RetrySafe ==
    \A c \in Conversations : \A m, n \in messages[c] :
        m.sender = n.sender /\ m.key = n.key => m = n

\* Until the other side accepts, a request holds exactly the one introduction
\* its requester sent; a declined request still does.
OneIntroduction ==
    \A c \in Conversations : conversations[c].state \in {"pending", "declined"} =>
        /\ Origin(c) = "request"
        /\ conversations[c].last_seq = 1
        /\ \A m \in messages[c] : m.sender = conversations[c].requested_by

\* Identities are revealed exactly when both members have consented, and only
\* in an anonymous conversation.
RevealNeedsBoth ==
    \A c \in Conversations :
        /\ consents[c] \subseteq Members(c)
        /\ consents[c] # {} => Origin(c) = "anonymous"
        /\ conversations[c].revealed <=> consents[c] = Members(c)

----------------------------------------------------------------------------

\* A conversation that was closed or declined stays so; nothing reopens it,
\* neither a retry, nor an unblock, nor a new match.
EndedStaysEnded ==
    [][\A c \in Conversations :
          conversations[c].state \in {"closed", "declined"} =>
              conversations'[c] = conversations[c]]_vars

\* Receipts only advance, and a revealed identity is never hidden again.
OnlyForward ==
    [][\A c \in Conversations :
          /\ conversations[c].revealed => conversations'[c].revealed
          /\ \A u \in Users :
                /\ participants[c][u].read <= participants'[c][u].read
                /\ participants[c][u].delivered
                       <= participants'[c][u].delivered]_vars

\* The account of somebody else in the conversation is suspended in this step.
PeerSuspended(u, c) == \E v \in Members(c) \ {u} : Active(v) /\ ~ Active(v)'

\* Whatever changes a member's inbox row is in that member's event feed in the
\* same transaction, so a device that follows the feed misses nothing.  The
\* one change that no event tells of is the other person's suspension
\* (safety.Resolve), which takes the row out of the inbox.
ChangesAreAnnounced ==
    [][\A c \in Conversations : \A u \in Members(c) :
          InboxRow(u, c)' # InboxRow(u, c) =>
              c \in unseen'[u] \/ PeerSuspended(u, c)]_vars

\* "Every fact that changes a thread is written as an event, not merely pushed"
\* (0006_messages.sql:8-9): ChangesAreAnnounced without its exception.  A
\* suspension breaks it.
EveryChangeAnnounced ==
    [][\A c \in Conversations : \A u \in Members(c) :
          InboxRow(u, c)' # InboxRow(u, c) => c \in unseen'[u]]_vars
============================================================================

------------------------------ MODULE MCVelora ------------------------------
(***************************************************************************)
(* An instance of Velora for TLC.  MCPairs covers matches and what opens   *)
(* their conversations.                                                    *)
(***************************************************************************)
EXTENDS Velora, TLC

CONSTANTS alice, bob

MCUsers == {alice, bob}
MCCompatible == Pairs
Symmetry == Permutations(Users) \cup Permutations(ClientIds)

NoMatches == Init /\ matches = {}

\* Opening, pairing and the life of one conversation, to a block or a
\* suspension.  Matches play no part in it.
ConversationsSpec ==
    /\ NoMatches
    /\ [][\/ \E u, v \in Users : \E in \in SendInput : OpenRequest(u, v, in)
          \/ QueueNext \/ ThreadNext \/ InboxNext \/ FeedNext
          \/ \E u, v \in Users : Block(u, v) \/ Unblock(u, v)
          \/ \E u \in Users : Resolve(u)]_vars

\* One conversation of the pair at a time: a request of which nobody mutes or
\* archives anything, or an anonymous one with a single message.
OneAtATime ==
    LET row(o) == {c \in Conversations :
                       Origin(c) = o /\ conversations[c].state # "none"}
    IN  /\ \/ row("request") = {}
           \/ row("anonymous") = {} /\ waiting = {}
        /\ \A c \in row("anonymous") : conversations[c].last_seq <= 1
        /\ \A c \in row("request"), u \in Users :
               ~ participants[c][u].muted /\ ~ participants[c][u].archived
============================================================================

------------------------------- MODULE Store -------------------------------
(***************************************************************************)
(* The PostgreSQL tables that the social, safety and chat services share.  *)
(* Rows are abstracted to what the services branch on: a conversation is   *)
(* identified by its unordered pair of members and its origin (the unique  *)
(* key of the table), and "none" stands for the absence of the row.        *)
(***************************************************************************)
EXTENDS Naturals, FiniteSets

CONSTANTS
    Users,        \* account ids
    Nobody,       \* SQL null where a column references an account
    Origins,      \* the conversation origins in play
    Compatible,   \* pairs whose gender and age preferences agree both ways
    ClientIds,    \* client_message_id values
    Bodies,       \* message texts that pass validateMessage
    MaxMessages   \* bound: messages per conversation

AllOrigins == {"match", "request", "anonymous"}

Pairs == {p \in SUBSET Users : \E u, v \in Users : u # v /\ p = {u, v}}

ASSUME StoreAssumption ==
    /\ Nobody \notin Users
    /\ Origins \subseteq AllOrigins
    /\ Compatible \subseteq Pairs
    /\ MaxMessages \in Nat

VARIABLES
    status,         \* users.status
    hidden,         \* profiles.hidden, as the set of hidden accounts
    likes,          \* <<from_user_id, to_user_id>>
    passes,         \* <<user_id, target_id>>
    matches,        \* pairs
    ended,          \* history: pairs of which a match has ended
    blocks,         \* <<user_id, blocked_id>>
    notifications,  \* <<user_id, profile_id>>, profile_id null for a like
    waiting,        \* chat_queue rows that have not expired
    conversations,  \* one row per conversation
    messages,       \* the messages of each conversation
    participants,   \* the two participant rows of each conversation
    consents,       \* reveal_consents
    unseen          \* user_events a person's devices have not consumed yet,
                    \* as the set of conversations those events name

socialVars == <<likes, passes, matches, ended, notifications>>
threadVars == <<conversations, messages, participants, consents>>
vars == <<status, hidden, blocks, waiting, unseen, socialVars, threadVars>>

----------------------------------------------------------------------------

Conversations == Pairs \X Origins

Members(c) == c[1]
Origin(c) == c[2]

\* likes, passes and blocks are never self-directed (a check of each table).
Edges == {e \in Users \X Users : e[1] # e[2]}

\* chatlog.Pair: the canonical key both sides of a pair agree on.
Pair(u, v) == {u, v}

Row == [state : {"none", "pending", "open", "declined", "closed"},
        requested_by : Users \cup {Nobody},
        revealed : BOOLEAN,
        last_seq : Nat]

NoRow == [state |-> "none", requested_by |-> Nobody,
          revealed |-> FALSE, last_seq |-> 0]

NewRow(state, requester) ==
    [NoRow EXCEPT !.state = state, !.requested_by = requester]

\* A reply target is named by its position; 0 is "no reply".
Message == [seq : Nat, sender : Users, key : ClientIds, body : Bodies,
            reply : Nat]

Participant == [delivered : Nat, read : Nat,
                muted : BOOLEAN, archived : BOOLEAN]

NewParticipant == [delivered |-> 0, read |-> 0,
                   muted |-> FALSE, archived |-> FALSE]

TypeOK ==
    /\ status \in [Users -> {"active", "suspended"}]
    /\ hidden \subseteq Users
    /\ likes \subseteq Edges
    /\ passes \subseteq Edges
    /\ matches \subseteq Pairs
    /\ ended \subseteq Pairs
    /\ blocks \subseteq Edges
    /\ notifications \subseteq Users \X (Users \cup {Nobody})
    /\ waiting \subseteq Users
    /\ conversations \in [Conversations -> Row]
    /\ messages \in [Conversations -> SUBSET Message]
    /\ participants \in [Conversations -> [Users -> Participant]]
    /\ consents \in [Conversations -> SUBSET Users]
    /\ unseen \in [Users -> SUBSET Conversations]

\* Matches older than the conversations table have no thread yet.
Init ==
    /\ status = [u \in Users |-> "active"]
    /\ hidden = {}
    /\ likes = {}
    /\ passes = {}
    /\ matches \in SUBSET Pairs
    /\ ended = {}
    /\ blocks = {}
    /\ notifications = {}
    /\ waiting = {}
    /\ conversations = [c \in Conversations |-> NoRow]
    /\ messages = [c \in Conversations |-> {}]
    /\ participants =
           [c \in Conversations |-> [u \in Users |-> NewParticipant]]
    /\ consents = [c \in Conversations |-> {}]
    /\ unseen = [u \in Users |-> {}]

----------------------------------------------------------------------------

Active(u) == status[u] = "active"

BothActive(p) == \A u \in p : Active(u)

Blocked(p) == \E u, v \in p : u # v /\ <<u, v>> \in blocks

Live(row) == row.state \in {"open", "pending"}
============================================================================

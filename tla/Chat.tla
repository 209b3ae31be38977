-------------------------------- MODULE Chat --------------------------------
(***************************************************************************)
(* internal/chat: opening conversations, sending, receipts, inbox actions, *)
(* anonymous pairing, and the event feed that devices follow.  A request   *)
(* that is refused leaves every table as it was, so refusals are the       *)
(* states in which an action is not enabled.                               *)
(***************************************************************************)
EXTENDS Chatlog

Greatest(m, n) == IF m < n THEN n ELSE m

\* What access reads under the pair lock; row is the conversation as the
\* transaction sees it.
Access(u, c, row) ==
    /\ u \in Members(c)
    /\ Live(row)
    /\ BothActive(Members(c))
    /\ ~ Blocked(Members(c))
    /\ Origin(c) = "match" => Members(c) \in matches

\* An introduction is the one message a pending conversation takes.
MutantCanWrite(row, u) ==
    \/ row.state = "open"
    \/ row.state = "pending" /\ row.requested_by = u

CanWrite(row, u) ==
    \/ row.state = "open"
    \/ row.state = "pending" /\ row.requested_by = u /\ row.last_seq = 0

\* The inputs a client can send: a retry repeats an earlier one.
SendInput == [key : ClientIds, body : Bodies, reply : 0..MaxMessages]

\* The message a client id already names, if any.
MutantStored(c, u, key) ==
    /\ conversations[c].state = "pending"
    /\ \E m \in messages[c] : m.sender = u /\ m.key = key

Stored(c, u, key) == \E m \in messages[c] : m.sender = u /\ m.key = key

MutantNewMessage(c, row, u, in) ==
    [seq |-> Cardinality({m \in messages[c] : m.sender = u}) + 1,
     sender |-> u, key |-> in.key, body |-> in.body, reply |-> in.reply]

\* The row insert writes, at the position it allocated.
NewMessage(c, row, u, in) ==
    [seq |-> row.last_seq + 1,
     sender |-> u, key |-> in.key, body |-> in.body, reply |-> in.reply]

\* insert.  A client id that is already stored returns the stored message, or
\* is refused when body or reply differ: nothing is written either way.
insert(c, row, u, in) ==
    /\ ~ Stored(c, u, in.key)
    /\ CanWrite(row, u)
    /\ in.reply <= row.last_seq
    /\ row.last_seq < MaxMessages
    /\ conversations' = [conversations EXCEPT
                            ![c] = [row EXCEPT !.last_seq = @ + 1]]
    /\ messages' = [messages EXCEPT
                       ![c] = @ \cup {NewMessage(c, row, u, in)}]
    /\ participants' = [participants EXCEPT
                           ![c] = [v \in Users |->
                                      [@[v] EXCEPT !.archived = FALSE]]]
    /\ Emit({c})

----------------------------------------------------------------------------

\* Who may open a conversation with whom.
CanOpen(u, v) ==
    /\ u # v
    /\ BothActive(Pair(u, v))
    /\ Pair(u, v) \cap hidden = {}
    /\ ~ Blocked(Pair(u, v))

\* POST /conversations with origin match and no message: a row appears only
\* for a match that has none yet.
OpenMatch(u, v) ==
    /\ CanOpen(u, v)
    /\ Pair(u, v) \in matches
    /\ MissingMatch(Pair(u, v)) # {}
    /\ conversations' = EnsureMatch(Pair(u, v))
    /\ Emit(MissingMatch(Pair(u, v)))
    /\ UNCHANGED <<status, hidden, blocks, waiting, socialVars, messages,
                   participants, consents>>

\* The same request carrying a first message, written in one transaction.
OpenMatchWith(u, v, in) ==
    LET c == <<Pair(u, v), "match">>
    IN  /\ CanOpen(u, v)
        /\ c \in Conversations
        /\ Pair(u, v) \in matches
        /\ Access(u, c, EnsureMatch(Pair(u, v))[c])
        /\ insert(c, EnsureMatch(Pair(u, v))[c], u, in)
        /\ UNCHANGED <<status, hidden, blocks, waiting, socialVars, consents>>

\* The request conversation of the pair as Open leaves it before insert.
RequestRow(c, u) ==
    IF conversations[c].state = "none" THEN NewRow("pending", u)
                                       ELSE conversations[c]

OpenRequest(u, v, in) ==
    LET c == <<Pair(u, v), "request">>
    IN  /\ CanOpen(u, v)
        /\ c \in Conversations
        /\ Access(u, c, RequestRow(c, u))
        /\ insert(c, RequestRow(c, u), u, in)
        /\ UNCHANGED <<status, hidden, blocks, waiting, socialVars, consents>>

Send(u, c, in) ==
    /\ Access(u, c, conversations[c])
    /\ insert(c, conversations[c], u, in)
    /\ UNCHANGED <<status, hidden, blocks, waiting, socialVars, consents>>

----------------------------------------------------------------------------

\* The participant row after a receipt for position n.
Delivered(p, n) == [p EXCEPT !.delivered = Greatest(@, n)]

Read(p, n) == [p EXCEPT !.read = Greatest(@, n), !.delivered = Greatest(@, n)]

MutantReceipt(u, c, n, read) ==
    LET p == participants[c][u]
    IN  /\ Access(u, c, conversations[c])
        /\ n <= conversations[c].last_seq
        /\ IF read THEN p.read < n ELSE p.delivered < n
        /\ participants' = [participants EXCEPT
               ![c][u] = IF read THEN Read(p, n) ELSE Delivered(p, n)]
        /\ UNCHANGED <<status, hidden, blocks, waiting, socialVars, unseen,
                       conversations, messages, consents>>

\* A receipt that advances nothing updates no row and emits nothing.
Receipt(u, c, n, read) ==
    LET p == participants[c][u]
    IN  /\ Access(u, c, conversations[c])
        /\ n <= conversations[c].last_seq
        /\ IF read THEN p.read < n ELSE p.delivered < n
        /\ participants' = [participants EXCEPT
               ![c][u] = IF read THEN Read(p, n) ELSE Delivered(p, n)]
        /\ Emit({c})
        /\ UNCHANGED <<status, hidden, blocks, waiting, socialVars,
                       conversations, messages, consents>>

----------------------------------------------------------------------------

\* Action "accept" and "decline".
Answer(u, c, state) ==
    /\ Access(u, c, conversations[c])
    /\ Origin(c) = "request"
    /\ conversations[c].requested_by # u
    /\ conversations[c].state = "pending"
    /\ conversations' = [conversations EXCEPT ![c].state = state]
    /\ Emit({c})
    /\ UNCHANGED <<status, hidden, blocks, waiting, socialVars, messages,
                   participants, consents>>

MutantBothConsented(s) == Cardinality(s) >= 1

BothConsented(s) == Cardinality(s) = 2

\* The second consent reveals, in the same transaction.
Reveal(u, c) ==
    /\ Access(u, c, conversations[c])
    /\ Origin(c) = "anonymous"
    /\ conversations[c].state = "open"
    /\ ~ conversations[c].revealed
    /\ consents' = [consents EXCEPT ![c] = @ \cup {u}]
    /\ conversations' = [conversations EXCEPT
                            ![c].revealed = BothConsented(consents'[c])]
    /\ Emit({c})
    /\ UNCHANGED <<status, hidden, blocks, waiting, socialVars, messages,
                   participants>>

Mute(u, c, value) ==
    /\ Access(u, c, conversations[c])
    /\ participants' = [participants EXCEPT ![c][u].muted = value]
    /\ Emit({c})
    /\ UNCHANGED <<status, hidden, blocks, waiting, socialVars,
                   conversations, messages, consents>>

Archive(u, c, value) ==
    /\ Access(u, c, conversations[c])
    /\ participants' = [participants EXCEPT ![c][u].archived = value]
    /\ Emit({c})
    /\ UNCHANGED <<status, hidden, blocks, waiting, socialVars,
                   conversations, messages, consents>>

----------------------------------------------------------------------------

\* The people of the queue that handleAnonymous may pick for u: the queue's
\* order (waiting_since) is left open.
Candidates(u) ==
    {v \in waiting \ {u} :
        /\ Active(v)
        /\ v \notin hidden
        /\ Pair(u, v) \in Compatible
        /\ ~ Blocked(Pair(u, v))
        /\ \A c \in Conversations :
               Members(c) = Pair(u, v) => conversations[c].state = "none"}

\* The anonymous conversations u is sent back to instead of joining.
Partners(u) ==
    {c \in Conversations : /\ u \in Members(c)
                           /\ Origin(c) = "anonymous"
                           /\ conversations[c].state = "open"
                           /\ ~ conversations[c].revealed
                           /\ ~ Blocked(Members(c))}

Paired(u) == Partners(u) # {}

\* handleAnonymous that finds nobody.  Whether the caller may join at all is
\* read by an earlier statement.
JoinQueue(u) ==
    /\ "anonymous" \in Origins
    /\ ~ Paired(u)
    /\ Candidates(u) = {}
    /\ waiting' = waiting \cup {u}
    /\ UNCHANGED <<status, hidden, blocks, unseen, socialVars, threadVars>>

MutantPairAnonymously(u, v) ==
    LET c == <<Pair(u, v), "anonymous">>
    IN  /\ u # v
        /\ c \in Conversations
        /\ Pair(u, v) \in Compatible
        /\ ~ Paired(u) /\ ~ Paired(v)
        /\ ~ Blocked(Pair(u, v))
        /\ conversations' = [conversations EXCEPT ![c] = NewRow("open", Nobody)]
        /\ waiting' = waiting \ {u, v}
        /\ Emit({c})
        /\ UNCHANGED <<status, hidden, blocks, socialVars, messages,
                       participants, consents>>

\* handleAnonymous that pairs u with somebody it picked.  Only the blocks are
\* read again under the pair's lock: since they were picked, the person may
\* have left the queue, hidden their profile or lost their account.  Neither
\* of the two has another partner (AnonymousQueue shows why).
PairAnonymously(u, v) ==
    LET c == <<Pair(u, v), "anonymous">>
    IN  /\ u # v
        /\ c \in Conversations
        /\ Pair(u, v) \in Compatible
        /\ ~ Paired(u) /\ ~ Paired(v)
        /\ ~ Blocked(Pair(u, v))
        /\ conversations[c].state = "none"
        /\ conversations' = [conversations EXCEPT ![c] = NewRow("open", Nobody)]
        /\ waiting' = waiting \ {u, v}
        /\ Emit({c})
        /\ UNCHANGED <<status, hidden, blocks, socialVars, messages,
                       participants, consents>>

\* DELETE of the queue entry, or its 30 seconds running out.
LeaveQueue(u) ==
    /\ u \in waiting
    /\ waiting' = waiting \ {u}
    /\ UNCHANGED <<status, hidden, blocks, unseen, socialVars, threadVars>>

----------------------------------------------------------------------------

\* Bootstrap's row for u of conversation c: what the inbox shows.
InboxRow(u, c) ==
    LET row == conversations[c]
        me == participants[c][u]
        others == Members(c) \ {u}
    IN  IF /\ Live(row)
           /\ BothActive(others)
           /\ ~ Blocked(Members(c))
           /\ Origin(c) = "match" => Members(c) \in matches
        THEN [state |-> row.state,
              lastSeq |-> row.last_seq,
              read |-> me.read,
              peerRead |-> {participants[c][v].read : v \in others},
              peerDelivered |-> {participants[c][v].delivered : v \in others},
              unread |-> {m \in messages[c] :
                             m.seq > me.read /\ m.sender # u},
              muted |-> me.muted,
              archived |-> me.archived,
              canSend |-> CanWrite(row, u),
              canAccept |-> row.state = "pending" /\ row.requested_by # u,
              identityHidden |-> Origin(c) = "anonymous" /\ ~ row.revealed,
              consented |-> u \in consents[c]]
        ELSE [state |-> "absent"]

\* Devices read the feed to its end and fetch what it names.
Events(u) ==
    /\ Active(u)
    /\ unseen[u] # {}
    /\ unseen' = [unseen EXCEPT ![u] = {}]
    /\ UNCHANGED <<status, hidden, blocks, waiting, socialVars, threadVars>>
============================================================================

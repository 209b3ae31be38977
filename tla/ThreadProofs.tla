---------------------------- MODULE ThreadProofs ----------------------------
(***************************************************************************)
(* What a step may do to one conversation, and what follows for every      *)
(* conversation of any number of accounts: positions without gaps, retries *)
(* that store nothing, one introduction, reveals by both, no second start. *)
(***************************************************************************)
EXTENDS VeloraProofs, FiniteSetTheorems

Kept(c) == messages'[c] = messages[c] /\ consents'[c] = consents[c]

Same(c) == conversations'[c] = conversations[c] /\ Kept(c)

Opened(c) ==
    /\ conversations[c].state = "none"
    /\ conversations'[c] = NewRow("open", Nobody)
    /\ Kept(c)

Closed(c) ==
    /\ Live(conversations[c])
    /\ conversations'[c] = [conversations[c] EXCEPT !.state = "closed"]
    /\ Kept(c)

\* The row that a message is added to: a live one, or the one Open makes up.
Start(c, row, u) ==
    \/ Live(row) /\ row = conversations[c]
    \/ /\ conversations[c].state = "none"
       /\ \/ row = NewRow("open", Nobody)
          \/ row = NewRow("pending", u) /\ Origin(c) = "request"

Posted(c) ==
    \E u \in Users, in \in SendInput, row \in Row :
        /\ Start(c, row, u)
        /\ ~ Stored(c, u, in.key)
        /\ CanWrite(row, u)
        /\ conversations'[c] = [row EXCEPT !.last_seq = row.last_seq + 1]
        /\ messages'[c] = messages[c] \cup {NewMessage(c, row, u, in)}
        /\ consents'[c] = consents[c]

Answered(c) ==
    /\ conversations[c].state = "pending"
    /\ \E s \in {"open", "declined"} :
           conversations'[c] = [conversations[c] EXCEPT !.state = s]
    /\ Kept(c)

Consented(c) ==
    /\ Origin(c) = "anonymous"
    /\ conversations[c].state = "open"
    /\ ~ conversations[c].revealed
    /\ \E u \in Members(c) : consents'[c] = consents[c] \cup {u}
    /\ conversations'[c] = [conversations[c] EXCEPT
                               !.revealed = BothConsented(consents'[c])]
    /\ messages'[c] = messages[c]

\* All that a step ever does to a conversation.
Change(c) ==
    \/ Same(c) \/ Opened(c) \/ Closed(c)
    \/ Posted(c) \/ Answered(c) \/ Consented(c)

----------------------------------------------------------------------------

\* EnsureMatch leaves a conversation as it is, or opens it.
LEMMA EnsureMatchChange ==
    ASSUME TypeOK, NEW p, conversations' = EnsureMatch(p),
           messages' = messages, consents' = consents,
           NEW c \in Conversations
    PROVE  Change(c)
<1>1. CASE c \in MissingMatch(p)
  BY <1>1 DEF EnsureMatch, MissingMatch, Change, Opened, Kept
<1>2. CASE c \notin MissingMatch(p)
  BY <1>2 DEF EnsureMatch, Change, Same, Kept
<1>3. QED
  BY <1>1, <1>2

\* ClosePair leaves a conversation as it is, or closes it.
LEMMA ClosePairChange ==
    ASSUME TypeOK, NEW p, NEW d, ClosePair(p, d),
           messages' = messages, consents' = consents,
           NEW c \in Conversations
    PROVE  Change(c)
<1>1. CASE c \in Closing(p, d)
  BY <1>1 DEF ClosePair, Closing, Change, Closed, Kept
<1>2. CASE c \notin Closing(p, d)
  BY <1>2 DEF ClosePair, Change, Same, Kept
<1>3. QED
  BY <1>1, <1>2

\* insert posts in its conversation and leaves the others as they are.
LEMMA InsertChange ==
    ASSUME TypeOK, NEW c \in Conversations, NEW row \in Row, NEW u \in Users,
           NEW in \in SendInput, Start(c, row, u), insert(c, row, u, in),
           consents' = consents, NEW d \in Conversations
    PROVE  Change(d)
<1>1. /\ conversations' = [conversations EXCEPT
                              ![c] = [row EXCEPT !.last_seq = row.last_seq + 1]]
      /\ messages' = [messages EXCEPT
                         ![c] = messages[c] \cup {NewMessage(c, row, u, in)}]
  BY DEF insert
<1>2. CASE d = c
  <2>1. /\ conversations'[c] = [row EXCEPT !.last_seq = row.last_seq + 1]
        /\ messages'[c] = messages[c] \cup {NewMessage(c, row, u, in)}
    BY <1>1 DEF TypeOK
  <2>2. Posted(c)
    BY <2>1 DEF Posted, insert
  <2>3. QED
    BY <1>2, <2>2 DEF Change
<1>3. CASE d # c
  BY <1>1, <1>3 DEF TypeOK, Change, Same, Kept
<1>4. QED
  BY <1>2, <1>3

\* Liking, passing and removing likes.
LEMMA SocialChange ==
    ASSUME TypeOK, SocialNext, NEW c \in Conversations PROVE Change(c)
<1>1. ASSUME NEW u \in Users, NEW v \in Users, Pass(u, v) PROVE Change(c)
  BY <1>1 DEF Pass, threadVars, Change, Same, Kept
<1>2. ASSUME NEW u \in Users, NEW v \in Users, Like(u, v) PROVE Change(c)
  <2>1. CASE LikeUnanswered(u, v)
    BY <1>2, <2>1 DEF Like, LikeUnanswered, Change, Same, Kept
  <2>2. CASE createMatch(u, v)
    BY <1>2, <2>2, EnsureMatchChange DEF Like, createMatch
  <2>3. QED
    BY <1>2, <2>1, <2>2 DEF Like
<1>3. ASSUME NEW u \in Users, NEW like \in likes, RemoveLike(u, like)
      PROVE  Change(c)
  BY <1>3 DEF RemoveLike, threadVars, Change, Same, Kept
<1>4. QED
  BY <1>1, <1>2, <1>3 DEF SocialNext

\* Blocks, unmatching and suspensions.
LEMMA SafetyChange ==
    ASSUME TypeOK, SafetyNext, NEW c \in Conversations PROVE Change(c)
<1>1. ASSUME NEW u \in Users, NEW v \in Users, Block(u, v) PROVE Change(c)
  BY <1>1, ClosePairChange DEF Block
<1>2. ASSUME NEW u \in Users, NEW v \in Users, Unblock(u, v) PROVE Change(c)
  BY <1>2 DEF Unblock, threadVars, Change, Same, Kept
<1>3. ASSUME NEW u \in Users, NEW p \in Pairs, Unmatch(u, p) PROVE Change(c)
  BY <1>3, ClosePairChange DEF Unmatch
<1>4. ASSUME NEW u \in Users, NEW p \in Pairs, LateUnmatch(u, p)
      PROVE  Change(c)
  BY <1>4, ClosePairChange DEF LateUnmatch
<1>5. ASSUME NEW u \in Users, Resolve(u) PROVE Change(c)
  BY <1>5 DEF Resolve, threadVars, Change, Same, Kept
<1>6. QED
  BY <1>1, <1>2, <1>3, <1>4, <1>5 DEF SafetyNext

\* Opening a conversation.
LEMMA OpenChange ==
    ASSUME TypeOK, OpenNext, NEW d \in Conversations PROVE Change(d)
<1>1. ASSUME NEW u \in Users, NEW v \in Users, OpenMatch(u, v) PROVE Change(d)
  BY <1>1, EnsureMatchChange DEF OpenMatch
<1>2. ASSUME NEW u \in Users, NEW v \in Users, NEW in \in SendInput,
             OpenMatchWith(u, v, in)
      PROVE  Change(d)
  <2> DEFINE c == <<Pair(u, v), "match">>
             row == EnsureMatch(Pair(u, v))[c]
  <2>1. /\ c \in Conversations /\ insert(c, row, u, in) /\ consents' = consents
        /\ Live(row)
    BY <1>2 DEF OpenMatchWith, Access
  <2>2. row \in Row
    BY <2>1, EnsureMatchType
  <2>3. Start(c, row, u)
    BY <2>1 DEF Start, EnsureMatch, MissingMatch
  <2> HIDE DEF c, row
  <2>4. QED
    BY <2>1, <2>2, <2>3, InsertChange
<1>3. ASSUME NEW u \in Users, NEW v \in Users, NEW in \in SendInput,
             OpenRequest(u, v, in)
      PROVE  Change(d)
  <2> DEFINE c == <<Pair(u, v), "request">>
             row == RequestRow(c, u)
  <2>1. /\ c \in Conversations /\ insert(c, row, u, in) /\ consents' = consents
        /\ Live(row)
    BY <1>3 DEF OpenRequest, Access
  <2>2. row \in Row
    BY <2>1, RowTypes DEF RequestRow, TypeOK
  <2>3. Start(c, row, u)
    BY <2>1 DEF Start, RequestRow, Origin
  <2> HIDE DEF c, row
  <2>4. QED
    BY <2>1, <2>2, <2>3, InsertChange
<1>4. QED
  BY <1>1, <1>2, <1>3 DEF OpenNext

\* Messages, receipts and answers.
LEMMA ThreadChange ==
    ASSUME TypeOK, ThreadNext, NEW d \in Conversations PROVE Change(d)
<1>1. ASSUME NEW u \in Users, NEW c \in Conversations, NEW in \in SendInput,
             Send(u, c, in)
      PROVE  Change(d)
  <2>1. conversations[c] \in Row /\ Start(c, conversations[c], u)
    BY <1>1 DEF TypeOK, Send, Access, Start
  <2>2. QED
    BY <1>1, <2>1, InsertChange DEF Send
<1>2. ASSUME NEW u \in Users, NEW c \in Conversations, NEW n, NEW read,
             Receipt(u, c, n, read)
      PROVE  Change(d)
  BY <1>2 DEF Receipt, Change, Same, Kept
<1>3. ASSUME NEW u \in Users, NEW c \in Conversations,
             NEW s \in {"open", "declined"}, Answer(u, c, s)
      PROVE  Change(d)
  <2>1. CASE d = c
    <3>1. conversations'[d] = [conversations[d] EXCEPT !.state = s]
      BY <1>3, <2>1 DEF Answer, TypeOK
    <3>2. QED
      BY <1>3, <2>1, <3>1 DEF Answer, Change, Answered, Kept
  <2>2. CASE d # c
    BY <1>3, <2>2 DEF Answer, TypeOK, Change, Same, Kept
  <2>3. QED
    BY <2>1, <2>2
<1>4. QED
  BY <1>1, <1>2, <1>3 DEF ThreadNext

\* Reveals, muting and archiving.
LEMMA InboxChange ==
    ASSUME TypeOK, InboxNext, NEW d \in Conversations PROVE Change(d)
<1>1. ASSUME NEW u \in Users, NEW c \in Conversations, Reveal(u, c)
      PROVE  Change(d)
  <2>1. CASE d = c
    <3>1. /\ consents'[d] = consents[d] \cup {u}
          /\ conversations'[d] = [conversations[d] EXCEPT
                                     !.revealed = BothConsented(consents'[d])]
      BY <1>1, <2>1 DEF Reveal, TypeOK
    <3>2. QED
      BY <1>1, <2>1, <3>1 DEF Reveal, Access, Change, Consented
  <2>2. CASE d # c
    BY <1>1, <2>2 DEF Reveal, TypeOK, Change, Same, Kept
  <2>3. QED
    BY <2>1, <2>2
<1>2. ASSUME NEW u \in Users, NEW c \in Conversations, NEW value \in BOOLEAN,
             Mute(u, c, value) \/ Archive(u, c, value)
      PROVE  Change(d)
  BY <1>2 DEF Mute, Archive, Change, Same, Kept
<1>3. QED
  BY <1>1, <1>2 DEF InboxNext

\* Anonymous pairing.
LEMMA QueueChange ==
    ASSUME TypeOK, QueueNext, NEW d \in Conversations PROVE Change(d)
<1>1. ASSUME NEW u \in Users, JoinQueue(u) \/ LeaveQueue(u) PROVE Change(d)
  BY <1>1 DEF JoinQueue, LeaveQueue, threadVars, Change, Same, Kept
<1>2. ASSUME NEW u \in Users, NEW v \in Users, PairAnonymously(u, v)
      PROVE  Change(d)
  <2> DEFINE c == <<Pair(u, v), "anonymous">>
  <2>1. /\ c \in Conversations /\ conversations[c].state = "none"
        /\ conversations' = [conversations EXCEPT ![c] = NewRow("open", Nobody)]
        /\ messages' = messages /\ consents' = consents
    BY <1>2 DEF PairAnonymously
  <2> HIDE DEF c
  <2>2. CASE d = c
    BY <2>1, <2>2 DEF TypeOK, Change, Opened, Kept
  <2>3. CASE d # c
    BY <2>1, <2>3 DEF TypeOK, Change, Same, Kept
  <2>4. QED
    BY <2>2, <2>3
<1>3. QED
  BY <1>1, <1>2 DEF QueueNext

\* Every step of every service, and every stuttering step.
LEMMA EveryChange ==
    ASSUME TypeOK, [Next]_vars, NEW c \in Conversations PROVE Change(c)
<1>1. CASE FeedNext
  BY <1>1 DEF FeedNext, Events, threadVars, Change, Same, Kept
<1>2. CASE ProfileNext
  BY <1>2 DEF ProfileNext, SetHidden, threadVars, Change, Same, Kept
<1>3. CASE UNCHANGED vars
  BY <1>3 DEF vars, threadVars, Change, Same, Kept
<1>4. QED
  BY <1>1, <1>2, <1>3, SocialChange, SafetyChange, OpenChange, ThreadChange,
     InboxChange, QueueChange DEF Next

----------------------------------------------------------------------------

\* A conversation without a row has nothing else either.
Absent(c) ==
    conversations[c].state = "none" =>
        /\ conversations[c] = NoRow
        /\ messages[c] = {} /\ consents[c] = {}

Numbered(c) ==
    /\ {m.seq : m \in messages[c]} = 1..conversations[c].last_seq
    /\ \A m, n \in messages[c] : m.seq = n.seq => m = n

Retried(c) ==
    \A m, n \in messages[c] : m.sender = n.sender /\ m.key = n.key => m = n

Introduced(c) ==
    conversations[c].state \in {"pending", "declined"} =>
        /\ Origin(c) = "request"
        /\ conversations[c].last_seq = 1
        /\ \A m \in messages[c] : m.sender = conversations[c].requested_by

Revealed(c) ==
    /\ consents[c] \subseteq Members(c)
    /\ consents[c] # {} => Origin(c) = "anonymous"
    /\ conversations[c].revealed <=> consents[c] = Members(c)

Whole(c) ==
    Absent(c) /\ Numbered(c) /\ Retried(c) /\ Introduced(c) /\ Revealed(c)

ThreadInv == TypeOK /\ \A c \in Conversations : Whole(c)

\* The two members of a conversation.
LEMMA TwoMembers ==
    ASSUME NEW c \in Conversations
    PROVE  Members(c) # {} /\ IsFiniteSet(Members(c)) /\ Cardinality(Members(c)) = 2
<1>1. PICK u \in Users, v \in Users : u # v /\ Members(c) = {u, v}
  BY DEF Conversations, Members, Pairs
<1>2. /\ IsFiniteSet({v}) /\ Cardinality({v}) = 1
  BY FS_Singleton
<1>3. /\ IsFiniteSet({v} \cup {u}) /\ Cardinality({v} \cup {u}) = 1 + 1
  BY <1>1, <1>2, FS_AddElement
<1>4. {v} \cup {u} = {u, v}
  OBVIOUS
<1>5. QED
  BY <1>1, <1>3, <1>4

\* Two consents of members are those of both.
LEMMA BothAreAll ==
    ASSUME NEW c \in Conversations, NEW s \in SUBSET Members(c)
    PROVE  BothConsented(s) <=> s = Members(c)
<1>1. IsFiniteSet(Members(c)) /\ Cardinality(Members(c)) = 2
  BY TwoMembers
<1>2. ASSUME Cardinality(s) = 2 PROVE s = Members(c)
  BY <1>1, <1>2, FS_Subset
<1>3. QED
  BY <1>1, <1>2 DEF BothConsented

\* Nothing has happened in a conversation at the start.
LEMMA ThreadInit == Init => ThreadInv
<1> SUFFICES ASSUME Init, NEW c \in Conversations PROVE Whole(c)
  BY TypeInit DEF ThreadInv
<1>1. /\ conversations[c] = NoRow /\ messages[c] = {} /\ consents[c] = {}
  BY DEF Init
<1>2. NoRow.state = "none" /\ NoRow.last_seq = 0 /\ NoRow.revealed = FALSE
  BY DEF NoRow
<1>3. Absent(c) /\ Retried(c) /\ Introduced(c)
  BY <1>1, <1>2 DEF Absent, Retried, Introduced
<1>4. Numbered(c)
  BY <1>1, <1>2 DEF Numbered
<1>5. Revealed(c)
  BY <1>1, <1>2, TwoMembers DEF Revealed
<1>6. QED
  BY <1>3, <1>4, <1>5 DEF Whole

\* A message is added to a row that is as long as the conversation.
LEMMA StartLength ==
    ASSUME TypeOK, NEW c \in Conversations, Absent(c), NEW row \in Row,
           NEW u \in Users, Start(c, row, u)
    PROVE  /\ row.last_seq = conversations[c].last_seq
           /\ row.revealed = conversations[c].revealed
           /\ row.last_seq \in Nat
           /\ row.state \in {"open", "pending"}
BY DEF Start, Absent, NoRow, NewRow, Row, Live

\* A message takes the next position, under a client id of its own.
LEMMA PostedWhole ==
    ASSUME TypeOK, NEW c \in Conversations, Whole(c), Posted(c)
    PROVE  Whole(c)'
<1>1. PICK u \in Users, in \in SendInput, row \in Row :
          /\ Start(c, row, u)
          /\ ~ Stored(c, u, in.key)
          /\ CanWrite(row, u)
          /\ conversations'[c] = [row EXCEPT !.last_seq = row.last_seq + 1]
          /\ messages'[c] = messages[c] \cup {NewMessage(c, row, u, in)}
          /\ consents'[c] = consents[c]
  BY DEF Posted
<1>2. /\ row.last_seq = conversations[c].last_seq
      /\ row.revealed = conversations[c].revealed
      /\ row.last_seq \in Nat
      /\ row.state \in {"open", "pending"}
  BY <1>1, StartLength DEF Whole
<1>3. /\ conversations'[c].state = row.state
      /\ conversations'[c].requested_by = row.requested_by
      /\ conversations'[c].revealed = row.revealed
      /\ conversations'[c].last_seq = row.last_seq + 1
  BY <1>1 DEF Row
<1> DEFINE new == NewMessage(c, row, u, in)
<1>4. new.seq = row.last_seq + 1 /\ new.sender = u /\ new.key = in.key
  BY DEF NewMessage
<1> HIDE DEF new
<1>5. messages'[c] = messages[c] \cup {new}
  BY <1>1 DEF new
<1>6. Absent(c)'
  BY <1>2, <1>3 DEF Absent
<1>7. Numbered(c)'
  <2>1. {m.seq : m \in messages'[c]} = {m.seq : m \in messages[c]} \cup {new.seq}
    BY <1>5
  <2>2. {m.seq : m \in messages[c]} = 1..row.last_seq
    BY <1>2 DEF Whole, Numbered
  <2>3. (1..row.last_seq) \cup {row.last_seq + 1} = 1..(row.last_seq + 1)
    BY <1>2
  <2>4. \A m \in messages[c] : m.seq # new.seq
    <3>1. ASSUME NEW m \in messages[c] PROVE m.seq \in 1..row.last_seq
      BY <2>2
    <3>2. QED
      BY <3>1, <1>2, <1>4
  <2>5. \A m, n \in messages'[c] : m.seq = n.seq => m = n
    BY <1>5, <2>4 DEF Whole, Numbered
  <2>6. QED
    BY <1>3, <1>4, <2>1, <2>2, <2>3, <2>5 DEF Numbered
<1>8. Retried(c)'
  <2>1. \A m \in messages[c] : ~ (m.sender = new.sender /\ m.key = new.key)
    BY <1>1, <1>4 DEF Stored
  <2>2. QED
    BY <1>5, <2>1 DEF Whole, Retried
<1>9. Introduced(c)'
  <2> SUFFICES ASSUME row.state = "pending"
               PROVE  /\ Origin(c) = "request"
                      /\ row.last_seq = 0
                      /\ row.requested_by = u
                      /\ messages[c] = {}
    BY <1>2, <1>3, <1>4, <1>5 DEF Introduced
  <2>1. row.last_seq = 0 /\ row.requested_by = u
    BY <1>1 DEF CanWrite
  <2>2. Origin(c) = "request"
    <3>1. CASE row = conversations[c]
      BY <3>1 DEF Whole, Introduced
    <3>2. CASE row # conversations[c]
      <4>1. NewRow("open", Nobody).state = "open"
        BY DEF NewRow, NoRow
      <4>2. QED
        BY <1>1, <3>2, <4>1 DEF Start
    <3>3. QED
      BY <3>1, <3>2
  <2>3. messages[c] = {}
    <3>1. {m.seq : m \in messages[c]} = 1..0
      BY <1>2, <2>1 DEF Whole, Numbered
    <3>2. 1..0 = {}
      OBVIOUS
    <3>3. QED
      BY <3>1, <3>2
  <2>4. QED
    BY <2>1, <2>2, <2>3
<1>10. Revealed(c)'
  BY <1>1, <1>2, <1>3 DEF Whole, Revealed, Members, Origin
<1>11. QED
  BY <1>6, <1>7, <1>8, <1>9, <1>10 DEF Whole

\* Nothing but a message adds a message, and nothing but a consent reveals.
LEMMA ChangeWhole ==
    ASSUME TypeOK, NEW c \in Conversations, Whole(c), Change(c)
    PROVE  Whole(c)'
<1> conversations[c] \in Row
  BY DEF TypeOK
<1>1. CASE Same(c)
  BY <1>1 DEF Same, Kept, Whole, Absent, Numbered, Retried, Introduced,
              Revealed, Members, Origin
<1>2. CASE Opened(c)
  <2>1. /\ conversations'[c].state = "open"
        /\ conversations'[c].last_seq = 0
        /\ conversations'[c].revealed = FALSE
    BY <1>2 DEF Opened, NewRow, NoRow
  <2>2. messages'[c] = {} /\ consents'[c] = {} /\ conversations[c] = NoRow
    BY <1>2 DEF Opened, Kept, Whole, Absent
  <2>3. Absent(c)' /\ Retried(c)' /\ Introduced(c)'
    BY <2>1, <2>2 DEF Absent, Retried, Introduced
  <2>4. Numbered(c)'
    BY <2>1, <2>2 DEF Numbered
  <2>5. Revealed(c)'
    BY <2>1, <2>2, TwoMembers DEF Revealed, Members
  <2>6. QED
    BY <2>3, <2>4, <2>5 DEF Whole
<1>3. CASE Closed(c)
  <2>1. /\ conversations'[c].state = "closed"
        /\ conversations'[c].last_seq = conversations[c].last_seq
        /\ conversations'[c].revealed = conversations[c].revealed
        /\ messages'[c] = messages[c] /\ consents'[c] = consents[c]
    BY <1>3 DEF Closed, Kept, Row
  <2>2. QED
    BY <2>1 DEF Whole, Absent, Numbered, Retried, Introduced, Revealed,
                Members, Origin
<1>4. CASE Posted(c)
  BY <1>4, PostedWhole
<1>5. CASE Answered(c)
  <2>1. /\ conversations'[c].state \in {"open", "declined"}
        /\ conversations'[c].last_seq = conversations[c].last_seq
        /\ conversations'[c].requested_by = conversations[c].requested_by
        /\ conversations'[c].revealed = conversations[c].revealed
        /\ messages'[c] = messages[c] /\ consents'[c] = consents[c]
    BY <1>5 DEF Answered, Kept, Row
  <2>2. conversations[c].state = "pending"
    BY <1>5 DEF Answered
  <2>3. QED
    BY <2>1, <2>2 DEF Whole, Absent, Numbered, Retried, Introduced, Revealed,
                      Members, Origin
<1>6. CASE Consented(c)
  <2>1. /\ conversations'[c].state = "open"
        /\ conversations'[c].last_seq = conversations[c].last_seq
        /\ conversations'[c].revealed = BothConsented(consents'[c])
        /\ messages'[c] = messages[c]
    BY <1>6 DEF Consented, Row
  <2>2. consents'[c] \subseteq Members(c) /\ Origin(c) = "anonymous"
    BY <1>6 DEF Consented, Whole, Revealed
  <2>3. BothConsented(consents'[c]) <=> consents'[c] = Members(c)
    BY <2>2, BothAreAll
  <2>4. Revealed(c)'
    BY <2>1, <2>2, <2>3 DEF Revealed, Members, Origin
  <2>5. QED
    BY <2>1, <2>4 DEF Whole, Absent, Numbered, Retried, Introduced
<1>7. QED
  BY <1>1, <1>2, <1>3, <1>4, <1>5, <1>6 DEF Change

\* Every step keeps every conversation whole.
LEMMA ThreadStep == ThreadInv /\ [Next]_vars => ThreadInv'
<1> SUFFICES ASSUME ThreadInv, [Next]_vars PROVE ThreadInv'
  OBVIOUS
<1>1. TypeOK'
  BY TypeStep DEF ThreadInv
<1>2. ASSUME NEW c \in Conversations PROVE Whole(c)'
  BY EveryChange, ChangeWhole DEF ThreadInv
<1>3. QED
  BY <1>1, <1>2 DEF ThreadInv

LEMMA ThreadAlways == Spec => []ThreadInv
BY ThreadInit, ThreadStep, PTL DEF Spec

\* Positions have no gaps and no duplicates, in any conversation of any length.
THEOREM AlwaysGapFree == Spec => []GapFree
<1>1. ThreadInv => GapFree
  BY DEF ThreadInv, Whole, Numbered, GapFree
<1>2. QED
  BY <1>1, ThreadAlways, PTL

\* However often a send is retried, its client id names one message.
THEOREM RetriesAreSafe == Spec => []RetrySafe
<1>1. ThreadInv => RetrySafe
  BY DEF ThreadInv, Whole, Retried, RetrySafe
<1>2. QED
  BY <1>1, ThreadAlways, PTL

\* A request that is not accepted holds the one message of its requester.
THEOREM IntroducedOnce == Spec => []OneIntroduction
<1>1. ThreadInv => OneIntroduction
  BY DEF ThreadInv, Whole, Introduced, OneIntroduction
<1>2. QED
  BY <1>1, ThreadAlways, PTL

\* Identities are revealed exactly when both members have consented.
THEOREM RevealedByBoth == Spec => []RevealNeedsBoth
<1>1. ThreadInv => RevealNeedsBoth
  BY DEF ThreadInv, Whole, Revealed, RevealNeedsBoth
<1>2. QED
  BY <1>1, ThreadAlways, PTL

\* No step changes a conversation that was closed or declined.
LEMMA EndedStep ==
    ASSUME ThreadInv, [Next]_vars, NEW c \in Conversations,
           conversations[c].state \in {"closed", "declined"}
    PROVE  conversations'[c] = conversations[c]
<1>1. Change(c)
  BY EveryChange DEF ThreadInv
<1>2. ~ Opened(c) /\ ~ Closed(c) /\ ~ Answered(c) /\ ~ Consented(c)
  BY DEF Opened, Closed, Answered, Consented, Live
<1>3. ~ Posted(c)
  <2> SUFFICES ASSUME NEW u, NEW row, Start(c, row, u) PROVE FALSE
    BY DEF Posted
  <2>1. QED
    BY DEF Start, Live
<1>4. QED
  BY <1>1, <1>2, <1>3 DEF Change, Same

\* Nothing reopens a conversation that has ended: neither a retry, nor an
\* unblock, nor a new match, nor a pairing.
THEOREM EndedForGood == Spec => EndedStaysEnded
<1>1. ThreadInv /\ [Next]_vars =>
          [\A c \in Conversations :
              conversations[c].state \in {"closed", "declined"} =>
                  conversations'[c] = conversations[c]]_vars
  BY EndedStep
<1>2. QED
  BY <1>1, ThreadAlways, PTL DEF Spec, EndedStaysEnded

----------------------------------------------------------------------------

\* A participant row whose receipts are not behind those of p.
Further(p, q) == p.read <= q.read /\ p.delivered <= q.delivered

\* A late receipt takes the greater of two positions.
LEMMA ReceiptFurther ==
    ASSUME NEW p \in Participant, NEW n \in Nat
    PROVE  Further(p, Read(p, n)) /\ Further(p, Delivered(p, n))
BY DEF Read, Delivered, Greatest, Participant, Further

\* No step moves a receipt back.
LEMMA ReceiptsAdvance ==
    ASSUME TypeOK, [Next]_vars, NEW c \in Conversations, NEW u \in Users
    PROVE  Further(participants[c][u], participants'[c][u])
<1>1. participants[c][u] \in Participant
  BY DEF TypeOK
<1>2. CASE participants' = participants
  BY <1>1, <1>2 DEF Participant, Further
<1>3. ASSUME NEW d \in Conversations, NEW row, NEW v, NEW in,
             insert(d, row, v, in)
      PROVE  Further(participants[c][u], participants'[c][u])
  <2>1. CASE c = d
    <3>1. participants'[c][u] = [participants[c][u] EXCEPT !.archived = FALSE]
      BY <1>3, <2>1 DEF insert, TypeOK
    <3>2. QED
      BY <1>1, <3>1 DEF Participant, Further
  <2>2. CASE c # d
    BY <1>1, <1>3, <2>2 DEF insert, TypeOK, Participant, Further
  <2>3. QED
    BY <2>1, <2>2
<1>4. ASSUME NEW v \in Users, NEW d \in Conversations,
             NEW n \in 0..MaxMessages, NEW read \in BOOLEAN,
             Receipt(v, d, n, read)
      PROVE  Further(participants[c][u], participants'[c][u])
  <2>1. n \in Nat
    BY StoreAssumption
  <2>2. PICK r : /\ participants' = [participants EXCEPT ![d][v] = r]
                 /\ \/ r = Read(participants[d][v], n)
                    \/ r = Delivered(participants[d][v], n)
    BY <1>4 DEF Receipt
  <2>3. CASE c = d /\ u = v
    <3>1. participants'[c][u] = r
      BY <2>2, <2>3 DEF TypeOK
    <3>2. QED
      BY <1>1, <2>1, <2>2, <2>3, <3>1, ReceiptFurther
  <2>4. CASE ~ (c = d /\ u = v)
    <3>1. participants'[c][u] = participants[c][u]
      BY <2>2, <2>4 DEF TypeOK
    <3>2. QED
      BY <1>1, <3>1 DEF Participant, Further
  <2>5. QED
    BY <2>3, <2>4
<1>5. ASSUME NEW v \in Users, NEW d \in Conversations, NEW value,
             Mute(v, d, value) \/ Archive(v, d, value)
      PROVE  Further(participants[c][u], participants'[c][u])
  <2>1. PICK r : /\ participants' = [participants EXCEPT ![d][v] = r]
                 /\ \/ r = [participants[d][v] EXCEPT !.muted = value]
                    \/ r = [participants[d][v] EXCEPT !.archived = value]
    BY <1>5 DEF Mute, Archive
  <2>2. CASE c = d /\ u = v
    <3>1. participants'[c][u] = r
      BY <2>1, <2>2 DEF TypeOK
    <3>2. QED
      BY <1>1, <2>1, <2>2, <3>1 DEF Participant, Further
  <2>3. CASE ~ (c = d /\ u = v)
    <3>1. participants'[c][u] = participants[c][u]
      BY <2>1, <2>3 DEF TypeOK
    <3>2. QED
      BY <1>1, <3>1 DEF Participant, Further
  <2>4. QED
    BY <2>2, <2>3
<1>6. CASE SocialNext
  BY <1>2, <1>6 DEF SocialNext, Pass, Like, RemoveLike, threadVars
<1>7. CASE SafetyNext
  BY <1>2, <1>7 DEF SafetyNext, Block, Unblock, Unmatch, LateUnmatch, Resolve,
                    threadVars
<1>8. CASE OpenNext
  <2>1. ASSUME NEW v \in Users, NEW w \in Users, OpenMatch(v, w)
        PROVE  Further(participants[c][u], participants'[c][u])
    BY <1>2, <2>1 DEF OpenMatch
  <2>2. ASSUME NEW v \in Users, NEW w \in Users, NEW in \in SendInput,
               OpenMatchWith(v, w, in) \/ OpenRequest(v, w, in)
        PROVE  Further(participants[c][u], participants'[c][u])
    BY <1>3, <2>2 DEF OpenMatchWith, OpenRequest
  <2>3. QED
    BY <1>8, <2>1, <2>2 DEF OpenNext
<1>9. CASE ThreadNext
  BY <1>2, <1>3, <1>4, <1>9 DEF ThreadNext, Send, Answer
<1>10. CASE InboxNext
  BY <1>2, <1>5, <1>10 DEF InboxNext, Reveal
<1>11. CASE QueueNext
  BY <1>2, <1>11 DEF QueueNext, JoinQueue, LeaveQueue, PairAnonymously,
                     threadVars
<1>12. CASE FeedNext \/ ProfileNext \/ UNCHANGED vars
  BY <1>2, <1>12 DEF FeedNext, Events, ProfileNext, SetHidden, vars, threadVars
<1>13. QED
  BY <1>6, <1>7, <1>8, <1>9, <1>10, <1>11, <1>12 DEF Next

\* An identity that was revealed stays so.
LEMMA RevealedStays ==
    ASSUME ThreadInv, [Next]_vars, NEW c \in Conversations,
           conversations[c].revealed
    PROVE  conversations'[c].revealed
<1>1. Change(c) /\ Whole(c) /\ conversations[c] \in Row
  BY EveryChange DEF ThreadInv, TypeOK
<1>2. conversations[c].state # "none"
  BY <1>1 DEF Whole, Absent, NoRow
<1>3. CASE Posted(c)
  BY <1>1, <1>2, <1>3 DEF Posted, Start, Row
<1>4. CASE Same(c)
  BY <1>4 DEF Same
<1>5. CASE Closed(c) \/ Answered(c)
  BY <1>1, <1>5 DEF Closed, Answered, Row
<1>6. QED
  BY <1>1, <1>2, <1>3, <1>4, <1>5 DEF Change, Opened, Consented

\* Late and repeated receipts move nothing back, and no step hides an
\* identity again.
THEOREM OnlyEverForward == Spec => OnlyForward
<1> DEFINE Forward == \A c \in Conversations :
          /\ conversations[c].revealed => conversations'[c].revealed
          /\ \A u \in Users :
                /\ participants[c][u].read <= participants'[c][u].read
                /\ participants[c][u].delivered
                       <= participants'[c][u].delivered
<1>1. ThreadInv /\ [Next]_vars => [Forward]_vars
  <2>1. ASSUME ThreadInv, [Next]_vars PROVE Forward
    BY <2>1, RevealedStays, ReceiptsAdvance DEF ThreadInv, Further
  <2>2. QED
    BY <2>1
<1>2. QED
  BY <1>1, ThreadAlways, PTL DEF Spec, OnlyForward

----------------------------------------------------------------------------

\* The event is in the feeds of both members.
Announced(c) == \A u \in Members(c) : c \in unseen'[u]

\* Nothing that Bootstrap reads of a conversation changes.
Unread(c) ==
    /\ conversations'[c] = conversations[c]
    /\ messages'[c] = messages[c]
    /\ participants'[c] = participants[c]
    /\ consents'[c] = consents[c]

\* It is in no inbox, before and after.
Gone(c) == ~ Live(conversations[c]) /\ ~ Live(conversations'[c])

\* Neither a block nor the match that it rests on comes or goes.
Steady(c) ==
    /\ Blocked(Members(c))' = Blocked(Members(c))
    /\ Origin(c) = "match" =>
           (Members(c) \in matches' <=> Members(c) \in matches)

Told(c) == Announced(c) \/ Gone(c) \/ (Unread(c) /\ Steady(c))

\* An event is written for both members.
LEMMA EmitAnnounces ==
    ASSUME NEW cs, Emit(cs), NEW c \in Conversations, c \in cs
    PROVE  Announced(c)
<1>1. Members(c) \subseteq Users
  BY DEF Conversations, Members, Pairs
<1>2. QED
  BY <1>1 DEF Emit, Announced

\* What is not announced does not show, while nobody is suspended.
LEMMA ToldShows ==
    ASSUME NEW c \in Conversations, NEW u \in Members(c), Told(c),
           status' = status, InboxRow(u, c)' # InboxRow(u, c)
    PROVE  c \in unseen'[u]
<1>1. ~ Gone(c)
  BY DEF Gone, InboxRow, Live
<1>2. ~ (Unread(c) /\ Steady(c))
  <2> SUFFICES ASSUME Unread(c), Steady(c)
               PROVE  InboxRow(u, c)' = InboxRow(u, c)
    OBVIOUS
  <2>1. Blocked(Members(c))' = Blocked(Members(c))
    BY DEF Steady
  <2>2. Origin(c) = "match" =>
            (Members(c) \in matches' <=> Members(c) \in matches)
    BY DEF Steady
  <2>3. BothActive(Members(c) \ {u})' = BothActive(Members(c) \ {u})
    BY DEF BothActive, Active, Members
  <2>4. QED
    BY <2>1, <2>2, <2>3 DEF Unread, InboxRow, Live, CanWrite, Members, Origin
<1>3. QED
  BY <1>1, <1>2 DEF Told, Announced

\* A suspension shows to nobody but the other member, whose row it takes away.
LEMMA ResolveShows ==
    ASSUME TypeOK, NEW w \in Users, Resolve(w), NEW c \in Conversations,
           NEW u \in Members(c), InboxRow(u, c)' # InboxRow(u, c)
    PROVE  PeerSuspended(u, c)
<1> DEFINE others == Members(c) \ {u}
<1>1. /\ UNCHANGED <<blocks, matches, threadVars>>
      /\ Active(w) /\ status' = [status EXCEPT ![w] = "suspended"]
  BY DEF Resolve, socialVars
<1>2. CASE w \in others
  BY <1>1, <1>2 DEF TypeOK, Active, PeerSuspended
<1>3. CASE w \notin others
  <2>1. \A v \in others : status'[v] = status[v]
    <3>1. others \subseteq Users
      BY DEF Conversations, Members, Pairs
    <3>2. QED
      BY <1>1, <1>3, <3>1 DEF TypeOK
  <2>2. BothActive(others)' = BothActive(others)
    BY <2>1 DEF BothActive, Active, Members
  <2>3. Blocked(Members(c))' = Blocked(Members(c))
    BY <1>1 DEF Blocked
  <2>4. InboxRow(u, c)' = InboxRow(u, c)
    BY <1>1, <2>2, <2>3
       DEF threadVars, InboxRow, Live, CanWrite, Members, Origin
  <2>5. QED
    BY <2>4
<1>4. QED
  BY <1>2, <1>3

\* Only a suspension changes the status of an account.
LEMMA OnlyResolveSuspends ==
    ASSUME Next
    PROVE  status' = status \/ \E w \in Users : Resolve(w)
<1>1. CASE SocialNext
  BY <1>1 DEF SocialNext, Pass, Like, LikeUnanswered, createMatch, RemoveLike
<1>2. CASE SafetyNext
  BY <1>2 DEF SafetyNext, Block, Unblock, Unmatch, LateUnmatch
<1>3. CASE OpenNext
  BY <1>3 DEF OpenNext, OpenMatch, OpenMatchWith, OpenRequest
<1>4. CASE ThreadNext
  BY <1>4 DEF ThreadNext, Send, Receipt, Answer
<1>5. CASE InboxNext
  BY <1>5 DEF InboxNext, Reveal, Mute, Archive
<1>6. CASE QueueNext
  BY <1>6 DEF QueueNext, JoinQueue, LeaveQueue, PairAnonymously
<1>7. CASE FeedNext \/ ProfileNext
  BY <1>7 DEF FeedNext, Events, ProfileNext, SetHidden
<1>8. QED
  BY <1>1, <1>2, <1>3, <1>4, <1>5, <1>6, <1>7 DEF Next

\* A step that names one conversation in both feeds, touches no other, and
\* leaves blocks and matches alone.
LEMMA OneTold ==
    ASSUME TypeOK, NEW c \in Conversations, Emit({c}),
           blocks' = blocks, matches' = matches,
           \A d \in Conversations : d # c => Unread(d),
           NEW e \in Conversations
    PROVE  Told(e)
<1>1. CASE e = c
  BY <1>1, EmitAnnounces DEF Told
<1>2. CASE e # c
  BY <1>2 DEF Told, Steady, Blocked
<1>3. QED
  BY <1>1, <1>2

\* A step that leaves all that Bootstrap reads alone.
LEMMA NothingTold ==
    ASSUME blocks' = blocks, matches' = matches,
           UNCHANGED threadVars, NEW c \in Conversations
    PROVE  Told(c)
BY DEF threadVars, Told, Unread, Steady, Blocked

\* insert touches its conversation only.
LEMMA InsertTold ==
    ASSUME TypeOK, NEW c \in Conversations, NEW row, NEW u, NEW in,
           insert(c, row, u, in), consents' = consents,
           blocks' = blocks, matches' = matches, NEW e \in Conversations
    PROVE  Told(e)
<1>1. \A d \in Conversations : d # c => Unread(d)
  BY DEF insert, TypeOK, Unread
<1>2. QED
  BY <1>1, OneTold DEF insert

\* EnsureMatch announces what it opens, and opens what was missing.
LEMMA EnsureMatchTold ==
    ASSUME TypeOK, MatchThreadBacked, NEW p,
           conversations' = EnsureMatch(p), Emit(MissingMatch(p)),
           UNCHANGED <<messages, participants, consents>>,
           blocks' = blocks, matches \subseteq matches',
           matches' \subseteq matches \cup {p},
           NEW c \in Conversations
    PROVE  Told(c)
<1>1. CASE c \in MissingMatch(p)
  BY <1>1, EmitAnnounces DEF Told
<1>2. CASE c \notin MissingMatch(p)
  <2>1. Unread(c) /\ Blocked(Members(c))' = Blocked(Members(c))
    BY <1>2 DEF EnsureMatch, Unread, Blocked
  <2>2. CASE Origin(c) = "match" /\ Members(c) = p
    <3>1. CASE Live(conversations[c])
      BY <2>1, <2>2, <3>1 DEF MatchThreadBacked, Told, Steady
    <3>2. CASE ~ Live(conversations[c])
      BY <2>1, <3>2 DEF Unread, Told, Gone
    <3>3. QED
      BY <3>1, <3>2
  <2>3. CASE ~ (Origin(c) = "match" /\ Members(c) = p)
    BY <2>1, <2>3 DEF Told, Steady
  <2>4. QED
    BY <2>2, <2>3
<1>3. QED
  BY <1>1, <1>2

\* ClosePair announces what it closes; the rest stays as it is.
LEMMA ClosePairTold ==
    ASSUME TypeOK, NEW p, NEW dating \in BOOLEAN, ClosePair(p, dating),
           UNCHANGED <<messages, participants, consents>>,
           NEW c \in Conversations,
           Live(conversations[c]) /\ c \notin Closing(p, dating) => Steady(c)
    PROVE  Told(c)
<1>1. CASE c \in Closing(p, dating)
  BY <1>1, EmitAnnounces DEF ClosePair, Told
<1>2. CASE c \notin Closing(p, dating)
  <2>1. Unread(c)
    BY <1>2 DEF ClosePair, Unread
  <2>2. CASE Live(conversations[c])
    BY <1>2, <2>1, <2>2 DEF Told
  <2>3. CASE ~ Live(conversations[c])
    BY <2>1, <2>3 DEF Unread, Told, Gone
  <2>4. QED
    BY <2>2, <2>3
<1>3. QED
  BY <1>1, <1>2

\* A block row of two members is of exactly these two.
LEMMA MembersOfBlock ==
    ASSUME NEW c \in Conversations, NEW u \in Members(c), NEW v \in Members(c),
           u # v
    PROVE  Members(c) = Pair(u, v)
BY DEF Conversations, Members, Pairs, Pair

\* Blocks and unmatching are announced where they show.
LEMMA SafetyTold ==
    ASSUME TypeOK, BlockSevers, SafetyNext, NEW c \in Conversations
    PROVE  Told(c)
<1>1. ASSUME NEW u \in Users, NEW v \in Users, Block(u, v) PROVE Told(c)
  <2>1. ASSUME Live(conversations[c]), c \notin Closing(Pair(u, v), FALSE)
        PROVE  Steady(c)
    <3>1. Members(c) # Pair(u, v)
      BY <2>1 DEF Closing
    <3>2. \A x, y \in Members(c) : x # y => <<x, y>> # <<u, v>>
      BY <3>1, MembersOfBlock
    <3>3. blocks' = blocks \cup {<<u, v>>}
      BY <1>1 DEF Block
    <3>4. Blocked(Members(c))' = Blocked(Members(c))
      BY <3>2, <3>3 DEF Blocked, Members
    <3>5. QED
      BY <1>1, <3>1, <3>4 DEF Block, Steady
  <2>2. QED
    BY <1>1, <2>1, ClosePairTold DEF Block
<1>2. ASSUME NEW u \in Users, NEW v \in Users, Unblock(u, v) PROVE Told(c)
  <2>1. Unread(c) /\ blocks' = blocks \ {<<u, v>>} /\ matches' = matches
    BY <1>2 DEF Unblock, threadVars, socialVars, Unread
  <2>2. CASE Members(c) = Pair(u, v)
    BY <1>2, <2>1, <2>2 DEF Unblock, BlockSevers, Unread, Told, Gone
  <2>3. CASE Members(c) # Pair(u, v)
    <3>1. \A x, y \in Members(c) : x # y => <<x, y>> # <<u, v>>
      BY <2>3, MembersOfBlock
    <3>2. \A x, y \in Members(c) : x # y =>
              (<<x, y>> \in blocks' <=> <<x, y>> \in blocks)
      BY <2>1, <3>1
    <3>3. Blocked(Members(c))' = Blocked(Members(c))
      BY <3>2 DEF Blocked, Members
    <3>4. QED
      BY <2>1, <3>3 DEF Told, Steady
  <2>4. QED
    BY <2>2, <2>3
<1>3. ASSUME NEW u \in Users, NEW p \in Pairs, Unmatch(u, p) PROVE Told(c)
  <2>1. ASSUME Live(conversations[c]), c \notin Closing(p, TRUE)
        PROVE  Steady(c)
    <3>1. ~ (Origin(c) = "match" /\ Members(c) = p)
      BY <2>1 DEF Closing
    <3>2. QED
      BY <1>3, <3>1 DEF Unmatch, Steady, Blocked
  <2>2. QED
    BY <1>3, <2>1, ClosePairTold DEF Unmatch
<1>4. ASSUME NEW u \in Users, NEW p \in Pairs, LateUnmatch(u, p)
      PROVE  Told(c)
  <2>1. Steady(c)
    BY <1>4 DEF LateUnmatch, Steady, Blocked
  <2>2. QED
    BY <1>4, <2>1, ClosePairTold DEF LateUnmatch
<1>5. ASSUME NEW u \in Users, Resolve(u) PROVE Told(c)
  BY <1>5, NothingTold DEF Resolve, socialVars
<1>6. QED
  BY <1>1, <1>2, <1>3, <1>4, <1>5 DEF SafetyNext

\* Likes are announced where they make a match.
LEMMA SocialTold ==
    ASSUME TypeOK, MatchThreadBacked, SocialNext, NEW c \in Conversations
    PROVE  Told(c)
<1>1. ASSUME NEW u \in Users, NEW v \in Users, Pass(u, v) PROVE Told(c)
  BY <1>1, NothingTold DEF Pass
<1>2. ASSUME NEW u \in Users, NEW v \in Users, Like(u, v) PROVE Told(c)
  <2>1. CASE LikeUnanswered(u, v)
    BY <1>2, <2>1, NothingTold DEF Like, LikeUnanswered, threadVars
  <2>2. CASE createMatch(u, v)
    BY <1>2, <2>2, EnsureMatchTold DEF Like, createMatch
  <2>3. QED
    BY <1>2, <2>1, <2>2 DEF Like
<1>3. ASSUME NEW u \in Users, NEW like \in likes, RemoveLike(u, like)
      PROVE  Told(c)
  BY <1>3, NothingTold DEF RemoveLike
<1>4. QED
  BY <1>1, <1>2, <1>3 DEF SocialNext

\* What chat does to a conversation is announced to both of its members.
LEMMA ChatTold ==
    ASSUME TypeOK, MatchThreadBacked, NEW e \in Conversations,
           OpenNext \/ ThreadNext \/ InboxNext \/ QueueNext
    PROVE  Told(e)
<1>1. ASSUME NEW u \in Users, NEW v \in Users, OpenMatch(u, v) PROVE Told(e)
  BY <1>1, EnsureMatchTold DEF OpenMatch, socialVars
<1>2. ASSUME NEW u \in Users, NEW v \in Users, NEW in \in SendInput,
             OpenMatchWith(u, v, in) \/ OpenRequest(u, v, in)
      PROVE  Told(e)
  <2>1. \E c \in Conversations : \E row : insert(c, row, u, in)
    BY <1>2 DEF OpenMatchWith, OpenRequest
  <2>2. QED
    BY <1>2, <2>1, InsertTold DEF OpenMatchWith, OpenRequest, socialVars
<1>3. ASSUME NEW u \in Users, NEW c \in Conversations, NEW in \in SendInput,
             Send(u, c, in)
      PROVE  Told(e)
  BY <1>3, InsertTold DEF Send, socialVars
<1>4. ASSUME NEW u \in Users, NEW c \in Conversations, NEW n, NEW read,
             Receipt(u, c, n, read)
      PROVE  Told(e)
  <2>1. \A d \in Conversations : d # c => Unread(d)
    BY <1>4 DEF Receipt, TypeOK, Unread
  <2>2. QED
    BY <1>4, <2>1, OneTold DEF Receipt, socialVars
<1>5. ASSUME NEW u \in Users, NEW c \in Conversations, NEW s, Answer(u, c, s)
      PROVE  Told(e)
  <2>1. \A d \in Conversations : d # c => Unread(d)
    BY <1>5 DEF Answer, TypeOK, Unread
  <2>2. QED
    BY <1>5, <2>1, OneTold DEF Answer, socialVars
<1>6. ASSUME NEW u \in Users, NEW c \in Conversations, Reveal(u, c)
      PROVE  Told(e)
  <2>1. \A d \in Conversations : d # c => Unread(d)
    BY <1>6 DEF Reveal, TypeOK, Unread
  <2>2. QED
    BY <1>6, <2>1, OneTold DEF Reveal, socialVars
<1>7. ASSUME NEW u \in Users, NEW c \in Conversations, NEW value,
             Mute(u, c, value) \/ Archive(u, c, value)
      PROVE  Told(e)
  <2>1. \A d \in Conversations : d # c => Unread(d)
    BY <1>7 DEF Mute, Archive, TypeOK, Unread
  <2>2. QED
    BY <1>7, <2>1, OneTold DEF Mute, Archive, socialVars
<1>8. ASSUME NEW u \in Users, JoinQueue(u) \/ LeaveQueue(u) PROVE Told(e)
  BY <1>8, NothingTold DEF JoinQueue, LeaveQueue, socialVars
<1>9. ASSUME NEW u \in Users, NEW v \in Users, PairAnonymously(u, v)
      PROVE  Told(e)
  <2> DEFINE c == <<Pair(u, v), "anonymous">>
  <2>1. c \in Conversations /\ Emit({c})
    BY <1>9 DEF PairAnonymously
  <2>2. \A d \in Conversations : d # c => Unread(d)
    BY <1>9 DEF PairAnonymously, TypeOK, Unread
  <2> HIDE DEF c
  <2>3. QED
    BY <1>9, <2>1, <2>2, OneTold DEF PairAnonymously, socialVars
<1>10. QED
  BY <1>1, <1>2, <1>3, <1>4, <1>5, <1>6, <1>7, <1>8, <1>9
     DEF OpenNext, ThreadNext, InboxNext, QueueNext

\* Whatever a member's inbox shows of a conversation, the other person's status
\* included, changes together with an event in that member's feed, unless the
\* other person is suspended in that step: ChangesAreAnnounced.
THEOREM ChangesAlwaysAnnounced == Spec => ChangesAreAnnounced
<1> DEFINE Shown == \A c \in Conversations : \A u \in Members(c) :
                        InboxRow(u, c)' # InboxRow(u, c) =>
                            c \in unseen'[u] \/ PeerSuspended(u, c)
<1>1. TypeOK /\ BlockSevers /\ MatchThreadBacked /\ [Next]_vars => [Shown]_vars
  <2> SUFFICES ASSUME TypeOK, BlockSevers, MatchThreadBacked, Next,
                      NEW c \in Conversations, NEW u \in Members(c),
                      InboxRow(u, c)' # InboxRow(u, c)
               PROVE  c \in unseen'[u] \/ PeerSuspended(u, c)
    OBVIOUS
  <2>1. Told(c)
    <3>1. CASE FeedNext
      BY <3>1, NothingTold DEF FeedNext, Events, socialVars
    <3>2. CASE ProfileNext
      BY <3>2, NothingTold DEF ProfileNext, SetHidden, socialVars
    <3>3. QED
      BY <3>1, <3>2, SocialTold, SafetyTold, ChatTold DEF Next
  <2>2. CASE status' = status
    BY <2>1, <2>2, ToldShows
  <2>3. CASE \E w \in Users : Resolve(w)
    BY <2>3, ResolveShows
  <2>4. QED
    BY <2>2, <2>3, OnlyResolveSuspends
<1>2. QED
  BY <1>1, TypeCorrect, BlockAlwaysSevers, MatchThreadAlwaysBacked, PTL
     DEF Spec, ChangesAreAnnounced
=============================================================================

---------------------------- MODULE VeloraProofs ----------------------------
(***************************************************************************)
(* Every step of the services keeps the types of the tables.  A block      *)
(* severs a pair, a live match conversation is backed by a match, and two  *)
(* likes never wait for each other; who reached out can be seen, and who   *)
(* ended a match is not shown again: for any number of accounts.           *)
(***************************************************************************)
EXTENDS Visibility, TLAPS

\* chatlog.Pair of two accounts is a pair.
LEMMA PairIsPair ==
    ASSUME NEW u \in Users, NEW v \in Users, u # v
    PROVE  Pair(u, v) \in Pairs
BY DEF Pair, Pairs

\* An edge between two accounts has the type of likes, passes and blocks.
LEMMA EdgeIsEdge ==
    ASSUME NEW u \in Users, NEW v \in Users, u # v
    PROVE  <<u, v>> \in Edges
BY DEF Edges

\* The rows that services insert have the type of the table.
LEMMA RowTypes ==
    /\ NoRow \in Row
    /\ \A u \in Users \cup {Nobody}, s \in {"pending", "open"} :
           NewRow(s, u) \in Row
BY DEF NoRow, NewRow, Row

\* Emit names conversations in the feeds of accounts.
LEMMA EmitType ==
    ASSUME TypeOK, NEW cs \in SUBSET Conversations, Emit(cs)
    PROVE  unseen' \in [Users -> SUBSET Conversations]
BY DEF TypeOK, Emit

\* EnsureMatch keeps the type of the conversations table.
LEMMA EnsureMatchType ==
    ASSUME TypeOK, NEW p
    PROVE  /\ MissingMatch(p) \subseteq Conversations
           /\ EnsureMatch(p) \in [Conversations -> Row]
BY RowTypes DEF TypeOK, MissingMatch, EnsureMatch

\* ClosePair keeps the types of the two tables it writes.
LEMMA ClosePairType ==
    ASSUME TypeOK, NEW p, NEW d, ClosePair(p, d)
    PROVE  /\ conversations' \in [Conversations -> Row]
           /\ unseen' \in [Users -> SUBSET Conversations]
<1>1. Closing(p, d) \subseteq Conversations
  BY DEF Closing
<1>2. conversations' \in [Conversations -> Row]
  BY DEF TypeOK, ClosePair, Row
<1>3. QED
  BY <1>1, <1>2, EmitType DEF ClosePair

\* insert keeps the types of the tables it writes.
LEMMA InsertType ==
    ASSUME TypeOK, NEW c \in Conversations, NEW row \in Row, NEW u \in Users,
           NEW in \in SendInput, insert(c, row, u, in)
    PROVE  /\ conversations' \in [Conversations -> Row]
           /\ messages' \in [Conversations -> SUBSET Message]
           /\ participants' \in [Conversations -> [Users -> Participant]]
           /\ unseen' \in [Users -> SUBSET Conversations]
<1>1. NewMessage(c, row, u, in) \in Message
  BY StoreAssumption DEF NewMessage, Message, SendInput, Row
<1>2. messages' \in [Conversations -> SUBSET Message]
  BY <1>1 DEF TypeOK, insert
<1>3. conversations' \in [Conversations -> Row]
  <2>1. [row EXCEPT !.last_seq = row.last_seq + 1] \in Row
    BY DEF Row
  <2>2. \E r \in Row : conversations' = [conversations EXCEPT ![c] = r]
    BY <2>1 DEF insert
  <2>3. QED
    BY <2>2 DEF TypeOK
<1>4. participants' \in [Conversations -> [Users -> Participant]]
  <2>1. \A v \in Users :
            [participants[c][v] EXCEPT !.archived = FALSE] \in Participant
    <3>1. \A v \in Users : participants[c][v] \in Participant
      BY DEF TypeOK
    <3>2. QED
      BY <3>1 DEF Participant
  <2>2. [v \in Users |-> [participants[c][v] EXCEPT !.archived = FALSE]]
            \in [Users -> Participant]
    BY <2>1
  <2>3. QED
    BY <2>2 DEF TypeOK, insert
<1>5. QED
  BY <1>2, <1>3, <1>4, EmitType DEF insert

\* Advancing a receipt yields a participant row.
LEMMA ReceiptType ==
    ASSUME NEW p \in Participant, NEW n \in Nat
    PROVE  Read(p, n) \in Participant /\ Delivered(p, n) \in Participant
BY DEF Read, Delivered, Participant, Greatest

\* Updating one participant row keeps the type of the table.
LEMMA ParticipantType ==
    ASSUME TypeOK, NEW c \in Conversations, NEW u \in Users,
           NEW r \in Participant
    PROVE  [participants EXCEPT ![c][u] = r]
               \in [Conversations -> [Users -> Participant]]
BY DEF TypeOK

\* Muting and archiving yield a participant row.
LEMMA MutedType ==
    ASSUME TypeOK, NEW c \in Conversations, NEW u \in Users,
           NEW value \in BOOLEAN
    PROVE  /\ [participants EXCEPT ![c][u].muted = value]
                  \in [Conversations -> [Users -> Participant]]
           /\ [participants EXCEPT ![c][u].archived = value]
                  \in [Conversations -> [Users -> Participant]]
<1>1. participants[c][u] \in Participant
  BY DEF TypeOK
<1>2. /\ [participants[c][u] EXCEPT !.muted = value] \in Participant
      /\ [participants[c][u] EXCEPT !.archived = value] \in Participant
  BY <1>1 DEF Participant
<1>3. QED
  BY <1>2, ParticipantType

\* Every service keeps the tables well typed.
THEOREM TypeInit == Init => TypeOK
<1>1. NewParticipant \in Participant
  BY DEF NewParticipant, Participant
<1>2. QED
  BY <1>1, RowTypes DEF Init, TypeOK

\* Liking, passing and removing likes keep every type.
LEMMA SocialType == ASSUME TypeOK, SocialNext PROVE TypeOK'
<1>1. ASSUME NEW u \in Users, NEW v \in Users, Pass(u, v) PROVE TypeOK'
  BY <1>1, EdgeIsEdge DEF Pass, TypeOK, threadVars
<1>2. ASSUME NEW u \in Users, NEW v \in Users, Like(u, v) PROVE TypeOK'
  <2>1. CASE LikeUnanswered(u, v)
    BY <1>2, <2>1, EdgeIsEdge DEF Like, LikeUnanswered, TypeOK
  <2>2. CASE createMatch(u, v)
    <3>1. conversations' \in [Conversations -> Row]
      BY <2>2, EnsureMatchType DEF createMatch
    <3>2. unseen' \in [Users -> SUBSET Conversations]
      BY <2>2, EnsureMatchType, EmitType DEF createMatch
    <3>3. matches' \subseteq Pairs
      BY <1>2, <2>2, PairIsPair DEF Like, createMatch, TypeOK
    <3>4. /\ likes' \subseteq Edges
          /\ notifications' \subseteq Users \X (Users \cup {Nobody})
      BY <2>2 DEF createMatch, TypeOK
    <3>5. QED
      BY <1>2, <3>1, <3>2, <3>3, <3>4 DEF Like, TypeOK
  <2>3. QED
    BY <1>2, <2>1, <2>2 DEF Like
<1>3. ASSUME NEW u \in Users, NEW like \in likes, RemoveLike(u, like)
      PROVE  TypeOK'
  BY <1>3 DEF RemoveLike, TypeOK, threadVars
<1>4. QED
  BY <1>1, <1>2, <1>3 DEF SocialNext

\* Blocks, unmatching and suspensions keep every type.
LEMMA SafetyType == ASSUME TypeOK, SafetyNext PROVE TypeOK'
<1>1. ASSUME NEW u \in Users, NEW v \in Users, Block(u, v) PROVE TypeOK'
  <2>1. /\ conversations' \in [Conversations -> Row]
        /\ unseen' \in [Users -> SUBSET Conversations]
    BY <1>1, ClosePairType DEF Block
  <2>2. QED
    BY <1>1, <2>1, EdgeIsEdge DEF Block, TypeOK
<1>2. ASSUME NEW u \in Users, NEW v \in Users, Unblock(u, v) PROVE TypeOK'
  BY <1>2 DEF Unblock, TypeOK, socialVars, threadVars
<1>3. ASSUME NEW u \in Users, NEW p \in Pairs, Unmatch(u, p) PROVE TypeOK'
  <2>1. /\ conversations' \in [Conversations -> Row]
        /\ unseen' \in [Users -> SUBSET Conversations]
    BY <1>3, ClosePairType DEF Unmatch
  <2>2. p \subseteq Users
    BY DEF Pairs
  <2>3. passes' \subseteq Edges
    BY <1>3, <2>2 DEF Unmatch, TypeOK, Edges
  <2>4. QED
    BY <1>3, <2>1, <2>3 DEF Unmatch, TypeOK
<1>5. ASSUME NEW u \in Users, NEW p \in Pairs, LateUnmatch(u, p) PROVE TypeOK'
  <2>1. /\ conversations' \in [Conversations -> Row]
        /\ unseen' \in [Users -> SUBSET Conversations]
    BY <1>5, ClosePairType DEF LateUnmatch
  <2>2. p \subseteq Users
    BY DEF Pairs
  <2>3. passes' \subseteq Edges
    BY <1>5, <2>2 DEF LateUnmatch, TypeOK, Edges
  <2>4. QED
    BY <1>5, <2>1, <2>3 DEF LateUnmatch, TypeOK
<1>4. ASSUME NEW u \in Users, Resolve(u) PROVE TypeOK'
  BY <1>4 DEF Resolve, TypeOK, socialVars, threadVars
<1>6. QED
  BY <1>1, <1>2, <1>3, <1>4, <1>5 DEF SafetyNext

\* Opening a conversation keeps every type.
LEMMA OpenType == ASSUME TypeOK, OpenNext PROVE TypeOK'
<1>1. ASSUME NEW u \in Users, NEW v \in Users, OpenMatch(u, v) PROVE TypeOK'
  <2>1. /\ conversations' \in [Conversations -> Row]
        /\ unseen' \in [Users -> SUBSET Conversations]
    BY <1>1, EnsureMatchType, EmitType DEF OpenMatch
  <2>2. QED
    BY <1>1, <2>1 DEF OpenMatch, TypeOK, socialVars
<1>2. ASSUME NEW u \in Users, NEW v \in Users, NEW in \in SendInput,
             OpenMatchWith(u, v, in)
      PROVE  TypeOK'
  <2> DEFINE c == <<Pair(u, v), "match">>
             row == EnsureMatch(Pair(u, v))[c]
  <2>1. c \in Conversations /\ insert(c, row, u, in)
    BY <1>2 DEF OpenMatchWith
  <2>2. row \in Row
    BY <2>1, EnsureMatchType
  <2> HIDE DEF c, row
  <2>3. QED
    BY <1>2, <2>1, <2>2, InsertType DEF OpenMatchWith, TypeOK, socialVars
<1>3. ASSUME NEW u \in Users, NEW v \in Users, NEW in \in SendInput,
             OpenRequest(u, v, in)
      PROVE  TypeOK'
  <2> DEFINE c == <<Pair(u, v), "request">>
             row == RequestRow(c, u)
  <2>1. c \in Conversations /\ insert(c, row, u, in)
    BY <1>3 DEF OpenRequest
  <2>2. row \in Row
    BY <2>1, RowTypes DEF RequestRow, TypeOK
  <2> HIDE DEF c, row
  <2>3. QED
    BY <1>3, <2>1, <2>2, InsertType DEF OpenRequest, TypeOK, socialVars
<1>4. QED
  BY <1>1, <1>2, <1>3 DEF OpenNext

\* Messages, receipts and answers keep every type.
LEMMA ThreadType == ASSUME TypeOK, ThreadNext PROVE TypeOK'
<1>1. ASSUME NEW u \in Users, NEW c \in Conversations, NEW in \in SendInput,
             Send(u, c, in)
      PROVE  TypeOK'
  <2>1. conversations[c] \in Row
    BY DEF TypeOK
  <2>2. QED
    BY <1>1, <2>1, InsertType DEF Send, TypeOK, socialVars
<1>2. ASSUME NEW u \in Users, NEW c \in Conversations,
             NEW n \in 0..MaxMessages, NEW read \in BOOLEAN,
             Receipt(u, c, n, read)
      PROVE  TypeOK'
  <2>1. n \in Nat /\ participants[c][u] \in Participant
    BY StoreAssumption DEF TypeOK
  <2>2. PICK r \in Participant : participants' = [participants EXCEPT ![c][u] = r]
    BY <1>2, <2>1, ReceiptType DEF Receipt
  <2>3. participants' \in [Conversations -> [Users -> Participant]]
    BY <2>2, ParticipantType
  <2>4. unseen' \in [Users -> SUBSET Conversations]
    BY <1>2, EmitType DEF Receipt
  <2>5. QED
    BY <1>2, <2>3, <2>4 DEF Receipt, TypeOK, socialVars
<1>3. ASSUME NEW u \in Users, NEW c \in Conversations,
             NEW state \in {"open", "declined"}, Answer(u, c, state)
      PROVE  TypeOK'
  <2> conversations[c] \in Row
    BY DEF TypeOK
  <2>1. [conversations[c] EXCEPT !.state = state] \in Row
    BY DEF Row
  <2>2. conversations' \in [Conversations -> Row]
    BY <1>3, <2>1 DEF Answer, TypeOK
  <2>3. unseen' \in [Users -> SUBSET Conversations]
    BY <1>3, EmitType DEF Answer
  <2>4. QED
    BY <1>3, <2>2, <2>3 DEF Answer, TypeOK, socialVars
<1>4. QED
  BY <1>1, <1>2, <1>3 DEF ThreadNext

\* Reveals, muting and archiving keep every type.
LEMMA InboxType == ASSUME TypeOK, InboxNext PROVE TypeOK'
<1>1. ASSUME NEW u \in Users, NEW c \in Conversations, Reveal(u, c)
      PROVE  TypeOK'
  <2> conversations[c] \in Row
    BY DEF TypeOK
  <2>1. [conversations[c] EXCEPT !.revealed = BothConsented(consents'[c])]
            \in Row
    BY DEF Row, BothConsented
  <2>2. conversations' \in [Conversations -> Row]
    BY <1>1, <2>1 DEF Reveal, TypeOK
  <2>3. unseen' \in [Users -> SUBSET Conversations]
    BY <1>1, EmitType DEF Reveal
  <2>4. QED
    BY <1>1, <2>2, <2>3 DEF Reveal, TypeOK, socialVars
<1>2. ASSUME NEW u \in Users, NEW c \in Conversations, NEW value \in BOOLEAN,
             Mute(u, c, value) \/ Archive(u, c, value)
      PROVE  TypeOK'
  <2>1. participants' \in [Conversations -> [Users -> Participant]]
    <3>1. CASE Mute(u, c, value)
      BY <3>1, MutedType DEF Mute
    <3>2. CASE Archive(u, c, value)
      BY <3>2, MutedType DEF Archive
    <3>3. QED
      BY <1>2, <3>1, <3>2
  <2>2. unseen' \in [Users -> SUBSET Conversations]
    BY <1>2, EmitType DEF Mute, Archive
  <2>3. QED
    BY <1>2, <2>1, <2>2 DEF Mute, Archive, TypeOK, socialVars
<1>3. QED
  BY <1>1, <1>2 DEF InboxNext

\* Anonymous pairing keeps every type.
LEMMA QueueType == ASSUME TypeOK, QueueNext PROVE TypeOK'
<1>1. ASSUME NEW u \in Users, JoinQueue(u) \/ LeaveQueue(u) PROVE TypeOK'
  BY <1>1 DEF JoinQueue, LeaveQueue, TypeOK, socialVars, threadVars
<1>2. ASSUME NEW u \in Users, NEW v \in Users, PairAnonymously(u, v)
      PROVE  TypeOK'
  <2> DEFINE c == <<Pair(u, v), "anonymous">>
  <2>1. c \in Conversations
    BY <1>2, PairIsPair DEF PairAnonymously, Candidates, Conversations
  <2>2. conversations' \in [Conversations -> Row]
    BY <1>2, RowTypes DEF PairAnonymously, TypeOK
  <2>3. unseen' \in [Users -> SUBSET Conversations]
    BY <1>2, <2>1, EmitType DEF PairAnonymously
  <2>4. QED
    BY <1>2, <2>2, <2>3 DEF PairAnonymously, TypeOK, socialVars
<1>3. QED
  BY <1>1, <1>2 DEF QueueNext

\* Every step, and every stuttering step, keeps the types.
LEMMA TypeStep == TypeOK /\ [Next]_vars => TypeOK'
<1> SUFFICES ASSUME TypeOK, [Next]_vars PROVE TypeOK'
  OBVIOUS
<1>1. CASE FeedNext
  BY <1>1 DEF FeedNext, Events, TypeOK, socialVars, threadVars
<1>2. CASE ProfileNext
  BY <1>2 DEF ProfileNext, SetHidden, TypeOK, socialVars, threadVars
<1>3. CASE UNCHANGED vars
  BY <1>3 DEF vars, TypeOK, socialVars, threadVars
<1>4. QED
  BY <1>1, <1>2, <1>3, SocialType, SafetyType, OpenType, ThreadType,
     InboxType, QueueType DEF Next

\* The tables hold rows of their declared types in every reachable state
\* of the services, whatever the accounts, texts and bounds.
THEOREM TypeCorrect == Spec => []TypeOK
BY TypeInit, TypeStep, PTL DEF Spec

----------------------------------------------------------------------------


\* What any step other than a block may add is about pairs that are not
\* blocked, and only a block adds blocks.
AddsUnblocked ==
    /\ blocks' \subseteq blocks
    /\ \A p \in matches' : p \in matches \/ ~ Blocked(p)
    /\ \A u, v \in Users : /\ <<u, v>> \in likes' \ likes =>
                                  ~ Blocked(Pair(u, v))
                           /\ <<u, v>> \in notifications' \ notifications =>
                                  ~ Blocked(Pair(u, v))
    /\ \A c \in Conversations : Live(conversations'[c]) =>
           Live(conversations[c]) \/ ~ Blocked(Members(c))

\* A block row makes its pair a blocked one, in either direction.
LEMMA BlockedPair ==
    ASSUME NEW u \in Users, NEW v \in Users, TypeOK, <<u, v>> \in blocks
    PROVE  Blocked(Pair(u, v))
BY DEF Blocked, Pair, TypeOK, Edges

\* What adds nothing about a blocked pair keeps a block severing it.
LEMMA AddsUnblockedSevers ==
    ASSUME TypeOK, BlockSevers, AddsUnblocked
    PROVE  BlockSevers'
<1> SUFFICES ASSUME NEW u \in Users, NEW v \in Users, <<u, v>> \in blocks'
             PROVE  /\ Pair(u, v) \notin matches'
                    /\ <<u, v>> \notin likes' /\ <<v, u>> \notin likes'
                    /\ <<u, v>> \notin notifications'
                    /\ \A c \in Conversations :
                           Members(c) = Pair(u, v) => ~ Live(conversations'[c])
  BY DEF BlockSevers, Live
<1>1. <<u, v>> \in blocks
  BY DEF AddsUnblocked
<1>2. Blocked(Pair(u, v)) /\ Pair(u, v) = Pair(v, u)
  BY <1>1, BlockedPair DEF Pair
<1>3. QED
  BY <1>1, <1>2 DEF BlockSevers, AddsUnblocked

\* A new row is live when it is opened or pending; no row is not.
LEMMA LiveRows ==
    /\ \A s, q : Live(NewRow(s, q)) <=> s \in {"open", "pending"}
    /\ ~ Live(NoRow)
BY DEF Live, NewRow, NoRow

\* EnsureMatch makes nothing live outside the pair.
LEMMA EnsureMatchLive ==
    ASSUME TypeOK, NEW p, NEW c \in Conversations,
           Live(EnsureMatch(p)[c]), ~ Live(conversations[c])
    PROVE  Members(c) = p
BY DEF EnsureMatch, MissingMatch, Members

\* ClosePair makes nothing live, and nothing it selects stays live.
LEMMA ClosePairLive ==
    ASSUME TypeOK, NEW p, NEW d, ClosePair(p, d), NEW c \in Conversations,
           Live(conversations'[c])
    PROVE  Live(conversations[c]) /\ c \notin Closing(p, d)
<1>1. CASE c \in Closing(p, d)
  <2>1. conversations'[c].state = "closed"
    BY <1>1 DEF ClosePair, TypeOK, Row
  <2>2. QED
    BY <2>1 DEF Live
<1>2. CASE c \notin Closing(p, d)
  BY <1>2 DEF ClosePair
<1>3. QED
  BY <1>1, <1>2

\* A message makes its conversation no more live than access found it.
LEMMA InsertLive ==
    ASSUME TypeOK, NEW c \in Conversations, NEW row \in Row, NEW u, NEW in,
           insert(c, row, u, in), NEW d \in Conversations,
           Live(conversations'[d])
    PROVE  IF d = c THEN Live(row) ELSE Live(conversations[d])
<1>1. conversations' = [conversations EXCEPT
                           ![c] = [row EXCEPT !.last_seq = row.last_seq + 1]]
  BY DEF insert
<1>2. CASE d = c
  <2>1. conversations'[d] = [row EXCEPT !.last_seq = row.last_seq + 1]
    BY <1>1, <1>2 DEF TypeOK
  <2>2. conversations'[d].state = row.state
    BY <2>1 DEF Row
  <2>3. QED
    BY <1>2, <2>2 DEF Live
<1>3. CASE d # c
  BY <1>1, <1>3 DEF TypeOK
<1>4. QED
  BY <1>2, <1>3

\* social adds nothing about a blocked pair.
LEMMA SocialAdds == ASSUME TypeOK, SocialNext PROVE AddsUnblocked
<1>1. ASSUME NEW u \in Users, NEW v \in Users, Pass(u, v)
      PROVE  AddsUnblocked
  BY <1>1 DEF Pass, AddsUnblocked, threadVars
<1>2. ASSUME NEW u \in Users, NEW v \in Users, Like(u, v)
      PROVE  AddsUnblocked
  <2>1. ~ Blocked(Pair(u, v)) /\ Pair(u, v) = Pair(v, u) /\ blocks' = blocks
    BY <1>2 DEF Like, Pair
  <2>2. CASE LikeUnanswered(u, v)
    <3>1. \A x, y \in Users :
              /\ <<x, y>> \in likes' \ likes => x = u /\ y = v
              /\ <<x, y>> \notin notifications' \ notifications
      BY <2>2, StoreAssumption DEF LikeUnanswered
    <3>2. matches' = matches /\ conversations' = conversations
      BY <2>2 DEF LikeUnanswered
    <3>3. QED
      BY <2>1, <3>1, <3>2 DEF AddsUnblocked
  <2>3. CASE createMatch(u, v)
    <3>1. \A x, y \in Users :
              /\ <<x, y>> \notin likes' \ likes
              /\ <<x, y>> \in notifications' \ notifications =>
                     Pair(x, y) = Pair(u, v)
      BY <2>1, <2>3 DEF createMatch
    <3>2. \A p \in matches' : p \in matches \/ p = Pair(u, v)
      BY <2>3 DEF createMatch
    <3>3. \A c \in Conversations : Live(conversations'[c]) =>
              Live(conversations[c]) \/ Members(c) = Pair(u, v)
      BY <2>3, EnsureMatchLive DEF createMatch
    <3>4. QED
      BY <2>1, <3>1, <3>2, <3>3 DEF AddsUnblocked
  <2>4. QED
    BY <1>2, <2>2, <2>3 DEF Like
<1>3. ASSUME NEW u \in Users, NEW like \in likes, RemoveLike(u, like)
      PROVE  AddsUnblocked
  BY <1>3 DEF RemoveLike, AddsUnblocked, threadVars
<1>4. QED
  BY <1>1, <1>2, <1>3 DEF SocialNext

\* Open adds nothing about a blocked pair.
LEMMA OpenAdds == ASSUME TypeOK, OpenNext PROVE AddsUnblocked
<1>1. ASSUME NEW u \in Users, NEW v \in Users, OpenMatch(u, v)
      PROVE  AddsUnblocked
  <2>1. \A c \in Conversations : Live(conversations'[c]) =>
            Live(conversations[c]) \/ Members(c) = Pair(u, v)
    BY <1>1, EnsureMatchLive DEF OpenMatch
  <2>2. QED
    BY <1>1, <2>1 DEF OpenMatch, CanOpen, AddsUnblocked, socialVars
<1>2. ASSUME NEW u \in Users, NEW v \in Users, NEW in \in SendInput,
             OpenMatchWith(u, v, in)
      PROVE  AddsUnblocked
  <2> DEFINE c == <<Pair(u, v), "match">>
             row == EnsureMatch(Pair(u, v))[c]
  <2>1. c \in Conversations /\ insert(c, row, u, in)
    BY <1>2 DEF OpenMatchWith
  <2>2. row \in Row
    BY <2>1, EnsureMatchType
  <2>3. Members(c) = Pair(u, v)
    BY DEF Members
  <2> HIDE DEF c, row
  <2>4. \A d \in Conversations : Live(conversations'[d]) =>
            Live(conversations[d]) \/ Members(d) = Pair(u, v)
    BY <2>1, <2>2, <2>3, InsertLive
  <2>5. QED
    BY <1>2, <2>4 DEF OpenMatchWith, CanOpen, AddsUnblocked, socialVars
<1>3. ASSUME NEW u \in Users, NEW v \in Users, NEW in \in SendInput,
             OpenRequest(u, v, in)
      PROVE  AddsUnblocked
  <2> DEFINE c == <<Pair(u, v), "request">>
             row == RequestRow(c, u)
  <2>1. c \in Conversations /\ insert(c, row, u, in)
    BY <1>3 DEF OpenRequest
  <2>2. row \in Row
    BY <2>1, RowTypes DEF RequestRow, TypeOK
  <2>3. Members(c) = Pair(u, v)
    BY DEF Members
  <2> HIDE DEF c, row
  <2>4. \A d \in Conversations : Live(conversations'[d]) =>
            Live(conversations[d]) \/ Members(d) = Pair(u, v)
    BY <2>1, <2>2, <2>3, InsertLive
  <2>5. QED
    BY <1>3, <2>4 DEF OpenRequest, CanOpen, AddsUnblocked, socialVars
<1>4. QED
  BY <1>1, <1>2, <1>3 DEF OpenNext

\* Messages, receipts and answers add nothing about a blocked pair.
LEMMA ThreadAdds == ASSUME TypeOK, ThreadNext PROVE AddsUnblocked
<1>1. ASSUME NEW u \in Users, NEW c \in Conversations, NEW in \in SendInput,
             Send(u, c, in)
      PROVE  AddsUnblocked
  <2>1. insert(c, conversations[c], u, in) /\ conversations[c] \in Row
    BY <1>1 DEF Send, TypeOK
  <2>2. \A d \in Conversations : Live(conversations'[d]) =>
            Live(conversations[d])
    BY <2>1, InsertLive
  <2>3. QED
    BY <1>1, <2>2 DEF Send, AddsUnblocked, socialVars
<1>2. ASSUME NEW u \in Users, NEW c \in Conversations, NEW n, NEW read,
             Receipt(u, c, n, read)
      PROVE  AddsUnblocked
  BY <1>2 DEF Receipt, AddsUnblocked, socialVars
<1>3. ASSUME NEW u \in Users, NEW c \in Conversations, NEW state,
             Answer(u, c, state)
      PROVE  AddsUnblocked
  <2>1. \A d \in Conversations : d # c => conversations'[d] = conversations[d]
    BY <1>3 DEF Answer, TypeOK
  <2>2. Live(conversations[c])
    BY <1>3 DEF Answer, Access
  <2>3. QED
    BY <1>3, <2>1, <2>2 DEF Answer, AddsUnblocked, socialVars
<1>4. QED
  BY <1>1, <1>2, <1>3 DEF ThreadNext

\* Inbox actions add nothing about a blocked pair.
LEMMA InboxAdds == ASSUME TypeOK, InboxNext PROVE AddsUnblocked
<1>1. ASSUME NEW u \in Users, NEW c \in Conversations, Reveal(u, c)
      PROVE  AddsUnblocked
  <2>1. \A d \in Conversations : d # c => conversations'[d] = conversations[d]
    BY <1>1 DEF Reveal, TypeOK
  <2>2. Live(conversations[c])
    BY <1>1 DEF Reveal, Access
  <2>3. QED
    BY <1>1, <2>1, <2>2 DEF Reveal, AddsUnblocked, socialVars
<1>2. ASSUME NEW u \in Users, NEW c \in Conversations, NEW value,
             Mute(u, c, value) \/ Archive(u, c, value)
      PROVE  AddsUnblocked
  BY <1>2 DEF Mute, Archive, AddsUnblocked, socialVars
<1>3. QED
  BY <1>1, <1>2 DEF InboxNext

\* Anonymous pairing adds nothing about a blocked pair.
LEMMA QueueAdds == ASSUME TypeOK, QueueNext PROVE AddsUnblocked
<1>1. ASSUME NEW u \in Users, JoinQueue(u) \/ LeaveQueue(u)
      PROVE  AddsUnblocked
  BY <1>1 DEF JoinQueue, LeaveQueue, AddsUnblocked, socialVars, threadVars
<1>2. ASSUME NEW u \in Users, NEW v \in Users, PairAnonymously(u, v)
      PROVE  AddsUnblocked
  <2> DEFINE c == <<Pair(u, v), "anonymous">>
  <2>1. \A d \in Conversations : d # c => conversations'[d] = conversations[d]
    BY <1>2 DEF PairAnonymously, TypeOK
  <2>2. Members(c) = Pair(u, v) /\ ~ Blocked(Pair(u, v))
    BY <1>2 DEF Members, PairAnonymously, Candidates
  <2> HIDE DEF c
  <2>3. QED
    BY <1>2, <2>1, <2>2 DEF PairAnonymously, AddsUnblocked, socialVars
<1>3. QED
  BY <1>1, <1>2 DEF QueueNext

\* The step of a block itself: what it removes is what BlockSevers forbids.
LEMMA BlockStep ==
    ASSUME TypeOK, BlockSevers, NEW u \in Users, NEW v \in Users, Block(u, v)
    PROVE  BlockSevers'
<1> SUFFICES ASSUME NEW x \in Users, NEW y \in Users, <<x, y>> \in blocks'
             PROVE  /\ Pair(x, y) \notin matches'
                    /\ <<x, y>> \notin likes' /\ <<y, x>> \notin likes'
                    /\ <<x, y>> \notin notifications'
                    /\ \A c \in Conversations :
                           Members(c) = Pair(x, y) => ~ Live(conversations'[c])
  BY DEF BlockSevers, Live
<1>1. \A c \in Conversations : Live(conversations'[c]) =>
          Live(conversations[c]) /\ Members(c) # Pair(u, v)
  BY ClosePairLive DEF Block, Closing
<1>2. CASE <<x, y>> \in blocks
  BY <1>1, <1>2 DEF Block, BlockSevers
<1>3. CASE x = u /\ y = v
  BY <1>1, <1>3 DEF Block
<1>4. QED
  BY <1>2, <1>3 DEF Block

\* safety's own steps keep a block severing its pair.
LEMMA SafetySevers ==
    ASSUME TypeOK, BlockSevers, SafetyNext
    PROVE  BlockSevers'
<1>1. ASSUME NEW u \in Users, NEW v \in Users, Unblock(u, v)
      PROVE  AddsUnblocked
  BY <1>1 DEF Unblock, AddsUnblocked, socialVars, threadVars
<1>2. ASSUME NEW u \in Users, NEW p \in Pairs, Unmatch(u, p)
      PROVE  AddsUnblocked
  <2>1. \A c \in Conversations : Live(conversations'[c]) =>
            Live(conversations[c])
    BY <1>2, ClosePairLive DEF Unmatch
  <2>2. QED
    BY <1>2, <2>1 DEF Unmatch, AddsUnblocked
<1>3. ASSUME NEW u \in Users, NEW p \in Pairs, LateUnmatch(u, p)
      PROVE  AddsUnblocked
  <2>1. \A c \in Conversations : Live(conversations'[c]) =>
            Live(conversations[c])
    BY <1>3, ClosePairLive DEF LateUnmatch
  <2>2. QED
    BY <1>3, <2>1 DEF LateUnmatch, AddsUnblocked
<1>4. ASSUME NEW u \in Users, Resolve(u)
      PROVE  AddsUnblocked
  BY <1>4 DEF Resolve, AddsUnblocked, socialVars, threadVars
<1>5. QED
  BY <1>1, <1>2, <1>3, <1>4, BlockStep, AddsUnblockedSevers DEF SafetyNext

\* Every step keeps a block severing its pair.
LEMMA BlockSeversStep ==
    TypeOK /\ BlockSevers /\ [Next]_vars => BlockSevers'
<1> SUFFICES ASSUME TypeOK, BlockSevers, [Next]_vars PROVE BlockSevers'
  OBVIOUS
<1>1. CASE FeedNext \/ ProfileNext \/ UNCHANGED vars
  <2>1. AddsUnblocked
    BY <1>1 DEF FeedNext, Events, ProfileNext, SetHidden, vars, AddsUnblocked,
                socialVars, threadVars
  <2>2. QED
    BY <2>1, AddsUnblockedSevers
<1>2. QED
  BY <1>1, SocialAdds, SafetySevers, OpenAdds, ThreadAdds, InboxAdds,
     QueueAdds, AddsUnblockedSevers DEF Next

\* A block always severs the pair: BlockSevers holds in every reachable state.
THEOREM BlockAlwaysSevers == Spec => []BlockSevers
<1>1. Init => BlockSevers
  BY DEF Init, BlockSevers
<1>2. QED
  BY <1>1, BlockSeversStep, TypeCorrect, PTL DEF Spec

----------------------------------------------------------------------------

\* A step that removes no match and makes no match conversation live but on
\* the strength of one keeps every live match conversation backed.
LEMMA KeepsMatches ==
    ASSUME MatchThreadBacked, matches \subseteq matches',
           \A c \in Conversations :
               Origin(c) = "match" /\ Live(conversations'[c]) =>
                   Live(conversations[c]) \/ Members(c) \in matches'
    PROVE  MatchThreadBacked'
BY DEF MatchThreadBacked, Live

\* social keeps live match conversations backed by a match.
LEMMA SocialBacked ==
    ASSUME TypeOK, MatchThreadBacked, SocialNext
    PROVE  MatchThreadBacked'
<1>1. ASSUME NEW u \in Users, NEW v \in Users, Like(u, v)
      PROVE  MatchThreadBacked'
  <2>1. CASE LikeUnanswered(u, v)
    BY <2>1, KeepsMatches DEF LikeUnanswered
  <2>2. CASE createMatch(u, v)
    <3>1. \A c \in Conversations : Live(conversations'[c]) =>
              Live(conversations[c]) \/ Members(c) \in matches'
      BY <2>2, EnsureMatchLive DEF createMatch
    <3>2. QED
      BY <2>2, <3>1, KeepsMatches DEF createMatch
  <2>3. QED
    BY <1>1, <2>1, <2>2 DEF Like
<1>2. ASSUME NEW u \in Users, NEW v \in Users, Pass(u, v)
      PROVE  MatchThreadBacked'
  BY <1>2, KeepsMatches DEF Pass, threadVars
<1>3. ASSUME NEW u \in Users, NEW like \in likes, RemoveLike(u, like)
      PROVE  MatchThreadBacked'
  BY <1>3, KeepsMatches DEF RemoveLike, threadVars
<1>4. QED
  BY <1>1, <1>2, <1>3 DEF SocialNext

\* Ending a match ends its conversation.
LEMMA SafetyBacked ==
    ASSUME TypeOK, MatchThreadBacked, SafetyNext
    PROVE  MatchThreadBacked'
<1>1. ASSUME NEW p, NEW d, ClosePair(p, d), matches' = matches \ {p}
      PROVE  MatchThreadBacked'
  <2>1. ASSUME NEW c \in Conversations, Origin(c) = "match",
               Live(conversations'[c])
        PROVE  Members(c) \in matches'
    <3>1. Live(conversations[c]) /\ c \notin Closing(p, d)
      BY <1>1, <2>1, ClosePairLive
    <3>2. Members(c) \in matches /\ Members(c) # p
      BY <2>1, <3>1 DEF MatchThreadBacked, Closing
    <3>3. QED
      BY <1>1, <3>2
  <2>2. QED
    BY <2>1 DEF MatchThreadBacked, Live
<1>2. ASSUME NEW u \in Users, NEW v \in Users, Block(u, v)
      PROVE  MatchThreadBacked'
  BY <1>1, <1>2 DEF Block
<1>3. ASSUME NEW u \in Users, NEW p \in Pairs, Unmatch(u, p)
      PROVE  MatchThreadBacked'
  BY <1>1, <1>3 DEF Unmatch
<1>4. ASSUME NEW u \in Users, NEW p \in Pairs, LateUnmatch(u, p)
      PROVE  MatchThreadBacked'
  <2>1. \A c \in Conversations : Live(conversations'[c]) =>
            Live(conversations[c])
    BY <1>4, ClosePairLive DEF LateUnmatch
  <2>2. QED
    BY <1>4, <2>1, KeepsMatches DEF LateUnmatch
<1>5. ASSUME NEW u \in Users, NEW v \in Users, Unblock(u, v) \/ Resolve(u)
      PROVE  MatchThreadBacked'
  BY <1>5, KeepsMatches DEF Unblock, Resolve, socialVars, threadVars
<1>6. QED
  BY <1>2, <1>3, <1>4, <1>5 DEF SafetyNext

\* Open makes a match conversation live only for a match.
LEMMA OpenBacked ==
    ASSUME TypeOK, MatchThreadBacked, OpenNext
    PROVE  MatchThreadBacked'
<1>1. ASSUME NEW u \in Users, NEW v \in Users, OpenMatch(u, v)
      PROVE  MatchThreadBacked'
  <2>1. \A c \in Conversations : Live(conversations'[c]) =>
            Live(conversations[c]) \/ Members(c) \in matches'
    BY <1>1, EnsureMatchLive DEF OpenMatch, socialVars
  <2>2. QED
    BY <1>1, <2>1, KeepsMatches DEF OpenMatch, socialVars
<1>2. ASSUME NEW u \in Users, NEW v \in Users, NEW in \in SendInput,
             OpenMatchWith(u, v, in)
      PROVE  MatchThreadBacked'
  <2> DEFINE c == <<Pair(u, v), "match">>
             row == EnsureMatch(Pair(u, v))[c]
  <2>1. c \in Conversations /\ insert(c, row, u, in)
    BY <1>2 DEF OpenMatchWith
  <2>2. row \in Row
    BY <2>1, EnsureMatchType
  <2>3. Members(c) \in matches /\ matches' = matches
    BY <1>2 DEF OpenMatchWith, Members, socialVars
  <2> HIDE DEF c, row
  <2>4. \A d \in Conversations : Live(conversations'[d]) =>
            Live(conversations[d]) \/ Members(d) \in matches'
    BY <2>1, <2>2, <2>3, InsertLive
  <2>5. QED
    BY <2>3, <2>4, KeepsMatches
<1>3. ASSUME NEW u \in Users, NEW v \in Users, NEW in \in SendInput,
             OpenRequest(u, v, in)
      PROVE  MatchThreadBacked'
  <2> DEFINE c == <<Pair(u, v), "request">>
             row == RequestRow(c, u)
  <2>1. c \in Conversations /\ insert(c, row, u, in)
    BY <1>3 DEF OpenRequest
  <2>2. row \in Row
    BY <2>1, RowTypes DEF RequestRow, TypeOK
  <2>3. Origin(c) # "match" /\ matches' = matches
    BY <1>3 DEF OpenRequest, Origin, socialVars
  <2> HIDE DEF c, row
  <2>4. \A d \in Conversations :
            Origin(d) = "match" /\ Live(conversations'[d]) =>
                Live(conversations[d])
    BY <2>1, <2>2, <2>3, InsertLive
  <2>5. QED
    BY <2>3, <2>4, KeepsMatches
<1>4. QED
  BY <1>1, <1>2, <1>3 DEF OpenNext

\* Messages, receipts and answers keep live match conversations backed.
LEMMA ThreadBacked ==
    ASSUME TypeOK, MatchThreadBacked, ThreadNext \/ InboxNext
    PROVE  MatchThreadBacked'
<1>1. ASSUME NEW u \in Users, NEW c \in Conversations, NEW in \in SendInput,
             Send(u, c, in)
      PROVE  MatchThreadBacked'
  <2>1. insert(c, conversations[c], u, in) /\ conversations[c] \in Row
    BY <1>1 DEF Send, TypeOK
  <2>2. \A d \in Conversations : Live(conversations'[d]) =>
            Live(conversations[d])
    BY <2>1, InsertLive
  <2>3. QED
    BY <1>1, <2>2, KeepsMatches DEF Send, socialVars
<1>2. ASSUME NEW u \in Users, NEW c \in Conversations,
             \/ \E n, read : Receipt(u, c, n, read)
             \/ \E value : Mute(u, c, value) \/ Archive(u, c, value)
      PROVE  MatchThreadBacked'
  BY <1>2, KeepsMatches DEF Receipt, Mute, Archive, socialVars
<1>3. ASSUME NEW u \in Users, NEW c \in Conversations,
             Reveal(u, c) \/ \E state : Answer(u, c, state)
      PROVE  MatchThreadBacked'
  <2>1. \A d \in Conversations : d # c => conversations'[d] = conversations[d]
    BY <1>3 DEF Answer, Reveal, TypeOK
  <2>2. Live(conversations[c]) /\ matches' = matches
    BY <1>3 DEF Answer, Reveal, Access, socialVars
  <2>3. QED
    BY <2>1, <2>2, KeepsMatches
<1>4. QED
  BY <1>1, <1>2, <1>3 DEF ThreadNext, InboxNext

\* Anonymous pairing opens no match conversation.
LEMMA QueueBacked ==
    ASSUME TypeOK, MatchThreadBacked, QueueNext
    PROVE  MatchThreadBacked'
<1>1. ASSUME NEW u \in Users, JoinQueue(u) \/ LeaveQueue(u)
      PROVE  MatchThreadBacked'
  BY <1>1, KeepsMatches DEF JoinQueue, LeaveQueue, socialVars, threadVars
<1>2. ASSUME NEW u \in Users, NEW v \in Users, PairAnonymously(u, v)
      PROVE  MatchThreadBacked'
  <2>1. \A d \in Conversations : Origin(d) = "match" =>
            conversations'[d] = conversations[d]
    BY <1>2 DEF PairAnonymously, TypeOK, Origin
  <2>2. QED
    BY <1>2, <2>1, KeepsMatches DEF PairAnonymously, socialVars
<1>3. QED
  BY <1>1, <1>2 DEF QueueNext

\* Every step keeps live match conversations backed by a match.
LEMMA MatchThreadBackedStep ==
    TypeOK /\ MatchThreadBacked /\ [Next]_vars => MatchThreadBacked'
<1> SUFFICES ASSUME TypeOK, MatchThreadBacked, [Next]_vars
             PROVE  MatchThreadBacked'
  OBVIOUS
<1>1. CASE FeedNext \/ ProfileNext \/ UNCHANGED vars
  BY <1>1, KeepsMatches DEF FeedNext, Events, ProfileNext, SetHidden, vars,
                            socialVars, threadVars
<1>2. QED
  BY <1>1, SocialBacked, SafetyBacked, OpenBacked, ThreadBacked, QueueBacked
     DEF Next

\* A live match conversation always has its match row.
THEOREM MatchThreadAlwaysBacked == Spec => []MatchThreadBacked
<1>1. Init => MatchThreadBacked
  BY DEF Init, MatchThreadBacked, NoRow, Live
<1>2. QED
  BY <1>1, MatchThreadBackedStep, TypeCorrect, PTL DEF Spec

----------------------------------------------------------------------------

\* No step leaves two likes waiting for each other.
LEMMA NoMutualLikesStep ==
    NoMutualLikes /\ [Next]_vars => NoMutualLikes'
<1> SUFFICES ASSUME NoMutualLikes, [Next]_vars PROVE NoMutualLikes'
  OBVIOUS
<1>1. ASSUME likes' \subseteq likes PROVE NoMutualLikes'
  BY <1>1 DEF NoMutualLikes
<1>2. ASSUME NEW u \in Users, NEW v \in Users, Like(u, v)
      PROVE  NoMutualLikes'
  <2>1. CASE LikeUnanswered(u, v)
    BY <1>2, <2>1 DEF Like, LikeUnanswered, Reciprocal, NoMutualLikes
  <2>2. CASE createMatch(u, v)
    BY <2>2, <1>1 DEF createMatch
  <2>3. QED
    BY <1>2, <2>1, <2>2 DEF Like
<1>3. CASE SocialNext
  BY <1>1, <1>2, <1>3 DEF SocialNext, Pass, RemoveLike
<1>4. CASE SafetyNext
  BY <1>1, <1>4 DEF SafetyNext, Block, Unblock, Unmatch, LateUnmatch, Resolve,
                    socialVars
<1>5. CASE OpenNext
  BY <1>1, <1>5 DEF OpenNext, OpenMatch, OpenMatchWith, OpenRequest, socialVars
<1>6. CASE ThreadNext \/ InboxNext
  <2>1. CASE ThreadNext
    BY <1>1, <2>1 DEF ThreadNext, Send, Receipt, Answer, socialVars
  <2>2. CASE InboxNext
    BY <1>1, <2>2 DEF InboxNext, Reveal, Mute, Archive, socialVars
  <2>3. QED
    BY <1>6, <2>1, <2>2
<1>7. CASE QueueNext \/ FeedNext \/ ProfileNext
  BY <1>1, <1>7 DEF QueueNext, JoinQueue, LeaveQueue, PairAnonymously,
                    FeedNext, Events, ProfileNext, SetHidden, socialVars
<1>8. CASE UNCHANGED vars
  BY <1>1, <1>8 DEF vars, socialVars
<1>9. QED
  BY <1>3, <1>4, <1>5, <1>6, <1>7, <1>8 DEF Next

\* No two people ever both wait for the other's answer.
THEOREM LikesNeverMutual == Spec => []NoMutualLikes
<1>1. Init => NoMutualLikes
  BY DEF Init, NoMutualLikes
<1>2. QED
  BY <1>1, NoMutualLikesStep, PTL DEF Spec

----------------------------------------------------------------------------

\* Whoever liked u, or is matched with u, is somebody else whom no block
\* hides from u.
LEMMA ShownUnblocked ==
    ASSUME TypeOK, BlockSevers, NEW u \in Users, NEW v \in Likes(u) \cup Matches(u)
    PROVE  v \in Users /\ v # u /\ ~ Blocked(Pair(u, v))
<1>1. v \in Users /\ v # u /\ Pair(u, v) = Pair(v, u)
  BY DEF Likes, Matches, TypeOK, Edges, Pair
<1>2. <<v, u>> \in likes \/ Pair(u, v) \in matches
  BY DEF Likes, Matches
<1>3. <<u, v>> \notin blocks /\ <<v, u>> \notin blocks
  BY <1>1, <1>2 DEF BlockSevers
<1>4. QED
  BY <1>1, <1>3 DEF Blocked, Pair

\* Where no block hides a person from those they reached out to, they can be
\* looked at there, whatever the incognito switches say.
LEMMA ReachedOutShown == TypeOK /\ BlockSevers => ReachedOutIsVisible
<1> SUFFICES ASSUME TypeOK, BlockSevers, NEW incognito \in SUBSET Users,
                    NEW u \in Users, NEW v \in Likes(u) \cup Matches(u)
             PROVE  v \in Visible(incognito, u) <=> v \notin hidden /\ Active(v)
  BY ShownUnblocked DEF ReachedOutIsVisible, LoadMany
<1>1. IncognitoVisible(incognito, u, v)
  BY DEF IncognitoVisible, Likes, Matches
<1>2. QED
  BY <1>1, ShownUnblocked DEF Visible

\* Whoever reached out is shown to the person they reached out to.
THEOREM ReachedOutAlwaysVisible == Spec => []ReachedOutIsVisible
BY ReachedOutShown, TypeCorrect, BlockAlwaysSevers, PTL

\* A step that ends a match blocks the pair or passes it, both ways.
LEMMA EndedHow ==
    ASSUME TypeOK, Next, NEW p \in Pairs, p \in matches, p \notin matches'
    PROVE  \/ \E u, v \in Users : u # v /\ p = Pair(u, v) /\ <<u, v>> \in blocks'
           \/ \A u, v \in p : u # v => <<u, v>> \in passes'
<1>1. CASE SafetyNext
  <2>1. ASSUME NEW u \in Users, NEW v \in Users, Block(u, v)
        PROVE  u # v /\ p = Pair(u, v) /\ <<u, v>> \in blocks'
    BY <2>1 DEF Block
  <2>2. ASSUME NEW u \in Users, NEW q \in Pairs, Unmatch(u, q)
        PROVE  \A x, y \in p : x # y => <<x, y>> \in passes'
    BY <2>2 DEF Unmatch
  <2>3. QED
    BY <1>1, <2>1, <2>2 DEF SafetyNext, Unblock, LateUnmatch, Resolve, socialVars
<1>2. CASE SocialNext
  BY <1>2 DEF SocialNext, Pass, Like, LikeUnanswered, createMatch, RemoveLike
<1>3. CASE OpenNext
  BY <1>3 DEF OpenNext, OpenMatch, OpenMatchWith, OpenRequest, socialVars
<1>4. CASE ThreadNext
  BY <1>4 DEF ThreadNext, Send, Receipt, Answer, socialVars
<1>5. CASE InboxNext
  BY <1>5 DEF InboxNext, Reveal, Mute, Archive, socialVars
<1>6. CASE QueueNext
  BY <1>6 DEF QueueNext, JoinQueue, LeaveQueue, PairAnonymously, socialVars
<1>7. CASE FeedNext \/ ProfileNext
  BY <1>7 DEF FeedNext, Events, ProfileNext, SetHidden, socialVars
<1>8. QED
  BY <1>1, <1>2, <1>3, <1>4, <1>5, <1>6, <1>7 DEF Next

\* Whoever ended a match, by an unmatch or a block, and the person it was
\* with are not put back into each other's feeds by it.
THEOREM EndedMatchesStayOut == Spec => EndedMatchStaysOut
<1> DEFINE Out == \A u, v \in Users :
                      Pair(u, v) \in matches /\ Pair(u, v) \notin matches' =>
                          v \notin FeedCandidates({}, u)'
<1>1. TypeOK /\ [Next]_vars => [Out]_vars
  <2> SUFFICES ASSUME TypeOK, Next, NEW u \in Users, NEW v \in Users,
                      Pair(u, v) \in matches, Pair(u, v) \notin matches'
               PROVE  v \notin FeedCandidates({}, u)'
    OBVIOUS
  <2>1. Pair(u, v) \in Pairs
    BY DEF TypeOK
  <2>2. CASE u = v
    BY <2>2 DEF FeedCandidates, Visible
  <2>3. CASE u # v
    <3>1. CASE \E x, y \in Users : /\ x # y /\ Pair(u, v) = Pair(x, y)
                                   /\ <<x, y>> \in blocks'
      <4>1. Blocked(Pair(u, v))'
        BY <3>1 DEF Blocked, Pair
      <4>2. QED
        BY <4>1 DEF FeedCandidates, Visible
    <3>2. CASE \A x, y \in Pair(u, v) : x # y => <<x, y>> \in passes'
      BY <2>3, <3>2 DEF Pair, FeedCandidates
    <3>3. QED
      BY <2>1, <3>1, <3>2, EndedHow
  <2>4. QED
    BY <2>2, <2>3
<1>2. QED
  BY <1>1, TypeCorrect, PTL DEF Spec, EndedMatchStaysOut
============================================================================

--------------------------- MODULE RealtimeProofs ---------------------------
(***************************************************************************)
(* Slots are bounded and given back, a ticket opens one socket, and no     *)
(* wake-up is lost: for any number of accounts, sockets and tickets, any   *)
(* limits and any page.                                                    *)
(***************************************************************************)
EXTENDS Realtime, FiniteSetTheorems, TLAPS

Holding(s) == socket[s].pc = "registered" \/ Serving(s)

ClientsHold == clients = {s \in Sockets : Holding(s)}

WithinLimits ==
    /\ IsFiniteSet(clients)
    /\ Cardinality(clients) <= Total
    /\ \A u \in Accounts :
           Cardinality({s \in clients : User(s) = u}) <= PerUser

\* A handler past its hello frame has deleted its ticket.
TicketsSpent ==
    \A s \in Sockets :
        /\ socket[s].pc = "idle" <=> socket[s].ticket = NoTicket
        /\ socket[s].ticket # NoTicket => tickets[socket[s].ticket] = "gone"

SlotsInv == ClientsHold /\ WithinLimits /\ TicketsSpent /\ TicketOnce

IInv == TypeOK /\ SlotsInv

----------------------------------------------------------------------------

\* The hub's signal puts one wake-up into channels that have room for it.
LEMMA SignalledKeeps ==
    ASSUME TypeOK, NEW us
    PROVE  /\ Signalled(us) \in [Sockets -> Socket]
           /\ \A s \in Sockets : /\ Signalled(us)[s].pc = socket[s].pc
                                 /\ Signalled(us)[s].ticket = socket[s].ticket
<1>1. ASSUME NEW s \in Sockets, Room(s)
      PROVE  [socket[s] EXCEPT !.wake = @ + 1] \in Socket
  <2>1. socket[s] \in Socket
    BY DEF TypeOK
  <2>2. socket[s].wake + 1 \in 0..1
    BY <2>1, <1>1 DEF Socket, Room
  <2>3. QED
    BY <2>1, <2>2 DEF Socket
<1>2. Signalled(us) \in [Sockets -> Socket]
  BY <1>1 DEF Signalled, TypeOK
<1>3. ASSUME NEW s \in Sockets
      PROVE  /\ Signalled(us)[s].pc = socket[s].pc
             /\ Signalled(us)[s].ticket = socket[s].ticket
  <2>1. socket[s] \in Socket
    BY DEF TypeOK
  <2>2. QED
    BY <2>1 DEF Signalled, Socket
<1>4. QED
  BY <1>2, <1>3

\* Closing connections touches nothing but the connections.
LEMMA ClosedKeeps ==
    ASSUME TypeOK, NEW us
    PROVE  /\ Closed(us) \in [Sockets -> Socket]
           /\ \A s \in Sockets : /\ Closed(us)[s].pc = socket[s].pc
                                 /\ Closed(us)[s].ticket = socket[s].ticket
<1>1. \A s \in Sockets : socket[s] \in Socket
  BY DEF TypeOK
<1>2. \A s \in Sockets : [socket[s] EXCEPT !.open = FALSE] \in Socket
  BY <1>1 DEF Socket
<1>3. QED
  BY <1>1, <1>2 DEF Closed, Socket

\* What the deferred calls of a handler leave behind is a socket.
LEMMA ReturnedSocket ==
    ASSUME TypeOK, NEW s \in Sockets
    PROVE  Returned(s) \in Socket
BY DEF TypeOK, Socket, Returned

\* A step that moves no handler into or out of its slot, and brings no spent
\* ticket back, keeps the invariant.
LEMMA Unmoved ==
    ASSUME TypeOK, SlotsInv, clients' = clients, owner' = owner,
           \A s \in Sockets :
               /\ Holding(s)' <=> Holding(s)
               /\ socket'[s].pc = "idle" <=> socket[s].pc = "idle"
               /\ socket'[s].ticket = socket[s].ticket,
           \A k \in Tickets : tickets[k] = "gone" => tickets'[k] = "gone"
    PROVE  SlotsInv'
<1>1. ClientsHold'
  BY DEF SlotsInv, ClientsHold
<1>2. WithinLimits'
  <2>1. clients \subseteq Sockets
    BY DEF SlotsInv, ClientsHold
  <2>2. \A s \in clients : User(s)' = User(s)
    BY <2>1 DEF User
  <2>3. \A u \in Accounts :
            {s \in clients : User(s) = u}' = {s \in clients : User(s) = u}
    BY <2>2
  <2>4. QED
    BY <2>3 DEF SlotsInv, WithinLimits
<1>3. TicketsSpent'
  <2>1. \A s \in Sockets : socket[s].ticket \in Tickets \cup {NoTicket}
    BY DEF TypeOK, Socket
  <2>2. QED
    BY <2>1 DEF SlotsInv, TicketsSpent
<1>4. TicketOnce'
  BY DEF SlotsInv, TicketOnce
<1>5. QED
  BY <1>1, <1>2, <1>3, <1>4 DEF SlotsInv

----------------------------------------------------------------------------

\* No sockets, no slots (Hub and the empty tables).
LEMMA InitIInv == Init => IInv
<1> SUFFICES ASSUME Init PROVE IInv
  OBVIOUS
<1>1. TypeOK
  <2>1. [pc |-> "idle", more |-> FALSE, ticket |-> NoTicket, after |-> 0,
         wake |-> 0, open |-> TRUE, cancelled |-> FALSE] \in Socket
    BY DEF Socket
  <2>2. socket \in [Sockets -> Socket]
    BY <2>1 DEF Init
  <2>3. QED
    BY <2>2 DEF Init, TypeOK
<1>2. ClientsHold
  BY DEF Init, ClientsHold, Holding, Serving
<1>3. WithinLimits
  <2>1. IsFiniteSet(clients) /\ Cardinality(clients) = 0
    BY FS_EmptySet DEF Init
  <2>2. \A u \in Accounts : {s \in clients : User(s) = u} = {}
    BY DEF Init
  <2>3. QED
    BY <2>1, <2>2, FS_EmptySet, RealtimeAssumption DEF WithinLimits
<1>4. TicketsSpent /\ TicketOnce
  BY DEF Init, TicketsSpent, TicketOnce
<1>5. QED
  BY <1>1, <1>2, <1>3, <1>4 DEF IInv, SlotsInv

\* Emitting, suspending, issuing tickets and signing out: what the store and
\* its notifications do.
LEMMA StoreStep ==
    ASSUME IInv, StoreNext
    PROVE  IInv'
<1> USE DEF IInv
<1>1. ASSUME NEW u \in Accounts, Emit(u) PROVE IInv'
  <2>1. TypeOK'
    BY <1>1 DEF TypeOK, Emit, Notify, Notice
  <2>2. SlotsInv'
    BY <1>1, Unmoved DEF Emit, Holding, Serving
  <2>3. QED
    BY <2>1, <2>2
<1>2. ASSUME NEW u \in Accounts, Suspend(u) PROVE IInv'
  <2>1. TypeOK'
    BY <1>2 DEF TypeOK, Suspend, hubVars
  <2>2. SlotsInv'
    BY <1>2, Unmoved DEF Suspend, hubVars, Holding, Serving
  <2>3. QED
    BY <2>1, <2>2
<1>3. ASSUME NEW u \in Accounts, SignOut(u) PROVE IInv'
  <2>1. \A k \in Tickets : tickets[k] = "gone" => tickets'[k] = "gone"
    BY <1>3 DEF SignOut
  <2>2. TypeOK'
    BY <1>3 DEF TypeOK, SignOut, Notify, Notice
  <2>3. SlotsInv'
    BY <1>3, <2>1, Unmoved DEF SignOut, Holding, Serving
  <2>4. QED
    BY <2>2, <2>3
<1>4. ASSUME NEW k \in Tickets, handleTicket(k) \/ TicketExpires(k)
      PROVE  IInv'
  <2>1. \A j \in Tickets : tickets[j] = "gone" => tickets'[j] = "gone"
    BY <1>4 DEF handleTicket, TicketExpires, TypeOK
  <2>2. TypeOK'
    BY <1>4 DEF TypeOK, handleTicket, TicketExpires, hubVars
  <2>3. SlotsInv'
    BY <1>4, <2>1, Unmoved
    DEF handleTicket, TicketExpires, hubVars, Holding, Serving
  <2>4. QED
    BY <2>2, <2>3
<1>5. QED
  BY <1>1, <1>2, <1>3, <1>4 DEF StoreNext

\* The listener, its notifications, the ticker and shutdown wake handlers and
\* close connections; they move nobody.
LEMMA HubStep ==
    ASSUME IInv, HubNext
    PROVE  IInv'
<1> USE DEF IInv
<1>1. ASSUME NEW us, socket' = Signalled(us) \/ socket' = Closed(us) \/ socket' = socket,
             UNCHANGED <<storeVars, clients>>,
             listener' \in {"down", "listening", "up"},
             notices' \subseteq Notice, closed' \in BOOLEAN
      PROVE  IInv'
  <2>1. /\ socket' \in [Sockets -> Socket]
        /\ \A s \in Sockets : /\ socket'[s].pc = socket[s].pc
                              /\ socket'[s].ticket = socket[s].ticket
    BY <1>1, SignalledKeeps, ClosedKeeps DEF TypeOK
  <2>2. TypeOK'
    BY <1>1, <2>1 DEF TypeOK, storeVars
  <2>3. SlotsInv'
    BY <1>1, <2>1, Unmoved DEF storeVars, Holding, Serving
  <2>4. QED
    BY <2>2, <2>3
<1>2. CASE Listen
  BY <1>1, <1>2 DEF Listen, TypeOK
<1>3. CASE SignalAll
  BY <1>1, <1>3 DEF SignalAll, TypeOK
<1>4. CASE ListenerFails
  BY <1>1, <1>4 DEF ListenerFails, TypeOK
<1>5. CASE Tick
  BY <1>1, <1>5 DEF Tick, TypeOK, hubVars
<1>6. CASE Close
  BY <1>1, <1>6 DEF Close, TypeOK
<1>7. ASSUME NEW n \in notices, Deliver(n) PROVE IInv'
  BY <1>1, <1>7 DEF Deliver, TypeOK
<1>8. QED
  BY <1>2, <1>3, <1>4, <1>5, <1>6, <1>7 DEF HubNext

\* Steps of a handler that keep it where it is: its wake-ups, pages and
\* frames, the failing reader, the deadline, and a refusal for want of room.
LEMMA HandlerStays ==
    ASSUME IInv, NEW s \in Sockets,
           \/ Refuse(s) \/ InitialWake(s) \/ TakeWake(s) \/ ReadPage(s)
           \/ WriteFrame(s) \/ Hangup(s) \/ ReaderFails(s) \/ Expire(s)
    PROVE  IInv'
<1> USE DEF IInv
<1>1. socket[s] \in Socket /\ Returned(s) \in Socket
  BY ReturnedSocket DEF TypeOK
<1>2. ASSUME NEW r \in Socket, socket' = [socket EXCEPT ![s] = r],
             UNCHANGED <<storeVars, hubVars>>,
             r.ticket = socket[s].ticket, r.pc # "idle", socket[s].pc # "idle",
             r.pc \in {"registered", "serving", "paging", "writing"} <=>
                 socket[s].pc \in {"registered", "serving", "paging", "writing"}
      PROVE  IInv'
  <2>1. TypeOK'
    BY <1>2 DEF TypeOK, storeVars, hubVars
  <2>2. \A t \in Sockets : socket'[t] = IF t = s THEN r ELSE socket[t]
    BY <1>2 DEF TypeOK
  <2>3. SlotsInv'
    BY <1>2, <2>2, Unmoved DEF storeVars, hubVars, Holding, Serving
  <2>4. QED
    BY <2>1, <2>3
<1>3. CASE Refuse(s)
  <2>1. Returned(s).pc = "returned" /\ Returned(s).ticket = socket[s].ticket
    BY DEF Returned
  <2>2. QED
    BY <1>1, <1>2, <1>3, <2>1 DEF Refuse
<1>4. CASE InitialWake(s)
  <2> DEFINE r == [socket[s] EXCEPT !.pc = "serving", !.wake = @ + 1]
  <2>1. r \in Socket /\ r.pc = "serving" /\ r.ticket = socket[s].ticket
    <3>1. socket[s].wake + 1 \in 0..1
      BY <1>1, <1>4 DEF InitialWake, Room, Socket
    <3>2. QED
      BY <1>1, <3>1 DEF Socket
  <2>2. socket' = [socket EXCEPT ![s] = r]
    BY <1>4 DEF InitialWake
  <2> HIDE DEF r
  <2>3. QED
    BY <1>2, <1>4, <2>1, <2>2 DEF InitialWake
<1>5. CASE TakeWake(s)
  <2> DEFINE r == [socket[s] EXCEPT !.pc = "paging", !.wake = @ - 1]
  <2>1. r \in Socket /\ r.pc = "paging" /\ r.ticket = socket[s].ticket
    <3>1. socket[s].wake - 1 \in 0..1
      BY <1>1, <1>5 DEF TakeWake, Socket
    <3>2. QED
      BY <1>1, <3>1 DEF Socket
  <2>2. socket' = [socket EXCEPT ![s] = r]
    BY <1>5 DEF TakeWake
  <2> HIDE DEF r
  <2>3. QED
    BY <1>2, <1>5, <2>1, <2>2 DEF TakeWake
<1>6. CASE ReadPage(s)
  <2> DEFINE after == IF HasMore(s) THEN socket[s].after + PageSize
                                    ELSE event_seq[User(s)]
             r == [socket[s] EXCEPT !.pc = "writing", !.more = HasMore(s),
                                    !.after = after]
  <2>1. after \in Nat
    <3>1. socket[s].ticket # NoTicket /\ socket[s].ticket \in Tickets
      BY <1>1, <1>6 DEF ReadPage, SlotsInv, TicketsSpent, Socket
    <3>2. User(s) \in Accounts
      BY <3>1 DEF User, TypeOK
    <3>3. event_seq[User(s)] \in Nat
      BY <3>2 DEF TypeOK
    <3>4. socket[s].after + PageSize \in Nat
      BY <1>1, RealtimeAssumption DEF Socket
    <3>5. QED
      BY <3>3, <3>4
  <2>2. HasMore(s) \in BOOLEAN
    BY DEF HasMore
  <2>3. r \in Socket /\ r.pc = "writing" /\ r.ticket = socket[s].ticket
    BY <1>1, <2>1, <2>2 DEF Socket
  <2>4. socket' = [socket EXCEPT ![s] = r]
    BY <1>6 DEF ReadPage
  <2> HIDE DEF r
  <2>5. QED
    BY <1>2, <1>6, <2>3, <2>4 DEF ReadPage
<1>7. CASE WriteFrame(s)
  <2> DEFINE r == [socket[s] EXCEPT
                      !.pc = IF socket[s].more THEN "paging" ELSE "serving",
                      !.more = FALSE]
  <2>1. r \in Socket /\ r.pc \in {"paging", "serving"} /\ r.ticket = socket[s].ticket
    BY <1>1 DEF Socket
  <2>2. socket' = [socket EXCEPT ![s] = r]
    BY <1>7 DEF WriteFrame
  <2> HIDE DEF r
  <2>3. QED
    BY <1>2, <1>7, <2>1, <2>2 DEF WriteFrame
<1>8. CASE Hangup(s) \/ ReaderFails(s) \/ Expire(s)
  <2>1. Holding(s)
    BY <1>8 DEF Hangup, ReaderFails, Expire, SlotsInv, ClientsHold
  <2>2. \E r \in {[socket[s] EXCEPT !.open = FALSE],
                  [socket[s] EXCEPT !.cancelled = TRUE]} :
            socket' = [socket EXCEPT ![s] = r]
    BY <1>8 DEF Hangup, ReaderFails, Expire
  <2>3. PICK r \in {[socket[s] EXCEPT !.open = FALSE],
                   [socket[s] EXCEPT !.cancelled = TRUE]} :
            socket' = [socket EXCEPT ![s] = r]
    BY <2>2
  <2>4. r \in Socket /\ r.pc = socket[s].pc /\ r.ticket = socket[s].ticket
    BY <1>1 DEF Socket
  <2>5. UNCHANGED <<storeVars, hubVars>>
    BY <1>8 DEF Hangup, ReaderFails, Expire
  <2>6. socket[s].pc # "idle"
    BY <2>1 DEF Holding, Serving
  <2>7. QED
    BY <1>2, <2>3, <2>4, <2>5, <2>6
<1>9. QED
  BY <1>3, <1>4, <1>5, <1>6, <1>7, <1>8

\* Redemption deletes the ticket, so that nobody else has it and nobody else
\* will (the delete ... returning of handleSocket).
LEMMA RedeemStep ==
    ASSUME IInv, NEW s \in Sockets, NEW k \in Tickets, RedeemTicket(s, k)
    PROVE  IInv'
<1> USE DEF IInv
<1>1. PICK after \in 0..MaxCursor :
          socket' = [socket EXCEPT ![s].pc = "redeemed", ![s].ticket = k,
                                   ![s].after = after]
  BY DEF RedeemTicket
<1> DEFINE r == [socket[s] EXCEPT !.pc = "redeemed", !.ticket = k,
                                  !.after = after]
<1>2. socket[s] \in Socket /\ socket[s].pc = "idle" /\ tickets[k] = "valid"
  BY DEF TypeOK, RedeemTicket
<1>3. after \in Nat
  <2>1. after \in 0..MaxCursor
    BY <1>1
  <2>2. QED
    BY <2>1, RealtimeAssumption
<1>4. r \in Socket /\ r.pc = "redeemed" /\ r.ticket = k
  BY <1>2, <1>3 DEF Socket
<1>5. socket' = [socket EXCEPT ![s] = r]
  BY <1>1
<1> HIDE DEF r
<1>6. \A t \in Sockets : socket'[t] = IF t = s THEN r ELSE socket[t]
  BY <1>5 DEF TypeOK
<1>7. tickets' = [tickets EXCEPT ![k] = "gone"]
  BY DEF RedeemTicket, Redeem
<1>8. TypeOK'
  <2>1. socket' \in [Sockets -> Socket]
    BY <1>4, <1>5 DEF TypeOK
  <2>2. tickets' \in [Tickets -> {"unissued", "valid", "gone"}]
    BY <1>7 DEF TypeOK
  <2>3. UNCHANGED <<status, event_seq, owner, listener, notices, clients,
                    closed>>
    BY DEF RedeemTicket, hubVars
  <2>4. QED
    BY <2>1, <2>2, <2>3 DEF TypeOK
<1>9. ClientsHold'
  BY <1>2, <1>4, <1>6 DEF SlotsInv, ClientsHold, Holding, Serving, RedeemTicket, hubVars
<1>10. WithinLimits'
  <2>1. clients' = clients /\ owner' = owner /\ s \notin clients
    BY <1>2 DEF RedeemTicket, hubVars, SlotsInv, ClientsHold, Holding, Serving
  <2>2. \A c \in clients : User(c)' = User(c)
    BY <1>6, <2>1 DEF User, TypeOK
  <2>3. \A u \in Accounts :
            {c \in clients : User(c) = u}' = {c \in clients : User(c) = u}
    BY <2>1, <2>2
  <2>4. QED
    BY <2>1, <2>3 DEF SlotsInv, WithinLimits
<1>11. \A t \in Sockets : socket[t].ticket # k
  BY <1>2, RealtimeAssumption DEF SlotsInv, TicketsSpent
<1>12. TicketsSpent'
  <2>1. \A t \in Sockets : socket[t].ticket \in Tickets \cup {NoTicket}
    BY DEF TypeOK, Socket
  <2>2. QED
    BY <1>4, <1>6, <1>7, <2>1, RealtimeAssumption
    DEF SlotsInv, TicketsSpent, TypeOK
<1>13. TicketOnce'
  BY <1>4, <1>6, <1>11 DEF SlotsInv, TicketOnce
<1>14. QED
  BY <1>8, <1>9, <1>10, <1>12, <1>13 DEF SlotsInv

\* A handler that registers takes a slot that HasRoom found free, under the
\* hub's mutex.
LEMMA RegisterStep ==
    ASSUME IInv, NEW s \in Sockets, Register(s)
    PROVE  IInv'
<1> USE DEF IInv
<1> DEFINE r == [socket[s] EXCEPT !.pc = "registered"]
<1>1. socket[s] \in Socket /\ socket[s].pc = "redeemed"
  BY DEF TypeOK, Register
<1>2. r \in Socket /\ r.pc = "registered" /\ r.ticket = socket[s].ticket
  BY <1>1 DEF Socket
<1>3. socket' = [socket EXCEPT ![s] = r]
  BY DEF Register
<1> HIDE DEF r
<1>4. /\ \A t \in Sockets : socket'[t] = IF t = s THEN r ELSE socket[t]
      /\ \A t \in Sockets : socket'[t].ticket = socket[t].ticket
  BY <1>2, <1>3 DEF TypeOK
<1>5. /\ clients' = clients \cup {s} /\ s \notin clients /\ clients \subseteq Sockets
      /\ owner' = owner /\ tickets' = tickets
  BY <1>1 DEF Register, storeVars, SlotsInv, ClientsHold, Holding, Serving
<1>6. TypeOK'
  BY <1>2, <1>3, <1>5 DEF TypeOK, Register, storeVars
<1>7. ClientsHold'
  BY <1>1, <1>2, <1>4, <1>5 DEF SlotsInv, ClientsHold, Holding, Serving
<1>8. WithinLimits'
  <2>1. IsFiniteSet(clients) /\ Cardinality(clients) \in Nat
    BY FS_CardinalityType DEF SlotsInv, WithinLimits
  <2>2. IsFiniteSet(clients') /\ Cardinality(clients') <= Total
    <3>1. IsFiniteSet(clients') /\ Cardinality(clients') = Cardinality(clients) + 1
      BY <1>5, <2>1, FS_AddElement
    <3>2. Cardinality(clients) < Total
      BY DEF Register, HasRoom
    <3>3. QED
      BY <2>1, <3>1, <3>2, RealtimeAssumption
  <2>3. ASSUME NEW u \in Accounts
        PROVE  Cardinality({c \in clients : User(c) = u}') <= PerUser
    <3> DEFINE S == {c \in clients : User(c) = u}
    <3>1. {c \in clients : User(c) = u}' = IF User(s) = u THEN S \cup {s} ELSE S
      BY <1>4, <1>5 DEF User
    <3>2. IsFiniteSet(S) /\ Cardinality(S) \in Nat /\ s \notin S
      BY <1>5, <2>1, FS_Subset, FS_CardinalityType
    <3>3. Cardinality(S) <= PerUser
      BY DEF SlotsInv, WithinLimits
    <3>4. CASE User(s) = u
      <4>1. Cardinality(S) < PerUser
        BY <3>4 DEF Register, HasRoom
      <4>2. Cardinality(S \cup {s}) = Cardinality(S) + 1
        BY <3>2, FS_AddElement
      <4> HIDE DEF S
      <4>3. QED
        BY <3>1, <3>2, <3>4, <4>1, <4>2, RealtimeAssumption
    <3>5. QED
      BY <3>1, <3>3, <3>4
  <2>4. QED
    BY <2>2, <2>3 DEF WithinLimits
<1>9. TicketsSpent' /\ TicketOnce'
  BY <1>1, <1>2, <1>4, <1>5 DEF SlotsInv, TicketsSpent, TicketOnce
<1>10. QED
  BY <1>6, <1>7, <1>8, <1>9 DEF SlotsInv

\* The deferred calls give the slot back.
LEMMA ReturnStep ==
    ASSUME IInv, NEW s \in Sockets, Return(s) \/ PageFails(s)
    PROVE  IInv'
<1> USE DEF IInv
<1>1. Returned(s) \in Socket /\ Returned(s).pc = "returned"
      /\ Returned(s).ticket = socket[s].ticket /\ socket[s].pc # "idle"
  BY ReturnedSocket DEF Returned, Return, PageFails, Serving
<1>2. /\ \A t \in Sockets : socket'[t] = IF t = s THEN Returned(s) ELSE socket[t]
      /\ \A t \in Sockets : socket'[t].ticket = socket[t].ticket
  BY <1>1 DEF Return, PageFails, TypeOK
<1>3. clients' = clients \ {s} /\ owner' = owner /\ tickets' = tickets
      /\ clients \subseteq Sockets
  BY DEF Return, PageFails, storeVars, TypeOK
<1>4. TypeOK'
  BY <1>1, <1>3 DEF TypeOK, Return, PageFails, storeVars
<1>5. ClientsHold'
  BY <1>1, <1>2, <1>3 DEF SlotsInv, ClientsHold, Holding, Serving
<1>6. WithinLimits'
  <2>1. IsFiniteSet(clients) /\ Cardinality(clients) \in Nat
    BY FS_CardinalityType DEF SlotsInv, WithinLimits
  <2>2. IsFiniteSet(clients') /\ Cardinality(clients') <= Total
    <3>1. /\ IsFiniteSet(clients') /\ Cardinality(clients') \in Nat
          /\ Cardinality(clients') <= Cardinality(clients)
      BY <1>3, <2>1, FS_Subset, FS_CardinalityType
    <3>2. Cardinality(clients) <= Total
      BY DEF SlotsInv, WithinLimits
    <3>3. QED
      BY <2>1, <3>1, <3>2, RealtimeAssumption
  <2>3. ASSUME NEW u \in Accounts
        PROVE  Cardinality({c \in clients : User(c) = u}') <= PerUser
    <3> DEFINE S == {c \in clients : User(c) = u}
               T == {c \in clients : User(c) = u}'
    <3>1. T \in SUBSET S
      BY <1>2, <1>3 DEF User
    <3>2. IsFiniteSet(S) /\ Cardinality(S) \in Nat
      BY <2>1, FS_Subset, FS_CardinalityType
    <3>3. Cardinality(S) <= PerUser
      BY DEF SlotsInv, WithinLimits
    <3> HIDE DEF S, T
    <3>4. Cardinality(T) \in Nat /\ Cardinality(T) <= Cardinality(S)
      BY <3>1, <3>2, FS_Subset, FS_CardinalityType
    <3>5. Cardinality(T) <= PerUser
      BY <3>2, <3>3, <3>4, RealtimeAssumption
    <3>6. QED
      BY <3>5 DEF T
  <2>4. QED
    BY <2>2, <2>3 DEF WithinLimits
<1>7. TicketsSpent' /\ TicketOnce'
  BY <1>1, <1>2, <1>3 DEF SlotsInv, TicketsSpent, TicketOnce
<1>8. QED
  BY <1>4, <1>5, <1>6, <1>7 DEF SlotsInv

\* Every step keeps the invariant.
LEMMA NextIInv == IInv /\ [Next]_vars => IInv'
<1> SUFFICES ASSUME IInv, [Next]_vars PROVE IInv'
  OBVIOUS
<1>1. CASE StoreNext \/ HubNext
  BY <1>1, StoreStep, HubStep
<1>2. ASSUME NEW s \in Sockets, HandlerNext(s) PROVE IInv'
  BY <1>2, RedeemStep, RegisterStep, HandlerStays, ReturnStep DEF HandlerNext
<1>3. CASE UNCHANGED vars
  <2>1. TypeOK'
    BY <1>3 DEF IInv, TypeOK, vars, storeVars, hubVars
  <2>2. SlotsInv'
    BY <1>3, Unmoved DEF IInv, vars, storeVars, hubVars, Holding, Serving
  <2>3. QED
    BY <2>1, <2>2 DEF IInv
<1>4. QED
  BY <1>1, <1>2, <1>3 DEF Next

\* However sockets connect, are refused, end or outlive their sessions, neither
\* limit of the hub is exceeded, and a slot is held exactly by the handlers
\* between their registration and their return (realtime.go:174-187).
THEOREM SlotsAlwaysBounded == Spec => []SlotsBounded
<1>1. IInv => SlotsBounded
  BY DEF IInv, SlotsInv, ClientsHold, Holding, WithinLimits, SlotsBounded
<1>2. QED
  BY <1>1, InitIInv, NextIInv, PTL DEF Spec

\* Whoever presents a ticket again, in whatever order, it opens one socket
\* (realtime.go:166-172).
THEOREM TicketsOpenOnce == Spec => []TicketOnce
<1>1. IInv => TicketOnce
  BY DEF IInv, SlotsInv
<1>2. QED
  BY <1>1, InitIInv, NextIInv, PTL DEF Spec

\* The types of the hub, its handlers and the tickets, whatever the limits.
THEOREM TypesCorrect == Spec => []TypeOK
<1>1. IInv => TypeOK
  BY DEF IInv
<1>2. QED
  BY <1>1, InitIInv, NextIInv, PTL DEF Spec

----------------------------------------------------------------------------

\* The handler looks for no further page before its next wake-up.
Waits(s) ==
    \/ socket[s].pc = "serving"
    \/ socket[s].pc = "writing" /\ ~ socket[s].more

Behind(s) == socket[s].after < event_seq[User(s)]

WakeComes(s) ==
    \/ socket[s].wake > 0
    \/ listener # "up"
    \/ [kind |-> "wake", user |-> User(s)] \in notices

WakeInv == \A s \in Sockets : Waits(s) /\ Behind(s) => WakeComes(s)

\* A handler that waits is a client of the hub, for an account.
LEMMA WaitsServed ==
    ASSUME IInv, NEW s \in Sockets, Waits(s)
    PROVE  s \in clients /\ User(s) \in Accounts /\ socket[s] \in Socket
<1>1. socket[s] \in Socket /\ s \in clients
  BY DEF IInv, TypeOK, SlotsInv, ClientsHold, Holding, Serving, Waits
<1>2. socket[s].pc # "idle"
  BY DEF Waits
<1>3. socket[s].ticket \in Tickets
  BY <1>1, <1>2 DEF IInv, SlotsInv, TicketsSpent, Socket
<1>4. QED
  BY <1>1, <1>3 DEF IInv, TypeOK, User

\* A signal reaches every handler of these accounts that waits, and takes no
\* wake-up away.
LEMMA SignalledWakes ==
    ASSUME IInv, NEW us, NEW s \in Sockets
    PROVE  /\ Signalled(us)[s].pc = socket[s].pc
           /\ Signalled(us)[s].more = socket[s].more
           /\ Signalled(us)[s].ticket = socket[s].ticket
           /\ Signalled(us)[s].after = socket[s].after
           /\ socket[s].wake > 0 => Signalled(us)[s].wake > 0
           /\ s \in clients /\ User(s) \in us => Signalled(us)[s].wake > 0
<1>1. socket[s] \in Socket
  BY DEF IInv, TypeOK
<1>2. CASE s \in clients /\ User(s) \in us /\ Room(s)
  <2>1. Signalled(us)[s] = [socket[s] EXCEPT !.wake = socket[s].wake + 1]
    BY <1>2 DEF Signalled
  <2>2. socket[s].wake \in 0..1
    BY <1>1 DEF Socket
  <2>3. QED
    BY <1>1, <2>1, <2>2 DEF Socket
<1>3. CASE ~ (s \in clients /\ User(s) \in us /\ Room(s))
  <2>1. Signalled(us)[s] = socket[s]
    BY <1>3 DEF Signalled
  <2>2. socket[s].wake \in 0..1
    BY <1>1 DEF Socket
  <2>3. QED
    BY <1>3, <2>1, <2>2 DEF Room
<1>4. QED
  BY <1>2, <1>3

\* Closing connections leaves what a handler waits for.
LEMMA ClosedWakes ==
    ASSUME IInv, NEW us, NEW s \in Sockets
    PROVE  /\ Closed(us)[s].pc = socket[s].pc
           /\ Closed(us)[s].more = socket[s].more
           /\ Closed(us)[s].ticket = socket[s].ticket
           /\ Closed(us)[s].after = socket[s].after
           /\ Closed(us)[s].wake = socket[s].wake
<1>1. socket[s] \in Socket
  BY DEF IInv, TypeOK
<1>2. QED
  BY <1>1 DEF Closed, Socket

\* A handler is no worse off that waits as before, for no fewer wake-ups, as
\* long as no notification for it is lost and no event is new.
LEMMA StillComes ==
    ASSUME IInv, WakeInv, NEW s \in Sockets,
           Waits(s)' => Waits(s),
           socket'[s].ticket = socket[s].ticket,
           socket'[s].after = socket[s].after,
           socket[s].wake > 0 => socket'[s].wake > 0,
           owner' = owner, event_seq' = event_seq,
           listener # "up" => listener' # "up",
           [kind |-> "wake", user |-> User(s)] \in notices =>
               \/ listener' # "up"
               \/ socket'[s].wake > 0
               \/ [kind |-> "wake", user |-> User(s)] \in notices'
    PROVE  Waits(s)' /\ Behind(s)' => WakeComes(s)'
<1>1. User(s)' = User(s)
  BY DEF User
<1>2. Behind(s)' = Behind(s)
  BY <1>1 DEF Behind
<1>3. WakeComes(s) => WakeComes(s)'
  BY <1>1 DEF WakeComes
<1>4. QED
  BY <1>2, <1>3 DEF WakeInv

\* Accounts and tickets: an event that a handler has not sent is notified.
LEMMA StoreWakes ==
    ASSUME IInv, WakeInv, StoreNext, NEW s \in Sockets
    PROVE  Waits(s)' /\ Behind(s)' => WakeComes(s)'
<1>1. ASSUME NEW u \in Accounts, Emit(u)
      PROVE  Waits(s)' /\ Behind(s)' => WakeComes(s)'
  <2>1. User(s)' = User(s) /\ socket' = socket /\ listener' = listener
    BY <1>1 DEF Emit, User
  <2>2. CASE User(s) = u
    <3>1. \/ listener = "down"
          \/ [kind |-> "wake", user |-> u] \in notices'
      BY <1>1 DEF Emit, Notify
    <3>2. QED
      BY <2>1, <2>2, <3>1 DEF WakeComes
  <2>3. CASE User(s) # u
    <3>1. Waits(s)' = Waits(s)
      BY <2>1 DEF Waits
    <3>2. SUFFICES ASSUME Waits(s), Behind(s)' PROVE WakeComes(s)'
      BY <3>1
    <3>3. User(s) \in Accounts
      BY <3>2, WaitsServed
    <3>4. event_seq'[User(s)] = event_seq[User(s)]
      BY <1>1, <2>3, <3>3 DEF Emit, IInv, TypeOK
    <3>5. Behind(s)
      BY <2>1, <3>2, <3>4 DEF Behind
    <3>6. notices \subseteq notices'
      BY <1>1 DEF Emit, Notify
    <3>7. QED
      BY <2>1, <3>2, <3>5, <3>6 DEF WakeInv, WakeComes
  <2>4. QED
    BY <2>2, <2>3
<1>2. ASSUME socket' = socket, owner' = owner, event_seq' = event_seq,
             listener' = listener, notices \subseteq notices'
      PROVE  Waits(s)' /\ Behind(s)' => WakeComes(s)'
  <2>1. Waits(s)' = Waits(s)
    BY <1>2 DEF Waits
  <2>2. QED
    BY <1>2, <2>1, StillComes
<1>3. ASSUME NEW u \in Accounts, Suspend(u) \/ SignOut(u)
      PROVE  Waits(s)' /\ Behind(s)' => WakeComes(s)'
  BY <1>2, <1>3 DEF Suspend, SignOut, Notify, hubVars
<1>4. ASSUME NEW k \in Tickets, handleTicket(k) \/ TicketExpires(k)
      PROVE  Waits(s)' /\ Behind(s)' => WakeComes(s)'
  BY <1>2, <1>4 DEF handleTicket, TicketExpires, hubVars
<1>5. QED
  BY <1>1, <1>3, <1>4 DEF StoreNext

\* The hub: what it takes from the connection it passes on, and a connection
\* that comes up wakes everyone.
LEMMA HubWakes ==
    ASSUME IInv, WakeInv, HubNext, NEW s \in Sockets
    PROVE  Waits(s)' /\ Behind(s)' => WakeComes(s)'
<1>1. ASSUME NEW us, socket' = Signalled(us)
      PROVE  /\ Waits(s)' = Waits(s)
             /\ socket'[s].ticket = socket[s].ticket
             /\ socket'[s].after = socket[s].after
             /\ socket[s].wake > 0 => socket'[s].wake > 0
             /\ Waits(s) /\ User(s) \in us => socket'[s].wake > 0
  BY <1>1, SignalledWakes, WaitsServed DEF Waits
<1>2. ASSUME NEW us, socket' = Closed(us)
      PROVE  /\ Waits(s)' = Waits(s)
             /\ socket'[s].ticket = socket[s].ticket
             /\ socket'[s].after = socket[s].after
             /\ socket[s].wake > 0 => socket'[s].wake > 0
  BY <1>2, ClosedWakes DEF Waits
<1>3. CASE Tick
  BY <1>1, <1>3, StillComes DEF Tick, storeVars, hubVars
<1>4. CASE Close
  BY <1>2, <1>4, StillComes DEF Close, storeVars
<1>5. CASE SignalAll
  <2>1. Waits(s) => socket'[s].wake > 0
    BY <1>1, <1>5, WaitsServed DEF SignalAll
  <2>2. QED
    BY <1>1, <1>5, <2>1 DEF SignalAll, WakeComes
<1>6. CASE Listen \/ ListenerFails
  BY <1>6 DEF Listen, ListenerFails, WakeComes
<1>7. ASSUME NEW n \in notices, Deliver(n)
      PROVE  Waits(s)' /\ Behind(s)' => WakeComes(s)'
  <2> DEFINE wake == [kind |-> "wake", user |-> User(s)]
  <2>1. n.kind \in {"wake", "logout"} /\ n = [kind |-> n.kind, user |-> n.user]
    BY DEF IInv, TypeOK, Notice
  <2>2. CASE n = wake
    <3>1. socket' = Signalled({User(s)})
      BY <1>7, <2>2 DEF Deliver
    <3>2. Waits(s) => socket'[s].wake > 0
      BY <1>1, <3>1
    <3>3. QED
      BY <1>1, <3>1, <3>2 DEF WakeComes
  <2>3. CASE n # wake
    <3>1. wake \in notices => wake \in notices'
      BY <1>7, <2>3 DEF Deliver
    <3>2. socket' = Signalled({n.user}) \/ socket' = Closed({n.user})
      BY <1>7 DEF Deliver
    <3>3. owner' = owner /\ event_seq' = event_seq /\ listener' = listener
      BY <1>7 DEF Deliver, storeVars
    <3> HIDE DEF wake
    <3>4. QED
      BY <1>1, <1>2, <3>1, <3>2, <3>3, StillComes DEF wake
  <2>4. QED
    BY <2>2, <2>3
<1>8. QED
  BY <1>3, <1>4, <1>5, <1>6, <1>7 DEF HubNext

\* Handlers: a page that is the last one leaves nothing unsent, and nothing
\* but the handler's own select takes its wake-up.
LEMMA HandlerWakes ==
    ASSUME IInv, WakeInv, NEW t \in Sockets, HandlerNext(t), NEW s \in Sockets
    PROVE  Waits(s)' /\ Behind(s)' => WakeComes(s)'
<1>1. /\ listener' = listener /\ notices' = notices
      /\ owner' = owner /\ event_seq' = event_seq
  BY DEF HandlerNext, RedeemTicket, Register, Refuse, InitialWake, TakeWake,
         ReadPage, PageFails, WriteFrame, Return, Hangup, ReaderFails, Expire,
         storeVars, hubVars
<1>2. socket \in [Sockets -> Socket] /\ socket[s] \in Socket
  BY DEF IInv, TypeOK
<1>3. CASE s # t
  <2>1. socket'[s] = socket[s]
    BY <1>2, <1>3 DEF HandlerNext, RedeemTicket, Register, Refuse, InitialWake,
       TakeWake, ReadPage, PageFails, WriteFrame, Return, Hangup, ReaderFails,
       Expire
  <2>2. Waits(s)' = Waits(s)
    BY <2>1 DEF Waits
  <2>3. QED
    BY <1>1, <2>1, <2>2, StillComes
<1>4. CASE s = t
  <2>1. CASE \/ \E k \in Tickets : RedeemTicket(s, k)
             \/ Register(s) \/ Refuse(s) \/ TakeWake(s)
             \/ Return(s) \/ PageFails(s)
    <3>1. CASE \E k \in Tickets : RedeemTicket(s, k)
      <4>1. socket'[s].pc = "redeemed"
        BY <1>2, <3>1 DEF RedeemTicket, Socket
      <4>2. QED
        BY <4>1 DEF Waits
    <3>2. CASE Register(s)
      <4>1. socket'[s].pc = "registered"
        BY <1>2, <3>2 DEF Register, Socket
      <4>2. QED
        BY <4>1 DEF Waits
    <3>3. CASE Refuse(s) \/ Return(s) \/ PageFails(s)
      <4>1. socket'[s] = Returned(s)
        BY <1>2, <3>3 DEF Refuse, Return, PageFails
      <4>2. socket'[s].pc = "returned"
        BY <4>1 DEF Returned
      <4>3. QED
        BY <4>2 DEF Waits
    <3>4. CASE TakeWake(s)
      <4>1. socket'[s].pc = "paging"
        BY <1>2, <3>4 DEF TakeWake, Socket
      <4>2. QED
        BY <4>1 DEF Waits
    <3>5. QED
      BY <2>1, <3>1, <3>2, <3>3, <3>4
  <2>2. CASE InitialWake(s)
    <3>1. socket'[s].wake = socket[s].wake + 1
      BY <1>2, <2>2 DEF InitialWake, Socket
    <3>2. QED
      BY <1>2, <3>1 DEF WakeComes, Socket
  <2>3. CASE ReadPage(s)
    <3>1. /\ socket'[s].pc = "writing"
          /\ socket'[s].more = HasMore(s)
          /\ socket'[s].ticket = socket[s].ticket
          /\ ~ HasMore(s) => socket'[s].after = event_seq[User(s)]
      BY <1>2, <2>3 DEF ReadPage, Socket
    <3>2. SUFFICES ASSUME ~ HasMore(s) PROVE ~ Behind(s)'
      BY <3>1 DEF Waits
    <3>3. User(s)' = User(s) /\ socket'[s].after = event_seq'[User(s)]
      BY <1>1, <3>1, <3>2 DEF User
    <3>4. socket[s].ticket \in Tickets /\ event_seq[User(s)] \in Nat
      <4>1. socket[s].pc # "idle"
        BY <2>3 DEF ReadPage
      <4>2. socket[s].ticket \in Tickets
        BY <1>2, <4>1 DEF IInv, SlotsInv, TicketsSpent, Socket
      <4>3. QED
        BY <4>2 DEF IInv, TypeOK, User
    <3>5. QED
      BY <1>1, <3>3, <3>4 DEF Behind
  <2>4. CASE WriteFrame(s)
    <3>1. /\ socket'[s].pc = IF socket[s].more THEN "paging" ELSE "serving"
          /\ socket'[s].ticket = socket[s].ticket
          /\ socket'[s].after = socket[s].after
          /\ socket'[s].wake = socket[s].wake
          /\ socket[s].pc = "writing"
      BY <1>2, <2>4 DEF WriteFrame, Socket
    <3>2. Waits(s)' => Waits(s)
      BY <3>1 DEF Waits
    <3>3. QED
      BY <1>1, <3>1, <3>2, StillComes
  <2>5. CASE Hangup(s) \/ ReaderFails(s) \/ Expire(s)
    <3>1. /\ socket'[s].pc = socket[s].pc
          /\ socket'[s].more = socket[s].more
          /\ socket'[s].ticket = socket[s].ticket
          /\ socket'[s].after = socket[s].after
          /\ socket'[s].wake = socket[s].wake
      BY <1>2, <2>5 DEF Hangup, ReaderFails, Expire, Socket
    <3>2. Waits(s)' => Waits(s)
      BY <3>1 DEF Waits
    <3>3. QED
      BY <1>1, <3>1, <3>2, StillComes
  <2>6. QED
    BY <1>4, <2>1, <2>2, <2>3, <2>4, <2>5 DEF HandlerNext
<1>5. QED
  BY <1>3, <1>4

\* A handler that waits has nothing to send, or its wake-up comes: a signal
\* given while it sends a page is kept, and a failed connection wakes everyone.
THEOREM WakeNeverLost == Spec => []NoLostWake
<1>1. Init => WakeInv
  BY DEF Init, WakeInv, Waits
<1>2. IInv /\ WakeInv /\ [Next]_vars => WakeInv'
  <2>1. CASE UNCHANGED vars
    BY <2>1 DEF vars, storeVars, hubVars, WakeInv, Waits, Behind, WakeComes, User
  <2>2. ASSUME IInv, WakeInv, Next PROVE WakeInv'
    BY <2>2, StoreWakes, HubWakes, HandlerWakes DEF Next, WakeInv
  <2>3. QED
    BY <2>1, <2>2
<1>3. WakeInv => NoLostWake
  BY DEF WakeInv, Waits, Behind, WakeComes, NoLostWake
<1>4. QED
  BY <1>1, <1>2, <1>3, InitIInv, NextIInv, PTL DEF Spec
=============================================================================

------------------------------ MODULE Realtime ------------------------------
(***************************************************************************)
(* internal/chat/realtime.go: the hub of one server process, its LISTEN    *)
(* connection and fallback ticker, the single-use tickets, and the handler *)
(* and reader goroutines of each socket.  A step is what a goroutine does  *)
(* between two points where it can wait.  Event rows are counted by        *)
(* users.event_seq; typing frames, which store nothing, are left out.      *)
(***************************************************************************)
EXTENDS Naturals, FiniteSets

CONSTANTS
    Accounts,
    Sockets,     \* connection attempts
    Tickets,     \* tickets that are ever issued
    NoTicket,
    PerUser,     \* sockets per account (8 in the code)
    Total,       \* sockets per process (2000 in the code)
    PageSize,    \* events per frame (100 in the code)
    MaxEvents,   \* bound: events per account
    MaxCursor    \* bound: cursors a client sends

ASSUME RealtimeAssumption ==
    /\ PerUser \in Nat /\ Total \in Nat
    /\ MaxEvents \in Nat /\ MaxCursor \in Nat
    /\ PageSize \in Nat \ {0}
    /\ NoTicket \notin Tickets

VARIABLES
    status,     \* users.status
    event_seq,  \* users.event_seq
    tickets,    \* each ticket: not issued yet, a row of chat_tickets, or gone
    owner,      \* the account a ticket was issued to
    listener,   \* the LISTEN connection of Hub.Run
    notices,    \* notifications it has not received yet
    clients,    \* hub.clients
    closed,     \* hub.closed
    socket      \* the handler of each socket, its channel and its context

storeVars == <<status, event_seq, tickets, owner>>
hubVars == <<listener, notices, clients, closed>>
vars == <<storeVars, hubVars, socket>>

Notice == [kind : {"wake", "logout"}, user : Accounts]

\* wake counts what is in the channel, of capacity one; open is the connection;
\* cancelled is the context the handler selects on, with its deadline.
Socket == [pc : {"idle", "redeemed", "registered", "serving", "paging",
                 "writing", "returned"},
           more : BOOLEAN, ticket : Tickets \cup {NoTicket}, after : Nat,
           wake : 0..1, open : BOOLEAN, cancelled : BOOLEAN]

TypeOK ==
    /\ status \in [Accounts -> {"active", "suspended"}]
    /\ event_seq \in [Accounts -> Nat]
    /\ tickets \in [Tickets -> {"unissued", "valid", "gone"}]
    /\ owner \in [Tickets -> Accounts]
    /\ listener \in {"down", "listening", "up"}
    /\ notices \subseteq Notice
    /\ clients \subseteq Sockets
    /\ closed \in BOOLEAN
    /\ socket \in [Sockets -> Socket]

Init ==
    /\ status = [u \in Accounts |-> "active"]
    /\ event_seq = [u \in Accounts |-> 0]
    /\ tickets = [k \in Tickets |-> "unissued"]
    /\ owner \in [Tickets -> Accounts]
    /\ listener = "down"
    /\ notices = {}
    /\ clients = {}
    /\ closed = FALSE
    /\ socket = [s \in Sockets |->
                    [pc |-> "idle", more |-> FALSE, ticket |-> NoTicket,
                     after |-> 0, wake |-> 0, open |-> TRUE, cancelled |-> FALSE]]

User(s) == owner[socket[s].ticket]

\* The handler is in its loop.
Serving(s) == socket[s].pc \in {"serving", "paging", "writing"}

----------------------------------------------------------------------------

\* pg_notify at commit: only a connection that listens will receive it.
Notify(kind, u) ==
    notices' = IF listener = "down" THEN notices
               ELSE notices \cup {[kind |-> kind, user |-> u]}

\* Any transaction that emits an event to u.
Emit(u) ==
    /\ event_seq[u] < MaxEvents
    /\ event_seq' = [event_seq EXCEPT ![u] = @ + 1]
    /\ Notify("wake", u)
    /\ UNCHANGED <<status, tickets, owner, listener, clients, closed, socket>>

\* safety.Resolve with a suspension tells the hub nothing.
Suspend(u) ==
    /\ status[u] = "active"
    /\ status' = [status EXCEPT ![u] = "suspended"]
    /\ UNCHANGED <<event_seq, tickets, owner, hubVars, socket>>

\* handleTicket: CurrentUser refuses an account that is not active.
handleTicket(k) ==
    /\ tickets[k] = "unissued"
    /\ status[owner[k]] = "active"
    /\ tickets' = [tickets EXCEPT ![k] = "valid"]
    /\ UNCHANGED <<status, event_seq, owner, hubVars, socket>>

\* 30 seconds, or the access token's expiry, whichever comes first.
TicketExpires(k) ==
    /\ tickets[k] = "valid"
    /\ tickets' = [tickets EXCEPT ![k] = "gone"]
    /\ UNCHANGED <<status, event_seq, owner, hubVars, socket>>

\* auth.SignOut: the account's tickets go, and the hub is told.
SignOut(u) ==
    /\ tickets' = [k \in Tickets |->
                      IF owner[k] = u /\ tickets[k] = "valid"
                      THEN "gone" ELSE tickets[k]]
    /\ Notify("logout", u)
    /\ UNCHANGED <<status, event_seq, owner, listener, clients, closed, socket>>

----------------------------------------------------------------------------

Room(s) == socket[s].wake < 1

\* signal: a send to each channel that gives up when the channel is full.
Signalled(us) ==
    [s \in Sockets |->
        IF s \in clients /\ User(s) \in us /\ Room(s)
        THEN [socket[s] EXCEPT !.wake = @ + 1] ELSE socket[s]]

Closed(us) ==
    [s \in Sockets |->
        IF s \in clients /\ User(s) \in us
        THEN [socket[s] EXCEPT !.open = FALSE] ELSE socket[s]]

Listen ==
    /\ listener = "down"
    /\ ~ closed
    /\ listener' = "listening"
    /\ UNCHANGED <<storeVars, notices, clients, closed, socket>>

\* What was notified while nobody listened is made up for by waking everyone.
SignalAll ==
    /\ listener = "listening"
    /\ listener' = "up"
    /\ socket' = Signalled(Accounts)
    /\ UNCHANGED <<storeVars, notices, clients, closed>>

Deliver(n) ==
    /\ listener = "up"
    /\ n \in notices
    /\ notices' = notices \ {n}
    /\ socket' = IF n.kind = "logout" THEN Closed({n.user})
                                      ELSE Signalled({n.user})
    /\ UNCHANGED <<storeVars, listener, clients, closed>>

\* The connection fails, with what was in flight on it.
ListenerFails ==
    /\ listener # "down"
    /\ listener' = "down"
    /\ notices' = {}
    /\ UNCHANGED <<storeVars, clients, closed, socket>>

\* The five-second ticker wakes every socket.
MutantTick ==
    /\ ~ closed
    /\ listener = "up"
    /\ socket' = Signalled(Accounts)
    /\ UNCHANGED <<storeVars, hubVars>>

Tick ==
    /\ ~ closed
    /\ socket' = Signalled(Accounts)
    /\ UNCHANGED <<storeVars, hubVars>>

\* Shutdown: the hub closes every connection it knows and takes no more.
Close ==
    /\ ~ closed
    /\ closed' = TRUE
    /\ socket' = Closed(Accounts)
    /\ UNCHANGED <<storeVars, listener, notices, clients>>

----------------------------------------------------------------------------

MutantRedeem(k) == tickets

Redeem(k) == [tickets EXCEPT ![k] = "gone"]

\* The hello frame carries a ticket and a cursor, which need not be one the
\* account has reached; delete ... returning lets one socket through per
\* ticket.
RedeemTicket(s, k) ==
    /\ socket[s].pc = "idle"
    /\ tickets[k] = "valid"
    /\ tickets' = Redeem(k)
    /\ \E after \in 0..MaxCursor :
           socket' = [socket EXCEPT ![s].pc = "redeemed", ![s].ticket = k,
                                    ![s].after = after]
    /\ UNCHANGED <<status, event_seq, owner, hubVars>>

MutantHasRoom(u) ==
    /\ ~ closed
    /\ Cardinality(clients) <= Total
    /\ Cardinality({c \in clients : User(c) = u}) <= PerUser

HasRoom(u) ==
    /\ ~ closed
    /\ Cardinality(clients) < Total
    /\ Cardinality({c \in clients : User(c) = u}) < PerUser

\* The deferred calls close the connection; what the handler held is garbage.
Returned(s) ==
    [pc |-> "returned", more |-> FALSE, ticket |-> socket[s].ticket,
     after |-> 0, wake |-> 0, open |-> FALSE, cancelled |-> TRUE]

Register(s) ==
    /\ socket[s].pc = "redeemed"
    /\ HasRoom(User(s))
    /\ clients' = clients \cup {s}
    /\ socket' = [socket EXCEPT ![s].pc = "registered"]
    /\ UNCHANGED <<storeVars, listener, notices, closed>>

Refuse(s) ==
    /\ socket[s].pc = "redeemed"
    /\ ~ HasRoom(User(s))
    /\ socket' = [socket EXCEPT ![s] = Returned(s)]
    /\ UNCHANGED <<storeVars, hubVars>>

\* client.wake <- struct{}{}: unlike the hub's sends, this one waits for room
\* in the channel.
InitialWake(s) ==
    /\ socket[s].pc = "registered"
    /\ Room(s)
    /\ socket' = [socket EXCEPT ![s].pc = "serving", ![s].wake = @ + 1]
    /\ UNCHANGED <<storeVars, hubVars>>

TakeWake(s) ==
    /\ socket[s].pc = "serving"
    /\ socket[s].wake > 0
    /\ socket' = [socket EXCEPT ![s].pc = "paging", ![s].wake = @ - 1]
    /\ UNCHANGED <<storeVars, hubVars>>

HasMore(s) == socket[s].after + PageSize < event_seq[User(s)]

\* Events answers with the rows after the cursor, up to a page.
ReadPage(s) ==
    /\ socket[s].pc = "paging"
    /\ status[User(s)] = "active"
    /\ socket[s].after <= event_seq[User(s)]
    /\ socket' = [socket EXCEPT
           ![s].pc = "writing",
           ![s].more = HasMore(s),
           ![s].after = IF HasMore(s) THEN @ + PageSize
                                      ELSE event_seq[User(s)]]
    /\ UNCHANGED <<storeVars, hubVars>>

\* Events answers with an error, and the handler returns: the cursor is ahead
\* of the account or too far behind, the account is not active, or a query
\* fails.
PageFails(s) ==
    /\ socket[s].pc = "paging"
    /\ clients' = clients \ {s}
    /\ socket' = [socket EXCEPT ![s] = Returned(s)]
    /\ UNCHANGED <<storeVars, listener, notices, closed>>

MutantWriteFrame(s) ==
    /\ socket[s].pc = "writing"
    /\ socket' = [socket EXCEPT
           ![s].pc = IF socket[s].more THEN "paging" ELSE "serving",
           ![s].more = FALSE,
           ![s].wake = 0]
    /\ UNCHANGED <<storeVars, hubVars>>

\* The frame goes out, or is lost with the connection; then the next page, or
\* the select again.
WriteFrame(s) ==
    /\ socket[s].pc = "writing"
    /\ socket' = [socket EXCEPT
           ![s].pc = IF socket[s].more THEN "paging" ELSE "serving",
           ![s].more = FALSE]
    /\ UNCHANGED <<storeVars, hubVars>>

\* The peer hangs up, or its pong does not come within 75 seconds.
Hangup(s) ==
    /\ s \in clients
    /\ socket[s].open
    /\ socket' = [socket EXCEPT ![s].open = FALSE]
    /\ UNCHANGED <<storeVars, hubVars>>

\* The reader goroutine fails on a closed connection and cancels the context.
ReaderFails(s) ==
    /\ s \in clients
    /\ ~ socket[s].open
    /\ ~ socket[s].cancelled
    /\ socket' = [socket EXCEPT ![s].cancelled = TRUE]
    /\ UNCHANGED <<storeVars, hubVars>>

\* The access token the ticket was bought with expires.
Expire(s) ==
    /\ s \in clients
    /\ ~ socket[s].cancelled
    /\ socket' = [socket EXCEPT ![s].cancelled = TRUE]
    /\ UNCHANGED <<storeVars, hubVars>>

\* The handler returns from its loop: the context is done, a write or a ping
\* fails on the closed connection, or the account is no longer active.
Ends(s) ==
    \/ socket[s].cancelled
    \/ ~ socket[s].open
    \/ status[User(s)] # "active"

MutantReturn(s) ==
    /\ socket[s].pc = "paging"
    /\ Ends(s)
    /\ clients' = clients \ {s}
    /\ socket' = [socket EXCEPT ![s] = Returned(s)]
    /\ UNCHANGED <<storeVars, listener, notices, closed>>

Return(s) ==
    /\ Serving(s)
    /\ Ends(s)
    /\ clients' = clients \ {s}
    /\ socket' = [socket EXCEPT ![s] = Returned(s)]
    /\ UNCHANGED <<storeVars, listener, notices, closed>>

----------------------------------------------------------------------------

StoreNext ==
    \/ \E u \in Accounts : Emit(u) \/ Suspend(u) \/ SignOut(u)
    \/ \E k \in Tickets : handleTicket(k) \/ TicketExpires(k)

HubNext ==
    \/ Listen \/ SignalAll \/ ListenerFails \/ Tick \/ Close
    \/ \E n \in notices : Deliver(n)

HandlerNext(s) ==
    \/ \E k \in Tickets : RedeemTicket(s, k)
    \/ Register(s) \/ Refuse(s)
    \/ InitialWake(s) \/ TakeWake(s) \/ ReadPage(s) \/ WriteFrame(s)
    \/ PageFails(s) \/ Return(s)
    \/ Hangup(s) \/ ReaderFails(s) \/ Expire(s)

Next == StoreNext \/ HubNext \/ \E s \in Sockets : HandlerNext(s)

Spec == Init /\ [][Next]_vars

\* Go runs every goroutine that can run, and the ticker keeps ticking until
\* shutdown.  Events answers, with a page or an error.  Nothing makes the
\* database connection stay up.
Fairness ==
    /\ WF_vars(Tick)
    /\ WF_vars(Listen)
    /\ WF_vars(SignalAll)
    /\ \A s \in Sockets :
          /\ WF_vars(Register(s))
          /\ WF_vars(Refuse(s))
          /\ WF_vars(InitialWake(s))
          /\ WF_vars(TakeWake(s))
          /\ WF_vars(ReadPage(s) \/ PageFails(s))
          /\ WF_vars(WriteFrame(s))
          /\ WF_vars(Return(s))
          /\ WF_vars(ReaderFails(s))

FairSpec == Spec /\ Fairness

----------------------------------------------------------------------------

\* A handler that waits for a wake-up has nothing to send, or the wake-up is
\* on its way: a signal that arrives while a page is being sent is kept.
NoLostWake ==
    \A s \in Sockets :
        socket[s].pc = "serving" /\ socket[s].after < event_seq[User(s)] =>
            \/ socket[s].wake > 0
            \/ listener # "up"
            \/ [kind |-> "wake", user |-> User(s)] \in notices

\* Slots are taken and given back with the handlers: never more than the two
\* limits, and a slot is held exactly while a handler is past registration.
SlotsBounded ==
    /\ Cardinality(clients) <= Total
    /\ \A u \in Accounts :
           Cardinality({s \in clients : User(s) = u}) <= PerUser
    /\ clients = {s \in Sockets : socket[s].pc = "registered" \/ Serving(s)}

\* A ticket opens one socket at most, whoever presents it again.
TicketOnce ==
    \A s, t \in Sockets :
        socket[s].ticket = socket[t].ticket /\ socket[s].ticket # NoTicket
            => s = t

\* "Missed notifications recover from the database": a socket being served
\* gets up to date, or ends, even if the listener keeps failing.
CatchesUp ==
    \A s \in Sockets :
        Serving(s) ~> ~ Serving(s) \/ socket[s].after = event_seq[User(s)]

\* A socket being served ends once its token expires, its connection or the
\* hub is closed, or its account is suspended.
EndedSocketsReturn ==
    \A s \in Sockets :
        Serving(s) /\ (socket[s].cancelled \/ closed \/ status[User(s)] # "active")
            ~> s \notin clients

\* "Access-token expiry closes the socket": a socket that was registered and
\* signalled before its own first send never reaches the select that would
\* see the deadline.
ExpiryClosesSocket ==
    \A s \in Sockets : s \in clients /\ socket[s].cancelled ~> s \notin clients
=============================================================================

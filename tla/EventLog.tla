------------------------------ MODULE EventLog ------------------------------
(***************************************************************************)
(* One account's event log: the user_events rows and users.event_seq, the  *)
(* transactions that append to it through chatlog.Emit, the prune that     *)
(* deletes old rows, and the devices that follow it through Bootstrap and  *)
(* Events.  Each SQL statement outside a transaction is a step of its own: *)
(* Events runs three of them on the pool.                                  *)
(***************************************************************************)
EXTENDS Naturals, FiniteSets

CONSTANTS
    Writers,     \* concurrent transactions that emit to this account
    Devices,     \* the account's devices
    PageSize,    \* events per page (100 in the code)
    Retention,   \* eventRetentionDays, in clock units
    MaxEvents,   \* bound: events ever committed
    MaxTime      \* bound: clock ticks

ASSUME EventLogAssumption ==
    /\ PageSize \in Nat \ {0}
    /\ Retention \in Nat
    /\ MaxEvents \in Nat
    /\ MaxTime \in Nat

VARIABLES
    clock,      \* the database's now()
    event_seq,  \* users.event_seq, committed
    rows,       \* committed user_events rows: [seq, created_at]
    tx,         \* the transaction of each writer
    device,     \* the cursor of each device, and the Events call it is in
    pruned,     \* history: positions the prune has deleted
    known       \* history: positions a device has applied, whether from a
                \* snapshot or as events

logVars == <<clock, event_seq, rows, tx, device, pruned, known>>

EventRow == [seq : 1..event_seq, created_at : 0..clock]

\* seq is the position that the transaction has been given and not published.
Tx == [pc : {"idle", "begun", "locked"}, now : 0..clock, seq : Nat]

NoTx == [pc |-> "idle", now |-> 0, seq |-> 0]

Device == [pc : {"new", "ready", "asked", "fresh", "gone"},
           cursor : 0..event_seq, current : 0..event_seq]

LogTypeOK ==
    /\ clock \in Nat
    /\ event_seq \in Nat
    /\ rows \subseteq EventRow
    /\ tx \in [Writers -> Tx]
    /\ device \in [Devices -> Device]
    /\ pruned \subseteq 1..event_seq
    /\ known \in [Devices -> SUBSET (1..event_seq)]

LogInit ==
    /\ clock = 0
    /\ event_seq = 0
    /\ rows = {}
    /\ tx = [w \in Writers |-> NoTx]
    /\ device = [d \in Devices |-> [pc |-> "new", cursor |-> 0, current |-> 0]]
    /\ pruned = {}
    /\ known = [d \in Devices |-> {}]

Tick ==
    /\ clock < MaxTime
    /\ clock' = clock + 1
    /\ UNCHANGED <<event_seq, rows, tx, device, pruned, known>>

----------------------------------------------------------------------------

\* now() is the time the transaction started, and created_at defaults to it.
Begin(w) ==
    /\ tx[w].pc = "idle"
    /\ tx' = [tx EXCEPT ![w].pc = "begun", ![w].now = clock]
    /\ UNCHANGED <<clock, event_seq, rows, device, pruned, known>>

\* Bug: the next number of a counter that nobody waits for, as a sequence
\* would give it, instead of the locked row.
MutantAllocate(w) ==
    LET locked == {v \in Writers : tx[v].pc = "locked"}
    IN  /\ tx[w].pc = "begun"
        /\ event_seq + Cardinality(locked) < MaxEvents
        /\ tx' = [tx EXCEPT ![w].pc = "locked",
                             ![w].seq = event_seq + Cardinality(locked) + 1]
        /\ UNCHANGED <<clock, event_seq, rows, device, pruned, known>>

\* update users set event_seq = event_seq + 1 ... returning event_seq: the
\* position is fixed here.  The update waits for the row lock, which is held
\* to the end of the transaction.
Allocate(w) ==
    /\ tx[w].pc = "begun"
    /\ \A v \in Writers : tx[v].pc # "locked"
    /\ event_seq < MaxEvents
    /\ tx' = [tx EXCEPT ![w].pc = "locked", ![w].seq = event_seq + 1]
    /\ UNCHANGED <<clock, event_seq, rows, device, pruned, known>>

\* The row, at the position that was given, and the counter become visible.
Commit(w) ==
    /\ tx[w].pc = "locked"
    /\ event_seq' = tx[w].seq
    /\ rows' = rows \cup {[seq |-> tx[w].seq, created_at |-> tx[w].now]}
    /\ tx' = [tx EXCEPT ![w] = NoTx]
    /\ UNCHANGED <<clock, device, pruned, known>>

\* A transaction may fail before or after Emit: insert re-checks both
\* accounts once their rows are locked, and enqueue may fail.
Rollback(w) ==
    /\ tx[w].pc # "idle"
    /\ tx' = [tx EXCEPT ![w] = NoTx]
    /\ UNCHANGED <<clock, event_seq, rows, device, pruned, known>>

\* prune: one delete by age.
Prune ==
    LET old == {r \in rows : r.created_at + Retention < clock}
    IN  /\ old # {}
        /\ rows' = rows \ old
        /\ pruned' = pruned \cup {r.seq : r \in old}
        /\ UNCHANGED <<clock, event_seq, tx, device, known>>

----------------------------------------------------------------------------

\* One repeatable-read snapshot: the threads show what was ever committed, and
\* the cursor is the counter that the same snapshot sees.
Bootstrap(d) ==
    /\ device[d].pc \in {"new", "ready", "gone"}
    /\ device' = [device EXCEPT ![d] = [pc |-> "ready", cursor |-> event_seq,
                                        current |-> 0]]
    /\ known' = [known EXCEPT ![d] = @ \cup {r.seq : r \in rows} \cup pruned]
    /\ UNCHANGED <<clock, event_seq, rows, tx, pruned>>

\* Events, first query: how far the account is.
AskCurrent(d) ==
    /\ device[d].pc = "ready"
    /\ device' = [device EXCEPT ![d].pc = "asked", ![d].current = event_seq]
    /\ UNCHANGED <<clock, event_seq, rows, tx, pruned, known>>

\* Events, second query: whether the cursor lies before what is still kept.
Stale(after, current) ==
    \/ rows = {} /\ after < current
    \/ rows # {} /\ \A r \in rows : after + 1 < r.seq

AskOldest(d) ==
    /\ device[d].pc = "asked"
    /\ device' = [device EXCEPT
           ![d].pc = IF Stale(device[d].cursor, device[d].current)
                     THEN "gone" ELSE "fresh"]
    /\ UNCHANGED <<clock, event_seq, rows, tx, pruned, known>>

\* The rows after a cursor up to a position.
Page(after, last) == {r \in rows : after < r.seq /\ r.seq <= last}

\* last is where a page ends: at the PageSize-th row, or at the last one.
EndsPage(after, last) ==
    LET page == Page(after, last)
    IN  /\ Cardinality(page) <= PageSize
        /\ IF page = {} THEN last = after ELSE \E r \in page : r.seq = last
        /\ Cardinality(page) < PageSize => \A r \in rows : r.seq <= last
                                                        \/ r.seq <= after

MutantAskPage(d) ==
    /\ device[d].pc = "fresh"
    /\ \E last \in device[d].cursor..event_seq :
        /\ EndsPage(device[d].cursor, last)
        /\ device' = [device EXCEPT ![d].pc = "ready",
                                    ![d].cursor = device[d].current]
        /\ known' = [known EXCEPT
               ![d] = @ \cup {r.seq : r \in Page(device[d].cursor, last)}]
    /\ UNCHANGED <<clock, event_seq, rows, tx, pruned>>

\* Events, third query: the page, which the device applies.
AskPage(d) ==
    /\ device[d].pc = "fresh"
    /\ \E last \in device[d].cursor..event_seq :
        /\ EndsPage(device[d].cursor, last)
        /\ device' = [device EXCEPT ![d].pc = "ready", ![d].cursor = last]
        /\ known' = [known EXCEPT
               ![d] = @ \cup {r.seq : r \in Page(device[d].cursor, last)}]
    /\ UNCHANGED <<clock, event_seq, rows, tx, pruned>>

\* The request fails, or its answer is lost: the device keeps its cursor and
\* will ask again.
LoseAnswer(d) ==
    /\ device[d].pc \in {"asked", "fresh"}
    /\ device' = [device EXCEPT ![d].pc = "ready"]
    /\ UNCHANGED <<clock, event_seq, rows, tx, pruned, known>>

LogNext ==
    \/ Tick
    \/ Prune
    \/ \E w \in Writers : Begin(w) \/ Allocate(w) \/ Commit(w) \/ Rollback(w)
    \/ \E d \in Devices : \/ Bootstrap(d) \/ AskCurrent(d) \/ AskOldest(d)
                          \/ AskPage(d) \/ LoseAnswer(d)

LogSpec == LogInit /\ [][LogNext]_logVars

----------------------------------------------------------------------------

\* Positions, though given before the commit, become visible in their order and
\* without holes: what was ever committed is exactly 1..event_seq, each
\* position once.  No cursor is ahead of event_seq, so nothing becomes visible
\* behind one (the row lock of Emit's update).
CommitOrder ==
    /\ {r.seq : r \in rows} \cup pruned = 1..event_seq
    /\ {r.seq : r \in rows} \cap pruned = {}
    /\ \A q, r \in rows : q.seq = r.seq => q = r

\* Whatever a device has moved past it has applied, unless the prune deleted
\* it: writers, lost answers and page boundaries never make a device skip.
SkipsOnlyPruned ==
    \A d \in Devices : 1..device[d].cursor \subseteq known[d] \cup pruned

=============================================================================

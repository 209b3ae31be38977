-------------------------------- MODULE Push --------------------------------
(***************************************************************************)
(* internal/chatpush: browser notifications.  A message and its jobs, one  *)
(* per subscription of the recipient, commit together; a worker looks at   *)
(* the database again, calls the provider and, when the provider says that *)
(* a subscription is gone, deletes it.  The job queue (River) is external: *)
(* it runs a job again after an error or the death of a worker, up to      *)
(* MaxAttempts times.                                                      *)
(***************************************************************************)
EXTENDS Naturals

CONSTANTS
    Users,
    Messages,
    Endpoints,     \* browsers' push endpoints
    Ids,           \* chat_push_subscriptions.id
    MaxAttempts,   \* river.InsertOpts (8 in the code)
    None

ASSUME PushAssumption ==
    /\ MaxAttempts \in Nat \ {0}
    /\ None \notin Users \cup Endpoints

VARIABLES
    subs,      \* chat_push_subscriptions by id: absent yet, a row, or deleted
    to,        \* whom a message was sent to
    settled,   \* messages that are read, or whose conversation has ended, for
               \* good: closed, declined, blocked, suspended, unmatched
    muted,     \* messages whose conversation the recipient has muted
    dead,      \* endpoints the provider no longer knows
    job,       \* the job of each message and subscription
    late       \* history: pushes of a job after its message was settled or
               \* its subscription deleted

vars == <<subs, to, settled, muted, dead, job, late>>

\* A job has as arguments a message and a subscription.
Jobs == Messages \X Ids

Row == [state : {"absent", "row", "deleted"},
        endpoint : Endpoints \cup {None}, user : Users \cup {None}]

NoRow == [state |-> "absent", endpoint |-> None, user |-> None]

Deleted == [state |-> "deleted", endpoint |-> None, user |-> None]

\* A job that runs has copied the subscription ("looked"), been answered with
\* success ("accepted") or with 404 or 410 ("gone").
Job == [pc : {"none", "queued", "looked", "accepted", "gone", "done",
              "discarded"},
        attempt : 0..MaxAttempts, endpoint : Endpoints \cup {None}]

NoJob == [pc |-> "none", attempt |-> 0, endpoint |-> None]

Queued(n) == [pc |-> "queued", attempt |-> n, endpoint |-> None]

Over(pc) == [pc |-> pc, attempt |-> 0, endpoint |-> None]

TypeOK ==
    /\ subs \in [Ids -> Row]
    /\ \A i, j \in Ids :
          subs[i].state = "row" /\ subs[j].state = "row"
              /\ subs[i].endpoint = subs[j].endpoint => i = j
    /\ to \in [Messages -> Users \cup {None}]
    /\ settled \subseteq Messages
    /\ muted \subseteq Messages
    /\ dead \subseteq Endpoints
    /\ job \in [Jobs -> Job]
    /\ late \in [Jobs -> Nat]

Init ==
    /\ subs = [i \in Ids |-> NoRow]
    /\ to = [m \in Messages |-> None]
    /\ settled = {}
    /\ muted = {}
    /\ dead = {}
    /\ job = [j \in Jobs |-> NoJob]
    /\ late = [j \in Jobs |-> 0]

----------------------------------------------------------------------------

HasRow(i) == subs[i].state = "row"

Without(ids) == [i \in Ids |-> IF i \in ids THEN Deleted ELSE subs[i]]

\* POST /chat/push: on conflict the row of the endpoint keeps its id and
\* becomes the caller's.
Subscribe(u, e) ==
    /\ IF \E i \in Ids : HasRow(i) /\ subs[i].endpoint = e
       THEN subs' = [i \in Ids |->
                        IF HasRow(i) /\ subs[i].endpoint = e
                        THEN [subs[i] EXCEPT !.user = u] ELSE subs[i]]
       ELSE \E i \in Ids :
               /\ subs[i].state = "absent"
               /\ subs' = [subs EXCEPT ![i] =
                              [state |-> "row", endpoint |-> e, user |-> u]]
    /\ UNCHANGED <<to, settled, muted, dead, job, late>>

\* DELETE /chat/push.
Unsubscribe(u, e) ==
    /\ subs' = Without({i \in Ids : /\ HasRow(i)
                                   /\ subs[i].endpoint = e
                                   /\ subs[i].user = u})
    /\ UNCHANGED <<to, settled, muted, dead, job, late>>

\* Enqueue, in the transaction that stores the message.
Enqueue(m, u) ==
    /\ to[m] = None
    /\ to' = [to EXCEPT ![m] = u]
    /\ job' = [j \in Jobs |->
                  IF j[1] = m /\ HasRow(j[2]) /\ subs[j[2]].user = u
                  THEN Queued(0) ELSE job[j]]
    /\ UNCHANGED <<subs, settled, muted, dead, late>>

Settle(m) ==
    /\ to[m] # None
    /\ settled' = settled \cup {m}
    /\ UNCHANGED <<subs, to, muted, dead, job, late>>

Mute(m, value) ==
    /\ muted' = IF value THEN muted \cup {m} ELSE muted \ {m}
    /\ UNCHANGED <<subs, to, settled, dead, job, late>>

\* The browser drops its subscription; the provider never takes it back.
EndpointDies(e) ==
    /\ dead' = dead \cup {e}
    /\ UNCHANGED <<subs, to, settled, muted, job, late>>

----------------------------------------------------------------------------

\* Bug: a job that runs again goes on with the subscription it has copied.
MutantAgain(t) ==
    IF t.attempt = MaxAttempts THEN Over("discarded")
    ELSE IF t.endpoint # None THEN [t EXCEPT !.pc = "looked"]
    ELSE [t EXCEPT !.pc = "queued"]

\* Bug: an error of the provider ends the job.
MutantAgainNever(t) == Over("done")

\* How a job goes on whose attempt has failed.
Again(t) ==
    IF t.attempt = MaxAttempts THEN Over("discarded") ELSE Queued(t.attempt)

\* The worker's query: what may be announced, and to whom.
Announceable(m, i) ==
    /\ HasRow(i)
    /\ subs[i].user = to[m]
    /\ m \notin settled
    /\ m \notin muted

\* Work begins with the recheck; a job that has nothing to say is done.
Look(j) ==
    /\ job[j].pc = "queued"
    /\ job' = [job EXCEPT ![j] =
                  IF Announceable(j[1], j[2])
                  THEN [pc |-> "looked", attempt |-> job[j].attempt + 1,
                        endpoint |-> subs[j[2]].endpoint]
                  ELSE Over("done")]
    /\ UNCHANGED <<subs, to, settled, muted, dead, late>>

\* The query fails, or the worker dies before it: an attempt is lost.
LookFails(j) ==
    /\ job[j].pc = "queued"
    /\ job' = [job EXCEPT ![j] = Again(Queued(job[j].attempt + 1))]
    /\ UNCHANGED <<subs, to, settled, muted, dead, late>>

\* The provider takes the notification, or knows the endpoint no longer.
Deliver(j) ==
    LET alive == job[j].endpoint \notin dead
    IN  /\ job[j].pc = "looked"
        /\ job' = [job EXCEPT ![j].pc = IF alive THEN "accepted" ELSE "gone"]
        /\ late' = IF alive /\ (j[1] \in settled \/ ~ HasRow(j[2]))
                   THEN [late EXCEPT ![j] = @ + 1] ELSE late
        /\ UNCHANGED <<subs, to, settled, muted, dead>>

\* The worker returns nil, and the queue records it.
Finish(j) ==
    /\ job[j].pc = "accepted"
    /\ job' = [job EXCEPT ![j] = Over("done")]
    /\ UNCHANGED <<subs, to, settled, muted, dead, late>>

\* Bug: the subscriptions of the recipient are deleted, not the one that died.
MutantDropped(j) == {i \in Ids : HasRow(i) /\ subs[i].user = to[j[1]]}

\* The rows that the worker deletes.
Dropped(j) == {i \in Ids : HasRow(i) /\ i = j[2]}

\* 404 or 410: the subscription is deleted and the job done.
Drop(j) ==
    /\ job[j].pc = "gone"
    /\ subs' = Without(Dropped(j))
    /\ job' = [job EXCEPT ![j] = Over("done")]
    /\ UNCHANGED <<to, settled, muted, dead, late>>

\* An error of the provider or the deletion, or a worker that died after any of
\* its steps: the queue runs the job again.
Fail(j) ==
    /\ job[j].pc \in {"looked", "accepted", "gone"}
    /\ job' = [job EXCEPT ![j] = Again(job[j])]
    /\ UNCHANGED <<subs, to, settled, muted, dead, late>>

Work(j) ==
    \/ Look(j) \/ Deliver(j) \/ Finish(j) \/ Drop(j)
    \/ LookFails(j) \/ Fail(j)

Next ==
    \/ \E u \in Users, e \in Endpoints : Subscribe(u, e) \/ Unsubscribe(u, e)
    \/ \E m \in Messages, u \in Users : Enqueue(m, u)
    \/ \E m \in Messages :
          Settle(m) \/ \E value \in BOOLEAN : Mute(m, value)
    \/ \E e \in Endpoints : EndpointDies(e)
    \/ \E j \in Jobs : Work(j)

Spec == Init /\ [][Next]_vars

\* The queue gives every job to a worker, and an attempt ends by its deadline.
FairSpec ==
    Spec /\ \A j \in Jobs : WF_vars(Work(j))

----------------------------------------------------------------------------

\* "the worker rechecks": however often its job is retried, a message that has
\* been read or whose conversation has ended, or a subscription that has been
\* deleted, is announced at most once more, by the attempt that was under way.
LateAtMostOnce ==
    \A j \in Jobs : late[j] <= 1

\* The worker deletes a subscription only when its endpoint is dead, whatever
\* is registered, unsubscribed or retried since the worker looked.  Whose the
\* row is by then it does not ask: the endpoint may be another account's.
OnlyDeadDropped ==
    [][\A i \in Ids, j \in Jobs :
          (/\ HasRow(i) /\ ~ HasRow(i)'
           /\ job[j].pc = "gone" /\ job'[j].pc = "done")
              => subs[i].endpoint \in dead]_vars

\* Nothing is forgotten: a job ends with its message announced or settled, the
\* conversation muted, the subscription gone or someone else's, the endpoint
\* dead, or its attempts used up.
Announced ==
    \A j \in Jobs :
        job[j].pc = "queued" ~>
            \/ ~ Announceable(j[1], j[2])
            \/ job[j].pc \in {"accepted", "discarded"}
            \/ subs[j[2]].endpoint \in dead
=============================================================================

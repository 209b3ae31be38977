---------------------------- MODULE DeliveryProofs ----------------------------
(***************************************************************************)
(* Theorems about how facts reach a device: Push, the notification of a    *)
(* browser, and EventLog, the log every device follows; for any messages,  *)
(* subscriptions, attempts, writers, devices and page size.                *)
(***************************************************************************)
EXTENDS Push, EventLog, TLAPS

----------------------------------------------------------------------------
\* Push.

\* What ends the announcing of a job, and never comes back.
Hopeless(j) == j[1] \in settled \/ subs[j[2]].state = "deleted"

\* A job that waits has an attempt left, and a row was inserted for it; a late
\* push leaves a job that can find nothing to announce, so one that has looked
\* was not late yet.
LateInv ==
    \A j \in Jobs :
        /\ job[j].pc = "queued" => job[j].attempt < MaxAttempts
        /\ job[j].pc # "none" => subs[j[2]].state # "absent"
        /\ late[j] \in {0, 1}
        /\ late[j] = 1 => Hopeless(j) /\ job[j].pc # "looked"

IInv == TypeOK /\ LateInv

LEMMA JobArgs == \A j \in Jobs : j[1] \in Messages /\ j[2] \in Ids
  BY DEF Jobs

LEMMA InitInv == Init => IInv
<1>1. NoRow \in Row /\ NoRow.state = "absent"
  BY DEF Row, NoRow
<1>2. NoJob \in Job /\ NoJob.pc = "none"
  BY PushAssumption DEF Job, NoJob
<1>3. SUFFICES ASSUME Init PROVE IInv
  OBVIOUS
<1>4. TypeOK
  BY <1>1, <1>2, <1>3 DEF Init, TypeOK
<1>5. LateInv
  BY <1>2, <1>3, JobArgs DEF Init, LateInv
<1>6. QED
  BY <1>4, <1>5 DEF IInv

----------------------------------------------------------------------------

\* How a job goes on, and how it is over.
LEMMA AgainFacts ==
    ASSUME NEW t \in Job
    PROVE  /\ Again(t) \in Job /\ Again(t).pc \in {"queued", "discarded"}
           /\ Again(t).pc = "queued" => Again(t).attempt < MaxAttempts
<1>1. t.attempt \in 0..MaxAttempts
  BY DEF Job
<1>2. CASE t.attempt = MaxAttempts
  BY <1>2, PushAssumption DEF Again, Over, Job
<1>3. CASE t.attempt # MaxAttempts
  <2>1. Again(t) = Queued(t.attempt)
    BY <1>3 DEF Again
  <2>2. t.attempt < MaxAttempts
    BY <1>1, <1>3, PushAssumption
  <2>3. QED
    BY <1>1, <2>1, <2>2, PushAssumption DEF Queued, Job
<1>4. QED
  BY <1>2, <1>3

LEMMA OverFacts == Over("done") \in Job /\ Over("done").pc = "done"
  BY PushAssumption DEF Over, Job

LEMMA DeletedFacts == Deleted \in Row /\ Deleted.state = "deleted"
  BY DEF Deleted, Row

\* Deleting rows, whichever: endpoints stay unique.
LEMMA WithoutFacts ==
    ASSUME TypeOK, NEW ids
    PROVE  /\ Without(ids) \in [Ids -> Row]
           /\ \A i \in Ids :
                 Without(ids)[i] = IF i \in ids THEN Deleted ELSE subs[i]
           /\ \A i, k \in Ids :
                 Without(ids)[i].state = "row" /\ Without(ids)[k].state = "row"
                     /\ Without(ids)[i].endpoint = Without(ids)[k].endpoint
                     => i = k
<1>1. \A i \in Ids : Without(ids)[i] = IF i \in ids THEN Deleted ELSE subs[i]
  BY DEF Without
<1>2. Without(ids) \in [Ids -> Row]
  BY DeletedFacts DEF Without, TypeOK
<1>3. QED
  BY <1>1, <1>2, DeletedFacts DEF TypeOK

----------------------------------------------------------------------------

\* Registering a browser touches one row and brings none back.
LEMMA SubscribeStep ==
    ASSUME IInv, NEW u \in Users, NEW e \in Endpoints, Subscribe(u, e)
    PROVE  IInv'
<1> USE DEF IInv
<1>1. /\ subs' \in [Ids -> Row]
      /\ \A i, k \in Ids :
            subs'[i].state = "row" /\ subs'[k].state = "row"
                /\ subs'[i].endpoint = subs'[k].endpoint => i = k
      /\ \A i \in Ids :
            /\ subs[i].state = "deleted" => subs'[i].state = "deleted"
            /\ subs[i].state # "absent" => subs'[i].state # "absent"
  <2>1. CASE \E i \in Ids : HasRow(i) /\ subs[i].endpoint = e
    <3>1. subs' = [i \in Ids |->
                      IF HasRow(i) /\ subs[i].endpoint = e
                      THEN [subs[i] EXCEPT !.user = u] ELSE subs[i]]
      BY <2>1 DEF Subscribe
    <3>2. ASSUME NEW i \in Ids
          PROVE  /\ subs'[i] \in Row
                 /\ subs'[i].state = subs[i].state
                 /\ subs'[i].endpoint = subs[i].endpoint
      <4>1. subs[i] \in Row
        BY DEF TypeOK
      <4>2. QED
        BY <3>1, <4>1 DEF Row
    <3>3. subs' \in [Ids -> Row]
      BY <3>1, <3>2
    <3>4. QED
      BY <3>2, <3>3 DEF TypeOK
  <2>2. CASE ~ \E i \in Ids : HasRow(i) /\ subs[i].endpoint = e
    <3> DEFINE new == [state |-> "row", endpoint |-> e, user |-> u]
    <3>1. PICK k \in Ids : subs[k].state = "absent"
                           /\ subs' = [subs EXCEPT ![k] = new]
      BY <2>2 DEF Subscribe
    <3>2. new \in Row /\ new.state = "row" /\ new.endpoint = e
      BY DEF Row
    <3> HIDE DEF new
    <3>3. \A i \in Ids : subs'[i] = IF i = k THEN new ELSE subs[i]
      BY <3>1 DEF TypeOK
    <3>4. subs' \in [Ids -> Row]
      BY <3>1, <3>2 DEF TypeOK
    <3>5. \A i, n \in Ids :
             subs'[i].state = "row" /\ subs'[n].state = "row"
                 /\ subs'[i].endpoint = subs'[n].endpoint => i = n
      BY <2>2, <3>2, <3>3 DEF TypeOK, HasRow
    <3>6. QED
      BY <3>1, <3>2, <3>3, <3>4, <3>5
  <2>3. QED
    BY <2>1, <2>2
<1>2. UNCHANGED <<to, settled, muted, dead, job, late>>
  BY DEF Subscribe
<1>3. TypeOK'
  BY <1>1, <1>2 DEF TypeOK
<1>4. LateInv'
  BY <1>1, <1>2, JobArgs DEF LateInv, Hopeless
<1>5. QED
  BY <1>3, <1>4

LEMMA UnsubscribeStep ==
    ASSUME IInv, NEW u \in Users, NEW e \in Endpoints, Unsubscribe(u, e)
    PROVE  IInv'
<1> USE DEF IInv
<1>1. PICK ids : subs' = Without(ids)
  BY DEF Unsubscribe
<1>2. UNCHANGED <<to, settled, muted, dead, job, late>>
  BY DEF Unsubscribe
<1>3. TypeOK'
  BY <1>1, <1>2, WithoutFacts DEF TypeOK
<1>4. LateInv'
  BY <1>1, <1>2, WithoutFacts, DeletedFacts, JobArgs DEF LateInv, Hopeless
<1>5. QED
  BY <1>3, <1>4

LEMMA EnqueueStep ==
    ASSUME IInv, NEW m \in Messages, NEW u \in Users, Enqueue(m, u)
    PROVE  IInv'
<1> USE DEF IInv
<1>1. /\ Queued(0) \in Job
      /\ Queued(0).pc = "queued" /\ Queued(0).attempt < MaxAttempts
  BY PushAssumption DEF Job, Queued
<1>2. \A j \in Jobs :
         job'[j] = IF j[1] = m /\ HasRow(j[2]) /\ subs[j[2]].user = u
                   THEN Queued(0) ELSE job[j]
  BY DEF Enqueue
<1>3. job' \in [Jobs -> Job]
  BY <1>1 DEF Enqueue, TypeOK
<1>4. to' \in [Messages -> Users \cup {None}]
  BY DEF Enqueue, TypeOK
<1>5. UNCHANGED <<subs, settled, muted, dead, late>>
  BY DEF Enqueue
<1>6. TypeOK'
  BY <1>3, <1>4, <1>5 DEF TypeOK
<1>7. LateInv'
  BY <1>1, <1>2, <1>5 DEF LateInv, Hopeless, HasRow
<1>8. QED
  BY <1>6, <1>7

----------------------------------------------------------------------------

\* A job takes another form with the same count of late pushes; it may have
\* looked only if there was something to announce.
LEMMA QuietStep ==
    ASSUME IInv, NEW j \in Jobs, NEW t \in Job,
           job[j].pc # "none",
           t.pc = "queued" => t.attempt < MaxAttempts,
           t.pc = "looked" => Announceable(j[1], j[2]),
           job' = [job EXCEPT ![j] = t],
           UNCHANGED <<subs, to, settled, muted, dead, late>>
    PROVE  IInv'
<1> USE DEF IInv
<1>1. \A k \in Jobs : job'[k] = IF k = j THEN t ELSE job[k]
  BY DEF TypeOK
<1>2. TypeOK'
  BY DEF TypeOK
<1>3. LateInv'
  BY <1>1 DEF LateInv, Hopeless, Announceable, HasRow
<1>4. QED
  BY <1>2, <1>3

\* The recheck: a job goes on only if there is something left to announce.
LEMMA LookStep ==
    ASSUME IInv, NEW j \in Jobs, Look(j)
    PROVE  IInv'
<1>1. job[j] \in Job /\ job[j].pc = "queued"
  BY DEF IInv, TypeOK, Look
<1>2. UNCHANGED <<subs, to, settled, muted, dead, late>>
  BY DEF Look
<1>3. CASE Announceable(j[1], j[2])
  <2> DEFINE t == [pc |-> "looked", attempt |-> job[j].attempt + 1,
                   endpoint |-> subs[j[2]].endpoint]
  <2>1. job' = [job EXCEPT ![j] = t]
    BY <1>3 DEF Look
  <2>2. job[j].attempt + 1 \in 0..MaxAttempts
    BY <1>1, PushAssumption DEF IInv, LateInv, Job
  <2>3. subs[j[2]].endpoint \in Endpoints \cup {None}
    BY JobArgs DEF IInv, TypeOK, Row
  <2>4. t \in Job /\ t.pc = "looked"
    BY <2>2, <2>3 DEF Job
  <2> HIDE DEF t
  <2>5. QED
    BY <1>1, <1>2, <1>3, <2>1, <2>4, QuietStep
<1>4. CASE ~ Announceable(j[1], j[2])
  <2>1. job' = [job EXCEPT ![j] = Over("done")]
    BY <1>4 DEF Look
  <2>2. QED
    BY <1>1, <1>2, <2>1, OverFacts, QuietStep
<1>5. QED
  BY <1>3, <1>4

LEMMA LookFailsStep ==
    ASSUME IInv, NEW j \in Jobs, LookFails(j)
    PROVE  IInv'
<1> DEFINE t == Queued(job[j].attempt + 1)
<1>1. job[j] \in Job /\ job[j].pc = "queued"
  BY DEF IInv, TypeOK, LookFails
<1>2. job[j].attempt + 1 \in 0..MaxAttempts
  BY <1>1, PushAssumption DEF IInv, LateInv, Job
<1>3. t \in Job
  BY <1>2 DEF Job, Queued
<1>4. job' = [job EXCEPT ![j] = Again(t)]
  BY DEF LookFails
<1>5. UNCHANGED <<subs, to, settled, muted, dead, late>>
  BY DEF LookFails
<1> HIDE DEF t
<1>6. QED
  BY <1>1, <1>3, <1>4, <1>5, AgainFacts, QuietStep

LEMMA FailStep ==
    ASSUME IInv, NEW j \in Jobs, Fail(j)
    PROVE  IInv'
<1>1. job[j] \in Job /\ job[j].pc # "none"
  BY DEF IInv, TypeOK, Fail
<1>2. job' = [job EXCEPT ![j] = Again(job[j])]
  BY DEF Fail
<1>3. UNCHANGED <<subs, to, settled, muted, dead, late>>
  BY DEF Fail
<1>4. QED
  BY <1>1, <1>2, <1>3, AgainFacts, QuietStep

LEMMA FinishStep ==
    ASSUME IInv, NEW j \in Jobs, Finish(j)
    PROVE  IInv'
<1>1. job[j].pc # "none"
  BY DEF Finish
<1>2. job' = [job EXCEPT ![j] = Over("done")]
  BY DEF Finish
<1>3. UNCHANGED <<subs, to, settled, muted, dead, late>>
  BY DEF Finish
<1>4. QED
  BY <1>1, <1>2, <1>3, OverFacts, QuietStep

\* The one step that may be late: its job has looked, so it was not before.
LEMMA DeliverStep ==
    ASSUME IInv, NEW j \in Jobs, Deliver(j)
    PROVE  IInv'
<1> USE DEF IInv
<1>1. /\ job[j] \in Job /\ job[j].pc = "looked" /\ late[j] = 0
      /\ subs[j[2]].state # "absent"
  BY DEF TypeOK, LateInv, Deliver
<1>2. PICK pc \in {"accepted", "gone"} : job' = [job EXCEPT ![j].pc = pc]
  BY DEF Deliver
<1>3. UNCHANGED <<subs, to, settled, muted, dead>>
  BY DEF Deliver
<1>4. \/ late' = late
      \/ /\ j[1] \in settled \/ ~ HasRow(j[2])
         /\ late' = [late EXCEPT ![j] = 1]
  BY <1>1 DEF Deliver
<1> DEFINE t == [job[j] EXCEPT !.pc = pc]
<1>5. t \in Job /\ t.pc = pc
  BY <1>1 DEF Job
<1>6. job' = [job EXCEPT ![j] = t]
  BY <1>2
<1> HIDE DEF t
<1>7. \A k \in Jobs : job'[k] = IF k = j THEN t ELSE job[k]
  BY <1>6 DEF TypeOK
<1>8. \A k \in Jobs : late'[k] = late[k] \/ (k = j /\ late'[k] = 1)
  BY <1>4 DEF TypeOK
<1>9. job' \in [Jobs -> Job]
  BY <1>5, <1>6 DEF TypeOK
<1>10. late' \in [Jobs -> Nat]
  BY <1>4 DEF TypeOK
<1>11. TypeOK'
  BY <1>3, <1>9, <1>10 DEF TypeOK
<1>12. late'[j] = 1 => Hopeless(j)
  <2>1. subs[j[2]].state \in {"absent", "row", "deleted"}
    BY JobArgs DEF TypeOK, Row
  <2>2. QED
    BY <1>1, <1>4, <2>1 DEF Hopeless, HasRow
<1>13. LateInv'
  BY <1>1, <1>3, <1>5, <1>7, <1>8, <1>12 DEF LateInv, Hopeless
<1>14. QED
  BY <1>11, <1>13

\* Drop is the end of a job and the deletion of a row.
LEMMA DropStep ==
    ASSUME IInv, NEW j \in Jobs, Drop(j)
    PROVE  IInv'
<1> USE DEF IInv
<1>1. PICK ids : subs' = Without(ids)
  BY DEF Drop
<1>2. job[j].pc = "gone" /\ job' = [job EXCEPT ![j] = Over("done")]
  BY DEF Drop
<1>3. \A k \in Jobs : job'[k] = IF k = j THEN Over("done") ELSE job[k]
  BY <1>2 DEF TypeOK
<1>4. UNCHANGED <<to, settled, muted, dead, late>>
  BY DEF Drop
<1>5. job' \in [Jobs -> Job]
  BY <1>2, OverFacts DEF TypeOK
<1>6. TypeOK'
  BY <1>1, <1>4, <1>5, WithoutFacts DEF TypeOK
<1>7. \A i \in Ids :
         /\ subs[i].state = "deleted" => subs'[i].state = "deleted"
         /\ subs[i].state # "absent" => subs'[i].state # "absent"
  BY <1>1, WithoutFacts, DeletedFacts
<1>8. LateInv'
  BY <1>2, <1>3, <1>4, <1>7, OverFacts, JobArgs DEF LateInv, Hopeless
<1>9. QED
  BY <1>6, <1>8

----------------------------------------------------------------------------

LEMMA StepInv ==
    ASSUME IInv, [Next]_vars
    PROVE  IInv'
<1>1. CASE UNCHANGED vars
  BY <1>1 DEF vars, IInv, TypeOK, LateInv, Hopeless
<1>2. ASSUME NEW m \in Messages, Settle(m)
      PROVE  IInv'
  BY <1>2 DEF Settle, IInv, TypeOK, LateInv, Hopeless
<1>3. ASSUME NEW m \in Messages, NEW value \in BOOLEAN, Mute(m, value)
      PROVE  IInv'
  BY <1>3 DEF Mute, IInv, TypeOK, LateInv, Hopeless
<1>4. ASSUME NEW e \in Endpoints, EndpointDies(e)
      PROVE  IInv'
  BY <1>4 DEF EndpointDies, IInv, TypeOK, LateInv, Hopeless
<1>5. ASSUME NEW j \in Jobs, Work(j)
      PROVE  IInv'
  BY <1>5, LookStep, DeliverStep, FinishStep, DropStep, LookFailsStep, FailStep
  DEF Work
<1>6. QED
  BY <1>1, <1>2, <1>3, <1>4, <1>5, SubscribeStep, UnsubscribeStep, EnqueueStep
  DEF Next

LEMMA Invariant == Spec => []IInv
  BY InitInv, StepInv, PTL DEF Spec

\* The types of the subscriptions, jobs and counts, whatever browsers, members,
\* the provider and the queue do (internal/chatpush).
THEOREM PushTypesCorrect == Spec => []TypeOK
<1>1. IInv => TypeOK
  BY DEF IInv
<1>2. QED
  BY Invariant, <1>1, PTL

\* However many attempts the queue allows, what a worker rechecks holds: once a
\* message is settled or a subscription deleted, a job announces it at most
\* once more (Worker.Work).
THEOREM LateAtMostOnceAlways == Spec => []LateAtMostOnce
<1>1. IInv => LateAtMostOnce
  BY DEF IInv, LateInv, LateAtMostOnce
<1>2. QED
  BY Invariant, <1>1, PTL
----------------------------------------------------------------------------

\* A job that has copied its subscription has the endpoint the row still has,
\* and one that was told 404 or 410 an endpoint that is dead.
CopyInv ==
    \A j \in Jobs :
        /\ /\ job[j].pc \in {"looked", "accepted", "gone"}
           /\ subs[j[2]].state = "row"
           => subs[j[2]].endpoint = job[j].endpoint
        /\ job[j].pc = "gone" => job[j].endpoint \in dead

\* An id never names another endpoint, and an endpoint never comes back.
LEMMA RowsKeep ==
    ASSUME IInv, [Next]_vars
    PROVE  /\ dead \subseteq dead'
           /\ \A i \in Ids :
                 subs[i].state # "absent" /\ subs'[i].state = "row"
                 => subs[i].state = "row" /\ subs'[i].endpoint = subs[i].endpoint
<1> DEFINE Keeps ==
        /\ dead \subseteq dead'
        /\ \A i \in Ids :
              subs[i].state # "absent" /\ subs'[i].state = "row"
              => subs[i].state = "row" /\ subs'[i].endpoint = subs[i].endpoint
<1>1. ASSUME UNCHANGED subs, dead \subseteq dead' PROVE Keeps
  BY <1>1
<1>2. ASSUME NEW ids, subs' = Without(ids), UNCHANGED dead PROVE Keeps
  BY <1>2, WithoutFacts, DeletedFacts DEF IInv
<1>3. ASSUME NEW u \in Users, NEW e \in Endpoints, Subscribe(u, e)
      PROVE  Keeps
  <2>1. CASE \E i \in Ids : HasRow(i) /\ subs[i].endpoint = e
    <3>1. subs' = [i \in Ids |->
                      IF HasRow(i) /\ subs[i].endpoint = e
                      THEN [subs[i] EXCEPT !.user = u] ELSE subs[i]]
      BY <1>3, <2>1 DEF Subscribe
    <3>2. ASSUME NEW i \in Ids
          PROVE  /\ subs'[i].state = subs[i].state
                 /\ subs'[i].endpoint = subs[i].endpoint
      <4>1. subs[i] \in Row
        BY DEF IInv, TypeOK
      <4>2. QED
        BY <3>1, <4>1 DEF Row
    <3>3. QED
      BY <1>3, <3>2 DEF Subscribe
  <2>2. CASE ~ \E i \in Ids : HasRow(i) /\ subs[i].endpoint = e
    <3>1. PICK k \in Ids : subs[k].state = "absent"
             /\ subs' = [subs EXCEPT ![k] =
                            [state |-> "row", endpoint |-> e, user |-> u]]
      BY <1>3, <2>2 DEF Subscribe
    <3>2. \A i \in Ids \ {k} : subs'[i] = subs[i]
      BY <3>1 DEF IInv, TypeOK
    <3>3. QED
      BY <1>3, <3>1, <3>2 DEF Subscribe
  <2>3. QED
    BY <2>1, <2>2
<1>4. ASSUME NEW j \in Jobs, Work(j) PROVE Keeps
  BY <1>1, <1>2, <1>4
     DEF Work, Look, Deliver, Finish, Drop, LookFails, Fail
<1>5. CASE UNCHANGED vars
  BY <1>1, <1>5 DEF vars
<1>6. CASE Next
  BY <1>1, <1>2, <1>3, <1>4, <1>6
     DEF Next, Unsubscribe, Enqueue, Settle, Mute, EndpointDies
<1>7. QED
  BY <1>5, <1>6

\* How a job comes to hold a copy, an answer, or nothing.
LEMMA JobMoves ==
    ASSUME IInv, [Next]_vars, NEW j \in Jobs
    PROVE  \/ job'[j] = job[j]
           \/ job'[j].pc \in {"queued", "discarded"}
           \/ Finish(j) /\ job'[j].pc = "done"
           \/ Drop(j) /\ job'[j].pc = "done"
           \/ Look(j) /\ job'[j].pc = "done"
           \/ /\ HasRow(j[2]) /\ UNCHANGED subs
              /\ job'[j].pc = "looked"
              /\ job'[j].endpoint = subs[j[2]].endpoint
           \/ /\ job[j].pc = "looked" /\ UNCHANGED <<subs, dead>>
              /\ job'[j].endpoint = job[j].endpoint
              /\ \/ job'[j].pc = "accepted"
                 \/ job'[j].pc = "gone" /\ job[j].endpoint \in dead
<1> DEFINE Moves ==
           \/ job'[j] = job[j]
           \/ job'[j].pc \in {"queued", "discarded"}
           \/ Finish(j) /\ job'[j].pc = "done"
           \/ Drop(j) /\ job'[j].pc = "done"
           \/ Look(j) /\ job'[j].pc = "done"
           \/ /\ HasRow(j[2]) /\ UNCHANGED subs
              /\ job'[j].pc = "looked"
              /\ job'[j].endpoint = subs[j[2]].endpoint
           \/ /\ job[j].pc = "looked" /\ UNCHANGED <<subs, dead>>
              /\ job'[j].endpoint = job[j].endpoint
              /\ \/ job'[j].pc = "accepted"
                 \/ job'[j].pc = "gone" /\ job[j].endpoint \in dead
<1>1. job \in [Jobs -> Job]
  BY DEF IInv, TypeOK
<1>2. ASSUME NEW m \in Messages, NEW u \in Users, Enqueue(m, u) PROVE Moves
  BY <1>2 DEF Enqueue, Queued
<1>3. ASSUME NEW k \in Jobs, Work(k), k # j PROVE Moves
  BY <1>1, <1>3 DEF Work, Look, Deliver, Finish, Drop, LookFails, Fail
<1>4. CASE Work(j)
  <2>1. CASE Look(j)
    <3>1. CASE Announceable(j[1], j[2])
      BY <1>1, <2>1, <3>1 DEF Look, Announceable
    <3>2. CASE ~ Announceable(j[1], j[2])
      <4>1. job'[j] = Over("done")
        BY <1>1, <2>1, <3>2 DEF Look
      <4>2. QED
        BY <2>1, <4>1, OverFacts
    <3>3. QED
      BY <3>1, <3>2
  <2>2. CASE Deliver(j)
    <3>1. job[j].pc = "looked" /\ UNCHANGED <<subs, dead>>
      BY <2>2 DEF Deliver
    <3>2. CASE job[j].endpoint \in dead
      <4>1. job'[j] = [job[j] EXCEPT !.pc = "gone"]
        BY <1>1, <2>2, <3>2 DEF Deliver
      <4>2. job'[j].pc = "gone" /\ job'[j].endpoint = job[j].endpoint
        BY <1>1, <4>1 DEF Job
      <4>3. QED
        BY <3>1, <3>2, <4>2
    <3>3. CASE job[j].endpoint \notin dead
      <4>1. job'[j] = [job[j] EXCEPT !.pc = "accepted"]
        BY <1>1, <2>2, <3>3 DEF Deliver
      <4>2. job'[j].pc = "accepted" /\ job'[j].endpoint = job[j].endpoint
        BY <1>1, <4>1 DEF Job
      <4>3. QED
        BY <3>1, <4>2
    <3>4. QED
      BY <3>2, <3>3
  <2>3. CASE Finish(j)
    BY <1>1, <2>3, OverFacts DEF Finish
  <2>4. CASE Drop(j)
    BY <1>1, <2>4, OverFacts DEF Drop
  <2>5. CASE LookFails(j)
    <3>1. Queued(job[j].attempt + 1) \in Job
      <4>1. job[j] \in Job /\ job[j].attempt < MaxAttempts
        BY <1>1, <2>5 DEF IInv, LateInv, LookFails
      <4>2. job[j].attempt + 1 \in 0..MaxAttempts
        BY <4>1, PushAssumption DEF Job
      <4>3. QED
        BY <4>2 DEF Job, Queued
    <3>2. job'[j] = Again(Queued(job[j].attempt + 1))
      BY <1>1, <2>5 DEF LookFails
    <3>3. QED
      BY <3>1, <3>2, AgainFacts
  <2>6. CASE Fail(j)
    <3>1. job'[j] = Again(job[j])
      BY <1>1, <2>6 DEF Fail
    <3>2. QED
      BY <1>1, <3>1, AgainFacts
  <2>7. QED
    BY <1>4, <2>1, <2>2, <2>3, <2>4, <2>5, <2>6 DEF Work
<1>5. CASE UNCHANGED job
  BY <1>5
<1>6. CASE Next
  BY <1>2, <1>3, <1>4, <1>5, <1>6
     DEF Next, Subscribe, Unsubscribe, Settle, Mute, EndpointDies
<1>7. QED
  BY <1>5, <1>6 DEF vars

LEMMA CopyInit == Init => CopyInv
<1>1. NoJob.pc = "none"
  BY DEF NoJob
<1>2. QED
  BY <1>1 DEF Init, CopyInv

LEMMA CopyStep ==
    ASSUME IInv, CopyInv, [Next]_vars PROVE CopyInv'
<1> SUFFICES ASSUME NEW j \in Jobs
             PROVE  /\ /\ job'[j].pc \in {"looked", "accepted", "gone"}
                       /\ subs'[j[2]].state = "row"
                       => subs'[j[2]].endpoint = job'[j].endpoint
                    /\ job'[j].pc = "gone" => job'[j].endpoint \in dead'
  BY DEF CopyInv
<1>1. j[2] \in Ids
  BY JobArgs
<1>2. job[j].pc # "none" => subs[j[2]].state # "absent"
  BY DEF IInv, LateInv
<1>3. CASE job'[j] = job[j]
  BY <1>1, <1>2, <1>3, RowsKeep DEF CopyInv
<1>4. CASE job'[j].pc \in {"queued", "discarded", "done"}
  BY <1>4
<1>5. CASE /\ HasRow(j[2]) /\ UNCHANGED subs
           /\ job'[j].pc = "looked"
           /\ job'[j].endpoint = subs[j[2]].endpoint
  BY <1>5
<1>6. CASE /\ job[j].pc = "looked" /\ UNCHANGED <<subs, dead>>
           /\ job'[j].endpoint = job[j].endpoint
           /\ \/ job'[j].pc = "accepted"
              \/ job'[j].pc = "gone" /\ job[j].endpoint \in dead
  BY <1>6 DEF CopyInv
<1>7. QED
  BY <1>3, <1>4, <1>5, <1>6, JobMoves

\* What the worker drops is the row it looked at, whose endpoint has died.
LEMMA DropsOnlyDead ==
    ASSUME IInv, CopyInv, [Next]_vars, NEW i \in Ids, NEW j \in Jobs,
           HasRow(i), ~ HasRow(i)', job[j].pc = "gone", job'[j].pc = "done"
    PROVE  subs[i].endpoint \in dead
<1>1. Drop(j)
  BY JobMoves DEF Finish, Look
<1>2. i \in Dropped(j)
  <2>1. subs' = Without(Dropped(j))
    BY <1>1 DEF Drop
  <2>2. subs'[i] = IF i \in Dropped(j) THEN Deleted ELSE subs[i]
    BY <2>1, WithoutFacts DEF IInv
  <2>3. QED
    BY <2>2 DEF HasRow
<1>3. i = j[2]
  BY <1>2 DEF Dropped
<1>4. QED
  BY <1>3 DEF CopyInv, HasRow

\* The worker deletes a subscription only when its endpoint is dead, whatever
\* is registered, unsubscribed or retried meanwhile, and whoever's the row is
\* by then (Worker.drop): OnlyDeadDropped.
THEOREM DropsOnlyTheDead == Spec => OnlyDeadDropped
<1>1. Spec => []CopyInv
  BY Invariant, CopyInit, CopyStep, PTL DEF Spec
<1>2. ASSUME IInv, CopyInv, [Next]_vars
      PROVE  [\A i \in Ids, j \in Jobs :
                 (/\ HasRow(i) /\ ~ HasRow(i)'
                  /\ job[j].pc = "gone" /\ job'[j].pc = "done")
                 => subs[i].endpoint \in dead]_vars
  BY <1>2, DropsOnlyDead
<1>3. QED
  BY <1>1, <1>2, Invariant, PTL DEF Spec, OnlyDeadDropped

----------------------------------------------------------------------------
\* The event log.

\* The row lock of users: one transaction at a time has a position that is not
\* published, and the counter has not moved since it was given.
Allocated ==
    \A w \in Writers : tx[w].pc = "locked" =>
        /\ tx[w].seq = event_seq + 1
        /\ \A v \in Writers : tx[v].pc = "locked" => v = w

\* The types, the lock and the two properties are inductive together.
LogInv == LogTypeOK /\ Allocated /\ CommitOrder /\ SkipsOnlyPruned

LEMMA LogInitInv == LogInit => LogInv
<1> SUFFICES ASSUME LogInit PROVE LogInv
  OBVIOUS
<1>1. LogTypeOK
  BY DEF LogInit, LogTypeOK, EventRow, Tx, NoTx, Device
<1>2. Allocated /\ CommitOrder /\ SkipsOnlyPruned
  BY DEF LogInit, NoTx, Allocated, CommitOrder, SkipsOnlyPruned
<1>3. QED
  BY <1>1, <1>2 DEF LogInv

\* A position is that of a row, or pruned.
LEMMA RowOrPruned ==
    ASSUME LogInv, NEW n \in 1..event_seq
    PROVE  n \in pruned \/ \E r \in rows : r.seq = n
BY DEF LogInv, CommitOrder

\* Time, and writers before their commit, leave the log and the devices alone.
LEMMA WriterKeeps ==
    ASSUME LogInv, Tick \/ \E w \in Writers :
                       Begin(w) \/ Allocate(w) \/ Rollback(w)
    PROVE  LogInv'
<1>1. /\ event_seq' = event_seq /\ rows' = rows /\ device' = device
      /\ pruned' = pruned /\ known' = known
      /\ clock' \in Nat /\ clock <= clock'
  <2>1. clock \in Nat
    BY DEF LogInv, LogTypeOK
  <2>2. CASE Tick
    BY <2>1, <2>2 DEF Tick
  <2>3. ASSUME NEW w \in Writers, Begin(w) \/ Allocate(w) \/ Rollback(w)
        PROVE  <1>1!:
    BY <2>1, <2>3 DEF Begin, Allocate, Rollback
  <2>4. QED
    BY <2>2, <2>3
<1>2. tx' \in [Writers -> Tx'] /\ Allocated'
  <2>1. tx \in [Writers -> Tx] /\ clock \in Nat /\ event_seq \in Nat
    BY DEF LogInv, LogTypeOK
  <2>2. Tx \subseteq Tx'
    BY <1>1, <2>1 DEF Tx
  <2>3. tx \in [Writers -> Tx']
    BY <2>1, <2>2
  <2>4. CASE Tick
    BY <1>1, <2>3, <2>4 DEF Tick, Allocated, LogInv
  <2>5. ASSUME NEW w \in Writers, NEW r \in Tx', tx' = [tx EXCEPT ![w] = r],
               r.pc = "locked" =>
                   /\ r.seq = event_seq + 1
                   /\ \A v \in Writers : tx[v].pc # "locked"
        PROVE  tx' \in [Writers -> Tx'] /\ Allocated'
    <3>1. tx' \in [Writers -> Tx']
      BY <2>3, <2>5
    <3>2. \A v \in Writers : tx'[v] = IF v = w THEN r ELSE tx[v]
      BY <2>1, <2>5
    <3>3. Allocated'
      BY <1>1, <2>5, <3>2 DEF Allocated, LogInv
    <3>4. QED
      BY <3>1, <3>3
  <2>6. ASSUME NEW w \in Writers, Begin(w)
        PROVE  tx' \in [Writers -> Tx'] /\ Allocated'
    <3> DEFINE r == [tx[w] EXCEPT !.pc = "begun", !.now = clock]
    <3>1. r \in Tx' /\ r.pc = "begun"
      <4>1. tx[w] \in Tx' /\ clock \in 0..clock'
        BY <1>1, <2>1, <2>3
      <4>2. r \in Tx'
        <5>1. \A t \in Tx', n \in 0..clock' :
                  [t EXCEPT !.pc = "begun", !.now = n] \in Tx'
          BY DEF Tx
        <5>2. QED
          BY <4>1, <5>1
      <4>3. r.pc = "begun"
        BY <4>1 DEF Tx
      <4>4. QED
        BY <4>2, <4>3
    <3>2. tx' = [tx EXCEPT ![w] = r]
      BY <2>6 DEF Begin
    <3> HIDE DEF r
    <3>3. QED
      BY <2>5, <3>1, <3>2
  <2>7. ASSUME NEW w \in Writers, Allocate(w)
        PROVE  tx' \in [Writers -> Tx'] /\ Allocated'
    <3> DEFINE r == [tx[w] EXCEPT !.pc = "locked", !.seq = event_seq + 1]
    <3>1. r \in Tx' /\ r.seq = event_seq + 1
      <4>1. tx[w] \in Tx'
        BY <2>3
      <4>2. r \in Tx'
        <5>1. \A t \in Tx', n \in Nat :
                  [t EXCEPT !.pc = "locked", !.seq = n] \in Tx'
          BY DEF Tx
        <5>2. event_seq + 1 \in Nat
          BY <2>1
        <5>3. QED
          BY <4>1, <5>1, <5>2
      <4>3. r.seq = event_seq + 1
        BY <4>1 DEF Tx
      <4>4. QED
        BY <4>2, <4>3
    <3>2. tx' = [tx EXCEPT ![w] = r]
      BY <2>7 DEF Allocate
    <3>3. \A v \in Writers : tx[v].pc # "locked"
      BY <2>7 DEF Allocate
    <3> HIDE DEF r
    <3>4. QED
      BY <2>5, <3>1, <3>2, <3>3
  <2>8. ASSUME NEW w \in Writers, Rollback(w)
        PROVE  tx' \in [Writers -> Tx'] /\ Allocated'
    <3>1. NoTx \in Tx' /\ NoTx.pc = "idle"
      BY <1>1 DEF NoTx, Tx
    <3>2. QED
      BY <2>5, <2>8, <3>1 DEF Rollback
  <2>9. QED
    BY <2>4, <2>6, <2>7, <2>8
<1>3. rows \subseteq EventRow'
  <2>1. EventRow \subseteq EventRow'
    BY <1>1 DEF EventRow, LogInv, LogTypeOK
  <2>2. QED
    BY <2>1 DEF LogInv, LogTypeOK
<1>4. LogTypeOK'
  BY <1>1, <1>2, <1>3 DEF LogInv, LogTypeOK, Device
<1>5. QED
  BY <1>1, <1>2, <1>4 DEF LogInv, CommitOrder, SkipsOnlyPruned

\* A commit publishes the position that was given to it, and because of the
\* lock that is still the next one: nothing appears behind a cursor.
LEMMA CommitKeeps ==
    ASSUME LogInv, NEW w \in Writers, Commit(w)
    PROVE  LogInv'
<1> DEFINE row == [seq |-> event_seq + 1, created_at |-> tx[w].now]
<1>0. tx[w].pc = "locked" /\ tx[w].seq = event_seq + 1
  BY DEF Commit, LogInv, Allocated
<1>1. /\ event_seq \in Nat /\ event_seq' = event_seq + 1
      /\ rows' = rows \cup {row} /\ tx[w] \in Tx
      /\ clock' = clock /\ device' = device /\ pruned' = pruned
      /\ known' = known
  BY <1>0 DEF LogInv, LogTypeOK, Commit
<1>2. row \in EventRow' /\ EventRow \subseteq EventRow'
  BY <1>1 DEF EventRow, Tx
<1>3. tx' \in [Writers -> Tx'] /\ Allocated'
  <2>1. NoTx \in Tx' /\ NoTx.pc = "idle" /\ Tx' = Tx
    BY <1>1 DEF LogInv, LogTypeOK, NoTx, Tx
  <2>2. tx \in [Writers -> Tx] /\ tx' = [tx EXCEPT ![w] = NoTx]
    BY DEF LogInv, LogTypeOK, Commit
  <2>3. \A v \in Writers : tx'[v].pc # "locked"
    BY <1>0, <2>1, <2>2 DEF LogInv, Allocated
  <2>4. QED
    BY <2>1, <2>2, <2>3 DEF Allocated
<1>4. device' \in [Devices -> Device']
  <2>1. Device \subseteq Device'
    BY <1>1 DEF Device
  <2>2. QED
    BY <1>1, <2>1 DEF LogInv, LogTypeOK
<1>5. /\ pruned' \subseteq 1..event_seq'
      /\ known' \in [Devices -> SUBSET (1..event_seq')]
  <2>1. 1..event_seq \subseteq 1..event_seq'
    BY <1>1
  <2>2. QED
    BY <1>1, <2>1 DEF LogInv, LogTypeOK
<1>6. LogTypeOK'
  BY <1>1, <1>2, <1>3, <1>4, <1>5 DEF LogInv, LogTypeOK
<1>7. row.seq = event_seq + 1
  OBVIOUS
<1>8. \A r \in rows : r.seq \in 1..event_seq
  BY DEF LogInv, LogTypeOK, EventRow
<1> HIDE DEF row
<1>9. CommitOrder'
  <2>1. {r.seq : r \in rows'} = {r.seq : r \in rows} \cup {event_seq + 1}
    BY <1>1, <1>7
  <2>2. 1..event_seq' = 1..event_seq \cup {event_seq + 1}
    BY <1>1
  <2>3. event_seq + 1 \notin pruned
    BY <1>1 DEF LogInv, LogTypeOK
  <2>4. \A q, r \in rows' : q.seq = r.seq => q = r
    BY <1>1, <1>7, <1>8 DEF LogInv, CommitOrder
  <2>5. QED
    BY <1>1, <2>1, <2>2, <2>3, <2>4 DEF LogInv, CommitOrder
<1>10. QED
  BY <1>1, <1>3, <1>6, <1>9 DEF LogInv, SkipsOnlyPruned

\* The prune turns rows into pruned positions.
LEMMA PruneKeeps == ASSUME LogInv, Prune PROVE LogInv'
<1> DEFINE old == {r \in rows : r.created_at + Retention < clock}
<1>1. /\ rows' = rows \ old /\ pruned' = pruned \cup {r.seq : r \in old}
      /\ clock' = clock /\ event_seq' = event_seq /\ tx' = tx
      /\ device' = device /\ known' = known
  BY DEF Prune
<1>2. old \subseteq rows
  OBVIOUS
<1> HIDE DEF old
<1>3. {r.seq : r \in old} \subseteq 1..event_seq
  BY <1>2 DEF LogInv, LogTypeOK, EventRow
<1>4. LogTypeOK'
  BY <1>1, <1>3 DEF LogInv, LogTypeOK, EventRow, Tx, Device
<1>5. CommitOrder'
  <2>1. {r.seq : r \in rows} = {r.seq : r \in rows'} \cup {r.seq : r \in old}
    BY <1>1, <1>2
  <2>2. {r.seq : r \in rows'} \cap {r.seq : r \in old} = {}
    BY <1>1, <1>2 DEF LogInv, CommitOrder
  <2>3. QED
    BY <1>1, <2>1, <2>2 DEF LogInv, CommitOrder
<1>6. QED
  BY <1>1, <1>4, <1>5 DEF LogInv, Allocated, SkipsOnlyPruned

\* Setting a field of one device's record changes no other.
LEMMA SetPc ==
    ASSUME NEW f \in [Devices -> Device], NEW d \in Devices,
           NEW pc \in {"ready", "asked", "fresh", "gone"}
    PROVE  /\ [f EXCEPT ![d].pc = pc] \in [Devices -> Device]
           /\ \A e \in Devices : [f EXCEPT ![d].pc = pc][e].cursor = f[e].cursor
<1>1. /\ [f[d] EXCEPT !.pc = pc] \in Device
      /\ [f[d] EXCEPT !.pc = pc].cursor = f[d].cursor
  BY DEF Device
<1>2. \A e \in Devices : [f EXCEPT ![d].pc = pc][e] =
                             IF e = d THEN [f[d] EXCEPT !.pc = pc] ELSE f[e]
  OBVIOUS
<1>3. QED
  BY <1>1, <1>2

LEMMA SetCurrent ==
    ASSUME NEW f \in [Devices -> Device], NEW d \in Devices,
           NEW n \in 0..event_seq
    PROVE  /\ [f EXCEPT ![d].current = n] \in [Devices -> Device]
           /\ \A e \in Devices :
                 [f EXCEPT ![d].current = n][e].cursor = f[e].cursor
<1>1. /\ [f[d] EXCEPT !.current = n] \in Device
      /\ [f[d] EXCEPT !.current = n].cursor = f[d].cursor
  BY DEF Device
<1>2. \A e \in Devices : [f EXCEPT ![d].current = n][e] =
                             IF e = d THEN [f[d] EXCEPT !.current = n] ELSE f[e]
  OBVIOUS
<1>3. QED
  BY <1>1, <1>2

LEMMA SetCursor ==
    ASSUME NEW f \in [Devices -> Device], NEW d \in Devices,
           NEW n \in 0..event_seq
    PROVE  /\ [f EXCEPT ![d].cursor = n] \in [Devices -> Device]
           /\ \A e \in Devices : [f EXCEPT ![d].cursor = n][e].cursor =
                                     IF e = d THEN n ELSE f[e].cursor
<1>1. /\ [f[d] EXCEPT !.cursor = n] \in Device
      /\ [f[d] EXCEPT !.cursor = n].cursor = n
  BY DEF Device
<1>2. \A e \in Devices : [f EXCEPT ![d].cursor = n][e] =
                             IF e = d THEN [f[d] EXCEPT !.cursor = n] ELSE f[e]
  OBVIOUS
<1>3. QED
  BY <1>1, <1>2

\* A step of a device that moves no cursor.
LEMMA DeviceAsks ==
    ASSUME LogInv, NEW d \in Devices,
           AskCurrent(d) \/ AskOldest(d) \/ LoseAnswer(d)
    PROVE  LogInv'
<1>1. /\ clock' = clock /\ event_seq' = event_seq /\ rows' = rows /\ tx' = tx
      /\ pruned' = pruned /\ known' = known
      /\ device \in [Devices -> Device] /\ event_seq \in 0..event_seq
  BY DEF LogInv, LogTypeOK, AskCurrent, AskOldest, LoseAnswer
<1>2. /\ device' \in [Devices -> Device]
      /\ \A e \in Devices : device'[e].cursor = device[e].cursor
  <2>1. CASE AskCurrent(d)
    <3> DEFINE f == [device EXCEPT ![d].pc = "asked"]
    <3>1. f \in [Devices -> Device]
          /\ \A e \in Devices : f[e].cursor = device[e].cursor
      BY <1>1, SetPc
    <3>2. device' = [f EXCEPT ![d].current = event_seq]
      BY <2>1 DEF AskCurrent
    <3> HIDE DEF f
    <3>3. QED
      BY <1>1, <3>1, <3>2, SetCurrent
  <2>2. CASE LoseAnswer(d)
    <3>1. device' = [device EXCEPT ![d].pc = "ready"]
      BY <2>2 DEF LoseAnswer
    <3>2. QED
      BY <1>1, <3>1, SetPc
  <2>3. CASE AskOldest(d)
    <3>1. CASE device' = [device EXCEPT ![d].pc = "gone"]
      BY <1>1, <3>1, SetPc
    <3>2. CASE device' = [device EXCEPT ![d].pc = "fresh"]
      BY <1>1, <3>2, SetPc
    <3>3. CASE Stale(device[d].cursor, device[d].current)
      BY <2>3, <3>1, <3>3 DEF AskOldest
    <3>4. CASE ~Stale(device[d].cursor, device[d].current)
      BY <2>3, <3>2, <3>4 DEF AskOldest
    <3>5. QED
      BY <3>3, <3>4
  <2>4. QED
    BY <2>1, <2>2, <2>3
<1>3. LogTypeOK'
  BY <1>1, <1>2 DEF LogInv, LogTypeOK, EventRow, Tx, Device
<1>4. QED
  BY <1>1, <1>2, <1>3 DEF LogInv, Allocated, CommitOrder, SkipsOnlyPruned

\* What a device does that moves its cursor: all up to it is known, or pruned.
Moved(d) ==
    /\ device' \in [Devices -> Device]
    /\ \E last \in 0..event_seq : \E new \in SUBSET (1..event_seq) :
           /\ \A e \in Devices : device'[e].cursor =
                                     IF e = d THEN last ELSE device[e].cursor
           /\ known' = [known EXCEPT ![d] = known[d] \cup new]
           /\ 1..last \subseteq known[d] \cup new \cup pruned

\* A snapshot covers everything, since everything up to its cursor is visible.
LEMMA BootstrapMoves ==
    ASSUME LogInv, NEW d \in Devices, Bootstrap(d) PROVE Moved(d)
<1> DEFINE seen == {x.seq : x \in rows} \cup pruned
<1>0. seen = 1..event_seq
  BY DEF LogInv, CommitOrder
<1> DEFINE r == [pc |-> "ready", cursor |-> event_seq, current |-> 0]
<1>1. /\ event_seq \in 0..event_seq /\ 0 \in 0..event_seq
      /\ device \in [Devices -> Device]
  BY DEF LogInv, LogTypeOK
<1>2. r \in Device /\ r.cursor = event_seq
  BY <1>1 DEF Device
<1>3. device' = [device EXCEPT ![d] = r]
      /\ known' = [known EXCEPT ![d] = known[d] \cup 1..event_seq]
  <2>1. known' = [known EXCEPT ![d] = known[d] \cup {x.seq : x \in rows}
                                               \cup pruned]
        /\ device' = [device EXCEPT ![d] = r]
    BY DEF Bootstrap
  <2>2. known[d] \cup {x.seq : x \in rows} \cup pruned = known[d] \cup seen
    OBVIOUS
  <2> HIDE DEF seen
  <2>3. QED
    BY <1>0, <2>1, <2>2
<1> HIDE DEF r
<1>4. /\ device' \in [Devices -> Device]
      /\ \A e \in Devices : device'[e].cursor =
                                IF e = d THEN event_seq ELSE device[e].cursor
  BY <1>1, <1>2, <1>3
<1>5. 1..event_seq \subseteq known[d] \cup 1..event_seq \cup pruned
  OBVIOUS
<1>6. QED
  BY <1>1, <1>3, <1>4, <1>5 DEF Moved

\* A page covers everything up to its end that is kept.
LEMMA PageMoves ==
    ASSUME LogInv, NEW d \in Devices, AskPage(d) PROVE Moved(d)
<1>1. device \in [Devices -> Device] /\ event_seq \in Nat
  BY DEF LogInv, LogTypeOK
<1>2. PICK last \in device[d].cursor..event_seq :
         /\ device' = [device EXCEPT ![d].pc = "ready", ![d].cursor = last]
         /\ known' = [known EXCEPT ![d] = known[d] \cup
                {r.seq : r \in Page(device[d].cursor, last)}]
  BY DEF AskPage
<1> DEFINE new == {r.seq : r \in Page(device[d].cursor, last)}
<1>3. last \in 0..event_seq /\ device[d].cursor \in 0..event_seq
  BY <1>1 DEF Device
<1>4. new \subseteq 1..event_seq
  BY DEF Page, LogInv, LogTypeOK, EventRow
<1>5. 1..last \subseteq known[d] \cup new \cup pruned
  <2> SUFFICES ASSUME NEW n \in 1..last, n \notin pruned,
                      n > device[d].cursor
               PROVE  n \in new
    BY <1>3 DEF LogInv, SkipsOnlyPruned
  <2>1. n \in 1..event_seq
    BY <1>1, <1>3
  <2>2. PICK r \in rows : r.seq = n
    BY <2>1, RowOrPruned
  <2>3. r \in Page(device[d].cursor, last)
    BY <1>3, <2>2 DEF Page
  <2>4. QED
    BY <2>2, <2>3
<1>6. /\ device' \in [Devices -> Device]
      /\ \A e \in Devices : device'[e].cursor =
                                IF e = d THEN last ELSE device[e].cursor
  <2> DEFINE f == [device EXCEPT ![d].pc = "ready"]
  <2>1. f \in [Devices -> Device]
        /\ \A e \in Devices : f[e].cursor = device[e].cursor
    BY <1>1, SetPc
  <2>2. device' = [f EXCEPT ![d].cursor = last]
    BY <1>2
  <2> HIDE DEF f
  <2>3. QED
    BY <1>3, <2>1, <2>2, SetCursor
<1> HIDE DEF new
<1>7. known' = [known EXCEPT ![d] = known[d] \cup new]
  BY <1>2 DEF new
<1>8. QED
  BY <1>3, <1>4, <1>5, <1>6, <1>7 DEF Moved

LEMMA DeviceMoves ==
    ASSUME LogInv, NEW d \in Devices, Bootstrap(d) \/ AskPage(d)
    PROVE  LogInv'
<1>1. /\ clock' = clock /\ event_seq' = event_seq /\ rows' = rows /\ tx' = tx
      /\ pruned' = pruned
  BY DEF Bootstrap, AskPage
<1>2. Moved(d)
  BY BootstrapMoves, PageMoves
<1>3. PICK last \in 0..event_seq : \E new \in SUBSET (1..event_seq) :
           /\ \A e \in Devices : device'[e].cursor =
                                     IF e = d THEN last ELSE device[e].cursor
           /\ known' = [known EXCEPT ![d] = known[d] \cup new]
           /\ 1..last \subseteq known[d] \cup new \cup pruned
  BY <1>2 DEF Moved
<1>4. /\ known' \in [Devices -> SUBSET (1..event_seq)]
      /\ 1..last \subseteq known'[d] \cup pruned
      /\ \A e \in Devices \ {d} : known'[e] = known[e]
  BY <1>3 DEF LogInv, LogTypeOK
<1>5. LogTypeOK'
  BY <1>1, <1>2, <1>4 DEF LogInv, LogTypeOK, EventRow, Tx, Device, Moved
<1>6. SkipsOnlyPruned'
  BY <1>1, <1>3, <1>4 DEF LogInv, SkipsOnlyPruned
<1>7. QED
  BY <1>1, <1>5, <1>6 DEF LogInv, Allocated, CommitOrder

LEMMA LogStep == LogInv /\ [LogNext]_logVars => LogInv'
<1> SUFFICES ASSUME LogInv, [LogNext]_logVars PROVE LogInv'
  OBVIOUS
<1>1. CASE UNCHANGED logVars
  BY <1>1 DEF logVars, LogInv, LogTypeOK, EventRow, Tx, Device, Allocated,
              CommitOrder, SkipsOnlyPruned
<1>2. CASE LogNext
  <2>1. CASE Tick \/ \E w \in Writers : Begin(w) \/ Allocate(w) \/ Rollback(w)
    BY <2>1, WriterKeeps
  <2>2. CASE Prune
    BY <2>2, PruneKeeps
  <2>3. CASE \E w \in Writers : Commit(w)
    BY <2>3, CommitKeeps
  <2>4. ASSUME NEW d \in Devices,
               AskCurrent(d) \/ AskOldest(d) \/ LoseAnswer(d)
        PROVE  LogInv'
    BY <2>4, DeviceAsks
  <2>5. ASSUME NEW d \in Devices, Bootstrap(d) \/ AskPage(d)
        PROVE  LogInv'
    BY <2>5, DeviceMoves
  <2>6. QED
    BY <1>2, <2>1, <2>2, <2>3, <2>4, <2>5 DEF LogNext
<1>3. QED
  BY <1>1, <1>2

\* Positions become visible in their order and without holes, although each is
\* given before its transaction commits: CommitOrder.
THEOREM AlwaysInCommitOrder == LogSpec => []CommitOrder
<1>1. LogInv => CommitOrder
  BY DEF LogInv
<1>2. QED
  BY <1>1, LogInitInv, LogStep, PTL DEF LogSpec

\* A device never moves past an event it has not applied, unless the prune
\* has deleted it: SkipsOnlyPruned.
THEOREM NothingSkipped == LogSpec => []SkipsOnlyPruned
<1>1. LogInv => SkipsOnlyPruned
  BY DEF LogInv
<1>2. QED
  BY <1>1, LogInitInv, LogStep, PTL DEF LogSpec

=============================================================================

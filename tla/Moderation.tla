------------------------------ MODULE Moderation ------------------------------
(***************************************************************************)
(* internal/safety: reports and the queue that moderators work through.    *)
(* Report counts the caller's reports in one statement and files in        *)
(* another; a moderator decides on reports of a page read earlier.  The    *)
(* "and block them" box calls Block once the report is filed: a separate   *)
(* transaction that anybody may also ask for alone (Safety).               *)
(***************************************************************************)
EXTENDS Naturals, FiniteSets, SequencesExt

CONSTANTS
    Users,              \* accounts that report each other
    Moderators,         \* accounts with is_moderator
    Calls,              \* Report requests that run at the same time
    Ids,                \* rows followed at a time
    MaxReportsPerDay,
    PageSize,           \* the limit a moderator's page is asked with
    MaxReopens          \* bound: decisions that are taken back

ASSUME ModerationAssumption ==
    /\ IsFiniteSet(Calls)
    /\ MaxReportsPerDay \in Nat \ {0}
    /\ PageSize \in Nat \ {0}
    /\ MaxReopens \in Nat

VARIABLES
    reports,    \* rows by id
    order,      \* the ids of all rows, by created_at
    call,       \* Report requests under way
    page,       \* what each moderator still has to work through
    suspended,  \* users.status
    reopens     \* decisions taken back so far

vars == <<reports, order, call, page, suspended, reopens>>

Cases == {e \in Users \X Users : e[1] # e[2]}   \* <<reporter_id, subject_id>>

\* "decided" stands for actioned and dismissed, which no statement tells apart.
Statuses == {"open", "reviewing", "decided"}

NoReport == [status |-> "none"]

\* recent: created_at is less than a day ago.
Report == [about : Cases, status : Statuses, recent : BOOLEAN]

Filed == {i \in Ids : reports[i] # NoReport}

Open(i) == reports[i].status = "open"

Live(i) == reports[i].status \in {"open", "reviewing"}

NoCall == [stage |-> "none"]

TypeOK ==
    /\ reports \in [Ids -> Report \cup {NoReport}]
    /\ ToSet(order) = Filed /\ IsInjective(order)
    /\ call \in [Calls -> {NoCall} \cup [stage : {"counted"}, about : Cases]]
    /\ \A m \in Moderators : ToSet(page[m]) \subseteq Filed
    /\ suspended \subseteq Users
    /\ reopens \in 0..MaxReopens

Init ==
    /\ reports = [i \in Ids |-> NoReport]
    /\ order = <<>>
    /\ call = [c \in Calls |-> NoCall]
    /\ page = [m \in Moderators |-> <<>>]
    /\ suspended = {}
    /\ reopens = 0

----------------------------------------------------------------------------

MutantCounted(u) == {i \in Filed : /\ reports[i].about[1] = u
                                  /\ reports[i].recent
                                  /\ Live(i)}

\* The rows underDailyLimit counts: those of the last day, decided or not.
Counted(u) == {i \in Filed : reports[i].about[1] = u /\ reports[i].recent}

Count(c, about) ==
    /\ call[c] = NoCall
    /\ about[1] \notin suspended
    /\ Cardinality(Counted(about[1])) < MaxReportsPerDay
    /\ call' = [call EXCEPT ![c] = [stage |-> "counted", about |-> about]]
    /\ UNCHANGED <<reports, order, page, suspended, reopens>>

\* The live report of a pair, which the partial unique index finds.
LiveReport(about) == {i \in Filed : reports[i].about = about /\ Live(i)}

\* The order without row i.
Without(i) == RemoveAt(order, CHOOSE n \in DOMAIN order : order[n] = i)

\* on conflict do update: the live report takes the new words and a new
\* created_at, and keeps its status.
Renew(i) ==
    /\ reports' = [reports EXCEPT ![i].recent = TRUE]
    /\ order' = Append(Without(i), i)

\* A new row takes an id that none has; which one does not matter.
New(about) ==
    LET i == CHOOSE i \in Ids : i \notin Filed
    IN  /\ Filed # Ids
        /\ reports' = [reports EXCEPT
               ![i] = [about |-> about, status |-> "open", recent |-> TRUE]]
        /\ order' = Append(order, i)

File(c) ==
    /\ call[c].stage = "counted"
    /\ IF LiveReport(call[c].about) # {}
       THEN \E i \in LiveReport(call[c].about) : Renew(i)
       ELSE New(call[c].about)
    /\ call' = [call EXCEPT ![c] = NoCall]
    /\ UNCHANGED <<page, suspended, reopens>>

Abort(c) ==
    /\ call[c] # NoCall
    /\ call' = [call EXCEPT ![c] = NoCall]
    /\ UNCHANGED <<reports, order, page, suspended, reopens>>

\* A day passes: rows leave the count in the order they were created.
DayPasses ==
    /\ \E i \in 1..Len(order) :
           /\ reports[order[i]].recent
           /\ \A j \in 1..(i - 1) : ~ reports[order[j]].recent
           /\ reports' = [reports EXCEPT ![order[i]].recent = FALSE]
    /\ UNCHANGED <<order, call, page, suspended, reopens>>

----------------------------------------------------------------------------

MutantPage == LET open == SelectSeq(order, Open)
              IN  SubSeq(Reverse(open), 1, Min({PageSize, Len(open)}))

\* Queue: the open reports, oldest first.
Page == LET open == SelectSeq(order, Open)
        IN  SubSeq(open, 1, Min({PageSize, Len(open)}))

Load(m) ==
    /\ page[m] = <<>>
    /\ page' = [page EXCEPT ![m] = Page]
    /\ UNCHANGED <<reports, order, call, suspended, reopens>>

MutantHeld(i) == {}

\* What the unique index refuses: a second live report of the pair.
Held(i) == LiveReport(reports[i].about) \ {i}

\* Resolve: the row that has this id, whatever has become of it since it was
\* read, and the account with it when the moderator says so.
Resolve(i, status, suspend) ==
    /\ i \in Filed
    /\ status \in {"open", "reviewing"} => Held(i) = {}
    /\ reports' = [reports EXCEPT ![i].status = status]
    /\ suspended' = IF suspend THEN suspended \cup {reports[i].about[2]}
                               ELSE suspended

\* A moderator works through the page from its top.  A decision the index
\* refuses is an error, and the moderator goes on.
Decide(m) ==
    /\ page[m] # <<>>
    /\ \/ \E status \in Statuses \ {"open"}, suspend \in BOOLEAN :
              Resolve(Head(page[m]), status, suspend)
       \/ Held(Head(page[m])) # {} /\ UNCHANGED <<reports, suspended>>
    /\ page' = [page EXCEPT ![m] = Tail(@)]
    /\ UNCHANGED <<order, call, reopens>>

\* A report that left the queue is decided, or decided otherwise, by its id.
\* Nothing renews created_at: one that is opened again is old.
DecideAgain(i, status) ==
    /\ i \in Filed
    /\ ~ Open(i) /\ reports[i].status # status
    /\ Resolve(i, status, FALSE)
    /\ reopens' = IF status \in {"open", "reviewing"} THEN reopens + 1
                                                       ELSE reopens
    /\ reopens' <= MaxReopens
    /\ UNCHANGED <<order, call, page>>

\* Not a step of the program: a decided row of an earlier day that nobody has
\* on a page is followed no longer, and its id names another row.
Forget(i) ==
    /\ i \in Filed /\ ~ Live(i) /\ ~ reports[i].recent
    /\ \A m \in Moderators : i \notin ToSet(page[m])
    /\ reports' = [reports EXCEPT ![i] = NoReport]
    /\ order' = Without(i)
    /\ UNCHANGED <<call, page, suspended, reopens>>

Next ==
    \/ \E c \in Calls :
           \/ \E about \in Cases : Count(c, about)
           \/ File(c)
           \/ Abort(c)
    \/ DayPasses
    \/ \E m \in Moderators : Load(m) \/ Decide(m)
    \/ \E i \in Ids : Forget(i) \/ \E status \in Statuses : DecideAgain(i, status)

\* Moderators keep loading the queue and deciding what it shows.
Spec ==
    /\ Init /\ [][Next]_vars
    /\ \A m \in Moderators : WF_vars(Load(m)) /\ WF_vars(Decide(m))

----------------------------------------------------------------------------

\* "one live report per person per subject": however reports are renewed,
\* decided and reopened, a pair never has two in the moderators' hands.
OneLivePerPair == \A about \in Cases : Cardinality(LiveReport(about)) <= 1

\* The day's limit is checked before the report is filed: a reporter exceeds
\* it by what the other requests under way had counted already, no more.
FilingsBounded ==
    \A u \in Users :
        Cardinality({i \in Filed : reports[i].about[1] = u /\ reports[i].recent})
            <= MaxReportsPerDay + Cardinality(Calls) - 1

\* Its reporter files the same report again.
Renewed(i) == \E c \in Calls : File(c) /\ i \in LiveReport(call[c].about)

\* "oldest first so nothing waits forever": an open report leaves the queue
\* in the end, or else its reporter renews it for ever and so keeps sending
\* it to the end.
NothingWaitsForever ==
    \A i \in Ids : \/ Open(i) ~> ~ Open(i)
                   \/ []<><<Renewed(i)>>_vars
=============================================================================

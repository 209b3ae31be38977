----------------------------- MODULE LimitProofs -----------------------------
(***************************************************************************)
(* Theorems about the two limits that are counted in one statement and     *)
(* used up in another: the reports of a day (Moderation) and the photos of *)
(* a profile (Photos); and about what else these two keep true across      *)
(* statements, one live report of a pair and a file for every row.  For    *)
(* any limits, requests, moderators, rows and images.                      *)
(***************************************************************************)
EXTENDS Moderation, Photos, FunctionTheorems, FiniteSetTheorems,
        SequenceTheorems, TLAPS

----------------------------------------------------------------------------
\* Moderation: reports.

\* The Report requests of u that have counted and not filed yet.
Waiting(u) == {c \in Calls : call[c] # NoCall /\ call[c].about[1] = u}

RowsOK ==
    /\ reports \in [Ids -> Report \cup {NoReport}]
    /\ call \in [Calls -> {NoCall} \cup [stage : {"counted"}, about : Cases]]
    /\ IsFiniteSet(Filed)

\* The order holds each row once.
OrderOK ==
    /\ order \in Seq(Ids)
    /\ ToSet(order) = Filed
    /\ IsInjective(order)

\* The partial unique index.
IndexOK ==
    \A i, j \in Filed :
        Live(i) /\ Live(j) /\ reports[i].about = reports[j].about => i = j

\* What a reporter has filed today and is about to file.
DayOK ==
    \A u \in Users : Cardinality(Counted(u)) + Cardinality(Waiting(u))
                        <= MaxReportsPerDay + Cardinality(Calls) - 1

ModInv == RowsOK /\ OrderOK /\ IndexOK /\ DayOK

----------------------------------------------------------------------------

\* A row is told from the absence of one by its status.
LEMMA RowNotNone == \A r \in Report : r # NoReport
BY DEF Report, NoReport, Statuses

LEMMA RowOf == ASSUME RowsOK, NEW i \in Filed PROVE reports[i] \in Report
BY DEF RowsOK, Filed

LEMMA SetStatus ==
    ASSUME NEW r \in Report, NEW s \in Statuses
    PROVE  LET t == [r EXCEPT !.status = s]
           IN  /\ t \in Report /\ t.status = s
               /\ t.about = r.about /\ t.recent = r.recent
BY DEF Report

LEMMA SetRecent ==
    ASSUME NEW r \in Report, NEW b \in BOOLEAN
    PROVE  LET t == [r EXCEPT !.recent = b]
           IN  /\ t \in Report /\ t.recent = b
               /\ t.about = r.about /\ t.status = r.status
BY DEF Report

\* A sequence without one of its places.
LEMMA RemoveFacts ==
    ASSUME NEW S, NEW s \in Seq(S), IsInjective(s), NEW n \in 1..Len(s)
    PROVE  /\ RemoveAt(s, n) \in Seq(S)
           /\ ToSet(RemoveAt(s, n)) = ToSet(s) \ {s[n]}
           /\ IsInjective(RemoveAt(s, n))
<1> DEFINE t == RemoveAt(s, n)
<1>1. /\ t \in Seq(S) /\ Len(t) = Len(s) - 1
      /\ \A k \in 1..(Len(s) - 1) : t[k] = IF k < n THEN s[k] ELSE s[k + 1]
  <2> DEFINE a == SubSeq(s, 1, n - 1)
             b == SubSeq(s, n + 1, Len(s))
  <2>1. Len(s) \in Nat /\ n \in Nat /\ 1 <= n /\ n <= Len(s)
    OBVIOUS
  <2>2. /\ a \in Seq(S) /\ Len(a) = n - 1
        /\ \A k \in 1..(n - 1) : a[k] = s[k]
    BY <2>1
  <2>3. /\ b \in Seq(S) /\ Len(b) = Len(s) - n
        /\ \A k \in 1..(Len(s) - n) : b[k] = s[k + n]
    BY <2>1
  <2>4. t = a \o b
    BY DEF RemoveAt
  <2> HIDE DEF a, b, t
  <2>5. /\ t \in Seq(S) /\ Len(t) = Len(a) + Len(b)
        /\ \A k \in 1..(Len(a) + Len(b)) :
              t[k] = IF k <= Len(a) THEN a[k] ELSE b[k - Len(a)]
    BY <2>2, <2>3, <2>4, ConcatProperties
  <2>6. Len(t) = Len(s) - 1
    BY <2>1, <2>2, <2>3, <2>5
  <2>7. ASSUME NEW k \in 1..(Len(s) - 1)
        PROVE  t[k] = IF k < n THEN s[k] ELSE s[k + 1]
    <3> Len(a) + Len(b) = Len(s) - 1
      BY <2>1, <2>2, <2>3
    <3>1. CASE k < n
      <4>1. k \in 1..(n - 1) /\ k <= Len(a)
        BY <2>1, <2>2, <3>1
      <4>2. QED
        BY <2>2, <2>5, <3>1, <4>1
    <3>2. CASE k >= n
      <4>1. k - (n - 1) \in 1..(Len(s) - n)
        BY <2>1, <3>2
      <4>2. b[k - (n - 1)] = s[k - (n - 1) + n]
        BY <2>3, <4>1
      <4>3. k - (n - 1) + n = k + 1 /\ ~ (k <= Len(a)) /\ ~ (k < n)
        BY <2>1, <2>2, <3>2
      <4>4. t[k] = b[k - (n - 1)]
        BY <2>2, <2>5, <4>3
      <4>5. QED
        BY <4>2, <4>3, <4>4
    <3>3. QED
      BY <2>1, <3>1, <3>2
  <2>8. QED
    BY <2>5, <2>6, <2>7
<1>2. DOMAIN t = 1..(Len(s) - 1) /\ DOMAIN s = 1..Len(s) /\ Len(s) \in Nat
  BY <1>1
<1> HIDE DEF t
<1>3. ToSet(t) \subseteq ToSet(s) \ {s[n]}
  BY <1>1, <1>2 DEF ToSet, IsInjective
<1>4. ASSUME NEW k \in 1..Len(s), k # n PROVE s[k] \in ToSet(t)
  <2>1. CASE k < n
    <3>1. k \in 1..(Len(s) - 1) /\ t[k] = s[k]
      BY <1>1, <1>2, <2>1
    <3>2. QED
      BY <1>2, <3>1 DEF ToSet
  <2>2. CASE k > n
    <3>1. k - 1 \in 1..(Len(s) - 1) /\ t[k - 1] = s[k]
      BY <1>1, <1>2, <2>2
    <3>2. QED
      BY <1>2, <3>1 DEF ToSet
  <2>3. QED
    BY <1>2, <1>4, <2>1, <2>2
<1>5. ToSet(s) \ {s[n]} \subseteq ToSet(t)
  BY <1>2, <1>4 DEF ToSet
<1>6. IsInjective(t)
  <2> SUFFICES ASSUME NEW j \in 1..(Len(s) - 1), NEW k \in 1..(Len(s) - 1),
                      t[j] = t[k]
               PROVE  j = k
    BY <1>2 DEF IsInjective
  <2>1. \A m \in 1..(Len(s) - 1) :
           /\ m < n => t[m] = s[m] /\ m \in 1..Len(s)
           /\ ~ (m < n) => t[m] = s[m + 1] /\ m + 1 \in 1..Len(s)
    BY <1>1, <1>2
  <2>2. \A a, b \in 1..Len(s) : s[a] = s[b] => a = b
    BY <1>2 DEF IsInjective
  <2>3. j \in Int /\ k \in Int /\ n \in Int
    OBVIOUS
  <2>4. CASE j < n /\ k < n
    BY <2>1, <2>2, <2>4
  <2>5. CASE ~ (j < n) /\ ~ (k < n)
    <3>1. j + 1 = k + 1
      BY <2>1, <2>2, <2>5
    <3>2. QED
      BY <2>3, <3>1
  <2>6. CASE j < n /\ ~ (k < n)
    <3>1. j = k + 1
      BY <2>1, <2>2, <2>6
    <3>2. QED
      BY <2>3, <2>6, <3>1
  <2>7. CASE ~ (j < n) /\ k < n
    <3>1. j + 1 = k
      BY <2>1, <2>2, <2>7
    <3>2. QED
      BY <2>3, <2>7, <3>1
  <2>8. QED
    BY <2>4, <2>5, <2>6, <2>7
<1>7. QED
  BY <1>1, <1>3, <1>5, <1>6 DEF t

LEMMA AppendFacts ==
    ASSUME NEW S, NEW s \in Seq(S), IsInjective(s), NEW e \in S, e \notin ToSet(s)
    PROVE  /\ Append(s, e) \in Seq(S)
           /\ ToSet(Append(s, e)) = ToSet(s) \cup {e}
           /\ IsInjective(Append(s, e))
<1> DEFINE t == Append(s, e)
<1>1. /\ t \in Seq(S) /\ Len(t) = Len(s) + 1 /\ Len(s) \in Nat
      /\ \A k \in 1..Len(s) : t[k] = s[k]
      /\ t[Len(s) + 1] = e
  OBVIOUS
<1>2. DOMAIN t = 1..(Len(s) + 1) /\ DOMAIN s = 1..Len(s)
  BY <1>1
<1> HIDE DEF t
<1>3. ToSet(t) = ToSet(s) \cup {e}
  <2>1. ToSet(s) \subseteq ToSet(t)
    BY <1>1, <1>2 DEF ToSet
  <2>2. e \in ToSet(t)
    BY <1>1, <1>2 DEF ToSet
  <2>3. ToSet(t) \subseteq ToSet(s) \cup {e}
    BY <1>1, <1>2 DEF ToSet
  <2>4. QED
    BY <2>1, <2>2, <2>3
<1>4. IsInjective(t)
  BY <1>1, <1>2 DEF IsInjective, ToSet
<1>5. QED
  BY <1>1, <1>3, <1>4 DEF t

LEMMA WithoutFacts ==
    ASSUME OrderOK, NEW i \in Filed
    PROVE  /\ Without(i) \in Seq(Ids)
           /\ ToSet(Without(i)) = Filed \ {i}
           /\ IsInjective(Without(i))
<1> DEFINE n == CHOOSE n \in DOMAIN order : order[n] = i
<1>1. DOMAIN order = 1..Len(order)
  BY DEF OrderOK
<1>2. n \in 1..Len(order) /\ order[n] = i
  <2>1. \E k \in DOMAIN order : order[k] = i
    BY DEF OrderOK, ToSet
  <2>2. QED
    BY <1>1, <2>1
<1>3. Without(i) = RemoveAt(order, n)
  BY DEF Without
<1> HIDE DEF n
<1>4. QED
  BY <1>2, <1>3, RemoveFacts DEF OrderOK

----------------------------------------------------------------------------

LEMMA ModInitInv == Init => ModInv
<1> SUFFICES ASSUME Init PROVE ModInv
  OBVIOUS
<1>1. Filed = {}
  BY DEF Init, Filed
<1>2. RowsOK
  BY <1>1, FS_EmptySet DEF Init, RowsOK
<1>3. OrderOK
  BY <1>1 DEF Init, OrderOK, ToSet, IsInjective
<1>4. IndexOK
  BY <1>1 DEF IndexOK
<1>5. DayOK
  <2> SUFFICES ASSUME NEW u \in Users
               PROVE  Cardinality(Counted(u)) + Cardinality(Waiting(u))
                          <= MaxReportsPerDay + Cardinality(Calls) - 1
    BY DEF DayOK
  <2>1. Counted(u) = {} /\ Waiting(u) = {}
    BY <1>1 DEF Init, Counted, Waiting
  <2>2. Cardinality(Calls) \in Nat
    BY FS_CardinalityType, ModerationAssumption
  <2>3. QED
    BY <2>1, <2>2, FS_EmptySet, ModerationAssumption
<1>6. QED
  BY <1>2, <1>3, <1>4, <1>5 DEF ModInv

\* The sets of the count are finite.
LEMMA CountsFinite ==
    ASSUME RowsOK, NEW u
    PROVE  /\ IsFiniteSet(Counted(u)) /\ IsFiniteSet(Waiting(u))
           /\ Cardinality(Counted(u)) \in Nat /\ Cardinality(Waiting(u)) \in Nat
           /\ IsFiniteSet(Calls) /\ Cardinality(Calls) \in Nat
<1>1. Counted(u) \subseteq Filed /\ Waiting(u) \subseteq Calls
  BY DEF Counted, Waiting
<1>2. IsFiniteSet(Counted(u)) /\ IsFiniteSet(Waiting(u))
  BY <1>1, FS_Subset, ModerationAssumption DEF RowsOK
<1>3. QED
  BY <1>2, FS_CardinalityType, ModerationAssumption

\* Fewer rows of the day and fewer requests: the bound stays.
LEMMA DayKeeps ==
    ASSUME RowsOK, DayOK,
           \A u \in Users : /\ Counted(u)' \subseteq Counted(u)
                            /\ Waiting(u)' \subseteq Waiting(u)
    PROVE  DayOK'
<1> SUFFICES ASSUME NEW u \in Users
             PROVE  Cardinality(Counted(u)') + Cardinality(Waiting(u)')
                        <= MaxReportsPerDay + Cardinality(Calls) - 1
  BY DEF DayOK
<1>1. /\ IsFiniteSet(Counted(u)') /\ IsFiniteSet(Waiting(u)')
      /\ Cardinality(Counted(u)') <= Cardinality(Counted(u))
      /\ Cardinality(Waiting(u)') <= Cardinality(Waiting(u))
  BY CountsFinite, FS_Subset
<1>2. Cardinality(Counted(u)') \in Nat /\ Cardinality(Waiting(u)') \in Nat
  BY <1>1, FS_CardinalityType
<1>3. QED
  BY <1>1, <1>2, CountsFinite, ModerationAssumption DEF DayOK

\* Counting: below the limit, and this request was not waiting before.
LEMMA CountKeeps ==
    ASSUME ModInv, NEW c \in Calls, NEW about \in Cases, Count(c, about)
    PROVE  ModInv'
<1> DEFINE t == [stage |-> "counted", about |-> about]
<1>1. /\ call[c] = NoCall /\ call' = [call EXCEPT ![c] = t]
      /\ reports' = reports /\ order' = order
      /\ Cardinality(Counted(about[1])) < MaxReportsPerDay
      /\ RowsOK /\ OrderOK /\ IndexOK /\ DayOK
  BY DEF Count, ModInv
<1>2. t \in [stage : {"counted"}, about : Cases] /\ t # NoCall /\ t.about = about
  BY DEF NoCall
<1> HIDE DEF t
<1>3. RowsOK' /\ OrderOK' /\ IndexOK'
  BY <1>1, <1>2 DEF RowsOK, OrderOK, IndexOK, Filed, Live
<1>4. \A u \in Users : Counted(u)' = Counted(u)
  BY <1>1 DEF Counted, Filed
<1>5. \A u \in Users : Waiting(u)' = IF u = about[1] THEN Waiting(u) \cup {c}
                                                     ELSE Waiting(u)
  BY <1>1, <1>2 DEF Waiting, RowsOK
<1>6. DayOK'
  <2> SUFFICES ASSUME NEW u \in Users
               PROVE  Cardinality(Counted(u)') + Cardinality(Waiting(u)')
                          <= MaxReportsPerDay + Cardinality(Calls) - 1
    BY DEF DayOK
  <2>1. CASE u # about[1]
    BY <1>1, <1>4, <1>5, <2>1 DEF DayOK
  <2>2. CASE u = about[1]
    <3>1. Waiting(u)' \subseteq Calls
      BY DEF Waiting
    <3>2. /\ IsFiniteSet(Waiting(u)')
          /\ Cardinality(Waiting(u)') <= Cardinality(Calls)
          /\ Cardinality(Waiting(u)') \in Nat
      BY <3>1, FS_Subset, FS_CardinalityType, ModerationAssumption
    <3>3. QED
      BY <1>1, <1>4, <2>2, <3>2, CountsFinite, ModerationAssumption
  <2>3. QED
    BY <2>1, <2>2
<1>7. QED
  BY <1>3, <1>6 DEF ModInv

\* The request that files was waiting, and files for its own reporter.
LEMMA FiledOnce ==
    ASSUME ModInv, NEW c \in Calls, call[c] # NoCall, NEW i \in Ids,
           call' = [call EXCEPT ![c] = NoCall],
           \A u \in Users : Counted(u)' \subseteq
              IF u = call[c].about[1] THEN Counted(u) \cup {i} ELSE Counted(u)
    PROVE  DayOK'
<1> SUFFICES ASSUME NEW u \in Users
             PROVE  Cardinality(Counted(u)') + Cardinality(Waiting(u)')
                        <= MaxReportsPerDay + Cardinality(Calls) - 1
  BY DEF DayOK
<1>1. RowsOK /\ DayOK
  BY DEF ModInv
<1>2. Waiting(u)' = Waiting(u) \ {c}
  BY <1>1 DEF Waiting, RowsOK
<1>3. IsFiniteSet(Counted(u) \cup {i})
      /\ Cardinality(Counted(u) \cup {i}) <= Cardinality(Counted(u)) + 1
  <2>1. IsFiniteSet(Counted(u)) /\ Cardinality(Counted(u)) \in Nat
    BY <1>1, CountsFinite
  <2>2. Cardinality(Counted(u) \cup {i}) =
           IF i \in Counted(u) THEN Cardinality(Counted(u))
                              ELSE Cardinality(Counted(u)) + 1
    BY <2>1, FS_AddElement
  <2>3. IsFiniteSet(Counted(u) \cup {i})
    BY <2>1, FS_AddElement
  <2>4. QED
    BY <2>1, <2>2, <2>3
<1>4. /\ IsFiniteSet(Waiting(u) \ {c})
      /\ Cardinality(Waiting(u) \ {c}) = IF c \in Waiting(u)
             THEN Cardinality(Waiting(u)) - 1 ELSE Cardinality(Waiting(u))
  BY <1>1, CountsFinite, FS_RemoveElement
<1>5. CASE u = call[c].about[1]
  <2>1. c \in Waiting(u)
    BY <1>5 DEF Waiting
  <2>2. /\ IsFiniteSet(Counted(u)')
        /\ Cardinality(Counted(u)') <= Cardinality(Counted(u) \cup {i})
        /\ Cardinality(Counted(u)') \in Nat
    BY <1>3, <1>5, FS_Subset, FS_CardinalityType
  <2>3. Cardinality(Counted(u) \cup {i}) \in Nat
    BY <1>3, FS_CardinalityType
  <2>4. QED
    BY <1>1, <1>2, <1>3, <1>4, <2>1, <2>2, <2>3, CountsFinite,
       ModerationAssumption DEF DayOK
<1>6. CASE u # call[c].about[1]
  <2>1. /\ IsFiniteSet(Counted(u)')
        /\ Cardinality(Counted(u)') <= Cardinality(Counted(u))
        /\ Cardinality(Counted(u)') \in Nat
    BY <1>1, <1>6, CountsFinite, FS_Subset, FS_CardinalityType
  <2>2. QED
    BY <1>1, <1>2, <1>4, <2>1, CountsFinite, ModerationAssumption DEF DayOK
<1>7. QED
  BY <1>5, <1>6

\* A step that writes one row, in place: the same case, no live row unless the
\* pair has no other.
LEMMA WriteInPlace ==
    ASSUME RowsOK, IndexOK, NEW i \in Filed, NEW t \in Report,
           t.about = reports[i].about,
           t.status \in {"open", "reviewing"} => Live(i) \/ Held(i) = {},
           reports' = [reports EXCEPT ![i] = t],
           call' \in [Calls -> {NoCall} \cup [stage : {"counted"}, about : Cases]]
    PROVE  /\ RowsOK' /\ IndexOK' /\ Filed' = Filed
           /\ \A u \in Users : Counted(u)' \subseteq
                 IF u = t.about[1] /\ t.recent
                 THEN Counted(u) \cup {i} ELSE Counted(u)
<1>1. i \in Ids /\ reports \in [Ids -> Report \cup {NoReport}]
  BY DEF Filed, RowsOK
<1>2. \A j \in Ids : reports'[j] = IF j = i THEN t ELSE reports[j]
  BY <1>1
<1>3. Filed' = Filed
  BY <1>1, <1>2, RowNotNone DEF Filed
<1>4. RowsOK'
  BY <1>1, <1>3 DEF RowsOK
<1>5. IndexOK'
  <2> SUFFICES ASSUME NEW j \in Filed, NEW k \in Filed, j # k,
                      Live(j)', Live(k)', reports'[j].about = reports'[k].about
               PROVE  FALSE
    BY <1>3 DEF IndexOK
  <2>1. j \in Ids /\ k \in Ids
    BY DEF Filed
  <2>2. CASE j # i /\ k # i
    BY <1>2, <2>1, <2>2 DEF IndexOK, Live
  <2>3. ASSUME NEW h \in Filed, h # i, Live(h), reports[h].about = t.about,
               t.status \in {"open", "reviewing"}
        PROVE  FALSE
    BY <2>3 DEF IndexOK, Held, LiveReport
  <2>4. CASE j = i
    BY <1>2, <2>1, <2>3, <2>4 DEF Live
  <2>5. CASE k = i
    BY <1>2, <2>1, <2>3, <2>5 DEF Live
  <2>6. QED
    BY <2>2, <2>4, <2>5
<1>6. ASSUME NEW u \in Users
      PROVE  Counted(u)' \subseteq IF u = t.about[1] /\ t.recent
                                   THEN Counted(u) \cup {i} ELSE Counted(u)
  BY <1>1, <1>2, <1>3 DEF Counted, Filed
<1>7. QED
  BY <1>3, <1>4, <1>5, <1>6

\* on conflict do update: renews the live row.
LEMMA RenewKeeps ==
    ASSUME ModInv, NEW c \in Calls, call[c] # NoCall,
           NEW i \in LiveReport(call[c].about), Renew(i),
           call' = [call EXCEPT ![c] = NoCall]
    PROVE  ModInv'
<1> DEFINE t == [reports[i] EXCEPT !.recent = TRUE]
<1>1. /\ RowsOK /\ OrderOK /\ IndexOK /\ i \in Filed /\ i \in Ids
      /\ reports[i].about = call[c].about /\ Live(i)
  BY DEF ModInv, LiveReport, Filed
<1>2. /\ t \in Report /\ t.about = reports[i].about
      /\ t.status = reports[i].status
  BY <1>1, RowOf, SetRecent
<1>3. reports' = [reports EXCEPT ![i] = t] /\ order' = Append(Without(i), i)
  BY DEF Renew
<1>4. call' \in [Calls -> {NoCall} \cup [stage : {"counted"}, about : Cases]]
  BY <1>1 DEF RowsOK
<1> HIDE DEF t
<1>5. /\ RowsOK' /\ IndexOK' /\ Filed' = Filed
      /\ \A u \in Users : Counted(u)' \subseteq
            IF u = call[c].about[1] THEN Counted(u) \cup {i} ELSE Counted(u)
  <2>1. /\ RowsOK' /\ IndexOK' /\ Filed' = Filed
        /\ \A u \in Users : Counted(u)' \subseteq
              IF u = t.about[1] /\ t.recent
              THEN Counted(u) \cup {i} ELSE Counted(u)
    BY <1>1, <1>2, <1>3, <1>4, WriteInPlace
  <2>2. \A u \in Users : Counted(u)' \subseteq
            IF u = call[c].about[1] THEN Counted(u) \cup {i} ELSE Counted(u)
    BY <1>1, <1>2, <2>1
  <2>3. QED
    BY <2>1, <2>2
<1>6. OrderOK'
  <2>1. /\ Without(i) \in Seq(Ids) /\ ToSet(Without(i)) = Filed \ {i}
        /\ IsInjective(Without(i))
    BY <1>1, WithoutFacts
  <2>2. i \notin ToSet(Without(i))
    BY <2>1
  <2>3. /\ Append(Without(i), i) \in Seq(Ids)
        /\ ToSet(Append(Without(i), i)) = ToSet(Without(i)) \cup {i}
        /\ IsInjective(Append(Without(i), i))
    BY <1>1, <2>1, <2>2, AppendFacts
  <2>4. QED
    BY <1>1, <1>3, <1>5, <2>1, <2>3 DEF OrderOK
<1>7. DayOK'
  BY <1>1, <1>5, FiledOnce
<1>8. QED
  BY <1>5, <1>6, <1>7 DEF ModInv

\* A new row: the only live one of its pair.
LEMMA NewKeeps ==
    ASSUME ModInv, NEW c \in Calls, call[c] # NoCall,
           LiveReport(call[c].about) = {}, New(call[c].about),
           call' = [call EXCEPT ![c] = NoCall]
    PROVE  ModInv'
<1> DEFINE i == CHOOSE i \in Ids : i \notin Filed
           about == call[c].about
           t == [about |-> about, status |-> "open", recent |-> TRUE]
<1>1. /\ RowsOK /\ OrderOK /\ IndexOK
      /\ reports \in [Ids -> Report \cup {NoReport}]
  BY DEF ModInv, RowsOK
<1>2. i \in Ids /\ i \notin Filed
  <2>1. \E k \in Ids : k \notin Filed
    BY DEF New, Filed
  <2>2. QED
    BY <2>1
<1>3. about \in Cases
  BY <1>1 DEF RowsOK, NoCall
<1>4. t \in Report /\ t.about = about
  BY <1>3 DEF Report, Statuses
<1>5. reports' = [reports EXCEPT ![i] = t] /\ order' = Append(order, i)
  BY DEF New
<1> HIDE DEF i, t
<1>6. \A j \in Ids : reports'[j] = IF j = i THEN t ELSE reports[j]
  BY <1>1, <1>2, <1>5
<1>7. Filed' = Filed \cup {i}
  BY <1>2, <1>4, <1>6, RowNotNone DEF Filed
<1>8. RowsOK'
  <2>1. IsFiniteSet(Filed')
    BY <1>1, <1>7, FS_AddElement DEF RowsOK
  <2>2. reports' \in [Ids -> Report \cup {NoReport}]
    BY <1>1, <1>2, <1>4, <1>5
  <2>3. QED
    BY <1>1, <2>1, <2>2 DEF RowsOK
<1>9. OrderOK'
  <2>1. /\ order \in Seq(Ids) /\ IsInjective(order) /\ ToSet(order) = Filed
        /\ i \notin ToSet(order)
    BY <1>1, <1>2 DEF OrderOK
  <2>2. /\ Append(order, i) \in Seq(Ids)
        /\ ToSet(Append(order, i)) = ToSet(order) \cup {i}
        /\ IsInjective(Append(order, i))
    BY <1>2, <2>1, AppendFacts
  <2>3. QED
    BY <1>5, <1>7, <2>1, <2>2 DEF OrderOK
<1>10. IndexOK'
  <2> SUFFICES ASSUME NEW j \in Filed', NEW k \in Filed', j # k,
                      Live(j)', Live(k)', reports'[j].about = reports'[k].about
               PROVE  FALSE
    BY DEF IndexOK
  <2>1. ASSUME NEW h \in Filed, Live(h), reports[h].about = about
        PROVE  FALSE
    BY <2>1 DEF LiveReport
  <2>2. Filed \subseteq Ids
    BY DEF Filed
  <2>3. CASE j # i /\ k # i
    BY <1>1, <1>6, <1>7, <2>2, <2>3 DEF IndexOK, Live
  <2>4. CASE j = i
    BY <1>2, <1>4, <1>6, <1>7, <2>1, <2>2, <2>4 DEF Live
  <2>5. CASE k = i
    BY <1>2, <1>4, <1>6, <1>7, <2>1, <2>2, <2>5 DEF Live
  <2>6. QED
    BY <2>3, <2>4, <2>5
<1>11. \A u \in Users : Counted(u)' \subseteq
          IF u = call[c].about[1] THEN Counted(u) \cup {i} ELSE Counted(u)
  BY <1>2, <1>4, <1>6, <1>7 DEF Counted, Filed
<1>12. DayOK'
  BY <1>2, <1>11, FiledOnce
<1>13. QED
  BY <1>8, <1>9, <1>10, <1>12 DEF ModInv

\* A request that ends without filing leaves the count.
LEMMA AbortKeeps ==
    ASSUME ModInv, NEW c \in Calls, Abort(c) PROVE ModInv'
<1>1. /\ reports' = reports /\ order' = order
      /\ call' = [call EXCEPT ![c] = NoCall]
  BY DEF Abort
<1>2. RowsOK' /\ OrderOK' /\ IndexOK'
  BY <1>1 DEF ModInv, RowsOK, OrderOK, IndexOK, Filed, Live
<1>3. \A u \in Users : /\ Counted(u)' \subseteq Counted(u)
                       /\ Waiting(u)' \subseteq Waiting(u)
  BY <1>1 DEF Counted, Filed, Waiting, ModInv, RowsOK
<1>4. QED
  BY <1>2, <1>3, DayKeeps DEF ModInv

\* Rows that leave the day's count.
LEMMA DayPassesKeeps == ASSUME ModInv, DayPasses PROVE ModInv'
<1>1. PICK n \in 1..Len(order) :
         reports' = [reports EXCEPT ![order[n]].recent = FALSE]
  BY DEF DayPasses
<1> DEFINE i == order[n]
           t == [reports[i] EXCEPT !.recent = FALSE]
<1>2. RowsOK /\ OrderOK /\ IndexOK /\ order' = order /\ call' = call
  BY DEF ModInv, DayPasses
<1>3. i \in Filed
  BY <1>2 DEF OrderOK, ToSet
<1>4. /\ t \in Report /\ t.about = reports[i].about /\ ~ t.recent
      /\ t.status = reports[i].status
  BY <1>2, <1>3, RowOf, SetRecent
<1>5. reports' = [reports EXCEPT ![i] = t]
  BY <1>1
<1>6. call' \in [Calls -> {NoCall} \cup [stage : {"counted"}, about : Cases]]
  BY <1>2 DEF RowsOK
<1>7. t.status \in {"open", "reviewing"} => Live(i)
  BY <1>4 DEF Live
<1> HIDE DEF t, i
<1>8. /\ RowsOK' /\ IndexOK' /\ Filed' = Filed
      /\ \A u \in Users : Counted(u)' \subseteq Counted(u)
  BY <1>2, <1>3, <1>4, <1>5, <1>6, <1>7, WriteInPlace
<1>9. OrderOK'
  BY <1>2, <1>8 DEF OrderOK
<1>10. \A u \in Users : Waiting(u)' \subseteq Waiting(u)
  BY <1>2 DEF Waiting
<1>11. QED
  BY <1>2, <1>8, <1>9, <1>10, DayKeeps DEF ModInv

\* A decision writes a status; the index refuses a second live row.
LEMMA ResolveKeeps ==
    ASSUME ModInv, NEW i, NEW status \in Statuses, NEW suspend \in BOOLEAN,
           Resolve(i, status, suspend), UNCHANGED <<order, call>>
    PROVE  ModInv'
<1> DEFINE t == [reports[i] EXCEPT !.status = status]
<1>1. /\ RowsOK /\ OrderOK /\ IndexOK /\ i \in Filed
      /\ reports' = [reports EXCEPT ![i].status = status]
      /\ status \in {"open", "reviewing"} => Held(i) = {}
  BY DEF ModInv, Resolve
<1>2. /\ t \in Report /\ t.about = reports[i].about /\ t.status = status
      /\ t.recent = reports[i].recent
  BY <1>1, RowOf, SetStatus
<1>3. reports' = [reports EXCEPT ![i] = t]
  BY <1>1
<1>4. call' \in [Calls -> {NoCall} \cup [stage : {"counted"}, about : Cases]]
  BY <1>1 DEF RowsOK
<1> HIDE DEF t
<1>5. /\ RowsOK' /\ IndexOK' /\ Filed' = Filed
      /\ \A u \in Users : Counted(u)' \subseteq
            IF u = t.about[1] /\ t.recent
            THEN Counted(u) \cup {i} ELSE Counted(u)
  BY <1>1, <1>2, <1>3, <1>4, WriteInPlace
<1>6. \A u \in Users : /\ Counted(u)' \subseteq Counted(u)
                       /\ Waiting(u)' \subseteq Waiting(u)
  BY <1>1, <1>2, <1>5 DEF Counted, Waiting
<1>7. OrderOK'
  BY <1>1, <1>5 DEF OrderOK
<1>8. QED
  BY <1>1, <1>5, <1>6, <1>7, DayKeeps DEF ModInv

\* A row that is followed no longer.
LEMMA ForgetKeeps == ASSUME ModInv, NEW i \in Ids, Forget(i) PROVE ModInv'
<1>1. /\ RowsOK /\ OrderOK /\ IndexOK /\ i \in Filed
      /\ reports' = [reports EXCEPT ![i] = NoReport]
      /\ order' = Without(i) /\ call' = call
  BY DEF ModInv, Forget
<1>2. \A j \in Ids : reports'[j] = IF j = i THEN NoReport ELSE reports[j]
  BY <1>1 DEF RowsOK
<1>3. Filed' = Filed \ {i}
  BY <1>2 DEF Filed
<1>4. RowsOK'
  BY <1>1, <1>3, FS_RemoveElement DEF RowsOK
<1>5. OrderOK'
  BY <1>1, <1>3, WithoutFacts DEF OrderOK
<1>6. IndexOK'
  BY <1>1, <1>2, <1>3 DEF IndexOK, Live, Filed
<1>7. \A u \in Users : /\ Counted(u)' \subseteq Counted(u)
                       /\ Waiting(u)' \subseteq Waiting(u)
  BY <1>1, <1>2, <1>3 DEF Counted, Waiting, Filed
<1>8. QED
  BY <1>1, <1>4, <1>5, <1>6, <1>7, DayKeeps DEF ModInv

LEMMA SameRowsKeep ==
    ASSUME ModInv, UNCHANGED <<reports, order, call>> PROVE ModInv'
BY DEF ModInv, RowsOK, OrderOK, IndexOK, DayOK, Filed, Live, Counted, Waiting

LEMMA ModStep == ModInv /\ [Next]_vars => ModInv'
<1> SUFFICES ASSUME ModInv, [Next]_vars PROVE ModInv'
  OBVIOUS
<1>1. CASE UNCHANGED vars
  BY <1>1, SameRowsKeep DEF vars
<1>2. ASSUME NEW c \in Calls, File(c) PROVE ModInv'
  <2>1. call[c] # NoCall /\ call' = [call EXCEPT ![c] = NoCall]
    BY <1>2 DEF File, NoCall
  <2>2. CASE LiveReport(call[c].about) # {}
    BY <1>2, <2>1, <2>2, RenewKeeps DEF File
  <2>3. CASE LiveReport(call[c].about) = {}
    BY <1>2, <2>1, <2>3, NewKeeps DEF File
  <2>4. QED
    BY <2>2, <2>3
<1>3. ASSUME NEW m \in Moderators, Load(m) \/ Decide(m) PROVE ModInv'
  <2>1. CASE UNCHANGED reports /\ (Load(m) \/ Decide(m))
    BY <2>1, SameRowsKeep DEF Load, Decide
  <2>2. ASSUME NEW status \in Statuses, NEW suspend \in BOOLEAN,
               Resolve(Head(page[m]), status, suspend), Decide(m)
        PROVE  ModInv'
    BY <2>2, ResolveKeeps DEF Decide
  <2>3. QED
    BY <1>3, <2>1, <2>2 DEF Load, Decide
<1>4. ASSUME NEW i \in Ids, NEW status \in Statuses, DecideAgain(i, status)
      PROVE  ModInv'
  BY <1>4, ResolveKeeps DEF DecideAgain
<1>5. CASE Next
  BY <1>2, <1>3, <1>4, <1>5, CountKeeps, AbortKeeps, DayPassesKeeps,
     ForgetKeeps DEF Next
<1>6. QED
  BY <1>1, <1>5

LEMMA ModInvariant == Spec => []ModInv
  BY ModInitInv, ModStep, PTL DEF Spec

\* "one live report per person per subject": however reports are renewed,
\* decided and reopened, and however many requests and moderators there are
\* (Report, Resolve and the partial unique index): OneLivePerPair.
THEOREM OneLiveAlways == Spec => []OneLivePerPair
<1>1. ASSUME ModInv PROVE OneLivePerPair
  <2> SUFFICES ASSUME NEW about \in Cases
               PROVE  Cardinality(LiveReport(about)) <= 1
    BY DEF OneLivePerPair
  <2>1. \A i, j \in LiveReport(about) : i = j
    BY <1>1 DEF ModInv, IndexOK, LiveReport
  <2>2. CASE LiveReport(about) = {}
    BY <2>2, FS_EmptySet
  <2>3. ASSUME NEW i \in LiveReport(about)
        PROVE  Cardinality(LiveReport(about)) <= 1
    <3>1. LiveReport(about) = {i}
      BY <2>1
    <3>2. QED
      BY <3>1, FS_Singleton
  <2>4. QED
    BY <2>2, <2>3
<1>2. QED
  BY <1>1, ModInvariant, PTL

\* underDailyLimit counts before the report is filed: a reporter goes over the
\* limit by at most the requests under way less one, for any limit and any
\* number of requests: FilingsBounded.
THEOREM FilingsAlwaysBounded == Spec => []FilingsBounded
<1>1. ASSUME ModInv PROVE FilingsBounded
  <2> SUFFICES ASSUME NEW u \in Users
               PROVE  Cardinality(Counted(u))
                          <= MaxReportsPerDay + Cardinality(Calls) - 1
    BY DEF FilingsBounded, Counted
  <2>1. RowsOK
    BY <1>1 DEF ModInv
  <2>2. QED
    BY <1>1, <2>1, CountsFinite, ModerationAssumption DEF ModInv, DayOK
<1>2. QED
  BY <1>1, ModInvariant, PTL

----------------------------------------------------------------------------
\* Photos.

\* The uploads that have counted the rows and not inserted theirs.
Late == {r \in Requests : req[r].pc \in {"counted", "put"}}

\* Whoever holds a stored file besides a row: an upload that will insert one, a
\* deletion that will unlink it.
Holds(r, k) == req[r].pc \in {"put", "unlinking"} /\ req[r].image = k

PhotoShape(p) ==
    /\ p = [id |-> p.id, position |-> p.position, image |-> p.image]
    /\ p.image \in Images

RequestShape(q) ==
    /\ q = [pc |-> q.pc, count |-> q.count, image |-> q.image,
            todo |-> q.todo, keep |-> q.keep]
    /\ q.pc \in {"counted", "put", "unlinking"} => q.image \in Images

ShapeOK ==
    /\ IsFiniteSet(photos)
    /\ \A p \in photos : PhotoShape(p)
    /\ req = [r \in Requests |-> req[r]]
    /\ \A r \in Requests : RequestShape(req[r])
    /\ stored \in [Images -> {"never", "once", "again"}]

\* An image that is in no profile: nobody can hold it.  One that was stored
\* once: one holder at most, and a row or an upload still finds its file.
HoldersOK ==
    \A k \in Images :
        /\ stored[k] = "never" =>
              /\ \A p \in photos : p.image # k
              /\ \A r \in Requests : ~ Holds(r, k)
        /\ stored[k] = "once" =>
              /\ \A p, q \in photos : p.image = k /\ q.image = k => p = q
              /\ \A r, s \in Requests : Holds(r, k) /\ Holds(s, k) => r = s
              /\ \A p \in photos, r \in Requests : ~ (p.image = k /\ Holds(r, k))
              /\ \A p \in photos : p.image = k => k \in files
              /\ \A r \in Requests :
                    Holds(r, k) /\ req[r].pc = "put" => k \in files

PhotosInv == ShapeOK /\ HoldersOK /\ OvershootBounded

----------------------------------------------------------------------------

LEMMA PhotosInitInv == PhotosInit => PhotosInv
<1> SUFFICES ASSUME PhotosInit PROVE PhotosInv
  OBVIOUS
<1>1. /\ Idle.pc = "idle"
      /\ Idle = [pc |-> Idle.pc, count |-> Idle.count, image |-> Idle.image,
                 todo |-> Idle.todo, keep |-> Idle.keep]
  BY DEF Idle
<1>2. \A r \in Requests : req[r] = Idle
  BY DEF PhotosInit
<1>3. req = [r \in Requests |-> req[r]]
  BY DEF PhotosInit
<1>4. ShapeOK
  BY <1>1, <1>2, <1>3, FS_EmptySet DEF PhotosInit, ShapeOK, RequestShape
<1>5. HoldersOK
  BY <1>1, <1>2 DEF PhotosInit, HoldersOK, Holds
<1>6. OvershootBounded
  <2>1. Late = {} /\ photos = {}
    BY <1>1, <1>2 DEF PhotosInit, Late
  <2>2. Cardinality(Requests) \in Nat
    BY FS_CardinalityType, PhotosAssumption
  <2>3. Cardinality(photos) + Cardinality(Late)
            <= MaxPhotos + Cardinality(Requests) - 1
    BY <2>1, <2>2, FS_EmptySet, PhotosAssumption
  <2>4. QED
    BY <2>3 DEF OvershootBounded, Late
<1>7. QED
  BY <1>4, <1>5, <1>6 DEF PhotosInv

\* Rows that come from those before, one each at most, with their images.
Kept ==
    /\ IsFiniteSet(photos')
    /\ Cardinality(photos') <= Cardinality(photos)
    /\ \A p \in photos' : PhotoShape(p) /\ \E q \in photos : q.image = p.image
    /\ \A k \in Images :
          (\A p, q \in photos : p.image = k /\ q.image = k => p = q)
          => (\A p, q \in photos' : p.image = k /\ q.image = k => p = q)

LEMMA SameKept == ASSUME ShapeOK, photos' = photos PROVE Kept
<1>1. Cardinality(photos) \in Nat
  BY FS_CardinalityType DEF ShapeOK
<1>2. QED
  BY <1>1 DEF ShapeOK, Kept

LEMMA RemovedKept ==
    ASSUME ShapeOK, NEW p, photos' = photos \ {p} PROVE Kept
<1>1. /\ IsFiniteSet(photos') /\ Cardinality(photos') <= Cardinality(photos)
  BY FS_Subset DEF ShapeOK
<1>2. QED
  BY <1>1 DEF ShapeOK, Kept

\* New positions, whichever.
LEMMA PlacedKept ==
    ASSUME ShapeOK, NEW g,
           photos' = {[p EXCEPT !.position = g[p]] : p \in photos}
    PROVE  Kept
<1> DEFINE move == [p \in photos |-> [p EXCEPT !.position = g[p]]]
<1>1. move \in Surjection(photos, photos')
  BY DEF Surjection
<1>2. /\ IsFiniteSet(photos') /\ Cardinality(photos') <= Cardinality(photos)
  <2> HIDE DEF move
  <2>1. QED
    BY <1>1, FS_Surjection DEF ShapeOK
<1>3. ASSUME NEW p \in photos
      PROVE  LET q == [p EXCEPT !.position = g[p]]
             IN  PhotoShape(q) /\ q.image = p.image
  <2>1. PhotoShape(p)
    BY DEF ShapeOK
  <2> DEFINE q == [p EXCEPT !.position = g[p]]
  <2>2. q = [id |-> p.id, position |-> g[p], image |-> p.image]
    BY <2>1 DEF PhotoShape
  <2> HIDE DEF q
  <2>3. QED
    BY <2>1, <2>2 DEF PhotoShape, q
<1>4. \A p \in photos : /\ move[p] \in photos' /\ PhotoShape(move[p])
                        /\ move[p].image = p.image
  BY <1>3
<1>5. \A q \in photos' : \E p \in photos : q = move[p]
  OBVIOUS
<1> HIDE DEF move
<1>6. QED
  BY <1>2, <1>4, <1>5 DEF Kept

\* Writing the record of one request.
LEMMA ReqSet ==
    ASSUME ShapeOK, NEW r \in Requests, NEW t, req' = [req EXCEPT ![r] = t]
    PROVE  /\ req' = [s \in Requests |-> req'[s]]
           /\ req'[r] = t
           /\ \A s \in Requests : s # r => req'[s] = req[s]
BY DEF ShapeOK

\* Fewer rows and fewer uploads: the bound stays.
LEMMA RoomKeeps ==
    ASSUME ShapeOK, OvershootBounded, IsFiniteSet(photos'),
           Cardinality(photos') <= Cardinality(photos), Late' \subseteq Late
    PROVE  OvershootBounded'
<1>1. Late \subseteq Requests
  BY DEF Late
<1>2. IsFiniteSet(Late) /\ IsFiniteSet(Late')
  BY <1>1, FS_Subset, PhotosAssumption
<1>3. Cardinality(Late') <= Cardinality(Late)
  BY <1>2, FS_Subset
<1>4. /\ Cardinality(Late) \in Nat /\ Cardinality(Late') \in Nat
      /\ Cardinality(photos) \in Nat /\ Cardinality(photos') \in Nat
      /\ Cardinality(Requests) \in Nat
  BY <1>2, FS_CardinalityType, PhotosAssumption DEF ShapeOK
<1>5. Cardinality(photos) + Cardinality(Late)
          <= MaxPhotos + Cardinality(Requests) - 1
  BY DEF OvershootBounded, Late
<1>6. Cardinality(photos') + Cardinality(Late')
          <= MaxPhotos + Cardinality(Requests) - 1
  BY <1>3, <1>4, <1>5, PhotosAssumption
<1>7. QED
  BY <1>6 DEF OvershootBounded, Late

\* A step that takes no file and starts no upload.
LEMMA QuietKeeps ==
    ASSUME PhotosInv, Kept, NEW r \in Requests, NEW t, RequestShape(t),
           t.pc \notin {"counted", "put", "unlinking"},
           req' = [req EXCEPT ![r] = t], UNCHANGED <<files, stored>>
    PROVE  PhotosInv'
<1>1. ShapeOK /\ HoldersOK /\ OvershootBounded
  BY DEF PhotosInv
<1>2. /\ req' = [s \in Requests |-> req'[s]] /\ req'[r] = t
      /\ \A s \in Requests : s # r => req'[s] = req[s]
  BY <1>1, ReqSet
<1>3. ShapeOK'
  BY <1>1, <1>2 DEF ShapeOK, Kept
<1>4. \A s \in Requests, k \in Images :
         Holds(s, k)' => Holds(s, k) /\ req'[s] = req[s]
  BY <1>2 DEF Holds
<1>5. HoldersOK'
  BY <1>1, <1>4 DEF HoldersOK, Kept
<1>6. OvershootBounded'
  <2>1. Late' \subseteq Late
    BY <1>2 DEF Late
  <2>2. QED
    BY <1>1, <2>1, RoomKeeps DEF Kept
<1>7. QED
  BY <1>3, <1>5, <1>6 DEF PhotosInv

\* The request's record whose count and image are set.
LEMMA UploadKeeps ==
    ASSUME PhotosInv, NEW r \in Requests, NEW k \in Images, Upload(r, k)
    PROVE  PhotosInv'
<1> DEFINE t == [Idle EXCEPT !.pc = "counted", !.image = k,
                             !.count = Cardinality(photos)]
<1>1. ShapeOK /\ HoldersOK /\ OvershootBounded
  BY DEF PhotosInv
<1>2. /\ req[r].pc = "idle" /\ Cardinality(photos) < MaxPhotos
      /\ req' = [req EXCEPT ![r] = t]
      /\ photos' = photos /\ files' = files /\ stored' = stored
  BY DEF Upload
<1>3. t = [pc |-> "counted", count |-> Cardinality(photos), image |-> k,
           todo |-> <<>>, keep |-> <<>>]
  <2> DEFINE a == [Idle EXCEPT !.pc = "counted"]
             b == [a EXCEPT !.image = k]
  <2>1. a = [pc |-> "counted", count |-> 0, image |-> NoImage,
             todo |-> <<>>, keep |-> <<>>]
    BY DEF Idle
  <2>2. b = [pc |-> "counted", count |-> 0, image |-> k,
             todo |-> <<>>, keep |-> <<>>]
    <3> HIDE DEF a
    <3>1. QED
      BY <2>1
  <2>3. t = [b EXCEPT !.count = Cardinality(photos)]
    OBVIOUS
  <2> HIDE DEF b
  <2>4. QED
    BY <2>2, <2>3
<1>4. RequestShape(t) /\ t.pc = "counted"
  BY <1>3 DEF RequestShape
<1> HIDE DEF t
<1>5. /\ req' = [s \in Requests |-> req'[s]] /\ req'[r] = t
      /\ \A s \in Requests : s # r => req'[s] = req[s]
  BY <1>1, <1>2, ReqSet
<1>6. ShapeOK'
  BY <1>1, <1>2, <1>4, <1>5 DEF ShapeOK
<1>7. \A s \in Requests, i \in Images :
         Holds(s, i)' => Holds(s, i) /\ req'[s] = req[s]
  BY <1>4, <1>5 DEF Holds
<1>8. HoldersOK'
  BY <1>1, <1>2, <1>7 DEF HoldersOK
<1>9. OvershootBounded'
  <2>1. Late' \subseteq Requests
    BY DEF Late
  <2>2. /\ IsFiniteSet(Late') /\ Cardinality(Late') <= Cardinality(Requests)
        /\ Cardinality(Late') \in Nat /\ Cardinality(Requests) \in Nat
        /\ Cardinality(photos) \in Nat
    BY <1>1, <2>1, FS_Subset, FS_CardinalityType, PhotosAssumption DEF ShapeOK
  <2>3. Cardinality(photos') + Cardinality(Late')
            <= MaxPhotos + Cardinality(Requests) - 1
    BY <1>2, <2>2, PhotosAssumption
  <2>4. QED
    BY <2>3 DEF OvershootBounded, Late
<1>10. QED
  BY <1>6, <1>8, <1>9 DEF PhotosInv

\* A request whose pc alone changes.
LEMMA SetRequestPc ==
    ASSUME ShapeOK, NEW r \in Requests, NEW pc,
           req[r].image \in Images
    PROVE  LET t == [req[r] EXCEPT !.pc = pc]
           IN  RequestShape(t) /\ t.pc = pc /\ t.image = req[r].image
<1> DEFINE q == req[r]
           t == [q EXCEPT !.pc = pc]
<1>1. q = [pc |-> q.pc, count |-> q.count, image |-> q.image,
           todo |-> q.todo, keep |-> q.keep]
  BY DEF ShapeOK, RequestShape
<1>2. t = [pc |-> pc, count |-> q.count, image |-> q.image,
           todo |-> q.todo, keep |-> q.keep]
  BY <1>1
<1>3. QED
  BY <1>2 DEF RequestShape

\* The bytes are in the store before a row names them.
LEMMA PutKeeps ==
    ASSUME PhotosInv, NEW r \in Requests, Put(r) PROVE PhotosInv'
<1> DEFINE k == req[r].image
           t == [req[r] EXCEPT !.pc = "put"]
<1>1. ShapeOK /\ HoldersOK /\ OvershootBounded
  BY DEF PhotosInv
<1>2. /\ req[r].pc = "counted" /\ k \in Images
      /\ req' = [req EXCEPT ![r] = t] /\ photos' = photos
      /\ files' = files \cup {k}
      /\ stored' = [stored EXCEPT ![k] = IF stored[k] = "never"
                                         THEN "once" ELSE "again"]
  <2>1. req[r].pc = "counted"
    BY DEF Put
  <2>2. k \in Images
    BY <1>1, <2>1 DEF ShapeOK, RequestShape
  <2>3. req' = [req EXCEPT ![r] = t]
    BY DEF Put
  <2>4. /\ photos' = photos /\ files' = files \cup {k}
        /\ stored' = [stored EXCEPT ![k] = IF stored[k] = "never"
                                           THEN "once" ELSE "again"]
    BY DEF Put
  <2>5. QED
    BY <2>1, <2>2, <2>3, <2>4
<1>3. RequestShape(t) /\ t.pc = "put" /\ t.image = k
  BY <1>1, <1>2, SetRequestPc
<1> HIDE DEF t, k
<1>4. /\ req' = [s \in Requests |-> req'[s]] /\ req'[r] = t
      /\ \A s \in Requests : s # r => req'[s] = req[s]
  BY <1>1, <1>2, ReqSet
<1>5. /\ stored' \in [Images -> {"never", "once", "again"}]
      /\ stored'[k] = IF stored[k] = "never" THEN "once" ELSE "again"
      /\ \A i \in Images : i # k => stored'[i] = stored[i]
  BY <1>1, <1>2 DEF ShapeOK
<1>6. ShapeOK'
  BY <1>1, <1>2, <1>3, <1>4, <1>5 DEF ShapeOK
<1>7. /\ \A s \in Requests, i \in Images :
            s # r => (Holds(s, i)' <=> Holds(s, i))
      /\ \A i \in Images : Holds(r, i)' <=> i = k
  BY <1>3, <1>4 DEF Holds
<1>8. HoldersOK'
  <2> SUFFICES ASSUME NEW i \in Images PROVE
        /\ stored'[i] = "never" =>
              /\ \A p \in photos' : p.image # i
              /\ \A s \in Requests : ~ Holds(s, i)'
        /\ stored'[i] = "once" =>
              /\ \A p, q \in photos' : p.image = i /\ q.image = i => p = q
              /\ \A s, u \in Requests : Holds(s, i)' /\ Holds(u, i)' => s = u
              /\ \A p \in photos', s \in Requests :
                    ~ (p.image = i /\ Holds(s, i)')
              /\ \A p \in photos' : p.image = i => i \in files'
              /\ \A s \in Requests :
                    Holds(s, i)' /\ req'[s].pc = "put" => i \in files'
    BY DEF HoldersOK
  <2>1. CASE i # k
    BY <1>1, <1>2, <1>4, <1>5, <1>7, <2>1 DEF HoldersOK
  <2>2. CASE i = k
    BY <1>1, <1>2, <1>4, <1>5, <1>7, <2>2 DEF HoldersOK
  <2>3. QED
    BY <2>1, <2>2
<1>9. OvershootBounded'
  <2>1. Late' \subseteq Late
    BY <1>2, <1>4 DEF Late
  <2>2. IsFiniteSet(photos') /\ Cardinality(photos') <= Cardinality(photos)
    BY <1>1, <1>2, SameKept DEF Kept
  <2>3. QED
    BY <1>1, <2>1, <2>2, RoomKeeps
<1>10. QED
  BY <1>6, <1>8, <1>9 DEF PhotosInv

LEMMA IdleShape == RequestShape(Idle) /\ Idle.pc = "idle"
BY DEF RequestShape, Idle

\* The upload's row takes over its file and its place in the count.
LEMMA InsertKeeps ==
    ASSUME PhotosInv, NEW r \in Requests, Insert(r) PROVE PhotosInv'
<1>1. /\ ShapeOK /\ HoldersOK /\ OvershootBounded
      /\ req[r].pc = "put" /\ req[r].image \in Images
      /\ req' = [req EXCEPT ![r] = Idle] /\ files' = files /\ stored' = stored
  BY DEF PhotosInv, Insert, End, ShapeOK, RequestShape
<1>2. CASE photos' = photos
  BY <1>1, <1>2, SameKept, IdleShape, QuietKeeps
<1>3. CASE photos' = photos \cup {[id |-> issued + 1,
                                   position |-> req[r].count,
                                   image |-> req[r].image]}
  <2> DEFINE k == req[r].image
             new == [id |-> issued + 1, position |-> req[r].count, image |-> k]
  <2>1. PhotoShape(new) /\ new.image = k
    BY <1>1 DEF PhotoShape
  <2>2. photos' = photos \cup {new}
    BY <1>3
  <2> HIDE DEF new
  <2>3. /\ req' = [s \in Requests |-> req'[s]] /\ req'[r] = Idle
        /\ \A s \in Requests : s # r => req'[s] = req[s]
    BY <1>1, ReqSet
  <2>4. /\ IsFiniteSet(photos') /\ Cardinality(photos) \in Nat
        /\ Cardinality(photos') = IF new \in photos THEN Cardinality(photos)
                                  ELSE Cardinality(photos) + 1
    BY <1>1, <2>2, FS_AddElement, FS_CardinalityType DEF ShapeOK
  <2>5. ShapeOK'
    BY <1>1, <2>1, <2>2, <2>3, <2>4, IdleShape DEF ShapeOK
  <2>6. /\ \A s \in Requests, i \in Images :
              Holds(s, i)' => Holds(s, i) /\ req'[s] = req[s] /\ s # r
        /\ Holds(r, k)
    BY <1>1, <2>3, IdleShape DEF Holds
  <2>7. HoldersOK'
    <3> SUFFICES ASSUME NEW i \in Images PROVE
          /\ stored'[i] = "never" =>
                /\ \A p \in photos' : p.image # i
                /\ \A s \in Requests : ~ Holds(s, i)'
          /\ stored'[i] = "once" =>
                /\ \A p, q \in photos' : p.image = i /\ q.image = i => p = q
                /\ \A s, u \in Requests : Holds(s, i)' /\ Holds(u, i)' => s = u
                /\ \A p \in photos', s \in Requests :
                      ~ (p.image = i /\ Holds(s, i)')
                /\ \A p \in photos' : p.image = i => i \in files'
                /\ \A s \in Requests :
                      Holds(s, i)' /\ req'[s].pc = "put" => i \in files'
      BY DEF HoldersOK
    <3> HIDE DEF k
    <3>1. k = req[r].image
      BY DEF k
    <3>2. CASE i # k
      BY <1>1, <2>1, <2>2, <2>6, <3>2 DEF HoldersOK
    <3>3. CASE i = k
      BY <1>1, <2>1, <2>2, <2>6, <3>3 DEF HoldersOK
    <3>4. QED
      BY <3>2, <3>3
  <2>8. OvershootBounded'
    <3>1. r \in Late /\ Late \subseteq Requests /\ Late' = Late \ {r}
      BY <1>1, <2>3, IdleShape DEF Late
    <3>2. IsFiniteSet(Late) /\ Cardinality(Late) \in Nat
      BY <3>1, FS_Subset, FS_CardinalityType, PhotosAssumption
    <3>3. Cardinality(Late') = Cardinality(Late) - 1
      BY <3>1, <3>2, FS_RemoveElement
    <3>4. Cardinality(photos) + Cardinality(Late)
              <= MaxPhotos + Cardinality(Requests) - 1
      BY <1>1 DEF OvershootBounded, Late
    <3>5. Cardinality(Requests) \in Nat
      BY FS_CardinalityType, PhotosAssumption
    <3>6. Cardinality(photos') + Cardinality(Late')
              <= MaxPhotos + Cardinality(Requests) - 1
      BY <2>4, <3>2, <3>3, <3>4, <3>5, PhotosAssumption
    <3>7. QED
      BY <3>6 DEF OvershootBounded, Late
  <2>9. QED
    BY <2>5, <2>7, <2>8 DEF PhotosInv
<1>4. QED
  BY <1>2, <1>3 DEF Insert

\* A deleted row hands its file to the deletion.
LEMMA DeleteRowKeeps ==
    ASSUME PhotosInv, NEW r \in Requests, NEW p \in photos, NEW todo, NEW keep,
           req[r].pc \in {"idle", "deleting"}, DeleteRow(r, p, todo, keep)
    PROVE  PhotosInv'
<1> DEFINE k == p.image
           t == [pc |-> "unlinking", count |-> 0, image |-> k,
                 todo |-> todo, keep |-> keep]
<1>1. /\ ShapeOK /\ HoldersOK /\ OvershootBounded
      /\ photos' = photos \ {p} /\ req' = [req EXCEPT ![r] = t]
      /\ files' = files /\ stored' = stored
  BY DEF PhotosInv, DeleteRow
<1>2. k \in Images
  BY <1>1 DEF ShapeOK, PhotoShape
<1>3. RequestShape(t) /\ t.pc = "unlinking" /\ t.image = k
  BY <1>2 DEF RequestShape
<1> HIDE DEF t
<1>4. Kept
  BY <1>1, RemovedKept
<1>5. /\ req' = [s \in Requests |-> req'[s]] /\ req'[r] = t
      /\ \A s \in Requests : s # r => req'[s] = req[s]
  BY <1>1, ReqSet
<1>6. ShapeOK'
  BY <1>1, <1>3, <1>4, <1>5 DEF ShapeOK, Kept
<1>7. /\ \A s \in Requests, i \in Images :
            s # r => (Holds(s, i)' <=> Holds(s, i))
      /\ \A i \in Images : Holds(r, i)' <=> i = k
  BY <1>3, <1>5 DEF Holds
<1>8. HoldersOK'
  <2> SUFFICES ASSUME NEW i \in Images PROVE
        /\ stored'[i] = "never" =>
              /\ \A q \in photos' : q.image # i
              /\ \A s \in Requests : ~ Holds(s, i)'
        /\ stored'[i] = "once" =>
              /\ \A o, q \in photos' : o.image = i /\ q.image = i => o = q
              /\ \A s, u \in Requests : Holds(s, i)' /\ Holds(u, i)' => s = u
              /\ \A q \in photos', s \in Requests :
                    ~ (q.image = i /\ Holds(s, i)')
              /\ \A q \in photos' : q.image = i => i \in files'
              /\ \A s \in Requests :
                    Holds(s, i)' /\ req'[s].pc = "put" => i \in files'
    BY DEF HoldersOK
  <2>1. p.image = k
    OBVIOUS
  <2> HIDE DEF k
  <2>2. CASE i # k
    BY <1>1, <1>3, <1>5, <1>7, <2>2 DEF HoldersOK
  <2>3. CASE i = k
    BY <1>1, <1>3, <1>5, <1>7, <2>1, <2>3 DEF HoldersOK
  <2>4. QED
    BY <2>2, <2>3
<1>9. OvershootBounded'
  <2>1. Late' \subseteq Late
    BY <1>3, <1>5 DEF Late
  <2>2. QED
    BY <1>1, <1>4, <2>1, RoomKeeps DEF Kept
<1>10. QED
  BY <1>6, <1>8, <1>9 DEF PhotosInv

\* The file goes: nobody else held it, unless it was stored again.
LEMMA UnlinkKeeps ==
    ASSUME PhotosInv, NEW r \in Requests, Unlink(r) PROVE PhotosInv'
<1> DEFINE k == req[r].image
           t == [req[r] EXCEPT !.pc = "closing"]
<1>1. /\ ShapeOK /\ HoldersOK /\ OvershootBounded
      /\ req[r].pc = "unlinking" /\ k \in Images
      /\ req' = [req EXCEPT ![r] = t] /\ photos' = photos /\ stored' = stored
      /\ files \ {k} \subseteq files'
  <2>1. ShapeOK /\ HoldersOK /\ OvershootBounded /\ req[r].pc = "unlinking"
    BY DEF PhotosInv, Unlink
  <2>2. k \in Images
    BY <2>1 DEF ShapeOK, RequestShape
  <2>3. req' = [req EXCEPT ![r] = t]
    BY DEF Unlink
  <2>4. /\ photos' = photos /\ stored' = stored /\ files \ {k} \subseteq files'
    BY DEF Unlink
  <2>5. QED
    BY <2>1, <2>2, <2>3, <2>4
<1>2. RequestShape(t) /\ t.pc = "closing"
  BY <1>1, SetRequestPc
<1> HIDE DEF t
<1>3. /\ req' = [s \in Requests |-> req'[s]] /\ req'[r] = t
      /\ \A s \in Requests : s # r => req'[s] = req[s]
  BY <1>1, ReqSet
<1>4. ShapeOK'
  BY <1>1, <1>2, <1>3 DEF ShapeOK
<1>5. /\ \A s \in Requests, i \in Images :
            Holds(s, i)' => Holds(s, i) /\ req'[s] = req[s] /\ s # r
      /\ Holds(r, k)
  BY <1>1, <1>2, <1>3 DEF Holds
<1> HIDE DEF k
<1>6. HoldersOK'
  BY <1>1, <1>5 DEF HoldersOK
<1>7. OvershootBounded'
  <2>1. Late' \subseteq Late
    BY <1>2, <1>3 DEF Late
  <2>2. QED
    BY <1>1, <2>1, RoomKeeps, SameKept DEF Kept
<1>8. QED
  BY <1>4, <1>6, <1>7 DEF PhotosInv

----------------------------------------------------------------------------

LEMMA PhaseShape ==
    ASSUME NEW todo, NEW keep
    PROVE  /\ RequestShape(Phase(todo, keep))
           /\ Phase(todo, keep).pc \in {"deleting", "reordering", "idle"}
<1> DEFINE pc == IF todo # <<>> THEN "deleting"
                 ELSE IF keep # <<>> THEN "reordering" ELSE "idle"
           a == [Idle EXCEPT !.pc = pc]
           b == [a EXCEPT !.todo = todo]
<1>1. Phase(todo, keep) = [b EXCEPT !.keep = keep]
  BY DEF Phase
<1>2. pc \in {"deleting", "reordering", "idle"}
  OBVIOUS
<1> HIDE DEF pc
<1>3. a = [pc |-> pc, count |-> 0, image |-> NoImage,
           todo |-> <<>>, keep |-> <<>>]
  BY DEF Idle
<1> HIDE DEF a
<1>4. b = [pc |-> pc, count |-> 0, image |-> NoImage,
           todo |-> todo, keep |-> <<>>]
  BY <1>3
<1> HIDE DEF b
<1>5. Phase(todo, keep) = [pc |-> pc, count |-> 0, image |-> NoImage,
                           todo |-> todo, keep |-> keep]
  BY <1>1, <1>4
<1>6. QED
  BY <1>2, <1>5 DEF RequestShape

\* Renumbering places every row, somewhere.
LEMMA RankKept == ASSUME ShapeOK, photos' = Placed(Rank) PROVE Kept
<1> DEFINE g == [p \in photos |-> Rank(p)]
<1>1. photos' = {[p EXCEPT !.position = g[p]] : p \in photos}
  BY DEF Placed
<1> HIDE DEF g
<1>2. QED
  BY <1>1, PlacedKept

LEMMA ReorderedKept ==
    ASSUME ShapeOK, NEW ids, photos' = Reordered(ids) PROVE Kept
<1> DEFINE g == [p \in photos |->
                    IF \E n \in DOMAIN ids : ids[n] = p.id
                    THEN Max({n \in DOMAIN ids : ids[n] = p.id}) - 1
                    ELSE Shifted(p)]
<1>1. photos' = {[p EXCEPT !.position = g[p]] : p \in photos}
  BY DEF Reordered, Placed
<1> HIDE DEF g
<1>2. QED
  BY <1>1, PlacedKept

LEMMA CloseGapKeeps ==
    ASSUME PhotosInv, NEW r \in Requests, CloseGap(r) PROVE PhotosInv'
<1>1. ShapeOK /\ UNCHANGED <<files, stored>>
  BY DEF PhotosInv, CloseGap
<1>2. CASE /\ photos' = Placed(Rank)
           /\ req' = [req EXCEPT ![r] = Phase(req[r].todo, req[r].keep)]
  <2>1. Kept
    BY <1>1, <1>2, RankKept
  <2>2. QED
    BY <1>1, <1>2, <2>1, PhaseShape, QuietKeeps
<1>3. CASE photos' = photos /\ End(r)
  BY <1>1, <1>3, SameKept, IdleShape, QuietKeeps DEF End
<1>4. QED
  BY <1>2, <1>3 DEF CloseGap

LEMMA ReorderKeptKeeps ==
    ASSUME PhotosInv, NEW r \in Requests, ReorderKept(r) PROVE PhotosInv'
<1>1. /\ ShapeOK /\ UNCHANGED <<files, stored>>
      /\ req' = [req EXCEPT ![r] = Idle]
  BY DEF PhotosInv, ReorderKept, End
<1>2. Kept
  BY <1>1, SameKept, ReorderedKept DEF ReorderKept
<1>3. QED
  BY <1>1, <1>2, IdleShape, QuietKeeps

LEMMA ReorderKeeps ==
    ASSUME PhotosInv, NEW r \in Requests, NEW ids, Reorder(r, ids)
    PROVE  PhotosInv'
<1>1. /\ ShapeOK /\ HoldersOK /\ OvershootBounded
      /\ photos' = Reordered(ids)
      /\ req' = req /\ files' = files /\ stored' = stored
  BY DEF PhotosInv, Reorder
<1>2. Kept
  BY <1>1, ReorderedKept
<1>3. ShapeOK'
  BY <1>1, <1>2 DEF ShapeOK, Kept
<1>4. HoldersOK'
  BY <1>1, <1>2 DEF HoldersOK, Kept, Holds
<1>5. OvershootBounded'
  <2>1. Late' \subseteq Late
    BY <1>1 DEF Late
  <2>2. QED
    BY <1>1, <1>2, <2>1, RoomKeeps DEF Kept
<1>6. QED
  BY <1>3, <1>4, <1>5 DEF PhotosInv

LEMMA SaveKeeps ==
    ASSUME PhotosInv, NEW r \in Requests, NEW urls, Save(r, urls)
    PROVE  PhotosInv'
<1>1. PICK todo, keep : req' = [req EXCEPT ![r] = Phase(todo, keep)]
  BY DEF Save
<1>2. ShapeOK /\ UNCHANGED <<photos, files, stored>>
  BY DEF PhotosInv, Save
<1>3. QED
  BY <1>1, <1>2, SameKept, PhaseShape, QuietKeeps

LEMMA DeleteNextKeeps ==
    ASSUME PhotosInv, NEW r \in Requests, DeleteNext(r) PROVE PhotosInv'
<1>1. CASE End(r) /\ UNCHANGED <<photos, files, issued, stored>>
  BY <1>1, SameKept, IdleShape, QuietKeeps DEF End, PhotosInv
<1>2. CASE \E p \in photos :
              DeleteRow(r, p, Tail(req[r].todo), req[r].keep)
  BY <1>2, DeleteRowKeeps DEF DeleteNext
<1>3. QED
  BY <1>1, <1>2 DEF DeleteNext

LEMMA AbortUploadKeeps ==
    ASSUME PhotosInv, NEW r \in Requests, AbortUpload(r) PROVE PhotosInv'
BY SameKept, IdleShape, QuietKeeps DEF AbortUpload, End, PhotosInv

LEMMA PhotosStep == PhotosInv /\ [PhotosNext]_photoVars => PhotosInv'
<1> SUFFICES ASSUME PhotosInv, [PhotosNext]_photoVars PROVE PhotosInv'
  OBVIOUS
<1>1. CASE UNCHANGED photoVars
  BY <1>1 DEF photoVars, PhotosInv, ShapeOK, HoldersOK, Holds, OvershootBounded
<1>2. ASSUME NEW r \in Requests, Delete(r) PROVE PhotosInv'
  BY <1>2, DeleteRowKeeps DEF Delete
<1>3. CASE PhotosNext
  BY <1>2, <1>3, UploadKeeps, PutKeeps, InsertKeeps, UnlinkKeeps,
     CloseGapKeeps, ReorderKeeps, SaveKeeps, DeleteNextKeeps,
     ReorderKeptKeeps, AbortUploadKeeps DEF PhotosNext
<1>4. QED
  BY <1>1, <1>3

LEMMA PhotosInvariant == PhotosSpec => []PhotosInv
  BY PhotosInitInv, PhotosStep, PTL DEF PhotosSpec

\* "A row pointing at a missing file is a broken image": for any number of
\* requests, images and rows, only a row whose bytes were uploaded again can
\* (handleUpload, deletePhoto): BrokenOnlyIfShared.
THEOREM BrokenImagesAreShared == PhotosSpec => []BrokenOnlyIfShared
<1>1. ASSUME PhotosInv PROVE BrokenOnlyIfShared
  BY <1>1 DEF PhotosInv, ShapeOK, PhotoShape, HoldersOK, BrokenOnlyIfShared
<1>2. QED
  BY <1>1, PhotosInvariant, PTL

\* "You can have at most 6 photos": for any limit, uploads that counted before
\* it was reached go over it by one each and no more: OvershootBounded.
THEOREM OvershootAlwaysBounded == PhotosSpec => []OvershootBounded
<1>1. PhotosInv => OvershootBounded
  BY DEF PhotosInv
<1>2. QED
  BY <1>1, PhotosInvariant, PTL

=============================================================================

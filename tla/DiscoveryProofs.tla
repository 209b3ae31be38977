---------------------------- MODULE DiscoveryProofs ----------------------------
(***************************************************************************)
(* For every profile: the ranges of the scores, of the completion of a     *)
(* profile, the order of a ranking, and that the openers of a pair fit.    *)
(* For any accounts and any number of saves under way: what a profile      *)
(* lists comes from one of them (SavesInv), the order of a feed does not   *)
(* depend on who was active, and search finds whom a feed showed (ReadInv, *)
(* which says what the reads rely on, and PatchesOK, what a save carries). *)
(***************************************************************************)
EXTENDS Discovery, FiniteSetTheorems, SequenceTheorems, TLAPS

\* Rounding a fraction stays between two integers that bound it.
LEMMA RoundBetween ==
    ASSUME NEW n \in Int, NEW d \in Nat \ {0}, NEW lo \in Int, NEW hi \in Int,
           lo * d <= n, n <= hi * d
    PROVE  Round(n, d) \in lo..hi
<1> DEFINE a == 2 * n + d
           b == 2 * d
           q == a \div b
<1>1. a \in Int /\ b \in Nat \ {0}
  OBVIOUS
<1> HIDE DEF a, b
<1>2. q \in Int /\ b * q <= a /\ a < b * q + b
  BY <1>1
<1>3. b * lo <= a /\ a < b * hi + b
  BY DEF a, b
<1> HIDE DEF q
<1>4. b * lo < b * (q + 1) /\ b * q < b * (hi + 1)
  BY <1>1, <1>2, <1>3
<1>5. lo < q + 1 /\ q < hi + 1
  BY <1>1, <1>2, <1>4
<1>6. q \in lo..hi
  BY <1>2, <1>5
<1>7. QED
  BY <1>6 DEF q, a, b, Round

\* A fraction of at most one, in percent.
LEMMA RoundPercent ==
    ASSUME NEW n \in Int, NEW d \in Nat \ {0}, 0 <= n, n <= 100 * d
    PROVE  Round(n, d) \in 0..100
<1> DEFINE lo == 0
           hi == 100
<1>1. lo \in Int /\ hi \in Int /\ lo * d <= n /\ n <= hi * d
  OBVIOUS
<1> HIDE DEF lo, hi
<1>2. Round(n, d) \in lo..hi
  BY <1>1, RoundBetween
<1>3. QED
  BY <1>2 DEF lo, hi

\* The weights of Calculate sum to one: the overall score lies between the
\* worst and the best of the six.
THEOREM OverallBetween ==
    ASSUME NEW lo \in Int, NEW hi \in Int,
           NEW p \in lo..hi, NEW l \in lo..hi, NEW i \in lo..hi,
           NEW r \in lo..hi, NEW c \in lo..hi, NEW o \in lo..hi
    PROVE  Overall(p, l, i, r, c, o) \in lo..hi
<1> DEFINE n == 25 * p + 20 * l + 20 * i + 20 * r + 10 * c + 5 * o
<1>1. n \in Int /\ lo * 100 <= n /\ n <= hi * 100
  OBVIOUS
<1> HIDE DEF n
<1>2. Round(n, 100) \in lo..hi
  BY <1>1, RoundBetween
<1>3. QED
  BY <1>2 DEF Overall, n

----------------------------------------------------------------------------

\* A fraction between zero and one.
Fraction(f) == /\ f.n \in Int /\ f.d \in Nat \ {0}
               /\ 0 <= f.n /\ f.n <= f.d

\* What two profiles share of their tags is a fraction.
LEMMA JaccardFraction ==
    ASSUME NEW a, NEW b, IsFiniteSet(a), IsFiniteSet(b)
    PROVE  Fraction(Jaccard(a, b))
<1>1. CASE a \cup b = {}
  BY <1>1 DEF Jaccard, Fraction
<1>2. CASE a \cup b # {}
  <2>1. IsFiniteSet(a \cup b)
    BY FS_Union
  <2>2. Cardinality(a \cup b) \in Nat \ {0}
    BY <1>2, <2>1, FS_CardinalityType, FS_EmptySet
  <2>3. a \cap b \subseteq a \cup b
    OBVIOUS
  <2>4. /\ Cardinality(a \cap b) \in Nat
        /\ Cardinality(a \cap b) <= Cardinality(a \cup b)
    BY <2>1, <2>3, FS_Subset, FS_CardinalityType
  <2>5. QED
    BY <1>2, <2>2, <2>4 DEF Jaccard, Fraction
<1>3. QED
  BY <1>1, <1>2

\* How far two sets of answers agree is a fraction.
LEMMA OverlapFraction ==
    ASSUME NEW a, NEW b, IsFiniteSet(DOMAIN a)
    PROVE  Fraction(AnswerOverlap(a, b))
<1> DEFINE compared == DOMAIN a \cap DOMAIN b
           same == {q \in compared : a[q] = b[q]}
<1>1. CASE compared = {}
  BY <1>1 DEF AnswerOverlap, Fraction
<1>2. CASE compared # {}
  <2>1. IsFiniteSet(compared) /\ same \subseteq compared
    BY FS_Subset
  <2>2. Cardinality(compared) \in Nat \ {0}
    BY <1>2, <2>1, FS_CardinalityType, FS_EmptySet
  <2>3. Cardinality(same) \in Nat /\ Cardinality(same) <= Cardinality(compared)
    BY <2>1, FS_Subset, FS_CardinalityType
  <2>4. AnswerOverlap(a, b) =
            [n |-> 45 * Cardinality(compared) + 55 * Cardinality(same),
             d |-> 100 * Cardinality(compared)]
    BY <1>2 DEF AnswerOverlap
  <2> HIDE DEF compared, same
  <2>5. QED
    BY <2>2, <2>3, <2>4 DEF Fraction
<1>3. QED
  BY <1>1, <1>2

\* The weighted mean of two fractions, in percent.
LEMMA MeanPercent ==
    ASSUME NEW f, NEW g, Fraction(f), Fraction(g)
    PROVE  Round(55 * f.n * g.d + 45 * g.n * f.d, f.d * g.d) \in 0..100
<1> DEFINE x == f.n * g.d
           y == g.n * f.d
           z == f.d * g.d
           n == 55 * f.n * g.d + 45 * g.n * f.d
<1>1. x \in Int /\ y \in Int /\ z \in Nat \ {0}
  BY DEF Fraction
<1>2. 0 <= x /\ x <= z
  BY DEF Fraction
<1>3. 0 <= y /\ y <= z
  BY DEF Fraction
<1>4. n = 55 * x + 45 * y
  BY DEF Fraction
<1> HIDE DEF x, y, z, n
<1>5. n \in Int /\ 0 <= n /\ n <= 100 * z
  BY <1>1, <1>2, <1>3, <1>4
<1>6. Round(n, z) \in 0..100
  BY <1>1, <1>5, RoundPercent
<1>7. QED
  BY <1>6 DEF n, z

\* What Calculate reads of a profile is of the kind the database stores.
Readable(p) ==
    /\ IsFiniteSet(p.traits)
    /\ IsFiniteSet(DOMAIN p.answers)
    /\ IsFiniteSet(Interests(p))
    /\ p.maxKm \in Nat
    /\ p.km \in Nat

\* The score of traits and answers is a percentage.
LEMMA PersonalityRange ==
    ASSUME NEW a, NEW b, Readable(a), Readable(b)
    PROVE  PersonalityScore(a, b) \in 0..100
<1>1. /\ Fraction(Jaccard(a.traits, b.traits))
      /\ Fraction(AnswerOverlap(a.answers, b.answers))
  BY JaccardFraction, OverlapFraction DEF Readable
<1>2. QED
  BY <1>1, MeanPercent DEF PersonalityScore

\* The score of the interests is a percentage.
LEMMA InterestRange ==
    ASSUME NEW a, NEW b, Readable(a), Readable(b)
    PROVE  InterestScore(a, b) \in 0..100
<1> DEFINE j == Jaccard(Interests(a), Interests(b))
<1>1. Fraction(j)
  BY JaccardFraction DEF Readable
<1> HIDE DEF j
<1>2. 100 * j.n \in Int /\ 0 <= 100 * j.n /\ 100 * j.n <= 100 * j.d
  BY <1>1 DEF Fraction
<1>3. Round(100 * j.n, j.d) \in 0..100
  BY <1>1, <1>2, RoundPercent DEF Fraction
<1>4. QED
  BY <1>3 DEF InterestScore, j

\* There are finitely many habits.
LEMMA HabitsFinite == IsFiniteSet(Habits)
<1> DEFINE h1 == {} \cup {"exercise"}
           h2 == h1 \cup {"drinking"}
           h3 == h2 \cup {"smoking"}
           h4 == h3 \cup {"diet"}
           h5 == h4 \cup {"sleep"}
           h6 == h5 \cup {"pets"}
           h7 == h6 \cup {"children"}
           h8 == h7 \cup {"religion"}
<1>1. Habits = h8
  BY DEF Habits
<1>2. IsFiniteSet(h1)
  BY FS_EmptySet, FS_AddElement
<1> HIDE DEF h1
<1>3. IsFiniteSet(h2)
  BY <1>2, FS_AddElement
<1> HIDE DEF h2
<1>4. IsFiniteSet(h3)
  BY <1>3, FS_AddElement
<1> HIDE DEF h3
<1>5. IsFiniteSet(h4)
  BY <1>4, FS_AddElement
<1> HIDE DEF h4
<1>6. IsFiniteSet(h5)
  BY <1>5, FS_AddElement
<1> HIDE DEF h5
<1>7. IsFiniteSet(h6)
  BY <1>6, FS_AddElement
<1> HIDE DEF h6
<1>8. IsFiniteSet(h7)
  BY <1>7, FS_AddElement
<1> HIDE DEF h7
<1>9. IsFiniteSet(h8)
  BY <1>8, FS_AddElement
<1>10. QED
  BY <1>1, <1>9

\* The score of the habits is a percentage, whatever the bonus for a language.
LEMMA LifestyleRange ==
    ASSUME NEW a, NEW b
    PROVE  LifestyleScore(a, b) \in 0..100
<1> DEFINE matching == {h \in Habits : SoftMatch(a.lifestyle[h], b.lifestyle[h])}
           bonus == Points(a.languages \cap b.languages # {}, 8)
           k == Cardinality(matching)
           n == 100 * k + 8 * bonus
<1>1. k \in Nat
  <2>1. matching \subseteq Habits
    OBVIOUS
  <2>2. QED
    BY <2>1, HabitsFinite, FS_Subset, FS_CardinalityType
<1>2. bonus \in {0, 8}
  BY DEF Points
<1>3. LifestyleScore(a, b) = AtMost(Round(n, 8), 100)
  BY DEF LifestyleScore
<1> HIDE DEF k, bonus
<1>4. n \in Nat
  BY <1>1, <1>2
<1> HIDE DEF n
<1>5. Round(n, 8) \in Int /\ 0 <= Round(n, 8)
  BY <1>4 DEF Round
<1>6. QED
  BY <1>3, <1>5 DEF AtMost

\* The score of the distance is a percentage, at every distance and reach.
LEMMA LocationRange ==
    ASSUME NEW a, NEW b, Readable(a), Readable(b)
    PROVE  LocationScore(a, b) \in 0..100
<1> DEFINE d == 100 * a.maxKm + 1
           n == 95 * (100 * a.maxKm + 1) - 2500 * b.km
<1>1. a.maxKm \in Nat /\ b.km \in Nat
  BY DEF Readable
<1>2. d \in Nat \ {0} /\ n \in Int
  BY <1>1
<1>3. CASE b.km <= a.maxKm
  <2>1. 0 <= n /\ n <= 100 * d
    BY <1>1, <1>3
  <2> HIDE DEF d, n
  <2>2. Round(n, d) \in 0..100
    BY <1>2, <2>1, RoundPercent
  <2>3. QED
    BY <1>3, <2>2 DEF LocationScore, d, n
<1>4. CASE ~ (b.km <= a.maxKm)
  BY <1>1, <1>4 DEF LocationScore
<1>5. QED
  BY <1>3, <1>4

\* The compatibility of any two profiles is a percentage (Calculate).
THEOREM CompatibilityRange ==
    ASSUME NEW a, NEW b, Readable(a), Readable(b)
    PROVE  Calculate(a, b) \in 0..100
<1>1. RelationshipScore(a, b) \in 0..100 /\ CommunicationScore(a, b) \in 0..100
  BY DEF RelationshipScore, CommunicationScore
<1> DEFINE lo == 0
           hi == 100
<1>2. /\ PersonalityScore(a, b) \in lo..hi /\ LifestyleScore(a, b) \in lo..hi
      /\ InterestScore(a, b) \in lo..hi /\ RelationshipScore(a, b) \in lo..hi
      /\ CommunicationScore(a, b) \in lo..hi /\ LocationScore(a, b) \in lo..hi
      /\ lo \in Int /\ hi \in Int
  BY <1>1, PersonalityRange, LifestyleRange, InterestRange, LocationRange
<1> HIDE DEF lo, hi
<1>3. Calculate(a, b) \in lo..hi
  BY <1>2, OverallBetween DEF Calculate
<1>4. QED
  BY <1>3 DEF lo, hi

----------------------------------------------------------------------------

\* A profile is complete to 100 percent exactly when nothing is missing, and
\* never below 16 (EvaluateCompletion).
THEOREM CompletionRange ==
    ASSUME NEW basics \in BOOLEAN, NEW photos \in Nat, NEW bio \in Nat,
           NEW prompts \in Nat, NEW interests \in Nat, NEW verified \in BOOLEAN
    PROVE  LET percent == Percent(basics, photos, bio, prompts, interests,
                                  verified)
           IN  /\ percent \in 16..100
               /\ percent = 100 <=> /\ basics /\ photos >= 4 /\ bio >= 40
                                    /\ prompts >= 3 /\ interests >= 6
                                    /\ verified
<1>1. CASE basics = TRUE /\ verified = TRUE
  BY <1>1 DEF Percent, Points, AtMost, Round
<1>2. CASE basics = TRUE /\ verified = FALSE
  BY <1>2 DEF Percent, Points, AtMost, Round
<1>3. CASE basics = FALSE /\ verified = TRUE
  BY <1>3 DEF Percent, Points, AtMost, Round
<1>4. CASE basics = FALSE /\ verified = FALSE
  BY <1>4 DEF Percent, Points, AtMost, Round
<1>5. QED
  BY <1>1, <1>2, <1>3, <1>4

\* A scored candidate.
Scored == [at : Nat, id : Nat, score : Int]

\* Before orders candidates with distinct ids totally: the order of a ranking
\* is settled by the candidates alone.
THEOREM BeforeIsTotal ==
    /\ \A a \in Scored : ~ Before(a, a)
    /\ \A a, b, c \in Scored : Before(a, b) /\ Before(b, c) => Before(a, c)
    /\ \A a, b \in Scored : a.id # b.id => Before(a, b) \/ Before(b, a)
BY DEF Before, Scored

----------------------------------------------------------------------------

RowStatement == <<"row", "columns">>
SeeAnswers == <<"see", "answers">>
DropAnswers == <<"drop", "answers">>

Statement == {"row", "see", "drop", "add"} \X ({"columns"} \cup Lists)

\* What is left of a save's statements: the update of the row comes first, the
\* DELETE of the answers ends right after it has begun, and a list is replaced
\* only if the patch names it.
Ordered(todo, patch) ==
    /\ todo \in Seq(Statement)
    /\ \A i \in 1..Len(todo) : todo[i][2] \in Lists => Has(patch, todo[i][2])
    /\ \A i \in 2..Len(todo) :
           /\ todo[i] # RowStatement
           /\ todo[i] = DropAnswers => todo[i - 1] = SeeAnswers
    /\ (todo # <<>> /\ Head(todo) = RowStatement /\ Has(patch, "answers")) =>
           \E i \in 1..Len(todo) : todo[i] = DropAnswers

Fields == {"stage", "user", "patch", "todo", "seen", "gone", "added"}

EntryFields == {"user", "list", "key", "row", "by"}

\* The prompts among some rows.
PromptsIn(rows) == {e \in rows : e.list = "prompts"}

\* A save with a list of prompts has made the first of them.
HasPrompts(r) ==
    /\ r \in Requests
    /\ saves[r].stage \in {"begun", "saved"}
    /\ Has(saves[r].patch, "prompts")
    /\ saves[r].patch.prompts \in Seq(Nat)

SavesOK ==
    /\ DOMAIN saves = Requests
    /\ \A r \in Requests :
           /\ saves[r].stage \in {"begun", "saved"} =>
                  \E in \in Submissions : saves[r].patch = in.patch
           /\ InFlight(r) => /\ DOMAIN saves[r] = Fields
                             /\ Ordered(saves[r].todo, saves[r].patch)

\* Rows stand for what committed saves wrote.
EntryOK(e) ==
    /\ DOMAIN e = EntryFields
    /\ e.list \in Lists
    /\ e.by \in Requests /\ e.row \in Requests
    /\ e.list = "prompts" => e.by = e.row /\ HasPrompts(e.row)

EntriesOK ==
    \A e \in entries : EntryOK(e) /\ saves[e.by].stage = "saved"

\* The prompts of an account are those of one save, all of them.
PromptsWhole ==
    \A d \in PromptsIn(entries) :
        /\ d.key \in Keys(d.row, "prompts")
        /\ \A e \in PromptsIn(entries) : e.user = d.user => e.row = d.row
        /\ \A k \in Keys(d.row, "prompts") :
               \E e \in PromptsIn(entries) : e.user = d.user /\ e.key = k

\* Of the answers of an account, those a save that locked the row has written
\* come from one save.
AnswersLocked ==
    \A u \in Users : \A d, e \in Of(u, "answers") :
        d.by # e.by => \E r \in {d.by, e.by} : Columns(saves[r].patch) = {}

\* What a save in flight has inserted: its own rows, and all of its prompts if
\* any, in the place of all the others.
AddedOK(r) ==
    /\ \A e \in saves[r].added :
           /\ EntryOK(e)
           /\ e.user = saves[r].user
           /\ e.by = r
           /\ Has(saves[r].patch, e.list)
           /\ e.list = "prompts" => e.key \in Keys(r, "prompts")
    /\ PromptsIn(saves[r].added) # {} =>
           /\ NewEntries(r, "prompts") \subseteq saves[r].added
           /\ Of(saves[r].user, "prompts") \subseteq saves[r].gone

\* What it has deleted: committed rows, and all of the prompts or none.
GoneOK(r) ==
    /\ saves[r].gone \subseteq entries
    /\ \A d \in saves[r].gone : d.user = saves[r].user
    /\ PromptsIn(saves[r].gone) # {} =>
           Of(saves[r].user, "prompts") \subseteq saves[r].gone

\* What its last DELETE looks at: all the prompts of a committed save.
SeenOK(r) ==
    /\ \A d \in saves[r].seen : d.user = saves[r].user
    /\ \A d \in PromptsIn(saves[r].seen) :
           /\ d.row \in Requests /\ saves[d.row].stage = "saved"
           /\ \A k \in Keys(d.row, "prompts") :
                  \E e \in PromptsIn(saves[r].seen) :
                      e.user = d.user /\ e.row = d.row /\ e.key = k

\* Two saves of one profile delete different rows; no two insert prompts, or
\* insert and delete them; and only one holds the row.
Apart(r, s) ==
    /\ saves[r].gone \cap saves[s].gone = {}
    /\ PromptsIn(saves[r].added) # {} =>
           PromptsIn(saves[s].added \cup saves[s].gone) = {}
    /\ ~ (HoldsRow(r) /\ HoldsRow(s))

Locking(r) == {e \in Of(saves[r].user, "answers") :
                  Columns(saves[e.by].patch) # {}}

\* A save that holds the row sees every answer such a save has written, and
\* then deletes it: none is inserted meanwhile.
LockKept(r) ==
    HoldsRow(r) =>
        /\ At(r, DropAnswers) =>
               \A e \in Locking(r) : \E d \in saves[r].seen : Same(d, e)
        /\ (/\ Has(saves[r].patch, "answers")
            /\ \A i \in 1..Len(saves[r].todo) : saves[r].todo[i] # DropAnswers)
               => Locking(r) \subseteq saves[r].gone

SavesInv ==
    /\ SavesOK
    /\ EntriesOK
    /\ PromptsWhole
    /\ AnswersLocked
    /\ \A r \in Requests : InFlight(r) =>
           /\ AddedOK(r)
           /\ GoneOK(r)
           /\ SeenOK(r)
           /\ LockKept(r)
           /\ \A s \in Others(r) : Apart(r, s)

----------------------------------------------------------------------------

\* The statements of a save, before the first and after the next one.
LEMMA OrderedAtFirst ==
    ASSUME NEW patch
    PROVE  /\ Ordered(Statements(patch), patch)
           /\ Columns(patch) # {} =>
                  /\ Statements(patch) # <<>>
                  /\ Head(Statements(patch)) = RowStatement
<1> DEFINE replace(list) ==
               IF Has(patch, list)
               THEN <<<<"see", list>>, <<"drop", list>>, <<"add", list>>>>
               ELSE <<>>
           c == IF Columns(patch) = {} THEN <<>> ELSE <<RowStatement>>
           p == replace("prompts")
           a == replace("answers")
           q == c \o p
           t == q \o a
<1>1. Statements(patch) = t
  BY DEF Statements, RowStatement
<1>2. /\ c \in Seq(Statement)
      /\ \A i \in 1..Len(c) : i = 1 /\ c[i] = RowStatement
      /\ Columns(patch) # {} => Len(c) = 1
  BY DEF Statement, RowStatement
<1>3. /\ p \in Seq(Statement)
      /\ \A i \in 1..Len(p) : p[i][2] = "prompts" /\ Has(patch, "prompts")
  <2>1. CASE ~ Has(patch, "prompts")
    BY <2>1
  <2>2. CASE Has(patch, "prompts")
    <3> DEFINE x == <<"see", "prompts">>
               y == <<"drop", "prompts">>
               z == <<"add", "prompts">>
    <3>1. p = <<x, y, z>>
      BY <2>2
    <3>2. /\ x \in Statement /\ y \in Statement /\ z \in Statement
          /\ x[2] = "prompts" /\ y[2] = "prompts" /\ z[2] = "prompts"
      BY DEF Statement, Lists
    <3> HIDE DEF x, y, z, p
    <3>3. QED
      BY <2>2, <3>1, <3>2
  <2>3. QED
    BY <2>1, <2>2
<1>4. /\ a \in Seq(Statement)
      /\ \A i \in 1..Len(a) :
             /\ a[i][2] = "answers" /\ Has(patch, "answers")
             /\ a[i] = DropAnswers => i = 2
      /\ Len(a) >= 2 => a[1] = SeeAnswers
      /\ Has(patch, "answers") => Len(a) = 3 /\ a[2] = DropAnswers
  <2>1. CASE ~ Has(patch, "answers")
    BY <2>1
  <2>2. CASE Has(patch, "answers")
    <3> DEFINE z == <<"add", "answers">>
    <3>1. a = <<SeeAnswers, DropAnswers, z>>
      BY <2>2 DEF SeeAnswers, DropAnswers
    <3>2. /\ SeeAnswers \in Statement /\ DropAnswers \in Statement
          /\ z \in Statement
          /\ SeeAnswers[2] = "answers" /\ DropAnswers[2] = "answers"
          /\ z[2] = "answers"
          /\ SeeAnswers # DropAnswers /\ z # DropAnswers
      BY DEF Statement, Lists, SeeAnswers, DropAnswers
    <3> HIDE DEF z, a
    <3>3. QED
      BY <2>2, <3>1, <3>2
  <2>3. QED
    BY <2>1, <2>2
<1> HIDE DEF c, p, a
<1>5. /\ q \in Seq(Statement) /\ Len(q) = Len(c) + Len(p)
      /\ \A i \in 1..Len(q) : q[i] = IF i <= Len(c) THEN c[i] ELSE p[i - Len(c)]
  <2>1. c \in Seq(Statement) /\ p \in Seq(Statement)
    BY <1>2, <1>3
  <2>2. QED
    BY <2>1
<1>6. \A i \in 1..Len(q) :
          /\ q[i][2] # "answers"
          /\ q[i][2] = "prompts" => Has(patch, "prompts")
          /\ i > 1 => q[i] # RowStatement
          /\ q[i] # DropAnswers
  <2> TAKE i \in 1..Len(q)
  <2>1. c \in Seq(Statement) /\ p \in Seq(Statement)
    BY <1>2, <1>3
  <2>2. CASE i <= Len(c)
    <3>1. i \in 1..Len(c) /\ q[i] = c[i]
      BY <1>5, <2>1, <2>2
    <3>2. i = 1 /\ q[i] = RowStatement
      BY <1>2, <3>1
    <3>3. QED
      BY <3>2 DEF RowStatement, DropAnswers
  <2>3. CASE ~ (i <= Len(c))
    <3>1. i - Len(c) \in 1..Len(p) /\ q[i] = p[i - Len(c)]
      BY <1>5, <2>1, <2>3
    <3>2. q[i][2] = "prompts" /\ Has(patch, "prompts")
      BY <1>3, <3>1
    <3>3. QED
      BY <3>2 DEF RowStatement, DropAnswers
  <2>4. QED
    BY <2>2, <2>3
<1> HIDE DEF q
<1>7. /\ t \in Seq(Statement) /\ Len(t) = Len(q) + Len(a)
      /\ \A i \in 1..Len(t) : t[i] = IF i <= Len(q) THEN q[i] ELSE a[i - Len(q)]
  <2>1. q \in Seq(Statement) /\ a \in Seq(Statement)
    BY <1>4, <1>5
  <2>2. QED
    BY <2>1
<1> HIDE DEF t
<1>0. Len(q) \in Nat /\ Len(a) \in Nat
  <2>1. q \in Seq(Statement) /\ a \in Seq(Statement)
    BY <1>4, <1>5
  <2>2. QED
    BY <2>1
<1>8. \A i \in 1..Len(t) : t[i][2] \in Lists => Has(patch, t[i][2])
  <2> TAKE i \in 1..Len(t)
  <2>1. CASE i <= Len(q)
    BY <2>1, <1>5, <1>6, <1>7 DEF Lists
  <2>2. CASE i > Len(q)
    <3>1. i - Len(q) \in 1..Len(a) /\ t[i] = a[i - Len(q)]
      BY <2>2, <1>4, <1>5, <1>7
    <3>2. QED
      BY <3>1, <1>4
  <2>3. QED
    BY <2>1, <2>2, <1>5
<1>9. \A i \in 2..Len(t) : /\ t[i] # RowStatement
                           /\ t[i] = DropAnswers => t[i - 1] = SeeAnswers
  <2> TAKE i \in 2..Len(t)
  <2>1. CASE i <= Len(q)
    BY <2>1, <1>5, <1>6, <1>7
  <2>2. CASE i > Len(q)
    <3>1. i - Len(q) \in 1..Len(a) /\ t[i] = a[i - Len(q)]
      BY <2>2, <1>4, <1>5, <1>7
    <3>2. t[i] # RowStatement
      BY <3>1, <1>4 DEF RowStatement
    <3>3. ASSUME t[i] = DropAnswers PROVE t[i - 1] = SeeAnswers
      <4>1. i - Len(q) = 2
        BY <3>1, <3>3, <1>4
      <4>2. t[i - 1] = a[(i - 1) - Len(q)] /\ (i - 1) - Len(q) = 1
        BY <4>1, <3>1, <1>4, <1>5, <1>7
      <4>3. QED
        BY <4>1, <4>2, <3>1, <1>4
    <3>4. QED
      BY <3>2, <3>3
  <2>3. QED
    BY <2>1, <2>2, <1>5
<1>10. Has(patch, "answers") => \E i \in 1..Len(t) : t[i] = DropAnswers
  <2> SUFFICES ASSUME Has(patch, "answers")
               PROVE  \E i \in 1..Len(t) : t[i] = DropAnswers
    OBVIOUS
  <2> DEFINE i == Len(q) + 2
  <2>1. Len(a) = 3 /\ a[2] = DropAnswers
    BY <1>4
  <2>2. i \in 1..Len(t) /\ ~ (i <= Len(q)) /\ i - Len(q) = 2
    <3>1. Len(t) = Len(q) + Len(a)
      BY <1>7
    <3>2. QED
      BY <1>0, <2>1, <3>1
  <2> HIDE DEF i
  <2>3. t[i] = a[i - Len(q)]
    BY <1>7, <2>2
  <2>4. QED
    BY <2>1, <2>2, <2>3
<1>11. Columns(patch) # {} => t # <<>> /\ Head(t) = RowStatement
  <2> SUFFICES ASSUME Columns(patch) # {}
               PROVE  t # <<>> /\ Head(t) = RowStatement
    OBVIOUS
  <2>1. Len(q) >= 1 /\ q[1] = RowStatement
    <3>1. Len(c) = 1 /\ Len(p) \in Nat
      <4>1. p \in Seq(Statement)
        BY <1>3
      <4>2. QED
        BY <4>1, <1>2
    <3>2. 1 \in 1..Len(c) /\ 1 \in 1..Len(q) /\ 1 <= Len(c)
      BY <3>1, <1>5
    <3>3. c[1] = RowStatement
      BY <3>2, <1>2
    <3>4. q[1] = c[1]
      BY <3>2, <1>5
    <3>5. QED
      BY <3>2, <3>3, <3>4
  <2>2. Len(t) = Len(q) + Len(a)
    BY <1>7
  <2>3. 1 \in 1..Len(t) /\ 1 <= Len(q)
    BY <2>1, <2>2, <1>0
  <2>4. t[1] = q[1]
    BY <2>3, <1>7
  <2>5. QED
    BY <2>1, <2>3, <2>4, <1>7
<1>12. QED
  BY <1>1, <1>7, <1>8, <1>9, <1>10, <1>11 DEF Ordered

LEMMA OrderedNext ==
    ASSUME NEW todo, NEW patch, Ordered(todo, patch), todo # <<>>
    PROVE  /\ Ordered(Tail(todo), patch)
           /\ Tail(todo) # <<>> =>
                  /\ Head(Tail(todo)) # RowStatement
                  /\ Head(Tail(todo)) = DropAnswers => Head(todo) = SeeAnswers
           /\ (\E i \in 1..Len(todo) : todo[i] = DropAnswers)
                  /\ Head(todo) # DropAnswers =>
                      \E i \in 1..Len(Tail(todo)) : Tail(todo)[i] = DropAnswers
<1> DEFINE t == Tail(todo)
<1>1. /\ todo \in Seq(Statement) /\ Len(todo) >= 1 /\ Head(todo) = todo[1]
      /\ t \in Seq(Statement) /\ Len(t) = Len(todo) - 1
      /\ \A i \in 1..Len(t) : t[i] = todo[i + 1]
  BY DEF Ordered
<1>2. \A i \in 1..Len(t) : t[i][2] \in Lists => Has(patch, t[i][2])
  BY <1>1 DEF Ordered
<1>3. \A i \in 1..Len(t) : /\ t[i] # RowStatement
                           /\ t[i] = DropAnswers => todo[i] = SeeAnswers
  <2> TAKE i \in 1..Len(t)
  <2>1. i + 1 \in 2..Len(todo) /\ (i + 1) - 1 = i
    BY <1>1
  <2>2. QED
    BY <1>1, <2>1 DEF Ordered
<1>4. \A i \in 2..Len(t) : t[i] = DropAnswers => t[i - 1] = SeeAnswers
  <2> TAKE i \in 2..Len(t)
  <2>1. t[i - 1] = todo[i] /\ i \in 1..Len(t)
    <3>1. i - 1 \in 1..Len(t) /\ (i - 1) + 1 = i
      BY <1>1
    <3>2. QED
      BY <1>1, <3>1
  <2>2. QED
    BY <1>3, <2>1
<1>5. t # <<>> => Head(t) = t[1] /\ 1 \in 1..Len(t)
  BY <1>1
<1>6. ASSUME NEW i \in 1..Len(todo), todo[i] = DropAnswers,
             Head(todo) # DropAnswers
      PROVE  \E j \in 1..Len(t) : t[j] = DropAnswers
  <2>1. i - 1 \in 1..Len(t) /\ (i - 1) + 1 = i
    BY <1>1, <1>6
  <2>2. t[i - 1] = DropAnswers
    BY <1>1, <1>6, <2>1
  <2>3. QED
    BY <2>1, <2>2
<1> HIDE DEF t
<1>7. Ordered(t, patch)
  BY <1>1, <1>2, <1>3, <1>4, <1>5 DEF Ordered
<1>8. t # <<>> => /\ Head(t) # RowStatement
                  /\ Head(t) = DropAnswers => Head(todo) = SeeAnswers
  BY <1>1, <1>3, <1>5
<1>9. QED
  BY <1>6, <1>7, <1>8 DEF t

\* Prompts are numbered from 1.
LEMMA FirstPrompt ==
    ASSUME NEW r \in Requests, HasPrompts(r),
           NEW k \in Keys(r, "prompts")
    PROVE  1 \in Keys(r, "prompts")
BY DEF HasPrompts, Keys

LEMMA PromptsAreLists ==
    ASSUME SavesOK, NEW r \in Requests, saves[r].stage \in {"begun", "saved"},
           Has(saves[r].patch, "prompts")
    PROVE  HasPrompts(r)
BY SubmissionsAssumption DEF SavesOK, HasPrompts, Has

----------------------------------------------------------------------------

\* r has executed a statement other than its COMMIT.
Moved(r, seen, gone, added) ==
    /\ InFlight(r) /\ saves[r].todo # <<>>
    /\ DOMAIN saves' = Requests
    /\ \A s \in Requests \ {r} : saves'[s] = saves[s]
    /\ DOMAIN saves'[r] = Fields
    /\ saves'[r].stage = "begun"
    /\ saves'[r].user = saves[r].user
    /\ saves'[r].patch = saves[r].patch
    /\ saves'[r].todo = Tail(saves[r].todo)
    /\ saves'[r].seen = seen
    /\ saves'[r].gone = gone
    /\ saves'[r].added = added
    /\ entries' = entries

LEMMA StepMoves ==
    ASSUME SavesOK, NEW r \in Requests, InFlight(r), saves[r].todo # <<>>,
           NEW save, DOMAIN save = Fields, save.stage = "begun",
           save.user = saves[r].user, save.patch = saves[r].patch,
           save.todo = saves[r].todo,
           Step(r, save), UNCHANGED entries
    PROVE  Moved(r, save.seen, save.gone, save.added)
<1> DEFINE next == [save EXCEPT !.todo = Tail(@)]
<1>1. /\ DOMAIN next = Fields /\ next.stage = "begun"
      /\ next.user = save.user /\ next.patch = save.patch
      /\ next.todo = Tail(save.todo) /\ next.seen = save.seen
      /\ next.gone = save.gone /\ next.added = save.added
  BY DEF Fields
<1> HIDE DEF next
<1>2. saves' = [saves EXCEPT ![r] = next]
  BY DEF Step, next
<1>3. /\ DOMAIN saves' = Requests /\ saves'[r] = next
      /\ \A s \in Requests \ {r} : saves'[s] = saves[s]
  BY <1>2 DEF SavesOK
<1>4. QED
  BY <1>1, <1>3 DEF Moved

\* Its statement touches neither what it is saving nor the tables.
LEMMA MoveIsSteady ==
    ASSUME NEW r \in Requests, NEW seen, NEW gone, NEW added,
           Moved(r, seen, gone, added)
    PROVE  /\ \A x \in Requests :
                  /\ saves'[x].stage = saves[x].stage
                  /\ saves'[x].patch = saves[x].patch
                  /\ InFlight(x)' <=> InFlight(x)
                  /\ InFlight(x) => saves'[x].user = saves[x].user
                  /\ HasPrompts(x)' <=> HasPrompts(x)
                  /\ \A list : Keys(x, list)' = Keys(x, list)
           /\ \A u, list : Of(u, list)' = Of(u, list)
           /\ \A e : EntryOK(e)' <=> EntryOK(e)
<1>1. \A x \in Requests : /\ saves'[x].stage = saves[x].stage
                          /\ saves'[x].patch = saves[x].patch
                          /\ saves'[x].user = saves[x].user
                          /\ InFlight(x)' <=> InFlight(x)
  BY DEF Moved, InFlight
<1>2. \A x \in Requests : HasPrompts(x)' <=> HasPrompts(x)
  BY <1>1 DEF HasPrompts
<1>3. \A x \in Requests : \A list : Keys(x, list)' = Keys(x, list)
  BY <1>1 DEF Keys
<1>4. \A u, list : Of(u, list)' = Of(u, list)
  BY DEF Of, Moved
<1>5. \A e : EntryOK(e)' <=> EntryOK(e)
  BY <1>2 DEF EntryOK
<1>6. QED
  BY <1>1, <1>2, <1>3, <1>4, <1>5

\* The tables, and the other saves, are as they were.
LEMMA MoveKeepsTables ==
    ASSUME SavesInv, NEW r \in Requests, NEW seen, NEW gone, NEW added,
           Moved(r, seen, gone, added)
    PROVE  SavesOK' /\ EntriesOK' /\ PromptsWhole' /\ AnswersLocked'
<1>1. /\ \A x \in Requests :
             /\ saves'[x].stage = saves[x].stage
             /\ saves'[x].patch = saves[x].patch
             /\ InFlight(x)' <=> InFlight(x)
             /\ \A list : Keys(x, list)' = Keys(x, list)
      /\ \A u, list : Of(u, list)' = Of(u, list)
      /\ \A e : EntryOK(e)' <=> EntryOK(e)
  BY MoveIsSteady
<1>2. SavesOK'
  <2>1. DOMAIN saves' = Requests
    BY DEF Moved
  <2>2. ASSUME NEW s \in Requests
        PROVE  saves'[s].stage \in {"begun", "saved"} =>
                   \E in \in Submissions : saves'[s].patch = in.patch
    BY <1>1 DEF SavesInv, SavesOK
  <2>3. ASSUME NEW s \in Requests, InFlight(s)'
        PROVE  /\ DOMAIN saves'[s] = Fields
               /\ Ordered(saves'[s].todo, saves'[s].patch)
    <3>1. CASE s = r
      <4>1. Ordered(saves[r].todo, saves[r].patch) /\ saves[r].todo # <<>>
        BY DEF Moved, SavesInv, SavesOK
      <4>2. Ordered(Tail(saves[r].todo), saves[r].patch)
        BY <4>1, OrderedNext
      <4>3. QED
        BY <3>1, <4>2 DEF Moved
    <3>2. CASE s # r
      BY <3>2, <2>3, <1>1 DEF Moved, SavesInv, SavesOK
    <3>3. QED
      BY <3>1, <3>2
  <2>4. QED
    BY <2>1, <2>2, <2>3 DEF SavesOK
<1>3. EntriesOK'
  <2>1. entries' = entries
    BY DEF Moved
  <2>2. QED
    BY <1>1, <2>1 DEF SavesInv, EntriesOK, EntryOK
<1>4. PromptsWhole'
  <2>1. entries' = entries /\ PromptsIn(entries)' = PromptsIn(entries)
    BY DEF Moved, PromptsIn
  <2>2. \A d \in PromptsIn(entries) : d.row \in Requests
    BY DEF PromptsIn, SavesInv, EntriesOK, EntryOK
  <2>3. \A d \in PromptsIn(entries) :
            Keys(d.row, "prompts")' = Keys(d.row, "prompts")
    BY <1>1, <2>2
  <2>4. QED
    BY <2>1, <2>3 DEF SavesInv, PromptsWhole
<1>5. AnswersLocked'
  <2> SUFFICES ASSUME NEW u \in Users, NEW d \in Of(u, "answers"),
                      NEW e \in Of(u, "answers"), d.by # e.by
               PROVE  \E x \in {d.by, e.by} : Columns(saves'[x].patch) = {}
    BY <1>1 DEF AnswersLocked
  <2>1. d.by \in Requests /\ e.by \in Requests
    BY DEF SavesInv, EntriesOK, EntryOK, Of
  <2>2. PICK x \in {d.by, e.by} : Columns(saves[x].patch) = {}
    BY DEF SavesInv, AnswersLocked
  <2>3. QED
    BY <1>1, <2>1, <2>2
<1>6. QED
  BY <1>2, <1>3, <1>4, <1>5

LEMMA MoveKeepsOthers ==
    ASSUME SavesInv, NEW r \in Requests, NEW seen, NEW gone, NEW added,
           Moved(r, seen, gone, added),
           NEW s \in Requests, s # r, InFlight(s)
    PROVE  /\ AddedOK(s)' /\ GoneOK(s)' /\ SeenOK(s)' /\ LockKept(s)'
           /\ \A t \in Others(s) \ {r} : Apart(s, t)'
<1>1. /\ \A x \in Requests :
             /\ saves'[x].stage = saves[x].stage
             /\ saves'[x].patch = saves[x].patch
             /\ InFlight(x)' <=> InFlight(x)
             /\ \A list : Keys(x, list)' = Keys(x, list)
      /\ \A u, list : Of(u, list)' = Of(u, list)
      /\ \A e : EntryOK(e)' <=> EntryOK(e)
  BY MoveIsSteady
<1>2. saves'[s] = saves[s] /\ entries' = entries
  BY DEF Moved
<1>3. AddedOK(s) /\ GoneOK(s) /\ SeenOK(s) /\ LockKept(s)
  BY DEF SavesInv
<1>4. AddedOK(s)'
  <2>1. NewEntries(s, "prompts")' = NewEntries(s, "prompts")
    BY <1>1, <1>2 DEF NewEntries
  <2>2. PromptsIn(saves[s].added)' = PromptsIn(saves[s].added)
    BY <1>2 DEF PromptsIn
  <2>3. QED
    BY <1>1, <1>2, <1>3, <2>1, <2>2 DEF AddedOK
<1>5. GoneOK(s)'
  BY <1>1, <1>2, <1>3 DEF GoneOK, PromptsIn
<1>6. SeenOK(s)'
  <2>1. PromptsIn(saves[s].seen)' = PromptsIn(saves[s].seen)
    BY <1>2 DEF PromptsIn
  <2>2. QED
    BY <1>1, <1>2, <1>3, <2>1 DEF SeenOK
<1>7. /\ HoldsRow(s)' <=> HoldsRow(s)
      /\ At(s, DropAnswers)' <=> At(s, DropAnswers)
  BY <1>1, <1>2 DEF HoldsRow, At, InFlight
<1>8. Locking(s)' = Locking(s)
  <2>1. \A e \in Of(saves[s].user, "answers") : e.by \in Requests
    BY DEF SavesInv, EntriesOK, EntryOK, Of
  <2>2. QED
    BY <1>1, <1>2, <2>1 DEF Locking
<1>9. LockKept(s)'
  BY <1>2, <1>3, <1>7, <1>8 DEF LockKept
<1>10. ASSUME NEW t \in Others(s) \ {r} PROVE Apart(s, t)'
  <2>1. Apart(s, t) /\ t \in Requests /\ saves'[t] = saves[t]
    BY <1>10 DEF SavesInv, Others, Moved
  <2>2. HoldsRow(t)' <=> HoldsRow(t)
    BY <1>1, <2>1 DEF HoldsRow, At, InFlight
  <2>3. QED
    BY <1>2, <1>7, <2>1, <2>2 DEF Apart, PromptsIn
<1>11. QED
  BY <1>4, <1>5, <1>6, <1>9, <1>10

\* What is left to show of a statement of r is about r.
LEMMA MoveKeeps ==
    ASSUME SavesInv, NEW r \in Requests, NEW seen, NEW gone, NEW added,
           Moved(r, seen, gone, added),
           AddedOK(r)', GoneOK(r)', SeenOK(r)', LockKept(r)',
           \A s \in Others(r) : Apart(r, s)' /\ Apart(s, r)'
    PROVE  SavesInv'
<1>1. \A x \in Requests : /\ InFlight(x)' <=> InFlight(x)
                          /\ InFlight(x) => saves'[x].user = saves[x].user
  BY MoveIsSteady
<1>2. \A x \in Requests : InFlight(x) => Others(x)' = Others(x)
  BY <1>1 DEF Others
<1>3. ASSUME NEW x \in Requests, InFlight(x)'
      PROVE  /\ AddedOK(x)' /\ GoneOK(x)' /\ SeenOK(x)' /\ LockKept(x)'
             /\ \A s \in Others(x)' : Apart(x, s)'
  <2>1. InFlight(x) /\ Others(x)' = Others(x)
    BY <1>1, <1>2, <1>3
  <2>2. CASE x = r
    BY <2>1, <2>2
  <2>3. CASE x # r
    <3>1. ASSUME r \in Others(x) PROVE Apart(x, r)'
      <4>1. x \in Others(r)
        BY <2>1, <2>3, <3>1 DEF Others
      <4>2. QED
        BY <4>1
    <3>2. QED
      BY <2>1, <2>3, <3>1, MoveKeepsOthers
  <2>4. QED
    BY <2>2, <2>3
<1>4. SavesOK' /\ EntriesOK' /\ PromptsWhole' /\ AnswersLocked'
  BY MoveKeepsTables
<1>5. QED
  BY <1>3, <1>4 DEF SavesInv

\* The row stays locked, and what was seen or deleted is still so.
LEMMA MoveKeepsLock ==
    ASSUME SavesInv, NEW r \in Requests, NEW seen, NEW gone, NEW added,
           Moved(r, seen, gone, added)
    PROVE  /\ Head(saves[r].todo) # RowStatement /\ HoldsRow(r)' => HoldsRow(r)
           /\ Head(saves[r].todo) # SeeAnswers => ~ At(r, DropAnswers)'
           /\ (/\ Head(saves[r].todo) # DropAnswers
               /\ Has(saves'[r].patch, "answers")
               /\ HoldsRow(r)'
               /\ \A i \in 1..Len(saves'[r].todo) :
                      saves'[r].todo[i] # DropAnswers)
                  => /\ Locking(r)' = Locking(r)
                     /\ Locking(r) \subseteq saves[r].gone
           /\ Locking(r)' = Locking(r)
<1> DEFINE t == saves[r].todo
           p == saves[r].patch
<1>1. /\ saves'[r].todo = Tail(t) /\ saves'[r].patch = p
      /\ saves'[r].user = saves[r].user /\ entries' = entries
      /\ InFlight(r) /\ t # <<>>
  BY DEF Moved
<1>2. Ordered(t, p)
  BY <1>1 DEF SavesInv, SavesOK
<1>3. /\ Tail(t) # <<>> =>
             /\ Head(Tail(t)) # RowStatement
             /\ Head(Tail(t)) = DropAnswers => Head(t) = SeeAnswers
      /\ (\E i \in 1..Len(t) : t[i] = DropAnswers) /\ Head(t) # DropAnswers =>
             \E i \in 1..Len(Tail(t)) : Tail(t)[i] = DropAnswers
  BY <1>1, <1>2, OrderedNext
<1> HIDE DEF t, p
<1>4. Head(t) # RowStatement /\ HoldsRow(r)' => HoldsRow(r)
  BY <1>1 DEF HoldsRow, At, RowStatement, t, p
<1>5. Head(t) # SeeAnswers => ~ At(r, DropAnswers)'
  BY <1>1, <1>3 DEF At
<1>6. Locking(r)' = Locking(r)
  <2>1. \A e \in Of(saves[r].user, "answers") : e.by \in Requests
    BY DEF SavesInv, EntriesOK, EntryOK, Of
  <2>2. \A x \in Requests : saves'[x].patch = saves[x].patch
    BY MoveIsSteady
  <2>3. Of(saves[r].user, "answers")' = Of(saves[r].user, "answers")
    BY <1>1 DEF Of
  <2>4. QED
    BY <2>1, <2>2, <2>3 DEF Locking
<1>7. ASSUME Head(t) # DropAnswers, Has(p, "answers"), HoldsRow(r)',
             \A i \in 1..Len(Tail(t)) : Tail(t)[i] # DropAnswers
      PROVE  Locking(r) \subseteq saves[r].gone
  <2>1. \A i \in 1..Len(t) : t[i] # DropAnswers
    BY <1>3, <1>7
  <2>2. Head(t) # RowStatement
    BY <1>1, <1>2, <1>7, <2>1 DEF Ordered
  <2>3. HoldsRow(r)
    BY <1>4, <1>7, <2>2
  <2>4. LockKept(r)
    BY <1>1 DEF SavesInv
  <2>5. QED
    BY <1>7, <2>1, <2>3, <2>4 DEF LockKept, t, p
<1>8. QED
  BY <1>1, <1>4, <1>5, <1>6, <1>7 DEF t, p

----------------------------------------------------------------------------

\* The facts a statement starts from.
LEMMA AtStatement ==
    ASSUME SavesInv, NEW r \in Requests, NEW statement, At(r, statement)
    PROVE  /\ InFlight(r) /\ saves[r].todo # <<>>
           /\ Head(saves[r].todo) = statement
           /\ SavesOK /\ DOMAIN saves[r] = Fields /\ saves[r].stage = "begun"
           /\ AddedOK(r) /\ GoneOK(r) /\ SeenOK(r) /\ LockKept(r)
           /\ \A s \in Others(r) :
                  /\ s \in Requests /\ InFlight(s) /\ s # r
                  /\ saves[s].user = saves[r].user
                  /\ Apart(r, s) /\ Apart(s, r)
                  /\ AddedOK(s) /\ GoneOK(s)
           /\ statement[2] \in Lists => Has(saves[r].patch, statement[2])
<1>1. At(r, statement)
  OBVIOUS
<1>2. InFlight(r) /\ saves[r].todo # <<>> /\ Head(saves[r].todo) = statement
  BY <1>1 DEF At
<1>3. SavesOK /\ DOMAIN saves[r] = Fields /\ saves[r].stage = "begun"
  BY <1>2 DEF SavesInv, SavesOK, InFlight
<1>4. AddedOK(r) /\ GoneOK(r) /\ SeenOK(r) /\ LockKept(r)
  BY <1>2 DEF SavesInv
<1>5. ASSUME NEW s \in Others(r)
      PROVE  /\ s \in Requests /\ InFlight(s) /\ s # r
             /\ saves[s].user = saves[r].user
             /\ Apart(r, s) /\ Apart(s, r) /\ AddedOK(s) /\ GoneOK(s)
  <2>1. s \in Requests /\ InFlight(s) /\ s # r /\ saves[s].user = saves[r].user
    BY DEF Others
  <2>2. r \in Others(s)
    BY <1>2, <2>1 DEF Others
  <2>3. QED
    BY <1>2, <2>1, <2>2 DEF SavesInv
<1>6. statement[2] \in Lists => Has(saves[r].patch, statement[2])
  <2> DEFINE t == saves[r].todo
  <2>1. Ordered(t, saves[r].patch)
    BY <1>2 DEF SavesInv, SavesOK
  <2>2. t \in Seq(Statement) /\ 1 \in 1..Len(t) /\ t[1] = statement
    BY <1>2, <2>1 DEF Ordered
  <2>3. QED
    BY <2>1, <2>2 DEF Ordered
<1>7. QED
  BY <1>2, <1>3, <1>4, <1>5, <1>6

\* While it only changes what it has seen, deleted and inserted, two saves
\* stay apart as far as the lock goes.
LEMMA LockApart ==
    ASSUME SavesInv, NEW r \in Requests, NEW seen, NEW gone, NEW added,
           Moved(r, seen, gone, added), NEW s \in Others(r),
           Head(saves[r].todo) = RowStatement => ~ HoldsRow(s)
    PROVE  ~ (HoldsRow(r)' /\ HoldsRow(s)')
<1>1. InFlight(r) /\ s \in Requests /\ s # r
  BY DEF Moved, Others
<1>2. ~ (HoldsRow(r) /\ HoldsRow(s))
  BY <1>1 DEF SavesInv, Apart
<1>3. HoldsRow(s)' <=> HoldsRow(s)
  BY <1>1 DEF Moved, HoldsRow, At, InFlight
<1>4. Head(saves[r].todo) # RowStatement /\ HoldsRow(r)' => HoldsRow(r)
  BY MoveKeepsLock
<1>5. QED
  BY <1>2, <1>3, <1>4

LEMMA WriteRowKeeps ==
    ASSUME SavesInv, NEW r \in Requests, WriteRow(r)
    PROVE  SavesInv'
<1>1. /\ At(r, RowStatement) /\ RowFree(r)
      /\ Step(r, saves[r]) /\ UNCHANGED entries
  BY DEF WriteRow, RowStatement
<1>2. /\ InFlight(r) /\ saves[r].todo # <<>>
      /\ Head(saves[r].todo) = RowStatement
      /\ SavesOK /\ DOMAIN saves[r] = Fields /\ saves[r].stage = "begun"
      /\ AddedOK(r) /\ GoneOK(r) /\ SeenOK(r)
      /\ \A s \in Others(r) : Apart(r, s) /\ Apart(s, r)
  BY <1>1, AtStatement
<1>3. Moved(r, saves[r].seen, saves[r].gone, saves[r].added)
  BY <1>1, <1>2, StepMoves
<1>4. saves'[r].gone = saves[r].gone /\ saves'[r].added = saves[r].added
      /\ saves'[r].seen = saves[r].seen /\ entries' = entries
      /\ saves'[r].user = saves[r].user /\ saves'[r].patch = saves[r].patch
      /\ \A s \in Requests \ {r} : saves'[s] = saves[s]
  BY <1>3 DEF Moved
<1>5. /\ \A x \in Requests : /\ saves'[x].stage = saves[x].stage
                             /\ \A list : Keys(x, list)' = Keys(x, list)
      /\ \A u, list : Of(u, list)' = Of(u, list)
      /\ \A e : EntryOK(e)' <=> EntryOK(e)
  BY <1>3, MoveIsSteady
<1>6. AddedOK(r)'
  BY <1>2, <1>4, <1>5 DEF AddedOK, NewEntries, PromptsIn
<1>7. GoneOK(r)'
  BY <1>2, <1>4, <1>5 DEF GoneOK, PromptsIn
<1>8. SeenOK(r)'
  BY <1>2, <1>4, <1>5 DEF SeenOK, PromptsIn
<1>9. LockKept(r)'
  <2>1. RowStatement # SeeAnswers /\ RowStatement # DropAnswers
    BY DEF RowStatement, SeeAnswers, DropAnswers
  <2>2. ~ At(r, DropAnswers)'
    BY <1>2, <1>3, <2>1, MoveKeepsLock
  <2>3. ASSUME HoldsRow(r)', Has(saves'[r].patch, "answers"),
               \A i \in 1..Len(saves'[r].todo) : saves'[r].todo[i] # DropAnswers
        PROVE  Locking(r)' \subseteq saves'[r].gone
    BY <1>2, <1>3, <1>4, <2>1, <2>3, MoveKeepsLock
  <2>4. QED
    BY <2>2, <2>3 DEF LockKept
<1>10. ASSUME NEW s \in Others(r) PROVE Apart(r, s)' /\ Apart(s, r)'
  <2>1. ~ HoldsRow(s) /\ saves'[s] = saves[s]
    BY <1>1, <1>4 DEF RowFree, Others
  <2>2. ~ (HoldsRow(r)' /\ HoldsRow(s)')
    BY <1>3, <2>1, LockApart
  <2>3. QED
    BY <1>2, <1>4, <2>1, <2>2 DEF Apart, PromptsIn
<1>11. QED
  BY <1>3, <1>6, <1>7, <1>8, <1>9, <1>10, MoveKeeps

\* What a DELETE sees is what one committed save has left.
LEMMA SeeKeeps ==
    ASSUME SavesInv, NEW r \in Requests, NEW list \in Lists, See(r, list)
    PROVE  SavesInv'
<1> DEFINE seen == Of(saves[r].user, list)
           save == [saves[r] EXCEPT !.seen = seen]
<1>1. At(r, <<"see", list>>) /\ Step(r, save) /\ UNCHANGED entries
  BY DEF See
<1>2. /\ InFlight(r) /\ saves[r].todo # <<>>
      /\ Head(saves[r].todo) = <<"see", list>>
      /\ SavesOK /\ DOMAIN saves[r] = Fields /\ saves[r].stage = "begun"
      /\ AddedOK(r) /\ GoneOK(r)
      /\ \A s \in Others(r) : Apart(r, s) /\ Apart(s, r)
  BY <1>1, AtStatement
<1>3. /\ DOMAIN save = Fields /\ save.stage = "begun"
      /\ save.user = saves[r].user /\ save.patch = saves[r].patch
      /\ save.todo = saves[r].todo /\ save.seen = seen
      /\ save.gone = saves[r].gone /\ save.added = saves[r].added
  BY <1>2 DEF Fields
<1> HIDE DEF save
<1>4. Moved(r, seen, saves[r].gone, saves[r].added)
  BY <1>1, <1>2, <1>3, StepMoves
<1>5. saves'[r].gone = saves[r].gone /\ saves'[r].added = saves[r].added
      /\ saves'[r].seen = seen /\ entries' = entries
      /\ saves'[r].user = saves[r].user /\ saves'[r].patch = saves[r].patch
      /\ \A s \in Requests \ {r} : saves'[s] = saves[s]
  BY <1>4 DEF Moved
<1>6. /\ \A x \in Requests : /\ saves'[x].stage = saves[x].stage
                             /\ \A l : Keys(x, l)' = Keys(x, l)
      /\ \A u, l : Of(u, l)' = Of(u, l)
      /\ \A e : EntryOK(e)' <=> EntryOK(e)
  BY <1>4, MoveIsSteady
<1>7. AddedOK(r)'
  BY <1>2, <1>5, <1>6 DEF AddedOK, NewEntries, PromptsIn
<1>8. GoneOK(r)'
  BY <1>2, <1>5, <1>6 DEF GoneOK, PromptsIn
<1>9. SeenOK(r)'
  <2>1. \A d \in seen : d.user = saves'[r].user
    BY <1>5 DEF Of
  <2>2. ASSUME NEW d \in PromptsIn(seen)
        PROVE  /\ d.row \in Requests /\ saves'[d.row].stage = "saved"
               /\ \A k \in Keys(d.row, "prompts")' :
                      \E e \in PromptsIn(seen) :
                          e.user = d.user /\ e.row = d.row /\ e.key = k
    <3>1. /\ d \in entries /\ d.list = "prompts" /\ list = "prompts"
          /\ d.user = saves[r].user
      BY DEF PromptsIn, Of
    <3>2. d.row \in Requests /\ saves[d.row].stage = "saved"
      BY <3>1 DEF SavesInv, EntriesOK, EntryOK
    <3>3. ASSUME NEW k \in Keys(d.row, "prompts")
          PROVE  \E e \in PromptsIn(seen) :
                     e.user = d.user /\ e.row = d.row /\ e.key = k
      <4>1. d \in PromptsIn(entries)
        BY <3>1 DEF PromptsIn
      <4>2. PICK e \in PromptsIn(entries) : e.user = d.user /\ e.key = k
        BY <3>3, <4>1 DEF SavesInv, PromptsWhole
      <4>3. e.row = d.row
        BY <4>1, <4>2 DEF SavesInv, PromptsWhole
      <4>4. e \in PromptsIn(seen)
        BY <3>1, <4>2 DEF PromptsIn, Of
      <4>5. QED
        BY <4>2, <4>3, <4>4
    <3>4. QED
      BY <1>6, <3>2, <3>3
  <2> HIDE DEF seen
  <2>3. PromptsIn(saves[r].seen)' = PromptsIn(seen)
    BY <1>5 DEF PromptsIn
  <2>4. \A d \in saves'[r].seen : d.user = saves'[r].user
    BY <1>5, <2>1
  <2>5. QED
    BY <2>2, <2>3, <2>4 DEF SeenOK
<1>10. LockKept(r)'
  <2>1. <<"see", list>> # DropAnswers
    BY DEF DropAnswers
  <2>2. ASSUME At(r, DropAnswers)'
        PROVE  \A e \in Locking(r)' : \E d \in saves'[r].seen : Same(d, e)
    <3>1. <<"see", list>> = SeeAnswers
      BY <1>2, <1>4, <2>2, MoveKeepsLock
    <3>2. list = "answers"
      BY <3>1 DEF SeeAnswers
    <3>3. Locking(r)' \subseteq saves'[r].seen
      BY <1>5, <3>2 DEF Locking, Of
    <3>4. QED
      BY <3>3 DEF Same
  <2>3. QED
    BY <1>2, <1>4, <1>5, <2>1, <2>2, MoveKeepsLock DEF LockKept
<1>11. ASSUME NEW s \in Others(r) PROVE Apart(r, s)' /\ Apart(s, r)'
  <2>1. saves'[s] = saves[s]
    BY <1>5 DEF Others
  <2>2. <<"see", list>> # RowStatement
    BY DEF RowStatement
  <2>3. ~ (HoldsRow(r)' /\ HoldsRow(s)')
    BY <1>2, <1>4, <2>2, LockApart
  <2>4. QED
    BY <1>2, <1>5, <2>1, <2>3 DEF Apart, PromptsIn
<1> HIDE DEF seen
<1>12. QED
  BY <1>4, <1>7, <1>8, <1>9, <1>10, <1>11, MoveKeeps

\* A DELETE takes all of the prompts or none: those it has seen are all that
\* one save wrote, and that save's are all there or none.
LEMMA DropKeeps ==
    ASSUME SavesInv, NEW r \in Requests, NEW list \in Lists, Drop(r, list)
    PROVE  SavesInv'
<1> DEFINE old == {e \in entries : \E d \in saves[r].seen : Same(d, e)}
           gone == saves[r].gone \cup old
           save == [saves[r] EXCEPT !.gone = @ \cup old]
<1>1. /\ At(r, <<"drop", list>>) /\ Step(r, save) /\ UNCHANGED entries
      /\ \A s \in Others(r) : saves[s].gone \cap old = {}
  BY DEF Drop
<1>2. /\ InFlight(r) /\ saves[r].todo # <<>>
      /\ Head(saves[r].todo) = <<"drop", list>>
      /\ SavesOK /\ DOMAIN saves[r] = Fields /\ saves[r].stage = "begun"
      /\ AddedOK(r) /\ GoneOK(r) /\ SeenOK(r) /\ LockKept(r)
      /\ \A s \in Others(r) : /\ Apart(r, s) /\ Apart(s, r)
                              /\ AddedOK(s) /\ saves[s].user = saves[r].user
  BY <1>1, AtStatement
<1>3. /\ DOMAIN save = Fields /\ save.stage = "begun"
      /\ save.user = saves[r].user /\ save.patch = saves[r].patch
      /\ save.todo = saves[r].todo /\ save.seen = saves[r].seen
      /\ save.gone = gone /\ save.added = saves[r].added
  BY <1>2 DEF Fields
<1> HIDE DEF save
<1>4. Moved(r, saves[r].seen, gone, saves[r].added)
  BY <1>1, <1>2, <1>3, StepMoves
<1>5. saves'[r].gone = gone /\ saves'[r].added = saves[r].added
      /\ saves'[r].seen = saves[r].seen /\ entries' = entries
      /\ saves'[r].user = saves[r].user /\ saves'[r].patch = saves[r].patch
      /\ \A s \in Requests \ {r} : saves'[s] = saves[s]
  BY <1>4 DEF Moved
<1>6. /\ \A x \in Requests : /\ saves'[x].stage = saves[x].stage
                             /\ \A l : Keys(x, l)' = Keys(x, l)
      /\ \A u, l : Of(u, l)' = Of(u, l)
      /\ \A e : EntryOK(e)' <=> EntryOK(e)
  BY <1>4, MoveIsSteady
<1>7. old \subseteq entries /\ \A e \in old : e.user = saves[r].user
  BY <1>2 DEF SeenOK, Same
<1>8. PromptsIn(old) # {} => Of(saves[r].user, "prompts") \subseteq old
  <2> SUFFICES ASSUME NEW e \in PromptsIn(old),
                      NEW f \in Of(saves[r].user, "prompts")
               PROVE  f \in old
    OBVIOUS
  <2>1. /\ e \in PromptsIn(entries) /\ e.user = saves[r].user
        /\ f \in PromptsIn(entries) /\ f.user = e.user /\ f \in entries
        /\ e.list = "prompts" /\ f.list = "prompts"
    BY <1>7 DEF PromptsIn, Of
  <2>2. PICK d \in saves[r].seen : Same(d, e)
    BY DEF PromptsIn
  <2>3. d \in PromptsIn(saves[r].seen) /\ d.row = e.row /\ d.user = e.user
    BY <2>1, <2>2 DEF PromptsIn, Same
  <2>4. f.row = e.row /\ f.key \in Keys(f.row, "prompts")
    BY <2>1 DEF SavesInv, PromptsWhole
  <2>5. PICK g \in PromptsIn(saves[r].seen) :
            g.user = d.user /\ g.row = d.row /\ g.key = f.key
    BY <1>2, <2>3, <2>4 DEF SeenOK
  <2>6. Same(g, f) /\ g \in saves[r].seen
    BY <2>1, <2>3, <2>4, <2>5 DEF Same, PromptsIn
  <2>7. QED
    BY <2>1, <2>6
<1>9. AddedOK(r)'
  <2>1. saves[r].gone \subseteq gone
    OBVIOUS
  <2> HIDE DEF gone
  <2>2. QED
    BY <1>2, <1>5, <1>6, <2>1 DEF AddedOK, NewEntries, PromptsIn
<1>10. SeenOK(r)'
  BY <1>2, <1>5, <1>6 DEF SeenOK, PromptsIn
<1>11. LockKept(r)'
  <2>1. <<"drop", list>> # SeeAnswers /\ <<"drop", list>> # RowStatement
    BY DEF SeeAnswers, RowStatement
  <2>2. ~ At(r, DropAnswers)'
    BY <1>2, <1>4, <2>1, MoveKeepsLock
  <2>3. ASSUME HoldsRow(r)', Has(saves'[r].patch, "answers"),
               \A i \in 1..Len(saves'[r].todo) : saves'[r].todo[i] # DropAnswers
        PROVE  Locking(r)' \subseteq gone
    <3>1. CASE <<"drop", list>> # DropAnswers
      BY <1>2, <1>4, <2>3, <3>1, MoveKeepsLock
    <3>2. CASE <<"drop", list>> = DropAnswers
      <4>1. HoldsRow(r) /\ Locking(r)' = Locking(r)
        BY <1>2, <1>4, <2>1, <2>3, MoveKeepsLock
      <4>2. \A e \in Locking(r) : \E d \in saves[r].seen : Same(d, e)
        BY <1>1, <1>2, <3>2, <4>1 DEF LockKept
      <4>3. QED
        BY <4>1, <4>2 DEF Locking, Of
    <3>3. QED
      BY <3>1, <3>2
  <2> HIDE DEF gone
  <2>4. QED
    BY <1>5, <2>2, <2>3 DEF LockKept
<1> HIDE DEF old
<1>12. GoneOK(r)'
  <2>1. gone \subseteq entries /\ \A d \in gone : d.user = saves[r].user
    BY <1>2, <1>7 DEF GoneOK
  <2>2. PromptsIn(gone) # {} => Of(saves[r].user, "prompts") \subseteq gone
    BY <1>2, <1>8 DEF GoneOK, PromptsIn
  <2> HIDE DEF gone
  <2>3. QED
    BY <1>5, <1>6, <2>1, <2>2 DEF GoneOK, PromptsIn
<1>13. ASSUME NEW s \in Others(r) PROVE Apart(r, s)' /\ Apart(s, r)'
  <2>1. saves'[s] = saves[s]
    BY <1>5 DEF Others
  <2>2. <<"drop", list>> # RowStatement
    BY DEF RowStatement
  <2>3. ~ (HoldsRow(r)' /\ HoldsRow(s)')
    BY <1>2, <1>4, <2>2, LockApart
  <2>4. gone \cap saves[s].gone = {}
    BY <1>1, <1>2 DEF Apart
  <2>5. PromptsIn(saves[s].added) # {} =>
            PromptsIn(saves[r].added \cup gone) = {}
    <3> SUFFICES ASSUME PromptsIn(saves[s].added) # {},
                        NEW e \in PromptsIn(saves[r].added \cup gone)
                 PROVE  FALSE
      OBVIOUS
    <3>1. e \in old /\ e.list = "prompts"
      BY <1>2 DEF Apart, PromptsIn
    <3>2. e \in Of(saves[s].user, "prompts")
      BY <1>2, <1>7, <3>1 DEF Of
    <3>3. e \in saves[s].gone
      BY <1>2, <3>2 DEF AddedOK
    <3>4. QED
      BY <1>1, <3>1, <3>3
  <2> HIDE DEF gone
  <2>6. PromptsIn(saves[r].added) # {} =>
            PromptsIn(saves[s].added \cup saves[s].gone) = {}
    BY <1>2 DEF Apart
  <2>7. Apart(r, s)'
    BY <1>5, <2>1, <2>3, <2>4, <2>6 DEF Apart, PromptsIn
  <2>8. Apart(s, r)'
    BY <1>5, <2>1, <2>3, <2>4, <2>5 DEF Apart, PromptsIn
  <2>9. QED
    BY <2>7, <2>8
<1> HIDE DEF gone
<1>14. QED
  BY <1>4, <1>9, <1>10, <1>11, <1>12, <1>13, MoveKeeps

\* Whoever inserts prompts finds none it has not deleted, and nobody else who
\* inserts or deletes any: every list has a first prompt.
LEMMA AddPromptsKeeps ==
    ASSUME SavesInv, NEW r \in Requests, AddPrompts(r)
    PROVE  SavesInv'
<1> DEFINE new == NewEntries(r, "prompts")
           added == saves[r].added \cup new
           save == [saves[r] EXCEPT !.added = @ \cup new]
<1>1. /\ At(r, <<"add", "prompts">>) /\ Step(r, save) /\ UNCHANGED entries
      /\ KeysFree(r, "prompts") /\ Clashes(r, "prompts") = {}
  BY DEF AddPrompts
<1>2. /\ InFlight(r) /\ saves[r].todo # <<>>
      /\ Head(saves[r].todo) = <<"add", "prompts">>
      /\ SavesOK /\ DOMAIN saves[r] = Fields /\ saves[r].stage = "begun"
      /\ AddedOK(r) /\ GoneOK(r) /\ SeenOK(r) /\ LockKept(r)
      /\ \A s \in Others(r) : /\ Apart(r, s) /\ Apart(s, r)
                              /\ AddedOK(s) /\ GoneOK(s)
                              /\ saves[s].user = saves[r].user
                              /\ s \in Requests
  BY <1>1, AtStatement
<1>3. /\ DOMAIN save = Fields /\ save.stage = "begun"
      /\ save.user = saves[r].user /\ save.patch = saves[r].patch
      /\ save.todo = saves[r].todo /\ save.seen = saves[r].seen
      /\ save.gone = saves[r].gone /\ save.added = added
  BY <1>2 DEF Fields
<1> HIDE DEF save
<1>4. Moved(r, saves[r].seen, saves[r].gone, added)
  BY <1>1, <1>2, <1>3, StepMoves
<1>5. saves'[r].gone = saves[r].gone /\ saves'[r].added = added
      /\ saves'[r].seen = saves[r].seen /\ entries' = entries
      /\ saves'[r].user = saves[r].user /\ saves'[r].patch = saves[r].patch
      /\ \A s \in Requests \ {r} : saves'[s] = saves[s]
  BY <1>4 DEF Moved
<1>6. /\ \A x \in Requests : /\ saves'[x].stage = saves[x].stage
                             /\ \A l : Keys(x, l)' = Keys(x, l)
      /\ \A u, l : Of(u, l)' = Of(u, l)
      /\ \A e : EntryOK(e)' <=> EntryOK(e)
  BY <1>4, MoveIsSteady
<1>7. Has(saves[r].patch, "prompts") /\ HasPrompts(r)
  <2>1. <<"add", "prompts">>[2] \in Lists
    BY DEF Lists
  <2>2. Has(saves[r].patch, "prompts")
    BY <1>1, <2>1, AtStatement
  <2>3. QED
    BY <1>2, <2>2, PromptsAreLists
<1>8. \A e \in new : /\ EntryOK(e) /\ e.user = saves[r].user
                     /\ e.by = r /\ e.list = "prompts"
                     /\ e.key \in Keys(r, "prompts")
  BY <1>7 DEF NewEntries, EntryOK, EntryFields, Lists
<1>9. new # {} => 1 \in Keys(r, "prompts")
  BY <1>7, FirstPrompt DEF NewEntries
<1> HIDE DEF new
<1>10. PromptsIn(added) # {} =>
           Of(saves[r].user, "prompts") \subseteq saves[r].gone
  <2> SUFFICES ASSUME PromptsIn(added) # {}, PromptsIn(saves[r].added) = {},
                      NEW e \in Of(saves[r].user, "prompts"),
                      e \notin saves[r].gone
               PROVE  FALSE
    BY <1>2 DEF AddedOK
  <2>1. 1 \in Keys(r, "prompts")
    BY <1>9 DEF PromptsIn
  <2>2. e \in PromptsIn(entries) /\ e.user = saves[r].user
    BY DEF PromptsIn, Of
  <2>3. e.row \in Requests /\ HasPrompts(e.row)
    BY <2>2 DEF PromptsIn, SavesInv, EntriesOK, EntryOK
  <2>4. e.key \in Keys(e.row, "prompts")
    BY <2>2 DEF SavesInv, PromptsWhole
  <2>5. 1 \in Keys(e.row, "prompts")
    BY <2>3, <2>4, FirstPrompt
  <2>6. PICK f \in PromptsIn(entries) : f.user = e.user /\ f.key = 1
    BY <2>2, <2>5 DEF SavesInv, PromptsWhole
  <2>7. f \in Of(saves[r].user, "prompts") /\ f.list = "prompts"
    BY <2>2, <2>6 DEF PromptsIn, Of
  <2>8. f \notin saves[r].gone
    BY <1>2, <2>7 DEF GoneOK, PromptsIn
  <2>9. f \in Clashes(r, "prompts")
    BY <2>1, <2>6, <2>7, <2>8 DEF Clashes
  <2>10. QED
    BY <1>1, <2>9
<1>11. ASSUME NEW s \in Others(r), new # {}
       PROVE  PromptsIn(saves[s].added \cup saves[s].gone) = {}
  <2>1. 1 \in Keys(r, "prompts") /\ s \in Requests
    BY <1>2, <1>9, <1>11
  <2>2. ASSUME NEW e \in PromptsIn(saves[s].added) PROVE FALSE
    <3>1. /\ e \in saves[s].added /\ e.list = "prompts" /\ e.by = s
          /\ HasPrompts(s) /\ e.key \in Keys(s, "prompts")
          /\ NewEntries(s, "prompts") \subseteq saves[s].added
      BY <1>2, <2>2 DEF PromptsIn, AddedOK, EntryOK
    <3>2. 1 \in Keys(s, "prompts")
      BY <2>1, <3>1, FirstPrompt
    <3>3. PICK f \in saves[s].added : f.list = "prompts" /\ f.key = 1
      <4> DEFINE first == [user |-> saves[s].user, list |-> "prompts",
                           key |-> 1, row |-> s, by |-> s]
      <4>1. first \in NewEntries(s, "prompts")
        BY <3>2 DEF NewEntries
      <4>2. first \in saves[s].added
        BY <3>1, <4>1
      <4>3. QED
        BY <4>2
    <3>4. QED
      BY <1>1, <2>1, <3>3 DEF KeysFree
  <2>3. ASSUME NEW e \in PromptsIn(saves[s].gone) PROVE FALSE
    <3>1. e \in PromptsIn(entries) /\ e.user = saves[r].user
      BY <1>2, <2>3 DEF PromptsIn, GoneOK
    <3>2. e.row \in Requests /\ HasPrompts(e.row)
      BY <3>1 DEF PromptsIn, SavesInv, EntriesOK, EntryOK
    <3>3. e.key \in Keys(e.row, "prompts")
      BY <3>1 DEF SavesInv, PromptsWhole
    <3>4. 1 \in Keys(e.row, "prompts")
      BY <3>2, <3>3, FirstPrompt
    <3>5. PICK f \in PromptsIn(entries) : f.user = e.user /\ f.key = 1
      BY <3>1, <3>4 DEF SavesInv, PromptsWhole
    <3>6. f \in saves[s].gone /\ f.list = "prompts"
      BY <1>2, <2>3, <3>1, <3>5 DEF PromptsIn, Of, GoneOK
    <3>7. QED
      BY <1>1, <2>1, <3>5, <3>6 DEF KeysFree
  <2>4. QED
    BY <2>2, <2>3 DEF PromptsIn
<1>12. AddedOK(r)'
  <2>1. new' = new
    BY <1>5, <1>6 DEF new, NewEntries
  <2>2. \A e \in added : /\ EntryOK(e) /\ e.user = saves[r].user /\ e.by = r
                         /\ Has(saves[r].patch, e.list)
                         /\ e.list = "prompts" => e.key \in Keys(r, "prompts")
    BY <1>2, <1>7, <1>8 DEF AddedOK
  <2>3. new \subseteq added
    OBVIOUS
  <2> HIDE DEF added
  <2>4. QED
    BY <1>5, <1>6, <1>10, <2>1, <2>2, <2>3 DEF AddedOK, PromptsIn, new
<1>13. GoneOK(r)'
  BY <1>2, <1>5, <1>6 DEF GoneOK, PromptsIn
<1>14. SeenOK(r)'
  BY <1>2, <1>5, <1>6 DEF SeenOK, PromptsIn
<1>15. /\ <<"add", "prompts">> # SeeAnswers
       /\ <<"add", "prompts">> # DropAnswers
       /\ <<"add", "prompts">> # RowStatement
  BY DEF SeeAnswers, DropAnswers, RowStatement
<1>16. LockKept(r)'
  <2>1. ~ At(r, DropAnswers)'
    BY <1>2, <1>4, <1>15, MoveKeepsLock
  <2>2. ASSUME HoldsRow(r)', Has(saves'[r].patch, "answers"),
               \A i \in 1..Len(saves'[r].todo) : saves'[r].todo[i] # DropAnswers
        PROVE  Locking(r)' \subseteq saves'[r].gone
    BY <1>2, <1>4, <1>5, <1>15, <2>2, MoveKeepsLock
  <2>3. QED
    BY <2>1, <2>2 DEF LockKept
<1>17. ASSUME NEW s \in Others(r) PROVE Apart(r, s)' /\ Apart(s, r)'
  <2>1. saves'[s] = saves[s]
    BY <1>5 DEF Others
  <2>2. ~ (HoldsRow(r)' /\ HoldsRow(s)')
    BY <1>2, <1>4, <1>15, LockApart
  <2>3. PromptsIn(added) # {} =>
            PromptsIn(saves[s].added \cup saves[s].gone) = {}
    BY <1>2, <1>11 DEF Apart, PromptsIn
  <2>4. PromptsIn(saves[s].added) # {} =>
            PromptsIn(added \cup saves[r].gone) = {}
    BY <1>2, <1>11 DEF Apart, PromptsIn
  <2> HIDE DEF added
  <2>5. Apart(r, s)'
    BY <1>2, <1>5, <2>1, <2>2, <2>3 DEF Apart, PromptsIn
  <2>6. Apart(s, r)'
    BY <1>2, <1>5, <2>1, <2>2, <2>4 DEF Apart, PromptsIn
  <2>7. QED
    BY <2>5, <2>6
<1> HIDE DEF added
<1>18. QED
  BY <1>4, <1>12, <1>13, <1>14, <1>16, <1>17, MoveKeeps

LEMMA AddAnswersKeeps ==
    ASSUME SavesInv, NEW r \in Requests, AddAnswers(r)
    PROVE  SavesInv'
<1> DEFINE old == Clashes(r, "answers")
           free == {e \in NewEntries(r, "answers") :
                       \A d \in old : d.key # e.key}
           overwritten == {[d EXCEPT !.by = r] : d \in old}
           gone == saves[r].gone \cup old
           added == saves[r].added \cup free \cup overwritten
           save == [saves[r] EXCEPT !.gone = @ \cup old,
                                    !.added = @ \cup free \cup overwritten]
<1>1. /\ At(r, <<"add", "answers">>) /\ Step(r, save) /\ UNCHANGED entries
      /\ KeysFree(r, "answers")
  BY DEF AddAnswers
<1>2. /\ InFlight(r) /\ saves[r].todo # <<>>
      /\ Head(saves[r].todo) = <<"add", "answers">>
      /\ SavesOK /\ DOMAIN saves[r] = Fields /\ saves[r].stage = "begun"
      /\ AddedOK(r) /\ GoneOK(r) /\ SeenOK(r) /\ LockKept(r)
      /\ \A s \in Others(r) : Apart(r, s) /\ Apart(s, r)
  BY <1>1, AtStatement
<1>3. /\ DOMAIN save = Fields /\ save.stage = "begun"
      /\ save.user = saves[r].user /\ save.patch = saves[r].patch
      /\ save.todo = saves[r].todo /\ save.seen = saves[r].seen
      /\ save.gone = gone /\ save.added = added
  BY <1>2 DEF Fields
<1> HIDE DEF save
<1>4. Moved(r, saves[r].seen, gone, added)
  BY <1>1, <1>2, <1>3, StepMoves
<1>5. saves'[r].gone = gone /\ saves'[r].added = added
      /\ saves'[r].seen = saves[r].seen /\ entries' = entries
      /\ saves'[r].user = saves[r].user /\ saves'[r].patch = saves[r].patch
      /\ \A s \in Requests \ {r} : saves'[s] = saves[s]
  BY <1>4 DEF Moved
<1>6. /\ \A x \in Requests : /\ saves'[x].stage = saves[x].stage
                             /\ \A l : Keys(x, l)' = Keys(x, l)
      /\ \A u, l : Of(u, l)' = Of(u, l)
      /\ \A e : EntryOK(e)' <=> EntryOK(e)
  BY <1>4, MoveIsSteady
<1>7. Has(saves[r].patch, "answers")
  <2>1. <<"add", "answers">>[2] \in Lists
    BY DEF Lists
  <2>2. QED
    BY <1>1, <2>1, AtStatement
<1>8. \A d \in old : /\ d \in entries /\ d.list = "answers" /\ EntryOK(d)
                     /\ d.user = saves[r].user
                     /\ d.key \in Keys(r, "answers")
  BY DEF Clashes, Of, SavesInv, EntriesOK
<1>9. \A e \in free \cup overwritten :
          /\ EntryOK(e) /\ e.user = saves[r].user
          /\ e.by = r /\ e.list = "answers"
  <2>1. \A e \in free : /\ EntryOK(e) /\ e.user = saves[r].user
                        /\ e.by = r /\ e.list = "answers"
    BY DEF NewEntries, EntryOK, EntryFields, Lists
  <2>2. \A d \in old : LET e == [d EXCEPT !.by = r]
                       IN  /\ EntryOK(e) /\ e.user = saves[r].user
                           /\ e.by = r /\ e.list = "answers"
    BY <1>8 DEF EntryOK, EntryFields
  <2>3. QED
    BY <2>1, <2>2
<1> HIDE DEF old, free, overwritten
<1>10. PromptsIn(added) = PromptsIn(saves[r].added)
  BY <1>9 DEF PromptsIn
<1>11. PromptsIn(gone) = PromptsIn(saves[r].gone)
  BY <1>8 DEF PromptsIn
<1>12. gone \subseteq entries /\ saves[r].gone \subseteq gone
       /\ \A d \in gone : d.user = saves[r].user
  BY <1>2, <1>8 DEF GoneOK
<1>13. \A e \in added : /\ EntryOK(e) /\ e.user = saves[r].user /\ e.by = r
                        /\ Has(saves[r].patch, e.list)
                        /\ e.list = "prompts" => e.key \in Keys(r, "prompts")
  BY <1>2, <1>7, <1>9 DEF AddedOK
<1>14. \A s \in Others(r) : gone \cap saves[s].gone = {}
  BY <1>1, <1>2, <1>8 DEF Apart, KeysFree
<1>15. saves[r].added \subseteq added
  OBVIOUS
<1> HIDE DEF gone, added
<1>16. AddedOK(r)'
  <2>1. NewEntries(r, "prompts")' = NewEntries(r, "prompts")
    BY <1>5, <1>6 DEF NewEntries
  <2>2. PromptsIn(saves[r].added)' = PromptsIn(saves[r].added)
    BY <1>5, <1>10 DEF PromptsIn
  <2>3. PromptsIn(saves[r].added) # {} =>
            /\ NewEntries(r, "prompts") \subseteq added
            /\ Of(saves[r].user, "prompts") \subseteq gone
    BY <1>2, <1>12, <1>15 DEF AddedOK
  <2>4. QED
    BY <1>5, <1>6, <1>13, <2>1, <2>2, <2>3 DEF AddedOK
<1>17. GoneOK(r)'
  <2>1. PromptsIn(saves[r].gone)' = PromptsIn(saves[r].gone)
    BY <1>5, <1>11 DEF PromptsIn
  <2>2. QED
    BY <1>2, <1>5, <1>6, <1>12, <2>1 DEF GoneOK
<1>18. SeenOK(r)'
  BY <1>2, <1>5, <1>6 DEF SeenOK, PromptsIn
<1>19. /\ <<"add", "answers">> # SeeAnswers
       /\ <<"add", "answers">> # DropAnswers
       /\ <<"add", "answers">> # RowStatement
  BY DEF SeeAnswers, DropAnswers, RowStatement
<1>20. LockKept(r)'
  <2>1. ~ At(r, DropAnswers)'
    BY <1>2, <1>4, <1>19, MoveKeepsLock
  <2>2. ASSUME HoldsRow(r)', Has(saves'[r].patch, "answers"),
               \A i \in 1..Len(saves'[r].todo) : saves'[r].todo[i] # DropAnswers
        PROVE  Locking(r)' \subseteq saves'[r].gone
    BY <1>2, <1>4, <1>5, <1>12, <1>19, <2>2, MoveKeepsLock
  <2>3. QED
    BY <2>1, <2>2 DEF LockKept
<1>21. ASSUME NEW s \in Others(r) PROVE Apart(r, s)' /\ Apart(s, r)'
  <2>1. saves'[s] = saves[s]
    BY <1>5 DEF Others
  <2>2. ~ (HoldsRow(r)' /\ HoldsRow(s)')
    BY <1>2, <1>4, <1>19, LockApart
  <2>3. PromptsIn(added \cup gone) =
            PromptsIn(saves[r].added \cup saves[r].gone)
    BY <1>10, <1>11 DEF PromptsIn
  <2>4. Apart(r, s)'
    BY <1>2, <1>5, <1>10, <1>14, <2>1, <2>2 DEF Apart, PromptsIn
  <2>5. Apart(s, r)'
    BY <1>2, <1>5, <1>14, <2>1, <2>2, <2>3 DEF Apart, PromptsIn
  <2>6. QED
    BY <2>4, <2>5
<1>22. QED
  BY <1>4, <1>16, <1>17, <1>18, <1>20, <1>21, MoveKeeps

----------------------------------------------------------------------------

\* A save that has not begun, or is given up, leaves nothing that others refer
\* to.
LEMMA UnreferencedKeeps ==
    ASSUME SavesInv, SavesOK', NEW r \in Requests, entries' = entries,
           \A s \in Requests \ {r} : saves'[s] = saves[s],
           saves[r].stage # "saved",
           InFlight(r)' => /\ saves'[r].seen = {} /\ saves'[r].gone = {}
                           /\ saves'[r].added = {} /\ ~ HoldsRow(r)'
    PROVE  SavesInv'
<1>1. \A e \in entries : /\ EntryOK(e) /\ e.by \in Requests \ {r}
                         /\ saves[e.by].stage = "saved"
                         /\ e.list = "prompts" => /\ e.row = e.by
                                                  /\ HasPrompts(e.row)
  BY DEF SavesInv, EntriesOK, EntryOK
<1>2. \A s \in Requests \ {r} :
          /\ HasPrompts(s)' <=> HasPrompts(s)
          /\ \A list : Keys(s, list)' = Keys(s, list)
          /\ InFlight(s)' <=> InFlight(s)
          /\ HoldsRow(s)' <=> HoldsRow(s)
          /\ At(s, DropAnswers)' <=> At(s, DropAnswers)
  BY DEF HasPrompts, Keys, InFlight, HoldsRow, At
<1>3. \A u, list : Of(u, list)' = Of(u, list)
  BY DEF Of
<1>4. EntriesOK'
  BY <1>1, <1>2 DEF EntriesOK, EntryOK
<1>5. PromptsWhole'
  <2>1. PromptsIn(entries)' = PromptsIn(entries)
    BY DEF PromptsIn
  <2>2. \A d \in PromptsIn(entries) :
            Keys(d.row, "prompts")' = Keys(d.row, "prompts")
    BY <1>1, <1>2 DEF PromptsIn
  <2>3. QED
    BY <2>1, <2>2 DEF SavesInv, PromptsWhole
<1>6. AnswersLocked'
  <2> SUFFICES ASSUME NEW u \in Users, NEW d \in Of(u, "answers"),
                      NEW e \in Of(u, "answers"), d.by # e.by
               PROVE  \E x \in {d.by, e.by} : Columns(saves'[x].patch) = {}
    BY <1>3 DEF AnswersLocked
  <2>1. d.by \in Requests \ {r} /\ e.by \in Requests \ {r}
    BY <1>1 DEF Of
  <2>2. PICK x \in {d.by, e.by} : Columns(saves[x].patch) = {}
    BY DEF SavesInv, AnswersLocked
  <2>3. QED
    BY <2>1, <2>2
<1>7. ASSUME NEW s \in Requests, InFlight(s)'
      PROVE  /\ AddedOK(s)' /\ GoneOK(s)' /\ SeenOK(s)' /\ LockKept(s)'
             /\ \A t \in Others(s)' : Apart(s, t)'
  <2>1. CASE s = r
    <3>1. /\ saves'[r].seen = {} /\ saves'[r].gone = {}
          /\ saves'[r].added = {} /\ ~ HoldsRow(r)'
      BY <1>7, <2>1
    <3>2. QED
      BY <2>1, <3>1
         DEF AddedOK, GoneOK, SeenOK, LockKept, Apart, PromptsIn
  <2>2. CASE s # r
    <3>1. s \in Requests \ {r} /\ InFlight(s) /\ saves'[s] = saves[s]
      BY <1>2, <1>7, <2>2
    <3>2. AddedOK(s) /\ GoneOK(s) /\ SeenOK(s) /\ LockKept(s)
      BY <3>1 DEF SavesInv
    <3>3. AddedOK(s)'
      <4>1. NewEntries(s, "prompts")' = NewEntries(s, "prompts")
        BY <1>2, <3>1 DEF NewEntries
      <4>2. \A e \in saves[s].added : EntryOK(e)'
        BY <1>2, <3>1, <3>2 DEF AddedOK, EntryOK
      <4>3. QED
        BY <1>2, <1>3, <3>1, <3>2, <4>1, <4>2 DEF AddedOK, PromptsIn
    <3>4. GoneOK(s)'
      BY <1>3, <3>1, <3>2 DEF GoneOK, PromptsIn
    <3>5. SeenOK(s)'
      <4>1. \A d \in PromptsIn(saves[s].seen) : d.row \in Requests \ {r}
        BY <3>2 DEF SeenOK
      <4>2. QED
        BY <1>2, <3>1, <3>2, <4>1 DEF SeenOK, PromptsIn
    <3>6. Locking(s)' = Locking(s)
      BY <1>1, <1>3, <3>1 DEF Locking, Of
    <3>7. LockKept(s)'
      BY <1>2, <3>1, <3>2, <3>6 DEF LockKept
    <3>8. ASSUME NEW t \in Others(s)' PROVE Apart(s, t)'
      <4>1. CASE t = r
        <5>1. InFlight(r)'
          BY <3>8, <4>1 DEF Others
        <5>2. QED
          BY <4>1, <5>1 DEF Apart, PromptsIn
      <4>2. CASE t # r
        <5>1. t \in Others(s) /\ saves'[t] = saves[t] /\ t \in Requests \ {r}
          BY <1>2, <3>1, <3>8, <4>2 DEF Others
        <5>2. Apart(s, t)
          BY <3>1, <5>1 DEF SavesInv
        <5>3. QED
          BY <1>2, <3>1, <5>1, <5>2 DEF Apart, PromptsIn
      <4>3. QED
        BY <4>1, <4>2
    <3>9. QED
      BY <3>3, <3>4, <3>5, <3>7, <3>8
  <2>3. QED
    BY <2>1, <2>2
<1>8. QED
  BY <1>4, <1>5, <1>6, <1>7 DEF SavesInv

LEMMA FailKeeps ==
    ASSUME SavesInv, NEW r \in Requests, Fail(r)
    PROVE  SavesInv'
<1>1. /\ saves[r].stage = "begun" /\ entries' = entries
      /\ saves' = [saves EXCEPT ![r] = [stage |-> "failed"]]
  BY DEF Fail, InFlight
<1>2. /\ DOMAIN saves' = Requests /\ saves'[r].stage = "failed"
      /\ \A s \in Requests \ {r} : saves'[s] = saves[s]
  BY <1>1 DEF SavesInv, SavesOK
<1>3. SavesOK'
  BY <1>2 DEF SavesInv, SavesOK, InFlight
<1>4. ~ InFlight(r)'
  BY <1>2 DEF InFlight
<1>5. QED
  BY <1>1, <1>2, <1>3, <1>4, UnreferencedKeeps

LEMMA SubmitKeeps ==
    ASSUME SavesInv, NEW r \in Requests, NEW in \in Submissions, Submit(r, in)
    PROVE  SavesInv'
<1> DEFINE save == [stage |-> "begun", user |-> in.user, patch |-> in.patch,
                    todo |-> Statements(in.patch), seen |-> {}, gone |-> {},
                    added |-> {}]
<1>1. /\ saves[r].stage = "none" /\ saves' = [saves EXCEPT ![r] = save]
      /\ entries' = entries
  BY DEF Submit
<1>2. /\ DOMAIN save = Fields /\ save.stage = "begun"
      /\ save.user = in.user /\ save.patch = in.patch
      /\ save.todo = Statements(in.patch)
      /\ save.seen = {} /\ save.gone = {} /\ save.added = {}
  BY DEF Fields
<1> HIDE DEF save
<1>3. /\ DOMAIN saves' = Requests /\ saves'[r] = save
      /\ \A s \in Requests \ {r} : saves'[s] = saves[s]
  BY <1>1 DEF SavesInv, SavesOK
<1>4. ~ HoldsRow(r)'
  <2>1. Columns(in.patch) # {} => /\ Statements(in.patch) # <<>>
                                  /\ Head(Statements(in.patch)) = RowStatement
    BY OrderedAtFirst
  <2>2. QED
    BY <1>2, <1>3, <2>1 DEF HoldsRow, At, InFlight, RowStatement
<1>5. SavesOK'
  <2>1. Ordered(Statements(in.patch), in.patch)
    BY OrderedAtFirst
  <2>2. ASSUME NEW s \in Requests
        PROVE  /\ saves'[s].stage \in {"begun", "saved"} =>
                      \E i \in Submissions : saves'[s].patch = i.patch
               /\ InFlight(s)' => /\ DOMAIN saves'[s] = Fields
                                  /\ Ordered(saves'[s].todo, saves'[s].patch)
    <3>1. CASE s = r
      BY <1>2, <1>3, <2>1, <3>1
    <3>2. CASE s # r
      BY <1>3, <3>2 DEF SavesInv, SavesOK, InFlight
    <3>3. QED
      BY <3>1, <3>2
  <2>3. QED
    BY <1>3, <2>2 DEF SavesOK
<1>6. /\ entries' = entries /\ saves[r].stage # "saved"
      /\ \A s \in Requests \ {r} : saves'[s] = saves[s]
      /\ InFlight(r)' => /\ saves'[r].seen = {} /\ saves'[r].gone = {}
                         /\ saves'[r].added = {} /\ ~ HoldsRow(r)'
  BY <1>1, <1>2, <1>3, <1>4
<1>7. QED
  BY <1>5, <1>6, UnreferencedKeeps

\* A COMMIT puts the prompts of r in the place of all the others, if it has
\* any, and takes away every answer that another lock holder has written.
LEMMA CommitKeeps ==
    ASSUME SavesInv, NEW r \in Requests, Commit(r)
    PROVE  SavesInv'
<1> DEFINE u == saves[r].user
           patch == saves[r].patch
           gone == saves[r].gone
           added == saves[r].added
<1>1. /\ InFlight(r) /\ saves[r].todo = <<>>
      /\ entries' = (entries \ gone) \cup added
      /\ saves' = [saves EXCEPT ![r] = [stage |-> "saved", patch |-> patch]]
  BY DEF Commit
<1>2. /\ DOMAIN saves' = Requests
      /\ saves'[r].stage = "saved" /\ saves'[r].patch = patch
      /\ \A s \in Requests \ {r} : saves'[s] = saves[s]
  BY <1>1 DEF SavesInv, SavesOK
<1>3. AddedOK(r) /\ GoneOK(r) /\ LockKept(r) /\ saves[r].stage = "begun"
  BY <1>1 DEF SavesInv, InFlight
<1>4. \A x \in Requests :
          /\ HasPrompts(x) => HasPrompts(x)'
          /\ saves[x].stage = "saved" => saves'[x].stage = "saved"
          /\ saves'[x].patch = saves[x].patch
          /\ \A list : Keys(x, list)' = Keys(x, list)
          /\ InFlight(x)' <=> InFlight(x) /\ x # r
  BY <1>1, <1>2 DEF HasPrompts, Keys, InFlight
<1>5. \A e : EntryOK(e) => EntryOK(e)'
  BY <1>4 DEF EntryOK
<1>6. \A s \in Requests \ {r} : /\ HoldsRow(s)' <=> HoldsRow(s)
                                /\ At(s, DropAnswers)' <=> At(s, DropAnswers)
  BY <1>2 DEF HoldsRow, At, InFlight
<1>7. Columns(patch) # {} => HoldsRow(r)
  BY <1>1 DEF HoldsRow, At
<1>8. /\ \A e \in added : /\ EntryOK(e) /\ e.user = u /\ e.by = r
                          /\ Has(patch, e.list)
                          /\ e.list = "prompts" => e.key \in Keys(r, "prompts")
      /\ PromptsIn(added) # {} => /\ NewEntries(r, "prompts") \subseteq added
                                  /\ Of(u, "prompts") \subseteq gone
      /\ gone \subseteq entries /\ \A d \in gone : d.user = u
      /\ PromptsIn(gone) # {} => Of(u, "prompts") \subseteq gone
  BY <1>3 DEF AddedOK, GoneOK
<1>9. ASSUME NEW s \in Requests, InFlight(s)', saves[s].user = u
      PROVE  s \in Requests \ {r} /\ InFlight(s) /\ Apart(r, s) /\ Apart(s, r)
  <2>1. s \in Others(r) /\ r \in Others(s) /\ InFlight(s)
    BY <1>1, <1>4, <1>9 DEF Others
  <2>2. QED
    BY <1>1, <1>4, <1>9, <2>1 DEF SavesInv
<1> HIDE DEF u, patch, gone, added
<1>10. SavesOK'
  BY <1>1, <1>2 DEF SavesInv, SavesOK, InFlight, patch
<1>11. EntriesOK'
  <2>1. \A e \in entries : /\ EntryOK(e) /\ e.by \in Requests
                           /\ saves[e.by].stage = "saved"
    BY DEF SavesInv, EntriesOK, EntryOK
  <2>2. QED
    BY <1>1, <1>2, <1>4, <1>5, <1>8, <2>1 DEF EntriesOK
<1>12. PromptsWhole'
  <2> SUFFICES ASSUME NEW d \in PromptsIn(entries)'
               PROVE  /\ d.key \in Keys(d.row, "prompts")'
                      /\ \A e \in PromptsIn(entries)' :
                             e.user = d.user => e.row = d.row
                      /\ \A k \in Keys(d.row, "prompts")' :
                             \E e \in PromptsIn(entries)' :
                                 e.user = d.user /\ e.key = k
    BY DEF PromptsWhole
  <2>1. \A e : e \in PromptsIn(entries)' <=>
                   \/ e \in PromptsIn(entries) /\ e \notin gone
                   \/ e \in PromptsIn(added)
    BY <1>1 DEF PromptsIn
  <2>2. \A e \in PromptsIn(added) : /\ e.user = u /\ e.row = r
                                    /\ e.key \in Keys(r, "prompts")
    BY <1>8 DEF PromptsIn, EntryOK
  <2>3. ASSUME NEW e \in PromptsIn(entries), e.user = u, e \notin gone
        PROVE  PromptsIn(added) = {} /\ PromptsIn(gone) = {}
    BY <1>8, <2>3 DEF PromptsIn, Of
  <2>4. CASE d \in PromptsIn(added)
    <3>1. d.row = r /\ d.user = u /\ d.key \in Keys(r, "prompts")'
      BY <1>4, <2>2, <2>4
    <3>2. \A e \in PromptsIn(entries)' : e.user = u => e.row = r
      BY <2>1, <2>2, <2>3, <2>4
    <3>3. ASSUME NEW k \in Keys(r, "prompts")
          PROVE  \E e \in PromptsIn(entries)' : e.user = u /\ e.key = k
      <4> DEFINE e == [user |-> saves[r].user, list |-> "prompts", key |-> k,
                       row |-> r, by |-> r]
      <4>1. e \in NewEntries(r, "prompts")
        BY DEF NewEntries
      <4>2. e \in PromptsIn(added)
        BY <1>8, <2>4, <4>1 DEF PromptsIn
      <4>3. e.user = u /\ e.key = k
        BY DEF u
      <4> HIDE DEF e
      <4>4. QED
        BY <2>1, <4>2, <4>3
    <3>4. QED
      BY <1>4, <3>1, <3>2, <3>3
  <2>5. CASE d \in PromptsIn(entries) /\ d \notin gone
    <3>1. /\ d.row \in Requests /\ d.key \in Keys(d.row, "prompts")
          /\ \A e \in PromptsIn(entries) : e.user = d.user => e.row = d.row
          /\ \A k \in Keys(d.row, "prompts") :
                 \E e \in PromptsIn(entries) : e.user = d.user /\ e.key = k
      BY <2>5 DEF SavesInv, PromptsWhole, EntriesOK, EntryOK, PromptsIn
    <3>2. \A e : e.user = d.user =>
                     (e \in PromptsIn(entries)' <=> e \in PromptsIn(entries))
      <4>1. CASE d.user = u
        BY <2>1, <2>3, <2>5, <4>1 DEF PromptsIn
      <4>2. CASE d.user # u
        BY <1>8, <2>1, <2>2, <4>2
      <4>3. QED
        BY <4>1, <4>2
    <3>3. QED
      BY <1>4, <3>1, <3>2
  <2>6. QED
    BY <2>1, <2>4, <2>5
<1>13. ASSUME NEW e \in entries, e \notin gone, e.user = u, e.list = "answers",
              NEW f \in added, f.list = "answers", Columns(patch) # {}
       PROVE  Columns(saves[e.by].patch) = {}
  <2>1. Has(patch, "answers") /\ HoldsRow(r)
    BY <1>7, <1>8, <1>13
  <2>2. \A i \in 1..Len(saves[r].todo) : saves[r].todo[i] # DropAnswers
    BY <1>1
  <2>3. Locking(r) \subseteq gone
    BY <1>3, <2>1, <2>2 DEF LockKept, patch, gone
  <2>4. QED
    BY <1>13, <2>3 DEF Locking, Of, u
<1>14. AnswersLocked'
  <2> SUFFICES ASSUME NEW v \in Users, NEW d \in Of(v, "answers")',
                      NEW e \in Of(v, "answers")', d.by # e.by
               PROVE  \E x \in {d.by, e.by} : Columns(saves'[x].patch) = {}
    BY DEF AnswersLocked
  <2>1. \A f \in Of(v, "answers")' :
            /\ f.user = v /\ f.list = "answers"
            /\ \/ f \in entries /\ f \notin gone
               \/ f \in added /\ f.by = r /\ v = u
    BY <1>1, <1>8 DEF Of
  <2>2. \A f \in entries : f.by \in Requests
    BY DEF SavesInv, EntriesOK, EntryOK
  <2>3. CASE d \in entries /\ d \notin gone /\ e \in entries /\ e \notin gone
    <3>1. d \in Of(v, "answers") /\ e \in Of(v, "answers")
      BY <2>1, <2>3 DEF Of
    <3>2. PICK x \in {d.by, e.by} : Columns(saves[x].patch) = {}
      BY <3>1 DEF SavesInv, AnswersLocked
    <3>3. QED
      BY <1>4, <2>2, <2>3, <3>2
  <2>4. CASE d \in added /\ d.by = r /\ v = u
    <3>1. e \in entries /\ e \notin gone
      BY <2>1, <2>4
    <3>2. Columns(patch) = {} \/ Columns(saves[e.by].patch) = {}
      BY <1>13, <2>1, <2>4, <3>1
    <3>3. QED
      BY <1>2, <1>4, <2>2, <2>4, <3>1, <3>2
  <2>5. CASE e \in added /\ e.by = r /\ v = u
    <3>1. d \in entries /\ d \notin gone
      BY <2>1, <2>5
    <3>2. Columns(patch) = {} \/ Columns(saves[d.by].patch) = {}
      BY <1>13, <2>1, <2>5, <3>1
    <3>3. QED
      BY <1>2, <1>4, <2>2, <2>5, <3>1, <3>2
  <2>6. QED
    BY <2>1, <2>3, <2>4, <2>5
<1>15. ASSUME NEW s \in Requests, InFlight(s)'
       PROVE  /\ AddedOK(s)' /\ GoneOK(s)' /\ SeenOK(s)' /\ LockKept(s)'
              /\ \A t \in Others(s)' : Apart(s, t)'
  <2>1. s \in Requests \ {r} /\ InFlight(s) /\ saves'[s] = saves[s]
    BY <1>2, <1>4, <1>15
  <2>2. AddedOK(s) /\ GoneOK(s) /\ SeenOK(s) /\ LockKept(s)
    BY <2>1 DEF SavesInv
  <2>3. saves[s].user = u => Apart(r, s) /\ Apart(s, r)
    BY <1>9, <1>15
  <2>4. ASSUME PromptsIn(saves[s].added \cup saves[s].gone) # {}
        PROVE  Of(saves[s].user, "prompts")'
                   \subseteq Of(saves[s].user, "prompts")
    <3>1. saves[s].user = u => PromptsIn(added) = {}
      BY <2>3, <2>4 DEF Apart, added
    <3>2. QED
      BY <1>1, <1>8, <2>1, <3>1 DEF Of, PromptsIn
  <2>5. AddedOK(s)'
    <3>1. NewEntries(s, "prompts")' = NewEntries(s, "prompts")
      BY <1>4, <2>1 DEF NewEntries
    <3>2. \A e \in saves[s].added : EntryOK(e)'
      BY <1>5, <2>2 DEF AddedOK
    <3>3. PromptsIn(saves[s].added) # {} =>
              Of(saves[s].user, "prompts")' \subseteq saves[s].gone
      BY <2>2, <2>4 DEF AddedOK, PromptsIn
    <3>4. QED
      BY <1>4, <2>1, <2>2, <3>1, <3>2, <3>3 DEF AddedOK, PromptsIn
  <2>6. GoneOK(s)'
    <3>1. saves[s].gone \subseteq entries'
      <4>1. saves[s].gone \cap gone = {}
        BY <1>8, <2>2, <2>3 DEF Apart, GoneOK, gone
      <4>2. QED
        BY <1>1, <2>2, <4>1 DEF GoneOK
    <3>2. PromptsIn(saves[s].gone) # {} =>
              Of(saves[s].user, "prompts")' \subseteq saves[s].gone
      BY <2>2, <2>4 DEF GoneOK, PromptsIn
    <3>3. QED
      BY <2>1, <2>2, <3>1, <3>2 DEF GoneOK, PromptsIn
  <2>7. SeenOK(s)'
    <3>1. \A d \in PromptsIn(saves[s].seen) : d.row \in Requests
      BY <2>2 DEF SeenOK
    <3>2. QED
      BY <1>4, <2>1, <2>2, <3>1 DEF SeenOK, PromptsIn
  <2>8. LockKept(s)'
    <3>1. HoldsRow(s) => Locking(s)' \subseteq Locking(s)
      <4> SUFFICES ASSUME HoldsRow(s), NEW e \in Locking(s)'
                   PROVE  e \in Locking(s)
        OBVIOUS
      <4>1. /\ e \in entries' /\ e.user = saves[s].user /\ e.list = "answers"
            /\ Columns(saves'[e.by].patch) # {}
        BY <2>1 DEF Locking, Of
      <4>2. ASSUME e \in added PROVE FALSE
        <5>1. e.by = r /\ saves[s].user = u
          BY <1>8, <4>1, <4>2
        <5>2. HoldsRow(r)
          BY <1>2, <1>7, <4>1, <5>1
        <5>3. QED
          BY <2>3, <5>1, <5>2 DEF Apart
      <4>3. e \in entries
        BY <1>1, <4>1, <4>2
      <4>4. e.by \in Requests
        BY <4>3 DEF SavesInv, EntriesOK, EntryOK
      <4>5. QED
        BY <1>4, <4>1, <4>3, <4>4 DEF Locking, Of
    <3>2. QED
      BY <1>6, <2>1, <2>2, <3>1 DEF LockKept
  <2>9. ASSUME NEW t \in Others(s)' PROVE Apart(s, t)'
    <3>1. t \in Requests \ {r} /\ t \in Others(s) /\ saves'[t] = saves[t]
      BY <1>2, <1>4, <2>1, <2>9 DEF Others
    <3>2. Apart(s, t)
      BY <2>1, <3>1 DEF SavesInv
    <3>3. QED
      BY <1>6, <2>1, <3>1, <3>2 DEF Apart, PromptsIn
  <2>10. QED
    BY <2>5, <2>6, <2>7, <2>8, <2>9
<1>16. QED
  BY <1>10, <1>11, <1>12, <1>14, <1>15 DEF SavesInv

LEMMA UnchangedKeeps ==
    ASSUME SavesInv, UNCHANGED <<entries, saves>>
    PROVE  SavesInv'
<1>1. entries' = entries /\ saves' = saves
  OBVIOUS
<1>2. SavesOK' /\ EntriesOK' /\ PromptsWhole' /\ AnswersLocked'
  <2>1. SavesOK'
    BY <1>1 DEF SavesInv, SavesOK, InFlight
  <2>2. EntriesOK'
    BY <1>1 DEF SavesInv, EntriesOK, EntryOK, HasPrompts
  <2>3. PromptsWhole'
    BY <1>1 DEF SavesInv, PromptsWhole, PromptsIn, Keys
  <2>4. AnswersLocked'
    BY <1>1 DEF SavesInv, AnswersLocked, Of
  <2>5. QED
    BY <2>1, <2>2, <2>3, <2>4
<1>3. ASSUME NEW r \in Requests, InFlight(r)'
      PROVE  /\ AddedOK(r)' /\ GoneOK(r)' /\ SeenOK(r)' /\ LockKept(r)'
             /\ \A s \in Others(r)' : Apart(r, s)'
  <2>1. /\ AddedOK(r) /\ GoneOK(r) /\ SeenOK(r) /\ LockKept(r)
        /\ \A s \in Others(r) : Apart(r, s)
    BY <1>1, <1>3 DEF SavesInv, InFlight
  <2>2. AddedOK(r)' /\ GoneOK(r)' /\ SeenOK(r)'
    BY <1>1, <2>1 DEF AddedOK, GoneOK, SeenOK, EntryOK, HasPrompts, PromptsIn,
                      Keys, Of, NewEntries
  <2>3. LockKept(r)'
    BY <1>1, <2>1 DEF LockKept, HoldsRow, At, InFlight, Locking, Of
  <2>4. \A s \in Others(r)' : Apart(r, s)'
    BY <1>1, <2>1 DEF Others, Apart, HoldsRow, At, InFlight, PromptsIn
  <2>5. QED
    BY <2>2, <2>3, <2>4
<1>4. QED
  BY <1>2, <1>3 DEF SavesInv

----------------------------------------------------------------------------

LEMMA SavesStep == SavesInv /\ [DiscoveryNext]_discoveryVars => SavesInv'
<1> SUFFICES ASSUME SavesInv, [DiscoveryNext]_discoveryVars PROVE SavesInv'
  OBVIOUS
<1>1. ASSUME NEW r \in Requests, SaveNext(r) PROVE SavesInv'
  <2>1. CASE \E in \in Submissions : Submit(r, in)
    BY <2>1, SubmitKeeps
  <2>2. CASE WriteRow(r)
    BY <2>2, WriteRowKeeps
  <2>3. CASE \E list \in Lists : See(r, list) \/ Drop(r, list)
    BY <2>3, SeeKeeps, DropKeeps
  <2>4. CASE AddPrompts(r)
    BY <2>4, AddPromptsKeeps
  <2>5. CASE AddAnswers(r)
    BY <2>5, AddAnswersKeeps
  <2>6. CASE Commit(r)
    BY <2>6, CommitKeeps
  <2>7. CASE Fail(r)
    BY <2>7, FailKeeps
  <2>8. QED
    BY <1>1, <2>1, <2>2, <2>3, <2>4, <2>5, <2>6, <2>7 DEF SaveNext
<1>2. CASE UNCHANGED profileVars
  BY <1>2, UnchangedKeeps DEF profileVars
<1>3. CASE UNCHANGED discoveryVars
  BY <1>3, UnchangedKeeps DEF discoveryVars, profileVars
<1>4. QED
  BY <1>1, <1>2, <1>3 DEF DiscoveryNext, Touch, Fade, Look

LEMMA SavesInit == DiscoveryInit => SavesInv
<1> SUFFICES ASSUME entries = {}, saves = [r \in Requests |-> NoSave]
             PROVE  SavesInv
  BY DEF DiscoveryInit, ProfilesInit
<1>1. DOMAIN saves = Requests /\ \A r \in Requests : saves[r].stage = "none"
  BY DEF NoSave
<1>2. QED
  BY <1>1 DEF SavesInv, SavesOK, EntriesOK, PromptsWhole, AnswersLocked,
              InFlight, PromptsIn, Of

\* For any accounts and submissions, and however many saves overlap: the
\* prompts of a profile are the list of one save, whole (replacePrompts), and
\* its answers come from one save, unless one that named no column, and so
\* locked no row, wrote beside it (ReplaceAnswers, after the update in Update).
THEOREM ListsStayWhole == DiscoverySpec => []ListsFromOneSave
<1>1. ASSUME SavesInv PROVE ListsFromOneSave
  <2> SUFFICES ASSUME NEW u \in Users, NEW d \in Of(u, "prompts")
               PROVE  /\ \A e \in Of(u, "prompts") : d.by = e.by
                      /\ {e.key : e \in Of(u, "prompts")}
                             = Keys(d.by, "prompts")
    BY <1>1 DEF SavesInv, AnswersLocked, ListsFromOneSave
  <2>1. \A e \in Of(u, "prompts") :
            e \in PromptsIn(entries) /\ e.user = d.user /\ e.by = e.row
    BY <1>1 DEF Of, PromptsIn, SavesInv, EntriesOK, EntryOK
  <2>2. /\ \A e \in Of(u, "prompts") : e.row = d.row
        /\ \A e \in Of(u, "prompts") : e.key \in Keys(d.row, "prompts")
        /\ \A k \in Keys(d.row, "prompts") :
               \E e \in PromptsIn(entries) : e.user = d.user /\ e.key = k
    BY <1>1, <2>1 DEF SavesInv, PromptsWhole
  <2>3. \A k \in Keys(d.row, "prompts") : \E e \in Of(u, "prompts") : e.key = k
    BY <2>2 DEF PromptsIn, Of
  <2>4. QED
    BY <2>1, <2>2, <2>3
<1>2. QED
  BY <1>1, SavesInit, SavesStep, PTL DEF DiscoverySpec

----------------------------------------------------------------------------

\* A relation that orders a set strictly and totally.
Orders(R, S) ==
    /\ \A x \in S : <<x, x>> \notin R
    /\ \A x, y, z \in S : <<x, y>> \in R /\ <<y, z>> \in R => <<x, z>> \in R
    /\ \A x, y \in S : x # y => <<x, y>> \in R \/ <<y, x>> \in R

\* The elements that come before x.
Ahead(S, R, x) == {y \in S : <<y, x>> \in R}

\* How many they are.
Rank(S, R, x) == Cardinality(Ahead(S, R, x))

\* Whoever comes before another has a smaller rank; ranks are below the size.
LEMMA RankIncreases ==
    ASSUME NEW S, NEW R, IsFiniteSet(S), Orders(R, S), NEW x \in S
    PROVE  /\ Rank(S, R, x) \in 0..(Cardinality(S) - 1)
           /\ \A y \in S : <<x, y>> \in R => Rank(S, R, x) < Rank(S, R, y)
<1>1. \A y \in S : /\ Ahead(S, R, y) \in SUBSET S
                   /\ IsFiniteSet(Ahead(S, R, y))
                   /\ Rank(S, R, y) \in Nat
  <2> TAKE y \in S
  <2>1. Ahead(S, R, y) \in SUBSET S
    BY DEF Ahead
  <2>2. IsFiniteSet(Ahead(S, R, y))
    BY <2>1, FS_Subset
  <2>3. QED
    BY <2>1, <2>2, FS_CardinalityType DEF Rank
<1>2. Rank(S, R, x) < Cardinality(S)
  <2>1. x \notin Ahead(S, R, x)
    BY DEF Ahead, Orders
  <2>2. /\ Rank(S, R, x) <= Cardinality(S)
        /\ Cardinality(S) = Rank(S, R, x) => S = Ahead(S, R, x)
    BY <1>1, FS_Subset DEF Rank
  <2>3. QED
    BY <1>1, <2>1, <2>2, FS_CardinalityType
<1>3. ASSUME NEW y \in S, <<x, y>> \in R
      PROVE  Rank(S, R, x) < Rank(S, R, y)
  <2>1. Ahead(S, R, x) \in SUBSET Ahead(S, R, y)
    BY <1>3 DEF Ahead, Orders
  <2>2. x \in Ahead(S, R, y) /\ x \notin Ahead(S, R, x)
    BY <1>3 DEF Ahead, Orders
  <2>3. /\ Rank(S, R, x) <= Rank(S, R, y)
        /\ Rank(S, R, y) = Rank(S, R, x) => Ahead(S, R, y) = Ahead(S, R, x)
    BY <1>1, <2>1, FS_Subset DEF Rank
  <2>4. QED
    BY <1>1, <2>2, <2>3
<1>4. QED
  BY <1>1, <1>2, <1>3, FS_CardinalityType

\* No two elements have one rank.
LEMMA RankSeparates ==
    ASSUME NEW S, NEW R, IsFiniteSet(S), Orders(R, S),
           NEW x \in S, NEW y \in S, Rank(S, R, x) = Rank(S, R, y)
    PROVE  x = y
<1>1. /\ Rank(S, R, x) \in Int /\ Rank(S, R, y) \in Int
      /\ <<x, y>> \in R => Rank(S, R, x) < Rank(S, R, y)
      /\ <<y, x>> \in R => Rank(S, R, y) < Rank(S, R, x)
  BY RankIncreases
<1>2. QED
  BY <1>1 DEF Orders

\* Every rank is that of some element: they are as many.
LEMMA RankTaken ==
    ASSUME NEW S, NEW R, IsFiniteSet(S), Orders(R, S),
           NEW k \in 1..Cardinality(S)
    PROVE  \E x \in S : Rank(S, R, x) = k - 1
<1> SUFFICES ASSUME \A x \in S : Rank(S, R, x) # k - 1
             PROVE  FALSE
  OBVIOUS
<1> DEFINE n == Cardinality(S)
           T == (0..(n - 1)) \ {k - 1}
           f == [x \in S |-> Rank(S, R, x)]
<1>1. n \in Nat /\ n >= 1
  BY FS_CardinalityType
<1> DEFINE I == 0..(n - 1)
<1>2. IsFiniteSet(T) /\ Cardinality(T) = n - 1
  <2> HIDE DEF n
  <2>1. IsFiniteSet(I) /\ Cardinality(I) = n
    BY <1>1, FS_Interval
  <2>2. k - 1 \in I
    BY <1>1 DEF n
  <2> HIDE DEF I
  <2>3. IsFiniteSet(I \ {k - 1}) /\ Cardinality(I \ {k - 1}) = n - 1
    BY <2>1, <2>2, FS_RemoveElement
  <2>4. QED
    BY <2>3 DEF I
<1>3. f \in [S -> T]
  BY RankIncreases
<1>4. PICK x \in S, y \in S : x # y /\ f[x] = f[y]
  <2> HIDE DEF T, f
  <2>1. Cardinality(T) < Cardinality(S)
    BY <1>1, <1>2
  <2>2. QED
    BY <1>2, <1>3, <2>1, FS_PigeonHole
<1>5. QED
  BY <1>4, RankSeparates

\* InOrder lists the elements of a finite set, each at the place its rank says.
LEMMA InOrderLists ==
    ASSUME NEW S, NEW R, IsFiniteSet(S), Orders(R, S)
    PROVE  /\ DOMAIN InOrder(S, R) = 1..Cardinality(S)
           /\ \A k \in 1..Cardinality(S) :
                  /\ InOrder(S, R)[k] \in S
                  /\ Rank(S, R, InOrder(S, R)[k]) = k - 1
           /\ \A x \in S : /\ Rank(S, R, x) + 1 \in 1..Cardinality(S)
                           /\ InOrder(S, R)[Rank(S, R, x) + 1] = x
<1>1. DOMAIN InOrder(S, R) = 1..Cardinality(S)
  BY DEF InOrder
<1>2. ASSUME NEW k \in 1..Cardinality(S)
      PROVE  /\ InOrder(S, R)[k] \in S
             /\ Rank(S, R, InOrder(S, R)[k]) = k - 1
  <2>1. InOrder(S, R)[k] = CHOOSE x \in S : Rank(S, R, x) = k - 1
    BY DEF InOrder, Rank, Ahead
  <2>2. QED
    BY <2>1, RankTaken
<1>3. ASSUME NEW x \in S
      PROVE  /\ Rank(S, R, x) + 1 \in 1..Cardinality(S)
             /\ InOrder(S, R)[Rank(S, R, x) + 1] = x
  <2>1. Rank(S, R, x) \in Int /\ Rank(S, R, x) + 1 \in 1..Cardinality(S)
    BY RankIncreases, FS_CardinalityType
  <2>2. /\ InOrder(S, R)[Rank(S, R, x) + 1] \in S
        /\ Rank(S, R, InOrder(S, R)[Rank(S, R, x) + 1]) = Rank(S, R, x)
    BY <1>2, <2>1
  <2>3. QED
    BY <2>1, <2>2, RankSeparates
<1>4. QED
  BY <1>1, <1>2, <1>3

\* Orders that a bijection carries into each other list the same things.
LEMMA SameOrder ==
    ASSUME NEW S, NEW R, IsFiniteSet(S), Orders(R, S),
           NEW T, NEW Q, IsFiniteSet(T), Orders(Q, T),
           NEW h \in Bijection(S, T),
           \A x, y \in S : <<x, y>> \in R <=> <<h[x], h[y]>> \in Q
    PROVE  /\ Cardinality(S) = Cardinality(T)
           /\ \A k \in 1..Cardinality(S) :
                  InOrder(T, Q)[k] = h[InOrder(S, R)[k]]
<1>1. /\ h \in [S -> T]
      /\ \A x, y \in S : h[x] = h[y] => x = y
      /\ \A t \in T : \E x \in S : h[x] = t
  BY DEF Bijection, Injection, Surjection, IsInjective
<1>2. ASSUME NEW x \in S
      PROVE  Rank(S, R, x) = Rank(T, Q, h[x])
  <2> DEFINE A == Ahead(S, R, x)
             B == Ahead(T, Q, h[x])
             g == [y \in A |-> h[y]]
  <2>1. g \in [A -> B]
    BY <1>1 DEF Ahead
  <2>2. \A y, z \in A : g[y] = g[z] => y = z
    BY <1>1 DEF Ahead
  <2>3. \A t \in B : \E y \in A : g[y] = t
    BY <1>1 DEF Ahead
  <2>4. IsFiniteSet(A)
    <3>1. A \in SUBSET S
      BY DEF Ahead
    <3>2. QED
      BY <3>1, FS_Subset
  <2> HIDE DEF A, B, g
  <2>5. g \in Bijection(A, B)
    BY <2>1, <2>2, <2>3 DEF Bijection, Injection, Surjection, IsInjective
  <2>6. Cardinality(A) = Cardinality(B)
    BY <2>4, <2>5, FS_Bijection DEF ExistsBijection
  <2>7. QED
    BY <2>6 DEF A, B, Rank
<1>3. Cardinality(S) = Cardinality(T)
  BY FS_Bijection DEF ExistsBijection
<1>4. ASSUME NEW k \in 1..Cardinality(S)
      PROVE  InOrder(T, Q)[k] = h[InOrder(S, R)[k]]
  <2> DEFINE x == InOrder(S, R)[k]
  <2>1. x \in S /\ Rank(S, R, x) = k - 1
    BY InOrderLists
  <2>2. h[x] \in T /\ Rank(T, Q, h[x]) = k - 1
    BY <1>1, <1>2, <2>1
  <2>3. InOrder(T, Q)[Rank(T, Q, h[x]) + 1] = h[x]
    BY <2>2, InOrderLists
  <2>4. Rank(T, Q, h[x]) + 1 = k
    BY <2>2
  <2>5. QED
    BY <2>3, <2>4
<1>5. QED
  BY <1>3, <1>4

----------------------------------------------------------------------------

\* The parts of Recommend: the positions that pass, what it sorts, and how.
Passing(current, pool, f) ==
    {i \in DOMAIN pool : PassesFilters(pool[i], f, current)}

ScoredAt(current, pool, i) ==
    [at |-> i, id |-> pool[i].id, score |-> RankScore(current, pool[i])]

ScoredIn(current, pool, f) ==
    {ScoredAt(current, pool, i) : i \in Passing(current, pool, f)}

AheadIn(S) ==
    {p \in S \X S : \/ Before(p[1], p[2])
                    \/ p[1].at < p[2].at /\ ~ Before(p[2], p[1])}

\* A finite pool whose profiles have numbers for ids and scores, and no two of
\* them the same id.
Rankable(current, pool) ==
    /\ \E n \in Nat : DOMAIN pool = 1..n
    /\ \A i \in DOMAIN pool : /\ pool[i].id \in Nat
                              /\ RankScore(current, pool[i]) \in Int
    /\ \A i, j \in DOMAIN pool : pool[i].id = pool[j].id => i = j

\* Recommend lists those who pass, by score and id alone: how the pool was
\* ordered never decides (the stable sort has no ties to keep).
LEMMA RecommendLists ==
    ASSUME NEW current, NEW pool, NEW f, Rankable(current, pool)
    PROVE  LET S == ScoredIn(current, pool, f)
           IN  /\ Recommend(current, pool, f) = InOrder(S, AheadIn(S))
               /\ IsFiniteSet(S)
               /\ Orders(AheadIn(S), S)
               /\ \A x, y \in S :
                      <<x, y>> \in AheadIn(S) <=>
                          x.score > y.score \/ (x.score = y.score /\ x.id < y.id)
<1> DEFINE S == ScoredIn(current, pool, f)
           R == AheadIn(S)
<1>1. Recommend(current, pool, f) = InOrder(S, R)
  BY DEF Recommend, ScoredIn, ScoredAt, Passing, AheadIn
<1>2. \A x \in S : /\ x.at \in DOMAIN pool /\ x \in Scored
                   /\ x = ScoredAt(current, pool, x.at)
  BY DEF Rankable, ScoredIn, ScoredAt, Passing, Scored
<1>3. \A x \in S : x.id = pool[x.at].id
  <2> SUFFICES ASSUME NEW x \in S
               PROVE  x.id = pool[x.at].id
    OBVIOUS
  <2>1. x = ScoredAt(current, pool, x.at)
    BY <1>2
  <2>2. ScoredAt(current, pool, x.at).id = pool[x.at].id
    BY DEF ScoredAt
  <2>3. QED
    BY <2>1, <2>2
<1> HIDE DEF S
<1>4. \A x, y \in S : x.id = y.id => x = y
  <2>1. \A x, y \in S : x.id = y.id => x.at = y.at
    BY <1>2, <1>3 DEF Rankable
  <2>2. QED
    BY <1>2, <2>1
<1>5. IsFiniteSet(S)
  <2> DEFINE g == [x \in S |-> x.at]
             D == DOMAIN pool
  <2>1. g \in [S -> D]
    BY <1>2
  <2>2. \A x, y \in S : g[x] = g[y] => x = y
    BY <1>2
  <2>3. IsFiniteSet(D)
    <3>1. PICK n \in Nat : D = 1..n
      BY DEF Rankable
    <3> HIDE DEF D
    <3>2. QED
      BY <3>1, FS_Interval
  <2> HIDE DEF g, D
  <2>4. g \in Injection(S, D)
    BY <2>1, <2>2 DEF Injection, IsInjective
  <2>5. QED
    BY <2>3, <2>4, FS_Injection
<1>6. \A x, y \in S :
          <<x, y>> \in R <=>
              x.score > y.score \/ (x.score = y.score /\ x.id < y.id)
  <2> SUFFICES ASSUME NEW x \in S, NEW y \in S
               PROVE  <<x, y>> \in R <=> Before(x, y)
    BY DEF Before
  <2>1. <<x, y>> \in R <=> Before(x, y) \/ (x.at < y.at /\ ~ Before(y, x))
    BY DEF AheadIn
  <2>2. x \in Scored /\ y \in Scored
    BY <1>2
  <2>3. CASE x = y
    BY <2>1, <2>2, <2>3 DEF Scored
  <2>4. CASE x # y
    <3>1. Before(x, y) \/ Before(y, x)
      BY <1>4, <2>2, <2>4, BeforeIsTotal
    <3>2. QED
      BY <2>1, <3>1
  <2>5. QED
    BY <2>3, <2>4
<1>7. Orders(R, S)
  <2> HIDE DEF R
  <2>1. \A x \in S : x.score \in Int /\ x.id \in Nat
    BY <1>2 DEF Scored
  <2>2. QED
    BY <1>4, <1>6, <2>1 DEF Orders
<1>8. QED
  BY <1>1, <1>5, <1>6, <1>7 DEF S

----------------------------------------------------------------------------

\* The image of a finite set is finite.
LEMMA ImageFinite ==
    ASSUME NEW D, IsFiniteSet(D), NEW g
    PROVE  IsFiniteSet({g[i] : i \in D})
<1> DEFINE T == {g[i] : i \in D}
           h == [t \in T |-> CHOOSE i \in D : g[i] = t]
<1>1. \A t \in T : h[t] \in D /\ g[h[t]] = t
  OBVIOUS
<1>2. h \in [T -> D]
  BY <1>1
<1> HIDE DEF T, h
<1>3. h \in Injection(T, D)
  BY <1>1, <1>2 DEF Injection, IsInjective
<1>4. QED
  BY <1>3, FS_Injection DEF T

\* What online may say.
Bands == {"online", "recently", "thisWeek", "offline"}

\* Whoever has a profile.
People == {u \in Users : Onboarded(u)}

\* What every read relies on.
ReadInv ==
    /\ Orders(recent, Users)
    /\ online \in [Users -> Bands]
    /\ DOMAIN profiles = Users
    /\ \A u \in Users : profiles[u] = NoProfile \/ ValidRow(profiles[u])
    /\ IsFiniteSet(entries)
    /\ met \subseteq People \X People

\* An assembled profile is of the kind Calculate reads, and its score is a
\* number.
LEMMA AssembledScores ==
    ASSUME ReadInv, NEW u \in People, NEW v \in People
    PROVE  /\ Assembled(u, v).id = v
           /\ Readable(Assembled(u, v))
           /\ Assembled(u, v).online \in Bands
<1> DEFINE p == Assembled(u, v)
           answered == Of(v, "answers")
<1>1. /\ u \in Users /\ ValidRow(profiles[u])
      /\ v \in Users /\ ValidRow(profiles[v])
  BY DEF ReadInv, People, Onboarded
<1>2. /\ p.id = v
      /\ p.online = online[v]
      /\ p.traits = profiles[v].traits
      /\ p.interests = profiles[v].interests
      /\ p.maxKm = profiles[v].maxKm
      /\ p.km = IF profiles[u].place # Nowhere /\ profiles[v].place # Nowhere
                THEN Km[<<profiles[u].place, profiles[v].place>>] ELSE 0
      /\ DOMAIN p.answers = {e.key : e \in answered}
  BY DEF Assembled
<1> HIDE DEF p
<1>3. IsFiniteSet({e.key : e \in answered})
  <2> DEFINE g == [e \in answered |-> e.key]
  <2>1. IsFiniteSet(answered)
    <3>1. answered \in SUBSET entries
      BY DEF Of
    <3>2. QED
      BY <3>1, FS_Subset DEF ReadInv
  <2>2. {g[e] : e \in answered} = {e.key : e \in answered}
    OBVIOUS
  <2> HIDE DEF g, answered
  <2>3. IsFiniteSet({g[e] : e \in answered})
    BY <2>1, ImageFinite
  <2>4. QED
    BY <2>2, <2>3
<1>4. IsFiniteSet(Interests(p))
  <2> DEFINE g == p.interests
             D == DOMAIN g
  <2>1. IsFiniteSet(D)
    BY <1>1, <1>2 DEF ValidRow
  <2>2. Interests(p) = {g[i] : i \in D}
    BY DEF Interests, ToSet
  <2> HIDE DEF g, D
  <2>3. IsFiniteSet({g[i] : i \in D})
    BY <2>1, ImageFinite
  <2>4. QED
    BY <2>2, <2>3
<1>5. p.km \in Nat
  <2> DEFINE here == profiles[u].place
             there == profiles[v].place
  <2>1. here \in Places \cup {Nowhere} /\ there \in Places \cup {Nowhere}
    BY <1>1 DEF ValidRow
  <2>2. p.km = IF here # Nowhere /\ there # Nowhere
               THEN Km[<<here, there>>] ELSE 0
    BY <1>2
  <2> HIDE DEF here, there
  <2>3. QED
    BY <2>1, <2>2, DiscoveryAssumption
<1>6. p.maxKm \in Nat /\ IsFiniteSet(p.traits)
  <2>1. profiles[v].maxKm \in 1..500 /\ IsFiniteSet(profiles[v].traits)
    BY <1>1, Zenon DEF ValidRow
  <2>2. p.maxKm = profiles[v].maxKm /\ p.traits = profiles[v].traits
    BY <1>2
  <2>3. QED
    BY <2>1, <2>2
<1>7. Readable(p)
  BY <1>2, <1>3, <1>4, <1>5, <1>6 DEF Readable
<1>8. online[v] \in Bands
  BY <1>1 DEF ReadInv
<1>9. QED
  BY <1>2, <1>7, <1>8 DEF p

\* The score by which a feed is ranked is a number.
LEMMA ScoreIsInt ==
    ASSUME NEW a, NEW b, Readable(a), Readable(b), b.online \in Bands
    PROVE  RankScore(a, b) \in Int
<1> DEFINE c == Cardinality(CommonInterests(a, b))
           far == 1000 - 12 * b.km
<1>1. Calculate(a, b) \in Int
  BY CompatibilityRange
<1>2. c \in Nat
  <2>1. CommonInterests(a, b) \in SUBSET Interests(a)
    BY DEF CommonInterests
  <2>2. IsFiniteSet(CommonInterests(a, b))
    BY <2>1, FS_Subset DEF Readable
  <2>3. QED
    BY <2>2, FS_CardinalityType
<1>3. far \in Int
  BY DEF Readable
<1>4. OnlinePoints[b.online] \in Int
  BY DEF OnlinePoints, Bands
<1>5. RoughCompleteness(b) \in Int
  BY DEF RoughCompleteness, Points
<1> HIDE DEF c, far
<1>6. Points(b.known /\ far > 0, AtMost(far, 120)) \in Int
  BY <1>3 DEF Points, AtMost
<1>7. /\ Points(a.intent = b.intent, 60) \in Int
      /\ Points(b.photoVerified, 40) \in Int
      /\ Points(b.phoneVerified, 20) \in Int
  BY DEF Points
<1>8. RankScore(a, b) =
          10 * Calculate(a, b) + Points(a.intent = b.intent, 60) + 14 * c
              + Points(b.known /\ far > 0, AtMost(far, 120))
              + Points(b.photoVerified, 40) + Points(b.phoneVerified, 20)
              + OnlinePoints[b.online] + 8 * RoughCompleteness(b)
  BY DEF RankScore, c, far
<1>9. QED
  BY <1>1, <1>2, <1>4, <1>5, <1>6, <1>7, <1>8

----------------------------------------------------------------------------

\* What is cut off at a length keeps its beginning.
LEMMA CappedKeeps ==
    ASSUME NEW V, NEW t \in Seq(V), NEW m \in Nat
    PROVE  /\ DOMAIN Capped(t, m) = 1..AtMost(Len(t), m)
           /\ \A i \in 1..AtMost(Len(t), m) : Capped(t, m)[i] = t[i]
<1>1. Len(t) \in Nat
  OBVIOUS
<1>2. AtMost(Len(t), m) \in 0..Len(t)
  BY <1>1 DEF AtMost
<1>3. QED
  BY <1>1, <1>2 DEF Capped

\* A pool holds people who are allowed, each once, with numbers to rank them
\* by: all of them, if there is room.
LEMMA PoolHolds ==
    ASSUME ReadInv, NEW u \in People, NEW allowed \in SUBSET Users,
           NEW order, Orders(order, Users)
    PROVE  LET S == {v \in allowed : Onboarded(v)}
               found == InOrder(S, order)
               pool == Pool(u, allowed, order)
               n == AtMost(Cardinality(S), PoolSize)
           IN  /\ IsFiniteSet(S) /\ S \subseteq People /\ Orders(order, S)
               /\ n \in Nat /\ DOMAIN pool = 1..n
               /\ \A i \in 1..n : /\ i \in 1..Cardinality(S)
                                  /\ found[i] \in S
                                  /\ pool[i] = Assembled(u, found[i])
                                  /\ pool[i].id = found[i]
               /\ Rankable(Assembled(u, u), pool)
<1> DEFINE S == {v \in allowed : Onboarded(v)}
           found == InOrder(S, order)
           pool == Pool(u, allowed, order)
           n == AtMost(Cardinality(S), PoolSize)
           t == [k \in DOMAIN found |-> Assembled(u, found[k])]
<1>1. S \subseteq People /\ S \in SUBSET Users
  BY DEF People
<1>2. IsFiniteSet(S)
  BY <1>1, FS_Subset, DiscoveryAssumption
<1>3. Orders(order, S)
  BY <1>1 DEF Orders
<1>4. pool = Capped(t, PoolSize)
  BY DEF Pool
<1> HIDE DEF S, pool
<1>5. /\ Cardinality(S) \in Nat
      /\ DOMAIN found = 1..Cardinality(S)
      /\ \A k \in 1..Cardinality(S) :
             /\ found[k] \in S
             /\ Rank(S, order, found[k]) = k - 1
  BY <1>2, <1>3, InOrderLists, FS_CardinalityType
<1> HIDE DEF found
<1>6. n \in Nat /\ \A i \in 1..n : i \in 1..Cardinality(S)
  BY <1>5, DiscoveryAssumption DEF AtMost
<1>7. DOMAIN pool = 1..n /\ \A i \in 1..n : pool[i] = t[i]
  <2> DEFINE V == {Assembled(u, v) : v \in S}
             c == Cardinality(S)
  <2>1. t \in [1..c -> V] /\ c \in Nat /\ PoolSize \in Nat
    BY <1>5, DiscoveryAssumption
  <2>2. n = AtMost(c, PoolSize)
    OBVIOUS
  <2> HIDE DEF t, V, c, n
  <2>3. t \in Seq(V) /\ Len(t) = c
    BY <2>1
  <2>4. /\ DOMAIN Capped(t, PoolSize) = 1..AtMost(Len(t), PoolSize)
        /\ \A i \in 1..AtMost(Len(t), PoolSize) : Capped(t, PoolSize)[i] = t[i]
    BY <2>1, <2>3, CappedKeeps
  <2>5. QED
    BY <1>4, <2>2, <2>3, <2>4
<1>8. \A i \in 1..n : found[i] \in S /\ pool[i] = Assembled(u, found[i])
  BY <1>5, <1>6, <1>7
<1> HIDE DEF n
<1>9. \A i \in 1..n : pool[i].id = found[i]
  BY <1>1, <1>8, AssembledScores
<1>10. Rankable(Assembled(u, u), pool)
  <2>1. \A i \in 1..n : pool[i].id \in Nat
    BY <1>1, <1>8, <1>9, DiscoveryAssumption
  <2>2. ASSUME NEW i \in 1..n
        PROVE  RankScore(Assembled(u, u), pool[i]) \in Int
    <3>1. found[i] \in People
      BY <1>1, <1>8
    <3>2. /\ Readable(Assembled(u, u))
          /\ Readable(pool[i])
          /\ pool[i].online \in Bands
      BY <1>8, <3>1, AssembledScores
    <3>3. QED
      BY <3>2, ScoreIsInt
  <2>3. \A i, j \in 1..n : pool[i].id = pool[j].id => i = j
    <3>1. ASSUME NEW i \in 1..Cardinality(S), NEW j \in 1..Cardinality(S),
                 found[i] = found[j]
          PROVE  i = j
      <4>1. i - 1 = j - 1
        BY <1>5, <3>1
      <4>2. QED
        BY <1>5, <4>1
    <3>2. QED
      BY <1>6, <1>9, <3>1
  <2>4. QED
    BY <1>6, <1>7, <2>1, <2>2, <2>3 DEF Rankable
<1>11. QED
  BY <1>1, <1>2, <1>3, <1>6, <1>7, <1>8, <1>9, <1>10
     DEF S, found, pool, n

\* Whoever a pool of people is ranked into is one of them.
LEMMA RankedArePeople ==
    ASSUME ReadInv, NEW u \in People, NEW allowed \in SUBSET Users,
           NEW order, Orders(order, Users), NEW f
    PROVE  Ids(Recommend(Assembled(u, u), Pool(u, allowed, order), f))
               \in Seq(People)
<1> DEFINE pool == Pool(u, allowed, order)
           me == Assembled(u, u)
           S == ScoredIn(me, pool, f)
           c == Cardinality(S)
           ranked == Recommend(me, pool, f)
<1>1. /\ Rankable(me, pool)
      /\ \A i \in DOMAIN pool : pool[i].id \in People
  <2> DEFINE H == {v \in allowed : Onboarded(v)}
             found == InOrder(H, order)
             n == AtMost(Cardinality(H), PoolSize)
  <2>1. /\ H \subseteq People
        /\ DOMAIN pool = 1..n
        /\ \A i \in 1..n : found[i] \in H /\ pool[i].id = found[i]
        /\ Rankable(me, pool)
    BY PoolHolds
  <2> HIDE DEF H, found, n, pool, me
  <2>2. QED
    BY <2>1
<1> HIDE DEF pool, me
<1>2. \A x \in S : x.id \in People
  BY <1>1 DEF ScoredIn, ScoredAt, Passing
<1>3. /\ ranked = InOrder(S, AheadIn(S))
      /\ IsFiniteSet(S) /\ Orders(AheadIn(S), S)
  BY <1>1, RecommendLists
<1> HIDE DEF S, ranked
<1>4. /\ c \in Nat
      /\ DOMAIN ranked = 1..c
      /\ \A k \in 1..c : ranked[k] \in S
  BY <1>3, InOrderLists, FS_CardinalityType
<1> HIDE DEF c
<1>5. Ids(ranked) = [k \in 1..c |-> ranked[k].id]
  BY <1>4 DEF Ids
<1>6. Ids(ranked) \in Seq(People)
  BY <1>2, <1>4, <1>5
<1>7. QED
  BY <1>6 DEF ranked, pool, me

\* Whoever a feed or the daily picks show has a profile.
LEMMA ShownArePeople ==
    ASSUME ReadInv, NEW u \in People, NEW f
    PROVE  /\ ToSet(Feed(u, f)) \subseteq People
           /\ ToSet(DailyPicks(u)) \subseteq People
<1>1. Orders(recent, Users)
  BY DEF ReadInv
<1>2. FeedCandidates(Incognito, u) \in SUBSET Users
  BY DEF FeedCandidates, Visible
<1>3. ASSUME NEW g
      PROVE  Feed(u, g) \in Seq(People)
  BY <1>1, <1>2, RankedArePeople DEF Feed, FeedBy
<1>4. \A s \in Seq(People) : ToSet(s) \subseteq People
  BY DEF ToSet
<1>5. DailyPicks(u) = Capped(Feed(u, DefaultFilters), 5)
  BY DEF DailyPicks
<1>6. Feed(u, DefaultFilters) \in Seq(People)
  BY <1>3
<1>7. \A s \in Seq(People) : ToSet(Capped(s, 5)) \subseteq People
  <2> SUFFICES ASSUME NEW s \in Seq(People)
               PROVE  ToSet(Capped(s, 5)) \subseteq People
    OBVIOUS
  <2>1. /\ DOMAIN Capped(s, 5) = 1..AtMost(Len(s), 5)
        /\ \A i \in 1..AtMost(Len(s), 5) : Capped(s, 5)[i] = s[i]
    BY CappedKeeps
  <2> DEFINE c == Capped(s, 5)
             k == AtMost(Len(s), 5)
  <2>2. \A i \in 1..k : s[i] \in People
    BY DEF AtMost
  <2>3. DOMAIN c = 1..k /\ \A i \in 1..k : c[i] = s[i]
    BY <2>1
  <2> HIDE DEF c, k
  <2>4. ToSet(c) \subseteq People
    BY <2>2, <2>3 DEF ToSet
  <2>5. QED
    BY <2>4 DEF c
<1>8. QED
  BY <1>3, <1>4, <1>5, <1>6, <1>7

----------------------------------------------------------------------------

\* What a save in flight carries is in order; an age that no constraint has
\* seen yet waits for the statement that checks it.
PatchOK(r) ==
    /\ saves[r].user \in Users
    /\ Valid(saves[r].patch)
    /\ Has(saves[r].patch, "age") =>
           At(r, RowStatement) \/ saves[r].patch.age >= 18
    /\ IsFiniteSet(saves[r].added)

\* Every save in flight is.
PatchesOK == \A r \in Requests : InFlight(r) => PatchOK(r)

\* A row that is there is not NoProfile.
LEMMA RowsAreProfiles ==
    ASSUME NEW row, ValidRow(row)
    PROVE  row # NoProfile
<1>1. "age" \in DOMAIN row
  BY DEF ValidRow, Unset
<1>2. "age" \notin DOMAIN NoProfile
  BY DEF NoProfile
<1>3. QED
  BY <1>1, <1>2

\* Some of the elements of a list, in their order, are a list.
LEMMA KeptDomain ==
    ASSUME NEW s, NEW n \in Nat, NEW P \in SUBSET (1..n)
    PROVE  /\ IsFiniteSet(P) /\ Cardinality(P) \in Nat
           /\ DOMAIN Kept(s, P) = 1..Cardinality(P)
<1>1. IsFiniteSet(1..n)
  BY FS_Interval
<1>2. IsFiniteSet(P)
  BY <1>1, FS_Subset
<1>3. QED
  BY <1>2, FS_CardinalityType DEF Kept

\* An UPDATE leaves a valid row, and an INSERT makes one.
LEMMA UpdatedIsValid ==
    ASSUME NEW row, row = NoProfile \/ ValidRow(row),
           NEW in \in Submissions, Valid(in.patch),
           Has(in.patch, "age") => in.patch.age >= 18
    PROVE  ValidRow(Updated(row, in.patch))
<1> DEFINE patch == in.patch
           new == Updated(row, patch)
<1>1. DOMAIN new = DOMAIN Unset
  BY DEF Updated
<1>2. \A f \in DOMAIN Unset :
          /\ Has(patch, f) /\ f = "interests" => new[f] = Cleaned(patch[f])
          /\ Has(patch, f) /\ f # "interests" => new[f] = patch[f]
          /\ ~ Has(patch, f) /\ row = NoProfile => new[f] = Unset[f]
          /\ ~ Has(patch, f) /\ row # NoProfile => new[f] = row[f]
  BY DEF Updated
<1>3. {"age", "height", "maxKm", "place", "traits", "interests"}
          \subseteq DOMAIN Unset
  BY DEF Unset
<1>4. /\ Unset.age = 18 /\ Unset.height = 0 /\ Unset.maxKm = 40
      /\ Unset.place = Nowhere /\ Unset.traits = {} /\ Unset.interests = <<>>
  BY DEF Unset
<1> HIDE DEF new
<1>5. new.age \in Int /\ new.age >= 18
  <2>1. Has(patch, "age") => patch.age \in Int
    BY SubmissionsAssumption DEF Has
  <2>2. QED
    BY <1>2, <1>3, <1>4, <2>1 DEF ValidRow
<1>6. new.height \in {0} \cup 90..260
  <2>1. Has(patch, "height") => patch.height \in 90..260
    BY DEF Valid, Within
  <2>2. row # NoProfile => row.height \in {0} \cup 90..260
    BY DEF ValidRow
  <2>3. \/ Has(patch, "height") /\ new.height = patch.height
        \/ new.height = Unset.height
        \/ row # NoProfile /\ new.height = row.height
    BY <1>2, <1>3
  <2>4. QED
    BY <1>4, <2>1, <2>2, <2>3
<1>7. new.maxKm \in 1..500
  <2>1. Has(patch, "maxKm") => patch.maxKm \in 1..500
    BY DEF Valid, Within
  <2>2. row # NoProfile => row.maxKm \in 1..500
    BY DEF ValidRow
  <2>3. \/ Has(patch, "maxKm") /\ new.maxKm = patch.maxKm
        \/ new.maxKm = Unset.maxKm
        \/ row # NoProfile /\ new.maxKm = row.maxKm
    BY <1>2, <1>3
  <2>4. Unset.maxKm \in 1..500
    BY <1>4
  <2>5. QED
    BY <2>1, <2>2, <2>3, <2>4
<1>8. new.place \in Places \cup {Nowhere}
  BY <1>2, <1>3, <1>4 DEF ValidRow, Valid, Within
<1>9. IsFiniteSet(new.traits)
  <2>1. Has(patch, "traits") => IsFiniteSet(patch.traits)
    BY SubmissionsAssumption DEF Has
  <2>2. IsFiniteSet(Unset.traits)
    BY <1>4, FS_EmptySet
  <2>3. \/ new.traits = patch.traits /\ Has(patch, "traits")
        \/ new.traits = Unset.traits
        \/ new.traits = row.traits /\ row # NoProfile
    BY <1>2, <1>3
  <2>4. row # NoProfile => IsFiniteSet(row.traits)
    BY Zenon DEF ValidRow
  <2>5. QED
    BY <2>1, <2>2, <2>3, <2>4
<1>10. IsFiniteSet(DOMAIN new.interests)
  <2>1. CASE Has(patch, "interests")
    <3> DEFINE tags == patch.interests
               P == {k \in DOMAIN tags : /\ tags[k] # Blank
                                         /\ \A j \in 1..(k - 1) :
                                                tags[j] # tags[k]}
    <3>1. tags \in Seq(STRING)
      BY <2>1, SubmissionsAssumption DEF Has
    <3>2. new.interests = Kept(tags, P)
      BY <1>2, <1>3, <2>1 DEF Cleaned
    <3>3. Len(tags) \in Nat /\ P \in SUBSET (1..Len(tags))
      BY <3>1
    <3> HIDE DEF tags, P
    <3> DEFINE n == Len(tags)
               c == Cardinality(P)
    <3>4. c \in Nat /\ DOMAIN new.interests = 1..c
      BY <3>2, <3>3, KeptDomain
    <3> HIDE DEF c
    <3>5. QED
      BY <3>4, FS_Interval
  <2>2. CASE ~ Has(patch, "interests") /\ row = NoProfile
    <3>1. DOMAIN new.interests = {}
      BY <1>2, <1>3, <1>4, <2>2
    <3>2. QED
      BY <3>1, FS_EmptySet
  <2>3. CASE ~ Has(patch, "interests") /\ row # NoProfile
    <3>1. new.interests = row.interests
      BY <1>2, <1>3, <2>3
    <3>2. IsFiniteSet(DOMAIN row.interests)
      BY <2>3, Zenon DEF ValidRow
    <3>3. QED
      BY <3>1, <3>2
  <2>4. QED
    BY <2>1, <2>2, <2>3
<1>11. ValidRow(new)
  BY <1>1, <1>5, <1>6, <1>7, <1>8, <1>9, <1>10, Zenon DEF ValidRow
<1>12. QED
  BY <1>11 DEF new, patch

----------------------------------------------------------------------------

\* A save inserts finitely many rows.
LEMMA NewEntriesFinite ==
    ASSUME SavesOK, NEW r \in Requests, InFlight(r), NEW list \in Lists,
           Has(saves[r].patch, list)
    PROVE  IsFiniteSet(NewEntries(r, list))
<1> DEFINE patch == saves[r].patch
           K == Keys(r, list)
<1>1. PICK in \in Submissions : patch = in.patch
  BY DEF SavesOK, InFlight
<1>2. IsFiniteSet(K)
  <2>1. CASE list = "prompts"
    <3>1. patch.prompts \in Seq(Nat)
      BY <1>1, <2>1, SubmissionsAssumption DEF Has
    <3> DEFINE n == Len(patch.prompts)
    <3>2. n \in Nat /\ K = 1..n
      BY <2>1, <3>1 DEF Keys
    <3> HIDE DEF n, K
    <3>3. QED
      BY <3>2, FS_Interval
  <2>2. CASE list = "answers"
    <3>1. patch.answers \in Seq(Nat)
      BY <1>1, <2>2, SubmissionsAssumption DEF Has
    <3> DEFINE n == Len(patch.answers)
               g == patch.answers
               D == DOMAIN g
    <3>2. n \in Nat /\ D = 1..n
      BY <3>1
    <3>3. K = {g[i] : i \in D}
      BY <2>2 DEF Keys, ToSet
    <3> HIDE DEF n, D, g, K
    <3>4. IsFiniteSet(D)
      BY <3>2, FS_Interval
    <3>5. IsFiniteSet({g[i] : i \in D})
      BY <3>4, ImageFinite
    <3>6. QED
      BY <3>3, <3>5
  <2>3. QED
    BY <2>1, <2>2 DEF Lists
<1> DEFINE g == [k \in K |-> [user |-> saves[r].user, list |-> list,
                              key |-> k, row |-> r, by |-> r]]
<1>3. NewEntries(r, list) = {g[k] : k \in K}
  BY DEF NewEntries
<1> HIDE DEF K, g
<1>4. IsFiniteSet({g[k] : k \in K})
  BY <1>2, ImageFinite
<1>5. QED
  BY <1>3, <1>4

\* A statement other than COMMIT keeps what the saves carry in order.
LEMMA MoveKeepsPatches ==
    ASSUME PatchesOK, NEW r \in Requests, NEW seen, NEW gone, NEW added,
           Moved(r, seen, gone, added), IsFiniteSet(added),
           (/\ Head(saves[r].todo) = RowStatement
            /\ Has(saves[r].patch, "age")) => saves[r].patch.age >= 18
    PROVE  PatchesOK'
<1>1. PatchOK(r)
  BY DEF PatchesOK, Moved
<1>2. PatchOK(r)'
  <2>1. /\ saves'[r].user = saves[r].user /\ saves'[r].patch = saves[r].patch
        /\ saves'[r].added = added
    BY DEF Moved
  <2>2. Has(saves[r].patch, "age") => saves[r].patch.age >= 18
    BY <1>1 DEF PatchOK, At
  <2>3. QED
    BY <1>1, <2>1, <2>2 DEF PatchOK
<1>3. ASSUME NEW s \in Requests, s # r, InFlight(s)'
      PROVE  PatchOK(s)'
  <2>1. saves'[s] = saves[s]
    BY <1>3 DEF Moved
  <2>2. InFlight(s) /\ PatchOK(s)
    BY <1>3, <2>1 DEF PatchesOK, InFlight
  <2>3. QED
    BY <2>1, <2>2 DEF PatchOK, At, InFlight
<1>4. QED
  BY <1>2, <1>3 DEF PatchesOK

\* What one save does to the saves leaves the others' patches in order.
LEMMA OthersKeepPatches ==
    ASSUME PatchesOK, NEW r \in Requests,
           \A s \in Requests \ {r} : saves'[s] = saves[s],
           InFlight(r)' => PatchOK(r)'
    PROVE  PatchesOK'
<1>1. ASSUME NEW s \in Requests \ {r}, InFlight(s)'
      PROVE  PatchOK(s)'
  BY <1>1 DEF PatchesOK, PatchOK, At, InFlight
<1>2. QED
  BY <1>1 DEF PatchesOK

\* A save keeps its patch in order from its request to its COMMIT.
LEMMA SaveKeepsPatches ==
    ASSUME SavesInv, IsFiniteSet(entries), PatchesOK,
           NEW r \in Requests, SaveNext(r)
    PROVE  PatchesOK'
<1>0. SavesOK
  BY DEF SavesInv
<1>1. ASSUME NEW in \in Submissions, Submit(r, in)
      PROVE  PatchesOK'
  <2> DEFINE save == [stage |-> "begun", user |-> in.user, patch |-> in.patch,
                      todo |-> Statements(in.patch), seen |-> {}, gone |-> {},
                      added |-> {}]
  <2>1. Valid(in.patch) /\ saves' = [saves EXCEPT ![r] = save]
    BY <1>1 DEF Submit
  <2>2. /\ save.stage = "begun" /\ save.user = in.user /\ save.patch = in.patch
        /\ save.todo = Statements(in.patch) /\ save.added = {}
    OBVIOUS
  <2> HIDE DEF save
  <2>3. saves'[r] = save /\ \A s \in Requests \ {r} : saves'[s] = saves[s]
    BY <1>0, <2>1 DEF SavesOK
  <2>4. Has(in.patch, "age") => At(r, RowStatement)'
    <3>1. Has(in.patch, "age") => Columns(in.patch) # {}
      BY DEF Has, Columns, Lists
    <3>2. QED
      BY <2>2, <2>3, <3>1, OrderedAtFirst DEF At, InFlight
  <2>5. PatchOK(r)'
    <3>1. in.user \in Users /\ IsFiniteSet({})
      BY SubmissionsAssumption, FS_EmptySet
    <3>2. QED
      BY <2>1, <2>2, <2>3, <2>4, <3>1 DEF PatchOK
  <2>6. QED
    BY <2>3, <2>5, OthersKeepPatches
<1>2. CASE WriteRow(r)
  <2>1. /\ At(r, RowStatement) /\ Step(r, saves[r]) /\ UNCHANGED entries
        /\ Has(saves[r].patch, "age") => saves[r].patch.age >= 18
    BY <1>2 DEF WriteRow, RowStatement
  <2>2. /\ InFlight(r) /\ saves[r].todo # <<>>
        /\ SavesOK /\ DOMAIN saves[r] = Fields /\ saves[r].stage = "begun"
    BY <2>1, AtStatement
  <2>3. Moved(r, saves[r].seen, saves[r].gone, saves[r].added)
    BY <2>1, <2>2, StepMoves
  <2>4. IsFiniteSet(saves[r].added)
    BY <2>2 DEF PatchesOK, PatchOK
  <2>5. QED
    BY <2>1, <2>3, <2>4, MoveKeepsPatches
<1>3. ASSUME NEW list \in Lists, NEW kind \in {"see", "drop", "add"},
             At(r, <<kind, list>>), NEW save,
             DOMAIN save = Fields, save.stage = "begun",
             save.user = saves[r].user, save.patch = saves[r].patch,
             save.todo = saves[r].todo, IsFiniteSet(save.added),
             Step(r, save), UNCHANGED entries
      PROVE  PatchesOK'
  <2>1. /\ InFlight(r) /\ saves[r].todo # <<>>
        /\ Head(saves[r].todo) = <<kind, list>>
    BY <1>3 DEF At
  <2>2. Moved(r, save.seen, save.gone, save.added)
    BY <1>0, <1>3, <2>1, StepMoves
  <2>3. <<kind, list>> # RowStatement
    BY DEF RowStatement
  <2>4. QED
    BY <1>3, <2>1, <2>2, <2>3, MoveKeepsPatches
<1>4. ASSUME NEW list \in Lists, See(r, list) \/ Drop(r, list)
      PROVE  PatchesOK'
  <2>1. ASSUME See(r, list)
        PROVE  PatchesOK'
    <3> DEFINE save == [saves[r] EXCEPT !.seen = Of(saves[r].user, list)]
    <3>1. At(r, <<"see", list>>) /\ Step(r, save) /\ UNCHANGED entries
      BY <2>1 DEF See
    <3>2. DOMAIN saves[r] = Fields /\ saves[r].stage = "begun" /\ InFlight(r)
      BY <3>1, AtStatement
    <3>3. /\ DOMAIN save = Fields /\ save.stage = "begun"
          /\ save.user = saves[r].user /\ save.patch = saves[r].patch
          /\ save.todo = saves[r].todo /\ save.added = saves[r].added
      BY <3>2 DEF Fields
    <3>4. IsFiniteSet(saves[r].added)
      BY <3>2 DEF PatchesOK, PatchOK
    <3> HIDE DEF save
    <3>5. QED
      BY <1>3, <3>1, <3>3, <3>4
  <2>2. ASSUME Drop(r, list)
        PROVE  PatchesOK'
    <3> DEFINE old == {e \in entries : \E d \in saves[r].seen : Same(d, e)}
               save == [saves[r] EXCEPT !.gone = @ \cup old]
    <3>1. At(r, <<"drop", list>>) /\ Step(r, save) /\ UNCHANGED entries
      BY <2>2 DEF Drop
    <3>2. DOMAIN saves[r] = Fields /\ saves[r].stage = "begun" /\ InFlight(r)
      BY <3>1, AtStatement
    <3>3. /\ DOMAIN save = Fields /\ save.stage = "begun"
          /\ save.user = saves[r].user /\ save.patch = saves[r].patch
          /\ save.todo = saves[r].todo /\ save.added = saves[r].added
      BY <3>2 DEF Fields
    <3>4. IsFiniteSet(saves[r].added)
      BY <3>2 DEF PatchesOK, PatchOK
    <3> HIDE DEF save
    <3>5. QED
      BY <1>3, <3>1, <3>3, <3>4
  <2>3. QED
    BY <1>4, <2>1, <2>2
<1>5. CASE AddPrompts(r)
  <2> DEFINE new == NewEntries(r, "prompts")
             save == [saves[r] EXCEPT !.added = @ \cup new]
  <2>1. At(r, <<"add", "prompts">>) /\ Step(r, save) /\ UNCHANGED entries
    BY <1>5 DEF AddPrompts
  <2>2. /\ DOMAIN saves[r] = Fields /\ saves[r].stage = "begun" /\ InFlight(r)
        /\ Has(saves[r].patch, "prompts")
    BY <2>1, AtStatement DEF Lists
  <2>3. /\ DOMAIN save = Fields /\ save.stage = "begun"
        /\ save.user = saves[r].user /\ save.patch = saves[r].patch
        /\ save.todo = saves[r].todo /\ save.added = saves[r].added \cup new
    BY <2>2 DEF Fields
  <2>4. IsFiniteSet(saves[r].added) /\ IsFiniteSet(new)
    BY <1>0, <2>2, NewEntriesFinite DEF PatchesOK, PatchOK, Lists
  <2> HIDE DEF save, new
  <2>5. IsFiniteSet(save.added)
    BY <2>3, <2>4, FS_Union
  <2>6. QED
    BY <1>3, <2>1, <2>3, <2>5 DEF Lists
<1>6. CASE AddAnswers(r)
  <2> DEFINE old == Clashes(r, "answers")
             free == {e \in NewEntries(r, "answers") :
                         \A d \in old : d.key # e.key}
             overwritten == {[d EXCEPT !.by = r] : d \in old}
             save == [saves[r] EXCEPT !.gone = @ \cup old,
                                      !.added = @ \cup free \cup overwritten]
  <2>1. At(r, <<"add", "answers">>) /\ Step(r, save) /\ UNCHANGED entries
    BY <1>6 DEF AddAnswers
  <2>2. /\ DOMAIN saves[r] = Fields /\ saves[r].stage = "begun" /\ InFlight(r)
        /\ Has(saves[r].patch, "answers")
    BY <2>1, AtStatement DEF Lists
  <2>3. /\ DOMAIN save = Fields /\ save.stage = "begun"
        /\ save.user = saves[r].user /\ save.patch = saves[r].patch
        /\ save.todo = saves[r].todo
        /\ save.added = (saves[r].added \cup free) \cup overwritten
    BY <2>2 DEF Fields
  <2>4. IsFiniteSet(saves[r].added) /\ IsFiniteSet(NewEntries(r, "answers"))
    BY <1>0, <2>2, NewEntriesFinite DEF PatchesOK, PatchOK, Lists
  <2>5. IsFiniteSet(free)
    <3>1. free \in SUBSET NewEntries(r, "answers")
      OBVIOUS
    <3> HIDE DEF free
    <3>2. QED
      BY <2>4, <3>1, FS_Subset
  <2>6. IsFiniteSet(overwritten)
    <3>1. IsFiniteSet(old)
      <4>1. old \in SUBSET entries
        BY DEF Clashes, Of
      <4> HIDE DEF old
      <4>2. QED
        BY <4>1, FS_Subset
    <3> DEFINE g == [d \in old |-> [d EXCEPT !.by = r]]
    <3>2. overwritten = {g[d] : d \in old}
      OBVIOUS
    <3> HIDE DEF g, old, overwritten
    <3>3. IsFiniteSet({g[d] : d \in old})
      BY <3>1, ImageFinite
    <3>4. QED
      BY <3>2, <3>3
  <2> HIDE DEF save, free, overwritten
  <2>7. IsFiniteSet(saves[r].added \cup free)
    BY <2>4, <2>5, FS_Union
  <2>8. IsFiniteSet(save.added)
    BY <2>3, <2>6, <2>7, FS_Union
  <2>9. QED
    BY <1>3, <2>1, <2>3, <2>8 DEF Lists
<1>7. CASE Commit(r) \/ Fail(r)
  <2>1. /\ ~ InFlight(r)'
        /\ \A s \in Requests \ {r} : saves'[s] = saves[s]
    BY <1>0, <1>7 DEF Commit, Fail, SavesOK, InFlight
  <2>2. QED
    BY <2>1, OthersKeepPatches
<1>8. QED
  BY <1>1, <1>2, <1>4, <1>5, <1>6, <1>7 DEF SaveNext

----------------------------------------------------------------------------

\* A COMMIT leaves valid rows, and takes no profile away.
LEMMA CommitKeepsRows ==
    ASSUME ReadInv, SavesInv, PatchesOK, NEW r \in Requests, Commit(r)
    PROVE  /\ DOMAIN profiles' = Users
           /\ \A u \in Users : profiles'[u] = NoProfile \/ ValidRow(profiles'[u])
           /\ People \subseteq People'
           /\ IsFiniteSet(entries')
<1> DEFINE u == saves[r].user
           patch == saves[r].patch
<1>1. /\ InFlight(r) /\ saves[r].todo = <<>>
      /\ entries' = (entries \ saves[r].gone) \cup saves[r].added
      /\ profiles' = IF Columns(patch) = {} THEN profiles
                     ELSE [profiles EXCEPT ![u] = Updated(@, patch)]
  BY DEF Commit
<1>2. PatchOK(r)
  BY <1>1 DEF PatchesOK
<1>3. PICK in \in Submissions : patch = in.patch
  BY <1>1 DEF SavesInv, SavesOK, InFlight
<1>4. /\ u \in Users /\ Valid(in.patch)
      /\ Has(in.patch, "age") => in.patch.age >= 18
  BY <1>1, <1>2, <1>3 DEF PatchOK, At
<1>5. ValidRow(Updated(profiles[u], patch))
  BY <1>3, <1>4, UpdatedIsValid DEF ReadInv
<1> HIDE DEF u, patch
<1>6. \/ profiles' = profiles
      \/ /\ DOMAIN profiles' = Users
         /\ profiles'[u] = Updated(profiles[u], patch)
         /\ \A v \in Users \ {u} : profiles'[v] = profiles[v]
  BY <1>1, <1>4 DEF ReadInv
<1>7. /\ DOMAIN profiles' = Users
      /\ \A v \in Users : \/ profiles'[v] = profiles[v]
                          \/ ValidRow(profiles'[v])
  BY <1>5, <1>6 DEF ReadInv
<1>8. People \subseteq People'
  BY <1>7, RowsAreProfiles DEF People, Onboarded
<1>9. IsFiniteSet(entries')
  <2> DEFINE kept == entries \ saves[r].gone
             added == saves[r].added
  <2>1. IsFiniteSet(entries) /\ kept \in SUBSET entries
    BY DEF ReadInv
  <2>2. IsFiniteSet(kept)
    BY <2>1, FS_Subset
  <2>3. IsFiniteSet(added)
    BY <1>2 DEF PatchOK
  <2>4. entries' = kept \cup added
    BY <1>1
  <2> HIDE DEF kept, added
  <2>5. QED
    BY <2>2, <2>3, <2>4, FS_Union
<1>10. QED
  BY <1>7, <1>8, <1>9 DEF ReadInv

\* Whoever has just been active comes before everyone else.
LEMMA TouchReorders ==
    ASSUME Orders(recent, Users), NEW u \in Users,
           recent' = {p \in Users \X Users :
                         p[2] # u /\ (p[1] = u \/ p \in recent)}
    PROVE  Orders(recent, Users)'
<1>1. \A x, y \in Users :
          <<x, y>> \in recent' <=> y # u /\ (x = u \/ <<x, y>> \in recent)
  OBVIOUS
<1>2. /\ \A x \in Users : <<x, x>> \notin recent
      /\ \A x, y, z \in Users :
             <<x, y>> \in recent /\ <<y, z>> \in recent => <<x, z>> \in recent
      /\ \A x, y \in Users : x # y => <<x, y>> \in recent \/ <<y, x>> \in recent
  BY DEF Orders
<1>3. \A x \in Users : <<x, x>> \notin recent'
  BY <1>1, <1>2
<1>4. \A x, y, z \in Users :
          <<x, y>> \in recent' /\ <<y, z>> \in recent' => <<x, z>> \in recent'
  BY <1>1, <1>2
<1>5. \A x, y \in Users :
          x # y => <<x, y>> \in recent' \/ <<y, x>> \in recent'
  BY <1>1, <1>2
<1>6. QED
  BY <1>3, <1>4, <1>5 DEF Orders

\* Ids order the people.
LEMMA ByIdOrders == Orders(ById, Users)
<1>1. \A x, y \in Users : <<x, y>> \in ById <=> x < y
  BY DEF ById
<1>2. \A x \in Users : x \in Nat
  BY DiscoveryAssumption
<1>3. QED
  BY <1>1, <1>2 DEF Orders

\* Every step keeps what the reads rely on.
LEMMA ReadStep ==
    ASSUME ReadInv, SavesInv, PatchesOK, [DiscoveryNext]_discoveryVars
    PROVE  ReadInv' /\ PatchesOK'
<1>1. ASSUME UNCHANGED <<profiles, entries, recent, online, met>>
      PROVE  ReadInv'
  <2>1. People' = People
    BY <1>1 DEF People, Onboarded
  <2>2. Orders(recent, Users)'
    BY <1>1 DEF ReadInv, Orders
  <2>3. QED
    BY <1>1, <2>1, <2>2 DEF ReadInv
<1>2. ASSUME UNCHANGED <<saves>>
      PROVE  PatchesOK'
  BY <1>2 DEF PatchesOK, PatchOK, At, InFlight
<1>3. ASSUME NEW r \in Requests, SaveNext(r), UNCHANGED <<recent, online, met>>
      PROVE  ReadInv' /\ PatchesOK'
  <2>1. PatchesOK'
    BY <1>3, SaveKeepsPatches DEF ReadInv
  <2>2. CASE Commit(r)
    <3>1. /\ DOMAIN profiles' = Users
          /\ \A u \in Users :
                 profiles'[u] = NoProfile \/ ValidRow(profiles'[u])
          /\ People \subseteq People'
          /\ IsFiniteSet(entries')
      BY <2>2, CommitKeepsRows
    <3>2. Orders(recent, Users)'
      BY <1>3 DEF ReadInv, Orders
    <3>3. online' \in [Users -> Bands] /\ met' \subseteq People' \X People'
      BY <1>3, <3>1 DEF ReadInv
    <3>4. QED
      BY <2>1, <3>1, <3>2, <3>3 DEF ReadInv
  <2>3. CASE ~ Commit(r)
    <3>1. UNCHANGED <<profiles, entries>>
      BY <1>3, <2>3 DEF SaveNext, Submit, WriteRow, See, Drop, AddPrompts,
                        AddAnswers, Fail
    <3>2. QED
      BY <1>1, <1>3, <2>1, <3>1
  <2>4. QED
    BY <2>2, <2>3
<1>4. ASSUME NEW u \in Users, Touch(u)
      PROVE  ReadInv' /\ PatchesOK'
  <2>1. /\ UNCHANGED <<profiles, entries, saves, met>>
        /\ recent' = {p \in Users \X Users :
                         p[2] # u /\ (p[1] = u \/ p \in recent)}
        /\ online' = [online EXCEPT ![u] = Buckets[1]]
    BY <1>4 DEF Touch, profileVars
  <2>2. Orders(recent, Users)'
    BY <2>1, TouchReorders DEF ReadInv
  <2>3. online' \in [Users -> Bands]
    BY <2>1 DEF ReadInv, Buckets, Bands
  <2>4. People' = People
    BY <2>1 DEF People, Onboarded
  <2>5. QED
    BY <1>2, <2>1, <2>2, <2>3, <2>4 DEF ReadInv
<1>5. ASSUME NEW u \in Users, Fade(u)
      PROVE  ReadInv' /\ PatchesOK'
  <2>1. PICK b \in 1..3 :
            /\ UNCHANGED <<profiles, entries, saves, recent, met>>
            /\ online' = [online EXCEPT ![u] = Buckets[b + 1]]
    BY <1>5 DEF Fade, profileVars
  <2>2. Orders(recent, Users)'
    BY <2>1 DEF ReadInv, Orders
  <2>3. Buckets[b + 1] \in Bands
    BY DEF Buckets, Bands
  <2>4. online' \in [Users -> Bands]
    BY <2>1, <2>3 DEF ReadInv
  <2>5. People' = People
    BY <2>1 DEF People, Onboarded
  <2>6. QED
    BY <1>2, <2>1, <2>2, <2>4, <2>5 DEF ReadInv
<1>6. ASSUME NEW u \in Users, Look(u)
      PROVE  ReadInv' /\ PatchesOK'
  <2>1. PICK shown \in {Feed(u, f) : f \in Filters} \cup {DailyPicks(u)} :
            met' = met \cup {<<u, v>> : v \in ToSet(shown)}
    BY <1>6 DEF Look
  <2>2. /\ UNCHANGED <<profiles, entries, saves, recent, online>>
        /\ u \in People
    BY <1>6 DEF Look, profileVars, People
  <2>3. ToSet(shown) \subseteq People
    BY <2>2, ShownArePeople
  <2>4. met' \subseteq People \X People
    BY <2>1, <2>2, <2>3 DEF ReadInv
  <2>5. Orders(recent, Users)' /\ People' = People
    BY <2>2 DEF ReadInv, Orders, People, Onboarded
  <2>6. QED
    BY <1>2, <2>2, <2>4, <2>5 DEF ReadInv
<1>7. CASE UNCHANGED <<profileVars, recent, online, met>>
  BY <1>1, <1>2, <1>7 DEF profileVars
<1>8. CASE UNCHANGED discoveryVars
  BY <1>7, <1>8 DEF discoveryVars
<1>9. QED
  BY <1>3, <1>4, <1>5, <1>6, <1>7, <1>8 DEF DiscoveryNext

\* The initial states have it all.
LEMMA ReadInit ==
    ASSUME DiscoveryInit
    PROVE  ReadInv /\ PatchesOK
<1>1. /\ recent = ById /\ met = {} /\ entries = {}
      /\ online = [u \in Users |-> "online"]
      /\ DOMAIN profiles = Users
      /\ \A u \in Users : profiles[u] = NoProfile \/ ValidRow(profiles[u])
      /\ saves = [r \in Requests |-> NoSave]
  BY DEF DiscoveryInit, ProfilesInit
<1>2. Orders(recent, Users)
  BY <1>1, ByIdOrders
<1>3. online \in [Users -> Bands]
  BY <1>1 DEF Bands
<1>4. IsFiniteSet(entries)
  BY <1>1, FS_EmptySet
<1>5. PatchesOK
  BY <1>1 DEF PatchesOK, InFlight, NoSave
<1>6. QED
  BY <1>1, <1>2, <1>3, <1>4, <1>5 DEF ReadInv

\* What the reads rely on always holds.
LEMMA ReadAlways == DiscoverySpec => [](ReadInv /\ SavesInv /\ PatchesOK)
<1>1. DiscoveryInit => ReadInv /\ SavesInv /\ PatchesOK
  BY ReadInit, SavesInit
<1>2. (ReadInv /\ SavesInv /\ PatchesOK) /\ [DiscoveryNext]_discoveryVars
          => (ReadInv /\ SavesInv /\ PatchesOK)'
  BY ReadStep, SavesStep
<1>3. QED
  BY <1>1, <1>2, PTL DEF DiscoverySpec

----------------------------------------------------------------------------

\* A scored candidate is the profile it stands for: its id says which.
LEMMA ScoredOnce ==
    ASSUME NEW current, NEW pool, NEW f, Rankable(current, pool)
    PROVE  \A x, y \in ScoredIn(current, pool, f) :
               /\ x.id \in Nat /\ x.score \in Int
               /\ x.id = y.id => x = y
<1> DEFINE S == ScoredIn(current, pool, f)
<1>1. \A x \in S : \E i \in DOMAIN pool : /\ x = ScoredAt(current, pool, i)
                                          /\ x.id = pool[i].id
                                          /\ x.score = RankScore(current, pool[i])
  BY DEF ScoredIn, ScoredAt, Passing
<1> HIDE DEF S
<1>2. QED
  BY <1>1 DEF Rankable, S

\* A candidate of one pool is one of every other that holds the same profile.
LEMMA ScoredElsewhere ==
    ASSUME NEW current, NEW p, NEW q, NEW f,
           \A i \in DOMAIN p : \E j \in DOMAIN q : q[j] = p[i]
    PROVE  \A x \in ScoredIn(current, p, f) :
               \E y \in ScoredIn(current, q, f) :
                   y.id = x.id /\ y.score = x.score
<1> SUFFICES ASSUME NEW x \in ScoredIn(current, p, f)
             PROVE  \E y \in ScoredIn(current, q, f) :
                        y.id = x.id /\ y.score = x.score
  OBVIOUS
<1>1. PICK i \in Passing(current, p, f) : x = ScoredAt(current, p, i)
  BY DEF ScoredIn
<1>2. PICK j \in DOMAIN q : q[j] = p[i]
  BY DEF Passing
<1>3. j \in Passing(current, q, f)
  BY <1>2 DEF Passing
<1>4. ScoredAt(current, q, j) \in ScoredIn(current, q, f)
  BY <1>3 DEF ScoredIn
<1>5. /\ ScoredAt(current, q, j).id = x.id
      /\ ScoredAt(current, q, j).score = x.score
  BY <1>1, <1>2 DEF ScoredAt
<1>6. QED
  BY <1>4, <1>5

\* Recommend ranks alike two pools that hold the same profiles, in whatever
\* order each holds them.
LEMMA SameCandidates ==
    ASSUME NEW current, NEW f,
           NEW p, Rankable(current, p), NEW q, Rankable(current, q),
           \A i \in DOMAIN p : \E j \in DOMAIN q : q[j] = p[i],
           \A j \in DOMAIN q : \E i \in DOMAIN p : p[i] = q[j]
    PROVE  Ids(Recommend(current, p, f)) = Ids(Recommend(current, q, f))
<1> DEFINE S == ScoredIn(current, p, f)
           T == ScoredIn(current, q, f)
           R == AheadIn(S)
           Q == AheadIn(T)
           h == [x \in S |-> CHOOSE y \in T : y.id = x.id /\ y.score = x.score]
           a == Recommend(current, p, f)
           b == Recommend(current, q, f)
           n == Cardinality(S)
<1>1. /\ \A x \in S : \E y \in T : y.id = x.id /\ y.score = x.score
      /\ \A y \in T : \E x \in S : x.id = y.id /\ x.score = y.score
  BY ScoredElsewhere
<1>2. /\ \A x, y \in S : x.id = y.id => x = y
      /\ \A x, y \in T : x.id = y.id => x = y
  BY ScoredOnce
<1>3. /\ a = InOrder(S, R) /\ IsFiniteSet(S) /\ Orders(R, S)
      /\ \A x, y \in S : <<x, y>> \in R <=>
             x.score > y.score \/ (x.score = y.score /\ x.id < y.id)
  BY RecommendLists
<1>4. /\ b = InOrder(T, Q) /\ IsFiniteSet(T) /\ Orders(Q, T)
      /\ \A x, y \in T : <<x, y>> \in Q <=>
             x.score > y.score \/ (x.score = y.score /\ x.id < y.id)
  BY RecommendLists
<1> HIDE DEF S, T, R, Q, a, b
<1>5. \A x \in S : h[x] \in T /\ h[x].id = x.id /\ h[x].score = x.score
  BY <1>1
<1>6. h \in [S -> T]
  BY <1>5
<1> HIDE DEF h
<1>7. h \in Bijection(S, T)
  <2>1. \A x, y \in S : h[x] = h[y] => x = y
    BY <1>2, <1>5
  <2>2. \A y \in T : \E x \in S : h[x] = y
    BY <1>1, <1>2, <1>5
  <2>3. QED
    BY <1>6, <2>1, <2>2 DEF Bijection, Injection, Surjection, IsInjective
<1>8. \A x, y \in S : <<x, y>> \in R <=> <<h[x], h[y]>> \in Q
  <2> SUFFICES ASSUME NEW x \in S, NEW y \in S
               PROVE  <<x, y>> \in R <=> <<h[x], h[y]>> \in Q
    OBVIOUS
  <2>1. /\ h[x] \in T /\ h[x].id = x.id /\ h[x].score = x.score
        /\ h[y] \in T /\ h[y].id = y.id /\ h[y].score = y.score
    BY <1>5
  <2>2. <<h[x], h[y]>> \in Q <=>
            \/ h[x].score > h[y].score
            \/ h[x].score = h[y].score /\ h[x].id < h[y].id
    BY <1>4, <2>1
  <2>3. <<x, y>> \in R <=>
            x.score > y.score \/ (x.score = y.score /\ x.id < y.id)
    BY <1>3
  <2>4. QED
    BY <2>1, <2>2, <2>3
<1>9. /\ Cardinality(T) = n
      /\ \A k \in 1..n : InOrder(T, Q)[k] = h[InOrder(S, R)[k]]
  <2>1. /\ IsFiniteSet(S) /\ Orders(R, S) /\ IsFiniteSet(T) /\ Orders(Q, T)
    BY <1>3, <1>4
  <2>2. /\ Cardinality(S) = Cardinality(T)
        /\ \A k \in 1..Cardinality(S) :
               InOrder(T, Q)[k] = h[InOrder(S, R)[k]]
    BY <1>7, <1>8, <2>1, SameOrder, Z3
  <2>3. QED
    BY <2>2
<1>10. /\ DOMAIN a = 1..n /\ DOMAIN b = 1..n
       /\ \A k \in 1..n : a[k] \in S
  BY <1>3, <1>4, <1>9, InOrderLists
<1>11. \A k \in 1..n : b[k].id = a[k].id
  BY <1>3, <1>4, <1>5, <1>9, <1>10
<1> HIDE DEF n
<1>12. Ids(a) = Ids(b)
  BY <1>10, <1>11 DEF Ids
<1>13. QED
  BY <1>12 DEF a, b

\* A pool with room for everyone it allows holds all of them with a profile.
LEMMA RoomyPool ==
    ASSUME ReadInv, NEW u \in People, NEW allowed \in SUBSET Users,
           Cardinality(allowed) <= PoolSize,
           NEW order, Orders(order, Users)
    PROVE  LET pool == Pool(u, allowed, order)
           IN  /\ \A i \in DOMAIN pool :
                      \E v \in allowed : /\ Onboarded(v)
                                         /\ pool[i] = Assembled(u, v)
               /\ \A v \in allowed : Onboarded(v) =>
                      \E i \in DOMAIN pool : pool[i] = Assembled(u, v)
<1> DEFINE S == {v \in allowed : Onboarded(v)}
           found == InOrder(S, order)
           pool == Pool(u, allowed, order)
           c == Cardinality(S)
           n == AtMost(c, PoolSize)
<1>1. /\ IsFiniteSet(S) /\ Orders(order, S)
      /\ DOMAIN pool = 1..n
      /\ \A i \in 1..n : found[i] \in S /\ pool[i] = Assembled(u, found[i])
  BY PoolHolds
<1>2. n = c
  <2>1. S \in SUBSET allowed /\ allowed \in SUBSET Users
    OBVIOUS
  <2>2. IsFiniteSet(allowed)
    BY <2>1, FS_Subset, DiscoveryAssumption
  <2> HIDE DEF S
  <2>3. c \in Nat /\ Cardinality(allowed) \in Nat /\ c <= Cardinality(allowed)
    BY <2>1, <2>2, FS_Subset, FS_CardinalityType
  <2>4. QED
    BY <2>3, DiscoveryAssumption DEF AtMost
<1>3. \A v \in S : \E i \in 1..c : found[i] = v
  <2> HIDE DEF S
  <2>1. QED
    BY <1>1, InOrderLists
<1> HIDE DEF found, n, pool, c
<1>4. \A i \in DOMAIN pool :
          \E v \in allowed : Onboarded(v) /\ pool[i] = Assembled(u, v)
  BY <1>1
<1>5. \A v \in S : \E i \in DOMAIN pool : pool[i] = Assembled(u, v)
  BY <1>1, <1>2, <1>3
<1>6. QED
  BY <1>4, <1>5 DEF pool

\* For any accounts, places and filters, and at every moment: a feed whose
\* candidates all fit the pool does not depend on who was active when, only on
\* the score and the id (Recommend, over the query's order by last_active_at).
THEOREM FeedsAreSettled == DiscoverySpec => []RankingSettled
<1>1. ASSUME ReadInv
      PROVE  RankingSettled
  <2> SUFFICES ASSUME NEW u \in Users, Onboarded(u), NEW f \in Filters,
                      Cardinality(FeedCandidates(Incognito, u)) <= PoolSize
               PROVE  FeedBy(recent, u, f) = FeedBy(ById, u, f)
    BY DEF RankingSettled, Feed
  <2> DEFINE allowed == FeedCandidates(Incognito, u)
             me == Assembled(u, u)
             p == Pool(u, allowed, recent)
             q == Pool(u, allowed, ById)
  <2>1. u \in People /\ allowed \in SUBSET Users
    BY DEF People, FeedCandidates, Visible
  <2>2. Orders(recent, Users) /\ Orders(ById, Users)
    BY <1>1, ByIdOrders DEF ReadInv
  <2>3. Rankable(me, p) /\ Rankable(me, q)
    <3> HIDE DEF allowed
    <3>1. QED
      BY <1>1, <2>1, <2>2, PoolHolds
  <2>4. Cardinality(allowed) <= PoolSize
    OBVIOUS
  <2> HIDE DEF allowed
  <2>5. /\ \A i \in DOMAIN p :
               \E v \in allowed : Onboarded(v) /\ p[i] = Assembled(u, v)
        /\ \A v \in allowed : Onboarded(v) =>
               \E i \in DOMAIN p : p[i] = Assembled(u, v)
    BY <1>1, <2>1, <2>2, <2>4, RoomyPool
  <2>6. /\ \A i \in DOMAIN q :
               \E v \in allowed : Onboarded(v) /\ q[i] = Assembled(u, v)
        /\ \A v \in allowed : Onboarded(v) =>
               \E i \in DOMAIN q : q[i] = Assembled(u, v)
    BY <1>1, <2>1, <2>2, <2>4, RoomyPool
  <2> HIDE DEF p, q, me
  <2>7. /\ \A i \in DOMAIN p : \E j \in DOMAIN q : q[j] = p[i]
        /\ \A j \in DOMAIN q : \E i \in DOMAIN p : p[i] = q[j]
    BY <2>5, <2>6
  <2>8. Ids(Recommend(me, p, f)) = Ids(Recommend(me, q, f))
    BY <2>3, <2>7, SameCandidates
  <2>9. QED
    BY <2>8 DEF FeedBy, p, q, me, allowed
<1>2. QED
  BY <1>1, ReadAlways, PTL

----------------------------------------------------------------------------

\* A set of one member.
LEMMA OneMember == \A x : Cardinality({x}) = 1
  BY FS_Singleton

\* Whoever passes the filters is recommended.
LEMMA PassingAreListed ==
    ASSUME NEW current, NEW pool, NEW f, Rankable(current, pool),
           NEW i \in DOMAIN pool, PassesFilters(pool[i], f, current)
    PROVE  pool[i].id \in ToSet(Ids(Recommend(current, pool, f)))
<1> DEFINE S == ScoredIn(current, pool, f)
           R == AheadIn(S)
           ranked == Recommend(current, pool, f)
           x == ScoredAt(current, pool, i)
           k == Rank(S, R, x) + 1
<1>1. x \in S /\ x.id = pool[i].id
  BY DEF ScoredIn, ScoredAt, Passing
<1>2. ranked = InOrder(S, R) /\ IsFiniteSet(S) /\ Orders(R, S)
  BY RecommendLists
<1> HIDE DEF S, R, ranked, x
<1>3. k \in DOMAIN ranked /\ ranked[k] = x
  BY <1>1, <1>2, InOrderLists
<1> HIDE DEF k
<1>4. k \in DOMAIN Ids(ranked) /\ Ids(ranked)[k] = pool[i].id
  BY <1>1, <1>3 DEF Ids
<1>5. QED
  BY <1>4 DEF ToSet, ranked

\* A pool can be ranked.
LEMMA PoolIsRankable ==
    ASSUME ReadInv, NEW u \in People, NEW allowed \in SUBSET Users,
           NEW order, Orders(order, Users)
    PROVE  Rankable(Assembled(u, u), Pool(u, allowed, order))
BY PoolHolds

\* What a search by name leaves open.
LEMMA WideFiltersPass ==
    ASSUME ReadInv, NEW u \in People, NEW v \in People,
           profiles[u].interestedIn # {} =>
               profiles[v].gender \in profiles[u].interestedIn,
           profiles[v].age <= 120, Assembled(u, v).km <= 20000
    PROVE  PassesFilters(Assembled(u, v), WideFilters(u), Assembled(u, u))
<1> DEFINE p == Assembled(u, v)
           me == Assembled(u, u)
           f == WideFilters(u)
           asked == profiles[u].interestedIn
<1>1. /\ f.minAge = 18 /\ f.maxAge = 120 /\ f.maxKm = 20000
      /\ f.minHeight = 0 /\ f.maxHeight = 260
      /\ f.intents = {} /\ f.interests = {} /\ f.languages = {}
      /\ f.genders = asked
      /\ f.texts = [t \in TextFilters |-> Blank]
  BY DEF WideFilters, DefaultFilters
<1>2. /\ p.age = profiles[v].age /\ p.height = profiles[v].height
      /\ p.gender = profiles[v].gender
      /\ me.interestedIn = asked
  BY DEF Assembled
<1>3. ValidRow(profiles[v])
  BY DEF ReadInv, People, Onboarded
<1>4. p.age \in Int /\ p.age >= 18 /\ p.age <= 120
  BY <1>2, <1>3 DEF ValidRow
<1>5. p.height # 0 => 0 <= p.height /\ p.height <= 260
  BY <1>2, <1>3 DEF ValidRow
<1>6. p.km <= 20000
  OBVIOUS
<1> HIDE DEF p, me, f
<1>7. \A field \in TextFilters : f.texts[field] = Blank
  BY <1>1
<1>8. QED
  BY <1>1, <1>2, <1>4, <1>5, <1>6, <1>7 DEF PassesFilters, p, me, f

\* For any accounts, places and filters, and whatever has happened since: who
\* was in somebody's feed or daily picks is found by name while they may be
\* seen, are of a gender asked for, and are within the 120 years and 20000 km
\* of a search (Search, over what Feed once returned).
THEOREM SearchFindsTheIntroduced == DiscoverySpec => []IntroducedAreFindable
<1>1. ASSUME ReadInv
      PROVE  IntroducedAreFindable
  <2> SUFFICES ASSUME NEW m \in met,
                      m[2] \in Visible(Incognito, m[1]),
                      profiles[m[1]].interestedIn # {} =>
                          profiles[m[2]].gender \in profiles[m[1]].interestedIn,
                      profiles[m[2]].age <= 120,
                      Assembled(m[1], m[2]).km <= 20000
               PROVE  m[2] \in ToSet(Search(m[1], {m[2]}))
    BY DEF IntroducedAreFindable
  <2> DEFINE u == m[1]
             v == m[2]
             me == Assembled(u, u)
             allowed == Searched(u) \cap {v}
             f == WideFilters(u)
             pool == Pool(u, allowed, recent)
  <2>1. u \in People /\ v \in People
    BY <1>1 DEF ReadInv
  <2>2. allowed = {v} /\ allowed \in SUBSET Users /\ Onboarded(v)
    BY <2>1 DEF Searched, People
  <2>3. Orders(recent, Users)
    BY <1>1 DEF ReadInv
  <2> HIDE DEF allowed
  <2>4. Cardinality(allowed) <= PoolSize
    <3>1. Cardinality({v}) = 1
      BY OneMember
    <3>2. QED
      BY <2>2, <3>1, DiscoveryAssumption
  <2>5. PICK i \in DOMAIN pool : pool[i] = Assembled(u, v)
    <3>1. v \in allowed
      BY <2>2
    <3> HIDE DEF u, v
    <3>2. \A w \in allowed : Onboarded(w) =>
              \E i \in DOMAIN pool : pool[i] = Assembled(u, w)
      BY <1>1, <2>1, <2>2, <2>3, <2>4, RoomyPool
    <3> HIDE DEF pool
    <3>3. QED
      BY <2>2, <3>1, <3>2
  <2>6. Rankable(me, pool)
    <3>1. u \in People /\ allowed \in SUBSET Users
      BY <2>1, <2>2
    <3> HIDE DEF u, v
    <3>2. QED
      BY <1>1, <2>3, <3>1, PoolIsRankable
  <2>7. PassesFilters(pool[i], f, me)
    BY <1>1, <2>1, <2>5, WideFiltersPass
  <2>8. pool[i].id = v
    BY <1>1, <2>1, <2>5, AssembledScores
  <2> HIDE DEF pool, me, f, u, v
  <2>9. v \in ToSet(Ids(Recommend(me, pool, f)))
    BY <2>6, <2>7, <2>8, PassingAreListed
  <2>10. QED
    BY <2>9 DEF Search, pool, me, f, u, v, allowed
<1>2. QED
  BY <1>1, ReadAlways, PTL

----------------------------------------------------------------------------

\* The k-th element that is kept is the one at h[k].
Picks(h, s, P) ==
    /\ \A k \in 1..Cardinality(P) : h[k] \in P /\ Kept(s, P)[k] = s[h[k]]
    /\ \A k, l \in 1..Cardinality(P) : h[k] = h[l] => k = l

\* What is kept of a list comes from different positions of it.
LEMMA KeptPicks ==
    ASSUME NEW s, NEW n \in Nat, NEW P \in SUBSET (1..n)
    PROVE  \E h : Picks(h, s, P)
<1> DEFINE c == Cardinality(P)
           L == {p \in P \X P : p[1] < p[2]}
           Pick(k) == CHOOSE i \in P : Cardinality(P \cap 1..i) = k
           h == [k \in 1..c |-> Pick(k)]
<1>1. /\ \A x \in P : x \in Int /\ x >= 1
      /\ \A x, y \in P : <<x, y>> \in L <=> x < y
  OBVIOUS
<1>2. IsFiniteSet(P)
  BY KeptDomain
<1>3. Orders(L, P)
  <2> HIDE DEF L
  <2>1. QED
    BY <1>1 DEF Orders
<1> HIDE DEF L
<1>4. ASSUME NEW i \in P
      PROVE  Cardinality(P \cap 1..i) = Rank(P, L, i) + 1
  <2> DEFINE A == Ahead(P, L, i)
  <2>1. P \cap 1..i = A \cup {i} /\ i \notin A
    <3> DEFINE I == 1..i
    <3>1. \A y : y \in A <=> y \in P /\ y < i
      BY <1>1 DEF Ahead
    <3>2. \A y \in P : y \in I <=> y < i \/ y = i
      BY <1>1
    <3>3. ~ (i < i)
      BY <1>1
    <3> HIDE DEF A, I
    <3>4. P \cap I = A \cup {i} /\ i \notin A
      BY <3>1, <3>2, <3>3
    <3>5. QED
      BY <3>4 DEF I
  <2>2. A \in SUBSET P
    BY DEF Ahead
  <2>3. IsFiniteSet(A)
    BY <1>2, <2>2, FS_Subset
  <2> HIDE DEF A
  <2>4. Cardinality(A \cup {i}) = Cardinality(A) + 1
    BY <2>1, <2>3, FS_AddElement
  <2>5. QED
    BY <2>1, <2>4 DEF Rank, A
<1>5. ASSUME NEW k \in 1..c
      PROVE  Pick(k) \in P /\ Cardinality(P \cap 1..Pick(k)) = k
  <2>1. PICK i \in P : Rank(P, L, i) = k - 1
    BY <1>2, <1>3, RankTaken
  <2>2. Cardinality(P \cap 1..i) = k
    BY <1>4, <2>1
  <2>3. QED
    BY <2>2
<1>6. \A k \in 1..c : Kept(s, P)[k] = s[h[k]]
  BY DEF Kept
<1> HIDE DEF Pick
<1>7. \A k \in 1..c : h[k] \in P
  BY <1>5
<1>8. \A k, l \in 1..c : h[k] = h[l] => k = l
  BY <1>5
<1>9. Picks(h, s, P)
  BY <1>6, <1>7, <1>8 DEF Picks
<1>10. QED
  BY <1>9

\* It is a list of elements found there, as long as there are positions.
LEMMA KeptIsList ==
    ASSUME NEW V, NEW s, NEW n \in Nat, NEW P \in SUBSET (1..n),
           \A i \in P : s[i] \in V
    PROVE  /\ Kept(s, P) \in Seq(V)
           /\ Len(Kept(s, P)) = Cardinality(P) /\ Cardinality(P) \in Nat
<1> DEFINE c == Cardinality(P)
           t == Kept(s, P)
<1>1. c \in Nat
  BY KeptDomain
<1>2. PICK h : Picks(h, s, P)
  BY KeptPicks
<1>0. t = [k \in 1..c |-> t[k]]
  BY DEF Kept
<1> HIDE DEF c, t
<1>3. \A k \in 1..c : t[k] \in V
  BY <1>2 DEF Picks, c, t
<1>4. t \in Seq(V) /\ Len(t) = c
  BY <1>0, <1>1, <1>3
<1>5. QED
  BY <1>1, <1>4 DEF c, t

\* The templates of a tone, numbered within the tone.
templateSlot == <<1, 1, 2, 1, 2, 1, 3, 4, 1, 2, 2, 3, 5, 6>>

\* The template of a tone and a number.
templateOf == [shared |-> <<1, 3>>, playful |-> <<2, 5, 7, 8, 13, 14>>,
               opener |-> <<4, 11>>, sincere |-> <<6, 10, 12>>,
               deeper |-> <<9>>]

\* The two tables fit the templates: up to six of a tone, up to three of one
\* that is not playful, and a single deeper one.
LEMMA Templates ==
    /\ DOMAIN sharedTemplates = 1..14
    /\ \A i \in 1..14 :
           /\ templateSlot[i] \in 1..6
           /\ sharedTemplates[i][2] # "playful" => templateSlot[i] <= 3
           /\ sharedTemplates[i][2] = "deeper" => templateSlot[i] = 1
           /\ templateOf[sharedTemplates[i][2]][templateSlot[i]] = i
<1>1. DOMAIN sharedTemplates = 1..14
  BY DEF sharedTemplates
<1>2. \A i \in 1..14 : templateSlot[i] \in 1..6
  BY DEF templateSlot
<1>3. \A i \in 1..14 : sharedTemplates[i][2] # "playful" =>
                            templateSlot[i] <= 3
  BY DEF templateSlot, sharedTemplates
<1>4. \A i \in 1..14 : sharedTemplates[i][2] = "deeper" =>
                            templateSlot[i] = 1
  BY DEF templateSlot, sharedTemplates
<1>5. \A i \in 1..14 :
          templateOf[sharedTemplates[i][2]][templateSlot[i]] = i
  BY DEF templateSlot, sharedTemplates, templateOf
<1>6. QED
  BY <1>1, <1>2, <1>3, <1>4, <1>5

----------------------------------------------------------------------------

\* Everything an opener can be.
openerTexts ==
    {sharedTemplates[i] : i \in 1..14}
        \cup {<<"start", "opener">>, <<"prompt", "sincere">>,
              <<"prompt", "opener">>, <<"occupation", "deeper">>,
              <<"intent", "deeper">>}

\* The openers of a tone have different numbers up to six, or up to three if
\* the tone is not playful.
Numbers(slot, s) ==
    /\ \A i \in 1..Len(s) :
           /\ slot[i] \in 1..6
           /\ s[i][2] # "playful" => slot[i] <= 3
           /\ s[i][2] = "deeper" => slot[i] = 1
    /\ \A i, j \in 1..Len(s) :
           s[i][2] = s[j][2] /\ slot[i] = slot[j] => i = j

\* The openers of shared interests.
LEMMA SharedAreNumbered ==
    ASSUME NEW shared
    PROVE  /\ FromShared(shared) \in Seq(openerTexts)
           /\ Len(FromShared(shared)) >= 1
           /\ \E slot : Numbers(slot, FromShared(shared))
<1> DEFINE P == {i \in DOMAIN sharedTemplates : sharedTemplates[i][1] \in shared}
           written == Kept(sharedTemplates, P)
           c == Cardinality(P)
           start == <<"start", "opener">>
<1>1. DOMAIN sharedTemplates = 1..14
  BY Templates
<1>2. P \in SUBSET (1..14) /\ \A i \in P : sharedTemplates[i] \in openerTexts
  BY <1>1 DEF openerTexts
<1>3. FromShared(shared) = IF written = <<>> THEN <<start>> ELSE written
  BY DEF FromShared
<1> HIDE DEF P
<1>4. /\ written \in Seq(openerTexts)
      /\ Len(written) = c /\ c \in Nat
  <2> DEFINE n == 14
  <2>1. n \in Nat /\ P \in SUBSET (1..n)
    BY <1>2
  <2> HIDE DEF n
  <2>2. QED
    BY <1>2, <2>1, KeptIsList
<1>5. PICK h : Picks(h, sharedTemplates, P)
  <2> DEFINE n == 14
  <2>1. n \in Nat /\ P \in SUBSET (1..n)
    BY <1>2
  <2> HIDE DEF n
  <2>2. QED
    BY <2>1, KeptPicks
<1>6. /\ \A k \in 1..c : /\ h[k] \in 1..14
                         /\ written[k] = sharedTemplates[h[k]]
      /\ \A k, l \in 1..c : h[k] = h[l] => k = l
  BY <1>2, <1>5 DEF Picks
<1>7. start \in openerTexts
  BY DEF openerTexts
<1> HIDE DEF written, c
<1>8. CASE written = <<>>
  <2> DEFINE slot == [i \in 1..1 |-> 3]
             s == <<start>>
  <2>1. FromShared(shared) = s
    BY <1>3, <1>8
  <2>2. s[1][2] = "opener" /\ Len(s) = 1
    OBVIOUS
  <2>3. s \in Seq(openerTexts)
    <3> HIDE DEF start
    <3>1. QED
      BY <1>7
  <2> HIDE DEF s
  <2>4. Numbers(slot, s)
    BY <2>2 DEF Numbers
  <2>5. QED
    BY <2>1, <2>2, <2>3, <2>4
<1>9. CASE written # <<>>
  <2> DEFINE slot == [i \in 1..c |-> templateSlot[h[i]]]
  <2>1. FromShared(shared) = written
    BY <1>3, <1>9
  <2>2. Len(written) >= 1
    BY <1>4, <1>9
  <2>3. \A i \in 1..c :
            /\ slot[i] = templateSlot[h[i]]
            /\ slot[i] \in 1..6
            /\ written[i][2] # "playful" => slot[i] <= 3
            /\ written[i][2] = "deeper" => slot[i] = 1
            /\ templateOf[written[i][2]][slot[i]] = h[i]
    BY <1>6, Templates
  <2> HIDE DEF slot
  <2>4. \A i, j \in 1..c :
            written[i][2] = written[j][2] /\ slot[i] = slot[j] => i = j
    BY <1>6, <2>3
  <2>5. Numbers(slot, written)
    BY <1>4, <2>3, <2>4 DEF Numbers
  <2>6. QED
    BY <1>4, <2>1, <2>2, <2>5
<1>10. QED
  BY <1>8, <1>9

\* The openers that follow them: of the prompts, the occupation and the intent.
Follow(rest) ==
    /\ rest \in Seq(openerTexts)
    /\ Len(rest) \in 1..4
    /\ \A j \in 1..Len(rest) :
           /\ rest[j][2] \in {"sincere", "opener", "deeper"}
           /\ rest[j][2] = "sincere" => j = 1
           /\ rest[j][2] = "opener" => j = 2

\* The openers of a pair are those of the shared interests and these.
LEMMA OpenersAre ==
    ASSUME NEW a, NEW b
    PROVE  \E rest : /\ Follow(rest)
                     /\ Openers(a, b) = FromShared(CommonInterests(a, b)) \o rest
<1> DEFINE s == FromShared(CommonInterests(a, b))
           p == FromPrompts(b)
           w == <<"occupation", "deeper">>
           x == <<"prompt", "sincere">>
           y == <<"prompt", "opener">>
           z == <<"intent", "deeper">>
           o == IF b.occupation = Blank THEN <<>> ELSE <<w>>
           i == <<z>>
           rest == p \o (o \o i)
<1>1. Openers(a, b) = ((s \o p) \o o) \o i
  BY DEF Openers
<1>2. /\ w \in openerTexts /\ x \in openerTexts
      /\ y \in openerTexts /\ z \in openerTexts
      /\ w[2] = "deeper" /\ x[2] = "sincere"
      /\ y[2] = "opener" /\ z[2] = "deeper"
  BY DEF openerTexts
<1>3. p = <<>> \/ p = <<x, y>>
  BY DEF FromPrompts
<1> HIDE DEF w, x, y, z
<1>4. o = <<>> \/ o = <<w>>
  OBVIOUS
<1>5. s \in Seq(openerTexts)
  BY SharedAreNumbered
<1> HIDE DEF s, p, o
<1>6. /\ p \in Seq(openerTexts) /\ Len(p) \in {0, 2}
      /\ \A j \in 1..Len(p) : (j = 1 /\ p[j][2] = "sincere")
                                  \/ (j = 2 /\ p[j][2] = "opener")
  <2>1. CASE p = <<>>
    BY <2>1
  <2>2. CASE p = <<x, y>>
    <3>1. p \in Seq(openerTexts) /\ Len(p) = 2
      BY <1>2, <2>2
    <3>2. p[1] = x /\ p[2] = y
      BY <2>2
    <3>3. \A j \in 1..Len(p) : j = 1 \/ j = 2
      BY <3>1
    <3>4. p[1][2] = "sincere" /\ p[2][2] = "opener"
      BY <1>2, <3>2
    <3>5. QED
      BY <3>1, <3>3, <3>4
  <2>3. QED
    BY <1>3, <2>1, <2>2
<1>7. /\ o \in Seq(openerTexts) /\ Len(o) \in {0, 1}
      /\ \A j \in 1..Len(o) : o[j][2] = "deeper"
  <2>1. CASE o = <<>>
    BY <2>1
  <2>2. CASE o = <<w>>
    BY <1>2, <2>2
  <2>3. QED
    BY <1>4, <2>1, <2>2
<1>8. /\ i \in Seq(openerTexts) /\ Len(i) = 1
      /\ \A j \in 1..Len(i) : i[j][2] = "deeper"
  BY <1>2
<1> HIDE DEF i
<1> DEFINE q == o \o i
<1>9. /\ q \in Seq(openerTexts) /\ Len(q) \in 1..2
      /\ \A j \in 1..Len(q) : q[j][2] = "deeper"
  <2>1. /\ q \in Seq(openerTexts) /\ Len(q) = Len(o) + Len(i)
        /\ \A j \in 1..(Len(o) + Len(i)) :
               q[j] = IF j <= Len(o) THEN o[j] ELSE i[j - Len(o)]
    BY <1>7, <1>8, ConcatProperties
  <2> HIDE DEF q
  <2>2. QED
    BY <1>7, <1>8, <2>1
<1>10. Openers(a, b) = s \o rest
  <2>1. ((s \o p) \o o) \o i = (s \o p) \o q
    <3> DEFINE t == s \o p
    <3>1. t \in Seq(openerTexts)
      BY <1>5, <1>6, ConcatProperties
    <3> HIDE DEF t
    <3>2. (t \o o) \o i = t \o (o \o i)
      <4>1. o \in Seq(openerTexts) /\ i \in Seq(openerTexts)
        BY <1>7, <1>8
      <4>2. QED
        BY <3>1, <4>1, ConcatAssociative
    <3>3. QED
      BY <3>2 DEF t
  <2> HIDE DEF q
  <2>2. (s \o p) \o q = s \o (p \o q)
    <3>1. /\ s \in Seq(openerTexts) /\ p \in Seq(openerTexts)
          /\ q \in Seq(openerTexts)
      BY <1>5, <1>6, <1>9
    <3>2. QED
      BY <3>1, ConcatAssociative
  <2>3. s \o rest = s \o (p \o q)
    BY DEF q
  <2> HIDE DEF rest
  <2>4. QED
    BY <1>1, <2>1, <2>2, <2>3
<1>11. Follow(rest)
  <2>1. p \in Seq(openerTexts) /\ q \in Seq(openerTexts) /\ rest = p \o q
    BY <1>6, <1>9
  <2> HIDE DEF q
  <2>2. /\ rest \in Seq(openerTexts) /\ Len(rest) = Len(p) + Len(q)
        /\ \A j \in 1..(Len(p) + Len(q)) :
               rest[j] = IF j <= Len(p) THEN p[j] ELSE q[j - Len(p)]
    <3>1. p \o q \in Seq(openerTexts) /\ Len(p \o q) = Len(p) + Len(q)
      BY <2>1, ConcatProperties
    <3>2. \A j \in 1..(Len(p) + Len(q)) :
              (p \o q)[j] = IF j <= Len(p) THEN p[j] ELSE q[j - Len(p)]
      BY <2>1, ConcatProperties
    <3> HIDE DEF rest
    <3>3. QED
      BY <2>1, <3>1, <3>2
  <2> HIDE DEF rest
  <2>3. Len(rest) \in 1..4
    <3>1. Len(p) \in {0, 2} /\ Len(q) \in 1..2
      BY <1>6, <1>9
    <3>2. Len(rest) = Len(p) + Len(q)
      BY <2>2
    <3> DEFINE k == Len(p)
               l == Len(q)
               r == Len(rest)
    <3>3. /\ k = 0 \/ k = 2
          /\ l \in 1..2 /\ r = k + l
      BY <3>1, <3>2
    <3> HIDE DEF k, l, r
    <3>4. r \in 1..4
      BY <3>3
    <3>5. QED
      BY <3>4 DEF r
  <2>4. ASSUME NEW j \in 1..Len(rest)
        PROVE  \/ j = 1 /\ rest[j][2] = "sincere"
               \/ j = 2 /\ rest[j][2] = "opener"
               \/ rest[j][2] = "deeper"
    <3>1. CASE j <= Len(p)
      <4>1. j \in 1..Len(p) /\ rest[j] = p[j]
        BY <1>6, <1>9, <2>2, <3>1
      <4>2. QED
        BY <1>6, <4>1
    <3>2. CASE ~ (j <= Len(p))
      <4>1. j - Len(p) \in 1..Len(q) /\ rest[j] = q[j - Len(p)]
        BY <1>6, <1>9, <2>2, <3>2
      <4>2. QED
        BY <1>9, <4>1
    <3>3. QED
      BY <3>1, <3>2
  <2>5. QED
    BY <2>2, <2>3, <2>4 DEF Follow
<1>12. QED
  BY <1>10, <1>11 DEF s

\* How many of the openers "all" are of the tone.
ToneCount(all, tone) == Cardinality({i \in DOMAIN all : all[i][2] = tone})

\* No tone has more than six openers.
LEMMA ToneFits ==
    ASSUME NEW s \in Seq(openerTexts), NEW slot, Numbers(slot, s),
           NEW rest, Follow(rest), NEW tone
    PROVE  ToneCount(s \o rest, tone) \in 0..6
<1> DEFINE items == s \o rest
           n == Len(s)
           m == Len(rest)
           D == {i \in DOMAIN items : items[i][2] = tone}
           g == [i \in D |-> IF i <= n THEN slot[i]
                             ELSE IF tone = "deeper" THEN i - n + 1 ELSE 4]
<1>1. n \in Nat /\ m \in 1..4 /\ rest \in Seq(openerTexts)
  BY DEF Follow
<1>2. /\ DOMAIN items = 1..(n + m)
      /\ \A i \in 1..(n + m) :
             items[i] = IF i <= n THEN s[i] ELSE rest[i - n]
  <2>1. /\ items \in Seq(openerTexts) /\ Len(items) = n + m
        /\ \A i \in 1..(n + m) :
               items[i] = IF i <= n THEN s[i] ELSE rest[i - n]
    BY <1>1, ConcatProperties
  <2> HIDE DEF items, n, m
  <2>2. QED
    BY <2>1
<1> HIDE DEF items
<1>3. ASSUME NEW i \in D
      PROVE  /\ i \in Int
             /\ \/ /\ i \in 1..n /\ s[i][2] = tone
                \/ /\ i > n /\ i - n \in 1..m /\ rest[i - n][2] = tone
  <2>1. i \in 1..(n + m) /\ items[i][2] = tone
    BY <1>2
  <2>2. QED
    BY <1>1, <1>2, <2>1
<1> HIDE DEF D
<1>4. ASSUME NEW i \in D
      PROVE  /\ i <= n => /\ i \in 1..n /\ s[i][2] = tone
                          /\ g[i] = slot[i] /\ g[i] \in 1..6
                          /\ tone # "playful" => g[i] <= 3
                          /\ tone = "deeper" => g[i] = 1
             /\ i > n => /\ i - n \in 1..4
                         /\ tone \in {"sincere", "opener", "deeper"}
                         /\ tone = "sincere" => i = n + 1
                         /\ tone = "opener" => i = n + 2
                         /\ tone = "deeper" => g[i] = i - n + 1
                         /\ tone # "deeper" => g[i] = 4
  <2>1. CASE i \in 1..n /\ s[i][2] = tone
    <3>1. /\ slot[i] \in 1..6
          /\ tone # "playful" => slot[i] <= 3
          /\ tone = "deeper" => slot[i] = 1
      BY <2>1 DEF Numbers
    <3>2. i <= n /\ ~ (i > n)
      BY <1>1, <2>1
    <3>3. QED
      BY <2>1, <3>1, <3>2
  <2>2. CASE i > n /\ i - n \in 1..m /\ rest[i - n][2] = tone
    <3>1. /\ tone \in {"sincere", "opener", "deeper"}
          /\ tone = "sincere" => i - n = 1
          /\ tone = "opener" => i - n = 2
      BY <2>2 DEF Follow
    <3>2. i \in Int /\ ~ (i <= n)
      BY <1>1, <1>3, <2>2
    <3>3. i - n \in 1..4
      BY <1>1, <2>2
    <3>4. tone = "sincere" => i = n + 1
      BY <1>1, <3>1, <3>2
    <3>5. tone = "opener" => i = n + 2
      BY <1>1, <3>1, <3>2
    <3>6. g[i] = IF tone = "deeper" THEN i - n + 1 ELSE 4
      BY <3>2
    <3> HIDE DEF g
    <3>7. QED
      BY <3>1, <3>2, <3>3, <3>4, <3>5, <3>6
  <2>3. QED
    BY <1>3, <2>1, <2>2
<1>5. \A i \in D : i \in Int
  BY <1>3
<1> DEFINE Six == 1..6
<1>6. g \in [D -> Six]
  <2>1. \A i \in D : g[i] \in Six
    BY <1>1, <1>4, <1>5
  <2> HIDE DEF Six
  <2>2. QED
    BY <2>1
<1> HIDE DEF g
<1>7. ASSUME NEW i \in D, NEW j \in D, g[i] = g[j]
      PROVE  i = j
  <2>1. i \in Int /\ j \in Int
    BY <1>5
  <2>2. CASE i <= n /\ j <= n
    <3>1. /\ i \in 1..n /\ j \in 1..n /\ s[i][2] = s[j][2]
          /\ slot[i] = slot[j]
      BY <1>4, <1>7, <2>2
    <3>2. QED
      BY <3>1 DEF Numbers
  <2>3. CASE i > n /\ j > n
    BY <1>1, <1>4, <1>7, <2>1, <2>3
  <2>4. CASE i <= n /\ j > n
    BY <1>1, <1>4, <1>7, <2>1, <2>4
  <2>5. CASE i > n /\ j <= n
    BY <1>1, <1>4, <1>7, <2>1, <2>5
  <2>6. QED
    BY <1>1, <2>1, <2>2, <2>3, <2>4, <2>5
<1>8. g \in Injection(D, Six)
  BY <1>6, <1>7 DEF Injection, IsInjective
<1>9. IsFiniteSet(Six) /\ Cardinality(Six) = 6
  <2> DEFINE lo == 1
             hi == 6
  <2>1. lo \in Int /\ hi \in Int /\ lo <= hi /\ Six = lo..hi /\ hi - lo + 1 = 6
    OBVIOUS
  <2> HIDE DEF Six, lo, hi
  <2>2. QED
    BY <2>1, FS_Interval
<1> HIDE DEF Six
<1>10. IsFiniteSet(D) /\ Cardinality(D) <= 6
  BY <1>8, <1>9, FS_Injection
<1>11. Cardinality(D) \in 0..6
  BY <1>10, FS_CardinalityType
<1>12. QED
  BY <1>11 DEF D, items, ToneCount

\* A list that is not empty keeps some of it when it is cut, and no more than
\* the cut.
LEMMA CutFits ==
    ASSUME NEW items \in Seq(openerTexts), Len(items) >= 1,
           NEW n \in Nat \ {0}
    PROVE  Len(Capped(items, n)) \in 1..n
<1>1. AtMost(Len(items), n) \in 1..Len(items) /\ AtMost(Len(items), n) <= n
  BY DEF AtMost
<1>2. Len(SubSeq(items, 1, AtMost(Len(items), n))) = AtMost(Len(items), n)
  <2> DEFINE k == AtMost(Len(items), n)
  <2> HIDE DEF k
  <2>1. QED
    BY <1>1 DEF k
<1>3. AtMost(Len(items), n) \in 1..n
  BY <1>1
<1>4. QED
  BY <1>2, <1>3 DEF Capped

\* What is suggested for any tone is a list of one to six.
LEMMA SuggestedFits ==
    ASSUME NEW a, NEW b, NEW tone
    PROVE  Len(Suggested(Openers(a, b), tone)) \in 1..6
<1> DEFINE s == FromShared(CommonInterests(a, b))
           items == Openers(a, b)
           D == {i \in DOMAIN items : items[i][2] = tone}
           fitting == OfTone(items, tone)
<1>1. PICK rest : Follow(rest) /\ items = s \o rest
  BY OpenersAre
<1>2. s \in Seq(openerTexts) /\ \E slot : Numbers(slot, s)
  BY SharedAreNumbered
<1> HIDE DEF items, s
<1>3. /\ items \in Seq(openerTexts)
      /\ Len(items) = Len(s) + Len(rest)
  <2>1. rest \in Seq(openerTexts)
    BY <1>1 DEF Follow
  <2>2. QED
    BY <1>1, <1>2, <2>1, ConcatProperties
<1>4. Len(items) >= 1
  <2>1. Len(s) \in Nat /\ Len(rest) \in 1..4
    BY <1>1, <1>2 DEF Follow
  <2>2. QED
    BY <1>3, <2>1
<1>5. Cardinality(D) \in 0..6
  <2> HIDE DEF D, fitting
  <2>1. PICK slot : Numbers(slot, s)
    BY <1>2
  <2>2. s \in Seq(openerTexts) /\ Follow(rest)
    BY <1>1, <1>2
  <2>3. ToneCount(s \o rest, tone) \in 0..6
    BY <2>1, <2>2, ToneFits
  <2>4. Cardinality(D) = ToneCount(items, tone)
    BY DEF D, ToneCount
  <2>5. QED
    BY <1>1, <2>3, <2>4
<1>6. Len(fitting) \in 0..6
  <2> DEFINE n == Len(items)
  <2>1. n \in Nat /\ D \in SUBSET (1..n)
    BY <1>3
  <2>2. \A i \in D : items[i] \in openerTexts
    BY <1>3
  <2>3. fitting = Kept(items, D)
    BY DEF OfTone
  <2> HIDE DEF n, D
  <2>4. Len(Kept(items, D)) = Cardinality(D)
    BY <2>1, <2>2, KeptIsList
  <2>5. QED
    BY <1>5, <2>3, <2>4
<1>7. fitting # <<>> => Len(fitting) # 0
  <2> DEFINE n == Len(items)
  <2>1. n \in Nat /\ D \in SUBSET (1..n)
    BY <1>3
  <2>2. \A i \in D : items[i] \in openerTexts
    BY <1>3
  <2>3. fitting = Kept(items, D)
    BY DEF OfTone
  <2> HIDE DEF n, D
  <2>4. Kept(items, D) \in Seq(openerTexts)
    BY <2>1, <2>2, KeptIsList
  <2>5. QED
    BY <2>3, <2>4
<1>8. Len(Capped(items, 6)) \in 1..6 /\ Len(Capped(items, 3)) \in 1..3
  <2>1. 6 \in Nat \ {0} /\ 3 \in Nat \ {0}
    OBVIOUS
  <2>2. \A n \in Nat \ {0} : Len(Capped(items, n)) \in 1..n
    BY <1>3, <1>4, CutFits
  <2>3. QED
    BY <2>1, <2>2
<1>9. Suggested(items, tone) = IF tone = Blank THEN Capped(items, 6)
                               ELSE IF fitting = <<>> THEN Capped(items, 3)
                               ELSE fitting
  BY DEF Suggested
<1> HIDE DEF fitting
<1>10. Len(Suggested(items, tone)) \in 1..6
  BY <1>6, <1>7, <1>8, <1>9
<1>11. QED
  BY <1>10 DEF items

\* OpenersFit: there is an opener for every pair and tone, and never more than
\* six.  No state is needed: the openers are bounded by their templates.
THEOREM OpenersAlwaysFit == DiscoverySpec => []OpenersFit
<1>1. OpenersFit
  BY SuggestedFits DEF OpenersFit
<1>2. QED
  BY <1>1, PTL
================================================================================

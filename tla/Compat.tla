------------------------------- MODULE Compat -------------------------------
(***************************************************************************)
(* internal/compat: the scores of a pair, the filters, the ranking of a    *)
(* pool, the completion of a profile and the conversation openers.  All of *)
(* it is pure.  Fractions are exact here, where the code has float64, so a *)
(* score at an exact half may differ by one.  A text stands for what it    *)
(* says: spelling and letter case, which some comparisons ignore and       *)
(* others do not, are left out, and so is the wording of the insights.     *)
(***************************************************************************)
EXTENDS Integers, SequencesExt

Intents == {"longTerm", "seriousOpen", "casual", "newConnections", "notSure"}
Styles == {"thoughtful", "playful", "direct", "slowBurn", "frequent"}
Genders == {"woman", "man", "nonBinary", "other"}
Tones == {"opener", "playful", "sincere", "deeper", "shared"}

\* An absent filter, tone or answer.
Blank == ""

AtMost(n, m) == IF n < m THEN n ELSE m

Points(test, n) == IF test THEN n ELSE 0

Capped(s, n) == SubSeq(s, 1, AtMost(Len(s), n))

\* The elements of a set in the order of a relation: the k-th is the one that
\* k - 1 others come before.
InOrder(S, before) ==
    [k \in 1..Cardinality(S) |->
        CHOOSE x \in S : Cardinality({y \in S : <<y, x>> \in before}) = k - 1]

\* What is left of a list when only these positions of it stay.
Kept(s, positions) ==
    [k \in 1..Cardinality(positions) |->
        s[CHOOSE i \in positions : Cardinality(positions \cap 1..i) = k]]

\* n/d to the nearest integer, halves up.
Round(n, d) == (2 * n + d) \div (2 * d)

----------------------------------------------------------------------------

\* jaccard, as a fraction; a pair without any tag is neutral.
Jaccard(a, b) ==
    IF a \cup b = {} THEN [n |-> 7, d |-> 10]
    ELSE [n |-> Cardinality(a \cap b), d |-> Cardinality(a \cup b)]

\* Answers are functions of the question.
AnswerOverlap(a, b) ==
    LET compared == DOMAIN a \cap DOMAIN b
        same == {q \in compared : a[q] = b[q]}
    IN  IF compared = {} THEN [n |-> 7, d |-> 10]
        ELSE [n |-> 45 * Cardinality(compared) + 55 * Cardinality(same),
              d |-> 100 * Cardinality(compared)]

PersonalityScore(a, b) ==
    LET traits == Jaccard(a.traits, b.traits)
        overlap == AnswerOverlap(a.answers, b.answers)
    IN  Round(55 * traits.n * overlap.d + 45 * overlap.n * traits.d,
              traits.d * overlap.d)

\* Groups of lifestyle answers that mean the same.
Synonyms == {{"socially", "occasionally", "wine with dinner"},
             {"rarely", "never"},
             {"early bird", "early-ish", "early after shows"},
             {"dog person", "both"},
             {"cat person", "both"},
             {"want someday", "have and open to more"}}

SoftMatch(a, b) == a = b \/ \E group \in Synonyms : {a, b} \subseteq group

Habits == {"exercise", "drinking", "smoking", "diet", "sleep", "pets",
           "children", "religion"}

LifestyleScore(a, b) ==
    LET matching == {h \in Habits : SoftMatch(a.lifestyle[h], b.lifestyle[h])}
        bonus == Points(a.languages \cap b.languages # {}, 8)
    IN  AtMost(Round(100 * Cardinality(matching) + 8 * bonus, 8), 100)

Interests(p) == ToSet(p.interests)

CommonInterests(a, b) == Interests(a) \cap Interests(b)

InterestScore(a, b) ==
    LET j == Jaccard(Interests(a), Interests(b))
    IN  Round(100 * j.n, j.d)

intentNeighbors ==
    [longTerm |-> {"seriousOpen"},
     seriousOpen |-> {"longTerm", "notSure"},
     casual |-> {"newConnections", "notSure"},
     newConnections |-> {"casual", "notSure"},
     notSure |-> {"seriousOpen", "newConnections"}]

RelationshipScore(a, b) ==
    IF a.intent = b.intent THEN 98
    ELSE IF b.intent \in intentNeighbors[a.intent] THEN 78 ELSE 42

commsCompatible ==
    [thoughtful |-> {"slowBurn", "direct"},
     playful |-> {"frequent", "direct"},
     direct |-> {"thoughtful", "playful"},
     slowBurn |-> {"thoughtful"},
     frequent |-> {"playful"}]

CommunicationScore(a, b) ==
    IF a.style = b.style THEN 94
    ELSE IF b.style \in commsCompatible[a.style] THEN 82 ELSE 58

\* Against the distance the viewer set: near, in reach, just out, or far.
LocationScore(current, candidate) ==
    LET reach == current.maxKm
        km == candidate.km
    IN  IF ~ candidate.known THEN 50
        ELSE IF 100 * km <= 35 * reach THEN 96
        ELSE IF km <= reach
             THEN Round(95 * (100 * reach + 1) - 2500 * km, 100 * reach + 1)
        ELSE IF 10 * km <= 14 * reach THEN 62
        ELSE 40

\* The six scores by their weights.
Overall(p, l, i, r, c, o) ==
    Round(25 * p + 20 * l + 20 * i + 20 * r + 10 * c + 5 * o, 100)

Calculate(a, b) ==
    Overall(PersonalityScore(a, b), LifestyleScore(a, b), InterestScore(a, b),
            RelationshipScore(a, b), CommunicationScore(a, b),
            LocationScore(a, b))

----------------------------------------------------------------------------

\* What candidate says in answer to a filter by text.
Said(p, field) == IF field \in Habits THEN p.lifestyle[field] ELSE p[field]

TextFilters == {"education", "occupation", "smoking", "drinking", "children",
                "religion"}

\* A profile from elsewhere never says that it is hidden (Profile.Public), so
\* that filter never applies.  A height of 0 is one that is not given.
PassesFilters(p, f, current) ==
    /\ f.minAge <= p.age /\ p.age <= f.maxAge
    /\ p.km <= f.maxKm
    /\ f.genders # {} => p.gender \in f.genders
    /\ f.intents # {} => p.intent \in f.intents
    /\ f.interests # {} => f.interests \cap Interests(p) # {}
    /\ f.languages # {} => f.languages \cap p.languages # {}
    /\ \A field \in TextFilters :
           f.texts[field] # Blank => f.texts[field] = Said(p, field)
    /\ p.height # 0 => f.minHeight <= p.height /\ p.height <= f.maxHeight
    /\ f.genders = {} /\ current.interestedIn # {} =>
           p.gender \in current.interestedIn

RoughCompleteness(p) ==
    Points(p.photos >= 3, 3) + Points(p.bio > 40, 2)
        + Points(Len(p.prompts) >= 2, 2) + Points(Len(p.interests) >= 4, 2)
        + Points(p.photoVerified, 1)

OnlinePoints == [online |-> 50, recently |-> 30, thisWeek |-> 10, offline |-> 0]

\* In tenths of a point.
RankScore(current, p) ==
    LET far == 1000 - 12 * p.km
    IN  10 * Calculate(current, p)
            + Points(current.intent = p.intent, 60)
            + 14 * Cardinality(CommonInterests(current, p))
            + Points(p.known /\ far > 0, AtMost(far, 120))
            + Points(p.photoVerified, 40) + Points(p.phoneVerified, 20)
            + OnlinePoints[p.online]
            + 8 * RoughCompleteness(p)

MutantBefore(a, b) == a.score > b.score

\* Which of two scored candidates goes first.
Before(a, b) == a.score > b.score \/ (a.score = b.score /\ a.id < b.id)

\* The pool's profiles that pass, in a stable sort.
Recommend(current, pool, f) ==
    LET passing == {i \in DOMAIN pool : PassesFilters(pool[i], f, current)}
        scored == {[at |-> i, id |-> pool[i].id,
                    score |-> RankScore(current, pool[i])] : i \in passing}
        ahead(a, b) == Before(a, b) \/ (a.at < b.at /\ ~ Before(b, a))
    IN  InOrder(scored, {p \in scored \X scored : ahead(p[1], p[2])})

----------------------------------------------------------------------------

\* What a profile still needs, in the order of the tips.
Missing(p) ==
    SelectSeq(<<"basics", "photos", "bio", "prompts", "interests", "verified">>,
        LAMBDA tip :
            CASE tip = "basics" -> Blank \in {p.first, p.occupation, p.education}
              [] tip = "photos" -> p.photos < 4
              [] tip = "bio" -> p.bio < 40
              [] tip = "prompts" -> Len(p.prompts) < 3
              [] tip = "interests" -> Len(p.interests) < 6
              [] tip = "verified" -> ~ p.photoVerified /\ ~ p.phoneVerified)

\* The percentage, from twelfths: whether the basics are there, how many
\* photos, the length of the bio, how many prompts and interests, and whether
\* anything is verified.
Percent(basics, photos, bio, prompts, interests, verified) ==
    Round(Points(basics, 240) + 75 * AtMost(photos, 4)
              + (IF bio >= 40 THEN 180 ELSE 72)
              + 60 * AtMost(prompts, 3) + 20 * AtMost(interests, 6)
              + 120 + Points(verified, 60), 12)

EvaluateCompletion(p) ==
    [percent |-> Percent(Blank \notin {p.first, p.occupation, p.education},
                         p.photos, p.bio, Len(p.prompts), Len(p.interests),
                         p.photoVerified \/ p.phoneVerified),
     tips |-> Capped(Missing(p), 3)]

----------------------------------------------------------------------------

\* The openers of each interest: <<interest, tone>>.
sharedTemplates ==
    <<<<"Travel", "shared">>, <<"Travel", "playful">>, <<"LiveMusic", "shared">>,
      <<"Concerts", "opener">>, <<"Food", "playful">>, <<"Cooking", "sincere">>,
      <<"Hiking", "playful">>, <<"Books", "playful">>, <<"Books", "deeper">>,
      <<"Photography", "sincere">>, <<"Coffee", "opener">>,
      <<"Art", "sincere">>, <<"Movies", "playful">>, <<"Fitness", "playful">>>>

\* A plain question where nothing is shared.
FromShared(shared) ==
    LET written == Kept(sharedTemplates,
                        {i \in DOMAIN sharedTemplates :
                            sharedTemplates[i][1] \in shared})
    IN  IF written = <<>> THEN <<<<"start", "opener">>>> ELSE written

FromPrompts(other) ==
    IF other.prompts = <<>> THEN <<>>
    ELSE <<<<"prompt", "sincere">>, <<"prompt", "opener">>>>

\* Everything there is to say.  The code lists the shared interests in the
\* order of the viewer's list.
Openers(current, other) ==
    FromShared(CommonInterests(current, other))
        \o FromPrompts(other)
        \o (IF other.occupation = Blank THEN <<>>
            ELSE <<<<"occupation", "deeper">>>>)
        \o <<<<"intent", "deeper">>>>

\* The openers of a tone.
OfTone(items, tone) == Kept(items, {i \in DOMAIN items : items[i][2] = tone})

MutantSuggested(items, tone) ==
    IF tone = Blank THEN Capped(items, 6) ELSE OfTone(items, tone)

\* A tone that has no opener falls back on the first three.
Suggested(items, tone) ==
    LET fitting == OfTone(items, tone)
    IN  IF tone = Blank THEN Capped(items, 6)
        ELSE IF fitting = <<>> THEN Capped(items, 3)
        ELSE fitting

SuggestionsFor(current, other, tone) == Suggested(Openers(current, other), tone)
=============================================================================

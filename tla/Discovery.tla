----------------------------- MODULE Discovery -----------------------------
(***************************************************************************)
(* internal/discovery, and the reads of internal/profile it rests on: the  *)
(* feed, the daily picks, search, and the openers of a pair, over profiles *)
(* that are saved, people who come and go, and what they decide about each *)
(* other.  Each of these reads is one state here: the code takes several   *)
(* statements, and may mix columns and lists of two moments.               *)
(***************************************************************************)
EXTENDS Profiles

CONSTANTS
    PoolSize,   \* candidatePool
    Km,         \* the distance between two places
    Filters,    \* the filters a client may send
    PhotosOf    \* how many photos each account has

ASSUME DiscoveryAssumption ==
    /\ Users \subseteq Nat     \* the order of the ids
    /\ IsFiniteSet(Users)
    /\ PoolSize \in Nat \ {0}
    /\ Km \in [Places \X Places -> Nat]

VARIABLES
    recent,   \* <<u, v>>: the last_active_at of u is later than that of v
    online,   \* what that says of each of them
    met       \* history: <<viewer, person>> of the feeds and picks looked at

discoveryVars == <<vars, profileVars, recent, online, met>>

Buckets == <<"online", "recently", "thisWeek", "offline">>

ById == {p \in Users \X Users : p[1] < p[2]}

DiscoveryInit ==
    /\ ProfilesInit
    /\ recent = ById
    /\ online = [u \in Users |-> "online"]
    /\ met = {}

Onboarded(u) == profiles[u] # NoProfile

\* Every request for the own profile records activity (Touch).
Touch(u) ==
    /\ Onboarded(u)
    /\ recent' = {p \in Users \X Users :
                      p[2] # u /\ (p[1] = u \/ p \in recent)}
    /\ online' = [online EXCEPT ![u] = Buckets[1]]
    /\ UNCHANGED <<vars, profileVars, met>>

\* Time passes: whoever was active last keeps a status at least as good.
Fade(u) ==
    \E b \in 1..3 :
        /\ online[u] = Buckets[b]
        /\ \A v \in Users \ {u} :
               online[v] = Buckets[b] => <<v, u>> \in recent
        /\ online' = [online EXCEPT ![u] = Buckets[b + 1]]
        /\ UNCHANGED <<vars, profileVars, recent, met>>

----------------------------------------------------------------------------

Incognito == {v \in Users : Onboarded(v) /\ profiles[v].incognito}

\* A profile as the viewer's query and enrich assemble it.
Assembled(u, v) ==
    LET row == profiles[v]
        here == profiles[u].place
        there == row.place
        known == here # Nowhere /\ there # Nowhere
        answered == Of(v, "answers")
    IN  [id |-> v, first |-> row.first, gender |-> row.gender, age |-> row.age,
         occupation |-> row.occupation, education |-> row.education,
         bio |-> row.bio, interests |-> row.interests, intent |-> row.intent,
         style |-> row.style, traits |-> row.traits,
         languages |-> row.languages, lifestyle |-> row.lifestyle,
         height |-> row.height, interestedIn |-> row.interestedIn,
         maxKm |-> row.maxKm, photoVerified |-> row.photoVerified,
         phoneVerified |-> row.phoneVerified,
         known |-> known, km |-> IF known THEN Km[<<here, there>>] ELSE 0,
         photos |-> PhotosOf[v], online |-> online[v],
         prompts |-> [k \in 1..Cardinality(Of(v, "prompts")) |-> k],
         answers |-> [q \in {e.key : e \in answered} |->
                         (CHOOSE e \in answered : e.key = q).by]]

\* The rows of a query: the first PoolSize, in the given order, of the people
\* it allows.
Pool(u, allowed, order) ==
    LET found == InOrder({v \in allowed : Onboarded(v)}, order)
    IN  Capped([k \in DOMAIN found |-> Assembled(u, found[k])], PoolSize)

DefaultFilters ==
    [minAge |-> 21, maxAge |-> 40, maxKm |-> 40, genders |-> {},
     intents |-> {}, interests |-> {}, languages |-> {},
     texts |-> [t \in TextFilters |-> Blank],
     minHeight |-> 0, maxHeight |-> 260]

MutantWideFilters(u) ==
    [DefaultFilters EXCEPT !.minAge = 18, !.maxAge = 120,
                           !.genders = profiles[u].interestedIn]

\* Whoever is looked for by name may be of any age and anywhere.
WideFilters(u) ==
    [DefaultFilters EXCEPT !.minAge = 18, !.maxAge = 120, !.maxKm = 20000,
                           !.genders = profiles[u].interestedIn]

Ids(ranked) == [k \in DOMAIN ranked |-> ranked[k].id]

FeedBy(order, u, f) ==
    Ids(Recommend(Assembled(u, u),
                  Pool(u, FeedCandidates(Incognito, u), order), f))

Feed(u, f) == FeedBy(recent, u, f)

DailyPicks(u) == Capped(Feed(u, DefaultFilters), 5)

\* Whom a search by text looks among.
Searched(u) == Visible(Incognito, u)

\* A search that the texts of the accounts in matching satisfy.
Search(u, matching) ==
    Ids(Recommend(Assembled(u, u), Pool(u, Searched(u) \cap matching, recent),
                  WideFilters(u)))

\* A viewer looks at the feed or at the daily picks.
Look(u) ==
    /\ Onboarded(u)
    /\ \E shown \in {Feed(u, f) : f \in Filters} \cup {DailyPicks(u)} :
           met' = met \cup {<<u, v>> : v \in ToSet(shown)}
    /\ UNCHANGED <<vars, profileVars, recent, online>>

DiscoveryNext ==
    \/ \E r \in Requests : SaveNext(r) /\ UNCHANGED <<recent, online, met>>
    \/ \E u \in Users : Touch(u) \/ Fade(u) \/ Look(u)
    \/ SocialNext /\ UNCHANGED <<profileVars, recent, online, met>>
    \/ /\ \E u, v \in Users : Block(u, v)
       /\ UNCHANGED <<profileVars, recent, online, met>>

DiscoverySpec == DiscoveryInit /\ [][DiscoveryNext]_discoveryVars

----------------------------------------------------------------------------

\* "a deterministic order across requests": a feed whose pool holds everyone
\* is what it would be had people been active in the order of their ids.
RankingSettled ==
    \A u \in {w \in Users : Onboarded(w)}, f \in Filters :
        Cardinality(FeedCandidates(Incognito, u)) <= PoolSize
        => Feed(u, f) = FeedBy(ById, u, f)

\* Search does not report that no such person exists about someone it
\* introduced you to: whoever was in the viewer's feed is found by name,
\* whatever the viewer has decided since, while they may be seen at all, are
\* of a gender the viewer asked for, and are within what a search leaves open.
IntroducedAreFindable ==
    \A m \in met :
        LET u == m[1]
            v == m[2]
            asked == profiles[u].interestedIn
        IN  /\ v \in Visible(Incognito, u)
            /\ asked # {} => profiles[v].gender \in asked
            /\ profiles[v].age <= 120
            /\ Assembled(u, v).km <= 20000
            => v \in ToSet(Search(u, {v}))

\* "an empty list reads as a broken screen": there is an opener for every
\* pair and tone, and never more than six, although only the list for no tone
\* is cut.
OpenersFit ==
    \A u \in {w \in Users : Onboarded(w)} :
    \A v \in {w \in Users : Onboarded(w) /\ w # u} :
        LET items == Openers(Assembled(u, u), Assembled(u, v))
        IN  \A tone \in Tones \cup {Blank} : Len(Suggested(items, tone)) \in 1..6
=============================================================================

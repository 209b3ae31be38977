----------------------------- MODULE MCDiscovery -----------------------------
(***************************************************************************)
(* An instance of Discovery for TLC: account 1 looks, account 2 saves, and   *)
(* account 3 joins with a profile like that of account 2.                  *)
(***************************************************************************)
EXTENDS Discovery, TLC

CONSTANTS near, afar

MCUsers == 1..3
MCKm == [pair \in Places \X Places |-> IF pair[1] = pair[2] THEN 0 ELSE 60]
MCPhotosOf == [u \in Users |-> 3]

\* The six that have a playful opener, and one without any.
Everything == <<"Travel", "Books", "Food", "Hiking", "Movies", "Fitness",
                "Chess">>

Person(gender) ==
    [Unset EXCEPT !.first = "A", !.gender = gender, !.age = 30,
                  !.interests = Everything]

Onboarding == [first |-> "A", age |-> 30, gender |-> "woman",
               interests |-> Everything]

MCSubmissions ==
    {[user |-> 3, create |-> TRUE, patch |-> Onboarding],
     [user |-> 2, create |-> FALSE,
      patch |-> [incognito |-> TRUE, answers |-> <<2>>]],
     [user |-> 2, create |-> FALSE,
      patch |-> [prompts |-> <<7, 8>>, answers |-> <<1>>]],
     [user |-> 2, create |-> FALSE,
      patch |-> [place |-> near, interests |-> <<"Books", "", "Books">>,
                 prompts |-> <<7>>, answers |-> <<1>>]],
     [user |-> 1, create |-> FALSE,
      patch |-> [interestedIn |-> {"man"}, place |-> afar]]}

MCFilters == {DefaultFilters}

MCInit ==
    /\ profiles = [u \in Users |-> CASE u = 1 -> Person("woman")
                                     [] u = 2 -> Person("man")
                                     [] u = 3 -> NoProfile]
    /\ DiscoveryInit

Symmetry == Permutations(Requests)

\* Account 1 is the one who looks and decides, about one person at a time; the
\* others may like back.  Of three things one goes on at a time: saves, people
\* who come and go, and decisions.
OneViewer ==
    LET saving == {r \in Requests : InFlight(r)}
        activity == \/ recent # ById
                    \/ \E u \in Users : online[u] # Buckets[1]
        decisions == likes \cup passes \cup blocks # {} \/ matches # {}
    IN  /\ Cardinality(likes \cup passes \cup blocks) <= 1
        /\ \A e \in passes \cup blocks : e[1] = 1
        /\ \A e \in likes : 1 \in {e[1], e[2]}
        /\ \A m \in met : m[1] = 1
        /\ Cardinality({u \in Users : online[u] # Buckets[1]}) <= 1
        /\ saving # {} => ~ activity /\ ~ decisions
        /\ Cardinality(saving) > 1 => met = {}
        /\ \A r, s \in saving : saves[r].user = saves[s].user
        /\ ~ activity \/ ~ decisions
        /\ activity => met = {} /\ \E r \in Requests : saves[r] = NoSave

\* No step leaves that frame.
MCSpec == MCInit /\ [][DiscoveryNext /\ OneViewer']_discoveryVars
=============================================================================

----------------------------- MODULE Visibility -----------------------------
(***************************************************************************)
(* internal/profile/query.go and the surfaces of internal/discovery, social *)
(* and safety that show people: who is shown to whom.  The incognito       *)
(* switch is read by these queries and by nothing else, so they take the   *)
(* set of incognito accounts as a parameter.  Ranking, text matching and   *)
(* filters only take people away from these sets.                          *)
(***************************************************************************)
EXTENDS Velora

MutantIncognitoVisible(incognito, u, v) ==
    v \notin incognito \/ <<v, u>> \in likes

\* Browsing incognito hides a person from all but those they reached out to.
IncognitoVisible(incognito, u, v) ==
    \/ v \notin incognito
    \/ <<v, u>> \in likes
    \/ Pair(u, v) \in matches

\* visibleWhere: the permission rules of every read of another's profile.
Visible(incognito, u) ==
    {v \in Users \ {u} :
        /\ v \notin hidden
        /\ IncognitoVisible(incognito, u, v)
        /\ Active(v)
        /\ ~ Blocked(Pair(u, v))}

\* candidateWhere: those the viewer has not decided about.  The feed, the
\* daily picks and an empty search show these; a search by text and a single
\* profile show anyone visible.
FeedCandidates(incognito, u) ==
    {v \in Visible(incognito, u) :
        /\ <<u, v>> \notin passes
        /\ <<u, v>> \notin likes
        /\ Pair(u, v) \notin matches}

\* LoadMany: the people behind the ids that a screen holds.
LoadMany(incognito, u, ids) == ids \cap (Visible(incognito, u) \cup {u})

\* The ids on the likes and the matches screens.
Likes(u) == {v \in Users : <<v, u>> \in likes}

Matches(u) == {v \in Users \ {u} : Pair(u, v) \in matches}

----------------------------------------------------------------------------

\* "hiding from someone you liked would make the like unanswerable": whoever
\* is on the likes or the matches screen can be looked at there, incognito or
\* not, unless they hid their profile or lost their account.  No like and no
\* match outlives a block, and a match stands in for the likes it consumed.
ReachedOutIsVisible ==
    \A incognito \in SUBSET Users, u \in Users :
        LET shown == Likes(u) \cup Matches(u)
        IN  LoadMany(incognito, u, shown)
                = {v \in shown : v \notin hidden /\ Active(v)}

\* "passing on someone has to mean they stop coming back around": ending a
\* match, by an unmatch or by a block, puts neither of the two back into the
\* feed of the other.
EndedMatchStaysOut ==
    [][\A u, v \in Users :
          Pair(u, v) \in matches /\ Pair(u, v) \notin matches' =>
              v \notin FeedCandidates({}, u)']_vars
=============================================================================

------------------------------ MODULE Profiles ------------------------------
(***************************************************************************)
(* internal/profile, writing: POST /me/onboarding and PATCH /me, statement *)
(* by statement.  A save updates the columns it names in one statement,    *)
(* which locks the profile's row, and replaces its prompts and its answers *)
(* by a DELETE and INSERTs.  At READ COMMITTED a DELETE sees the rows that *)
(* were committed when it began: it waits for whoever is deleting one of   *)
(* them, and misses those that were inserted while it waited.  The list of *)
(* photos, which is reconciled after the commit, is Photos.                *)
(***************************************************************************)
EXTENDS Visibility, Compat

CONSTANTS
    Requests,      \* the saves, each made once
    Submissions,   \* what a save may carry: [user, create, patch]
    Places,        \* coordinates
    Nowhere        \* a profile without coordinates

\* What the decoder makes of a body: lists are finite and have a first element
\* unless they are empty, and an age is a number.
ASSUME SubmissionsAssumption ==
    \A in \in Submissions :
        /\ in.user \in Users
        /\ "prompts" \in DOMAIN in.patch => in.patch.prompts \in Seq(Nat)
        /\ "answers" \in DOMAIN in.patch => in.patch.answers \in Seq(Nat)
        /\ "interests" \in DOMAIN in.patch =>
               in.patch.interests \in Seq(STRING)
        /\ "traits" \in DOMAIN in.patch => IsFiniteSet(in.patch.traits)
        /\ "age" \in DOMAIN in.patch => in.patch.age \in Int

VARIABLES
    profiles,   \* the columns of each profile, or NoProfile
    entries,    \* rows of profile_prompts and personality_answers
    saves       \* the saves

profileVars == <<profiles, entries, saves>>

\* A patch is a record of the fields it names, with these limits.
MaxInterests == 30
MaxTraits == 20
MaxLanguages == 15
MaxPrompts == 6
MaxAnswers == 20

Lists == {"prompts", "answers"}

Has(patch, field) == field \in DOMAIN patch

Columns(patch) == DOMAIN patch \ Lists

Within(patch, field, values) == Has(patch, field) => patch[field] \in values

\* A list with at most n elements, each of them not blank.
ShortList(patch, field, n) ==
    Has(patch, field) => Len(patch[field]) <= n /\ 0 \notin ToSet(patch[field])

\* Patch.validate.  Prompts and answers are the numbers of their questions; a
\* blank question has number 0.
Valid(patch) ==
    /\ Has(patch, "first") => patch.first # Blank
    /\ Within(patch, "gender", Genders)
    /\ Within(patch, "intent", Intents)
    /\ Within(patch, "style", Styles)
    /\ Within(patch, "interestedIn", SUBSET Genders)
    /\ Within(patch, "place", Places)
    /\ Within(patch, "height", 90..260)
    /\ Within(patch, "maxKm", 1..500)
    /\ Within(patch, "minAge", 18..120) /\ Within(patch, "maxAge", 18..120)
    /\ Has(patch, "minAge") /\ Has(patch, "maxAge") =>
           patch.minAge <= patch.maxAge
    /\ Has(patch, "interests") => Len(patch.interests) <= MaxInterests
    /\ Has(patch, "traits") => Cardinality(patch.traits) <= MaxTraits
    /\ Has(patch, "languages") => Cardinality(patch.languages) <= MaxLanguages
    /\ ShortList(patch, "prompts", MaxPrompts)
    /\ ShortList(patch, "answers", MaxAnswers)
    /\ Has(patch, "answers") => IsInjective(patch.answers)

\* Blanks and repetitions are dropped from a list of tags.
Cleaned(tags) ==
    LET first(k) == tags[k] # Blank /\ \A j \in 1..(k - 1) : tags[j] # tags[k]
    IN  Kept(tags, {k \in DOMAIN tags : first(k)})

NoProfile == [first |-> Blank]

\* The columns' defaults.
Unset ==
    [first |-> Blank, gender |-> "other", age |-> 18, occupation |-> Blank,
     education |-> Blank, bio |-> 0, interests |-> <<>>, intent |-> "notSure",
     style |-> "thoughtful", traits |-> {}, languages |-> {},
     lifestyle |-> [h \in Habits |-> Blank], height |-> 0, interestedIn |-> {},
     minAge |-> 21, maxAge |-> 40, maxKm |-> 40, place |-> Nowhere,
     photoVerified |-> FALSE, phoneVerified |-> FALSE, incognito |-> FALSE]

\* A row that the constraints of the table and Valid have let in.
ValidRow(row) ==
    /\ DOMAIN row = DOMAIN Unset
    /\ row.age \in Int /\ row.age >= 18
    /\ row.height \in {0} \cup 90..260
    /\ row.maxKm \in 1..500
    /\ row.place \in Places \cup {Nowhere}
    /\ IsFiniteSet(row.traits)
    /\ IsFiniteSet(DOMAIN row.interests)

\* The row once the columns of patch are set.
Updated(row, patch) ==
    [f \in DOMAIN Unset |->
        CASE f = "interests" /\ Has(patch, f) -> Cleaned(patch[f])
          [] f # "interests" /\ Has(patch, f) -> patch[f]
          [] OTHER -> IF row = NoProfile THEN Unset[f] ELSE row[f]]

----------------------------------------------------------------------------

\* A row of either table: its key is the position of a prompt or the question
\* of an answer; row says which save inserted it, by which one wrote it last.
Same(d, e) ==
    d.user = e.user /\ d.list = e.list /\ d.key = e.key /\ d.row = e.row

Keys(r, list) ==
    LET patch == saves[r].patch
    IN  IF list = "prompts" THEN DOMAIN patch.prompts ELSE ToSet(patch.answers)

Of(u, list) == {e \in entries : e.user = u /\ e.list = list}

\* The statements of a save, in their order.
Statements(patch) ==
    LET replace(list) == IF Has(patch, list)
                         THEN <<<<"see", list>>, <<"drop", list>>, <<"add", list>>>>
                         ELSE <<>>
    IN  (IF Columns(patch) = {} THEN <<>> ELSE <<<<"row", "columns">>>>)
            \o replace("prompts") \o replace("answers")

InFlight(r) == saves[r].stage = "begun"

Others(r) == {s \in Requests \ {r} :
                 InFlight(s) /\ saves[s].user = saves[r].user}

At(r, statement) ==
    /\ InFlight(r)
    /\ saves[r].todo # <<>>
    /\ Head(saves[r].todo) = statement

Step(r, save) == saves' = [saves EXCEPT ![r] = [save EXCEPT !.todo = Tail(@)]]

\* Create or Update up to its transaction: the patch is valid, and an update
\* has found the profile.
Submit(r, in) ==
    /\ saves[r].stage = "none"
    /\ Valid(in.patch)
    /\ IF in.create THEN {"first", "age", "gender"} \subseteq DOMAIN in.patch
                    ELSE profiles[in.user] # NoProfile
    /\ saves' = [saves EXCEPT ![r] =
           [stage |-> "begun", user |-> in.user, patch |-> in.patch,
            todo |-> Statements(in.patch), seen |-> {}, gone |-> {},
            added |-> {}]]
    /\ UNCHANGED <<vars, profiles, entries>>

\* Whoever updated the row holds it to the end of the transaction.
HoldsRow(s) ==
    /\ Columns(saves[s].patch) # {}
    /\ ~ At(s, <<"row", "columns">>)

MutantRowFree(r) == TRUE

RowFree(r) == \A s \in Others(r) : ~ HoldsRow(s)

\* The table refuses whoever is not of age.
WriteRow(r) ==
    /\ At(r, <<"row", "columns">>)
    /\ RowFree(r)
    /\ Has(saves[r].patch, "age") => saves[r].patch.age >= 18
    /\ Step(r, saves[r])
    /\ UNCHANGED <<vars, profiles, entries>>

\* The DELETE begins: these are the rows it will ever look at.
See(r, list) ==
    /\ At(r, <<"see", list>>)
    /\ Step(r, [saves[r] EXCEPT !.seen = Of(saves[r].user, list)])
    /\ UNCHANGED <<vars, profiles, entries>>

\* The DELETE ends, once nobody else is changing one of them.
Drop(r, list) ==
    LET old == {e \in entries : \E d \in saves[r].seen : Same(d, e)}
    IN  /\ At(r, <<"drop", list>>)
        /\ \A s \in Others(r) : saves[s].gone \cap old = {}
        /\ Step(r, [saves[r] EXCEPT !.gone = @ \cup old])
        /\ UNCHANGED <<vars, profiles, entries>>

\* The committed rows in the way of the rows r inserts.
Clashes(r, list) ==
    {e \in Of(saves[r].user, list) \ saves[r].gone : e.key \in Keys(r, list)}

\* A key that somebody else has inserted or is deleting makes r wait.
KeysFree(r, list) ==
    \A s \in Others(r) : \A e \in saves[s].added \cup saves[s].gone :
        e.list = list => e.key \notin Keys(r, list)

NewEntries(r, list) ==
    {[user |-> saves[r].user, list |-> list, key |-> k, row |-> r, by |-> r] :
        k \in Keys(r, list)}

\* A position that is taken is an error (unique (user_id, position)).
AddPrompts(r) ==
    /\ At(r, <<"add", "prompts">>)
    /\ KeysFree(r, "prompts")
    /\ Clashes(r, "prompts") = {}
    /\ Step(r, [saves[r] EXCEPT !.added = @ \cup NewEntries(r, "prompts")])
    /\ UNCHANGED <<vars, profiles, entries>>

\* A question that is answered already is overwritten (on conflict do update).
AddAnswers(r) ==
    LET old == Clashes(r, "answers")
        free == {e \in NewEntries(r, "answers") : \A d \in old : d.key # e.key}
        overwritten == {[d EXCEPT !.by = r] : d \in old}
    IN  /\ At(r, <<"add", "answers">>)
        /\ KeysFree(r, "answers")
        /\ Step(r, [saves[r] EXCEPT !.gone = @ \cup old,
                                    !.added = @ \cup free \cup overwritten])
        /\ UNCHANGED <<vars, profiles, entries>>

\* Only now do others see any of it.
Commit(r) ==
    LET u == saves[r].user
        patch == saves[r].patch
    IN  /\ InFlight(r)
        /\ saves[r].todo = <<>>
        /\ profiles' = IF Columns(patch) = {} THEN profiles
                       ELSE [profiles EXCEPT ![u] = Updated(@, patch)]
        /\ hidden' = IF ~ Has(patch, "hidden") THEN hidden
                     ELSE IF patch.hidden THEN hidden \cup {u} ELSE hidden \ {u}
        /\ entries' = (entries \ saves[r].gone) \cup saves[r].added
        /\ saves' = [saves EXCEPT ![r] = [stage |-> "saved", patch |-> patch]]
        /\ UNCHANGED <<status, blocks, waiting, unseen, socialVars, threadVars>>

\* An error, a refused row, a deadlock that PostgreSQL breaks, or a lost
\* client: the transaction is rolled back.
Fail(r) ==
    /\ InFlight(r)
    /\ saves' = [saves EXCEPT ![r] = [stage |-> "failed"]]
    /\ UNCHANGED <<vars, profiles, entries>>

SaveNext(r) ==
    \/ \E in \in Submissions : Submit(r, in)
    \/ WriteRow(r)
    \/ \E list \in Lists : See(r, list) \/ Drop(r, list)
    \/ AddPrompts(r)
    \/ AddAnswers(r)
    \/ Commit(r)
    \/ Fail(r)

NoSave == [stage |-> "none"]

ProfilesInit ==
    /\ Init
    /\ matches = {}
    /\ DOMAIN profiles = Users
    /\ \A u \in Users : profiles[u] = NoProfile \/ ValidRow(profiles[u])
    /\ entries = {}
    /\ saves = [r \in Requests |-> NoSave]

----------------------------------------------------------------------------

\* What a profile lists comes from one save: a list of prompts is one that
\* somebody sent, whole, and answers of two saves stand beside each other only
\* if one of the two named no column, and so took no lock.
ListsFromOneSave ==
    \A u \in Users :
        /\ \A d \in Of(u, "prompts") :
               /\ \A e \in Of(u, "prompts") : d.by = e.by
               /\ {e.key : e \in Of(u, "prompts")} = Keys(d.by, "prompts")
        /\ \A d, e \in Of(u, "answers") :
               d.by # e.by => \E r \in {d.by, e.by} :
                                  Columns(saves[r].patch) = {}
=============================================================================

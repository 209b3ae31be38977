------------------------------ MODULE Accounts ------------------------------
(***************************************************************************)
(* internal/auth: registration and sign-in, by password and with Google.   *)
(* Each request is a READ COMMITTED transaction of statements; its writes  *)
(* become visible when it commits, and until then it holds the keys it has *)
(* inserted.  A lock is not a variable: who holds it follows from how far  *)
(* the requests are.                                                       *)
(***************************************************************************)
CONSTANTS
    Requests,   \* concurrent requests
    Emails,     \* addresses
    Subjects,   \* Google subjects
    Users,      \* account ids
    None

ASSUME AccountsAssumption == None \notin Users \cup Emails \cup Subjects

VARIABLES
    googleOnly,  \* GOOGLE_ONLY_AUTH, which never changes
    status,      \* users
    google,      \* auth_identities by subject
    email,       \* auth_identities by address
    sessions,    \* methods of an account's unrevoked refresh tokens
    req,         \* what each request has done
    claim        \* history: the address an account was created for

accountVars == <<googleOnly, status, google, email, sessions, req, claim>>

Identity == [user : Users \cup {None}, password : BOOLEAN]

NoIdentity == [user |-> None, password |-> FALSE]

Request == [pc : {"idle", "free", "registered", "matched", "subject", "email",
                  "known", "unknown", "creating", "linking", "claimed"},
            email : Emails \cup {None}, subject : Subjects \cup {None},
            user : Users \cup {None}, linked : BOOLEAN]

Begun(pc, e, s, u) ==
    [pc |-> pc, email |-> e, subject |-> s, user |-> u, linked |-> FALSE]

NoRequest == Begun("idle", None, None, None)

AccountsTypeOK ==
    /\ googleOnly \in BOOLEAN
    /\ status \in [Users -> {"none", "active", "suspended"}]
    /\ google \in [Subjects -> Users \cup {None}]
    /\ email \in [Emails -> Identity]
    /\ sessions \in [Users -> SUBSET {"email", "google"}]
    /\ req \in [Requests -> Request]
    /\ claim \in [Users -> Emails \cup {None}]
    /\ \A e \in Emails : email[e].password => email[e].user # None
    /\ \A u \in Users : status[u] = "none" => sessions[u] = {}

\* The accounts that exist were made with a password, before Google sign-in.
AccountsInit ==
    /\ googleOnly \in BOOLEAN
    /\ status \in [Users -> {"none", "active", "suspended"}]
    /\ google = [s \in Subjects |-> None]
    /\ email \in [Emails -> {NoIdentity} \cup [user : Users, password : {TRUE}]]
    /\ \A u \in Users :
          status[u] = "none" <=> \A e \in Emails : email[e].user # u
    /\ \A e, f \in Emails :
          email[e].user = email[f].user /\ email[e].user # None => e = f
    /\ sessions = [u \in Users |-> IF status[u] = "none" THEN {} ELSE {"email"}]
    /\ req = [c \in Requests |-> NoRequest]
    /\ claim = [u \in Users |-> IF status[u] = "none" THEN None
                                ELSE CHOOSE e \in Emails : email[e].user = u]

----------------------------------------------------------------------------

Linked(u) == \E s \in Subjects : google[s] = u

Step(c, pc) == req' = [req EXCEPT ![c].pc = pc]

\* The transaction is over, committed or not, and holds nothing any more.
End(c) == req' = [req EXCEPT ![c] = NoRequest]

\* uuid.New(): no other transaction has it either.
Fresh(u) == status[u] = "none" /\ \A c \in Requests : req[c].user # u

\* Who holds the key of an address in auth_identities, the two advisory locks
\* of a Google sign-in, and the row of an account.
KeyHeld(e) ==
    \E c \in Requests :
        req[c].email = e /\ req[c].pc \in {"registered", "claimed"}

SubjectHeld(s) == \E c \in Requests : req[c].subject = s /\ req[c].pc # "idle"

EmailHeld(e) ==
    \E c \in Requests :
        /\ req[c].email = e
        /\ req[c].pc \in {"email", "known", "unknown", "creating", "linking",
                           "claimed"}

\* Bug: the account behind an address is read without `for update'.
MutantUserHeld(u) == FALSE

UserHeld(u) == \E c \in Requests : req[c].user = u /\ req[c].linked

----------------------------------------------------------------------------

\* Registration must not adopt an identity: an address with a row is taken.
Register(c, e) ==
    /\ ~ googleOnly
    /\ req[c].pc = "idle"
    /\ email[e].user = None
    /\ req' = [req EXCEPT ![c] = Begun("free", e, None, None)]
    /\ UNCHANGED <<googleOnly, status, google, email, sessions, claim>>

\* The insert waits for whoever holds the key and then fails if it is there.
RegisterInsert(c) ==
    /\ req[c].pc = "free"
    /\ IF email[req[c].email].user # None THEN End(c)
       ELSE /\ ~ KeyHeld(req[c].email)
            /\ \E u \in Users :
                  /\ Fresh(u)
                  /\ req' = [req EXCEPT ![c].pc = "registered", ![c].user = u]
    /\ UNCHANGED <<googleOnly, status, google, email, sessions, claim>>

RegisterCommit(c) ==
    LET e == req[c].email
        u == req[c].user
    IN  /\ req[c].pc = "registered"
        /\ status' = [status EXCEPT ![u] = "active"]
        /\ email' = [email EXCEPT ![e] = [user |-> u, password |-> TRUE]]
        /\ sessions' = [sessions EXCEPT ![u] = {"email"}]
        /\ claim' = [claim EXCEPT ![u] = e]
        /\ End(c)
        /\ UNCHANGED <<googleOnly, google>>

\* Login with the right password: the check, then a transaction that issues.
Login(c, e) ==
    /\ ~ googleOnly
    /\ req[c].pc = "idle"
    /\ email[e].password
    /\ status[email[e].user] = "active"
    /\ req' = [req EXCEPT ![c] = Begun("matched", e, None, email[e].user)]
    /\ UNCHANGED <<googleOnly, status, google, email, sessions, claim>>

LoginCommit(c) ==
    /\ req[c].pc = "matched"
    /\ sessions' = [sessions EXCEPT ![req[c].user] = @ \cup {"email"}]
    /\ End(c)
    /\ UNCHANGED <<googleOnly, status, google, email, claim>>

----------------------------------------------------------------------------

\* signInGoogleIdentity takes the lock of the subject and then of the address.
LockSubject(c, s, e) ==
    /\ req[c].pc = "idle"
    /\ ~ SubjectHeld(s)
    /\ req' = [req EXCEPT ![c] = Begun("subject", e, s, None)]
    /\ UNCHANGED <<googleOnly, status, google, email, sessions, claim>>

\* Bug: a Google sign-in locks its subject only.
MutantLockEmail(c) ==
    /\ req[c].pc = "subject"
    /\ Step(c, "email")
    /\ UNCHANGED <<googleOnly, status, google, email, sessions, claim>>

LockEmail(c) ==
    /\ req[c].pc = "subject"
    /\ ~ EmailHeld(req[c].email)
    /\ Step(c, "email")
    /\ UNCHANGED <<googleOnly, status, google, email, sessions, claim>>

\* The user is looked up by the Google subject, not by the address.
FindSubject(c) ==
    LET u == google[req[c].subject]
    IN  /\ req[c].pc = "email"
        /\ \/ u = None /\ Step(c, "unknown")
           \/ u # None /\ status[u] = "active"
              /\ req' = [req EXCEPT ![c].pc = "known", ![c].user = u]
           \/ u # None /\ status[u] # "active" /\ End(c)
        /\ UNCHANGED <<googleOnly, status, google, email, sessions, claim>>

\* Only Google-authoritative ownership of an address can migrate an account,
\* and never one that has a Google subject.
MayLink(u, authoritative) ==
    status[u] = "active" /\ googleOnly /\ authoritative /\ ~ Linked(u)

\* The account behind the address is read `for update'.
FindEmail(c, authoritative) ==
    LET u == email[req[c].email].user
    IN  /\ req[c].pc = "unknown"
        /\ \/ /\ u = None
              /\ \E v \in Users :
                    /\ Fresh(v)
                    /\ req' = [req EXCEPT ![c].pc = "creating", ![c].user = v]
           \/ /\ u # None /\ MayLink(u, authoritative)
              /\ ~ UserHeld(u)
              /\ req' = [req EXCEPT ![c].pc = "linking", ![c].user = u,
                                      ![c].linked = TRUE]
           \/ /\ u # None /\ ~ MayLink(u, authoritative)
              /\ ~ UserHeld(u)
              /\ End(c)
        /\ UNCHANGED <<googleOnly, status, google, email, sessions, claim>>

\* The upsert of the address waits for whoever holds its key.
ClaimEmail(c) ==
    /\ req[c].pc \in {"creating", "linking"}
    /\ ~ KeyHeld(req[c].email)
    /\ Step(c, "claimed")
    /\ UNCHANGED <<googleOnly, status, google, email, sessions, claim>>

\* On conflict the row keeps its user and loses its password.
Upserted(row, u) ==
    [user |-> IF row.user = None THEN u ELSE row.user, password |-> FALSE]

\* Bug: linking leaves the refresh tokens that the account had.
MutantIssued(c) == sessions[req[c].user] \cup {"google"}

\* Linking has revoked the refresh tokens the account had.
Issued(c) ==
    IF req[c].linked THEN {"google"} ELSE sessions[req[c].user] \cup {"google"}

GoogleCommit(c) ==
    LET e == req[c].email
        u == req[c].user
    IN  /\ req[c].pc = "claimed"
        /\ status' = [status EXCEPT ![u] = "active"]
        /\ google' = [google EXCEPT ![req[c].subject] = u]
        /\ email' = [email EXCEPT ![e] = Upserted(@, u)]
        /\ sessions' = [sessions EXCEPT ![u] = Issued(c)]
        /\ claim' = [claim EXCEPT ![u] = IF req[c].linked THEN @ ELSE e]
        /\ End(c)
        /\ UNCHANGED googleOnly

KnownCommit(c) ==
    /\ req[c].pc = "known"
    /\ sessions' = [sessions EXCEPT ![req[c].user] = Issued(c)]
    /\ End(c)
    /\ UNCHANGED <<googleOnly, status, google, email, claim>>

----------------------------------------------------------------------------

\* A lost client, a failed statement, a stopped process.
AbortRequest(c) ==
    /\ req[c].pc # "idle"
    /\ End(c)
    /\ UNCHANGED <<googleOnly, status, google, email, sessions, claim>>

\* safety.Resolve waits for the row that a linking transaction has locked.
SuspendAccount(u) ==
    /\ status[u] = "active"
    /\ ~ UserHeld(u)
    /\ status' = [status EXCEPT ![u] = "suspended"]
    /\ UNCHANGED <<googleOnly, google, email, sessions, req, claim>>

\* The last refresh token of a method is revoked or expires.
EndSessions(u, method) ==
    /\ method \in sessions[u]
    /\ sessions' = [sessions EXCEPT ![u] = @ \ {method}]
    /\ UNCHANGED <<googleOnly, status, google, email, req, claim>>

AccountsNext ==
    \/ \E c \in Requests :
          \/ \E e \in Emails : Register(c, e) \/ Login(c, e)
          \/ \E s \in Subjects, e \in Emails : LockSubject(c, s, e)
          \/ \E authoritative \in BOOLEAN : FindEmail(c, authoritative)
          \/ RegisterInsert(c) \/ RegisterCommit(c) \/ LoginCommit(c)
          \/ LockEmail(c) \/ FindSubject(c) \/ ClaimEmail(c)
          \/ GoogleCommit(c) \/ KnownCommit(c) \/ AbortRequest(c)
    \/ \E u \in Users :
          SuspendAccount(u) \/ \E m \in {"email", "google"} : EndSessions(u, m)

AccountsSpec == AccountsInit /\ [][AccountsNext]_accountVars

----------------------------------------------------------------------------

\* Google sign-in records the address "so that a later email sign-in resolves
\* to the same person instead of creating a second account for one address":
\* the address an account was created for leads to that account.
OneAccountPerAddress ==
    \A u \in Users : claim[u] # None => email[claim[u]].user = u

\* "Serialize both repeated Google sign-ins and competing email claims": with
\* Google sign-in alone, however many subjects claim an address at once.
GoogleOnePerAddress == googleOnly => OneAccountPerAddress

\* "Registration must not adopt it": an account with a Google subject has no
\* password and no session that a password opened, also when a registration, a
\* login, a link and a suspension overlap.
GoogleMeansNoPassword ==
    \A u \in Users : Linked(u) =>
        /\ "email" \notin sessions[u]
        /\ \A e \in Emails : email[e].user = u => ~ email[e].password

\* An account is linked to a Google subject only while it is active, and only
\* to one subject, whenever a moderator's decision falls.
LinksOnlyActive ==
    [][\A s \in Subjects, u \in Users :
          google[s] = None /\ google'[s] = u =>
              status[u] # "suspended" /\ ~ Linked(u)]_accountVars
=============================================================================

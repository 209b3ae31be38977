---------------------------- MODULE RefreshTokens ----------------------------
(***************************************************************************)
(* internal/auth: rotation and revocation of the refresh tokens of one     *)
(* family (every statement names one family, so families do not meet).     *)
(* Calls run as READ COMMITTED transactions: a statement sees what was     *)
(* committed when it began, waits for the rows others have locked, and     *)
(* looks at such a row again once it gets it.  Rows are numbered in the    *)
(* order they are committed.                                               *)
(***************************************************************************)
EXTENDS Naturals, FiniteSets

CONSTANTS
    Calls,      \* concurrent requests
    NoCall,
    MaxTokens   \* bound: tokens ever issued to the family

ASSUME RefreshTokensAssumption ==
    /\ NoCall \notin Calls
    /\ MaxTokens \in Nat \ {0}

VARIABLES
    active,     \* users.status = 'active'
    issued,     \* how many tokens the family has
    token,      \* refresh_tokens rows, and the token each was bought with
    expired,    \* tokens whose expires_at has passed
    lock,       \* row locks
    call        \* the transaction of each request

vars == <<active, issued, token, expired, lock, call>>

Tokens == 1..MaxTokens
Known == 1..issued

Call == [pc : {"idle", "presented", "locked", "rotating", "revoking"},
         token : 0..MaxTokens, todo : SUBSET Tokens, changed : SUBSET Tokens]

Idle == [pc |-> "idle", token |-> 0, todo |-> {}, changed |-> {}]

TypeOK ==
    /\ active \in BOOLEAN
    /\ issued \in Tokens
    /\ token \in [Tokens -> [used : BOOLEAN, revoked : BOOLEAN,
                             from : 0..MaxTokens]]
    /\ \A t \in Tokens : token[t].from < t
    /\ expired \subseteq Known
    /\ lock \in [Tokens -> Calls \cup {NoCall}]
    /\ call \in [Calls -> Call]

\* A sign-in has issued the family's first token.
Init ==
    /\ active = TRUE
    /\ issued = 1
    /\ token = [t \in Tokens |-> [used |-> FALSE, revoked |-> FALSE, from |-> 0]]
    /\ expired = {}
    /\ lock = [t \in Tokens |-> NoCall]
    /\ call = [c \in Calls |-> Idle]

Live(t) == t <= issued /\ ~ token[t].used /\ ~ token[t].revoked

\* Rollback and commit both release the rows.
Release(c) == [t \in Tokens |-> IF lock[t] = c THEN NoCall ELSE lock[t]]

----------------------------------------------------------------------------

Suspend ==
    /\ active
    /\ active' = FALSE
    /\ UNCHANGED <<issued, token, expired, lock, call>>

Expire(t) ==
    /\ t \in Known \ expired
    /\ expired' = expired \cup {t}
    /\ UNCHANGED <<active, issued, token, lock, call>>

Refresh(c, t) ==
    /\ call[c].pc = "idle"
    /\ t \in Known
    /\ call' = [call EXCEPT ![c].pc = "presented", ![c].token = t]
    /\ UNCHANGED <<active, issued, token, expired, lock>>

MutantLockRow(c) ==
    /\ call[c].pc = "presented"
    /\ ~ token[call[c].token].used
    /\ lock' = [lock EXCEPT ![call[c].token] = c]
    /\ call' = [call EXCEPT ![c].pc = "rotating"]
    /\ UNCHANGED <<active, issued, token, expired>>

\* select ... for update waits for whoever has the row.
LockRow(c) ==
    /\ call[c].pc = "presented"
    /\ lock[call[c].token] = NoCall
    /\ lock' = [lock EXCEPT ![call[c].token] = c]
    /\ call' = [call EXCEPT ![c].pc = "locked"]
    /\ UNCHANGED <<active, issued, token, expired>>

\* The token is good: it is marked spent and its successor is inserted, where
\* nobody else can see either yet.
Rotate(c) ==
    LET t == call[c].token
    IN  /\ call[c].pc = "locked"
        /\ active
        /\ ~ token[t].used /\ ~ token[t].revoked /\ t \notin expired
        /\ call' = [call EXCEPT ![c].pc = "rotating"]
        /\ UNCHANGED <<active, issued, token, expired, lock>>

BoughtWith(c) == call[c].token

CommitRotation(c) ==
    /\ call[c].pc = "rotating"
    /\ issued < MaxTokens
    /\ issued' = issued + 1
    /\ token' = [token EXCEPT ![call[c].token].used = TRUE,
                              ![issued + 1].from = BoughtWith(c)]
    /\ lock' = Release(c)
    /\ call' = [call EXCEPT ![c] = Idle]
    /\ UNCHANGED <<active, expired>>

\* The account is suspended, or the token unspent but revoked or expired.
Refuse(c) ==
    LET t == call[c].token
    IN  /\ call[c].pc = "locked"
        /\ \/ ~ active
           \/ ~ token[t].used /\ (token[t].revoked \/ t \in expired)
        /\ lock' = Release(c)
        /\ call' = [call EXCEPT ![c] = Idle]
        /\ UNCHANGED <<active, issued, token, expired>>

----------------------------------------------------------------------------

MutantRevocable == {t \in Known : Live(t)}

\* The rows an update of the family finds when it begins.
Revocable == {t \in Known : ~ token[t].revoked}

\* A spent token was presented.
Reuse(c) ==
    /\ call[c].pc = "locked"
    /\ active
    /\ token[call[c].token].used
    /\ call' = [call EXCEPT ![c].pc = "revoking", ![c].todo = Revocable]
    /\ UNCHANGED <<active, issued, token, expired, lock>>

\* One statement of its own, for whichever token of the family is presented.
SignOut(c, t) ==
    /\ call[c].pc = "idle"
    /\ t \in Known
    /\ call' = [call EXCEPT ![c].pc = "revoking", ![c].todo = Revocable]
    /\ UNCHANGED <<active, issued, token, expired, lock>>

\* The update reaches a row: it waits for the row's lock, then tests
\* "revoked_at is null" again.
RevokeRow(c, t) ==
    /\ call[c].pc = "revoking"
    /\ t \in call[c].todo
    /\ lock[t] \in {c, NoCall}
    /\ LET mine == {t} \ {x \in Tokens : token[x].revoked}
       IN  /\ lock' = [x \in Tokens |-> IF x \in mine THEN c ELSE lock[x]]
           /\ call' = [call EXCEPT ![c].todo = @ \ {t},
                                   ![c].changed = @ \cup mine]
    /\ UNCHANGED <<active, issued, token, expired>>

CommitRevocation(c) ==
    /\ call[c].pc = "revoking"
    /\ call[c].todo = {}
    /\ token' = [t \in Tokens |->
                    [token[t] EXCEPT !.revoked = @ \/ t \in call[c].changed]]
    /\ lock' = Release(c)
    /\ call' = [call EXCEPT ![c] = Idle]
    /\ UNCHANGED <<active, issued, expired>>

\* The client goes away, a statement fails, or the database picks this
\* transaction to break a deadlock: two reuses lock in opposite orders.
Abort(c) ==
    /\ call[c].pc # "idle"
    /\ lock' = Release(c)
    /\ call' = [call EXCEPT ![c] = Idle]
    /\ UNCHANGED <<active, issued, token, expired>>

Next ==
    \/ Suspend
    \/ \E t \in Tokens : Expire(t)
    \/ \E c \in Calls, t \in Tokens :
          Refresh(c, t) \/ SignOut(c, t) \/ RevokeRow(c, t)
    \/ \E c \in Calls : \/ LockRow(c) \/ Rotate(c) \/ CommitRotation(c)
                        \/ Refuse(c) \/ Reuse(c) \/ CommitRevocation(c)
                        \/ Abort(c)

Spec == Init /\ [][Next]_vars

----------------------------------------------------------------------------

\* "without the lock, ... one token buys two": a token buys one successor,
\* however many refreshes present it at once (the row lock of Refresh).
BoughtOnce ==
    \A s, t \in Known : token[s].from = token[t].from => s = t

\* A family never has two usable tokens, and the usable one is the latest.
OneLive == \A t \in Known : Live(t) => t = issued

\* A revocation takes every token the family had when it began: no token
\* survives while a later one is revoked (Refresh on reuse, SignOut).
RevokedTogether ==
    \A s, t \in Known : s < t /\ token[t].revoked => token[s].revoked

\* "SignOut revokes the whole family": a successor that a concurrent Refresh
\* has inserted and not committed is invisible to the revoking update, which
\* waits for the predecessor's lock and then misses it.
FamilyRevoked ==
    (\E t \in Known : token[t].revoked) => ~ \E t \in Known : Live(t)
=============================================================================

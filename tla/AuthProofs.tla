----------------------------- MODULE AuthProofs -----------------------------
(***************************************************************************)
(* A refresh token buys one successor, a family has one usable token at    *)
(* most, and tokens are revoked together with all their predecessors; a    *)
(* Google subject takes an account's password away, is linked only to an   *)
(* active account, and has one account per address: for any number of      *)
(* concurrent requests.                                                    *)
(***************************************************************************)
EXTENDS RefreshTokens, Accounts, TLAPS

\* Each token was bought with the one before it, every token but the latest
\* is spent, and what has not been issued is not revoked.
Chain ==
    /\ \A t \in Known : token[t].from = t - 1
    /\ \A t \in Known : t < issued => token[t].used
    /\ \A t \in Tokens : token[t].revoked => t \in Known

\* A call that has read its token holds its row, and a rotation in progress
\* is of an unspent token.
Held ==
    \A c \in Calls : call[c].pc \in {"locked", "rotating"} =>
        /\ call[c].token \in Known
        /\ lock[call[c].token] = c
        /\ call[c].pc = "rotating" => ~ token[call[c].token].used

\* What a revocation has yet to reach or has reached, with what is revoked
\* already, leaves out no predecessor.
Sweep ==
    \A c \in Calls :
        /\ call[c].pc = "presented" => call[c].token \in Known
        /\ call[c].pc # "revoking" => call[c].todo = {} /\ call[c].changed = {}
        /\ call[c].todo \cup call[c].changed \subseteq Known
        /\ \A s, t \in Known :
              s < t /\ t \in call[c].todo \cup call[c].changed =>
                  s \in call[c].todo \cup call[c].changed \/ token[s].revoked

IInv == TypeOK /\ Chain /\ Held /\ Sweep /\ RevokedTogether

----------------------------------------------------------------------------

\* A call that is over is a call, and its rows are nobody's (the rollback or
\* commit that ends every request of internal/auth).
LEMMA IdleCall ==
    ASSUME TypeOK, NEW c \in Calls
    PROVE  /\ Idle \in Call
           /\ Release(c) \in [Tokens -> Calls \cup {NoCall}]
           /\ \A d \in Calls \ {c}, t \in Tokens :
                 (Release(c)[t] = d <=> lock[t] = d)
           /\ [call EXCEPT ![c] = Idle] \in [Calls -> Call]
           /\ \A d \in Calls : [call EXCEPT ![c] = Idle][d]
                                  = IF d = c THEN Idle ELSE call[d]
<1>1. Idle \in Call
  BY RefreshTokensAssumption DEF Idle, Call, Tokens
<1>2. \A d \in Calls \ {c}, t \in Tokens : Release(c)[t] = d <=> lock[t] = d
  BY RefreshTokensAssumption DEF Release
<1>3. Release(c) \in [Tokens -> Calls \cup {NoCall}]
  BY DEF Release, TypeOK
<1>4. QED
  BY <1>1, <1>2, <1>3 DEF TypeOK

\* The first token of a family satisfies the invariant.
LEMMA InitIInv == Init => IInv
<1> SUFFICES ASSUME Init PROVE IInv
  OBVIOUS
<1>1. TypeOK
  BY RefreshTokensAssumption DEF Init, TypeOK, Tokens, Known, Call, Idle
<1>2. Known = {1}
  BY DEF Init, Known
<1>3. Chain /\ Held /\ Sweep /\ RevokedTogether
  BY <1>2, RefreshTokensAssumption
     DEF Init, Chain, Held, Sweep, RevokedTogether, Idle, Tokens
<1>4. QED
  BY <1>1, <1>3 DEF IInv

\* Giving up the rows of a call that goes idle keeps the invariant, if the
\* tokens stay as they are (Refuse, Abort).
LEMMA ReleaseIInv ==
    ASSUME IInv, NEW c \in Calls,
           lock' = Release(c), call' = [call EXCEPT ![c] = Idle],
           UNCHANGED <<active, issued, token, expired>>
    PROVE  IInv'
<1>0. TypeOK /\ Chain /\ Held /\ Sweep /\ RevokedTogether
  BY DEF IInv
<1>1. /\ lock' \in [Tokens -> Calls \cup {NoCall}]
      /\ call' \in [Calls -> Call]
      /\ \A d \in Calls \ {c}, t \in Tokens : lock'[t] = d <=> lock[t] = d
      /\ \A d \in Calls : call'[d] = IF d = c THEN Idle ELSE call[d]
  BY <1>0, IdleCall
<1>2. TypeOK'
  BY <1>0, <1>1 DEF TypeOK, Known
<1>3. Chain' /\ RevokedTogether'
  BY <1>0 DEF Chain, RevokedTogether, Known
<1>4. Held'
  <2> SUFFICES ASSUME NEW d \in Calls,
                      call'[d].pc \in {"locked", "rotating"}
               PROVE  /\ call'[d].token \in Known'
                      /\ lock'[call'[d].token] = d
                      /\ call'[d].pc = "rotating" =>
                             ~ token'[call'[d].token].used
    BY DEF Held
  <2>1. d # c /\ call'[d] = call[d]
    BY <1>1 DEF Idle
  <2>2. call[d].token \in Known /\ Known \subseteq Tokens
    BY <1>0, <2>1, RefreshTokensAssumption DEF Held, TypeOK, Known, Tokens
  <2>3. /\ lock[call[d].token] = d
        /\ call[d].pc = "rotating" => ~ token[call[d].token].used
    BY <1>0, <2>1 DEF Held
  <2>4. lock'[call[d].token] = d
    BY <1>1, <2>1, <2>2, <2>3
  <2>5. QED
    BY <2>1, <2>2, <2>3, <2>4 DEF Known
<1>5. Sweep'
  BY <1>0, <1>1 DEF Sweep, Idle, Known
<1>6. QED
  BY <1>2, <1>3, <1>4, <1>5 DEF IInv

\* Committing a rotation extends the chain by one token.
LEMMA CommitRotationIInv ==
    ASSUME IInv, NEW c \in Calls, CommitRotation(c)
    PROVE  IInv'
<1> USE DEF IInv
<1>1. call[c].token = issued
  BY RefreshTokensAssumption
     DEF CommitRotation, Held, Chain, Known, TypeOK, Tokens
<1>2. /\ issued' = issued + 1 /\ issued + 1 \in Tokens /\ issued \in Tokens
      /\ Known' = Known \cup {issued + 1} /\ issued + 1 \notin Known
  BY RefreshTokensAssumption DEF CommitRotation, Known, TypeOK, Tokens
<1>3. \A t \in Tokens :
          /\ token'[t].revoked = token[t].revoked
          /\ t # issued => token'[t].used = token[t].used
          /\ t # issued + 1 => token'[t].from = token[t].from
          /\ token'[issued].used
          /\ token'[issued + 1].from = issued
  <2>1. token' = [token EXCEPT ![issued].used = TRUE,
                               ![issued + 1].from = issued]
    BY <1>1 DEF CommitRotation, BoughtWith
  <2>2. issued # issued + 1
    BY <1>2, RefreshTokensAssumption DEF Tokens
  <2>3. token \in [Tokens -> [used : BOOLEAN, revoked : BOOLEAN,
                              from : 0..MaxTokens]]
    BY DEF TypeOK
  <2> HIDE DEF IInv
  <2>4. QED
    BY <1>2, <2>1, <2>2, <2>3
<1>4. TypeOK'
  <2> DEFINE Token == [used : BOOLEAN, revoked : BOOLEAN, from : 0..MaxTokens]
  <2>1. token' \in [Tokens -> Token]
    <3>1. token \in [Tokens -> Token] /\ issued \in 0..MaxTokens
      BY <1>2, RefreshTokensAssumption DEF TypeOK, Tokens
    <3>2. \A r \in Token : [r EXCEPT !.used = TRUE] \in Token
      OBVIOUS
    <3>3. \A r \in Token : [r EXCEPT !.from = issued] \in Token
      BY <3>1
    <3>4. token' = [token EXCEPT ![issued].used = TRUE,
                                 ![issued + 1].from = issued]
      BY <1>1 DEF CommitRotation, BoughtWith
    <3>5. QED
      BY <1>2, <3>1, <3>2, <3>3, <3>4
  <2>2. \A t \in Tokens : token'[t].from < t
    BY <1>2, <1>3, RefreshTokensAssumption DEF TypeOK, Tokens
  <2>3. lock' \in [Tokens -> Calls \cup {NoCall}] /\ call' \in [Calls -> Call]
    BY IdleCall DEF CommitRotation
  <2>4. expired' \subseteq Known' /\ active' \in BOOLEAN
    BY <1>2 DEF CommitRotation, TypeOK
  <2>5. QED
    BY <1>2, <2>1, <2>2, <2>3, <2>4 DEF TypeOK
<1>5. Chain'
  <2>1. \A t \in Known : t # issued + 1 /\ t \in Tokens
    BY <1>2, RefreshTokensAssumption DEF Known, Tokens
  <2>2. \A t \in Known' : token'[t].from = t - 1
    BY <1>2, <1>3, <2>1, RefreshTokensAssumption DEF Chain, Tokens
  <2>3. \A t \in Known : token'[t].used
    BY <1>2, <1>3, <2>1, RefreshTokensAssumption DEF Chain, Known, Tokens
  <2>4. \A t \in Known' : t < issued' => t \in Known
    BY <1>2, RefreshTokensAssumption DEF Known, Tokens
  <2>5. \A t \in Tokens : token'[t].revoked => t \in Known'
    BY <1>2, <1>3 DEF Chain
  <2>6. QED
    BY <2>2, <2>3, <2>4, <2>5 DEF Chain
<1>6. RevokedTogether'
  <2> SUFFICES ASSUME NEW s \in Known', NEW t \in Known',
                      s < t, token'[t].revoked
               PROVE  token'[s].revoked
    BY DEF RevokedTogether
  <2>1. t \in Known
    BY <1>2, <1>3 DEF Chain
  <2>2. s \in Known /\ s \in Tokens /\ t \in Tokens
    BY <1>2, <2>1, RefreshTokensAssumption DEF Known, Tokens
  <2>3. QED
    BY <1>3, <2>1, <2>2 DEF RevokedTogether
<1>7. Held'
  <2> SUFFICES ASSUME NEW d \in Calls,
                      call'[d].pc \in {"locked", "rotating"}
               PROVE  /\ call'[d].token \in Known'
                      /\ lock'[call'[d].token] = d
                      /\ call'[d].pc = "rotating" =>
                             ~ token'[call'[d].token].used
    BY DEF Held
  <2>1. d # c /\ call'[d] = call[d]
    BY DEF CommitRotation, Idle, TypeOK
  <2>2. call[d].token \in Known /\ lock[call[d].token] = d
    BY <2>1 DEF Held
  <2>3. call[d].token # issued
    BY <1>1, <2>1, <2>2 DEF Held, CommitRotation
  <2>4. /\ call[d].token \in Tokens /\ call[d].token \in Known'
        /\ lock'[call[d].token] = d
    BY <1>2, <2>1, <2>2, IdleCall, RefreshTokensAssumption
       DEF CommitRotation, Known, Tokens
  <2>5. call[d].pc = "rotating" => ~ token'[call[d].token].used
    BY <1>3, <2>1, <2>3, <2>4 DEF Held
  <2>6. QED
    BY <2>1, <2>4, <2>5
<1>8. Sweep'
  <2> SUFFICES ASSUME NEW d \in Calls
               PROVE  /\ call'[d].pc = "presented" => call'[d].token \in Known'
                      /\ call'[d].pc # "revoking" =>
                             call'[d].todo = {} /\ call'[d].changed = {}
                      /\ call'[d].todo \cup call'[d].changed \subseteq Known'
                      /\ \A s, t \in Known' :
                            s < t /\ t \in call'[d].todo \cup call'[d].changed
                              => \/ s \in call'[d].todo \cup call'[d].changed
                                 \/ token'[s].revoked
    BY DEF Sweep
  <2>1. CASE d = c
    BY <2>1 DEF CommitRotation, Idle, TypeOK
  <2>2. CASE d # c
    <3>1. call'[d] = call[d]
      BY <2>2 DEF CommitRotation, TypeOK
    <3>2. \A s, t \in Known' :
              s < t /\ t \in call[d].todo \cup call[d].changed =>
                  s \in Known /\ t \in Known
      BY <1>2, RefreshTokensAssumption DEF Sweep, Known, TypeOK, Tokens
    <3>3. QED
      BY <1>2, <1>3, <3>1, <3>2, RefreshTokensAssumption
         DEF Sweep, Known, TypeOK, Tokens
  <2>3. QED
    BY <2>1, <2>2
<1>9. QED
  BY <1>4, <1>5, <1>6, <1>7, <1>8

\* Committing a revocation revokes what it reached: with every predecessor.
LEMMA CommitRevocationIInv ==
    ASSUME IInv, NEW c \in Calls, CommitRevocation(c)
    PROVE  IInv'
<1> USE DEF IInv
<1>1. \A t \in Tokens :
          /\ token'[t].used = token[t].used
          /\ token'[t].from = token[t].from
          /\ token'[t].revoked <=> token[t].revoked \/ t \in call[c].changed
  BY DEF CommitRevocation, TypeOK
<1>2. Known' = Known /\ Known \subseteq Tokens
  BY RefreshTokensAssumption DEF CommitRevocation, Known, TypeOK, Tokens
<1>3. TypeOK'
  <2> DEFINE Token == [used : BOOLEAN, revoked : BOOLEAN, from : 0..MaxTokens]
  <2>1. token' \in [Tokens -> Token]
    <3>1. token \in [Tokens -> Token]
      BY DEF TypeOK
    <3>2. \A x \in Token, b \in BOOLEAN : [x EXCEPT !.revoked = b] \in Token
      OBVIOUS
    <3>3. \A t \in Tokens :
             [token[t] EXCEPT !.revoked = @ \/ t \in call[c].changed] \in Token
      BY <3>1, <3>2
    <3>4. QED
      BY <3>3 DEF CommitRevocation
  <2>2. lock' \in [Tokens -> Calls \cup {NoCall}] /\ call' \in [Calls -> Call]
    BY IdleCall DEF CommitRevocation
  <2>3. QED
    BY <1>1, <1>2, <2>1, <2>2 DEF CommitRevocation, TypeOK
<1>4. Chain'
  BY <1>1, <1>2 DEF CommitRevocation, Chain, Sweep, Known
<1>5. RevokedTogether'
  BY <1>1, <1>2 DEF CommitRevocation, RevokedTogether, Sweep
<1>6. Held'
  <2>1. \A d \in Calls : /\ d = c => call'[d].pc = "idle"
                         /\ d # c => call'[d] = call[d]
    BY DEF CommitRevocation, Idle, TypeOK
  <2>2. \A d \in Calls \ {c}, t \in Tokens : lock'[t] = d <=> lock[t] = d
    BY IdleCall DEF CommitRevocation
  <2>3. QED
    BY <1>1, <1>2, <2>1, <2>2 DEF Held
<1>7. Sweep'
  BY <1>1, <1>2 DEF CommitRevocation, Sweep, Idle, TypeOK, Call
<1>8. QED
  BY <1>3, <1>4, <1>5, <1>6, <1>7

\* Moving a call on, with the token it has, leaves it a call (the handlers of
\* refresh and sign-out).
LEMMA CallPc ==
    ASSUME NEW r \in Call
    PROVE  /\ [r EXCEPT !.pc = "locked"] \in Call
           /\ [r EXCEPT !.pc = "rotating"] \in Call
BY DEF Call

\* The steps that change no token and no row lock but one's own.
LEMMA CallIInv ==
    ASSUME IInv, NEW c \in Calls, NEW t \in Tokens,
           \/ Refresh(c, t) \/ LockRow(c) \/ Rotate(c)
           \/ Reuse(c) \/ SignOut(c, t)
    PROVE  IInv'
<1> USE DEF IInv
<1> /\ UNCHANGED <<active, issued, token, expired>>
    /\ Known' = Known /\ Known \subseteq Tokens
  BY RefreshTokensAssumption
     DEF Refresh, LockRow, Rotate, Reuse, SignOut, Known, TypeOK, Tokens
<1> Chain' /\ RevokedTogether'
  BY DEF Chain, RevokedTogether
<1>1. CASE Refresh(c, t)
  <2>1. TypeOK'
    <3>1. call' \in [Calls -> Call]
      <4>1. call[c] \in Call /\ t \in 0..MaxTokens
        BY RefreshTokensAssumption DEF TypeOK, Tokens
      <4>2. [call[c] EXCEPT !.pc = "presented", !.token = t] \in Call
        BY <4>1 DEF Call
      <4>3. QED
        BY <1>1, <4>2 DEF Refresh, TypeOK
    <3>2. QED
      BY <1>1, <3>1 DEF Refresh, TypeOK
  <2>2. Held' /\ Sweep'
    BY <1>1 DEF Refresh, Held, Sweep, TypeOK, Call
  <2>3. QED
    BY <2>1, <2>2
<1>2. CASE LockRow(c)
  <2>0. call[c].token \in Known
    BY <1>2 DEF LockRow, Sweep
  <2>1. TypeOK'
    <3>1. call' \in [Calls -> Call]
      BY <1>2, CallPc DEF LockRow, TypeOK
    <3>2. lock' \in [Tokens -> Calls \cup {NoCall}]
      BY <1>2 DEF LockRow, TypeOK
    <3>3. QED
      BY <3>1, <3>2 DEF TypeOK
  <2>2. Held'
    BY <1>2, <2>0, RefreshTokensAssumption DEF LockRow, Held, TypeOK, Call
  <2>3. Sweep'
    BY <1>2 DEF LockRow, Sweep, TypeOK, Call
  <2>4. QED
    BY <2>1, <2>2, <2>3
<1>3. CASE Rotate(c)
  <2>1. TypeOK'
    BY <1>3, CallPc DEF Rotate, TypeOK
  <2>2. Held' /\ Sweep'
    BY <1>3 DEF Rotate, Held, Sweep, TypeOK, Call
  <2>3. QED
    BY <2>1, <2>2
<1>4. CASE Reuse(c) \/ SignOut(c, t)
  <2>0. Revocable \subseteq Known
    BY DEF Revocable
  <2>1. /\ call' = [call EXCEPT ![c].pc = "revoking", ![c].todo = Revocable]
        /\ call[c].pc # "revoking"
        /\ lock' = lock
    BY <1>4 DEF Reuse, SignOut
  <2>2. call[c].changed = {}
    BY <2>1 DEF Sweep
  <2>3. TypeOK'
    <3>1. [call[c] EXCEPT !.pc = "revoking", !.todo = Revocable] \in Call
      BY <2>0 DEF TypeOK, Call
    <3>2. call' \in [Calls -> Call]
      BY <2>1, <3>1 DEF TypeOK
    <3>3. QED
      BY <2>1, <3>2 DEF TypeOK
  <2>4. Held'
    BY <2>1 DEF Held, TypeOK, Call
  <2>5. Sweep'
    BY <2>0, <2>1, <2>2 DEF Sweep, TypeOK, Call, Revocable
  <2>6. QED
    BY <2>3, <2>4, <2>5
<1>5. QED
  BY <1>1, <1>2, <1>3, <1>4

\* A revocation that reaches a row takes it, unless it is revoked already.
LEMMA RevokeRowIInv ==
    ASSUME IInv, NEW c \in Calls, NEW t \in Tokens, RevokeRow(c, t)
    PROVE  IInv'
<1> USE DEF IInv
<1> DEFINE mine == {t} \ {x \in Tokens : token[x].revoked}
<1>1. /\ UNCHANGED <<active, issued, token, expired>>
      /\ Known' = Known
      /\ lock' = [x \in Tokens |-> IF x \in mine THEN c ELSE lock[x]]
      /\ call' = [call EXCEPT ![c].todo = @ \ {t}, ![c].changed = @ \cup mine]
      /\ t \in call[c].todo /\ lock[t] \in {c, NoCall}
      /\ call[c].pc = "revoking"
  BY DEF RevokeRow, Known
<1>2. mine \subseteq {t} /\ (t \in mine <=> ~ token[t].revoked)
  OBVIOUS
<1>3. \A d \in Calls : /\ call'[d].pc = call[d].pc
                       /\ call'[d].token = call[d].token
                       /\ d # c => call'[d] = call[d]
  BY <1>1 DEF TypeOK, Call
<1>4. /\ call'[c].todo = call[c].todo \ {t}
      /\ call'[c].changed = call[c].changed \cup mine
  BY <1>1 DEF TypeOK, Call
<1> HIDE DEF mine
<1>5. TypeOK'
  <2>1. lock' \in [Tokens -> Calls \cup {NoCall}]
    BY <1>1 DEF TypeOK
  <2>2. call' \in [Calls -> Call]
    <3>1. call[c] \in Call /\ mine \subseteq Tokens
      BY <1>2 DEF TypeOK
    <3>2. [call[c] EXCEPT !.todo = @ \ {t}, !.changed = @ \cup mine] \in Call
      BY <3>1 DEF Call
    <3>3. call' = [call EXCEPT ![c] =
                      [call[c] EXCEPT !.todo = @ \ {t}, !.changed = @ \cup mine]]
      BY <1>1 DEF TypeOK
    <3>4. QED
      BY <3>2, <3>3 DEF TypeOK
  <2>3. QED
    BY <1>1, <2>1, <2>2 DEF TypeOK
<1>6. Chain' /\ RevokedTogether'
  BY <1>1 DEF Chain, RevokedTogether
<1>7. Held'
  BY <1>1, <1>2, <1>3, RefreshTokensAssumption
     DEF Held, Known, TypeOK, Tokens
<1>8. Sweep'
  <2> SUFFICES ASSUME NEW d \in Calls
               PROVE  /\ call'[d].pc = "presented" => call'[d].token \in Known'
                      /\ call'[d].pc # "revoking" =>
                             call'[d].todo = {} /\ call'[d].changed = {}
                      /\ call'[d].todo \cup call'[d].changed \subseteq Known'
                      /\ \A s, x \in Known' :
                            s < x /\ x \in call'[d].todo \cup call'[d].changed
                              => \/ s \in call'[d].todo \cup call'[d].changed
                                 \/ token'[s].revoked
    BY DEF Sweep
  <2>1. CASE d # c
    <3>1. call'[d] = call[d] /\ token' = token /\ Known' = Known
      BY <1>1, <1>3, <2>1
    <3>2. QED
      BY <3>1 DEF Sweep
  <2>2. CASE d = c
    <3>1. /\ call'[c].todo \cup call'[c].changed
             \subseteq call[c].todo \cup call[c].changed
          /\ \A s \in call[c].todo \cup call[c].changed :
                \/ s \in call'[c].todo \cup call'[c].changed
                \/ token[s].revoked
      BY <1>1, <1>2, <1>4
    <3>2. call'[c].pc = "revoking" /\ token' = token /\ Known' = Known
      BY <1>1, <1>3
    <3>3. call[c].todo \cup call[c].changed \subseteq Known
      BY DEF Sweep
    <3>4. \A s, x \in Known :
             s < x /\ x \in call[c].todo \cup call[c].changed =>
                 s \in call[c].todo \cup call[c].changed \/ token[s].revoked
      BY DEF Sweep
    <3>5. QED
      BY <2>2, <3>1, <3>2, <3>3, <3>4
  <2>3. QED
    BY <2>1, <2>2
<1>9. QED
  BY <1>5, <1>6, <1>7, <1>8

\* Every step keeps the invariant.
LEMMA NextIInv == IInv /\ [Next]_vars => IInv'
<1> SUFFICES ASSUME IInv, [Next]_vars PROVE IInv'
  OBVIOUS
<1> USE DEF IInv
<1>1. CASE Suspend \/ \E t \in Tokens : Expire(t)
  <2>1. /\ UNCHANGED <<issued, token, lock, call>>
        /\ active' \in BOOLEAN /\ expired' \subseteq Known /\ Known' = Known
    BY <1>1 DEF Suspend, Expire, TypeOK, Known
  <2>2. TypeOK'
    BY <2>1 DEF TypeOK
  <2>3. Chain' /\ Held' /\ Sweep' /\ RevokedTogether'
    BY <2>1 DEF Chain, Held, Sweep, RevokedTogether
  <2>4. QED
    BY <2>2, <2>3
<1>2. ASSUME NEW c \in Calls, NEW t \in Tokens,
             Refresh(c, t) \/ SignOut(c, t) \/ RevokeRow(c, t)
      PROVE  IInv'
  BY <1>2, CallIInv, RevokeRowIInv
<1>3. ASSUME NEW c \in Calls, LockRow(c) \/ Rotate(c) \/ Reuse(c)
      PROVE  IInv'
  <2>1. 1 \in Tokens
    BY RefreshTokensAssumption DEF Tokens
  <2>2. QED
    BY <1>3, <2>1, CallIInv
<1>4. ASSUME NEW c \in Calls, CommitRotation(c) \/ CommitRevocation(c)
      PROVE  IInv'
  BY <1>4, CommitRotationIInv, CommitRevocationIInv
<1>5. ASSUME NEW c \in Calls, Refuse(c) \/ Abort(c)
      PROVE  IInv'
  BY <1>5, ReleaseIInv DEF Refuse, Abort
<1>6. CASE UNCHANGED vars
  BY <1>6 DEF vars, TypeOK, Chain, Held, Sweep, RevokedTogether, Known
<1>7. QED
  BY <1>1, <1>2, <1>3, <1>4, <1>5, <1>6 DEF Next

\* The invariant holds in every reachable state.
LEMMA AlwaysIInv == Spec => []IInv
BY InitIInv, NextIInv, PTL DEF Spec

\* A token buys one successor however many refreshes present it at once.
THEOREM TokensBuyOnce == Spec => []BoughtOnce
<1>1. IInv => BoughtOnce
  BY RefreshTokensAssumption DEF IInv, Chain, BoughtOnce, Known, TypeOK, Tokens
<1>2. QED
  BY <1>1, AlwaysIInv, PTL

\* A family has one usable token at most, and it is the latest.
THEOREM LatestIsLive == Spec => []OneLive
<1>1. IInv => OneLive
  BY RefreshTokensAssumption
     DEF IInv, Chain, OneLive, Live, Known, TypeOK, Tokens
<1>2. QED
  BY <1>1, AlwaysIInv, PTL

\* No token outlives the revocation of a later one.
THEOREM RevocationReachesBack == Spec => []RevokedTogether
<1>1. IInv => RevokedTogether
  BY DEF IInv
<1>2. QED
  BY <1>1, AlwaysIInv, PTL

----------------------------------------------------------------------------

\* The stages of a Google sign-in that hold the lock of its address.
Locking(c) == req[c].pc \in {"email", "known", "unknown", "creating", "linking",
                             "claimed"}

\* A request that is about to make an account, under an id nobody else has.
Making(c) ==
    \/ req[c].pc \in {"registered", "creating"}
    \/ req[c].pc = "claimed" /\ ~ req[c].linked

\* What a request knows at each stage, and which stages are of which sign-in.
Knows(c) ==
    /\ req[c].pc # "idle" => req[c].email \in Emails
    /\ Locking(c) \/ req[c].pc = "subject" => req[c].subject \in Subjects
    /\ Making(c) \/ req[c].linked \/ req[c].pc \in {"matched", "known"} =>
           req[c].user \in Users
    /\ req[c].pc = "linking" => req[c].linked
    /\ req[c].linked => req[c].pc \in {"linking", "claimed"} /\ googleOnly
    /\ req[c].pc \in {"free", "registered", "matched"} => ~ googleOnly

\* The locks: one sign-in at a time per address, one link per account, and a
\* new id is nobody else's.
Apart(c, d) ==
    /\ Locking(c) /\ Locking(d) => req[c].email # req[d].email
    /\ req[c].linked /\ req[d].linked => req[c].user # req[d].user
    /\ Making(c) => req[d].user # req[c].user

\* What a request has read still holds, thanks to the locks.
StillTrue(c) ==
    /\ Making(c) => status[req[c].user] = "none"
    /\ req[c].linked => /\ status[req[c].user] = "active"
                        /\ ~ Linked(req[c].user)
                        /\ email[req[c].email].user = req[c].user
    /\ req[c].pc \in {"matched", "known"} => status[req[c].user] # "none"
    /\ req[c].pc = "matched" => ~ Linked(req[c].user)
    /\ googleOnly /\ Making(c) => email[req[c].email].user = None

\* An account that is yet to be made has no identity, and one that is made
\* has one address at most.
Rows ==
    /\ \A u \in Users : status[u] = "none" =>
           ~ Linked(u) /\ \A e \in Emails : email[e].user # u
    /\ \A e, f \in Emails :
           email[e].user = email[f].user /\ email[e].user # None => e = f

Stages == \A c \in Requests : Knows(c)

Exclusive == \A c, d \in Requests : c # d => Apart(c, d)

Decided == \A c \in Requests : StillTrue(c)

AccountsInv == AccountsTypeOK /\ Stages /\ Exclusive /\ Rows /\ Decided
                   /\ GoogleOnePerAddress /\ GoogleMeansNoPassword

\* The invariant holds at the start.
LEMMA AccountsInvInit == AccountsInit => AccountsInv
<1> SUFFICES ASSUME AccountsInit PROVE AccountsInv
  OBVIOUS
<1>1. \A c \in Requests : req[c] = NoRequest
  BY DEF AccountsInit
<1>2. \A u \in Users : ~ Linked(u)
  BY AccountsAssumption DEF AccountsInit, Linked
<1>3. \A e \in Emails : email[e] = NoIdentity
                        \/ email[e] \in [user : Users, password : {TRUE}]
  BY DEF AccountsInit
<1>4. \A u \in Users : claim[u] # None =>
          claim[u] \in Emails /\ email[claim[u]].user = u
  BY DEF AccountsInit
<1>5. AccountsTypeOK
  <2>1. email \in [Emails -> Identity]
    <3>1. NoIdentity \in Identity
      BY DEF NoIdentity, Identity
    <3>2. [user : Users, password : {TRUE}] \subseteq Identity
      BY Zenon DEF Identity
    <3>3. QED
      BY <3>1, <3>2 DEF AccountsInit
  <2>2. claim \in [Users -> Emails \cup {None}]
    BY <1>4 DEF AccountsInit
  <2>3. req \in [Requests -> Request]
    BY DEF AccountsInit, Request, NoRequest, Begun
  <2>4. google \in [Subjects -> Users \cup {None}]
    BY DEF AccountsInit
  <2>5. ASSUME NEW e \in Emails, email[e].password PROVE email[e].user # None
    <3>1. email[e] # NoIdentity
      BY <2>5 DEF NoIdentity
    <3>2. email[e].user \in Users
      BY <1>3, <3>1
    <3>3. QED
      BY <3>2, AccountsAssumption
  <2>6. QED
    BY <2>1, <2>2, <2>3, <2>4, <2>5 DEF AccountsInit, AccountsTypeOK
<1>6. Stages /\ Exclusive /\ Decided
  BY <1>1
     DEF Stages, Knows, Exclusive, Apart, Decided, StillTrue, Locking, Making,
         NoRequest, Begun
<1>7. Rows
  BY <1>2 DEF AccountsInit, Rows
<1>8. GoogleOnePerAddress /\ GoogleMeansNoPassword
  BY <1>2, <1>4
     DEF GoogleOnePerAddress, OneAccountPerAddress, GoogleMeansNoPassword
<1>9. QED
  BY <1>5, <1>6, <1>7, <1>8 DEF AccountsInv

\* Whatever else it does, a step of one request leaves the others alone.
Moves(c, pc) ==
    /\ req' \in [Requests -> Request]
    /\ req'[c].pc = pc
    /\ \A d \in Requests : d # c => req'[d] = req[d]

\* How far each step takes its request, and with what.
LEMMA StageSteps ==
    ASSUME AccountsTypeOK, NEW c \in Requests
    PROVE  /\ End(c) => Moves(c, "idle") /\ req'[c] = NoRequest
           /\ \A pc \in {"email", "unknown", "claimed"} : Step(c, pc) =>
                  /\ Moves(c, pc)
                  /\ req'[c].email = req[c].email
                  /\ req'[c].subject = req[c].subject
                  /\ req'[c].user = req[c].user
                  /\ req'[c].linked = req[c].linked
           /\ \A u \in Users, pc \in {"registered", "known", "creating"} :
                  req' = [req EXCEPT ![c].pc = pc, ![c].user = u] =>
                      /\ Moves(c, pc)
                      /\ req'[c].email = req[c].email
                      /\ req'[c].subject = req[c].subject
                      /\ req'[c].user = u
                      /\ req'[c].linked = req[c].linked
           /\ \A u \in Users :
                  req' = [req EXCEPT ![c].pc = "linking", ![c].user = u,
                                     ![c].linked = TRUE] =>
                      /\ Moves(c, "linking")
                      /\ req'[c].email = req[c].email
                      /\ req'[c].subject = req[c].subject
                      /\ req'[c].user = u
                      /\ req'[c].linked
<1>1. req \in [Requests -> Request]
  BY DEF AccountsTypeOK
<1>2. End(c) => Moves(c, "idle") /\ req'[c] = NoRequest
  BY <1>1 DEF End, Moves, NoRequest, Begun, Request
<1>3. ASSUME NEW pc \in {"email", "unknown", "claimed"}, Step(c, pc)
      PROVE  /\ Moves(c, pc)
             /\ req'[c].email = req[c].email
             /\ req'[c].subject = req[c].subject
             /\ req'[c].user = req[c].user
             /\ req'[c].linked = req[c].linked
  BY <1>1, <1>3 DEF Step, Moves, Request
<1>4. ASSUME NEW u \in Users, NEW pc \in {"registered", "known", "creating"},
             req' = [req EXCEPT ![c].pc = pc, ![c].user = u]
      PROVE  /\ Moves(c, pc)
             /\ req'[c].email = req[c].email
             /\ req'[c].subject = req[c].subject
             /\ req'[c].user = u
             /\ req'[c].linked = req[c].linked
  BY <1>1, <1>4 DEF Moves, Request
<1>5. ASSUME NEW u \in Users,
             req' = [req EXCEPT ![c].pc = "linking", ![c].user = u,
                                ![c].linked = TRUE]
      PROVE  /\ Moves(c, "linking")
             /\ req'[c].email = req[c].email
             /\ req'[c].subject = req[c].subject
             /\ req'[c].user = u
             /\ req'[c].linked
  BY <1>1, <1>5 DEF Moves, Request
<1>6. QED
  BY <1>2, <1>3, <1>4, <1>5
\* A step that writes no table has only its own request to answer for.
LEMMA OnlyMoves ==
    ASSUME AccountsInv, NEW c \in Requests, Moves(c, req'[c].pc),
           UNCHANGED <<googleOnly, status, google, email, sessions, claim>>,
           Knows(c)', StillTrue(c)',
           \A d \in Requests : d # c => Apart(c, d)' /\ Apart(d, c)'
    PROVE  AccountsInv'
<1>1. \A d \in Requests : d # c => req'[d] = req[d]
  BY DEF Moves
<1>2. AccountsTypeOK'
  BY DEF AccountsInv, AccountsTypeOK, Moves
<1>3. ASSUME NEW d \in Requests, d # c
      PROVE  /\ Knows(d)' /\ StillTrue(d)'
             /\ \A f \in Requests \ {c, d} : Apart(d, f)'
  BY <1>1, <1>3
     DEF AccountsInv, Stages, Knows, Exclusive, Apart, Decided, StillTrue,
         Locking, Making, Linked
<1>4. Stages' /\ Decided' /\ Exclusive'
  BY <1>3 DEF Stages, Decided, Exclusive
<1>5. Rows' /\ GoogleOnePerAddress' /\ GoogleMeansNoPassword'
  BY DEF AccountsInv, Rows, GoogleOnePerAddress, OneAccountPerAddress,
         GoogleMeansNoPassword, Linked
<1>6. QED
  BY <1>2, <1>4, <1>5 DEF AccountsInv

\* The end of a request lets go of everything.
LEMMA Ends ==
    ASSUME AccountsInv, NEW c \in Requests, End(c), UNCHANGED googleOnly
    PROVE  /\ req' \in [Requests -> Request]
           /\ Stages' /\ Exclusive'
           /\ Knows(c)' /\ StillTrue(c)'
           /\ \A d \in Requests : d # c =>
                  req'[d] = req[d] /\ Apart(c, d)' /\ Apart(d, c)'
<1>1. Moves(c, "idle") /\ req'[c] = NoRequest
  BY StageSteps DEF AccountsInv
<1>2. \A d \in Requests : d # c => req'[d] = req[d]
  BY <1>1 DEF Moves
<1>3. Knows(c)' /\ StillTrue(c)'
  BY <1>1 DEF Knows, StillTrue, Locking, Making, NoRequest, Begun
<1>4. ASSUME NEW d \in Requests, d # c
      PROVE  /\ Knows(d)' /\ Apart(c, d)' /\ Apart(d, c)'
             /\ \A f \in Requests \ {c, d} : Apart(d, f)'
  <2>1. Making(d) => req[d].user # None
    BY AccountsAssumption DEF AccountsInv, Stages, Knows
  <2>2. Apart(c, d)' /\ Apart(d, c)'
    BY <1>1, <1>2, <1>4, <2>1 DEF Apart, Locking, Making, NoRequest, Begun
  <2>3. Knows(d)' /\ \A f \in Requests \ {c, d} : Apart(d, f)'
    BY <1>2, <1>4
       DEF AccountsInv, Stages, Knows, Exclusive, Apart, Locking, Making
  <2>4. QED
    BY <2>2, <2>3
<1>5. Stages' /\ Exclusive'
  BY <1>3, <1>4 DEF Stages, Exclusive
<1>6. req' \in [Requests -> Request]
  BY <1>1 DEF Moves
<1>7. QED
  BY <1>2, <1>3, <1>4, <1>5, <1>6

\* A request that ends without a commit leaves the tables to the others.
LEMMA QuietEnd ==
    ASSUME AccountsInv, NEW c \in Requests, End(c),
           UNCHANGED <<googleOnly, status, google, email, sessions, claim>>
    PROVE  AccountsInv'
<1>1. Moves(c, req'[c].pc)
  BY StageSteps DEF AccountsInv, Moves
<1>2. QED
  BY <1>1, Ends, OnlyMoves

\* A request that starts holds no lock and no id.
LEMMA Starts ==
    ASSUME AccountsInv, NEW c \in Requests, NEW r \in Request,
           req' = [req EXCEPT ![c] = r],
           UNCHANGED <<googleOnly, status, google, email, sessions, claim>>,
           r.pc \in {"free", "matched", "subject"}, r.email \in Emails,
           ~ r.linked, r.pc = "subject" => r.subject \in Subjects,
           r.pc # "subject" => ~ googleOnly,
           \/ r.pc # "matched" /\ r.user = None
           \/ /\ r.pc = "matched" /\ r.user \in Users
              /\ status[r.user] # "none" /\ ~ Linked(r.user)
    PROVE  AccountsInv'
<1>1. /\ req' \in [Requests -> Request] /\ req'[c] = r
      /\ \A d \in Requests : d # c => req'[d] = req[d]
  BY DEF AccountsInv, AccountsTypeOK
<1>2. Knows(c)' /\ StillTrue(c)'
  BY <1>1 DEF Knows, StillTrue, Locking, Making, Linked
<1>3. ASSUME NEW d \in Requests, d # c PROVE Apart(c, d)' /\ Apart(d, c)'
  <2>1. Making(d) => req[d].user \in Users /\ status[req[d].user] = "none"
    BY DEF AccountsInv, Stages, Knows, Decided, StillTrue
  <2>2. Making(d) => req[d].user # r.user
    BY <2>1, AccountsAssumption
  <2>3. QED
    BY <1>1, <1>3, <2>2 DEF Apart, Locking, Making
<1>4. QED
  BY <1>1, <1>2, <1>3, OnlyMoves DEF Moves

\* What a request begins with.
LEMMA BegunIs ==
    ASSUME NEW pc \in {"free", "matched", "subject"}, NEW e \in Emails,
           NEW s \in Subjects \cup {None}, NEW u \in Users \cup {None}
    PROVE  LET r == Begun(pc, e, s, u)
           IN  /\ r \in Request /\ r.pc = pc /\ r.email = e
               /\ r.subject = s /\ r.user = u /\ ~ r.linked
BY DEF Begun, Request

\* Registration, a login with a password and a Google sign-in begin.
LEMMA BeginStep ==
    ASSUME AccountsInv, NEW c \in Requests, NEW e \in Emails,
           \/ Register(c, e) \/ Login(c, e)
           \/ \E s \in Subjects : LockSubject(c, s, e)
    PROVE  AccountsInv'
<1>1. CASE Register(c, e)
  <2> DEFINE r == Begun("free", e, None, None)
  <2>1. /\ r \in Request /\ r.pc = "free" /\ r.email = e /\ r.user = None
        /\ ~ r.linked
    BY BegunIs
  <2>2. req' = [req EXCEPT ![c] = r] /\ ~ googleOnly
    BY <1>1 DEF Register
  <2>3. UNCHANGED <<googleOnly, status, google, email, sessions, claim>>
    BY <1>1 DEF Register
  <2> HIDE DEF r
  <2>4. QED
    BY <2>1, <2>2, <2>3, Starts
<1>2. CASE Login(c, e)
  <2>1. /\ email[e].user \in Users /\ status[email[e].user] = "active"
        /\ ~ Linked(email[e].user)
    BY <1>2
       DEF Login, AccountsInv, AccountsTypeOK, Identity, GoogleMeansNoPassword
  <2> DEFINE r == Begun("matched", e, None, email[e].user)
  <2>2. /\ r \in Request /\ r.pc = "matched" /\ r.email = e
        /\ r.user = email[e].user /\ ~ r.linked
    BY <2>1, BegunIs
  <2>3. req' = [req EXCEPT ![c] = r] /\ ~ googleOnly
    BY <1>2 DEF Login
  <2>4. UNCHANGED <<googleOnly, status, google, email, sessions, claim>>
    BY <1>2 DEF Login
  <2> HIDE DEF r
  <2>5. QED
    BY <2>1, <2>2, <2>3, <2>4, Starts
<1>3. ASSUME NEW s \in Subjects, LockSubject(c, s, e) PROVE AccountsInv'
  <2> DEFINE r == Begun("subject", e, s, None)
  <2>1. /\ r \in Request /\ r.pc = "subject" /\ r.email = e
        /\ r.subject = s /\ r.user = None /\ ~ r.linked
    BY BegunIs
  <2>2. req' = [req EXCEPT ![c] = r]
    BY <1>3 DEF LockSubject
  <2>3. UNCHANGED <<googleOnly, status, google, email, sessions, claim>>
    BY <1>3 DEF LockSubject
  <2> HIDE DEF r
  <2>4. QED
    BY <2>1, <2>2, <2>3, Starts
<1>4. QED
  BY <1>1, <1>2, <1>3

\* A new id is not the user of any request, nor of any identity.
LEMMA FreshIsApart ==
    ASSUME AccountsInv, NEW u \in Users, Fresh(u)
    PROVE  /\ status[u] = "none" /\ ~ Linked(u)
           /\ \A e \in Emails : email[e].user # u
           /\ \A d \in Requests : req[d].user # u
BY DEF AccountsInv, Rows, Fresh

\* The insert of a registration takes a new id.
LEMMA RegisterInsertStep ==
    ASSUME AccountsInv, NEW c \in Requests, RegisterInsert(c)
    PROVE  AccountsInv'
<1>1. CASE End(c)
  BY <1>1, QuietEnd DEF RegisterInsert
<1>2. ASSUME NEW u \in Users, Fresh(u),
             req' = [req EXCEPT ![c].pc = "registered", ![c].user = u]
      PROVE  AccountsInv'
  <2>1. /\ Moves(c, "registered") /\ req'[c].email = req[c].email
        /\ req'[c].user = u /\ req'[c].linked = req[c].linked
    BY <1>2, StageSteps DEF AccountsInv
  <2>2. /\ req[c].pc = "free" /\ ~ req[c].linked /\ ~ googleOnly
        /\ req[c].email \in Emails
    BY DEF RegisterInsert, AccountsInv, Stages, Knows
  <2>3. UNCHANGED <<googleOnly, status, google, email, sessions, claim>>
    BY DEF RegisterInsert
  <2>4. Knows(c)' /\ StillTrue(c)'
    BY <1>2, <2>1, <2>2, <2>3, FreshIsApart
       DEF Knows, StillTrue, Moves, Locking, Making
  <2>5. ASSUME NEW d \in Requests, d # c PROVE Apart(c, d)' /\ Apart(d, c)'
    BY <1>2, <2>1, <2>2, <2>5, FreshIsApart
       DEF Apart, Moves, Locking, Making
  <2>6. QED
    BY <2>1, <2>3, <2>4, <2>5, OnlyMoves DEF Moves
<1>3. QED
  BY <1>1, <1>2 DEF RegisterInsert

\* What the invariant says of a request that is not yet making or linking.
LEMMA Undecided ==
    ASSUME AccountsInv, NEW c \in Requests,
           req[c].pc \in {"subject", "email", "unknown"}
    PROVE  /\ ~ req[c].linked /\ req[c].email \in Emails
           /\ req[c].subject \in Subjects
BY DEF AccountsInv, Stages, Knows, Locking

\* Nobody makes an account that is there.
LEMMA MakesNone ==
    ASSUME AccountsInv, NEW d \in Requests, Making(d)
    PROVE  req[d].user \in Users /\ status[req[d].user] = "none"
BY DEF AccountsInv, Stages, Knows, Decided, StillTrue

\* A sign-in takes the lock of its address when nobody holds it.
LEMMA LockEmailStep ==
    ASSUME AccountsInv, NEW c \in Requests, LockEmail(c)
    PROVE  AccountsInv'
<1>1. /\ Moves(c, "email") /\ req'[c].email = req[c].email
      /\ req'[c].subject = req[c].subject /\ req'[c].user = req[c].user
      /\ req'[c].linked = req[c].linked
  BY StageSteps DEF LockEmail, AccountsInv
<1>2. req[c].pc = "subject" /\ ~ EmailHeld(req[c].email)
      /\ UNCHANGED <<googleOnly, status, google, email, sessions, claim>>
  BY DEF LockEmail
<1>3. Knows(c)' /\ StillTrue(c)'
  BY <1>1, <1>2, Undecided DEF Knows, StillTrue, Moves, Locking, Making
<1>4. ASSUME NEW d \in Requests, d # c PROVE Apart(c, d)' /\ Apart(d, c)'
  <2>1. Locking(d) => req[d].email # req[c].email
    BY <1>2 DEF EmailHeld, Locking
  <2>2. Apart(c, d) /\ Apart(d, c)
    BY <1>4 DEF AccountsInv, Exclusive
  <2>3. QED
    BY <1>1, <1>2, <1>4, <2>1, <2>2, Undecided
       DEF Apart, Moves, Locking, Making
<1>5. QED
  BY <1>1, <1>2, <1>3, <1>4, OnlyMoves DEF Moves

\* A sign-in looks its subject up.
LEMMA FindSubjectStep ==
    ASSUME AccountsInv, NEW c \in Requests, FindSubject(c)
    PROVE  AccountsInv'
<1> DEFINE u == google[req[c].subject]
<1>1. req[c].pc = "email"
      /\ UNCHANGED <<googleOnly, status, google, email, sessions, claim>>
  BY DEF FindSubject
<1>2. u \in Users \cup {None}
  BY <1>1, Undecided DEF AccountsInv, AccountsTypeOK
<1>3. CASE End(c)
  BY <1>1, <1>3, QuietEnd
<1>4. ASSUME Moves(c, req'[c].pc), req'[c].pc \in {"known", "unknown"},
             req'[c].email = req[c].email, req'[c].subject = req[c].subject,
             req'[c].linked = req[c].linked,
             \/ req'[c].pc = "unknown" /\ req'[c].user = req[c].user
             \/ /\ req'[c].pc = "known" /\ req'[c].user \in Users
                /\ status[req'[c].user] = "active"
      PROVE  AccountsInv'
  <2>1. Knows(c)' /\ StillTrue(c)'
    BY <1>1, <1>4, Undecided DEF Knows, StillTrue, Locking, Making
  <2>2. ASSUME NEW d \in Requests, d # c PROVE Apart(c, d)' /\ Apart(d, c)'
    <3>1. Apart(c, d) /\ Apart(d, c)
      BY <2>2 DEF AccountsInv, Exclusive
    <3>2. Making(d) => req'[c].user # req[d].user
      BY <1>4, <3>1, MakesNone DEF Apart
    <3>3. QED
      BY <1>1, <1>4, <2>2, <3>1, <3>2, Undecided
         DEF Apart, Moves, Locking, Making
  <2>3. QED
    BY <1>1, <1>4, <2>1, <2>2, OnlyMoves
<1>5. CASE Step(c, "unknown")
  <2>1. /\ Moves(c, "unknown") /\ req'[c].email = req[c].email
        /\ req'[c].subject = req[c].subject /\ req'[c].user = req[c].user
        /\ req'[c].linked = req[c].linked
    BY <1>5, StageSteps DEF AccountsInv
  <2>2. QED
    BY <1>4, <2>1 DEF Moves
<1>6. CASE /\ u # None /\ status[u] = "active"
           /\ req' = [req EXCEPT ![c].pc = "known", ![c].user = u]
  <2>1. /\ Moves(c, "known") /\ req'[c].email = req[c].email
        /\ req'[c].subject = req[c].subject /\ req'[c].user = u
        /\ req'[c].linked = req[c].linked
    BY <1>2, <1>6, StageSteps DEF AccountsInv
  <2>2. QED
    BY <1>2, <1>4, <1>6, <2>1 DEF Moves
<1>7. QED
  BY <1>3, <1>5, <1>6 DEF FindSubject

\* A sign-in looks its address up, and decides what to make or to link.
LEMMA FindEmailStep ==
    ASSUME AccountsInv, NEW c \in Requests, NEW authoritative,
           FindEmail(c, authoritative)
    PROVE  AccountsInv'
<1> DEFINE u == email[req[c].email].user
<1>1. req[c].pc = "unknown"
      /\ UNCHANGED <<googleOnly, status, google, email, sessions, claim>>
  BY DEF FindEmail
<1>2. u \in Users \cup {None}
  BY <1>1, Undecided DEF AccountsInv, AccountsTypeOK, Identity
<1>3. CASE End(c)
  BY <1>1, <1>3, QuietEnd
<1>4. ASSUME u = None, NEW v \in Users, Fresh(v),
             req' = [req EXCEPT ![c].pc = "creating", ![c].user = v]
      PROVE  AccountsInv'
  <2>1. /\ Moves(c, "creating") /\ req'[c].email = req[c].email
        /\ req'[c].subject = req[c].subject /\ req'[c].user = v
        /\ req'[c].linked = req[c].linked
    BY <1>4, StageSteps DEF AccountsInv
  <2>2. Knows(c)' /\ StillTrue(c)'
    BY <1>1, <1>4, <2>1, Undecided, FreshIsApart
       DEF Knows, StillTrue, Moves, Locking, Making
  <2>3. ASSUME NEW d \in Requests, d # c PROVE Apart(c, d)' /\ Apart(d, c)'
    <3>1. Apart(c, d) /\ Apart(d, c) /\ req[d].user # v
      BY <1>4, <2>3, FreshIsApart DEF AccountsInv, Exclusive
    <3>2. QED
      BY <1>1, <2>1, <2>3, <3>1, Undecided DEF Apart, Moves, Locking, Making
  <2>4. QED
    BY <1>1, <2>1, <2>2, <2>3, OnlyMoves DEF Moves
<1>5. ASSUME u # None, MayLink(u, authoritative), ~ UserHeld(u),
             req' = [req EXCEPT ![c].pc = "linking", ![c].user = u,
                                ![c].linked = TRUE]
      PROVE  AccountsInv'
  <2>1. /\ Moves(c, "linking") /\ req'[c].email = req[c].email
        /\ req'[c].subject = req[c].subject /\ req'[c].user = u
        /\ req'[c].linked
    BY <1>2, <1>5, StageSteps DEF AccountsInv
  <2>2. u \in Users /\ status[u] = "active" /\ ~ Linked(u) /\ googleOnly
    BY <1>2, <1>5 DEF MayLink
  <2>3. Knows(c)' /\ StillTrue(c)'
    BY <1>1, <2>1, <2>2, Undecided
       DEF Knows, StillTrue, Moves, Locking, Making, Linked
  <2>4. ASSUME NEW d \in Requests, d # c PROVE Apart(c, d)' /\ Apart(d, c)'
    <3>1. Apart(c, d) /\ Apart(d, c)
      BY <2>4 DEF AccountsInv, Exclusive
    <3>2. /\ req[d].linked => req[d].user # u
          /\ Making(d) => req[d].user # u
      BY <1>5, <2>2, MakesNone DEF UserHeld
    <3>3. QED
      BY <1>1, <2>1, <2>4, <3>1, <3>2, Undecided
         DEF Apart, Moves, Locking, Making
  <2>5. QED
    BY <1>1, <2>1, <2>3, <2>4, OnlyMoves DEF Moves
<1>6. QED
  BY <1>3, <1>4, <1>5 DEF FindEmail

\* A sign-in takes the key of its address.
LEMMA ClaimEmailStep ==
    ASSUME AccountsInv, NEW c \in Requests, ClaimEmail(c)
    PROVE  AccountsInv'
<1>1. /\ Moves(c, "claimed") /\ req'[c].email = req[c].email
      /\ req'[c].subject = req[c].subject /\ req'[c].user = req[c].user
      /\ req'[c].linked = req[c].linked
  BY StageSteps DEF ClaimEmail, AccountsInv
<1>2. /\ req[c].pc \in {"creating", "linking"}
      /\ UNCHANGED <<googleOnly, status, google, email, sessions, claim>>
  BY DEF ClaimEmail
<1>3. Knows(c) /\ StillTrue(c)
  BY DEF AccountsInv, Stages, Decided
<1>4. Making(c)' <=> Making(c)
  BY <1>1, <1>2, <1>3 DEF Making, Moves, Knows
<1>5. Locking(c)' /\ Locking(c)
  BY <1>1, <1>2 DEF Locking, Moves
<1>6. Knows(c)' /\ StillTrue(c)'
  BY <1>1, <1>2, <1>3, <1>4, <1>5 DEF Knows, StillTrue, Moves, Linked
<1>7. ASSUME NEW d \in Requests, d # c PROVE Apart(c, d)' /\ Apart(d, c)'
  <2>1. Apart(c, d) /\ Apart(d, c) /\ req'[d] = req[d]
    BY <1>1, <1>7 DEF AccountsInv, Exclusive, Moves
  <2>2. (Making(d)' <=> Making(d)) /\ (Locking(d)' <=> Locking(d))
    BY <2>1 DEF Making, Locking
  <2>3. QED
    BY <1>1, <1>4, <1>5, <2>1, <2>2 DEF Apart
<1>8. QED
  BY <1>1, <1>2, <1>6, <1>7, OnlyMoves DEF Moves

----------------------------------------------------------------------------

\* A registration commits: the address has nobody's identity but the new one.
LEMMA RegisterCommitStep ==
    ASSUME AccountsInv, NEW c \in Requests, RegisterCommit(c)
    PROVE  AccountsInv'
<1> DEFINE e == req[c].email
           u == req[c].user
<1>1. /\ Making(c) /\ ~ googleOnly /\ e \in Emails /\ u \in Users
      /\ status[u] = "none" /\ ~ Linked(u)
      /\ \A f \in Emails : email[f].user # u
  BY DEF RegisterCommit, Making, AccountsInv, Stages, Knows, Decided,
         StillTrue, Rows
<1>2. /\ status' = [status EXCEPT ![u] = "active"]
      /\ email' = [email EXCEPT ![e] = [user |-> u, password |-> TRUE]]
      /\ sessions' = [sessions EXCEPT ![u] = {"email"}]
      /\ claim' = [claim EXCEPT ![u] = e]
      /\ End(c) /\ google' = google /\ googleOnly' = googleOnly
  BY DEF RegisterCommit
<1>3. AccountsTypeOK
  BY DEF AccountsInv
<1>4. AccountsTypeOK'
  <2>1. [user |-> u, password |-> TRUE] \in Identity
    BY <1>1 DEF Identity
  <2>2. email' \in [Emails -> Identity]
    BY <1>1, <1>2, <1>3, <2>1 DEF AccountsTypeOK
  <2>3. \A f \in Emails : email'[f].password => email'[f].user # None
    BY <1>1, <1>2, <1>3, AccountsAssumption DEF AccountsTypeOK
  <2>4. /\ status' \in [Users -> {"none", "active", "suspended"}]
        /\ sessions' \in [Users -> SUBSET {"email", "google"}]
        /\ claim' \in [Users -> Emails \cup {None}]
        /\ \A w \in Users : status'[w] = "none" => sessions'[w] = {}
    BY <1>1, <1>2, <1>3 DEF AccountsTypeOK
  <2>5. QED
    BY <1>2, <1>3, <2>2, <2>3, <2>4, Ends DEF AccountsTypeOK
<1>5. \A w \in Users : Linked(w)' <=> Linked(w)
  BY <1>2 DEF Linked
<1>6. \A f \in Emails : email'[f].user = IF f = e THEN u ELSE email[f].user
  BY <1>1, <1>2, <1>3 DEF AccountsTypeOK
<1>7. \A w \in Users : status'[w] = IF w = u THEN "active" ELSE status[w]
  BY <1>1, <1>2, <1>3 DEF AccountsTypeOK
<1>8. Rows'
  BY <1>1, <1>5, <1>6, <1>7 DEF AccountsInv, Rows
<1>9. Decided'
  <2>1. ASSUME NEW d \in Requests, d # c PROVE StillTrue(d)'
    <3>1. /\ req'[d] = req[d] /\ ~ req[d].linked /\ StillTrue(d)
          /\ Making(d) \/ req[d].pc \in {"matched", "known"} =>
                 req[d].user \in Users
          /\ req[d].user # u
      BY <1>1, <1>2, <2>1, Ends
         DEF AccountsInv, Decided, Stages, Knows, Exclusive, Apart
    <3>2. Making(d)' <=> Making(d)
      BY <3>1 DEF Making
    <3>3. QED
      BY <1>1, <1>2, <1>5, <1>7, <3>1, <3>2 DEF StillTrue
  <2>2. QED
    BY <1>2, <2>1, Ends DEF Decided
<1>10. GoogleOnePerAddress'
  BY <1>1, <1>2 DEF GoogleOnePerAddress
<1>11. GoogleMeansNoPassword'
  BY <1>1, <1>2, <1>3, <1>5, <1>6
     DEF AccountsInv, GoogleMeansNoPassword, AccountsTypeOK
<1>12. QED
  BY <1>2, <1>4, <1>8, <1>9, <1>10, <1>11, Ends DEF AccountsInv

\* A step that writes refresh tokens alone, and none that a password opened
\* for an account with a Google subject.
LEMMA OnlySessions ==
    ASSUME AccountsInv, req' = req \/ \E c \in Requests : End(c),
           UNCHANGED <<googleOnly, status, google, email, claim>>,
           sessions' \in [Users -> SUBSET {"email", "google"}],
           \A w \in Users : status[w] = "none" => sessions'[w] = {},
           \A w \in Users : Linked(w) /\ "email" \in sessions'[w] =>
               "email" \in sessions[w]
    PROVE  AccountsInv'
<1>1. AccountsTypeOK' /\ Stages' /\ Exclusive'
  <2>1. CASE \E c \in Requests : End(c)
    BY <2>1, Ends DEF AccountsInv, AccountsTypeOK
  <2>2. CASE req' = req
    BY <2>2
       DEF AccountsInv, AccountsTypeOK, Stages, Knows, Exclusive, Apart,
           Locking, Making
  <2>3. QED
    BY <2>1, <2>2
<1>2. ASSUME NEW d \in Requests PROVE StillTrue(d)'
  <2>1. CASE End(d)
    BY <2>1, Ends
  <2>2. CASE req'[d] = req[d]
    BY <2>2 DEF AccountsInv, Decided, StillTrue, Making, Linked
  <2>3. QED
    BY <2>1, <2>2, Ends
<1>3. Rows' /\ GoogleOnePerAddress' /\ GoogleMeansNoPassword'
  BY DEF AccountsInv, Rows, GoogleOnePerAddress, OneAccountPerAddress,
         GoogleMeansNoPassword, Linked
<1>4. QED
  BY <1>1, <1>2, <1>3 DEF AccountsInv, Decided

\* A login opens a session of an account that no link has reached.
LEMMA LoginCommitStep ==
    ASSUME AccountsInv, NEW c \in Requests, LoginCommit(c)
    PROVE  AccountsInv'
<1> DEFINE u == req[c].user
<1>1. u \in Users /\ status[u] # "none" /\ ~ Linked(u)
  BY DEF LoginCommit, AccountsInv, Stages, Knows, Decided, StillTrue
<1>2. /\ sessions' = [sessions EXCEPT ![u] = @ \cup {"email"}] /\ End(c)
      /\ UNCHANGED <<googleOnly, status, google, email, claim>>
  BY DEF LoginCommit
<1>3. /\ sessions' \in [Users -> SUBSET {"email", "google"}]
      /\ \A w \in Users : w # u => sessions'[w] = sessions[w]
  BY <1>1, <1>2 DEF AccountsInv, AccountsTypeOK
<1>4. \A w \in Users : status[w] = "none" => sessions'[w] = {}
  BY <1>1, <1>3 DEF AccountsInv, AccountsTypeOK
<1>5. QED
  BY <1>1, <1>2, <1>3, <1>4, OnlySessions

\* A sign-in of an account that Google knows opens a session of Google's.
LEMMA KnownCommitStep ==
    ASSUME AccountsInv, NEW c \in Requests, KnownCommit(c)
    PROVE  AccountsInv'
<1> DEFINE u == req[c].user
<1>1. u \in Users /\ status[u] # "none" /\ ~ req[c].linked
  BY DEF KnownCommit, AccountsInv, Stages, Knows, Decided, StillTrue
<1>2. /\ sessions' = [sessions EXCEPT ![u] = @ \cup {"google"}] /\ End(c)
      /\ UNCHANGED <<googleOnly, status, google, email, claim>>
  BY <1>1 DEF KnownCommit, Issued
<1>3. /\ sessions' \in [Users -> SUBSET {"email", "google"}]
      /\ \A w \in Users : w # u => sessions'[w] = sessions[w]
      /\ "email" \in sessions'[u] => "email" \in sessions[u]
  BY <1>1, <1>2 DEF AccountsInv, AccountsTypeOK
<1>4. \A w \in Users : status[w] = "none" => sessions'[w] = {}
  BY <1>1, <1>3 DEF AccountsInv, AccountsTypeOK
<1>5. \A w \in Users : "email" \in sessions'[w] => "email" \in sessions[w]
  BY <1>3
<1>6. QED
  BY <1>2, <1>3, <1>4, <1>5, OnlySessions

\* Sessions of one method end.
LEMMA EndSessionsStep ==
    ASSUME AccountsInv, NEW u \in Users, NEW m \in {"email", "google"},
           EndSessions(u, m)
    PROVE  AccountsInv'
<1>1. /\ sessions' = [sessions EXCEPT ![u] = @ \ {m}] /\ req' = req
      /\ UNCHANGED <<googleOnly, status, google, email, claim>>
  BY DEF EndSessions
<1>2. /\ sessions' \in [Users -> SUBSET {"email", "google"}]
      /\ \A w \in Users : sessions'[w] \subseteq sessions[w]
  BY <1>1 DEF AccountsInv, AccountsTypeOK
<1>3. \A w \in Users : status[w] = "none" => sessions'[w] = {}
  BY <1>2 DEF AccountsInv, AccountsTypeOK
<1>4. QED
  BY <1>1, <1>2, <1>3, OnlySessions

\* A moderator's decision waits for whoever is linking the account.
LEMMA SuspendStep ==
    ASSUME AccountsInv, NEW u \in Users, SuspendAccount(u)
    PROVE  AccountsInv'
<1>1. /\ status[u] = "active" /\ ~ UserHeld(u)
      /\ status' = [status EXCEPT ![u] = "suspended"]
      /\ UNCHANGED <<googleOnly, google, email, sessions, req, claim>>
  BY DEF SuspendAccount
<1>2. ASSUME NEW w \in Users
      PROVE  /\ status'[w] = "none" <=> status[w] = "none"
             /\ w # u => status'[w] = status[w]
  <2>1. status'[w] = IF w = u THEN "suspended" ELSE status[w]
    BY <1>1 DEF AccountsInv, AccountsTypeOK
  <2>2. QED
    BY <1>1, <2>1
<1>3. AccountsTypeOK'
  BY <1>1, <1>2 DEF AccountsInv, AccountsTypeOK
<1>4. Stages' /\ Exclusive'
  BY <1>1
     DEF AccountsInv, Stages, Knows, Exclusive, Apart, Locking, Making
<1>5. ASSUME NEW d \in Requests PROVE StillTrue(d)'
  <2>1. req[d].linked => req[d].user # u
    BY <1>1 DEF UserHeld
  <2>2. Knows(d) /\ StillTrue(d)
    BY DEF AccountsInv, Stages, Decided
  <2>3. QED
    BY <1>1, <1>2, <2>1, <2>2 DEF Knows, StillTrue, Making, Linked
<1>6. Rows' /\ GoogleOnePerAddress' /\ GoogleMeansNoPassword'
  BY <1>1, <1>2
     DEF AccountsInv, Rows, GoogleOnePerAddress, OneAccountPerAddress,
         GoogleMeansNoPassword, Linked
<1>7. QED
  BY <1>3, <1>4, <1>5, <1>6 DEF AccountsInv, Decided
\* What a Google sign-in finds when it commits: an account that is yet to be
\* made, or the one behind its address, with no Google subject either way.
LEMMA Claims ==
    ASSUME AccountsInv, NEW c \in Requests, req[c].pc = "claimed"
    PROVE  /\ req[c].email \in Emails /\ req[c].subject \in Subjects
           /\ req[c].user \in Users /\ ~ Linked(req[c].user)
           /\ status[req[c].user] # "suspended"
           /\ IF req[c].linked
              THEN /\ status[req[c].user] = "active" /\ googleOnly
                   /\ email[req[c].email].user = req[c].user
              ELSE /\ status[req[c].user] = "none"
                   /\ googleOnly => email[req[c].email].user = None
                   /\ sessions[req[c].user] = {}
                   /\ \A e \in Emails : email[e].user # req[c].user
<1>1. Knows(c) /\ StillTrue(c) /\ Locking(c)
      /\ (Making(c) <=> ~ req[c].linked)
  BY DEF AccountsInv, Stages, Decided, Locking, Making
<1>2. req[c].email \in Emails /\ req[c].subject \in Subjects
      /\ req[c].user \in Users
  BY <1>1 DEF Knows
<1>3. CASE req[c].linked
  BY <1>1, <1>2, <1>3 DEF Knows, StillTrue
<1>4. CASE ~ req[c].linked
  BY <1>1, <1>2, <1>4
     DEF StillTrue, AccountsInv, Rows, AccountsTypeOK
<1>5. QED
  BY <1>3, <1>4

\* A Google sign-in commits: the account has no password any more.
LEMMA GoogleCommitStep ==
    ASSUME AccountsInv, NEW c \in Requests, GoogleCommit(c)
    PROVE  AccountsInv'
<1> DEFINE e == req[c].email
           s == req[c].subject
           u == req[c].user
<1>1. /\ e \in Emails /\ s \in Subjects /\ u \in Users /\ ~ Linked(u)
      /\ IF req[c].linked
         THEN status[u] = "active" /\ googleOnly /\ email[e].user = u
         ELSE /\ status[u] = "none" /\ sessions[u] = {}
              /\ googleOnly => email[e].user = None
              /\ \A f \in Emails : email[f].user # u
  BY Claims DEF GoogleCommit
<1>2. /\ status' = [status EXCEPT ![u] = "active"]
      /\ google' = [google EXCEPT ![s] = u]
      /\ email' = [email EXCEPT ![e] = Upserted(email[e], u)]
      /\ sessions' = [sessions EXCEPT ![u] = {"google"}]
      /\ claim' = [claim EXCEPT ![u] = IF req[c].linked THEN claim[u] ELSE e]
      /\ End(c) /\ googleOnly' = googleOnly /\ req[c].pc = "claimed"
  BY <1>1 DEF GoogleCommit, Issued
<1>3. AccountsTypeOK
  BY DEF AccountsInv
<1>4. /\ Upserted(email[e], u) \in Identity
      /\ ~ Upserted(email[e], u).password
      /\ Upserted(email[e], u).user
             = IF email[e].user = None THEN u ELSE email[e].user
  BY <1>1, <1>3 DEF Upserted, Identity, AccountsTypeOK
<1>5. /\ \A f \in Emails : f # e => email'[f] = email[f]
      /\ email'[e].user = IF email[e].user = None THEN u ELSE email[e].user
      /\ ~ email'[e].password
  BY <1>1, <1>2, <1>3, <1>4 DEF AccountsTypeOK
<1>6. /\ \A w \in Users : w # u => /\ status'[w] = status[w]
                                   /\ sessions'[w] = sessions[w]
                                   /\ claim'[w] = claim[w]
      /\ status'[u] = "active" /\ sessions'[u] = {"google"}
      /\ claim'[u] = IF req[c].linked THEN claim[u] ELSE e
  BY <1>1, <1>2, <1>3 DEF AccountsTypeOK
<1>7. \A w \in Users : w # u => (Linked(w)' => Linked(w))
  BY <1>1, <1>2, <1>3 DEF Linked, AccountsTypeOK
<1>8. AccountsTypeOK'
  <2>1. email' \in [Emails -> Identity]
    BY <1>1, <1>2, <1>3, <1>4 DEF AccountsTypeOK
  <2>2. \A f \in Emails : email'[f].password => email'[f].user # None
    BY <1>3, <1>5 DEF AccountsTypeOK
  <2>3. /\ status' \in [Users -> {"none", "active", "suspended"}]
        /\ google' \in [Subjects -> Users \cup {None}]
        /\ sessions' \in [Users -> SUBSET {"email", "google"}]
    BY <1>1, <1>2, <1>3 DEF AccountsTypeOK
  <2>4. claim' \in [Users -> Emails \cup {None}]
    BY <1>1, <1>2, <1>3 DEF AccountsTypeOK
  <2>5. \A w \in Users : status'[w] = "none" => sessions'[w] = {}
    BY <1>3, <1>6 DEF AccountsTypeOK
  <2>6. QED
    BY <1>2, <1>3, <2>1, <2>2, <2>3, <2>4, <2>5, Ends DEF AccountsTypeOK
<1>9. Rows'
  <2>1. ASSUME NEW w \in Users, status'[w] = "none"
        PROVE  ~ Linked(w)' /\ \A f \in Emails : email'[f].user # w
    <3>1. w # u /\ status[w] = "none"
      BY <1>6, <2>1
    <3>2. ~ Linked(w) /\ \A f \in Emails : email[f].user # w
      BY <3>1 DEF AccountsInv, Rows
    <3>3. QED
      BY <1>5, <1>7, <3>1, <3>2
  <2>2. ASSUME NEW f \in Emails, NEW g \in Emails,
               email'[f].user = email'[g].user, email'[f].user # None
        PROVE  f = g
    <3>1. email[f].user = email[g].user /\ email[f].user # None => f = g
      BY DEF AccountsInv, Rows
    <3>2. QED
      BY <1>1, <1>5, <2>2, <3>1
  <2>3. QED
    BY <2>1, <2>2 DEF Rows
<1>10. ASSUME NEW d \in Requests, d # c PROVE StillTrue(d)'
  <2>1. /\ req'[d] = req[d] /\ Knows(d) /\ StillTrue(d)
        /\ Apart(c, d) /\ Apart(d, c)
    BY <1>2, <1>10, Ends
       DEF AccountsInv, Stages, Decided, Exclusive
  <2>2. Making(d)' <=> Making(d)
    BY <2>1 DEF Making
  <2>3. Locking(c) /\ (Making(c) <=> ~ req[c].linked)
    BY <1>2 DEF Locking, Making
  <2>4. CASE Making(d)
    <3>1. req[d].user \in Users /\ req[d].user # u /\ ~ req[d].linked
      BY <2>1, <2>4 DEF Knows, Apart, Making
    <3>2. googleOnly => Locking(d) /\ req[d].email # e
      BY <2>1, <2>3, <2>4 DEF Knows, Apart, Making, Locking
    <3>3. googleOnly => email'[req[d].email].user = None
      BY <1>5, <2>1, <2>4, <3>2 DEF StillTrue, Knows, Making
    <3>4. req[d].pc \notin {"matched", "known"}
      BY <2>4 DEF Making
    <3>5. QED
      BY <1>2, <1>6, <2>1, <2>2, <2>4, <3>1, <3>3, <3>4 DEF StillTrue
  <2>5. CASE req[d].linked
    <3>1. Locking(d) /\ ~ Making(d)
      BY <2>1, <2>5 DEF Knows, Locking, Making
    <3>2. req[d].user \in Users /\ req[d].email \in Emails
          /\ req[d].email # e /\ status[req[d].user] = "active"
          /\ req[d].pc \notin {"matched", "known"}
      BY <2>1, <2>3, <2>5, <3>1 DEF Knows, Apart, StillTrue, Locking
    <3>3. req[d].user # u
      BY <1>1, <2>1, <2>5, <3>2 DEF Apart
    <3>4. QED
      BY <1>2, <1>5, <1>6, <1>7, <2>1, <2>2, <2>5, <3>1, <3>2, <3>3
         DEF StillTrue
  <2>6. CASE ~ Making(d) /\ ~ req[d].linked
    <3>1. ASSUME req[d].pc \in {"matched", "known"}
          PROVE  req[d].user \in Users /\ status'[req[d].user] # "none"
      BY <1>6, <2>1, <3>1 DEF Knows, StillTrue
    <3>2. ASSUME req[d].pc = "matched" PROVE ~ Linked(req[d].user)'
      <4>1. ~ googleOnly /\ ~ Linked(req[d].user) /\ req[d].user \in Users
            /\ status[req[d].user] # "none"
        BY <2>1, <3>2 DEF Knows, StillTrue
      <4>2. req[d].user # u
        BY <1>1, <4>1
      <4>3. QED
        BY <1>7, <2>1, <4>1, <4>2 DEF Linked
    <3>3. QED
      BY <2>1, <2>2, <2>6, <3>1, <3>2 DEF StillTrue, Linked
  <2>7. QED
    BY <2>4, <2>5, <2>6
<1>11. GoogleOnePerAddress'
  <2> SUFFICES ASSUME googleOnly, NEW w \in Users, claim'[w] # None
               PROVE  email'[claim'[w]].user = w
    BY <1>2 DEF GoogleOnePerAddress, OneAccountPerAddress
  <2>1. claim[w] # None => email[claim[w]].user = w /\ claim[w] \in Emails
    BY <1>3 DEF AccountsInv, AccountsTypeOK, GoogleOnePerAddress,
                OneAccountPerAddress
  <2>2. CASE w = u /\ ~ req[c].linked
    BY <1>1, <1>5, <1>6, <2>2
  <2>3. CASE claim'[w] = claim[w]
    BY <1>1, <1>5, <2>1, <2>3, AccountsAssumption
  <2>4. QED
    BY <1>6, <2>2, <2>3
<1>12. GoogleMeansNoPassword'
  <2> SUFFICES ASSUME NEW w \in Users, Linked(w)'
               PROVE  /\ "email" \notin sessions'[w]
                      /\ \A f \in Emails :
                             email'[f].user = w => ~ email'[f].password
    BY DEF GoogleMeansNoPassword
  <2>1. CASE w = u
    <3>1. ASSUME NEW f \in Emails, f # e PROVE email[f].user # u
      BY <1>1, <3>1, AccountsAssumption DEF AccountsInv, Rows
    <3>2. QED
      BY <1>5, <1>6, <2>1, <3>1
  <2>2. CASE w # u
    BY <1>5, <1>6, <1>7, <2>2 DEF AccountsInv, GoogleMeansNoPassword
  <2>3. QED
    BY <2>1, <2>2
<1>13. QED
  BY <1>2, <1>8, <1>9, <1>10, <1>11, <1>12, Ends DEF AccountsInv, Decided

\* Every step keeps the invariant.
LEMMA AccountsInvStep ==
    AccountsInv /\ [AccountsNext]_accountVars => AccountsInv'
<1> SUFFICES ASSUME AccountsInv, [AccountsNext]_accountVars PROVE AccountsInv'
  OBVIOUS
<1>1. ASSUME NEW c \in Requests, AbortRequest(c) PROVE AccountsInv'
  BY <1>1, QuietEnd DEF AbortRequest
<1>2. CASE AccountsNext
  BY <1>1, <1>2, BeginStep, FindEmailStep, RegisterInsertStep,
     RegisterCommitStep, LoginCommitStep, LockEmailStep, FindSubjectStep,
     ClaimEmailStep, GoogleCommitStep, KnownCommitStep, SuspendStep,
     EndSessionsStep
     DEF AccountsNext
<1>3. CASE UNCHANGED accountVars
  BY <1>3, OnlySessions DEF accountVars, AccountsInv, AccountsTypeOK
<1>4. QED
  BY <1>2, <1>3

\* The tables and the requests have their types: AccountsTypeOK.
THEOREM AccountsTypesCorrect == AccountsSpec => []AccountsTypeOK
<1>1. AccountsInv => AccountsTypeOK
  BY DEF AccountsInv
<1>2. QED
  BY <1>1, AccountsInvInit, AccountsInvStep, PTL DEF AccountsSpec

\* With Google sign-in alone an address leads to the account it was made for,
\* however many subjects claim it at once: GoogleOnePerAddress.
THEOREM OnePerAddressAlways == AccountsSpec => []GoogleOnePerAddress
<1>1. AccountsInv => GoogleOnePerAddress
  BY DEF AccountsInv
<1>2. QED
  BY <1>1, AccountsInvInit, AccountsInvStep, PTL DEF AccountsSpec

\* An account with a Google subject has no password, and no session that a
\* password opened: GoogleMeansNoPassword.
THEOREM PasswordsEndWithGoogle == AccountsSpec => []GoogleMeansNoPassword
<1>1. AccountsInv => GoogleMeansNoPassword
  BY DEF AccountsInv
<1>2. QED
  BY <1>1, AccountsInvInit, AccountsInvStep, PTL DEF AccountsSpec

\* Only the commit of a Google sign-in links a subject.
LEMMA OnlyGoogleLinks ==
    ASSUME AccountsNext, google' # google
    PROVE  \E c \in Requests : GoogleCommit(c)
BY DEF AccountsNext, Register, RegisterInsert, RegisterCommit, Login,
       LoginCommit, LockSubject, LockEmail, FindSubject, FindEmail,
       ClaimEmail, KnownCommit, AbortRequest, SuspendAccount, EndSessions

\* An account is linked to a subject only while it is active, and only to one,
\* whenever a moderator's decision falls: LinksOnlyActive.
THEOREM OnlyActiveLinked == AccountsSpec => LinksOnlyActive
<1> DEFINE Only == \A s \in Subjects, u \in Users :
                       google[s] = None /\ google'[s] = u =>
                           status[u] # "suspended" /\ ~ Linked(u)
<1>1. AccountsInv /\ [AccountsNext]_accountVars => [Only]_accountVars
  <2> SUFFICES ASSUME AccountsInv, AccountsNext, NEW s \in Subjects,
                      NEW u \in Users, google[s] = None, google'[s] = u
               PROVE  status[u] # "suspended" /\ ~ Linked(u)
    OBVIOUS
  <2>1. google' # google
    BY AccountsAssumption
  <2>2. PICK c \in Requests : GoogleCommit(c)
    BY <2>1, OnlyGoogleLinks
  <2>3. u = req[c].user
    BY <2>2, AccountsAssumption DEF GoogleCommit, AccountsInv, AccountsTypeOK
  <2>4. QED
    BY <2>2, <2>3, Claims DEF GoogleCommit
<1>2. QED
  BY <1>1, AccountsInvInit, AccountsInvStep, PTL
     DEF AccountsSpec, LinksOnlyActive
=============================================================================

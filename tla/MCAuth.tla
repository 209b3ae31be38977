------------------------------- MODULE MCAuth -------------------------------
(***************************************************************************)
(* An instance for TLC of the two modules about internal/auth.  They share *)
(* no variable: sign-ins are looked at beside a fresh family of tokens,    *)
(* and the family beside nobody signing in.                                *)
(***************************************************************************)
EXTENDS RefreshTokens, Accounts, TLC

Symmetry == Permutations(Requests) \cup Permutations(Users)

NobodySignsIn ==
    /\ googleOnly
    /\ status = [u \in Users |-> "none"]
    /\ req = [c \in Requests |-> NoRequest]

FamilyIsFresh ==
    /\ active /\ issued = 1 /\ expired = {}
    /\ ~ token[1].used /\ ~ token[1].revoked
    /\ call = [c \in Calls |-> Idle]

AuthInit == Init /\ AccountsInit

AuthNext ==
    \/ NobodySignsIn /\ Next /\ UNCHANGED accountVars
    \/ FamilyIsFresh /\ AccountsNext /\ UNCHANGED vars

AuthSpec == AuthInit /\ [][AuthNext]_<<vars, accountVars>>
=============================================================================

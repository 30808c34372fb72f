-------------------------------- MODULE Accounts --------------------------------
(***************************************************************************)
(* One user's account: Registration and TwoFactor on the same users row.    *)
(* They meet where the user signs in: login answers with a session's tokens *)
(* only when the factor is off, login-verify only when it is on and has a   *)
(* secret, and the two-factor routes are for users whom authenticate        *)
(* accepts.                                                                *)
(***************************************************************************)
EXTENDS Registration, TwoFactor, FiniteSets

CONSTANT InFlight  \* bound: requests of both kinds in progress at a time

accountVars == <<registrationVars, factorVars>>

Init == RegistrationInit /\ FactorInit

\* login without a second factor
PasswordLogin(r) == ~enabled /\ Login(r) /\ UNCHANGED factorVars

\* login with the factor enabled answers with a token for the second step, which
\* authenticate accepts as well.
PendingLogin ==
  /\ enabled /\ MayLogIn
  /\ access' = TRUE
  /\ UNCHANGED <<userVars, sessions, req, history, factorVars>>

\* login with the factor enabled, then login-verify: the TOTP code is right.
SecondFactorLogin(r) == enabled /\ secret # NoSecret /\ Login(r) /\ UNCHANGED factorVars

Busy == Cardinality({r \in Requests : req[r].at # "idle"}) + Cardinality({c \in Calls : call[c].at # "idle"})

AnyNext ==
  \/ RegistrationNext /\ UNCHANGED factorVars
  \/ PendingLogin
  \/ \E r \in Requests : PasswordLogin(r) \/ SecondFactorLogin(r)
  \/ \E c \in Calls :
        /\ (Authenticated /\ FactorReads(c)) \/ FactorWrites(c)
        /\ UNCHANGED registrationVars

\* At most InFlight requests in progress.
Next == AnyNext /\ Busy' <= InFlight

Spec == Init /\ [][Next]_accountVars

-----------------------------------------------------------------------------
(* Properties *)

\* Every variable of the account stays in its range.
TypeOK == RegistrationTypeOK /\ FactorTypeOK
=============================================================================

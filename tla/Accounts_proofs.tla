---------------------------- MODULE Accounts_proofs ----------------------------
(***************************************************************************)
(* For any number of requests, codes, sessions, secrets and backup codes:   *)
(* one verification is answered with tokens, nobody is signed in to an      *)
(* account without wallets unless a verification died, and the second       *)
(* factor is the proven one unless a route overwrote a change.             *)
(***************************************************************************)
EXTENDS Accounts, TLAPS

-----------------------------------------------------------------------------
(* Registration *)

\* A verification that is about to be answered has created the wallets, so no
\* other one gets there; a verified user has wallets, or a verification that
\* will create them, or one that died.
WelcomeInv ==
  /\ \A r \in Requests : req[r].at = "welcome" => wallets /\ welcomed = 0
  /\ \A r, q \in Requests : req[r].at = "welcome" /\ req[q].at = "welcome" => r = q
  /\ welcomed > 0 => wallets
  /\ welcomed < 2

VerifiedInv ==
  /\ status = "verified" => wallets \/ cut \/ Funding
  /\ sessions # {} \/ access => status = "verified"
  /\ \A r \in Requests : req[r].at \in {"fund", "tokens", "welcome"} => status = "verified"

RegInv == RegistrationTypeOK /\ WelcomeInv /\ VerifiedInv

LEMMA RegInit == RegistrationInit => RegInv
<1> SUFFICES ASSUME RegistrationInit PROVE RegInv
  OBVIOUS
<1>1. /\ \A r \in Requests : req[r] = Idle
      /\ req = [r \in Requests |-> Idle]
      /\ code = [c \in Codes |-> "expired"]
  BY DEF RegistrationInit
<1>0. /\ Idle.at = "idle"
      /\ Idle \in [at : {"idle", "register", "send", "verify", "fund", "welcome", "tokens"},
                   code : Codes \cup {NoCode}]
  BY DEF Idle
<1>2. RegistrationTypeOK
  <2>1. req \in [Requests -> [at : {"idle", "register", "send", "verify", "fund", "welcome", "tokens"},
                             code : Codes \cup {NoCode}]]
    BY <1>0, <1>1
  <2>2. code \in [Codes -> {"live", "used", "expired"}]
    BY <1>1
  <2>3. /\ status \in {"none", "pending", "verified"} /\ wallets \in BOOLEAN
        /\ sessions \subseteq Sessions /\ access \in BOOLEAN /\ cut \in BOOLEAN
    BY Zenon DEF RegistrationInit
  <2>4. welcomed \in 0..2
    BY DEF RegistrationInit
  <2>5. QED
    BY <2>1, <2>2, <2>3, <2>4 DEF RegistrationTypeOK
<1>3. WelcomeInv /\ VerifiedInv
  BY <1>0, <1>1 DEF RegistrationInit, WelcomeInv, VerifiedInv
<1>4. QED
  BY <1>2, <1>3 DEF RegInv

\* A request that is between its second transaction and its tokens, or about to
\* create the wallets, is the only thing these invariants look at in req.
LEMMA RequestMoves ==
  ASSUME RegInv, NEW r \in Requests, NEW at, NEW c \in Codes \cup {NoCode},
         at \in {"idle", "register", "send", "verify", "fund", "welcome", "tokens"},
         req' = [req EXCEPT ![r] = [at |-> at, code |-> c]]
  PROVE  /\ req'[r] = [at |-> at, code |-> c]
         /\ \A q \in Requests : q # r => req'[q] = req[q]
         /\ req' \in [Requests -> [at : {"idle", "register", "send", "verify", "fund", "welcome", "tokens"},
                                   code : Codes \cup {NoCode}]]
BY DEF RegInv, RegistrationTypeOK

LEMMA RegStep == RegInv /\ (RegistrationNext \/ \E r \in Requests : Login(r)) => RegInv'
<1> SUFFICES ASSUME RegInv, RegistrationNext \/ \E r \in Requests : Login(r) PROVE RegInv'
  OBVIOUS
<1> USE DEF RegInv, WelcomeInv, VerifiedInv, Funding, RegistrationTypeOK,
            userVars, signInVars, history, Carries, Goes, Ends
<1>0. /\ \A r \in Requests : req[r].code \in Codes \cup {NoCode}
      /\ NoCode \in Codes \cup {NoCode}
  OBVIOUS
<1>1. ASSUME NEW r \in Requests, CheckEmail(r) PROVE RegInv'
  BY <1>0, <1>1, RequestMoves DEF CheckEmail
<1>2. ASSUME NEW r \in Requests, InsertUser(r) PROVE RegInv'
  BY <1>0, <1>2, RequestMoves DEF InsertUser
<1>3. ASSUME NEW r \in Requests, Resend(r) PROVE RegInv'
  BY <1>0, <1>3, RequestMoves DEF Resend
<1>4. ASSUME NEW r \in Requests, UseCode(r) PROVE RegInv'
  BY <1>0, <1>4, RequestMoves DEF UseCode
<1>5. ASSUME NEW r \in Requests, CreateWallets(r) PROVE RegInv'
  <2>1. CASE wallets
    BY <1>0, <1>5, <2>1, RequestMoves DEF CreateWallets
  <2>2. CASE ~wallets
    <3>1. /\ wallets' = TRUE
          /\ req' = [req EXCEPT ![r] = [at |-> "welcome", code |-> req[r].code]]
          /\ UNCHANGED <<status, code, sessions, access, welcomed, cut>>
          /\ \A q \in Requests : req[q].at # "welcome"
          /\ welcomed = 0
      BY <1>5, <2>2 DEF CreateWallets
    <3>2. /\ req'[r].at = "welcome"
          /\ \A q \in Requests : q # r => req'[q] = req[q]
          /\ RegistrationTypeOK'
      BY <1>0, <3>1, RequestMoves
    <3>3. status = "verified"
      BY <1>5, <2>2, <3>1 DEF CreateWallets
    <3>4. QED
      BY <3>1, <3>2, <3>3
  <2>3. QED
    BY <2>1, <2>2
<1>6. ASSUME NEW r \in Requests, Refresh(r) PROVE RegInv'
  BY <1>0, <1>6, RequestMoves DEF Refresh
<1>7. ASSUME NEW r \in Requests, RequestDies(r) PROVE RegInv'
  <2>1. /\ req' = [req EXCEPT ![r] = [at |-> "idle", code |-> NoCode]]
        /\ UNCHANGED <<status, code, wallets, sessions, access, welcomed>>
        /\ cut' = (cut \/ (req[r].at = "fund" /\ ~wallets))
    BY <1>7 DEF RequestDies
  <2>2. /\ req'[r] = [at |-> "idle", code |-> NoCode]
        /\ \A q \in Requests : q # r => req'[q] = req[q]
        /\ RegistrationTypeOK'
    BY <1>0, <2>1, RequestMoves
  <2>3. WelcomeInv'
    BY <2>1, <2>2
  <2>4. Funding => Funding' \/ cut' \/ wallets'
    BY <2>1, <2>2
  <2>5. VerifiedInv'
    BY <2>1, <2>2, <2>4
  <2>6. QED
    BY <2>2, <2>3, <2>5
<1>8. ASSUME NEW r \in Requests, NEW c \in Codes, SendCode(r, c) PROVE RegInv'
  BY <1>0, <1>8, RequestMoves DEF SendCode
<1>9. ASSUME NEW r \in Requests, NEW c \in Codes \cup {NoCode}, CheckCode(r, c) PROVE RegInv'
  BY <1>0, <1>9, RequestMoves DEF CheckCode
<1>10. ASSUME NEW r \in Requests, NEW s \in Sessions, GenerateTokens(r, s) PROVE RegInv'
  BY <1>0, <1>10, RequestMoves DEF GenerateTokens
<1>11. ASSUME NEW c \in Codes, CodeExpires(c) PROVE RegInv'
  BY <1>11 DEF CodeExpires
<1>12. ASSUME NEW s \in Sessions, RevokeSession(s) PROVE RegInv'
  BY <1>12 DEF RevokeSession
<1>13. ASSUME Logout PROVE RegInv'
  BY <1>13 DEF Logout
<1>14. ASSUME ReplicaStarts PROVE RegInv'
  <2>1. /\ UNCHANGED access \/ access' = FALSE
        /\ UNCHANGED <<status, code, wallets, req, welcomed, cut>> /\ sessions' = {}
    BY <1>14 DEF ReplicaStarts
  <2>2. CASE UNCHANGED access
    BY <2>1, <2>2
  <2>3. CASE access' = FALSE
    BY <2>1, <2>3
  <2>4. QED
    BY <2>1, <2>2, <2>3
<1>15. ASSUME NEW r \in Requests, Login(r) PROVE RegInv'
  BY <1>0, <1>15, RequestMoves DEF Login, MayLogIn
<1>16. QED
  BY <1>1, <1>2, <1>3, <1>4, <1>5, <1>6, <1>7, <1>8, <1>9, <1>10, <1>11, <1>12,
     <1>13, <1>14, <1>15 DEF RegistrationNext

-----------------------------------------------------------------------------
(* TwoFactor *)

\* What a route read is what its guard asked for, and nothing accepted is still
\* in the row.
ReadInv ==
  /\ \A c \in Calls : call[c].at \in {"setup", "verify"} => ~call[c].enabled
  /\ \A c \in Calls : call[c].at = "verify" => call[c].secret # NoSecret
  /\ \A c \in Calls : call[c].at = "regenerate" => call[c].enabled
  /\ \A c \in Calls : call[c].at = "backup" => call[c].used # {}
  /\ ~stale => accepted \cap backup = {}

FactorInv == FactorTypeOK /\ ReadInv /\ FactorIsTheProvenOne

LEMMA FactorStarts == FactorInit => FactorInv
<1> SUFFICES ASSUME FactorInit PROVE FactorInv
  OBVIOUS
<1>1. NoCall \in [at : RoutesThatWait, enabled : BOOLEAN, secret : Secrets \cup {NoSecret},
                  backup : SUBSET BackupCodes, used : SUBSET BackupCodes]
  BY DEF NoCall, RoutesThatWait
<1>2. \A c \in Calls : call[c] = NoCall /\ NoCall.at = "idle" /\ NoCall.used = {}
  BY DEF FactorInit, NoCall
<1>3. call = [c \in Calls |-> NoCall] /\ secret = NoSecret /\ proven = NoSecret
  BY DEF FactorInit
<1>4. FactorTypeOK
  BY <1>1, <1>2, <1>3 DEF FactorInit, FactorTypeOK
<1>5. ReadInv /\ FactorIsTheProvenOne
  BY <1>2, <1>3 DEF FactorInit, ReadInv, FactorIsTheProvenOne
<1>6. QED
  BY <1>4, <1>5 DEF FactorInv

LEMMA BatchCodes == ASSUME NEW b \in Batches PROVE Batch(b) \subseteq BackupCodes
BY DEF BackupCodes

LEMMA FactorReadStep == ASSUME FactorInv, NEW c \in Calls, FactorReads(c) PROVE FactorInv'
<1> USE DEF FactorInv, FactorTypeOK, ReadInv, FactorIsTheProvenOne, RoutesThatWait,
            Reads, Read, factorRow, factorHistory
<1>1. CASE Setup(c)
  BY <1>1 DEF Setup, MaySetUp
<1>2. CASE Verify(c)
  BY <1>2 DEF Verify
<1>3. CASE CheckPassword(c)
  BY <1>3 DEF CheckPassword
<1>4. CASE Regenerate(c)
  BY <1>4 DEF Regenerate
<1>5. ASSUME NEW k \in BackupCodes, VerifyBackup(c, k) PROVE FactorInv'
  BY <1>5 DEF VerifyBackup, Matches
<1>6. QED
  BY <1>1, <1>2, <1>3, <1>4, <1>5 DEF FactorReads

LEMMA FactorWriteStep == ASSUME FactorInv, NEW c \in Calls, FactorWrites(c) PROVE FactorInv'
<1> USE DEF FactorInv, FactorTypeOK, ReadInv, FactorIsTheProvenOne, RoutesThatWait,
            Answers, NoCall, factorRow, factorHistory
<1>1. ASSUME NEW s \in Secrets, StoreSecret(c, s) PROVE FactorInv'
  BY <1>1, NoSecretAssumption DEF StoreSecret
<1>2. ASSUME NEW b \in Batches, Enable(c, b) PROVE FactorInv'
  BY <1>2, BatchCodes DEF Enable
<1>3. ASSUME NEW b \in Batches, StoreCodes(c, b) PROVE FactorInv'
  BY <1>3, BatchCodes DEF StoreCodes
<1>4. CASE Disable(c)
  BY <1>4 DEF Disable
<1>5. CASE StoreRest(c)
  <2>1. call[c].used \subseteq call[c].backup /\ call[c].used # {} /\ call[c].backup \subseteq BackupCodes
    BY <1>5 DEF StoreRest
  <2>2. FactorTypeOK'
    BY <1>5, <2>1 DEF StoreRest, Rest
  <2>3. ReadInv'
    BY <1>5, <2>1 DEF StoreRest, Rest
  <2>4. FactorIsTheProvenOne'
    BY <1>5, <2>1 DEF StoreRest, Rest
  <2>5. QED
    BY <2>2, <2>3, <2>4
<1>6. CASE CallDies(c)
  BY <1>6 DEF CallDies
<1>7. QED
  BY <1>1, <1>2, <1>3, <1>4, <1>5, <1>6 DEF FactorWrites

-----------------------------------------------------------------------------
(* The account *)

LEMMA Start == Init => RegInv /\ FactorInv
BY RegInit, FactorStarts DEF Init

LEMMA RegFrame == RegInv /\ UNCHANGED registrationVars => RegInv'
BY DEF RegInv, RegistrationTypeOK, WelcomeInv, VerifiedInv, Funding, registrationVars,
       userVars, signInVars, history

LEMMA FactorFrame == FactorInv /\ UNCHANGED factorVars => FactorInv'
BY DEF FactorInv, FactorTypeOK, ReadInv, FactorIsTheProvenOne, factorVars, factorRow, factorHistory

LEMMA Step == RegInv /\ FactorInv /\ [Next]_accountVars => RegInv' /\ FactorInv'
<1> SUFFICES ASSUME RegInv, FactorInv, [Next]_accountVars PROVE RegInv' /\ FactorInv'
  OBVIOUS
<1>1. CASE RegistrationNext /\ UNCHANGED factorVars
  BY <1>1, RegStep, FactorFrame
<1>2. ASSUME NEW r \in Requests, PasswordLogin(r) \/ SecondFactorLogin(r) PROVE RegInv' /\ FactorInv'
  BY <1>2, RegStep, FactorFrame DEF PasswordLogin, SecondFactorLogin
<1>3. ASSUME NEW c \in Calls, (Authenticated /\ FactorReads(c)) \/ FactorWrites(c), UNCHANGED registrationVars
      PROVE  RegInv' /\ FactorInv'
  BY <1>3, RegFrame, FactorReadStep, FactorWriteStep
<1>4. CASE PendingLogin
  <2>1. RegInv'
    BY <1>4 DEF PendingLogin, MayLogIn, RegInv, RegistrationTypeOK, WelcomeInv, VerifiedInv, Funding,
                userVars, history
  <2>2. QED
    BY <1>4, <2>1, FactorFrame DEF PendingLogin
<1>5. CASE UNCHANGED accountVars
  BY <1>5, RegFrame, FactorFrame DEF accountVars
<1>6. QED
  BY <1>1, <1>2, <1>3, <1>4, <1>5 DEF Next, AnyNext

\* Every variable of the account stays in its range.
THEOREM TypeCorrect == Spec => []TypeOK
<1>1. RegInv /\ FactorInv => TypeOK
  BY DEF RegInv, FactorInv, TypeOK
<1>2. QED
  BY Start, Step, <1>1, PTL DEF Spec

(***************************************************************************)
(* Of any number of verifications of one user (verifyEmail) at most one is  *)
(* answered with tokens.                                                   *)
(***************************************************************************)
THEOREM OneWelcome == Spec => []WelcomedOnce
<1>1. RegInv => WelcomedOnce
  BY DEF RegInv, WelcomeInv, WelcomedOnce
<1>2. QED
  BY Start, Step, <1>1, PTL DEF Spec

(***************************************************************************)
(* Whoever is signed in has wallets, except while verifyEmail is between    *)
(* its two transactions or after it died there.                            *)
(***************************************************************************)
THEOREM SignedInUsersHaveWallets == Spec => []SignedInHasWallets
<1>1. RegInv => SignedInHasWallets
  BY DEF RegInv, VerifiedInv, SignedInHasWallets, Authenticated
<1>2. QED
  BY Start, Step, <1>1, PTL DEF Spec

(***************************************************************************)
(* As long as no two-factor route overwrites a change made since it read    *)
(* the row, the enabled factor is the proven one and backup codes are used  *)
(* once.                                                                   *)
(***************************************************************************)
THEOREM FactorSound == Spec => []FactorIsTheProvenOne
<1>1. FactorInv => FactorIsTheProvenOne
  BY DEF FactorInv
<1>2. QED
  BY Start, Step, <1>1, PTL DEF Spec
=============================================================================

------------------------------ MODULE Registration ------------------------------
(***************************************************************************)
(* The account of one email address: authService (server/auth/              *)
(* auth-service.ts) behind its routes, from registration to the sessions    *)
(* that sign the user in.                                                  *)
(*                                                                         *)
(* Every operation is a sequence of statements, each of which commits by    *)
(* itself; only "mark the code used and the user verified" and "create the  *)
(* five wallets" are transactions.  Any number of requests are between two  *)
(* statements, and a request may die there.                                *)
(***************************************************************************)
EXTENDS Naturals

CONSTANTS
  Requests,  \* requests that can be in progress at a time
  Codes,     \* verification codes that can be known at a time
  Sessions   \* rows of the sessions table that can be live at a time

CONSTANTS
  Bypass,    \* outside production, for the address of a test user
  NoCode     \* also the code 000000, which is no row's

ASSUME NoCodeAssumption == NoCode \notin Codes /\ Bypass \in BOOLEAN

VARIABLES
  status,    \* users.status, "none" before INSERT
  code,      \* per code: its row in verification_codes; "expired" when there is none
  wallets,   \* the five wallets exist
  sessions,  \* live rows of sessions
  access,    \* some replica would accept a token the user was given
  req,       \* per request: what it does next, and the code it carries
  welcomed,  \* history: verifications answered with tokens, up to 2
  cut        \* history: a verification died between its two transactions

userVars == <<status, code, wallets>>
signInVars == <<sessions, access>>
history == <<welcomed, cut>>
registrationVars == <<userVars, signInVars, req, history>>

Idle == [at |-> "idle", code |-> NoCode]

RegistrationInit ==
  /\ status = "none"
  /\ code = [c \in Codes |-> "expired"]
  /\ wallets = FALSE
  /\ sessions = {}
  /\ access = FALSE
  /\ req = [r \in Requests |-> Idle]
  /\ welcomed = 0
  /\ cut = FALSE

Carries(r, from, to, c) == req[r].at = from /\ req' = [req EXCEPT ![r] = [at |-> to, code |-> c]]
Goes(r, from, to) == Carries(r, from, to, req[r].code)
Ends(r, from) == Carries(r, from, "idle", NoCode)

-----------------------------------------------------------------------------
(* register, resendVerificationCode *)

CheckEmail(r) ==
  /\ status = "none"
  /\ Goes(r, "idle", "register")
  /\ UNCHANGED <<userVars, signInVars, history>>

\* The email is UNIQUE: of two registrations the second one fails.
InsertUser(r) ==
  /\ \/ status = "none" /\ Goes(r, "register", "send") /\ status' = "pending"
     \/ status # "none" /\ Ends(r, "register") /\ UNCHANGED status
  /\ UNCHANGED <<code, wallets, signInVars, history>>

Resend(r) ==
  /\ status = "pending"
  /\ Goes(r, "idle", "send")
  /\ UNCHANGED <<userVars, signInVars, history>>

\* The code's row, and the mail, which may get lost: the code then just expires.
SendCode(r, c) ==
  /\ code[c] # "live"
  /\ \A q \in Requests : req[q].code # c
  /\ Ends(r, "send")
  /\ code' = [code EXCEPT ![c] = "live"]
  /\ UNCHANGED <<status, wallets, signInVars, history>>

CodeExpires(c) ==
  /\ code[c] = "live"
  /\ code' = [code EXCEPT ![c] = "expired"]
  /\ UNCHANGED <<status, wallets, signInVars, req, history>>

-----------------------------------------------------------------------------
(* verifyEmail, createDefaultWallets *)

\* Whoever may verify holds an unused code that has not expired, or the code of
\* the bypass; the user's status is not looked at.
CodeAccepted(c) == IF c = NoCode THEN Bypass ELSE code[c] = "live"

CheckCode(r, c) ==
  /\ status # "none"
  /\ CodeAccepted(c)
  /\ Carries(r, "idle", "verify", c)
  /\ UNCHANGED <<userVars, signInVars, history>>

UseCode(r) ==
  /\ Goes(r, "verify", "fund")
  /\ code' = [c \in Codes |-> IF c = req[r].code THEN "used" ELSE code[c]]
  /\ status' = "verified"
  /\ UNCHANGED <<wallets, signInVars, history>>

\* Mutant: wallets that exist are kept and the verification goes on.
CreateWallets_if_missing(r) ==
  /\ Goes(r, "fund", "welcome")
  /\ wallets' = TRUE
  /\ UNCHANGED <<status, code, signInVars, history>>

\* (user_id, asset) is UNIQUE: the second verification of a user fails here.
CreateWallets(r) ==
  /\ \/ ~wallets /\ Goes(r, "fund", "welcome") /\ wallets' = TRUE
     \/ wallets /\ Ends(r, "fund") /\ UNCHANGED wallets
  /\ UNCHANGED <<status, code, signInVars, history>>

-----------------------------------------------------------------------------
(* login, refreshToken, generateTokens *)

\* Mutant: a pending user may log in.
MayLogIn_pending == status # "none"

MayLogIn == status = "verified"

\* The password is right; what two-factor authentication adds is in Accounts.
Login(r) ==
  /\ MayLogIn
  /\ Goes(r, "idle", "tokens")
  /\ UNCHANGED <<userVars, signInVars, history>>

\* The old session stays.
Refresh(r) ==
  /\ sessions # {}
  /\ Goes(r, "idle", "tokens")
  /\ UNCHANGED <<userVars, signInVars, history>>

GenerateTokens(r, s) ==
  /\ s \notin sessions
  /\ \/ Ends(r, "tokens") /\ UNCHANGED welcomed
     \/ Ends(r, "welcome") /\ welcomed < 2 /\ welcomed' = welcomed + 1
  /\ sessions' = sessions \cup {s}
  /\ access' = TRUE
  /\ UNCHANGED <<userVars, cut>>

-----------------------------------------------------------------------------
(* logout, sessions, restarts *)

\* authenticate: verifyToken looks at a token's signature and age and not at what
\* it is for, so it accepts access tokens, refresh tokens and the token of a login
\* that waits for its second factor, whether or not a session exists.
Authenticated == access

Logout ==
  /\ Authenticated
  /\ sessions' = {}
  /\ UNCHANGED <<userVars, access, req, history>>

RevokeSession(s) ==
  /\ Authenticated
  /\ s \in sessions
  /\ sessions' = sessions \ {s}
  /\ UNCHANGED <<userVars, access, req, history>>

\* A replica that starts deletes the sessions of all users (clearAllSessions)
\* and refuses older access tokens; another replica may still accept them.
ReplicaStarts ==
  /\ sessions' = {}
  /\ UNCHANGED access \/ access' = FALSE
  /\ UNCHANGED <<userVars, req, history>>

\* A statement fails, or the process dies, between two statements.
RequestDies(r) ==
  /\ req[r].at # "idle"
  /\ Ends(r, req[r].at)
  /\ cut' = (cut \/ (req[r].at = "fund" /\ ~wallets))
  /\ UNCHANGED <<userVars, signInVars, welcomed>>

\* Everything but Login, which depends on the second factor.
RegistrationNext ==
  \/ \E r \in Requests :
        \/ CheckEmail(r) \/ InsertUser(r) \/ Resend(r)
        \/ UseCode(r) \/ CreateWallets(r) \/ Refresh(r) \/ RequestDies(r)
        \/ \E c \in Codes : SendCode(r, c)
        \/ \E c \in Codes \cup {NoCode} : CheckCode(r, c)
        \/ \E s \in Sessions : GenerateTokens(r, s)
  \/ \E c \in Codes : CodeExpires(c)
  \/ \E s \in Sessions : RevokeSession(s)
  \/ Logout
  \/ ReplicaStarts

-----------------------------------------------------------------------------
(* Properties *)

RegistrationTypeOK ==
  /\ status \in {"none", "pending", "verified"}
  /\ code \in [Codes -> {"live", "used", "expired"}]
  /\ wallets \in BOOLEAN
  /\ sessions \subseteq Sessions
  /\ access \in BOOLEAN
  /\ req \in [Requests -> [at : {"idle", "register", "send", "verify", "fund", "welcome", "tokens"},
                           code : Codes \cup {NoCode}]]
  /\ welcomed \in 0..2
  /\ cut \in BOOLEAN

Funding == \E r \in Requests : req[r].at = "fund"

\* Nobody is signed in, or about to be, to an account without wallets, except
\* while the verification that creates them is between its two transactions
\* (auth-service.ts:153 and 170) or after one died there: then the code is used
\* up, resendVerificationCode refuses a verified user, and nothing else in the
\* server creates wallets.
SignedInHasWallets ==
  \/ wallets
  \/ cut
  \/ Funding
  \/ ~Authenticated /\ sessions = {} /\ \A r \in Requests : req[r].at \notin {"tokens", "welcome"}

\* However many requests race with one code, or with a code each, at most one
\* verification is answered with tokens: the code is checked outside the
\* transaction that uses it, so it is the wallets' UNIQUE constraint that
\* decides.
WelcomedOnce == welcomed < 2
=============================================================================

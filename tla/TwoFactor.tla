------------------------------- MODULE TwoFactor -------------------------------
(***************************************************************************)
(* Two-factor authentication of one user (server/api/2fa-routes.ts).  Every *)
(* route reads columns of the user's row, awaits, and writes columns back   *)
(* without looking at them again.                                          *)
(***************************************************************************)
EXTENDS Naturals

CONSTANTS
  Calls,       \* requests that can be in progress at a time
  Secrets,     \* TOTP secrets that can be known at a time
  Batches,     \* batches of backup codes that can be known at a time
  NoSecret     \* NULL

ASSUME NoSecretAssumption == NoSecret \notin Secrets

VARIABLES
  enabled,     \* two_factor_enabled
  secret,      \* two_factor_secret
  backup,      \* two_factor_backup_codes, as <<batch, index>>
  call,        \* per request: the route it is in and the columns it read
  proven,      \* history: the secret of the TOTP code that enabled it
  accepted,    \* history: backup codes of this batch that were accepted
  twice,       \* history: a backup code was accepted a second time
  stale        \* history: a route wrote after a column it had read changed

factorRow == <<enabled, secret, backup>>
factorHistory == <<proven, accepted, twice, stale>>
factorVars == <<factorRow, call, factorHistory>>

Batch(b) == {b} \X {1, 2}
BackupCodes == UNION {Batch(b) : b \in Batches}

Read(at, c) == [at |-> at, enabled |-> enabled, secret |-> secret, backup |-> backup, used |-> c]
NoCall == [at |-> "idle", enabled |-> FALSE, secret |-> NoSecret, backup |-> {}, used |-> {}]

FactorInit ==
  /\ enabled = FALSE
  /\ secret = NoSecret
  /\ backup = {}
  /\ call = [c \in Calls |-> NoCall]
  /\ proven = NoSecret
  /\ accepted = {}
  /\ twice = FALSE
  /\ stale = FALSE

Reads(c, at, used) ==
  /\ call[c].at = "idle"
  /\ call' = [call EXCEPT ![c] = Read(at, used)]
  /\ UNCHANGED factorRow

Answers(c, at) ==
  /\ call[c].at = at
  /\ call' = [call EXCEPT ![c] = NoCall]

\* Fresh random values: nobody has seen them.
NewSecret(s) ==
  /\ s \in Secrets \ {secret, proven}
  /\ \A c \in Calls : call[c].secret # s

NewBatch(b) ==
  /\ b \in Batches
  /\ \A c \in Calls : call[c].backup \cap Batch(b) = {}
  /\ backup \cap Batch(b) = {}

-----------------------------------------------------------------------------
(* setup, verify *)

MaySetUp == ~enabled

Setup(c) == MaySetUp /\ Reads(c, "setup", {}) /\ UNCHANGED factorHistory

StoreSecret(c, s) ==
  /\ Answers(c, "setup")
  /\ NewSecret(s)
  /\ secret' = s
  /\ stale' = (stale \/ enabled # call[c].enabled)
  /\ UNCHANGED <<enabled, backup, proven, accepted, twice>>

\* The user's authenticator produces codes of the secret the row holds.  When
\* the factor is enabled already the route only answers.
Verify(c) ==
  /\ secret # NoSecret
  /\ ~enabled
  /\ Reads(c, "verify", {})
  /\ UNCHANGED factorHistory

Enable(c, b) ==
  /\ Answers(c, "verify")
  /\ NewBatch(b)
  /\ enabled' = TRUE
  /\ backup' = Batch(b)
  /\ accepted' = {}
  /\ proven' = call[c].secret
  /\ stale' = (stale \/ enabled # call[c].enabled \/ secret # call[c].secret)
  /\ UNCHANGED <<secret, twice>>

-----------------------------------------------------------------------------
(* disable *)

CheckPassword(c) == Reads(c, "disable", {}) /\ UNCHANGED factorHistory

Disable(c) ==
  /\ Answers(c, "disable")
  /\ enabled' = FALSE
  /\ secret' = NoSecret
  /\ backup' = {}
  /\ proven' = NoSecret
  /\ accepted' = {}
  /\ UNCHANGED <<twice, stale>>

-----------------------------------------------------------------------------
(* backup-codes, verify-backup *)

Regenerate(c) == enabled /\ Reads(c, "regenerate", {}) /\ UNCHANGED factorHistory

StoreCodes(c, b) ==
  /\ Answers(c, "regenerate")
  /\ NewBatch(b)
  /\ backup' = Batch(b)
  /\ accepted' = {}
  /\ stale' = (stale \/ enabled # call[c].enabled)
  /\ UNCHANGED <<enabled, secret, proven, twice>>

\* Mutant: indexOf's -1 is not looked at, and splice(-1, 1) removes some code.
Matches_any(k) == backup # {}

Matches(k) == k \in backup

VerifyBackup(c, k) ==
  /\ Matches(k)
  /\ Reads(c, "backup", {k})
  /\ UNCHANGED factorHistory

\* Mutant: the used code is not taken out.
Rest_unspliced(c) == call[c].backup

Rest(c) == call[c].backup \ call[c].used

StoreRest(c) ==
  /\ Answers(c, "backup")
  /\ backup' = Rest(c)
  /\ accepted' = accepted \cup call[c].used
  /\ twice' = (twice \/ call[c].used \subseteq accepted)
  /\ stale' = (stale \/ backup # call[c].backup)
  /\ UNCHANGED <<enabled, secret, proven>>

\* A statement fails or the process dies: nothing was written.
CallDies(c) ==
  /\ call[c].at # "idle"
  /\ Answers(c, call[c].at)
  /\ UNCHANGED <<factorRow, factorHistory>>

\* Reading is for signed-in users; what was read is written in any case.
FactorReads(c) ==
  \/ Setup(c) \/ Verify(c) \/ CheckPassword(c) \/ Regenerate(c)
  \/ \E k \in BackupCodes : VerifyBackup(c, k)

FactorWrites(c) ==
  \/ \E s \in Secrets : StoreSecret(c, s)
  \/ \E b \in Batches : Enable(c, b) \/ StoreCodes(c, b)
  \/ Disable(c)
  \/ StoreRest(c)
  \/ CallDies(c)

-----------------------------------------------------------------------------
(* Properties *)

RoutesThatWait == {"idle", "setup", "verify", "disable", "regenerate", "backup"}

FactorTypeOK ==
  /\ enabled \in BOOLEAN
  /\ secret \in Secrets \cup {NoSecret}
  /\ backup \subseteq BackupCodes
  /\ call \in [Calls -> [at : RoutesThatWait, enabled : BOOLEAN, secret : Secrets \cup {NoSecret},
                         backup : SUBSET BackupCodes, used : SUBSET BackupCodes]]
  /\ \A c \in Calls : call[c].used \subseteq call[c].backup
  /\ proven \in Secrets \cup {NoSecret}
  /\ accepted \subseteq BackupCodes
  /\ twice \in BOOLEAN
  /\ stale \in BOOLEAN

\* As long as no route wrote over a change made since it read the row, the
\* factor asked for at login is the one the user proved to have: an enabled
\* factor has a secret (login-verify answers "2FA is not enabled" without one,
\* and the user can no longer sign in), it is the proven one, backup codes
\* exist only while it is enabled, and each of them is accepted once.
FactorIsTheProvenOne ==
  ~stale => /\ enabled => secret # NoSecret /\ secret = proven
            /\ backup # {} => enabled
            /\ ~twice
=============================================================================

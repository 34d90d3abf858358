----------------------------- MODULE MfaService -----------------------------
(***************************************************************************)
(* The second factors of one account, modules/auth/services/               *)
(* mfa.service.ts: TOTP enrolment and sign-in, backup codes, passkeys.     *)
(* Accounts share nothing here, every query and every key of the challenge *)
(* store carries the user id, so one account stands for all.  Deleting the *)
(* account is in AuthService.                                              *)
(*                                                                         *)
(* Handlers are sequences of steps as in AuthService: a step ends where    *)
(* the code awaits the database, bcrypt or the WebAuthn library.  Two      *)
(* writes, verifyTotpEnrollment's and disableTotp's, are transactions and  *)
(* so one step each.                                                       *)
(***************************************************************************)
EXTENDS Naturals, FiniteSets

CONSTANTS
  Method,     \* primary keys of TOTP rows of the MfaMethod table
  Code,       \* backup codes
  Batch,      \* how many backup codes are generated at a time, ten in the code
  Passkey,    \* credentials of the user's authenticators
  Nonce,      \* WebAuthn challenges
  Request,    \* slots for requests in progress at the same time
  Handlers,   \* the handlers clients call, a subset of Op
  None

ASSUME MfaAssumption ==
  /\ Batch \in Nat \ {0}
  /\ None \notin Method \cup Code \cup Passkey \cup Nonce
  /\ Code \cap Nonce = {}

VARIABLES
  mfaEnabled,      \* the column of the User row
  totp,            \* the MfaMethod rows of type TOTP
  passkey,         \* the passkeys enrolled: rows of type FIDO2
  challengeStore,  \* the in-memory map: the entries of this user
  req,             \* the requests in progress
  issued,          \* history: codes and nonces already drawn
  uses             \* history: how often a code or nonce was accepted

vars == <<mfaEnabled, totp, passkey, challengeStore, req, issued, uses>>

-----------------------------------------------------------------------------
\* A TOTP row: not inserted yet, waiting for its first code, verified, deleted.
TotpRow == [state   : {"absent", "pending", "verified", "deleted"},
            enabled : BOOLEAN,
            backupCodes : SUBSET Code]

Op == {"enrollTotp", "verifyTotpEnrollment", "verifyTotpCode", "verifyBackupCode",
       "regenerateBackupCodes", "enrollPasskey", "verifyPasskeyAuth"}

PC == {"clear", "create", "commit", "stamp", "splice", "replace",
       "verify", "lookup", "insert", "enable"}

RequestState == [pc : PC, op : Op,
                 method      : Method \cup {None},
                 backupCodes : SUBSET Code,
                 code        : Code \cup {None},
                 credential  : Passkey \cup {None},
                 challenge   : Nonce \cup {None}]

Idle == [pc |-> "idle"]

NoRow(state) == [state |-> state, enabled |-> FALSE, backupCodes |-> {}]

Secret == Code \cup Nonce

TypeOK ==
  /\ mfaEnabled \in BOOLEAN
  /\ totp \in [Method -> TotpRow]
  /\ passkey \subseteq Passkey
  /\ challengeStore \in [{"register", "auth"} -> Nonce \cup {None}]
  /\ req \in [Request -> RequestState \cup {Idle}]
  /\ issued \subseteq Secret
  /\ uses \in [Secret -> Nat]

Init ==
  /\ mfaEnabled = FALSE
  /\ totp = [m \in Method |-> NoRow("absent")]
  /\ passkey = {}
  /\ challengeStore = [kind \in {"register", "auth"} |-> None]
  /\ req = [r \in Request |-> Idle]
  /\ issued = {}
  /\ uses = [s \in Secret |-> 0]

-----------------------------------------------------------------------------
(* Helpers.                                                                *)

Active(r) == req[r] # Idle

At(r, pc, op) == Active(r) /\ req[r].pc = pc /\ req[r].op = op
Goto(r, pc)   == req' = [req EXCEPT ![r].pc = pc]
Return(r)     == req' = [req EXCEPT ![r] = Idle]

\* What a handler carries from one step to the next.
TotpArgs(m, codes, code) ==
  [method |-> m, backupCodes |-> codes, code |-> code,
   credential |-> None, challenge |-> None]

PasskeyArgs(k, n) ==
  [method |-> None, backupCodes |-> {}, code |-> None,
   credential |-> k, challenge |-> n]

Start(r, pc, op, args) ==
  /\ req[r] = Idle
  /\ op \in Handlers
  /\ req' = [req EXCEPT ![r] =
       [pc |-> pc, op |-> op, method |-> args.method, backupCodes |-> args.backupCodes,
        code |-> args.code, credential |-> args.credential, challenge |-> args.challenge]]

\* findFirst({ type: 'TOTP', verified: true, enabled: true }); with more than
\* one the database picks.
Usable(m) == totp[m].state = "verified" /\ totp[m].enabled

\* A row id that no request in progress is about to insert.
Unused(m) ==
  /\ totp[m].state = "absent"
  /\ \A r \in Request : Active(r) => req[r].method # m

\* A batch of new random codes.
NewBatch(codes) == codes \in SUBSET (Code \ issued) /\ Cardinality(codes) = Batch

Used(s) == uses' = [uses EXCEPT ![s] = @ + 1]

-----------------------------------------------------------------------------
(* Enrolling an authenticator app: no active method was found; the pending *)
(* ones are deleted; the codes are hashed; the new row is inserted.        *)

EnrollTotp(r, m, codes) ==
  /\ \A n \in Method : ~Usable(n)
  /\ Unused(m)
  /\ NewBatch(codes)
  /\ Start(r, "clear", "enrollTotp", TotpArgs(m, codes, None))
  /\ issued' = issued \cup codes
  /\ UNCHANGED <<mfaEnabled, totp, passkey, challengeStore, uses>>

ClearPending(r) ==
  /\ At(r, "clear", "enrollTotp")
  /\ totp' = [m \in Method |->
                IF totp[m].state = "pending"
                THEN NoRow("deleted") ELSE totp[m]]
  /\ Goto(r, "create")
  /\ UNCHANGED <<mfaEnabled, passkey, challengeStore, issued, uses>>

CreatePendingNull(r) ==
  /\ At(r, "create", "enrollTotp")
  /\ totp' = [totp EXCEPT ![req[r].method] =
                [state |-> "pending", enabled |-> None, backupCodes |-> req[r].backupCodes]]
  /\ Return(r)
  /\ UNCHANGED <<mfaEnabled, passkey, challengeStore, issued, uses>>

CreatePending(r) ==
  /\ At(r, "create", "enrollTotp")
  /\ totp' = [totp EXCEPT ![req[r].method] =
                [state |-> "pending", enabled |-> TRUE, backupCodes |-> req[r].backupCodes]]
  /\ Return(r)
  /\ UNCHANGED <<mfaEnabled, passkey, challengeStore, issued, uses>>

\* The first code of a pending method is right.
VerifyTotpEnrollment(r, m) ==
  /\ totp[m].state = "pending"
  /\ Start(r, "commit", "verifyTotpEnrollment", TotpArgs(m, {}, None))
  /\ UNCHANGED <<mfaEnabled, totp, passkey, challengeStore, issued, uses>>

\* The transaction names the row by id: it fails as a whole when another
\* enrolment deleted the row, and does not look at `enabled`.
CommitHalf(r) ==
  /\ At(r, "commit", "verifyTotpEnrollment")
  /\ mfaEnabled' = TRUE
  /\ totp' = IF totp[req[r].method].state = "deleted" THEN totp
             ELSE [totp EXCEPT ![req[r].method].state = "verified"]
  /\ Return(r)
  /\ UNCHANGED <<passkey, challengeStore, issued, uses>>

CommitEnrollment(r) ==
  /\ At(r, "commit", "verifyTotpEnrollment")
  /\ IF totp[req[r].method].state = "deleted"
     THEN UNCHANGED <<mfaEnabled, totp>>
     ELSE /\ mfaEnabled' = TRUE
          /\ totp' = [totp EXCEPT ![req[r].method].state = "verified"]
  /\ Return(r)
  /\ UNCHANGED <<passkey, challengeStore, issued, uses>>

\* The password is right; nothing else was read.  Pending methods are switched
\* off too, passkeys are not.
DisableTotpOnly ==
  /\ totp' = [m \in Method |-> [totp[m] EXCEPT !.enabled = FALSE]]
  /\ UNCHANGED <<mfaEnabled, passkey, challengeStore, req, issued, uses>>

DisableTotp ==
  /\ totp' = [m \in Method |-> [totp[m] EXCEPT !.enabled = FALSE]]
  /\ mfaEnabled' = FALSE
  /\ UNCHANGED <<passkey, challengeStore, req, issued, uses>>

-----------------------------------------------------------------------------
(* Signing in with a code (the caller holds an MFA token, which it may use *)
(* again until it expires).                                                *)

VerifyTotpCode(r, m) ==
  /\ Usable(m)
  /\ Start(r, "stamp", "verifyTotpCode", TotpArgs(m, {}, None))
  /\ UNCHANGED <<mfaEnabled, totp, passkey, challengeStore, issued, uses>>

\* lastUsedAt carries nothing here; a verified row is not deleted.
Stamp(r) ==
  /\ At(r, "stamp", "verifyTotpCode")
  /\ Return(r)
  /\ UNCHANGED <<mfaEnabled, totp, passkey, challengeStore, issued, uses>>

\* The codes of the row are compared one by one, the match is taken out of the
\* copy that was read, and the copy is written back.
VerifyBackupCode(r, m, code) ==
  /\ Usable(m)
  /\ code \in totp[m].backupCodes
  /\ Start(r, "splice", "verifyBackupCode",
           TotpArgs(m, totp[m].backupCodes, code))
  /\ UNCHANGED <<mfaEnabled, totp, passkey, challengeStore, issued, uses>>

SpliceNothing(r) ==
  /\ At(r, "splice", "verifyBackupCode")
  /\ Used(req[r].code)
  /\ Return(r)
  /\ UNCHANGED <<mfaEnabled, totp, passkey, challengeStore, issued>>

Splice(r) ==
  /\ At(r, "splice", "verifyBackupCode")
  /\ totp' = [totp EXCEPT ![req[r].method].backupCodes = req[r].backupCodes \ {req[r].code}]
  /\ Used(req[r].code)
  /\ Return(r)
  /\ UNCHANGED <<mfaEnabled, passkey, challengeStore, issued>>

RegenerateBackupCodes(r, m, codes) ==
  /\ Usable(m)
  /\ NewBatch(codes)
  /\ Start(r, "replace", "regenerateBackupCodes",
           TotpArgs(m, codes, None))
  /\ issued' = issued \cup codes
  /\ UNCHANGED <<mfaEnabled, totp, passkey, challengeStore, uses>>

ReplaceCodes(r) ==
  /\ At(r, "replace", "regenerateBackupCodes")
  /\ totp' = [totp EXCEPT ![req[r].method].backupCodes = req[r].backupCodes]
  /\ Return(r)
  /\ UNCHANGED <<mfaEnabled, passkey, challengeStore, issued, uses>>

-----------------------------------------------------------------------------
(* Passkeys.  Each kind of challenge has one entry in the map; new options *)
(* overwrite it.                                                           *)

GetOptions(kind, n) ==
  /\ n \notin issued
  /\ challengeStore' = [challengeStore EXCEPT ![kind] = n]
  /\ issued' = issued \cup {n}
  /\ UNCHANGED <<mfaEnabled, totp, passkey, req, uses>>

GetPasskeyOptions(n) == "enrollPasskey" \in Handlers /\ GetOptions("register", n)

GetPasskeyAuthOptions(n) ==
  /\ "verifyPasskeyAuth" \in Handlers
  /\ passkey # {}
  /\ GetOptions("auth", n)

\* After five minutes the entry is there and no longer good for anything.
ExpireOptions(kind) ==
  /\ challengeStore[kind] # None
  /\ challengeStore' = [challengeStore EXCEPT ![kind] = None]
  /\ UNCHANGED <<mfaEnabled, totp, passkey, req, issued, uses>>

\* An attestation over the stored challenge; the library verifies it.
EnrollPasskey(r, k) ==
  /\ challengeStore["register"] # None
  /\ Start(r, "verify", "enrollPasskey",
           PasskeyArgs(k, challengeStore["register"]))
  /\ UNCHANGED <<mfaEnabled, totp, passkey, challengeStore, issued, uses>>

\* The entry is deleted, whichever challenge it holds by now.
DropChallenge(r, op, kind, next) ==
  /\ At(r, "verify", op)
  /\ challengeStore' = [challengeStore EXCEPT ![kind] = None]
  /\ Goto(r, next)
  /\ UNCHANGED <<mfaEnabled, totp, passkey, issued, uses>>

AttestationVerified(r) == DropChallenge(r, "enrollPasskey", "register", "insert")

\* webAuthnCredentialID is unique.
InsertPasskey(r) ==
  /\ At(r, "insert", "enrollPasskey")
  /\ IF req[r].credential \in passkey
     THEN Return(r) /\ UNCHANGED <<passkey, uses>>
     ELSE /\ passkey' = passkey \cup {req[r].credential}
          /\ Used(req[r].challenge)
          /\ Goto(r, "enable")
  /\ UNCHANGED <<mfaEnabled, totp, challengeStore, issued>>

EnableMfa(r) ==
  /\ At(r, "enable", "enrollPasskey")
  /\ mfaEnabled' = TRUE
  /\ Return(r)
  /\ UNCHANGED <<totp, passkey, challengeStore, issued, uses>>

\* An assertion over the stored challenge by one of the user's passkeys.
VerifyPasskeyAuth(r, k) ==
  /\ challengeStore["auth"] # None
  /\ Start(r, "lookup", "verifyPasskeyAuth",
           PasskeyArgs(k, challengeStore["auth"]))
  /\ UNCHANGED <<mfaEnabled, totp, passkey, challengeStore, issued, uses>>

LookUpPasskey(r) ==
  /\ At(r, "lookup", "verifyPasskeyAuth")
  /\ IF req[r].credential \in passkey THEN Goto(r, "verify") ELSE Return(r)
  /\ UNCHANGED <<mfaEnabled, totp, passkey, challengeStore, issued, uses>>

KeepChallenge(r) ==
  /\ At(r, "verify", "verifyPasskeyAuth")
  /\ Goto(r, "stamp")
  /\ UNCHANGED <<mfaEnabled, totp, passkey, challengeStore, issued, uses>>

AssertionVerified(r) == DropChallenge(r, "verifyPasskeyAuth", "auth", "stamp")

\* The signature counter, which the library compares, is left out.
AcceptPasskey(r) ==
  /\ At(r, "stamp", "verifyPasskeyAuth")
  /\ Used(req[r].challenge)
  /\ Return(r)
  /\ UNCHANGED <<mfaEnabled, totp, passkey, challengeStore, issued>>

-----------------------------------------------------------------------------
\* The process stops and comes back: the map and the requests are gone.
Restart ==
  /\ challengeStore' = [kind \in {"register", "auth"} |-> None]
  /\ req' = [r \in Request |-> Idle]
  /\ UNCHANGED <<mfaEnabled, totp, passkey, issued, uses>>

Call(r) ==
  \/ \E m \in Method, codes \in SUBSET Code : EnrollTotp(r, m, codes)
  \/ \E m \in Method : VerifyTotpEnrollment(r, m)
  \/ \E m \in Method : VerifyTotpCode(r, m)
  \/ \E m \in Method, c \in Code : VerifyBackupCode(r, m, c)
  \/ \E m \in Method, codes \in SUBSET Code : RegenerateBackupCodes(r, m, codes)
  \/ \E k \in Passkey : EnrollPasskey(r, k)
  \/ \E k \in Passkey : VerifyPasskeyAuth(r, k)

Resume(r) ==
  \/ ClearPending(r)
  \/ CreatePending(r)
  \/ CommitEnrollment(r)
  \/ Stamp(r)
  \/ Splice(r)
  \/ ReplaceCodes(r)
  \/ AttestationVerified(r)
  \/ InsertPasskey(r)
  \/ EnableMfa(r)
  \/ LookUpPasskey(r)
  \/ AssertionVerified(r)
  \/ AcceptPasskey(r)

Synchronous ==
  \/ DisableTotp
  \/ \E n \in Nonce : GetPasskeyOptions(n)
  \/ \E n \in Nonce : GetPasskeyAuthOptions(n)
  \/ \E kind \in {"register", "auth"} : ExpireOptions(kind)
  \/ Restart

Next == (\E r \in Request : Call(r) \/ Resume(r)) \/ Synchronous

Spec == Init /\ [][Next]_vars

-----------------------------------------------------------------------------
(* Properties.                                                             *)

\* MFA is never on without a method that was proved to work once: the deletion
\* of pending enrolments, the verification of one and the two steps of a
\* passkey enrolment overlap without leaving such an account
\* (mfa.service.ts:71-73, 149-158, 489-506).
MfaHasMethod ==
  mfaEnabled => passkey # {} \/ \E m \in Method : totp[m].state = "verified"

\* MFA is on and nothing the sign-in asks for can be answered.
LockedOut == mfaEnabled /\ passkey = {} /\ \A m \in Method : ~Usable(m)

\* One step alone locks a user out of his account: verifyTotpEnrollment switches
\* MFA on for a method that disableTotp had switched off.  No other order of enrolling,
\* disabling, regenerating, signing in and restarting does (mfa.service.ts:123-158,
\* 324-333).
LockoutOnlyByLateVerification ==
  [][~LockedOut /\ LockedOut' =>
       \E r \in Request :
         /\ At(r, "commit", "verifyTotpEnrollment") /\ ~Active(r)'
         /\ ~totp[req[r].method].enabled]_vars

\* r read this code from the database, or is about to write it there.
InHand(r, c) == Active(r) /\ c \in req[r].backupCodes \cup {req[r].code}

SpentCode(c) ==
  /\ c \in issued
  /\ \A m \in Method : c \notin totp[m].backupCodes
  /\ \A r \in Request : ~InHand(r, c)

\* A backup code is out of the table the moment it signs somebody in; and one
\* that was used or replaced, and that no request in progress has in hand, is
\* dead: it never comes back and never signs anybody in again
\* (mfa.service.ts:225-255, 274-290).  Overlapping requests can write an old
\* list back.
SpentCodesStayDead ==
  [][\A c \in Code :
       /\ uses'[c] # uses[c] => \A m \in Method : c \notin totp'[m].backupCodes
       /\ SpentCode(c) => SpentCode(c)' /\ uses'[c] = uses[c]]_vars

SpentNonce(n) ==
  /\ n \in issued
  /\ \A kind \in DOMAIN challengeStore : challengeStore[kind] # n
  /\ \A r \in Request : Active(r) => req[r].challenge # n

\* A WebAuthn challenge is out of the store before an answer to it counts; and
\* one that was answered, replaced or has expired, and that no request in
\* progress has read, is never accepted again (mfa.service.ts:466-483,
\* 553-583).
SpentNoncesStayDead ==
  [][\A n \in Nonce :
       /\ uses'[n] # uses[n] => \A kind \in DOMAIN challengeStore : challengeStore[kind] # n
       /\ SpentNonce(n) => SpentNonce(n)' /\ uses'[n] = uses[n]]_vars

\* "Verify backup code (one-time use)" (mfa.service.ts:223): a backup code signs
\* in once.
BackupCodeSingleUse == \A c \in Code : uses[c] <= 1
=============================================================================

-------------------------- MODULE MfaServiceProofs --------------------------
(* Theorems about MfaService for any rows, codes, passkeys, challenges and   *)
(* requests.                                                                 *)
EXTENDS MfaService, TLAPS

\* The value of a free slot is no state of a request.
LEMMA IdleIsNoRequest == Idle \notin RequestState
  BY DEF Idle, RequestState, PC

\* Counting one more use of a code or challenge.
LEMMA UsedType ==
  ASSUME TypeOK, NEW s, Used(s)
  PROVE  /\ uses' \in [Secret -> Nat]
         /\ \A t \in Secret : t # s => uses'[t] = uses[t]
  <1>1. CASE s \in Secret
    <2>1. uses[s] + 1 \in Nat
      BY <1>1 DEF TypeOK
    <2>2. QED
      BY <2>1 DEF Used, TypeOK
  <1>2. CASE s \notin Secret
    <2>1. uses' = uses
      BY <1>2 DEF Used, TypeOK
    <2>2. QED
      BY <2>1 DEF TypeOK
  <1>3. QED
    BY <1>1, <1>2

\* What a handler that starts has in its hands; the others stay as they were.
LEMMA StartEffect ==
  ASSUME TypeOK, NEW r \in Request, NEW pc \in PC, NEW op \in Op, NEW args,
         Start(r, pc, op, args),
         args.method \in Method \cup {None}, args.backupCodes \in SUBSET Code,
         args.code \in Code \cup {None}, args.credential \in Passkey \cup {None},
         args.challenge \in Nonce \cup {None}
  PROVE  /\ req' \in [Request -> RequestState \cup {Idle}]
         /\ req[r] = Idle
         /\ \A q \in Request \ {r} : req'[q] = req[q]
         /\ Active(r)'
         /\ req'[r].pc = pc /\ req'[r].op = op
         /\ req'[r].method = args.method /\ req'[r].backupCodes = args.backupCodes
         /\ req'[r].code = args.code /\ req'[r].credential = args.credential
         /\ req'[r].challenge = args.challenge
  <1> DEFINE q == [pc |-> pc, op |-> op, method |-> args.method,
                   backupCodes |-> args.backupCodes, code |-> args.code,
                   credential |-> args.credential, challenge |-> args.challenge]
  <1>1. q \in RequestState
    BY DEF RequestState
  <1>2. req' = [req EXCEPT ![r] = q] /\ req[r] = Idle
    BY DEF Start
  <1>3. req'[r] = q /\ \A s \in Request \ {r} : req'[s] = req[s]
    BY <1>2 DEF TypeOK
  <1>4. req' \in [Request -> RequestState \cup {Idle}]
    BY <1>1, <1>2 DEF TypeOK
  <1>5. Active(r)'
    BY <1>1, <1>3, IdleIsNoRequest DEF Active
  <1>6. QED
    BY <1>2, <1>3, <1>4, <1>5

\* The same for the handlers that carry a TOTP row and for those that carry a
\* passkey.
LEMMA TotpStart ==
  ASSUME TypeOK, NEW r \in Request, NEW pc \in PC, NEW op \in Op, NEW m \in Method,
         NEW codes \in SUBSET Code, NEW code \in Code \cup {None},
         Start(r, pc, op, TotpArgs(m, codes, code))
  PROVE  /\ req' \in [Request -> RequestState \cup {Idle}]
         /\ req[r] = Idle
         /\ \A q \in Request \ {r} : req'[q] = req[q]
         /\ Active(r)'
         /\ req'[r].pc = pc /\ req'[r].op = op
         /\ req'[r].method = m /\ req'[r].backupCodes = codes
         /\ req'[r].code = code /\ req'[r].challenge = None
  <1>1. /\ TotpArgs(m, codes, code).method = m
        /\ TotpArgs(m, codes, code).backupCodes = codes
        /\ TotpArgs(m, codes, code).code = code
        /\ TotpArgs(m, codes, code).credential = None
        /\ TotpArgs(m, codes, code).challenge = None
    BY DEF TotpArgs
  <1>2. QED
    BY <1>1, StartEffect

\* A passkey handler starts with a credential and the challenge it read
\* (mfa.service.ts:466-477, 549-554).
LEMMA PasskeyStart ==
  ASSUME TypeOK, NEW r \in Request, NEW pc \in PC, NEW op \in Op, NEW k \in Passkey,
         NEW n \in Nonce \cup {None}, Start(r, pc, op, PasskeyArgs(k, n))
  PROVE  /\ req' \in [Request -> RequestState \cup {Idle}]
         /\ req[r] = Idle
         /\ \A q \in Request \ {r} : req'[q] = req[q]
         /\ Active(r)'
         /\ req'[r].pc = pc /\ req'[r].op = op
         /\ req'[r].method = None /\ req'[r].backupCodes = {}
         /\ req'[r].code = None /\ req'[r].challenge = n /\ req'[r].credential = k
  <1>1. /\ PasskeyArgs(k, n).method = None
        /\ PasskeyArgs(k, n).backupCodes = {}
        /\ PasskeyArgs(k, n).code = None
        /\ PasskeyArgs(k, n).credential = k
        /\ PasskeyArgs(k, n).challenge = n
    BY DEF PasskeyArgs
  <1>2. QED
    BY <1>1, StartEffect

\* A handler that goes on after an await keeps what it has in its hands.
LEMMA GotoEffect ==
  ASSUME TypeOK, NEW r \in Request, Active(r), NEW pc \in PC, Goto(r, pc)
  PROVE  /\ req' \in [Request -> RequestState \cup {Idle}]
         /\ \A q \in Request \ {r} : req'[q] = req[q]
         /\ Active(r)'
         /\ req'[r].pc = pc /\ req'[r].op = req[r].op
         /\ req'[r].method = req[r].method /\ req'[r].backupCodes = req[r].backupCodes
         /\ req'[r].code = req[r].code /\ req'[r].credential = req[r].credential
         /\ req'[r].challenge = req[r].challenge
  <1>1. req[r] \in RequestState
    BY DEF Active, TypeOK
  <1>2. req'[r] = [req[r] EXCEPT !.pc = pc] /\ \A q \in Request \ {r} : req'[q] = req[q]
    BY DEF Goto, TypeOK
  <1>3. req'[r] \in RequestState
    BY <1>1, <1>2 DEF RequestState
  <1>4. req' \in [Request -> RequestState \cup {Idle}]
    BY <1>1, <1>3 DEF Goto, TypeOK
  <1>5. Active(r)'
    BY <1>3, IdleIsNoRequest DEF Active
  <1>6. QED
    BY <1>1, <1>2, <1>4, <1>5 DEF RequestState

\* A handler that returns frees its slot and no other.
LEMMA ReturnEffect ==
  ASSUME TypeOK, NEW r \in Request, Return(r)
  PROVE  /\ req' \in [Request -> RequestState \cup {Idle}]
         /\ \A q \in Request \ {r} : req'[q] = req[q]
         /\ ~Active(r)'
  BY DEF Return, TypeOK, Active

\* What each call starts with (mfa.service.ts:57-67, 123-147, 179-200, 225-242,
\* 274-286, 466-477, 549-554).
LEMMA CallEffect ==
  ASSUME TypeOK, NEW r \in Request, Call(r)
  PROVE  /\ req' \in [Request -> RequestState \cup {Idle}]
         /\ req[r] = Idle
         /\ \A q \in Request \ {r} : req'[q] = req[q]
         /\ Active(r)'
         /\ UNCHANGED <<mfaEnabled, totp, passkey, challengeStore, uses>>
         /\ issued \subseteq issued' /\ issued' \subseteq Secret
         /\ \/ /\ req'[r].op \in {"enrollTotp", "regenerateBackupCodes"}
               /\ req'[r].pc \in {"clear", "replace"}
               /\ req'[r].method \in Method
               /\ req'[r].op = "enrollTotp" => Unused(req'[r].method)
               /\ req'[r].op = "regenerateBackupCodes" => Usable(req'[r].method)
               /\ req'[r].backupCodes \cap issued = {}
               /\ issued' = issued \cup req'[r].backupCodes
               /\ req'[r].code = None
            \/ /\ req'[r].op \in {"verifyTotpEnrollment", "verifyTotpCode"}
               /\ req'[r].pc \in {"commit", "stamp"}
               /\ req'[r].method \in Method
               /\ totp[req'[r].method].state # "absent"
               /\ req'[r].backupCodes = {} /\ issued' = issued
               /\ req'[r].code = None
            \/ /\ req'[r].op = "verifyBackupCode" /\ req'[r].pc = "splice"
               /\ req'[r].method \in Method
               /\ totp[req'[r].method].state # "absent"
               /\ req'[r].backupCodes = totp[req'[r].method].backupCodes
               /\ req'[r].code \in req'[r].backupCodes
               /\ issued' = issued
            \/ /\ req'[r].op = "enrollPasskey" /\ req'[r].pc = "verify"
               /\ req'[r].credential \in Passkey
               /\ req'[r].method = None /\ req'[r].backupCodes = {} /\ req'[r].code = None
               /\ req'[r].challenge = challengeStore["register"]
               /\ req'[r].challenge # None
               /\ issued' = issued
            \/ /\ req'[r].op = "verifyPasskeyAuth" /\ req'[r].pc = "lookup"
               /\ req'[r].method = None /\ req'[r].backupCodes = {} /\ req'[r].code = None
               /\ req'[r].challenge = challengeStore["auth"]
               /\ req'[r].challenge # None
               /\ issued' = issued
         /\ req'[r].op \notin {"enrollPasskey", "verifyPasskeyAuth"} => req'[r].challenge = None
  <1>1. ASSUME NEW m \in Method, NEW codes \in SUBSET Code, EnrollTotp(r, m, codes)
        PROVE  /\ Start(r, "clear", "enrollTotp",
                        TotpArgs(m, codes, None))
               /\ Unused(m) /\ codes \cap issued = {} /\ issued' = issued \cup codes
               /\ UNCHANGED <<mfaEnabled, totp, passkey, challengeStore, uses>>
    BY <1>1 DEF EnrollTotp, NewBatch
  <1>2. ASSUME NEW m \in Method, NEW codes \in SUBSET Code, RegenerateBackupCodes(r, m, codes)
        PROVE  /\ Start(r, "replace", "regenerateBackupCodes",
                        TotpArgs(m, codes, None))
               /\ Usable(m) /\ codes \cap issued = {} /\ issued' = issued \cup codes
               /\ UNCHANGED <<mfaEnabled, totp, passkey, challengeStore, uses>>
    BY <1>2 DEF RegenerateBackupCodes, NewBatch
  <1>3. CASE \E m \in Method, codes \in SUBSET Code : EnrollTotp(r, m, codes)
    <2>1. PICK m \in Method, codes \in SUBSET Code : EnrollTotp(r, m, codes)
      BY <1>3
    <2>2. QED
      BY <2>1, <1>1, TotpStart, SMTT(30) DEF PC, Op, Secret, TypeOK
  <1>4. CASE \E m \in Method, codes \in SUBSET Code : RegenerateBackupCodes(r, m, codes)
    <2>1. PICK m \in Method, codes \in SUBSET Code : RegenerateBackupCodes(r, m, codes)
      BY <1>4
    <2>2. QED
      BY <2>1, <1>2, TotpStart, SMTT(30) DEF PC, Op, Secret, TypeOK
  <1>5. ASSUME NEW m \in Method, VerifyTotpEnrollment(r, m)
        PROVE  /\ totp[m].state = "pending"
               /\ Start(r, "commit", "verifyTotpEnrollment", TotpArgs(m, {}, None))
               /\ UNCHANGED <<mfaEnabled, totp, passkey, challengeStore, issued, uses>>
    BY <1>5 DEF VerifyTotpEnrollment
  <1>6. CASE \E m \in Method : VerifyTotpEnrollment(r, m)
    <2>1. PICK m \in Method : VerifyTotpEnrollment(r, m)
      BY <1>6
    <2>2. Start(r, "commit", "verifyTotpEnrollment", TotpArgs(m, {}, None))
      BY <2>1, <1>5
    <2>3. /\ req' \in [Request -> RequestState \cup {Idle}]
          /\ req[r] = Idle /\ Active(r)'
          /\ \A q \in Request \ {r} : req'[q] = req[q]
          /\ req'[r].op = "verifyTotpEnrollment" /\ req'[r].pc = "commit" /\ req'[r].method = m
          /\ req'[r].backupCodes = {} /\ req'[r].code = None
          /\ req'[r].challenge = None
      <3>1. "commit" \in PC /\ "verifyTotpEnrollment" \in Op /\ {} \in SUBSET Code /\ None \in Code \cup {None}
        BY DEF PC, Op
      <3>2. QED
        BY <2>2, <3>1, TotpStart
    <2>4. QED
      BY <2>1, <2>3, <1>5 DEF TypeOK
  <1>7. ASSUME NEW m \in Method, VerifyTotpCode(r, m)
        PROVE  /\ totp[m].state = "verified"
               /\ Start(r, "stamp", "verifyTotpCode", TotpArgs(m, {}, None))
               /\ UNCHANGED <<mfaEnabled, totp, passkey, challengeStore, issued, uses>>
    BY <1>7 DEF VerifyTotpCode, Usable
  <1>8. CASE \E m \in Method : VerifyTotpCode(r, m)
    <2>1. PICK m \in Method : VerifyTotpCode(r, m)
      BY <1>8
    <2>2. Start(r, "stamp", "verifyTotpCode", TotpArgs(m, {}, None))
      BY <2>1, <1>7
    <2>3. /\ req' \in [Request -> RequestState \cup {Idle}]
          /\ req[r] = Idle /\ Active(r)'
          /\ \A q \in Request \ {r} : req'[q] = req[q]
          /\ req'[r].op = "verifyTotpCode" /\ req'[r].pc = "stamp" /\ req'[r].method = m
          /\ req'[r].backupCodes = {} /\ req'[r].code = None
          /\ req'[r].challenge = None
      <3>1. "stamp" \in PC /\ "verifyTotpCode" \in Op /\ {} \in SUBSET Code /\ None \in Code \cup {None}
        BY DEF PC, Op
      <3>2. QED
        BY <2>2, <3>1, TotpStart
    <2>4. QED
      BY <2>1, <2>3, <1>7 DEF TypeOK
  <1>9. CASE \E m \in Method, c \in Code : VerifyBackupCode(r, m, c)
    <2>1. PICK m \in Method, c \in Code : VerifyBackupCode(r, m, c)
      BY <1>9
    <2>2. /\ totp[m].state = "verified" /\ c \in totp[m].backupCodes
          /\ Start(r, "splice", "verifyBackupCode",
                   TotpArgs(m, totp[m].backupCodes, c))
          /\ UNCHANGED <<mfaEnabled, totp, passkey, challengeStore, issued, uses>>
      BY <2>1 DEF VerifyBackupCode, Usable
    <2>3. totp[m].backupCodes \in SUBSET Code
      BY DEF TypeOK, TotpRow
    <2>4. /\ req' \in [Request -> RequestState \cup {Idle}]
          /\ req[r] = Idle /\ Active(r)'
          /\ \A q \in Request \ {r} : req'[q] = req[q]
          /\ req'[r].op = "verifyBackupCode" /\ req'[r].pc = "splice" /\ req'[r].method = m
          /\ req'[r].backupCodes = totp[m].backupCodes /\ req'[r].code = c
          /\ req'[r].challenge = None
      <3>1. "splice" \in PC /\ "verifyBackupCode" \in Op /\ c \in Code \cup {None}
        BY DEF PC, Op
      <3>2. QED
        BY <2>2, <2>3, <3>1, TotpStart
    <2>5. QED
      BY <2>2, <2>4 DEF TypeOK
  <1>10. CASE \E k \in Passkey : EnrollPasskey(r, k)
    <2>1. PICK k \in Passkey : EnrollPasskey(r, k)
      BY <1>10
    <2>2. /\ challengeStore["register"] # None
          /\ Start(r, "verify", "enrollPasskey",
                   PasskeyArgs(k, challengeStore["register"]))
          /\ UNCHANGED <<mfaEnabled, totp, passkey, challengeStore, issued, uses>>
      BY <2>1 DEF EnrollPasskey
    <2>3. challengeStore["register"] \in Nonce \cup {None}
      BY DEF TypeOK
    <2>4. QED
      BY <2>2, <2>3, PasskeyStart, SMTT(30) DEF PC, Op, TypeOK
  <1>11. CASE \E k \in Passkey : VerifyPasskeyAuth(r, k)
    <2>1. PICK k \in Passkey : VerifyPasskeyAuth(r, k)
      BY <1>11
    <2>2. /\ challengeStore["auth"] # None
          /\ Start(r, "lookup", "verifyPasskeyAuth",
                   PasskeyArgs(k, challengeStore["auth"]))
          /\ UNCHANGED <<mfaEnabled, totp, passkey, challengeStore, issued, uses>>
      BY <2>1 DEF VerifyPasskeyAuth
    <2>3. challengeStore["auth"] \in Nonce \cup {None}
      BY DEF TypeOK
    <2>4. QED
      BY <2>2, <2>3, PasskeyStart, SMTT(30) DEF PC, Op, TypeOK
  <1>12. QED
    BY <1>3, <1>4, <1>6, <1>8, <1>9, <1>10, <1>11 DEF Call

-----------------------------------------------------------------------------
(* What a resumed handler may do to each part of the state.                *)

TotpOp == {"enrollTotp", "verifyTotpEnrollment", "verifyTotpCode",
           "verifyBackupCode", "regenerateBackupCodes"}

\* A handler that enrols holds a row nobody else knows of, the other TOTP
\* handlers one that was inserted; MFA is switched on after a passkey was.
HandOf(r) ==
  /\ req[r].op \in TotpOp => req[r].method \in Method
  /\ req[r].op = "enrollTotp" =>
       /\ totp[req[r].method].state = "absent"
       /\ \A q \in Request \ {r} : Active(q) => req[q].method # req[r].method
  /\ req[r].op \in TotpOp \ {"enrollTotp"} => totp[req[r].method].state # "absent"
  /\ req[r].op = "enrollPasskey" => req[r].credential \in Passkey
  /\ req[r].pc = "enable" => passkey # {}

RowsHeld == \A r \in Request : Active(r) => HandOf(r)

\* r holds after the step what it held before, or has returned.
KeepsHands(r) ==
  Active(r)' => /\ req'[r].op = req[r].op /\ req'[r].method = req[r].method
                /\ req'[r].backupCodes = req[r].backupCodes /\ req'[r].code = req[r].code
                /\ req'[r].credential = req[r].credential
                /\ req'[r].challenge = req[r].challenge

\* A verified row stays what it is, an inserted one stays inserted, and lists
\* of codes shrink or come from r's hands.
RowStep(r, m) ==
  /\ totp'[m] \in TotpRow
  /\ totp[m].state = "verified" => totp'[m].state = "verified"
  /\ totp'[m].state = "verified" => totp'[m].enabled = totp[m].enabled
  /\ totp[m].state # "absent" => totp'[m].state # "absent"
  /\ totp[m].state = "absent" => \/ totp'[m].state = "absent"
                                 \/ req[r].op = "enrollTotp" /\ m = req[r].method /\ ~Active(r)'
  /\ \/ totp'[m].backupCodes \subseteq totp[m].backupCodes
     \/ m = req[r].method /\ totp'[m].backupCodes \subseteq req[r].backupCodes

\* Resuming a handler touches no other request.
LEMMA ResumeHands ==
  ASSUME TypeOK, NEW r \in Request, Resume(r)
  PROVE  /\ req' \in [Request -> RequestState \cup {Idle}]
         /\ \A q \in Request \ {r} : req'[q] = req[q]
         /\ Active(r)
         /\ KeepsHands(r)
         /\ issued' = issued
  <1>1. Active(r) /\ issued' = issued
    BY DEF Resume, ClearPending, CreatePending, CommitEnrollment, Stamp, Splice, ReplaceCodes,
           AttestationVerified, InsertPasskey, EnableMfa, LookUpPasskey, AssertionVerified,
           AcceptPasskey, DropChallenge, At
  <1>2. Return(r) \/ \E pc \in PC : Goto(r, pc)
    BY DEF Resume, ClearPending, CreatePending, CommitEnrollment, Stamp, Splice, ReplaceCodes,
           AttestationVerified, InsertPasskey, EnableMfa, LookUpPasskey, AssertionVerified,
           AcceptPasskey, DropChallenge, PC
  <1>3. CASE Return(r)
    BY <1>1, <1>3, ReturnEffect DEF KeepsHands
  <1>4. CASE \E pc \in PC : Goto(r, pc)
    BY <1>1, <1>4, GotoEffect DEF KeepsHands
  <1>5. QED
    BY <1>2, <1>3, <1>4

\* A step that writes one list of codes.
LEMMA ListWritten ==
  ASSUME TypeOK, NEW r \in Request, Active(r), req[r].method \in Method,
         totp[req[r].method].state # "absent",
         NEW codes \in SUBSET Code, codes \subseteq req[r].backupCodes,
         totp' = [totp EXCEPT ![req[r].method].backupCodes = codes]
  PROVE  /\ totp'[req[r].method].backupCodes = codes
         /\ totp' \in [Method -> TotpRow]
         /\ \A m \in Method : RowStep(r, m)
  <1> DEFINE k == req[r].method
  <1>1. totp'[k] = [totp[k] EXCEPT !.backupCodes = codes] /\ totp[k] \in TotpRow
    BY DEF TypeOK
  <1>2. /\ totp'[k] \in TotpRow /\ totp'[k].state = totp[k].state
        /\ totp'[k].enabled = totp[k].enabled /\ totp'[k].backupCodes = codes
    BY <1>1 DEF TotpRow
  <1>3. \A m \in Method \ {k} : totp'[m] = totp[m] /\ totp'[m] \in TotpRow
    BY DEF TypeOK
  <1>4. totp' \in [Method -> TotpRow]
    BY <1>2, <1>3 DEF TypeOK
  <1>5. ASSUME NEW m \in Method PROVE RowStep(r, m)
    <2>1. CASE m = k
      BY <2>1, <1>2 DEF RowStep
    <2>2. CASE m # k
      BY <2>2, <1>3 DEF RowStep
    <2>3. QED
      BY <2>1, <2>2
  <1>6. QED
    BY <1>2, <1>4, <1>5

\* What a resumed handler does to the TOTP rows (mfa.service.ts:71-73, 88-97,
\* 149-158, 249-255, 288-291).
LEMMA ResumeRows ==
  ASSUME TypeOK, RowsHeld, NEW r \in Request, Resume(r)
  PROVE  /\ totp' \in [Method -> TotpRow]
         /\ \A m \in Method : RowStep(r, m)
  <1>1. CASE UNCHANGED totp
    BY <1>1 DEF TypeOK, RowStep
  <1>2. CASE ClearPending(r)
    <2>1. \A m \in Method : totp'[m] = IF totp[m].state = "pending"
                                        THEN NoRow("deleted") ELSE totp[m]
      BY <1>2 DEF ClearPending
    <2>2. NoRow("deleted") \in TotpRow /\ NoRow("deleted").state = "deleted"
          /\ NoRow("deleted").backupCodes = {}
      BY DEF NoRow, TotpRow
    <2>3. \A m \in Method : totp'[m] \in TotpRow
      BY <2>1, <2>2 DEF TypeOK
    <2>4. totp' \in [Method -> TotpRow]
      BY <1>2, <2>1, <2>3 DEF ClearPending
    <2>5. \A m \in Method : RowStep(r, m)
      BY <2>1, <2>2, <2>3 DEF RowStep
    <2>6. QED
      BY <2>4, <2>5
  <1>3. CASE CreatePending(r)
    <2> DEFINE k == req[r].method
               row == [state |-> "pending", enabled |-> TRUE,
                       backupCodes |-> req[r].backupCodes]
    <2>1. Active(r) /\ req[r].op = "enrollTotp" /\ totp' = [totp EXCEPT ![k] = row]
          /\ Return(r)
      BY <1>3 DEF CreatePending, At
    <2>2. k \in Method /\ totp[k].state = "absent" /\ req[r].backupCodes \subseteq Code
      BY <2>1 DEF RowsHeld, HandOf, TotpOp, TypeOK, Active, RequestState
    <2>3. row \in TotpRow
      BY <2>2 DEF TotpRow
    <2>4. totp' \in [Method -> TotpRow] /\ totp'[k] = row
          /\ \A m \in Method \ {k} : totp'[m] = totp[m]
      BY <2>1, <2>2, <2>3 DEF TypeOK
    <2>5. ~Active(r)'
      BY <2>1, ReturnEffect
    <2>6. \A m \in Method : RowStep(r, m)
      BY <2>1, <2>2, <2>4, <2>5 DEF RowStep
    <2>7. QED
      BY <2>4, <2>6
  <1>4. CASE CommitEnrollment(r)
    <2> DEFINE k == req[r].method
    <2>1. CASE totp[k].state = "deleted"
      BY <1>1, <1>4, <2>1 DEF CommitEnrollment
    <2>2. CASE totp[k].state # "deleted"
      <3>1. Active(r) /\ req[r].op = "verifyTotpEnrollment"
            /\ totp' = [totp EXCEPT ![k].state = "verified"]
        BY <1>4, <2>2 DEF CommitEnrollment, At
      <3>2. k \in Method /\ totp[k].state # "absent"
        BY <3>1 DEF RowsHeld, HandOf, TotpOp
      <3>3. totp'[k] = [totp[k] EXCEPT !.state = "verified"] /\ totp[k] \in TotpRow
        BY <3>1, <3>2 DEF TypeOK
      <3>4. /\ totp'[k] \in TotpRow /\ totp'[k].state = "verified"
            /\ totp'[k].enabled = totp[k].enabled
            /\ totp'[k].backupCodes = totp[k].backupCodes
        BY <3>3 DEF TotpRow
      <3>5. \A m \in Method \ {k} : totp'[m] = totp[m] /\ totp'[m] \in TotpRow
        BY <3>1 DEF TypeOK
      <3>6. totp' \in [Method -> TotpRow]
        BY <3>1, <3>4, <3>5 DEF TypeOK
      <3>7. ASSUME NEW m \in Method PROVE RowStep(r, m)
        <4>1. CASE m = k
          BY <4>1, <3>2, <3>4 DEF RowStep
        <4>2. CASE m # k
          BY <4>2, <3>5 DEF RowStep
        <4>3. QED
          BY <4>1, <4>2
      <3>8. QED
        BY <3>6, <3>7
    <2>3. QED
      BY <2>1, <2>2
  <1>5. CASE Splice(r) \/ ReplaceCodes(r)
    <2>1. /\ Active(r) /\ req[r].op \in TotpOp \ {"enrollTotp"}
          /\ \E codes \in SUBSET req[r].backupCodes :
               totp' = [totp EXCEPT ![req[r].method].backupCodes = codes]
      BY <1>5 DEF Splice, ReplaceCodes, At, TotpOp
    <2>2. req[r].method \in Method /\ totp[req[r].method].state # "absent"
      BY <2>1 DEF RowsHeld, HandOf
    <2>3. req[r].backupCodes \subseteq Code
      BY <2>1 DEF TypeOK, Active, RequestState
    <2>4. QED
      BY <2>1, <2>2, <2>3, ListWritten
  <1>6. QED
    BY <1>1, <1>2, <1>3, <1>4, <1>5
       DEF Resume, Stamp, AttestationVerified, InsertPasskey, EnableMfa, LookUpPasskey,
           AssertionVerified, AcceptPasskey, DropChallenge

\* What a resumed handler does to the rest (mfa.service.ts:155-158, 249-255,
\* 480-506, 574-590): MFA is switched on for a passkey or for the row that was
\* just verified, a challenge leaves the store before it counts.
LEMMA ResumeRest ==
  ASSUME TypeOK, RowsHeld, NEW r \in Request, Resume(r)
  PROVE  /\ mfaEnabled' \in BOOLEAN
         /\ passkey \subseteq passkey' /\ passkey' \subseteq Passkey
         /\ challengeStore' \in [{"register", "auth"} -> Nonce \cup {None}]
         /\ \A kind \in {"register", "auth"} :
              challengeStore'[kind] \in {challengeStore[kind], None}
         /\ uses' \in [Secret -> Nat]
         /\ mfaEnabled' = mfaEnabled \/ passkey' # {} \/
              /\ At(r, "commit", "verifyTotpEnrollment") /\ ~Active(r)'
              /\ req[r].method \in Method /\ totp'[req[r].method].state = "verified"
         /\ Active(r)' /\ req'[r].pc = "enable" => passkey' # {}
  <1>1. CASE CommitEnrollment(r)
    <2>1. /\ Active(r) /\ req[r].op = "verifyTotpEnrollment" /\ Return(r)
          /\ At(r, "commit", "verifyTotpEnrollment")
          /\ UNCHANGED <<passkey, challengeStore, issued, uses>>
      BY <1>1 DEF CommitEnrollment, At
    <2>2. req[r].method \in Method
      BY <2>1 DEF RowsHeld, HandOf, TotpOp
    <2>3. ~Active(r)'
      BY <2>1, ReturnEffect
    <2>4. CASE totp[req[r].method].state = "deleted"
      BY <1>1, <2>1, <2>3, <2>4 DEF CommitEnrollment, TypeOK
    <2>5. CASE totp[req[r].method].state # "deleted"
      <3>1. mfaEnabled' = TRUE /\ totp' = [totp EXCEPT ![req[r].method].state = "verified"]
        BY <1>1, <2>5 DEF CommitEnrollment
      <3>2. totp[req[r].method] \in TotpRow
        BY <2>2 DEF TypeOK
      <3>3. totp'[req[r].method].state = "verified"
        BY <2>2, <3>1, <3>2 DEF TypeOK, TotpRow
      <3>4. QED
        BY <2>1, <2>2, <2>3, <3>1, <3>3 DEF TypeOK
    <2>6. QED
      BY <2>4, <2>5
  <1>2. CASE InsertPasskey(r)
    <2>1. CASE req[r].credential \in passkey
      BY <1>2, <2>1 DEF InsertPasskey, TypeOK
    <2>2. CASE req[r].credential \notin passkey
      <3>1. /\ Active(r) /\ req[r].op = "enrollPasskey" /\ Used(req[r].challenge)
            /\ passkey' = passkey \cup {req[r].credential} /\ Goto(r, "enable")
            /\ UNCHANGED <<mfaEnabled, totp, challengeStore, issued>>
        BY <1>2, <2>2 DEF InsertPasskey, At
      <3>2. req[r].credential \in Passkey
        BY <3>1 DEF RowsHeld, HandOf
      <3>3. uses' \in [Secret -> Nat]
        BY <3>1, UsedType
      <3>4. QED
        BY <3>1, <3>2, <3>3 DEF TypeOK
    <2>3. QED
      BY <2>1, <2>2
  <1>3. CASE Splice(r) \/ AcceptPasskey(r)
    <2>1. /\ UNCHANGED <<mfaEnabled, passkey, challengeStore, issued>> /\ Return(r)
          /\ Used(req[r].code) \/ Used(req[r].challenge)
      BY <1>3 DEF Splice, AcceptPasskey
    <2>2. uses' \in [Secret -> Nat]
      BY <2>1, UsedType
    <2>3. QED
      BY <2>1, <2>2, ReturnEffect DEF TypeOK
  <1>4. CASE AttestationVerified(r) \/ AssertionVerified(r)
    <2>1. PICK kind \in {"register", "auth"}, pc \in {"insert", "stamp"} :
            /\ challengeStore' = [challengeStore EXCEPT ![kind] = None]
            /\ Goto(r, pc) /\ Active(r)
            /\ UNCHANGED <<mfaEnabled, totp, passkey, issued, uses>>
      BY <1>4 DEF AttestationVerified, AssertionVerified, DropChallenge, At
    <2>2. req'[r].pc = pc
      BY <2>1, GotoEffect DEF PC
    <2>3. QED
      BY <2>1, <2>2 DEF TypeOK
  <1>5. CASE EnableMfa(r)
    <2>1. passkey # {}
      BY <1>5 DEF EnableMfa, At, RowsHeld, HandOf
    <2>2. QED
      BY <1>5, <2>1, ReturnEffect DEF EnableMfa, TypeOK
  <1>6. CASE LookUpPasskey(r) \/ ClearPending(r)
    <2>1. /\ UNCHANGED <<mfaEnabled, passkey, challengeStore, issued, uses>> /\ Active(r)
          /\ Return(r) \/ Goto(r, "verify") \/ Goto(r, "create")
      BY <1>6 DEF LookUpPasskey, ClearPending, At
    <2>2. Active(r)' => req'[r].pc \in {"verify", "create"}
      BY <2>1, ReturnEffect, GotoEffect DEF PC
    <2>3. QED
      BY <2>1, <2>2 DEF TypeOK
  <1>7. CASE CreatePending(r) \/ Stamp(r) \/ ReplaceCodes(r)
    BY <1>7, ReturnEffect DEF CreatePending, Stamp, ReplaceCodes, TypeOK
  <1>8. QED
    BY <1>1, <1>2, <1>3, <1>4, <1>5, <1>6, <1>7 DEF Resume

\* What disableTotp, the challenges and a restart do (mfa.service.ts:324-333,
\* 424-440, 528-545).
LEMMA SynchronousEffect ==
  ASSUME TypeOK, Synchronous
  PROVE  /\ TypeOK'
         /\ req' = req \/ \A r \in Request : req'[r] = Idle
         /\ \A m \in Method : /\ totp'[m].state = totp[m].state
                              /\ totp'[m].backupCodes = totp[m].backupCodes
         /\ passkey' = passkey /\ uses' = uses
         /\ mfaEnabled' => mfaEnabled /\ totp' = totp
         /\ \/ /\ issued' = issued
               /\ \A kind \in {"register", "auth"} :
                    challengeStore'[kind] \in {challengeStore[kind], None}
            \/ \E n \in Nonce \ issued, kind \in {"register", "auth"} :
                 /\ challengeStore' = [challengeStore EXCEPT ![kind] = n]
                 /\ issued' = issued \cup {n} /\ req' = req
  <1>1. CASE DisableTotp
    <2>1. /\ totp' = [m \in Method |-> [totp[m] EXCEPT !.enabled = FALSE]]
          /\ mfaEnabled' = FALSE /\ UNCHANGED <<passkey, challengeStore, req, issued, uses>>
      BY <1>1 DEF DisableTotp
    <2>2. ASSUME NEW m \in Method
          PROVE  /\ totp'[m] \in TotpRow /\ totp'[m].state = totp[m].state
                 /\ totp'[m].backupCodes = totp[m].backupCodes
      <3>1. totp'[m] = [totp[m] EXCEPT !.enabled = FALSE] /\ totp[m] \in TotpRow
        BY <2>1 DEF TypeOK
      <3>2. QED
        BY <3>1 DEF TotpRow
    <2>3. totp' \in [Method -> TotpRow]
      BY <2>1, <2>2
    <2>4. QED
      BY <2>1, <2>2, <2>3 DEF TypeOK
  <1>2. CASE \E n \in Nonce : GetPasskeyOptions(n) \/ GetPasskeyAuthOptions(n)
    <2>1. PICK n \in Nonce, kind \in {"register", "auth"} :
            /\ n \notin issued
            /\ challengeStore' = [challengeStore EXCEPT ![kind] = n]
            /\ issued' = issued \cup {n}
            /\ UNCHANGED <<mfaEnabled, totp, passkey, req, uses>>
      BY <1>2 DEF GetPasskeyOptions, GetPasskeyAuthOptions, GetOptions
    <2>2. TypeOK'
      BY <2>1 DEF TypeOK, Secret
    <2>3. QED
      BY <2>1, <2>2
  <1>3. CASE \E kind \in {"register", "auth"} : ExpireOptions(kind)
    BY <1>3 DEF ExpireOptions, TypeOK
  <1>4. CASE Restart
    BY <1>4 DEF Restart, TypeOK
  <1>5. QED
    BY <1>1, <1>2, <1>3, <1>4 DEF Synchronous

-----------------------------------------------------------------------------
(* Types, methods and lockouts.                                            *)

MethodInv == TypeOK /\ RowsHeld /\ MfaHasMethod

\* A new account has no row, no passkey and MFA off.
LEMMA MethodInvInit == Init => MethodInv
  <1> SUFFICES ASSUME Init PROVE MethodInv
    OBVIOUS
  <1>1. \A m \in Method : totp[m] \in TotpRow
    BY DEF Init, NoRow, TotpRow
  <1>2. TypeOK
    BY <1>1 DEF Init, TypeOK
  <1>3. RowsHeld /\ MfaHasMethod
    BY DEF Init, RowsHeld, MfaHasMethod, Active
  <1>4. QED
    BY <1>2, <1>3 DEF MethodInv

\* Calls.
LEMMA MethodInvCall ==
  ASSUME MethodInv, NEW r \in Request, Call(r)
  PROVE  MethodInv'
  <1>1. TypeOK /\ RowsHeld /\ MfaHasMethod
    BY DEF MethodInv
  <1>2. UNCHANGED <<mfaEnabled, totp, passkey, challengeStore, uses>>
    BY <1>1, CallEffect
  <1>3. TypeOK'
    BY <1>1, CallEffect DEF TypeOK
  <1>4. MfaHasMethod'
    BY <1>1, <1>2 DEF MfaHasMethod
  <1>5. /\ \A q \in Request \ {r} : req'[q] = req[q]
        /\ req[r] = Idle
        /\ \/ /\ req'[r].op \in TotpOp /\ req'[r].method \in Method
              /\ req'[r].op = "enrollTotp" => Unused(req'[r].method)
              /\ req'[r].op # "enrollTotp" => totp[req'[r].method].state # "absent"
           \/ /\ req'[r].op \notin TotpOp /\ req'[r].method = None
              /\ req'[r].op = "enrollPasskey" => req'[r].credential \in Passkey
        /\ req'[r].pc # "enable"
    <2>1. \/ req'[r].op = "enrollTotp"
          \/ req'[r].op = "regenerateBackupCodes"
          \/ req'[r].op \in {"verifyTotpEnrollment", "verifyTotpCode", "verifyBackupCode"}
          \/ req'[r].op \in {"enrollPasskey", "verifyPasskeyAuth"}
      BY <1>1, CallEffect
    <2>2. QED
      BY <1>1, <2>1, CallEffect DEF TotpOp, Usable
  <1>6. ASSUME NEW q \in Request, Active(q)' PROVE HandOf(q)'
    <2>1. CASE q = r
      BY <1>2, <1>5, <2>1 DEF HandOf, Unused, TotpOp, Active
    <2>2. CASE q # r
      <3>1. Active(q) /\ req'[q] = req[q] /\ HandOf(q)
        BY <1>1, <1>5, <1>6, <2>2 DEF RowsHeld, Active
      <3>2. ASSUME req[q].op = "enrollTotp", NEW p \in Request \ {q}, Active(p)'
            PROVE  req'[p].method # req[q].method
        <4>1. CASE p # r
          BY <1>5, <3>1, <3>2, <4>1 DEF HandOf, Active
        <4>2. CASE p = r
          BY <1>5, <3>1, <3>2, <4>2, MfaAssumption DEF HandOf, Unused, TotpOp
        <4>3. QED
          BY <4>1, <4>2
      <3>3. QED
        BY <1>2, <3>1, <3>2 DEF HandOf
    <2>3. QED
      BY <2>1, <2>2
  <1>7. QED
    BY <1>3, <1>4, <1>6 DEF MethodInv, RowsHeld

\* Steps after an await.
LEMMA MethodInvResume ==
  ASSUME MethodInv, NEW r \in Request, Resume(r)
  PROVE  MethodInv'
  <1>1. TypeOK /\ RowsHeld /\ MfaHasMethod
    BY DEF MethodInv
  <1>2. TypeOK'
    BY <1>1, ResumeHands, ResumeRows, ResumeRest DEF TypeOK
  <1>3. MfaHasMethod'
    BY <1>1, ResumeRows, ResumeRest DEF MfaHasMethod, RowStep
  <1>4. ASSUME NEW q \in Request, Active(q)' PROVE HandOf(q)'
    <2>1. Active(q) /\ HandOf(q) /\ Active(r) /\ HandOf(r)
      BY <1>1, <1>4, ResumeHands DEF RowsHeld, Active
    <2>2. /\ req'[q].op = req[q].op /\ req'[q].method = req[q].method
          /\ req'[q].credential = req[q].credential
      BY <1>1, <1>4, ResumeHands DEF KeepsHands
    <2>3. req'[q].pc = "enable" => passkey' # {}
      BY <1>1, <1>4, <2>1, ResumeHands, ResumeRest DEF HandOf
    <2>4. ASSUME req[q].op \in TotpOp
          PROVE  /\ req[q].op = "enrollTotp" => totp'[req[q].method].state = "absent"
                 /\ req[q].op # "enrollTotp" => totp'[req[q].method].state # "absent"
      <3>1. req[q].method \in Method /\ RowStep(r, req[q].method)
        BY <1>1, <2>1, <2>4, ResumeRows DEF HandOf
      <3>2. QED
        BY <1>4, <2>1, <2>4, <3>1 DEF RowStep, HandOf
    <2>5. ASSUME req[q].op = "enrollTotp", NEW p \in Request \ {q}, Active(p)'
          PROVE  req'[p].method # req[q].method
      <3>1. Active(p) /\ req'[p].method = req[p].method
        BY <1>1, <2>5, ResumeHands DEF KeepsHands, Active
      <3>2. QED
        BY <2>1, <2>5, <3>1 DEF HandOf
    <2>6. QED
      BY <2>1, <2>2, <2>3, <2>4, <2>5 DEF HandOf, TotpOp
  <1>5. QED
    BY <1>2, <1>3, <1>4 DEF MethodInv, RowsHeld

\* Everything else.
LEMMA MethodInvSynchronous ==
  ASSUME MethodInv, Synchronous
  PROVE  MethodInv'
  <1>1. TypeOK /\ RowsHeld /\ MfaHasMethod
    BY DEF MethodInv
  <1>2. TypeOK' /\ MfaHasMethod'
    BY <1>1, SynchronousEffect DEF MfaHasMethod
  <1>3. ASSUME NEW q \in Request, Active(q)' PROVE HandOf(q)'
    <2>1. req' = req /\ Active(q) /\ HandOf(q)
      BY <1>1, <1>3, SynchronousEffect DEF RowsHeld, Active
    <2>2. passkey' = passkey /\ \A m \in Method : totp'[m].state = totp[m].state
      BY <1>1, SynchronousEffect
    <2>3. QED
      BY <2>1, <2>2 DEF HandOf, Active, TotpOp
  <1>4. QED
    BY <1>2, <1>3 DEF MethodInv, RowsHeld

\* No step of any handler breaks the invariant about rows and methods.
LEMMA MethodInvInductive == MethodInv /\ [Next]_vars => MethodInv'
  <1> SUFFICES ASSUME MethodInv, [Next]_vars PROVE MethodInv'
    OBVIOUS
  <1>1. CASE UNCHANGED vars
    BY <1>1 DEF vars, MethodInv, TypeOK, RowsHeld, HandOf, MfaHasMethod, Active
  <1>2. CASE \E r \in Request : Call(r) \/ Resume(r)
    BY <1>2, MethodInvCall, MethodInvResume
  <1>3. CASE Synchronous
    BY <1>3, MethodInvSynchronous
  <1>4. QED
    BY <1>1, <1>2, <1>3 DEF Next

\* The invariant about rows and methods always holds (mfa.service.ts:57-158,
\* 466-506).
LEMMA MethodInvHolds == Spec => []MethodInv
  BY MethodInvInit, MethodInvInductive, PTL DEF Spec

\* The state always has its types (mfa.service.ts, schema.prisma MfaMethod).
THEOREM TypeCorrect == Spec => []TypeOK
  <1>1. MethodInv => TypeOK
    BY DEF MethodInv
  <1>2. QED
    BY <1>1, MethodInvHolds, PTL

\* However enrolments, deletions of pending rows, disabling and sign-ins
\* overlap, an account with MFA on has a method that worked once
\* (mfa.service.ts:71-73, 149-158, 489-506).
THEOREM MethodBehindMfa == Spec => []MfaHasMethod
  <1>1. MethodInv => MfaHasMethod
    BY DEF MethodInv
  <1>2. QED
    BY <1>1, MethodInvHolds, PTL

\* The only step that leaves an account with MFA on and no usable method is a
\* verifyTotpEnrollment that arrives after disableTotp switched its row off
\* (mfa.service.ts:123-158, 324-333).
THEOREM LockoutCause == Spec => LockoutOnlyByLateVerification
  <1> DEFINE Cause == \E r \in Request :
                        /\ At(r, "commit", "verifyTotpEnrollment") /\ ~Active(r)'
                        /\ ~totp[req[r].method].enabled
             Caused == ~LockedOut /\ LockedOut' => Cause
  <1>1. ASSUME MethodInv, Next, ~LockedOut, LockedOut' PROVE Cause
    <2>1. TypeOK /\ RowsHeld
      BY <1>1 DEF MethodInv
    <2>2. mfaEnabled' /\ passkey' = {} /\ \A m \in Method : ~Usable(m)'
      BY <1>1 DEF LockedOut
    <2>3. ASSUME NEW r \in Request, Call(r) PROVE FALSE
      BY <1>1, <2>1, <2>3, CallEffect DEF LockedOut, Usable
    <2>4. ASSUME Synchronous PROVE FALSE
      BY <1>1, <2>1, <2>4, SynchronousEffect DEF LockedOut, Usable
    <2>5. ASSUME NEW r \in Request, Resume(r) PROVE Cause
      <3>1. passkey = {}
        BY <2>1, <2>2, <2>5, ResumeRest
      <3>2. \A m \in Method : RowStep(r, m)
        BY <2>1, <2>5, ResumeRows
      <3>3. \A m \in Method : ~Usable(m)
        BY <2>2, <3>2 DEF RowStep, Usable
      <3>4. mfaEnabled' # mfaEnabled
        BY <1>1, <2>1, <2>2, <3>1, <3>3 DEF LockedOut, TypeOK
      <3>5. /\ At(r, "commit", "verifyTotpEnrollment") /\ ~Active(r)'
            /\ req[r].method \in Method /\ totp'[req[r].method].state = "verified"
        BY <2>1, <2>2, <2>5, <3>4, ResumeRest
      <3>6. ~totp'[req[r].method].enabled
        BY <2>2, <3>5 DEF Usable
      <3>7. totp'[req[r].method].enabled = totp[req[r].method].enabled
        BY <3>2, <3>5 DEF RowStep
      <3>8. QED
        BY <3>5, <3>6, <3>7
    <2>6. QED
      BY <1>1, <2>3, <2>4, <2>5 DEF Next
  <1>2. MethodInv /\ [Next]_vars => [Caused]_vars
    BY <1>1
  <1>3. Spec => [][Caused]_vars
    BY <1>2, MethodInvHolds, PTL DEF Spec
  <1>4. QED
    BY <1>3 DEF LockoutOnlyByLateVerification

-----------------------------------------------------------------------------
(* Backup codes.  A code belongs to one row: it is in the list of no other *)
(* row and in the hands of no handler of another row.                      *)

IssuedCodes ==
  /\ \A m \in Method : totp[m].backupCodes \subseteq issued
  /\ \A r \in Request : Active(r) => req[r].backupCodes \subseteq issued

CodesApart ==
  /\ \A m, n \in Method : m # n => totp[m].backupCodes \cap totp[n].backupCodes = {}
  /\ \A r \in Request, n \in Method :
       Active(r) /\ req[r].method # n => req[r].backupCodes \cap totp[n].backupCodes = {}
  /\ \A r, q \in Request :
       Active(r) /\ Active(q) /\ req[r].method # req[q].method =>
         req[r].backupCodes \cap req[q].backupCodes = {}

CodesInHand ==
  \A r \in Request : Active(r) =>
    /\ req[r].code # None => req[r].code \in req[r].backupCodes
    /\ req[r].op \notin TotpOp => req[r].backupCodes = {}

CodeInv == IssuedCodes /\ CodesApart /\ CodesInHand

\* There are no codes before the first enrolment.
LEMMA CodeInvInit == Init => CodeInv
  BY DEF Init, NoRow, CodeInv, IssuedCodes, CodesApart, CodesInHand, Active

\* The codes a call starts with are new, or those of its row.
LEMMA CallCodes ==
  ASSUME TypeOK, NEW r \in Request, Call(r)
  PROVE  /\ \/ /\ req'[r].method \in Method
               /\ req'[r].backupCodes \cap issued = {}
               /\ issued' = issued \cup req'[r].backupCodes
               /\ req'[r].code = None
            \/ /\ req'[r].method \in Method
               /\ req'[r].backupCodes = totp[req'[r].method].backupCodes
               /\ req'[r].code \in req'[r].backupCodes
               /\ issued' = issued
            \/ /\ req'[r].backupCodes = {} /\ req'[r].code = None
               /\ issued' = issued
         /\ req'[r].op \notin TotpOp => req'[r].backupCodes = {}
  <1>1. \/ req'[r].op = "enrollTotp" \/ req'[r].op = "regenerateBackupCodes"
        \/ req'[r].op = "verifyBackupCode"
        \/ req'[r].op \in {"verifyTotpEnrollment", "verifyTotpCode"}
        \/ req'[r].op \in {"enrollPasskey", "verifyPasskeyAuth"}
    BY CallEffect
  <1>2. QED
    BY <1>1, CallEffect DEF TotpOp

\* A call takes new codes or those of the row it read (mfa.service.ts:75-86,
\* 229-243, 276-286).
LEMMA CodeInvCall ==
  ASSUME TypeOK, CodeInv, NEW r \in Request, Call(r)
  PROVE  CodeInv'
  <1>1. /\ totp' = totp /\ issued \subseteq issued'
        /\ \A q \in Request \ {r} : req'[q] = req[q]
        /\ \A q \in Request \ {r} : Active(q)' <=> Active(q)
    BY CallEffect DEF Active
  <1>2. IssuedCodes'
    BY <1>1, CallCodes DEF CodeInv, IssuedCodes
  <1>3. CodesInHand'
    BY <1>1, CallCodes DEF CodeInv, CodesInHand
  <1>4. ASSUME NEW n \in Method, req'[r].method # n
        PROVE  req'[r].backupCodes \cap totp[n].backupCodes = {}
    BY <1>4, CallCodes DEF CodeInv, IssuedCodes, CodesApart
  <1>5. ASSUME NEW q \in Request \ {r}, Active(q), req'[r].method # req[q].method
        PROVE  req'[r].backupCodes \cap req[q].backupCodes = {}
    BY <1>5, CallCodes DEF CodeInv, IssuedCodes, CodesApart
  <1>6. CodesApart'
    BY <1>1, <1>4, <1>5 DEF CodeInv, CodesApart
  <1>7. QED
    BY <1>2, <1>3, <1>6 DEF CodeInv

\* A write puts into a row only codes of the same row (mfa.service.ts:88-97,
\* 249-255, 288-291).
LEMMA CodeInvResume ==
  ASSUME TypeOK, RowsHeld, CodeInv, NEW r \in Request, Resume(r)
  PROVE  CodeInv'
  <1>1. /\ issued' = issued /\ Active(r)
        /\ \A q \in Request : Active(q)' =>
             /\ Active(q)
             /\ req'[q].op = req[q].op /\ req'[q].method = req[q].method
             /\ req'[q].backupCodes = req[q].backupCodes /\ req'[q].code = req[q].code
    BY ResumeHands DEF KeepsHands, Active
  <1>2. \A m \in Method :
          \/ totp'[m].backupCodes \subseteq totp[m].backupCodes
          \/ m = req[r].method /\ totp'[m].backupCodes \subseteq req[r].backupCodes
    BY ResumeRows DEF RowStep
  <1>3. IssuedCodes' /\ CodesInHand'
    BY <1>1, <1>2 DEF CodeInv, IssuedCodes, CodesInHand
  <1>4. ASSUME NEW m \in Method, NEW n \in Method, m # n
        PROVE  totp'[m].backupCodes \cap totp'[n].backupCodes = {}
    BY <1>1, <1>2, <1>4 DEF CodeInv, CodesApart
  <1>5. ASSUME NEW q \in Request, NEW n \in Method, Active(q), req[q].method # n
        PROVE  req[q].backupCodes \cap totp'[n].backupCodes = {}
    BY <1>1, <1>2, <1>5 DEF CodeInv, CodesApart
  <1>6. CodesApart'
    BY <1>1, <1>4, <1>5 DEF CodeInv, CodesApart
  <1>7. QED
    BY <1>3, <1>6 DEF CodeInv

\* disableTotp and the challenges touch no code (mfa.service.ts:324-333).
LEMMA CodeInvSynchronous ==
  ASSUME TypeOK, CodeInv, Synchronous
  PROVE  CodeInv'
  <1>1. /\ issued \subseteq issued'
        /\ \A q \in Request : Active(q)' => Active(q) /\ req'[q] = req[q]
        /\ \A m \in Method : totp'[m].backupCodes = totp[m].backupCodes
    BY SynchronousEffect DEF Active
  <1>2. QED
    BY <1>1 DEF CodeInv, IssuedCodes, CodesApart, CodesInHand

\* A code is always of one row only.
LEMMA CodeInvHolds == Spec => []CodeInv
  <1>1. MethodInv /\ CodeInv /\ [Next]_vars => CodeInv'
    <2> SUFFICES ASSUME MethodInv, CodeInv, [Next]_vars PROVE CodeInv'
      OBVIOUS
    <2>1. CASE UNCHANGED vars
      BY <2>1 DEF vars, CodeInv, IssuedCodes, CodesApart, CodesInHand, Active
    <2>2. CASE Next
      BY <2>2, CodeInvCall, CodeInvResume, CodeInvSynchronous DEF MethodInv, Next
    <2>3. QED
      BY <2>1, <2>2
  <1>2. QED
    BY <1>1, CodeInvInit, MethodInvHolds, PTL DEF Spec

\* Only the write of the shortened list counts a code as used, and that list
\* lacks it (mfa.service.ts:246-255).
LEMMA CodeUsed ==
  ASSUME TypeOK, RowsHeld, NEW r \in Request, Resume(r),
         NEW c \in Code, uses'[c] # uses[c]
  PROVE  /\ Active(r) /\ c = req[r].code /\ req[r].method \in Method
         /\ c \notin totp'[req[r].method].backupCodes
         /\ \A m \in Method \ {req[r].method} : totp'[m] = totp[m]
  <1>1. c \in Secret /\ c \notin Nonce /\ c # None
    BY MfaAssumption DEF Secret
  <1>2. CASE Splice(r)
    <2>1. /\ Active(r) /\ req[r].op = "verifyBackupCode" /\ Used(req[r].code)
          /\ totp' = [totp EXCEPT ![req[r].method].backupCodes =
                                   req[r].backupCodes \ {req[r].code}]
      BY <1>2 DEF Splice, At
    <2>2. /\ req[r].method \in Method /\ totp[req[r].method].state # "absent"
          /\ req[r].backupCodes \ {req[r].code} \in SUBSET Code
      BY <2>1 DEF RowsHeld, HandOf, TotpOp, TypeOK, Active, RequestState
    <2>3. totp'[req[r].method].backupCodes = req[r].backupCodes \ {req[r].code}
      <3>1. totp[req[r].method] \in TotpRow
        BY <2>2 DEF TypeOK
      <3>2. QED
        BY <2>1, <2>2, <3>1 DEF TypeOK, TotpRow
    <2>4. c = req[r].code
      BY <1>1, <2>1, UsedType
    <2>5. \A m \in Method \ {req[r].method} : totp'[m] = totp[m]
      BY <2>1 DEF TypeOK
    <2>6. QED
      BY <2>1, <2>2, <2>3, <2>4, <2>5
  <1>3. CASE Used(req[r].challenge)
    <2>1. req[r].challenge \in Nonce \cup {None}
      BY ResumeHands DEF TypeOK, Active, RequestState
    <2>2. QED
      BY <1>1, <1>3, <2>1, UsedType
  <1>4. CASE uses' = uses
    BY <1>4
  <1>5. QED
    BY <1>2, <1>3, <1>4
       DEF Resume, ClearPending, CreatePending, CommitEnrollment, Stamp, ReplaceCodes,
           AttestationVerified, InsertPasskey, EnableMfa, LookUpPasskey,
           AssertionVerified, AcceptPasskey, DropChallenge

\* A backup code is out of the table the moment it signs somebody in, and a
\* code that is out of the table and of every handler's hands is dead, for any
\* number of rows, codes and overlapping requests (mfa.service.ts:225-255,
\* 274-290).
THEOREM SpentCodesAreDead == Spec => SpentCodesStayDead
  <1> DEFINE OutOfTable(c) == \A m \in Method : c \notin totp'[m].backupCodes
             Dead == \A c \in Code : /\ uses'[c] # uses[c] => OutOfTable(c)
                                     /\ SpentCode(c) => SpentCode(c)' /\ uses'[c] = uses[c]
  <1>1. ASSUME MethodInv, CodeInv, Next, NEW c \in Code
        PROVE  /\ uses'[c] # uses[c] => OutOfTable(c)
               /\ SpentCode(c) => SpentCode(c)' /\ uses'[c] = uses[c]
    <2>1. TypeOK /\ RowsHeld
      BY <1>1 DEF MethodInv
    <2>2. c # None
      BY MfaAssumption
    <2>3. CASE Synchronous
      <3>1. /\ issued \subseteq issued' /\ uses' = uses
            /\ \A q \in Request : Active(q)' => Active(q) /\ req'[q] = req[q]
            /\ \A m \in Method : totp'[m].backupCodes = totp[m].backupCodes
        BY <2>1, <2>3, SynchronousEffect DEF Active
      <3>2. QED
        BY <3>1 DEF SpentCode, InHand
    <2>4. ASSUME NEW r \in Request, Call(r)
          PROVE  uses'[c] = uses[c] /\ (SpentCode(c) => SpentCode(c)')
      <3>1. /\ totp' = totp /\ issued \subseteq issued' /\ uses' = uses
            /\ \A q \in Request \ {r} : req'[q] = req[q]
        BY <2>1, <2>4, CallEffect
      <3>2. SpentCode(c) => c \notin req'[r].backupCodes \cup {req'[r].code}
        BY <2>1, <2>2, <2>4, CallCodes DEF SpentCode
      <3>3. QED
        BY <3>1, <3>2 DEF SpentCode, InHand, Active
    <2>5. ASSUME NEW r \in Request, Resume(r)
          PROVE  /\ uses'[c] # uses[c] => OutOfTable(c)
                 /\ SpentCode(c) => SpentCode(c)' /\ uses'[c] = uses[c]
      <3>1. ASSUME uses'[c] # uses[c] PROVE OutOfTable(c)
        <4>1. /\ Active(r) /\ c = req[r].code /\ req[r].method \in Method
              /\ c \notin totp'[req[r].method].backupCodes
              /\ \A m \in Method \ {req[r].method} : totp'[m] = totp[m]
          BY <2>1, <2>5, <3>1, CodeUsed
        <4>2. c \in req[r].backupCodes
          BY <1>1, <2>2, <4>1 DEF CodeInv, CodesInHand
        <4>3. \A m \in Method \ {req[r].method} : c \notin totp[m].backupCodes
          BY <1>1, <4>1, <4>2 DEF CodeInv, CodesApart
        <4>4. QED
          BY <4>1, <4>3
      <3>2. ASSUME SpentCode(c) PROVE SpentCode(c)' /\ uses'[c] = uses[c]
        <4>1. Active(r) /\ c \notin req[r].backupCodes \cup {req[r].code}
          BY <2>1, <2>5, <3>2, ResumeHands DEF SpentCode, InHand
        <4>2. uses'[c] = uses[c]
          BY <2>1, <2>5, <4>1, CodeUsed
        <4>3. \A m \in Method : c \notin totp'[m].backupCodes
          BY <2>1, <2>5, <3>2, <4>1, ResumeRows DEF RowStep, SpentCode
        <4>4. /\ issued' = issued
              /\ \A q \in Request : Active(q)' =>
                   /\ Active(q) /\ req'[q].code = req[q].code
                   /\ req'[q].backupCodes = req[q].backupCodes
          BY <2>1, <2>5, ResumeHands DEF KeepsHands, Active
        <4>5. QED
          BY <3>2, <4>2, <4>3, <4>4 DEF SpentCode, InHand
      <3>3. QED
        BY <3>1, <3>2
    <2>6. QED
      BY <1>1, <2>3, <2>4, <2>5, <2>1, SynchronousEffect DEF Next
  <1>2. MethodInv /\ CodeInv /\ [Next]_vars => [Dead]_vars
    BY <1>1
  <1>3. Spec => [][Dead]_vars
    BY <1>2, MethodInvHolds, CodeInvHolds, PTL DEF Spec
  <1>4. QED
    BY <1>3 DEF SpentCodesStayDead

-----------------------------------------------------------------------------
(* Challenges of passkeys.  A challenge that a handler read is out of the  *)
(* other entry from the start, and out of its own once it was verified.    *)

StoredNonces ==
  /\ \A kind \in {"register", "auth"} : challengeStore[kind] \in issued \cup {None}
  /\ challengeStore["register"] = challengeStore["auth"] => challengeStore["auth"] = None

NonceInHand(r) ==
  /\ req[r].challenge \in issued \cup {None}
  /\ req[r].op = "enrollPasskey" =>
       /\ req[r].challenge # None /\ req[r].challenge # challengeStore["auth"]
       /\ req[r].pc # "verify" => req[r].challenge # challengeStore["register"]
  /\ req[r].op = "verifyPasskeyAuth" =>
       /\ req[r].challenge # None /\ req[r].challenge # challengeStore["register"]
       /\ req[r].pc \notin {"lookup", "verify"} => req[r].challenge # challengeStore["auth"]

NonceInv == StoredNonces /\ \A r \in Request : Active(r) => NonceInHand(r)

\* There are no challenges before the first options.
LEMMA NonceInvInit == Init => NonceInv
  BY DEF Init, NonceInv, StoredNonces, Active

\* A call reads the challenge of its own kind (mfa.service.ts:466-477, 549-554).
LEMMA NonceInvCall ==
  ASSUME TypeOK, NonceInv, NEW r \in Request, Call(r)
  PROVE  NonceInv'
  <1>1. /\ challengeStore' = challengeStore /\ issued \subseteq issued'
        /\ \A q \in Request \ {r} : req'[q] = req[q]
    BY CallEffect
  <1>2. \/ /\ req'[r].op \notin {"enrollPasskey", "verifyPasskeyAuth"}
           /\ req'[r].challenge = None
        \/ /\ req'[r].op = "enrollPasskey" /\ req'[r].pc = "verify"
           /\ req'[r].challenge = challengeStore["register"] /\ req'[r].challenge # None
        \/ /\ req'[r].op = "verifyPasskeyAuth" /\ req'[r].pc = "lookup"
           /\ req'[r].challenge = challengeStore["auth"] /\ req'[r].challenge # None
    BY CallEffect
  <1>3. NonceInHand(r)'
    BY <1>1, <1>2 DEF NonceInv, StoredNonces, NonceInHand
  <1>4. QED
    BY <1>1, <1>3 DEF NonceInv, StoredNonces, NonceInHand, Active

\* A handler goes past the check of its challenge only when it drops the entry.
LEMMA PastVerify ==
  ASSUME TypeOK, NonceInv, NEW r \in Request, Resume(r), Active(r)'
  PROVE  /\ req[r].op = "enrollPasskey" /\ req'[r].pc # "verify" =>
              req[r].challenge # challengeStore'["register"]
         /\ req[r].op = "verifyPasskeyAuth" /\ req'[r].pc \notin {"lookup", "verify"} =>
              req[r].challenge # challengeStore'["auth"]
  <1>1. Active(r) /\ NonceInHand(r)
    BY ResumeHands DEF NonceInv
  <1>2. ~Return(r)
    BY ReturnEffect
  <1>3. CASE ClearPending(r)
    BY <1>3 DEF ClearPending, At
  <1>4. CASE AttestationVerified(r) \/ AssertionVerified(r)
    <2>1. \/ /\ req[r].op = "enrollPasskey"
             /\ challengeStore' = [challengeStore EXCEPT !["register"] = None]
          \/ /\ req[r].op = "verifyPasskeyAuth"
             /\ challengeStore' = [challengeStore EXCEPT !["auth"] = None]
      BY <1>4 DEF AttestationVerified, AssertionVerified, DropChallenge, At
    <2>2. QED
      BY <1>1, <2>1 DEF NonceInHand, TypeOK
  <1>5. CASE InsertPasskey(r)
    BY <1>1, <1>2, <1>5 DEF InsertPasskey, At, NonceInHand
  <1>6. CASE LookUpPasskey(r)
    <2>1. Goto(r, "verify") /\ req[r].op = "verifyPasskeyAuth"
      BY <1>2, <1>6 DEF LookUpPasskey, At
    <2>2. req'[r].pc = "verify"
      BY <1>1, <2>1, GotoEffect DEF PC
    <2>3. QED
      BY <2>1, <2>2
  <1>7. QED
    BY <1>2, <1>3, <1>4, <1>5, <1>6
       DEF Resume, CreatePending, CommitEnrollment, Stamp, Splice, ReplaceCodes,
           EnableMfa, AcceptPasskey

\* A verified challenge leaves its entry (mfa.service.ts:480-483, 574-583).
LEMMA NonceInvResume ==
  ASSUME TypeOK, RowsHeld, NonceInv, NEW r \in Request, Resume(r)
  PROVE  NonceInv'
  <1>1. /\ issued' = issued
        /\ \A kind \in {"register", "auth"} :
             challengeStore'[kind] \in {challengeStore[kind], None}
        /\ \A q \in Request \ {r} : req'[q] = req[q]
    BY ResumeHands, ResumeRest
  <1>2. StoredNonces'
    BY <1>1 DEF NonceInv, StoredNonces
  <1>3. ASSUME NEW q \in Request \ {r}, Active(q)' PROVE NonceInHand(q)'
    BY <1>1, <1>3 DEF NonceInv, NonceInHand, Active
  <1>4. ASSUME Active(r)' PROVE NonceInHand(r)'
    <2>1. NonceInHand(r) /\ req'[r].op = req[r].op /\ req'[r].challenge = req[r].challenge
      BY <1>4, ResumeHands DEF NonceInv, KeepsHands
    <2>2. QED
      BY <1>1, <1>4, <2>1, PastVerify DEF NonceInHand
  <1>5. QED
    BY <1>2, <1>3, <1>4 DEF NonceInv

\* New options put in a challenge nobody knows (mfa.service.ts:424-440, 528-545).
LEMMA NonceInvSynchronous ==
  ASSUME TypeOK, NonceInv, Synchronous
  PROVE  NonceInv'
  <1>1. CASE /\ issued' = issued
             /\ \A kind \in {"register", "auth"} :
                  challengeStore'[kind] \in {challengeStore[kind], None}
    <2>1. \A q \in Request : Active(q)' => Active(q) /\ req'[q] = req[q]
      BY SynchronousEffect DEF Active
    <2>2. QED
      BY <1>1, <2>1 DEF NonceInv, StoredNonces, NonceInHand
  <1>2. CASE \E n \in Nonce \ issued, kind \in {"register", "auth"} :
               /\ challengeStore' = [challengeStore EXCEPT ![kind] = n]
               /\ issued' = issued \cup {n} /\ req' = req
    <2>1. PICK n \in Nonce \ issued, kind \in {"register", "auth"} :
               /\ challengeStore' = [challengeStore EXCEPT ![kind] = n]
               /\ issued' = issued \cup {n} /\ req' = req
      BY <1>2
    <2>2. n # None /\ challengeStore'[kind] = n
          /\ \A k \in {"register", "auth"} \ {kind} : challengeStore'[k] = challengeStore[k]
      BY <2>1, MfaAssumption DEF TypeOK
    <2>3. StoredNonces'
      BY <2>1, <2>2 DEF NonceInv, StoredNonces
    <2>4. ASSUME NEW q \in Request, Active(q)' PROVE NonceInHand(q)'
      <3>1. NonceInHand(q) /\ req'[q] = req[q]
        BY <2>1, <2>4 DEF NonceInv, Active
      <3>2. QED
        BY <2>1, <2>2, <3>1 DEF NonceInHand
    <2>5. QED
      BY <2>3, <2>4 DEF NonceInv
  <1>3. QED
    BY <1>1, <1>2, SynchronousEffect

\* A challenge past its check is in no entry.
LEMMA NonceInvHolds == Spec => []NonceInv
  <1>1. MethodInv /\ NonceInv /\ [Next]_vars => NonceInv'
    <2> SUFFICES ASSUME MethodInv, NonceInv, [Next]_vars PROVE NonceInv'
      OBVIOUS
    <2>1. CASE UNCHANGED vars
      BY <2>1 DEF vars, NonceInv, StoredNonces, NonceInHand, Active
    <2>2. CASE Next
      BY <2>2, NonceInvCall, NonceInvResume, NonceInvSynchronous DEF MethodInv, Next
    <2>3. QED
      BY <2>1, <2>2
  <1>2. QED
    BY <1>1, NonceInvInit, MethodInvHolds, PTL DEF Spec

\* Only a passkey handler past its check counts a challenge as answered.
LEMMA NonceUsed ==
  ASSUME TypeOK, NEW r \in Request, Resume(r), NEW n \in Nonce, uses'[n] # uses[n]
  PROVE  /\ Active(r) /\ n = req[r].challenge
         /\ \/ req[r].op = "enrollPasskey" /\ req[r].pc # "verify"
            \/ req[r].op = "verifyPasskeyAuth" /\ req[r].pc \notin {"lookup", "verify"}
  <1>1. n \in Secret /\ n \notin Code /\ n # None
    BY MfaAssumption DEF Secret
  <1>2. CASE Used(req[r].code)
    <2>1. req[r].code \in Code \cup {None}
      BY ResumeHands DEF TypeOK, Active, RequestState
    <2>2. QED
      BY <1>1, <1>2, <2>1, UsedType
  <1>3. CASE Used(req[r].challenge) /\ (InsertPasskey(r) \/ AcceptPasskey(r))
    <2>1. n = req[r].challenge
      BY <1>1, <1>3, UsedType
    <2>2. QED
      BY <1>3, <2>1 DEF InsertPasskey, AcceptPasskey, At
  <1>4. CASE uses' = uses
    BY <1>4
  <1>5. QED
    BY <1>2, <1>3, <1>4
       DEF Resume, ClearPending, CreatePending, CommitEnrollment, Stamp, Splice, ReplaceCodes,
           AttestationVerified, InsertPasskey, EnableMfa, LookUpPasskey,
           AssertionVerified, AcceptPasskey, DropChallenge

\* A challenge is out of the store before an answer to it counts, and one that
\* is out of the store and of every handler's hands is never accepted again
\* (mfa.service.ts:466-483, 553-583).
THEOREM SpentNoncesAreDead == Spec => SpentNoncesStayDead
  <1> DEFINE OutOfStore(n) == \A kind \in DOMAIN challengeStore : challengeStore[kind] # n
             Dead == \A n \in Nonce : /\ uses'[n] # uses[n] => OutOfStore(n)
                                      /\ SpentNonce(n) => SpentNonce(n)' /\ uses'[n] = uses[n]
  <1>1. ASSUME MethodInv, NonceInv, Next, NEW n \in Nonce
        PROVE  /\ uses'[n] # uses[n] => OutOfStore(n)
               /\ SpentNonce(n) => SpentNonce(n)' /\ uses'[n] = uses[n]
    <2>1. /\ TypeOK /\ RowsHeld /\ n # None
          /\ DOMAIN challengeStore = {"register", "auth"}
      BY <1>1, MfaAssumption DEF MethodInv, TypeOK
    <2>2. DOMAIN challengeStore' = {"register", "auth"}
      BY <1>1, MethodInvInductive DEF MethodInv, TypeOK
    <2>3. CASE Synchronous
      <3>1. uses' = uses /\ \A q \in Request : Active(q)' => Active(q) /\ req'[q] = req[q]
        BY <2>1, <2>3, SynchronousEffect DEF Active
      <3>2. /\ issued \subseteq issued'
            /\ n \in issued => \A kind \in {"register", "auth"} :
                                 challengeStore[kind] # n => challengeStore'[kind] # n
        BY <2>1, <2>3, SynchronousEffect DEF TypeOK
      <3>3. QED
        BY <2>1, <2>2, <3>1, <3>2 DEF SpentNonce
    <2>4. ASSUME NEW r \in Request, Call(r)
          PROVE  uses'[n] = uses[n] /\ (SpentNonce(n) => SpentNonce(n)')
      <3>1. /\ challengeStore' = challengeStore /\ issued \subseteq issued' /\ uses' = uses
            /\ \A q \in Request \ {r} : req'[q] = req[q]
        BY <2>1, <2>4, CallEffect
      <3>2. req'[r].challenge \in {None, challengeStore["register"], challengeStore["auth"]}
        BY <2>1, <2>4, CallEffect
      <3>3. QED
        BY <2>1, <3>1, <3>2 DEF SpentNonce, Active
    <2>5. ASSUME NEW r \in Request, Resume(r)
          PROVE  /\ uses'[n] # uses[n] => OutOfStore(n)
                 /\ SpentNonce(n) => SpentNonce(n)' /\ uses'[n] = uses[n]
      <3>1. ASSUME uses'[n] # uses[n] PROVE OutOfStore(n) /\ ~SpentNonce(n)
        <4>1. /\ Active(r) /\ n = req[r].challenge
              /\ \/ req[r].op = "enrollPasskey" /\ req[r].pc # "verify"
                 \/ req[r].op = "verifyPasskeyAuth" /\ req[r].pc \notin {"lookup", "verify"}
          BY <2>1, <2>5, <3>1, NonceUsed
        <4>2. QED
          BY <1>1, <2>1, <4>1 DEF NonceInv, NonceInHand, SpentNonce
      <3>2. ASSUME SpentNonce(n) PROVE SpentNonce(n)'
        <4>1. /\ issued' = issued
              /\ \A q \in Request : Active(q)' =>
                   Active(q) /\ req'[q].challenge = req[q].challenge
          BY <2>1, <2>5, ResumeHands DEF KeepsHands, Active
        <4>2. \A kind \in {"register", "auth"} :
                challengeStore'[kind] \in {challengeStore[kind], None}
          BY <2>1, <2>5, ResumeRest
        <4>3. QED
          BY <2>1, <2>2, <3>2, <4>1, <4>2 DEF SpentNonce
      <3>3. QED
        BY <3>1, <3>2
    <2>6. QED
      BY <1>1, <2>1, <2>3, <2>4, <2>5, SynchronousEffect DEF Next
  <1>2. MethodInv /\ NonceInv /\ [Next]_vars => [Dead]_vars
    BY <1>1
  <1>3. Spec => [][Dead]_vars
    BY <1>2, MethodInvHolds, NonceInvHolds, PTL DEF Spec
  <1>4. QED
    BY <1>3 DEF SpentNoncesStayDead
=============================================================================

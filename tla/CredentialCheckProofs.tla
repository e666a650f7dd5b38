------------------------ MODULE CredentialCheckProofs ------------------------
(***************************************************************************)
(* Proofs about CredentialCheck for every value of the constants: the    *)
(* type invariant; that a check never returns TRUE for a password the     *)
(* full verification refuses against the credential the handler passed   *)
(* (invariant IInv); and, when the callers agree on the mode, that it    *)
(* returns TRUE only under the policy (PInv) and that the caches are      *)
(* transparent, a refinement of the uncached checks (RInv).              *)
(***************************************************************************)
EXTENDS CredentialCheck, TLAPS

\* The values a handler's call can hold.
LEMMA CallInRequests ==
    ASSUME TypeOK, NEW k \in Kinds, NEW u \in Users, NEW p \in Passwords,
           NEW m \in Modes
    PROVE  [kind |-> k, user |-> u, pw |-> p, strict |-> m.strict,
            legacy |-> m.legacy, stored |-> db[u][k]] \in Requests
<1>1. m.strict \in BOOLEAN /\ m.legacy \in BOOLEAN
  BY ModesAssumption
<1>2. db[u] \in UserRecords
  BY DEF TypeOK
<1>3. CASE k = "hash"
  BY <1>1, <1>2, <1>3 DEF Requests, UserRecords
<1>4. CASE k = "digest"
  BY <1>1, <1>2, <1>4 DEF Requests, UserRecords
<1>5. CASE k = "scramble"
  BY <1>1, <1>2, <1>5 DEF Requests, UserRecords
<1>6. QED
  BY <1>3, <1>4, <1>5, KindsAssumption

\* A saved password gives stored credentials of the right shape.
LEMMA UserRecordType ==
    ASSUME NEW u \in Users, NEW p \in Passwords, NEW s \in Salts
    PROVE  UserRecord(u, p, s) \in UserRecords
BY DEF UserRecord, UserRecords, MakeHash, MakeDigest, MakeScramble, Pbkdf2,
       HashRecords, DigestRecords, ScrambleRecords

\* The field of a call that the type invariant constrains.
LEMMA RequestFields ==
    ASSUME NEW r \in Requests
    PROVE  /\ r.user \in Users /\ r.pw \in Passwords
           /\ r.kind \in {"hash", "digest", "scramble"}
           /\ r.kind = "hash" => r.stored \in HashRecords
           /\ r.kind = "digest" => r.stored \in DigestRecords
           /\ r.kind = "scramble" => r.stored \in ScrambleRecords
BY DEF Requests

\* The verification of a call is a truth value.
LEMMA VerifiesBoolean ==
    ASSUME NEW r PROVE Verifies(r) \in BOOLEAN
BY DEF Verifies, HashMatches, DigestMatches, ScrambleMatches

-----------------------------------------------------------------------------
\* Init establishes the type invariant.
LEMMA TypeInit == Init => TypeOK
<1> SUFFICES ASSUME Init PROVE TypeOK
  OBVIOUS
<1>1. db \in [Users -> UserRecords]
  BY UserRecordType DEF Init
<1>2. (CHOOSE r \in Requests : TRUE) \in Requests
  <2>1. Requests /= {}
    <3>1. PICK u \in Users : TRUE
      BY UsersAssumption
    <3>2. PICK p \in Passwords : TRUE
      BY PasswordsAssumption
    <3>3. PICK s \in Salts : TRUE
      BY SaltsAssumption
    <3>4. [kind |-> "scramble", user |-> u, pw |-> p, strict |-> TRUE,
           legacy |-> TRUE, stored |-> MakeScramble(p)] \in Requests
      BY DEF Requests, ScrambleRecords, MakeScramble
    <3>5. QED
      BY <3>4
  <2>2. QED
    BY <2>1
<1>3. QED
  BY <1>1, <1>2 DEF Init, TypeOK

\* Every step of the handlers and of password changes preserves it.
LEMMA TypeNext == TypeOK /\ [Next]_vars => TypeOK'
<1> SUFFICES ASSUME TypeOK, [Next]_vars PROVE TypeOK'
  OBVIOUS
<1>1. ASSUME NEW u \in Users, NEW p \in Passwords, NEW s \in Salts,
             ChangePassword(u, p, s)
      PROVE  TypeOK'
  BY <1>1, UserRecordType DEF ChangePassword, TypeOK
<1>2. ASSUME NEW w \in Workers, Call(w) PROVE TypeOK'
  BY <1>2, CallInRequests DEF Call, TypeOK
<1>3. ASSUME NEW w \in Workers, CheckHash(w) PROVE TypeOK'
  BY <1>3, VerifiesBoolean DEF CheckHash, PolicyThenVerify, Return, TypeOK
<1>4. ASSUME NEW w \in Workers, RecordHash(w) PROVE TypeOK'
  <2>1. req[w].kind = "hash" /\ req[w] \in Requests
    BY <1>4 DEF RecordHash, TypeOK
  <2>2. req[w].pw \in Passwords /\ req[w].stored \in HashRecords
    BY <2>1, RequestFields
  <2>3. QED
    BY <1>4, <2>2 DEF RecordHash, Record, Return, TypeOK
<1>5. ASSUME NEW w \in Workers, CheckDigest(w) PROVE TypeOK'
  BY <1>5, VerifiesBoolean DEF CheckDigest, PolicyThenVerify, Return, TypeOK
<1>6. ASSUME NEW w \in Workers, RecordDigest(w) PROVE TypeOK'
  <2>1. req[w].kind = "digest" /\ req[w] \in Requests
    BY <1>6 DEF RecordDigest, TypeOK
  <2>2. /\ <<req[w].user, req[w].pw>> \in Users \X Passwords
        /\ req[w].stored \in DigestRecords
    BY <2>1, RequestFields
  <2>3. QED
    BY <1>6, <2>2 DEF RecordDigest, Return, TypeOK
<1>7. ASSUME NEW w \in Workers, CheckScramble(w) PROVE TypeOK'
  BY <1>7, VerifiesBoolean DEF CheckScramble, PolicyThenVerify, Return, TypeOK
<1>8. ASSUME NEW w \in Workers, RecordScramble(w) PROVE TypeOK'
  <2>1. req[w].kind = "scramble" /\ req[w] \in Requests
    BY <1>8 DEF RecordScramble, TypeOK
  <2>2. req[w].pw \in Passwords /\ req[w].stored \in ScrambleRecords
    BY <2>1, RequestFields
  <2>3. QED
    BY <1>8, <2>2 DEF RecordScramble, Record, Return, TypeOK
<1>9. CASE UNCHANGED vars
  BY <1>9 DEF vars, TypeOK
<1>10. QED
  BY <1>1, <1>2, <1>3, <1>4, <1>5, <1>6, <1>7, <1>8, <1>9 DEF Next

(***************************************************************************)
(* Every reachable state is well typed: the stored credentials, the cache *)
(* entries check_hash, check_digest and check_scramble write, and the     *)
(* calls of the handlers keep their shapes.                               *)
(***************************************************************************)
THEOREM TypeCorrect == Spec => []TypeOK
BY TypeInit, TypeNext, PTL DEF Spec

-----------------------------------------------------------------------------
\* A cache hit of a well-typed call is a verified match: the stored
\* credential a handler passes is never None, so it equals a cache entry only
\* where the cache holds one, and every entry verifies against its key.
LEMMA HitVerifies ==
    ASSUME TypeOK, CacheSound, NEW w \in Workers
    PROVE  /\ req[w].kind = "hash" /\ hashCache[req[w].pw] = req[w].stored
              => Verifies(req[w])
           /\ req[w].kind = "digest"
              /\ digestCache[<<req[w].user, req[w].pw>>] = req[w].stored
              => Verifies(req[w])
           /\ req[w].kind = "scramble"
              /\ scrambleCache[req[w].pw] = req[w].stored
              => Verifies(req[w])
<1>1. req[w] \in Requests
  BY DEF TypeOK
<1>2. req[w].kind = "hash" /\ hashCache[req[w].pw] = req[w].stored
      => Verifies(req[w])
  BY <1>1, RequestFields, NoEntryAssumption DEF CacheSound, Verifies
<1>3. req[w].kind = "digest"
      /\ digestCache[<<req[w].user, req[w].pw>>] = req[w].stored
      => Verifies(req[w])
  BY <1>1, RequestFields, NoEntryAssumption DEF CacheSound, Verifies
<1>4. req[w].kind = "scramble" /\ scrambleCache[req[w].pw] = req[w].stored
      => Verifies(req[w])
  BY <1>1, RequestFields, NoEntryAssumption DEF CacheSound, Verifies
<1>5. QED
  BY <1>2, <1>3, <1>4

\* Init establishes the strengthened invariant.
LEMMA IInvInit == Init => IInv
<1> SUFFICES ASSUME Init PROVE IInv
  OBVIOUS
<1>1. TypeOK
  BY TypeInit
<1>2. CacheSound
  BY DEF Init, CacheSound
<1>3. RecordSound /\ AcceptSound
  BY DEF Init, RecordSound, AcceptSound
<1>4. QED
  BY <1>1, <1>2, <1>3 DEF IInv

\* The cache-reading step of a check preserves the invariant: a hit returns
\* TRUE only for a verified match, a miss either returns FALSE or carries
\* the verification result to the cache write.
LEMMA CheckStep ==
    ASSUME IInv, NEW w \in Workers,
           CheckHash(w) \/ CheckDigest(w) \/ CheckScramble(w)
    PROVE  (CacheSound /\ RecordSound /\ AcceptSound)'
<1> DEFINE Hit == \/ req[w].kind = "hash"
                     /\ hashCache[req[w].pw] = req[w].stored
                  \/ req[w].kind = "digest"
                     /\ digestCache[<<req[w].user, req[w].pw>>] = req[w].stored
                  \/ req[w].kind = "scramble"
                     /\ scrambleCache[req[w].pw] = req[w].stored
<1>1. /\ UNCHANGED <<hashCache, digestCache, scrambleCache, req>>
      /\ pc[w] = "check"
      /\ \/ Hit /\ Return(w, TRUE) /\ UNCHANGED match
         \/ PolicyThenVerify(w)
  BY DEF CheckHash, CheckDigest, CheckScramble
<1>2. TypeOK /\ TypeOK'
  BY TypeNext DEF IInv, Next
<1>3. CacheSound'
  BY <1>1 DEF IInv, CacheSound
<1>4. CASE Hit /\ Return(w, TRUE) /\ UNCHANGED match
  <2>1. Verifies(req[w])
    BY <1>4, HitVerifies DEF IInv
  <2>2. QED
    BY <1>1, <1>2, <1>3, <1>4, <2>1 DEF IInv, Return, RecordSound,
       AcceptSound, TypeOK
<1>5. CASE PolicyThenVerify(w)
  BY <1>1, <1>2, <1>3, <1>5 DEF IInv, PolicyThenVerify, Return, RecordSound,
     AcceptSound, TypeOK
<1>6. QED
  BY <1>1, <1>4, <1>5

\* The cache write of a check preserves the invariant: it stores only a
\* verified match, under the key of that match, and returns the match.
LEMMA RecordStep ==
    ASSUME IInv, NEW w \in Workers,
           RecordHash(w) \/ RecordDigest(w) \/ RecordScramble(w)
    PROVE  (CacheSound /\ RecordSound /\ AcceptSound)'
<1>1. TypeOK /\ TypeOK'
  BY TypeNext DEF IInv, Next
<1>2. pc[w] = "record" /\ req[w] \in Requests
  BY DEF RecordHash, RecordDigest, RecordScramble, IInv, TypeOK
<1>3. match[w] => Verifies(req[w])
  BY <1>2 DEF IInv, RecordSound
<1>4. (RecordSound /\ AcceptSound)'
  BY <1>1, <1>2, <1>3 DEF RecordHash, RecordDigest, RecordScramble, Record,
     Return, IInv, RecordSound, AcceptSound, TypeOK
<1>5. CASE RecordHash(w)
  <2>1. req[w].kind = "hash" /\ req[w].pw \in Passwords
    BY <1>2, <1>5, RequestFields DEF RecordHash
  <2>2. match[w] => HashMatches(req[w].pw, req[w].stored)
    BY <1>3, <2>1 DEF Verifies
  <2>3. CacheSound'
    BY <1>1, <2>1, <2>2, <1>5 DEF RecordHash, Record, IInv, CacheSound, TypeOK
  <2>4. QED
    BY <1>4, <2>3
<1>6. CASE RecordDigest(w)
  <2>1. /\ req[w].kind = "digest"
        /\ <<req[w].user, req[w].pw>> \in Users \X Passwords
    BY <1>2, <1>6, RequestFields DEF RecordDigest
  <2>2. match[w] => DigestMatches(req[w].user, req[w].pw, req[w].stored)
    BY <1>3, <2>1 DEF Verifies
  <2>3. CacheSound'
    BY <1>1, <2>1, <2>2, <1>6 DEF RecordDigest, IInv, CacheSound, TypeOK
  <2>4. QED
    BY <1>4, <2>3
<1>7. CASE RecordScramble(w)
  <2>1. req[w].kind = "scramble" /\ req[w].pw \in Passwords
    BY <1>2, <1>7, RequestFields DEF RecordScramble
  <2>2. match[w] => ScrambleMatches(req[w].pw, req[w].stored)
    BY <1>3, <2>1 DEF Verifies
  <2>3. CacheSound'
    BY <1>1, <2>1, <2>2, <1>7 DEF RecordScramble, Record, IInv, CacheSound,
       TypeOK
  <2>4. QED
    BY <1>4, <2>3
<1>8. QED
  BY <1>5, <1>6, <1>7

\* Every step preserves the strengthened invariant.
LEMMA IInvNext == IInv /\ [Next]_vars => IInv'
<1> SUFFICES ASSUME IInv, [Next]_vars PROVE IInv'
  OBVIOUS
<1>1. TypeOK'
  BY TypeNext DEF IInv
<1>2. ASSUME NEW u \in Users, NEW p \in Passwords, NEW s \in Salts,
             ChangePassword(u, p, s)
      PROVE  (CacheSound /\ RecordSound /\ AcceptSound)'
  BY <1>2 DEF ChangePassword, IInv, CacheSound, RecordSound, AcceptSound
<1>3. ASSUME NEW w \in Workers, Call(w)
      PROVE  (CacheSound /\ RecordSound /\ AcceptSound)'
  BY <1>3 DEF Call, IInv, TypeOK, CacheSound, RecordSound, AcceptSound
<1>4. ASSUME NEW w \in Workers,
             CheckHash(w) \/ CheckDigest(w) \/ CheckScramble(w)
      PROVE  (CacheSound /\ RecordSound /\ AcceptSound)'
  BY <1>4, CheckStep
<1>5. ASSUME NEW w \in Workers,
             RecordHash(w) \/ RecordDigest(w) \/ RecordScramble(w)
      PROVE  (CacheSound /\ RecordSound /\ AcceptSound)'
  BY <1>5, RecordStep
<1>6. ASSUME UNCHANGED vars
      PROVE  (CacheSound /\ RecordSound /\ AcceptSound)'
  <2>1. /\ hashCache' = hashCache /\ digestCache' = digestCache
        /\ scrambleCache' = scrambleCache /\ pc' = pc /\ req' = req
        /\ match' = match /\ result' = result
    BY <1>6 DEF vars
  <2>2. QED
    BY <1>6, <2>1 DEF IInv, CacheSound, RecordSound, AcceptSound
<1>7. ASSUME \E u \in Users, p \in Passwords, s \in Salts : ChangePassword(u, p, s)
      PROVE  (CacheSound /\ RecordSound /\ AcceptSound)'
  BY <1>2, <1>7
<1>8. ASSUME \E w \in Workers :
               \/ Call(w)
               \/ CheckHash(w)    \/ RecordHash(w)
               \/ CheckDigest(w)  \/ RecordDigest(w)
               \/ CheckScramble(w) \/ RecordScramble(w)
      PROVE  (CacheSound /\ RecordSound /\ AcceptSound)'
  BY <1>3, <1>4, <1>5, <1>8
<1>9. (CacheSound /\ RecordSound /\ AcceptSound)'
  BY <1>6, <1>7, <1>8 DEF Next
<1>10. QED
  BY <1>1, <1>9 DEF IInv

(***************************************************************************)
(* check_hash, check_digest and check_scramble return TRUE only for a     *)
(* password that the full verification accepts against the credential    *)
(* the handler passed, whatever the handlers, the shared caches and the   *)
(* password changes did before: the cache never answers for a password   *)
(* or a user its entry was not verified for.                              *)
(***************************************************************************)
THEOREM AcceptSoundness == Spec => []AcceptSound
<1>1. IInv => AcceptSound
  BY DEF IInv
<1>2. QED
  BY IInvInit, IInvNext, <1>1, PTL DEF Spec

-----------------------------------------------------------------------------
(***************************************************************************)
(* The policy on accepted passwords.  It holds when the callers agree on *)
(* the mode: every call is strict and all pass the same allow_legacy     *)
(* (cache_policy_bypass shows it failing when they do not).              *)
(***************************************************************************)
UniformModes ==
    /\ \A m \in Modes : m.strict
    /\ \A m1, m2 \in Modes : m1.legacy = m2.legacy

\* A password the policy accepts under the callers' allow_legacy.
PolicyOK(p) == \A m \in Modes : AssurePasswordStrength(Conf, p, m.legacy) = "ok"

\* Every cache entry is for a password the policy accepts.
CachePolicy ==
    /\ \A p \in Passwords : hashCache[p] /= NoEntry => PolicyOK(p)
    /\ \A k \in Users \X Passwords : digestCache[k] /= NoEntry => PolicyOK(k[2])
    /\ \A p \in Passwords : scrambleCache[p] /= NoEntry => PolicyOK(p)

\* A handler past the policy gate, or done with TRUE, holds such a password.
PassedPolicy ==
    \A w \in Workers :
        pc[w] = "record" \/ (pc[w] = "done" /\ result[w]) => PolicyOK(req[w].pw)

\* A call in progress or done was made with one of the callers' modes.
CallModes ==
    \A w \in Workers :
        pc[w] /= "idle" => [strict |-> req[w].strict, legacy |-> req[w].legacy] \in Modes

PInv == TypeOK /\ CachePolicy /\ PassedPolicy /\ CallModes

-----------------------------------------------------------------------------
\* With the callers agreeing on the mode, a password that passes the gate
\* of one call passes it for every caller.
LEMMA GatePassed ==
    ASSUME UniformModes, NEW w \in Workers, CallModes, pc[w] /= "idle",
           ~PolicyRejects(req[w])
    PROVE  PolicyOK(req[w].pw)
<1>1. [strict |-> req[w].strict, legacy |-> req[w].legacy] \in Modes
  BY DEF CallModes
<1>2. req[w].strict
  BY <1>1 DEF UniformModes
<1>3. AssurePasswordStrength(Conf, req[w].pw, req[w].legacy) = "ok"
  BY <1>2 DEF PolicyRejects
<1>4. QED
  BY <1>1, <1>3 DEF UniformModes, PolicyOK

LEMMA PInvInit == Init => PInv
<1> SUFFICES ASSUME Init PROVE PInv
  OBVIOUS
<1>1. TypeOK
  BY TypeInit
<1>2. QED
  BY <1>1 DEF Init, PInv, CachePolicy, PassedPolicy, CallModes

\* The cache-reading step: a hit is for a password a cache entry holds, a
\* miss passes the gate or returns FALSE.
LEMMA PolicyCheckStep ==
    ASSUME UniformModes, PInv, NEW w \in Workers,
           CheckHash(w) \/ CheckDigest(w) \/ CheckScramble(w)
    PROVE  (CachePolicy /\ PassedPolicy /\ CallModes)'
<1> DEFINE Hit == \/ req[w].kind = "hash"
                     /\ hashCache[req[w].pw] = req[w].stored
                  \/ req[w].kind = "digest"
                     /\ digestCache[<<req[w].user, req[w].pw>>] = req[w].stored
                  \/ req[w].kind = "scramble"
                     /\ scrambleCache[req[w].pw] = req[w].stored
<1>1. /\ UNCHANGED <<hashCache, digestCache, scrambleCache, req>>
      /\ pc[w] = "check"
      /\ \/ Hit /\ Return(w, TRUE) /\ UNCHANGED match
         \/ PolicyThenVerify(w)
  BY DEF CheckHash, CheckDigest, CheckScramble
<1>2. req[w] \in Requests /\ pc' = [pc EXCEPT ![w] = pc'[w]]
      /\ result' = [result EXCEPT ![w] = result'[w]]
  BY <1>1 DEF PInv, TypeOK, PolicyThenVerify, Return
<1>3. CachePolicy' /\ CallModes'
  BY <1>1, <1>2 DEF PInv, CachePolicy, CallModes, PolicyThenVerify, Return, TypeOK
<1>4. CASE Hit /\ Return(w, TRUE) /\ UNCHANGED match
  <2>1. PolicyOK(req[w].pw)
    BY <1>2, <1>4, RequestFields, NoEntryAssumption DEF PInv, CachePolicy
  <2>2. QED
    BY <1>1, <1>3, <1>4, <2>1 DEF PInv, Return, PassedPolicy, TypeOK
<1>5. CASE PolicyThenVerify(w)
  <2>1. CASE PolicyRejects(req[w])
    BY <1>1, <1>3, <1>5, <2>1 DEF PInv, PolicyThenVerify, Return, PassedPolicy, TypeOK
  <2>2. CASE ~PolicyRejects(req[w])
    <3>1. PolicyOK(req[w].pw)
      BY <1>1, <2>2, GatePassed DEF PInv
    <3>2. QED
      BY <1>1, <1>3, <1>5, <2>2, <3>1 DEF PInv, PolicyThenVerify, PassedPolicy, TypeOK
  <2>3. QED
    BY <2>1, <2>2
<1>6. QED
  BY <1>1, <1>4, <1>5

\* The cache write: it stores an entry only under the password that passed
\* the gate, and returns for it.
LEMMA PolicyRecordStep ==
    ASSUME PInv, NEW w \in Workers,
           RecordHash(w) \/ RecordDigest(w) \/ RecordScramble(w)
    PROVE  (CachePolicy /\ PassedPolicy /\ CallModes)'
<1>1. pc[w] = "record" /\ req[w] \in Requests /\ UNCHANGED req
  BY DEF RecordHash, RecordDigest, RecordScramble, PInv, TypeOK
<1>2. PolicyOK(req[w].pw)
  BY <1>1 DEF PInv, PassedPolicy
<1>3. (PassedPolicy /\ CallModes)'
  BY <1>1, <1>2 DEF RecordHash, RecordDigest, RecordScramble, Record, Return,
     PInv, PassedPolicy, CallModes, TypeOK
<1>4. ASSUME RecordHash(w) PROVE CachePolicy'
  <2>1. req[w].pw \in Passwords
    BY <1>1, RequestFields
  <2>2. /\ hashCache' = IF match[w] THEN [hashCache EXCEPT ![req[w].pw] = req[w].stored]
                       ELSE hashCache
        /\ UNCHANGED <<digestCache, scrambleCache>>
    BY <1>4 DEF RecordHash, Record
  <2>3. \A p \in Passwords : hashCache'[p] /= NoEntry => PolicyOK(p)
    BY <1>2, <2>1, <2>2 DEF PInv, CachePolicy, TypeOK
  <2>4. QED
    BY <2>2, <2>3 DEF PInv, CachePolicy
<1>5. ASSUME RecordDigest(w) PROVE CachePolicy'
  <2>1. <<req[w].user, req[w].pw>> \in Users \X Passwords
    BY <1>1, RequestFields
  <2>2. /\ digestCache' =
             IF match[w]
             THEN [digestCache EXCEPT ![<<req[w].user, req[w].pw>>] = req[w].stored]
             ELSE digestCache
        /\ UNCHANGED <<hashCache, scrambleCache>>
    BY <1>5 DEF RecordDigest
  <2>3. \A k \in Users \X Passwords : digestCache'[k] /= NoEntry => PolicyOK(k[2])
    BY <1>2, <2>1, <2>2 DEF PInv, CachePolicy, TypeOK
  <2>4. QED
    BY <2>2, <2>3 DEF PInv, CachePolicy
<1>6. ASSUME RecordScramble(w) PROVE CachePolicy'
  <2>1. req[w].pw \in Passwords
    BY <1>1, RequestFields
  <2>2. /\ scrambleCache' =
             IF match[w] THEN [scrambleCache EXCEPT ![req[w].pw] = req[w].stored]
             ELSE scrambleCache
        /\ UNCHANGED <<hashCache, digestCache>>
    BY <1>6 DEF RecordScramble, Record
  <2>3. \A p \in Passwords : scrambleCache'[p] /= NoEntry => PolicyOK(p)
    BY <1>2, <2>1, <2>2 DEF PInv, CachePolicy, TypeOK
  <2>4. QED
    BY <2>2, <2>3 DEF PInv, CachePolicy
<1>7. QED
  BY <1>3, <1>4, <1>5, <1>6

LEMMA PInvNext == UniformModes => (PInv /\ [Next]_vars => PInv')
<1> SUFFICES ASSUME UniformModes, PInv, [Next]_vars PROVE PInv'
  OBVIOUS
<1>1. TypeOK'
  BY TypeNext DEF PInv
<1>2. ASSUME NEW u \in Users, NEW p \in Passwords, NEW s \in Salts,
             ChangePassword(u, p, s)
      PROVE  (CachePolicy /\ PassedPolicy /\ CallModes)'
  BY <1>2 DEF ChangePassword, PInv, CachePolicy, PassedPolicy, CallModes
<1>3. ASSUME NEW w \in Workers, Call(w)
      PROVE  (CachePolicy /\ PassedPolicy /\ CallModes)'
  <2>1. PICK k \in Kinds, u \in Users, p \in Passwords, m \in Modes :
          req' = [req EXCEPT ![w] =
                    [kind |-> k, user |-> u, pw |-> p, strict |-> m.strict,
                     legacy |-> m.legacy, stored |-> db[u][k]]]
    BY <1>3 DEF Call
  <2>2. m = [strict |-> m.strict, legacy |-> m.legacy]
    BY ModesAssumption
  <2>3. QED
    BY <1>3, <2>1, <2>2 DEF Call, PInv, TypeOK, CachePolicy, PassedPolicy, CallModes
<1>4. ASSUME NEW w \in Workers,
             CheckHash(w) \/ CheckDigest(w) \/ CheckScramble(w)
      PROVE  (CachePolicy /\ PassedPolicy /\ CallModes)'
  BY <1>4, PolicyCheckStep
<1>5. ASSUME NEW w \in Workers,
             RecordHash(w) \/ RecordDigest(w) \/ RecordScramble(w)
      PROVE  (CachePolicy /\ PassedPolicy /\ CallModes)'
  BY <1>5, PolicyRecordStep
<1>6. ASSUME UNCHANGED vars
      PROVE  (CachePolicy /\ PassedPolicy /\ CallModes)'
  <2>1. /\ hashCache' = hashCache /\ digestCache' = digestCache
        /\ scrambleCache' = scrambleCache /\ pc' = pc /\ req' = req
        /\ match' = match /\ result' = result
    BY <1>6 DEF vars
  <2>2. QED
    BY <2>1 DEF PInv, CachePolicy, PassedPolicy, CallModes
<1>7. (CachePolicy /\ PassedPolicy /\ CallModes)'
  BY <1>2, <1>3, <1>4, <1>5, <1>6 DEF Next
<1>8. QED
  BY <1>1, <1>7 DEF PInv

(***************************************************************************)
(* When every caller checks strictly with the same allow_legacy, a check *)
(* returns TRUE only for a password the site policy accepts, cache hits  *)
(* included: the comment "already verified" before the policy check of   *)
(* check_hash, check_digest and check_scramble holds, for any handlers,  *)
(* users, passwords, salts and configuration.                            *)
(***************************************************************************)
THEOREM PolicyOnAcceptUniform ==
    ASSUME UniformModes
    PROVE  Spec => []PolicyOnAccept
<1>1. PInv => PolicyOnAccept
  BY DEF PInv, PassedPolicy, CallModes, PolicyOK, PolicyOnAccept
<1>2. PInv /\ [Next]_vars => PInv'
  BY PInvNext
<1>3. QED
  BY <1>1, <1>2, PInvInit, PTL DEF Spec

-----------------------------------------------------------------------------
(***************************************************************************)
(* The caches are transparent (CacheTransparent): the checks refine the   *)
(* uncached ones of CredentialCheckAbstract under the mapping Uncached.   *)
(***************************************************************************)
\* A handler about to write the cache holds the uncached verdict.
RecordMatch ==
    \A w \in Workers : pc[w] = "record" => match[w] = UncachedAccepts(req[w])

RInv == IInv /\ PInv /\ RecordMatch

\* The abstract state of the handlers.
StateBar == [w \in Workers |-> CallState(w)]

\* Each step of a handler changes only its own pc, match and request.
LEMMA RecordMatchStep ==
    ASSUME TypeOK, RecordMatch, [Next]_vars
    PROVE  RecordMatch'
<1>1. CASE \E u \in Users, p \in Passwords, s \in Salts : ChangePassword(u, p, s)
  BY <1>1 DEF ChangePassword, RecordMatch
<1>2. ASSUME NEW w \in Workers, Call(w) PROVE RecordMatch'
  <2>1. pc' = [pc EXCEPT ![w] = "check"] /\ UNCHANGED match
    BY <1>2 DEF Call
  <2>2. \A v \in Workers \ {w} : req'[v] = req[v]
    BY <1>2 DEF Call
  <2>3. QED
    BY <2>1, <2>2 DEF RecordMatch, TypeOK
<1>3. ASSUME NEW w \in Workers, CheckHash(w) \/ CheckDigest(w) \/ CheckScramble(w)
      PROVE  RecordMatch'
  <2>1. UNCHANGED req /\ pc[w] = "check"
    BY <1>3 DEF CheckHash, CheckDigest, CheckScramble
  <2>2. \/ Return(w, TRUE) /\ UNCHANGED match
        \/ PolicyThenVerify(w)
    BY <1>3 DEF CheckHash, CheckDigest, CheckScramble
  <2>3. CASE Return(w, TRUE) /\ UNCHANGED match
    BY <2>1, <2>3 DEF Return, RecordMatch, TypeOK
  <2>4. CASE PolicyRejects(req[w]) /\ Return(w, FALSE) /\ UNCHANGED match
    BY <2>1, <2>4 DEF Return, RecordMatch, TypeOK
  <2>5. CASE /\ ~PolicyRejects(req[w])
             /\ match' = [match EXCEPT ![w] = Verifies(req[w])]
             /\ pc' = [pc EXCEPT ![w] = "record"]
    <3>1. Verifies(req[w]) = UncachedAccepts(req[w])
      BY <2>5, VerifiesBoolean DEF UncachedAccepts
    <3>2. QED
      BY <2>1, <2>5, <3>1 DEF RecordMatch, TypeOK
  <2>6. QED
    BY <2>2, <2>3, <2>4, <2>5 DEF PolicyThenVerify
<1>4. ASSUME NEW w \in Workers, RecordHash(w) \/ RecordDigest(w) \/ RecordScramble(w)
      PROVE  RecordMatch'
  <2>1. UNCHANGED <<req, match>> /\ pc' = [pc EXCEPT ![w] = "done"]
    BY <1>4 DEF RecordHash, RecordDigest, RecordScramble, Record, Return
  <2>2. QED
    BY <2>1 DEF RecordMatch, TypeOK
<1>5. CASE UNCHANGED vars
  BY <1>5 DEF vars, RecordMatch
<1>6. QED
  BY <1>1, <1>2, <1>3, <1>4, <1>5 DEF Next

LEMMA RInvInit == Init => RInv
<1> SUFFICES ASSUME Init PROVE RInv
  OBVIOUS
<1>1. RecordMatch
  BY DEF Init, RecordMatch
<1>2. QED
  BY <1>1, IInvInit, PInvInit DEF RInv

LEMMA RInvNext == UniformModes => (RInv /\ [Next]_vars => RInv')
<1> SUFFICES ASSUME UniformModes, RInv, [Next]_vars PROVE RInv'
  OBVIOUS
<1>1. IInv' /\ PInv'
  BY IInvNext, PInvNext DEF RInv
<1>2. RecordMatch'
  BY RecordMatchStep DEF RInv, IInv
<1>3. QED
  BY <1>1, <1>2 DEF RInv

\* The handlers start idle, with calls the abstract handlers can hold.
LEMMA RefineInit == Init => Uncached!Init
<1> SUFFICES ASSUME Init PROVE Uncached!Init
  OBVIOUS
<1>1. req \in [Workers -> Requests]
  BY TypeInit DEF TypeOK
<1>2. [w \in Workers |-> CallState(w)] = [w \in Workers |-> "idle"]
  BY DEF Init, CallState
<1>3. QED
  BY <1>1, <1>2 DEF Init, Uncached!Init

\* A step of one handler moves only its own abstract state.
LEMMA StateBarExcept ==
    ASSUME TypeOK, NEW w \in Workers, NEW x, pc' = [pc EXCEPT ![w] = x]
    PROVE  StateBar' = [StateBar EXCEPT ![w] = IF x \in {"check", "record"}
                                               THEN "busy" ELSE x]
BY DEF StateBar, CallState, TypeOK

\* A hit answers TRUE, the uncached verdict: the entry verifies, and its
\* password passed the gate of a call in the callers' one mode.
LEMMA HitAccepts ==
    ASSUME UniformModes, RInv, NEW w \in Workers, pc[w] = "check",
           \/ req[w].kind = "hash" /\ hashCache[req[w].pw] = req[w].stored
           \/ req[w].kind = "digest"
              /\ digestCache[<<req[w].user, req[w].pw>>] = req[w].stored
           \/ req[w].kind = "scramble" /\ scrambleCache[req[w].pw] = req[w].stored
    PROVE  UncachedAccepts(req[w])
<1>1. Verifies(req[w])
  BY HitVerifies DEF RInv, IInv
<1>2. req[w] \in Requests
  BY DEF RInv, PInv, TypeOK
<1>3. PolicyOK(req[w].pw)
  BY <1>2, RequestFields, NoEntryAssumption DEF RInv, PInv, CachePolicy
<1>4. [strict |-> req[w].strict, legacy |-> req[w].legacy] \in Modes
  BY DEF RInv, PInv, CallModes
<1>5. AssurePasswordStrength(Conf, req[w].pw, req[w].legacy) = "ok"
  BY <1>3, <1>4 DEF PolicyOK
<1>6. QED
  BY <1>1, <1>5 DEF UncachedAccepts, PolicyRejects

\* A call maps to an abstract call.
LEMMA CallRefines ==
    ASSUME TypeOK, NEW w \in Workers, Call(w)
    PROVE  Uncached!Issue(w)
<1>1. PICK k \in Kinds, u \in Users, p \in Passwords, m \in Modes :
        req' = [req EXCEPT ![w] =
                  [kind |-> k, user |-> u, pw |-> p, strict |-> m.strict,
                   legacy |-> m.legacy, stored |-> db[u][k]]]
  BY DEF Call
<1>2. \E c \in Requests : req' = [req EXCEPT ![w] = c]
  BY <1>1, CallInRequests
<1>3. StateBar[w] \in {"idle", "done"}
  BY DEF Call, StateBar, CallState
<1>4. StateBar' = [StateBar EXCEPT ![w] = "busy"]
  BY StateBarExcept DEF Call
<1>5. QED
  BY <1>2, <1>3, <1>4 DEF Call, Uncached!Issue, StateBar

\* The cache-reading step: a hit and a rejection answer the uncached
\* verdict, a pass of the gate keeps the call running.
LEMMA CheckRefines ==
    ASSUME UniformModes, RInv, NEW w \in Workers,
           CheckHash(w) \/ CheckDigest(w) \/ CheckScramble(w)
    PROVE  [Uncached!Next]_Uncached!vars
<1> DEFINE Hit == \/ req[w].kind = "hash"
                     /\ hashCache[req[w].pw] = req[w].stored
                  \/ req[w].kind = "digest"
                     /\ digestCache[<<req[w].user, req[w].pw>>] = req[w].stored
                  \/ req[w].kind = "scramble"
                     /\ scrambleCache[req[w].pw] = req[w].stored
<1>1. /\ UNCHANGED req
      /\ pc[w] = "check"
      /\ \/ Hit /\ Return(w, TRUE) /\ UNCHANGED match
         \/ PolicyThenVerify(w)
  BY DEF CheckHash, CheckDigest, CheckScramble
<1>2. TypeOK /\ StateBar[w] = "busy"
  BY <1>1 DEF RInv, IInv, StateBar, CallState
<1>3. ASSUME NEW b \in BOOLEAN, b = UncachedAccepts(req[w]), Return(w, b)
      PROVE  Uncached!Answer(w)
  <2>1. StateBar' = [StateBar EXCEPT ![w] = "done"]
    BY <1>2, <1>3, StateBarExcept DEF Return
  <2>2. QED
    BY <1>1, <1>2, <1>3, <2>1 DEF Return, Uncached!Answer, StateBar
<1>4. CASE Hit /\ Return(w, TRUE) /\ UNCHANGED match
  BY <1>1, <1>3, <1>4, HitAccepts DEF Uncached!Next
<1>5. CASE PolicyRejects(req[w]) /\ Return(w, FALSE) /\ UNCHANGED match
  <2>1. FALSE = UncachedAccepts(req[w])
    BY <1>5 DEF UncachedAccepts
  <2>2. QED
    BY <1>3, <1>5, <2>1 DEF Uncached!Next
<1>6. CASE /\ ~PolicyRejects(req[w])
           /\ match' = [match EXCEPT ![w] = Verifies(req[w])]
           /\ pc' = [pc EXCEPT ![w] = "record"]
           /\ UNCHANGED result
  <2>1. StateBar' = [StateBar EXCEPT ![w] = "busy"]
    BY <1>2, <1>6, StateBarExcept
  <2>2. StateBar' = StateBar
    BY <1>2, <2>1 DEF StateBar
  <2>3. QED
    BY <1>1, <1>6, <2>2 DEF Uncached!vars, StateBar
<1>7. QED
  BY <1>1, <1>4, <1>5, <1>6 DEF PolicyThenVerify

\* The cache write answers the verdict the gate and the verification
\* computed, which is the uncached one.
LEMMA RecordRefines ==
    ASSUME RInv, NEW w \in Workers,
           RecordHash(w) \/ RecordDigest(w) \/ RecordScramble(w)
    PROVE  Uncached!Answer(w)
<1>1. /\ pc[w] = "record" /\ UNCHANGED req /\ Return(w, match[w])
  BY DEF RecordHash, RecordDigest, RecordScramble, Record
<1>2. TypeOK /\ match[w] = UncachedAccepts(req[w])
  BY <1>1 DEF RInv, IInv, RecordMatch
<1>3. StateBar[w] = "busy" /\ StateBar' = [StateBar EXCEPT ![w] = "done"]
  BY <1>1, <1>2, StateBarExcept DEF Return, StateBar, CallState
<1>4. QED
  BY <1>1, <1>2, <1>3 DEF Return, Uncached!Answer, StateBar

\* Every step maps to an abstract step or a stutter.
LEMMA RefineNext ==
    UniformModes => (RInv /\ [Next]_vars => [Uncached!Next]_Uncached!vars)
<1> SUFFICES ASSUME UniformModes, RInv, [Next]_vars
             PROVE  [Uncached!Next]_Uncached!vars
  OBVIOUS
<1>1. CASE \E u \in Users, p \in Passwords, s \in Salts : ChangePassword(u, p, s)
  BY <1>1 DEF ChangePassword, Uncached!vars, CallState
<1>2. ASSUME NEW w \in Workers, Call(w) PROVE [Uncached!Next]_Uncached!vars
  BY <1>2, CallRefines DEF RInv, IInv, Uncached!Next
<1>3. ASSUME NEW w \in Workers, CheckHash(w) \/ CheckDigest(w) \/ CheckScramble(w)
      PROVE  [Uncached!Next]_Uncached!vars
  BY <1>3, CheckRefines
<1>4. ASSUME NEW w \in Workers, RecordHash(w) \/ RecordDigest(w) \/ RecordScramble(w)
      PROVE  [Uncached!Next]_Uncached!vars
  BY <1>4, RecordRefines DEF Uncached!Next
<1>5. CASE UNCHANGED vars
  BY <1>5 DEF vars, Uncached!vars, CallState
<1>6. QED
  BY <1>1, <1>2, <1>3, <1>4, <1>5 DEF Next

(***************************************************************************)
(* When every caller checks strictly with the same allow_legacy, the      *)
(* verification caches of check_hash, check_digest and check_scramble     *)
(* are transparent, for all handlers, users, passwords, salts and         *)
(* configurations: every check answers what the uncached verification and *)
(* policy gate answer for its call, so a hit never accepts what the full  *)
(* check refuses and a stale or foreign entry never makes it refuse what *)
(* the full check accepts.                                                 *)
(***************************************************************************)
THEOREM CacheTransparency ==
    ASSUME UniformModes
    PROVE  Spec => CacheTransparent
<1>1. Spec => []RInv
  BY RInvInit, RInvNext, PTL DEF Spec
<1>2. QED
  BY <1>1, RefineInit, RefineNext, PTL DEF Spec, CacheTransparent, Uncached!Spec

=============================================================================

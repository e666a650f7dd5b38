--------------------------- MODULE CredentialCheck --------------------------
(***************************************************************************)
(* The three credential checks of mig/shared/pwhash.py, check_hash,       *)
(* check_digest and check_scramble, run by concurrent login handlers that *)
(* share one cache dictionary per check, while users change passwords.   *)
(*                                                                         *)
(* A handler (a worker) reads the user's stored credential, then calls a  *)
(* check.  Each check is two atomic steps: the cache lookup, the policy   *)
(* check and the verification (which read only the cache and the          *)
(* handler's own values), then the cache write and the return.  Between   *)
(* the two, other handlers and password changes interleave.               *)
(*                                                                         *)
(* Stored credentials are records.  The PBKDF2 hash keeps its salt and    *)
(* the derived key; pbkdf2_bin is an ideal key derivation, so the key is  *)
(* the pair it was derived from.  The digest XORs realm:user:password     *)
(* with the site salt and the scramble XORs the password with it; with    *)
(* the salt fixed both are bijections, so they are recorded as the        *)
(* credentials they encode.  The md5 cache keys are collision free: the   *)
(* hash and scramble caches are keyed by the password, the digest cache   *)
(* by user and password (the realm is one fixed string).                  *)
(***************************************************************************)
EXTENDS PasswordPolicy

CONSTANTS
    Workers,     \* concurrent login handlers
    Users,
    Passwords,   \* the passwords users hold and present
    Salts,       \* the salts urandom may return to make_hash
    Conf,        \* the site configuration (see PasswordPolicy)
    Modes,       \* the (strict_policy, allow_legacy) pairs callers pass
    Kinds,       \* the checks the handlers call
    NoEntry      \* dict.get(key, None) for a key with no entry

ASSUME WorkersAssumption == Workers /= {}
ASSUME UsersAssumption == Users /= {}
ASSUME PasswordsAssumption ==
    Passwords /= {} /\ Passwords \subseteq Seq(STRING)
ASSUME SaltsAssumption == Salts /= {}
ASSUME ModesAssumption ==
    Modes /= {} /\ Modes \subseteq [strict : BOOLEAN, legacy : BOOLEAN]
ASSUME KindsAssumption ==
    Kinds /= {} /\ Kinds \subseteq {"hash", "digest", "scramble"}

VARIABLES
    db,            \* db[u]: the stored hash, digest and scramble of user u
    hashCache,     \* hash_cache: md5(password) -> hashed
    digestCache,   \* digest_cache: md5(realm:user:password) -> digest
    scrambleCache, \* scramble_cache: password -> scrambled
    pc,            \* where each handler is
    req,           \* the call a handler makes, with the credential it read
    match,         \* the verification result awaiting the cache write
    result         \* the value the check returned

vars == <<db, hashCache, digestCache, scrambleCache, pc, req, match, result>>

-----------------------------------------------------------------------------
(***************************************************************************)
(* Stored credentials.                                                     *)
(***************************************************************************)
Pbkdf2(p, s) == [pw |-> p, salt |-> s]

\* make_hash: 'PBKDF2$sha256$10000$<salt>$<b64 key>' with a fresh salt.
MakeHash(p, s) == [alg |-> "PBKDF2", salt |-> s, key |-> Pbkdf2(p, s)]

\* Mutant: the credentials merged as realm:password:username.
MakeDigestSwapped(u, p) == [alg |-> "DIGEST", user |-> p, pw |-> u]

\* make_digest: 'DIGEST$custom$CONFSALT$' + scramble_digest(salt, merged).
MakeDigest(u, p) == [alg |-> "DIGEST", user |-> u, pw |-> p]

\* make_scramble: scramble_password(salt, password).
MakeScramble(p) == [alg |-> "SCRAMBLE", pw |-> p]

HashRecords == [alg : {"PBKDF2"}, salt : Salts,
                key : [pw : Passwords, salt : Salts]]
DigestRecords == [alg : {"DIGEST"}, user : Users, pw : Passwords]
ScrambleRecords == [alg : {"SCRAMBLE"}, pw : Passwords]

\* None is never a stored credential.
ASSUME NoEntryAssumption ==
    NoEntry \notin HashRecords \cup DigestRecords \cup ScrambleRecords

UserRecords == [hash : HashRecords, digest : DigestRecords,
                scramble : ScrambleRecords]

(***************************************************************************)
(* The full verification of each check, without the cache.  check_hash    *)
(* re-derives the key with the salt embedded in the stored hash and       *)
(* compares all bytes; the others compare the encoded strings.            *)
(***************************************************************************)
HashMatches(p, hashed) == Pbkdf2(p, hashed.salt) = hashed.key
DigestMatches(u, p, digest) == MakeDigest(u, p) = digest
ScrambleMatches(p, scrambled) == MakeScramble(p) = scrambled

Verifies(r) ==
    CASE r.kind = "hash"   -> HashMatches(r.pw, r.stored)
      [] r.kind = "digest" -> DigestMatches(r.user, r.pw, r.stored)
      [] OTHER             -> ScrambleMatches(r.pw, r.stored)

(***************************************************************************)
(* The policy gate: assure_password_strength fails (ValueError or any     *)
(* other exception, all caught) and the caller asked for strict policy.   *)
(* check_hash skips the check when not strict; check_digest and           *)
(* check_scramble run it and only log the failure.                        *)
(***************************************************************************)
\* Mutant: the policy gate evaluated with allow_legacy always TRUE.
PolicyRejectsAnyLegacy(r) ==
    r.strict /\ AssurePasswordStrength(Conf, r.pw, TRUE) /= "ok"

PolicyRejects(r) ==
    r.strict /\ AssurePasswordStrength(Conf, r.pw, r.legacy) /= "ok"

Requests ==
    [kind : {"hash"}, user : Users, pw : Passwords, strict : BOOLEAN,
     legacy : BOOLEAN, stored : HashRecords]
    \cup [kind : {"digest"}, user : Users, pw : Passwords, strict : BOOLEAN,
          legacy : BOOLEAN, stored : DigestRecords]
    \cup [kind : {"scramble"}, user : Users, pw : Passwords, strict : BOOLEAN,
          legacy : BOOLEAN, stored : ScrambleRecords]

TypeOK ==
    /\ db \in [Users -> UserRecords]
    /\ hashCache \in [Passwords -> HashRecords \cup {NoEntry}]
    /\ digestCache \in [Users \X Passwords -> DigestRecords \cup {NoEntry}]
    /\ scrambleCache \in [Passwords -> ScrambleRecords \cup {NoEntry}]
    /\ pc \in [Workers -> {"idle", "check", "record", "done"}]
    /\ req \in [Workers -> Requests]
    /\ match \in [Workers -> BOOLEAN]
    /\ result \in [Workers -> BOOLEAN]

-----------------------------------------------------------------------------
(***************************************************************************)
(* The user database: every user holds a password, set by make_hash,      *)
(* make_digest and make_scramble together.                                *)
(***************************************************************************)
UserRecord(u, p, s) ==
    [hash |-> MakeHash(p, s), digest |-> MakeDigest(u, p),
     scramble |-> MakeScramble(p)]

Init ==
    /\ \E pw \in [Users -> Passwords], s \in [Users -> Salts] :
           db = [u \in Users |-> UserRecord(u, pw[u], s[u])]
    /\ hashCache = [p \in Passwords |-> NoEntry]
    /\ digestCache = [k \in Users \X Passwords |-> NoEntry]
    /\ scrambleCache = [p \in Passwords |-> NoEntry]
    /\ pc = [w \in Workers |-> "idle"]
    /\ req = [w \in Workers |-> CHOOSE r \in Requests : TRUE]
    /\ match = [w \in Workers |-> FALSE]
    /\ result = [w \in Workers |-> FALSE]

\* A password change saves the three new stored credentials.
ChangePassword(u, p, s) ==
    /\ db' = [db EXCEPT ![u] = UserRecord(u, p, s)]
    /\ UNCHANGED <<hashCache, digestCache, scrambleCache, pc, req, match,
                   result>>

\* A login handler reads the stored credential of a user and calls a check.
Call(w) ==
    /\ pc[w] \in {"idle", "done"}
    /\ \E k \in Kinds, u \in Users, p \in Passwords, m \in Modes :
           req' = [req EXCEPT ![w] =
                     [kind |-> k, user |-> u, pw |-> p, strict |-> m.strict,
                      legacy |-> m.legacy, stored |-> db[u][k]]]
    /\ pc' = [pc EXCEPT ![w] = "check"]
    /\ UNCHANGED <<db, hashCache, digestCache, scrambleCache, match, result>>

\* The check returns b to the handler.
Return(w, b) ==
    /\ result' = [result EXCEPT ![w] = b]
    /\ pc' = [pc EXCEPT ![w] = "done"]

\* The first step of a check once the cache missed: the policy gate, and
\* either a FALSE return or the verification.
PolicyThenVerify(w) ==
    \/ /\ PolicyRejects(req[w])
       /\ Return(w, FALSE)
       /\ UNCHANGED match
    \/ /\ ~PolicyRejects(req[w])
       /\ match' = [match EXCEPT ![w] = Verifies(req[w])]
       /\ pc' = [pc EXCEPT ![w] = "record"]
       /\ UNCHANGED result

\* The second step: write the cache entry on a match and return the match.
Record(w, cache) ==
    /\ cache' = IF match[w] THEN [cache EXCEPT ![req[w].pw] = req[w].stored]
                ELSE cache
    /\ Return(w, match[w])

-----------------------------------------------------------------------------
(***************************************************************************)
(* check_hash.                                                             *)
(***************************************************************************)
\* Mutant: a cache hit is any entry for the password, not one equal to
\* the stored hash.
CheckHashAnyEntry(w) ==
    /\ pc[w] = "check"
    /\ req[w].kind = "hash"
    /\ \/ /\ hashCache[req[w].pw] /= NoEntry
          /\ Return(w, TRUE)
          /\ UNCHANGED match
       \/ /\ hashCache[req[w].pw] = NoEntry
          /\ PolicyThenVerify(w)
    /\ UNCHANGED <<db, hashCache, digestCache, scrambleCache, req>>

CheckHash(w) ==
    /\ pc[w] = "check"
    /\ req[w].kind = "hash"
    /\ \/ /\ hashCache[req[w].pw] = req[w].stored
          /\ Return(w, TRUE)
          /\ UNCHANGED match
       \/ /\ hashCache[req[w].pw] /= req[w].stored
          /\ PolicyThenVerify(w)
    /\ UNCHANGED <<db, hashCache, digestCache, scrambleCache, req>>

RecordHash(w) ==
    /\ pc[w] = "record"
    /\ req[w].kind = "hash"
    /\ Record(w, hashCache)
    /\ UNCHANGED <<db, digestCache, scrambleCache, req, match>>

(***************************************************************************)
(* check_digest.                                                           *)
(***************************************************************************)
CheckDigest(w) ==
    /\ pc[w] = "check"
    /\ req[w].kind = "digest"
    /\ \/ /\ digestCache[<<req[w].user, req[w].pw>>] = req[w].stored
          /\ Return(w, TRUE)
          /\ UNCHANGED match
       \/ /\ digestCache[<<req[w].user, req[w].pw>>] /= req[w].stored
          /\ PolicyThenVerify(w)
    /\ UNCHANGED <<db, hashCache, digestCache, scrambleCache, req>>

RecordDigest(w) ==
    /\ pc[w] = "record"
    /\ req[w].kind = "digest"
    /\ digestCache' =
         IF match[w]
         THEN [digestCache EXCEPT ![<<req[w].user, req[w].pw>>] = req[w].stored]
         ELSE digestCache
    /\ Return(w, match[w])
    /\ UNCHANGED <<db, hashCache, scrambleCache, req, match>>

(***************************************************************************)
(* check_scramble.                                                         *)
(***************************************************************************)
CheckScramble(w) ==
    /\ pc[w] = "check"
    /\ req[w].kind = "scramble"
    /\ \/ /\ scrambleCache[req[w].pw] = req[w].stored
          /\ Return(w, TRUE)
          /\ UNCHANGED match
       \/ /\ scrambleCache[req[w].pw] /= req[w].stored
          /\ PolicyThenVerify(w)
    /\ UNCHANGED <<db, hashCache, digestCache, scrambleCache, req>>

RecordScramble(w) ==
    /\ pc[w] = "record"
    /\ req[w].kind = "scramble"
    /\ Record(w, scrambleCache)
    /\ UNCHANGED <<db, hashCache, digestCache, req, match>>

Next ==
    \/ \E u \in Users, p \in Passwords, s \in Salts : ChangePassword(u, p, s)
    \/ \E w \in Workers :
           \/ Call(w)
           \/ CheckHash(w)    \/ RecordHash(w)
           \/ CheckDigest(w)  \/ RecordDigest(w)
           \/ CheckScramble(w) \/ RecordScramble(w)

Spec == Init /\ [][Next]_vars

-----------------------------------------------------------------------------
(***************************************************************************)
(* A check returns TRUE only for a password that the full verification    *)
(* accepts against the stored credential the handler passed: a cache hit  *)
(* never accepts a password the user no longer has, nor one stored for   *)
(* another user, whatever the handlers and password changes did before.  *)
(***************************************************************************)
AcceptSound ==
    \A w \in Workers :
        pc[w] = "done" /\ result[w] => Verifies(req[w])

(***************************************************************************)
(* A strict check returns TRUE only for a password that satisfies the     *)
(* password policy under the caller's allow_legacy; the comment before    *)
(* the policy check in each check says a cache hit was "already verified" *)
(* against the policy.                                                    *)
(***************************************************************************)
PolicyOnAccept ==
    \A w \in Workers :
        pc[w] = "done" /\ result[w] /\ req[w].strict =>
            AssurePasswordStrength(Conf, req[w].pw, req[w].legacy) = "ok"

\* The verdict of a check without its cache: the full verification, and
\* the policy gate of a strict call.
UncachedAccepts(r) == Verifies(r) /\ ~PolicyRejects(r)

\* A handler's call runs through both steps of a check.
CallState(w) == IF pc[w] \in {"check", "record"} THEN "busy" ELSE pc[w]

Uncached == INSTANCE CredentialCheckAbstract
    WITH Calls <- Requests, Accepts <- UncachedAccepts, call <- req,
         state <- [w \in Workers |-> CallState(w)], verdict <- result

(***************************************************************************)
(* The caches are transparent: every check of every handler answers what *)
(* the same call would answer without hash_cache, digest_cache and       *)
(* scramble_cache, a full verification and the strict policy gate, at    *)
(* the moment it returns; a cache hit neither accepts a password the     *)
(* uncached check refuses nor a miss refuses one it accepts, whatever    *)
(* the other handlers and the password changes did in between.           *)
(***************************************************************************)
CacheTransparent == Uncached!Spec

-----------------------------------------------------------------------------
(***************************************************************************)
(* The inductive strengthening of AcceptSound: every cache entry is the   *)
(* stored credential its key verifies against, and a handler about to     *)
(* write the cache holds a verified match.                                *)
(***************************************************************************)
CacheSound ==
    /\ \A p \in Passwords :
           hashCache[p] /= NoEntry => HashMatches(p, hashCache[p])
    /\ \A k \in Users \X Passwords :
           digestCache[k] /= NoEntry => DigestMatches(k[1], k[2], digestCache[k])
    /\ \A p \in Passwords :
           scrambleCache[p] /= NoEntry => ScrambleMatches(p, scrambleCache[p])

RecordSound ==
    \A w \in Workers : pc[w] = "record" /\ match[w] => Verifies(req[w])

IInv == TypeOK /\ CacheSound /\ RecordSound /\ AcceptSound

=============================================================================

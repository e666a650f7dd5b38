-------------------------- MODULE SecretGenerator ---------------------------
(***************************************************************************)
(* generate_random_password of mig/shared/pwhash.py: build a charset from *)
(* the number of classes the site policy requires, draw min_len random    *)
(* characters from it, and retry up to 'tries' times until               *)
(* assure_password_strength accepts the draw.                             *)
(*                                                                         *)
(* The random draw is a nondeterministic choice over every string of      *)
(* min_len characters of the charset, restricted to the characters of    *)
(* DrawChars (at most one or two of each class keep the choice small).    *)
(***************************************************************************)
EXTENDS PasswordPolicy

CONSTANTS
    Confs,      \* the configurations the site may run with
    Tries,      \* the 'tries' argument
    DrawChars   \* the characters the model draws from

ASSUME TriesAssumption == Tries \in Nat

\* A policy field int() parses is an integer, and the generator draws
\* characters.
ASSUME DrawAssumption ==
    /\ DrawChars \subseteq STRING
    /\ \A c \in Confs : \A k \in DOMAIN c.policy.args :
           c.policy.args[k].isInt => c.policy.args[k].val \in Int

VARIABLES
    conf,       \* the configuration of this call
    pc,         \* "loop", or how the call ended
    i,          \* the loop index of 'for i in range(tries)'
    password    \* the last draw

vars == <<conf, pc, i, password>>

-----------------------------------------------------------------------------
\* The symbols added for a fourth class (the pound sign of the source, a
\* non-ASCII character, is left out of the model's characters).
Symbols == {",", ".", ";", ":", "+", "=", "&", "%", "#", "@", "$", "/", "?", "*"}

\* Mutant: digits only from four classes on.
GenCharsetLateDigits(classes) ==
    AsciiLowercase
    \cup (IF classes > 1 THEN AsciiUppercase ELSE {})
    \cup (IF classes > 3 THEN AsciiDigits ELSE {})
    \cup (IF classes > 3 THEN Symbols ELSE {})

\* The charset: lowercase, then uppercase, digits and symbols as the
\* required number of classes grows.
GenCharset(classes) ==
    AsciiLowercase
    \cup (IF classes > 1 THEN AsciiUppercase ELSE {})
    \cup (IF classes > 2 THEN AsciiDigits ELSE {})
    \cup (IF classes > 3 THEN Symbols ELSE {})

\* generate_random_ascii(count, charset): range(count) is empty for a
\* negative count.
Draws(c) ==
    LET r == ParsePasswordPolicy(c, FALSE)
    IN  [1 .. r.min_len -> GenCharset(r.min_classes) \cap DrawChars]

TypeOK ==
    /\ conf \in Confs
    /\ pc \in {"loop", "returned", "ValueError", "Exception"}
    /\ i \in 0 .. Tries
    /\ password \in Seq(STRING)

Init ==
    /\ conf \in Confs
    /\ pc = "loop"
    /\ i = 0
    /\ password = <<>>

\* Mutant: one attempt more than 'tries'.
AttemptOneMore(res) ==
    /\ pc = "loop"
    /\ i <= Tries
    /\ \E pw \in Draws(conf) :
           /\ AssurePasswordStrength(conf, pw, FALSE) = res
           /\ password' = pw
    /\ i' = i + 1

\* One iteration draws a password and checks it; 'res' is the outcome.
Attempt(res) ==
    /\ pc = "loop"
    /\ i < Tries
    /\ \E pw \in Draws(conf) :
           /\ AssurePasswordStrength(conf, pw, FALSE) = res
           /\ password' = pw
    /\ i' = i + 1

\* The draw fits the policy and is returned.
AttemptFits ==
    /\ Attempt("ok")
    /\ pc' = "returned"
    /\ UNCHANGED conf

\* The draw is refused with a ValueError: log and retry.
AttemptRetries ==
    /\ Attempt("ValueError")
    /\ UNCHANGED <<conf, pc>>

\* Any other exception (an unparsable policy, a missing cracklib) is not
\* caught and leaves the function.
AttemptRaises ==
    /\ Attempt("Exception")
    /\ pc' = "Exception"
    /\ UNCHANGED conf

\* All tries refused: raise ValueError.
GiveUp ==
    /\ pc = "loop"
    /\ i = Tries
    /\ pc' = "ValueError"
    /\ UNCHANGED <<conf, i, password>>

Next == AttemptFits \/ AttemptRetries \/ AttemptRaises \/ GiveUp

\* A single sequential call.
Spec == Init /\ [][Next]_vars

-----------------------------------------------------------------------------
\* Reference: a policy that parses can be met by some password (one of
\* min_len characters touching min_classes <= 4 classes, when min_len is
\* at least min_classes), whatever the generator does.
PolicyValid(c) ==
    LET r == ParsePasswordPolicy(c, FALSE)
    IN  r.min_len >= 0 /\ r.min_classes <= 4

LongEnough(c) ==
    LET r == ParsePasswordPolicy(c, FALSE)
    IN  r.min_len >= r.min_classes

\* Some draw of the generator passes assure_password_strength.
CanSucceed(c) == \E pw \in Draws(c) : AssurePasswordStrength(c, pw, FALSE) = "ok"

(***************************************************************************)
(* The retry loop can succeed: for every valid policy whose length allows *)
(* its classes, some draw from the charset the generator builds for the   *)
(* policy's class count passes the policy check, which counts classes on  *)
(* its own character map.  Only bad luck can exhaust the tries.           *)
(***************************************************************************)
GeneratorCanSucceedLongEnough ==
    PolicyValid(conf) /\ LongEnough(conf) /\ ~conf.cracklib => CanSucceed(conf)

=============================================================================

--------------------------- MODULE StrengthCheck ----------------------------
(***************************************************************************)
(* Checks assure_password_strength over every pair of a configuration     *)
(* and a presented password from the sets the model is given: the state   *)
(* is the pair, and a step changes one of them.                            *)
(***************************************************************************)
EXTENDS PasswordPolicy

CONSTANTS
    Passwords,   \* the passwords presented
    Confs        \* the configurations the site may run with

ASSUME PasswordsAssumption == Passwords \subseteq Seq(STRING)

VARIABLES conf, pw

vars == <<conf, pw>>

TypeOK ==
    /\ conf \in Confs
    /\ pw \in Passwords

Init ==
    /\ conf \in Confs
    /\ pw \in Passwords

ChangeConfiguration ==
    /\ \E c \in Confs : conf' = c
    /\ UNCHANGED pw

PresentPassword ==
    /\ \E p \in Passwords : pw' = p
    /\ UNCHANGED conf

Next == ChangeConfiguration \/ PresentPassword

Spec == Init /\ [][Next]_vars

-----------------------------------------------------------------------------
(***************************************************************************)
(* Reference definitions from the policy contract: the class of a         *)
(* character, the set of classes a password touches, and whether a policy *)
(* parses and the password fits it.                                        *)
(***************************************************************************)
CharClassOf(c) ==
    CASE c \in AsciiLowercase -> "lower"
      [] c \in AsciiUppercase -> "upper"
      [] c \in AsciiDigits    -> "digits"
      [] OTHER                -> "other"

ClassesOf(p) == {CharClassOf(p[i]) : i \in DOMAIN p}

PolicyValid(pol) ==
    LET r == PasswordRequirements(pol)
    IN  r.min_len >= 0 /\ r.min_classes <= 4

Fits(c, pol, p) ==
    LET r == PasswordRequirements(pol)
    IN  /\ PolicyValid(pol)
        /\ Len(p) >= r.min_len
        /\ Cardinality(ClassesOf(p)) >= r.min_classes
        /\ c.cracklib => /\ c.cracklibAvail
                         /\ ~CracklibRefuses(c, p, r.min_len + r.min_classes)

(***************************************************************************)
(* assure_password_strength accepts a password exactly when it fits the   *)
(* normal policy (length, number of distinct character classes and, when  *)
(* enabled, cracklib), or when the normal policy parses, the caller       *)
(* allows the legacy policy, one is configured and the password fits it.  *)
(* A policy that does not parse, or a missing cracklib, never lets a      *)
(* password through, not even by the legacy path.                         *)
(***************************************************************************)
StrengthContract ==
    \A allow \in BOOLEAN :
        (AssurePasswordStrength(conf, pw, allow) = "ok") <=>
            \/ Fits(conf, conf.policy, pw)
            \/ /\ PolicyValid(conf.policy)
               /\ allow
               /\ conf.legacy /= NoLegacy
               /\ Fits(conf, conf.legacy, pw)

=============================================================================

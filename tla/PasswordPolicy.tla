--------------------------- MODULE PasswordPolicy ---------------------------
(***************************************************************************)
(* The password policy layer of mig/shared/pwhash.py: parsing a policy    *)
(* string into (min_len, min_classes), the strength helper that checks a  *)
(* password against the normal or the legacy policy, and                  *)
(* assure_password_strength with its legacy fallback.                     *)
(*                                                                         *)
(* A password is a sequence of one-character strings.  A policy string is *)
(* a record [kw, args]: kw is the keyword the string equals or starts     *)
(* with, args the ':'-separated fields after it, each a record telling    *)
(* whether int() parses it and, if so, its value.  The exact keywords     *)
(* NONE, WEAK, MEDIUM and HIGH match only with no fields; any other       *)
(* string is kw "OTHER".                                                   *)
(* The empty string, the unset legacy policy, is NoLegacy.                *)
(*                                                                         *)
(* A configuration is a record [policy, legacy, cracklib, cracklibAvail,  *)
(* dictionary]: site_password_policy, site_password_legacy_policy,        *)
(* site_password_cracklib, whether the optional cracklib module imported, *)
(* and the passwords the cracklib dictionary refuses.                     *)
(***************************************************************************)
EXTENDS Integers, Sequences, FiniteSets, SequencesExt

NoLegacy == [kw |-> "", args |-> <<>>]

\* A policy field that int() parses to n, and one it refuses.
Num(n) == [isInt |-> TRUE, val |-> n]
Junk == [isInt |-> FALSE, val |-> 0]

\* string.ascii_lowercase, string.ascii_uppercase and string.digits.
AsciiLowercase == {"a","b","c","d","e","f","g","h","i","j","k","l","m",
                   "n","o","p","q","r","s","t","u","v","w","x","y","z"}
AsciiUppercase == {"A","B","C","D","E","F","G","H","I","J","K","L","M",
                   "N","O","P","Q","R","S","T","U","V","W","X","Y","Z"}
AsciiDigits == {"0","1","2","3","4","5","6","7","8","9"}

\* char_class_map: the three named classes and their characters.
CharClassMap == [lower |-> AsciiLowercase, upper |-> AsciiUppercase,
                 digits |-> AsciiDigits]

BaseChars == AsciiLowercase \cup AsciiUppercase \cup AsciiDigits

(***************************************************************************)
(* password_requirements: the (min_len, min_classes, errors) triple.  A    *)
(* malformed or unknown policy keeps the initial -1 and 42 and reports an  *)
(* error.                                                                  *)
(***************************************************************************)
Req(len, classes, err) == [min_len |-> len, min_classes |-> classes,
                           errors |-> err]

PasswordRequirements(pol) ==
  CASE pol = [kw |-> "NONE", args |-> <<>>]   -> Req(0, 0, FALSE)
    [] pol = [kw |-> "WEAK", args |-> <<>>]   -> Req(6, 2, FALSE)
    [] pol = [kw |-> "MEDIUM", args |-> <<>>] -> Req(8, 3, FALSE)
    [] pol = [kw |-> "HIGH", args |-> <<>>]   -> Req(10, 4, FALSE)
    [] pol.kw = "MODERN" ->
         IF Len(pol.args) = 1 /\ pol.args[1].isInt
         THEN Req(pol.args[1].val, 1, FALSE) ELSE Req(-1, 42, TRUE)
    [] pol.kw = "CUSTOM" ->
         IF Len(pol.args) = 2 /\ pol.args[1].isInt /\ pol.args[2].isInt
         THEN Req(pol.args[1].val, pol.args[2].val, FALSE)
         ELSE Req(-1, 42, TRUE)
    [] OTHER -> Req(-1, 42, TRUE)

\* parse_password_policy: the normal or the legacy policy of conf.
ParsePasswordPolicy(conf, useLegacy) ==
  PasswordRequirements(IF useLegacy THEN conf.legacy ELSE conf.policy)

(***************************************************************************)
(* One iteration of the classification loop over the password: a         *)
(* character outside the base characters adds 'other' once, a base        *)
(* character adds its named class if it is not yet in the list.           *)
(***************************************************************************)
\* Mutant: 'other' appended for every special character.
PwClassStepNoDedup(pwClasses, c) ==
  IF c \notin BaseChars
  THEN Append(pwClasses, "other")
  ELSE LET hit == {cls \in DOMAIN CharClassMap :
                     c \in CharClassMap[cls] /\ cls \notin ToSet(pwClasses)}
       IN  IF hit = {} THEN pwClasses
           ELSE Append(pwClasses, CHOOSE cls \in hit : TRUE)

PwClassStep(pwClasses, c) ==
  IF c \notin BaseChars
  THEN IF "other" \notin ToSet(pwClasses)
       THEN Append(pwClasses, "other") ELSE pwClasses
  ELSE LET hit == {cls \in DOMAIN CharClassMap :
                     c \in CharClassMap[cls] /\ cls \notin ToSet(pwClasses)}
       IN  IF hit = {} THEN pwClasses
           ELSE Append(pwClasses, CHOOSE cls \in hit : TRUE)

PwClassList(pw) == FoldLeft(PwClassStep, <<>>, pw)

(***************************************************************************)
(* The external cracklib.VeryFascistCheck, called after MIN_LENGTH was    *)
(* set: it refuses a password shorter than MIN_LENGTH or found in its     *)
(* dictionary.                                                             *)
(***************************************************************************)
CracklibRefuses(conf, pw, minLength) ==
  Len(pw) < minLength \/ pw \in conf.dictionary

(***************************************************************************)
(* __assure_password_strength_helper: "ok", "ValueError" (the password    *)
(* does not fit) or "Exception" (the policy does not parse, or cracklib   *)
(* is requested but missing).                                              *)
(***************************************************************************)
StrengthHelper(conf, pw, useLegacy) ==
  LET r == ParsePasswordPolicy(conf, useLegacy)
  IN  CASE r.min_len < 0 \/ r.min_classes > 4          -> "Exception"
        [] Len(pw) < r.min_len                          -> "ValueError"
        [] Len(PwClassList(pw)) < r.min_classes         -> "ValueError"
        [] conf.cracklib /\ ~conf.cracklibAvail         -> "Exception"
        [] conf.cracklib /\
           CracklibRefuses(conf, pw, r.min_len + r.min_classes) -> "ValueError"
        [] OTHER                                        -> "ok"

(***************************************************************************)
(* assure_password_strength: the normal policy first; only a ValueError    *)
(* from it falls back to the legacy policy, when one is configured and    *)
(* the caller allows it.  Any other exception propagates unchanged.       *)
(***************************************************************************)
AssurePasswordStrength(conf, pw, allowLegacy) ==
  LET first == StrengthHelper(conf, pw, FALSE)
  IN  IF first /= "ValueError" THEN first
      ELSE IF conf.legacy /= NoLegacy /\ allowLegacy
           THEN StrengthHelper(conf, pw, TRUE)
           ELSE "ValueError"

\* valid_login_password: every exception becomes a plain FALSE.
ValidLoginPassword(conf, pw) == AssurePasswordStrength(conf, pw, TRUE) = "ok"

=============================================================================

------------------------ MODULE SecretGeneratorProofs ------------------------
(***************************************************************************)
(* Proof that generate_random_password's loop keeps its types for every   *)
(* configuration, number of tries and set of drawn characters: the draw  *)
(* is a string whatever min_len the policy parses to (a negative count   *)
(* draws the empty string), and the loop index never passes 'tries'.     *)
(***************************************************************************)
EXTENDS SecretGenerator, TLAPS

\* password_requirements gives an integer length for every policy string.
LEMMA MinLenInt ==
    ASSUME NEW c \in Confs
    PROVE  ParsePasswordPolicy(c, FALSE).min_len \in Int
<1> DEFINE pol == c.policy
<1>1. Len(pol.args) = 1 /\ pol.args[1].isInt => pol.args[1].val \in Int
  BY DrawAssumption
<1>2. Len(pol.args) = 2 /\ pol.args[1].isInt => pol.args[1].val \in Int
  BY DrawAssumption
<1>3. QED
  BY <1>1, <1>2 DEF ParsePasswordPolicy, PasswordRequirements, Req

\* A function on 1 .. m is a sequence, the empty one for a negative m.
LEMMA IntervalSeq ==
    ASSUME NEW m \in Int, NEW S, NEW f \in [1 .. m -> S]
    PROVE  f \in Seq(S)
<1>1. CASE m >= 0
  <2>1. m \in Nat
    BY <1>1
  <2>2. QED
    BY <2>1
<1>2. CASE m < 0
  <2>1. 1 .. m = 1 .. 0
    BY <1>2
  <2>2. f \in [1 .. 0 -> S]
    BY <2>1
  <2>3. QED
    BY <2>2
<1>3. QED
  BY <1>1, <1>2

\* Every draw of the generator is a string.
LEMMA DrawsStrings ==
    ASSUME NEW c \in Confs, NEW pw \in Draws(c)
    PROVE  pw \in Seq(STRING)
<1>1. ParsePasswordPolicy(c, FALSE).min_len \in Int
  BY MinLenInt
<1>2. pw \in [1 .. ParsePasswordPolicy(c, FALSE).min_len -> STRING]
  BY DrawAssumption DEF Draws
<1>3. QED
  BY <1>1, <1>2, IntervalSeq

LEMMA TypeInit == Init => TypeOK
BY TriesAssumption DEF Init, TypeOK

LEMMA TypeNext == TypeOK /\ [Next]_vars => TypeOK'
<1> SUFFICES ASSUME TypeOK, [Next]_vars PROVE TypeOK'
  OBVIOUS
<1>1. ASSUME NEW res, Attempt(res) PROVE (i \in 0 .. Tries /\ password \in Seq(STRING))'
  <2>1. PICK pw \in Draws(conf) : password' = pw
    BY <1>1 DEF Attempt
  <2>2. pw \in Seq(STRING)
    BY DrawsStrings DEF TypeOK
  <2>3. QED
    BY <1>1, <2>1, <2>2, TriesAssumption DEF Attempt, TypeOK
<1>2. CASE AttemptFits \/ AttemptRetries \/ AttemptRaises
  BY <1>1, <1>2 DEF AttemptFits, AttemptRetries, AttemptRaises, TypeOK
<1>3. CASE GiveUp
  BY <1>3 DEF GiveUp, TypeOK
<1>4. CASE UNCHANGED vars
  BY <1>4 DEF vars, TypeOK
<1>5. QED
  BY <1>2, <1>3, <1>4 DEF Next

(***************************************************************************)
(* generate_random_password keeps its configuration, leaves the loop only *)
(* by returning or raising, counts at most 'tries' attempts and always    *)
(* holds a string as the last draw, for every configuration whose policy *)
(* fields int() parses, every 'tries' and every set of drawn characters. *)
(***************************************************************************)
THEOREM TypeCorrect == Spec => []TypeOK
BY TypeInit, TypeNext, PTL DEF Spec

=============================================================================

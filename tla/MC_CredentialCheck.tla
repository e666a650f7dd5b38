------------------------- MODULE MC_CredentialCheck -------------------------
EXTENDS CredentialCheck, TLC

CONSTANTS w1, w2, u1, u2, s1, s2

\* "abc123" fits the WEAK legacy policy only; "Abc123#xyz" fits HIGH.
WeakPw == <<"a","b","c","1","2","3">>
StrongPw == <<"A","b","c","1","2","3","#","x","y","z">>

MCPasswords == {WeakPw, StrongPw}

\* site_password_policy HIGH, site_password_legacy_policy WEAK, no cracklib.
MCConf == [policy |-> [kw |-> "HIGH", args |-> <<>>],
           legacy |-> [kw |-> "WEAK", args |-> <<>>],
           cracklib |-> FALSE, cracklibAvail |-> FALSE, dictionary |-> {}]

\* Every caller checks strictly against the normal policy only.
MCUniformModes == {[strict |-> TRUE, legacy |-> FALSE]}
\* Callers pass every combination of strict_policy and allow_legacy.
MCMixedModes == [strict : BOOLEAN, legacy : BOOLEAN]

MCAllKinds == {"hash", "digest", "scramble"}

MCSymmetry == Permutations({w1, w2}) \cup Permutations({u1, u2})
              \cup Permutations({s1, s2})

=============================================================================

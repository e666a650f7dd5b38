------------------------- MODULE MC_StrengthCheck ---------------------------
EXTENDS StrengthCheck

Pol(kw, args) == [kw |-> kw, args |-> args]

\* Every password of up to three characters, one character of each class,
\* and the two passwords of the legacy-fallback example of the policy docs.
MCPasswords ==
    BoundedSeq({"a", "Z", "7", "#"}, 3)
    \cup {<<"a","b","c","1","2","3">>,
          <<"A","b","c","1","2","3","#","x","y","z">>}

MCPolicies ==
    {Pol("NONE", <<>>), Pol("WEAK", <<>>), Pol("HIGH", <<>>),
     Pol("MODERN", <<Num(2)>>), Pol("MODERN", <<>>), Pol("MODERN", <<Junk>>),
     Pol("CUSTOM", <<Num(2), Num(3)>>), Pol("CUSTOM", <<Num(3), Num(-1)>>),
     Pol("CUSTOM", <<Num(1), Num(5)>>), Pol("CUSTOM", <<Num(-1), Num(0)>>),
     Pol("CUSTOM", <<Num(2)>>), Pol("OTHER", <<>>)}

MCLegacyPolicies ==
    {NoLegacy, Pol("WEAK", <<>>), Pol("CUSTOM", <<Num(1), Num(2)>>),
     Pol("MODERN", <<Junk>>)}

MCCracklib ==
    {[cracklib |-> FALSE, cracklibAvail |-> FALSE, dictionary |-> {}],
     [cracklib |-> TRUE, cracklibAvail |-> TRUE,
      dictionary |-> {<<"a","Z","7">>}],
     [cracklib |-> TRUE, cracklibAvail |-> FALSE, dictionary |-> {}]}

MCConfs ==
    {[policy |-> p, legacy |-> l, cracklib |-> k.cracklib,
      cracklibAvail |-> k.cracklibAvail, dictionary |-> k.dictionary] :
        p \in MCPolicies, l \in MCLegacyPolicies, k \in MCCracklib}

=============================================================================

------------------------- MODULE MC_SecretGenerator -------------------------
EXTENDS SecretGenerator

Pol(kw, args) == [kw |-> kw, args |-> args]

Conf(p, crack, avail) ==
    [policy |-> p, legacy |-> NoLegacy, cracklib |-> crack,
     cracklibAvail |-> avail, dictionary |-> {}]

\* One character of each class.
MCDrawChars == {"a", "Z", "7", "#"}

\* Every keyword that keeps draws short, policies with each class count,
\* two unparsable ones, and a cracklib that is requested but missing.
MCPolicies ==
    {Pol("NONE", <<>>), Pol("WEAK", <<>>), Pol("MODERN", <<Num(3)>>),
     Pol("CUSTOM", <<Num(3), Num(2)>>), Pol("CUSTOM", <<Num(3), Num(3)>>),
     Pol("CUSTOM", <<Num(4), Num(4)>>), Pol("MODERN", <<Junk>>),
     Pol("CUSTOM", <<Num(1), Num(5)>>)}

MCConfs ==
    {Conf(p, FALSE, FALSE) : p \in MCPolicies}
    \cup {Conf(Pol("CUSTOM", <<Num(3), Num(2)>>), TRUE, FALSE)}

=============================================================================

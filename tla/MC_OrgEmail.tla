---------------------------- MODULE MC_OrgEmail -----------------------------
EXTENDS OrgEmail

\* Forced organizations in either case, and one that is not forced.
MCOrgs == {"DIKU", "diku", "NBI", "IMF", "DTU", "KU", "Ku", "ACME"}

MCUpperCase == [o \in MCOrgs |->
                  CASE o = "diku" -> "DIKU" [] o = "Ku" -> "KU" [] OTHER -> o]

MCNL == "\n"

MCSingleChars == {".", "x", MCNL}

\* Every domain of the policy, a domain of no forced organization, two
\* domains anyone may register that differ from a policy domain only
\* where it has a dot, and a policy domain followed by a newline.
MCDomains ==
    {<<"diku", ".", "dk">>, <<"di", ".", "ku", ".", "dk">>,
     <<"nbi", ".", "ku", ".", "dk">>, <<"nbi", ".", "dk">>,
     <<"fys", ".", "ku", ".", "dk">>, <<"math", ".", "ku", ".", "dk">>,
     <<"dtu", ".", "dk">>, <<"alumni", ".", "ku", ".", "dk">>,
     <<"ku", ".", "dk">>, <<"example", ".", "org">>,
     <<"di", "x", "ku", ".", "dk">>, <<"alumni", "x", "ku", ".", "dk">>,
     <<"ku", ".", "dk", MCNL>>}

=============================================================================

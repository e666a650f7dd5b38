------------------------ MODULE MC_AccountRequests --------------------------
EXTENDS AccountRequests

CONSTANTS a1, a2, n1, n2, dot

MCAdmins == {a1, a2}
MCNames == {n1, n2, dot}
MCDotNames == {dot}

=============================================================================

-------------------------- MODULE MC_PendingPeers ---------------------------
EXTENDS PendingPeers

CONSTANTS r1, r2, p1, p2, v1, v2

\* One peer added, re-added with another dict, and two peers at once.
MCChangeLists ==
    {<<<<p1, v1>>>>, <<<<p1, v2>>>>, <<<<p2, v1>>>>,
     <<<<p1, v1>>, <<p2, v2>>>>}

\* The file missing, or holding one entry.
MCInitialFiles == {Missing, [exists |-> TRUE, list |-> <<<<p2, v2>>>>]}

=============================================================================

------------------------ MODULE PendingPeersAbstract ------------------------
(***************************************************************************)
(* What manage_pending_peers promises a caller: the pending peers list of *)
(* a user is changed atomically.  An add replaces the entries of the      *)
(* peers it names and moves them last; a remove drops them.  A failed     *)
(* call leaves the list as it was.                                         *)
(***************************************************************************)
EXTENDS Sequences

CONSTANTS
    ChangeLists,   \* the change lists callers pass
    Initial        \* the lists a user may start with

VARIABLE pending

\* The peer ids a change list names.
Named(c) == {c[i][1] : i \in DOMAIN c}

\* The list after a change: the entries of the named peers removed, and for
\* an add the change list appended.
Update(l, a, c) ==
    SelectSeq(l, LAMBDA e : e[1] \notin Named(c))
    \o (IF a = "add" THEN c ELSE <<>>)

Init == pending \in Initial

Change(a, c) == pending' = Update(pending, a, c)

Next == \E a \in {"add", "remove"}, c \in ChangeLists : Change(a, c)

Spec == Init /\ [][Next]_pending

=============================================================================

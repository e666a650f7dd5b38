---------------------------- MODULE PendingPeers ----------------------------
(***************************************************************************)
(* manage_pending_peers of mig/shared/accountreq.py, called by concurrent *)
(* requests on the pending peers file of one user: load the list (an      *)
(* empty one if the file is missing), drop the entries of the peers in    *)
(* the change list, append the change list for an add, and dump the list. *)
(* The load and the dump are separate steps with no lock between them.   *)
(*                                                                         *)
(* A peer entry is a pair (peer id, peer dict); the file is a record of  *)
(* whether it exists and the list it holds.  serial.load and serial.dump  *)
(* are not in this repository: load of a missing file raises, dump either *)
(* writes the whole list or raises and leaves the file as it was.         *)
(***************************************************************************)
EXTENDS Sequences

CONSTANTS
    Requests,      \* concurrent requests on the same user's file
    Peers,         \* peer ids
    Values,        \* peer dicts
    ChangeLists,   \* the change lists callers pass: sequences of Entries
    Actions,       \* the action strings callers pass
    InitialFiles,  \* the file before the first request: a set of Files
    LoadMayFail    \* whether load can raise for an existing file

Entries == Peers \X Values

Files == [exists : BOOLEAN, list : Seq(Entries)]

\* No pending peers file.
Missing == [exists |-> FALSE, list |-> <<>>]

VARIABLES
    file,      \* the pending peers file
    pc,        \* where each request is
    loaded,    \* pending_peers as the request loaded it
    action,    \* the action of each request
    change,    \* the change_list of each request
    result     \* the value the call returned

vars == <<file, pc, loaded, action, change, result>>

-----------------------------------------------------------------------------
\* load(pending_peers_path), or [] when it raises for a missing file.
Stored(f) == IF f.exists THEN f.list ELSE <<>>

\* dict(change_list): the peer ids it names.
ChangeDict(c) == {c[i][1] : i \in DOMAIN c}

\* The list comprehension dropping the changed peers, then += change_list.
Updated(l, a, c) ==
    SelectSeq(l, LAMBDA e : e[1] \notin ChangeDict(c))
    \o (IF a = "add" THEN c ELSE <<>>)

TypeOK ==
    /\ file \in Files
    /\ pc \in [Requests -> {"idle", "loaded", "done"}]
    /\ loaded \in [Requests -> Seq(Entries)]
    /\ action \in [Requests -> Actions]
    /\ change \in [Requests -> ChangeLists]
    /\ result \in [Requests -> BOOLEAN]

Init ==
    /\ file \in InitialFiles
    /\ pc = [r \in Requests |-> "idle"]
    /\ loaded = [r \in Requests |-> <<>>]
    /\ action = [r \in Requests |-> CHOOSE a \in Actions : TRUE]
    /\ change = [r \in Requests |-> CHOOSE c \in ChangeLists : TRUE]
    /\ result = [r \in Requests |-> FALSE]

\* What load gives the request: the stored list, or, when load raises for
\* an existing file (unreadable, or a read error), the empty list the
\* request goes on with after logging a warning.
LoadResults(f) ==
    {Stored(f)} \cup (IF LoadMayFail /\ f.exists THEN {<<>>} ELSE {})

\* A request calls manage_pending_peers and loads the file.
Load(r) ==
    /\ pc[r] \in {"idle", "done"}
    /\ \E a \in Actions, c \in ChangeLists :
           /\ action' = [action EXCEPT ![r] = a]
           /\ change' = [change EXCEPT ![r] = c]
    /\ \E l \in LoadResults(file) : loaded' = [loaded EXCEPT ![r] = l]
    /\ pc' = [pc EXCEPT ![r] = "loaded"]
    /\ UNCHANGED <<file, result>>

\* An action other than add or remove: log and return False, no dump.
Unsupported(r) ==
    /\ pc[r] = "loaded"
    /\ action[r] \notin {"add", "remove"}
    /\ result' = [result EXCEPT ![r] = FALSE]
    /\ pc' = [pc EXCEPT ![r] = "done"]
    /\ UNCHANGED <<file, loaded, action, change>>

\* dump writes the changed list and the call returns True.
Dump(r) ==
    /\ pc[r] = "loaded"
    /\ action[r] \in {"add", "remove"}
    /\ file' = [exists |-> TRUE, list |-> Updated(loaded[r], action[r], change[r])]
    /\ result' = [result EXCEPT ![r] = TRUE]
    /\ pc' = [pc EXCEPT ![r] = "done"]
    /\ UNCHANGED <<loaded, action, change>>

\* dump raises: the call logs and returns False.
DumpFails(r) ==
    /\ pc[r] = "loaded"
    /\ action[r] \in {"add", "remove"}
    /\ result' = [result EXCEPT ![r] = FALSE]
    /\ pc' = [pc EXCEPT ![r] = "done"]
    /\ UNCHANGED <<file, loaded, action, change>>

Next ==
    \E r \in Requests :
        \/ Load(r) \/ Unsupported(r) \/ Dump(r) \/ DumpFails(r)

Spec == Init /\ [][Next]_vars

-----------------------------------------------------------------------------
Abs == INSTANCE PendingPeersAbstract
           WITH pending <- Stored(file),
                Initial <- {Stored(f) : f \in InitialFiles}

(***************************************************************************)
(* manage_pending_peers implements the atomic change of the pending list: *)
(* every dump writes the list the caller's change makes of the list as it *)
(* is in the file, so no other request's change is lost or undone.        *)
(***************************************************************************)
AtomicChange == Abs!Spec

=============================================================================

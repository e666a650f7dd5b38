-------------------------- MODULE AccountRequests ---------------------------
(***************************************************************************)
(* The pending account requests of mig/shared/accountreq.py: one file per *)
(* request in configuration.user_pending.  Admin pages list the requests  *)
(* (list_account_reqs), fetch each listed one (get_account_req), and      *)
(* accept or delete one; users add requests.  Every call runs in its own *)
(* request handler, so the steps of different calls interleave.           *)
(*                                                                         *)
(* list_account_reqs is split where it touches the file system: listdir, *)
(* the isdir and mkdir of its error path, and one isfile per entry.       *)
(* serial.load (not in this repository) raises for a missing file.        *)
(***************************************************************************)
EXTENDS FiniteSets

CONSTANTS
    Admins,      \* the admin page calls
    Names,       \* the entry names that may occur in the directory
    DotNames,    \* those that start with '.'
    CanCreate,   \* whether mkdir of the directory can succeed
    Listable     \* whether listdir of an existing directory succeeds

ASSUME NamesAssumption == DotNames \subseteq Names /\ Admins /= {}
ASSUME FlagsAssumption == CanCreate \in BOOLEAN /\ Listable \in BOOLEAN

Kinds == {"none", "file", "dir"}

VARIABLES
    dirExists,   \* whether user_pending exists
    entries,     \* what each name is in it
    pc,          \* where each admin call is
    content,     \* dir_content entries not yet looked at
    found,       \* accountreq_list
    result,      \* the status each call returned
    stable       \* request files present since the call's listdir

vars == <<dirExists, entries, pc, content, found, result, stable>>

-----------------------------------------------------------------------------
Requests == {n \in Names : entries[n] = "file"}

TypeOK ==
    /\ dirExists \in BOOLEAN
    /\ entries \in [Names -> Kinds]
    /\ pc \in [Admins -> {"idle", "failed", "mkdir", "entries", "listed",
                          "broken", "raised", "done"}]
    /\ content \in [Admins -> SUBSET Names]
    /\ found \in [Admins -> SUBSET Names]
    /\ result \in [Admins -> BOOLEAN]
    /\ stable \in [Admins -> SUBSET Names]

Init ==
    /\ dirExists \in BOOLEAN
    /\ entries \in [Names -> Kinds]
    /\ dirExists = FALSE => \A n \in Names : entries[n] = "none"
    /\ pc = [a \in Admins |-> "idle"]
    /\ content = [a \in Admins |-> {}]
    /\ found = [a \in Admins |-> {}]
    /\ result = [a \in Admins |-> FALSE]
    /\ stable = [a \in Admins |-> {}]

\* A call is not in progress: the page may be loaded again.
Returned == {"idle", "listed", "broken", "raised", "done"}

\* The admin page calls list_account_reqs: os.listdir(user_pending) gives
\* the entries, or raises.
ListDir(a) ==
    /\ pc[a] \in Returned
    /\ IF dirExists /\ Listable
       THEN /\ content' = [content EXCEPT ![a] = {n \in Names : entries[n] /= "none"}]
            /\ pc' = [pc EXCEPT ![a] = "entries"]
       ELSE /\ content' = [content EXCEPT ![a] = {}]
            /\ pc' = [pc EXCEPT ![a] = "failed"]
    /\ found' = [found EXCEPT ![a] = {}]
    /\ stable' = [stable EXCEPT ![a] = Requests]
    /\ UNCHANGED <<dirExists, entries, result>>

\* listdir raised: when user_pending is a directory, go on with [];
\* otherwise try to create it.
CheckDir(a) ==
    /\ pc[a] = "failed"
    /\ pc' = [pc EXCEPT ![a] = IF dirExists THEN "entries" ELSE "mkdir"]
    /\ UNCHANGED <<dirExists, entries, content, found, result, stable>>

\* os.mkdir: it fails if the directory exists by now or cannot be made,
\* and the call returns (False, "account request setup is broken").
Mkdir(a) ==
    /\ pc[a] = "mkdir"
    /\ IF ~dirExists /\ CanCreate
       THEN /\ dirExists' = TRUE
            /\ pc' = [pc EXCEPT ![a] = "entries"]
            /\ UNCHANGED result
       ELSE /\ result' = [result EXCEPT ![a] = FALSE]
            /\ pc' = [pc EXCEPT ![a] = "broken"]
            /\ UNCHANGED dirExists
    /\ UNCHANGED <<entries, content, found, stable>>

\* One entry of dir_content: skip dot names, keep it when is_account_req
\* (os.path.isfile) holds now, warn otherwise.
CheckEntry(a) ==
    /\ pc[a] = "entries"
    /\ \E n \in content[a] :
           /\ content' = [content EXCEPT ![a] = @ \ {n}]
           /\ found' = [found EXCEPT ![a] =
                          IF n \notin DotNames /\ entries[n] = "file" THEN @ \cup {n} ELSE @]
    /\ UNCHANGED <<dirExists, entries, pc, result, stable>>

\* Mutant: the call returns before every entry is looked at.
ListReturnsEarly(a) ==
    /\ pc[a] = "entries"
    /\ result' = [result EXCEPT ![a] = TRUE]
    /\ pc' = [pc EXCEPT ![a] = "listed"]
    /\ UNCHANGED <<dirExists, entries, content, found, stable>>

\* The loop is done: return (True, accountreq_list).
ListDone(a) ==
    /\ pc[a] = "entries"
    /\ content[a] = {}
    /\ result' = [result EXCEPT ![a] = TRUE]
    /\ pc' = [pc EXCEPT ![a] = "listed"]
    /\ UNCHANGED <<dirExists, entries, content, found, stable>>

\* The admin page fetches a listed request: get_account_req loads it,
\* which raises when it is gone.
GetAccountReq(a) ==
    /\ pc[a] = "listed"
    /\ \E n \in found[a] :
           pc' = [pc EXCEPT ![a] = IF entries[n] = "file" THEN "listed" ELSE "raised"]
    /\ UNCHANGED <<dirExists, entries, content, found, result, stable>>

\* accept_account_req only logs and returns False.
AcceptAccountReq(a) ==
    /\ pc[a] = "listed"
    /\ found[a] /= {}
    /\ result' = [result EXCEPT ![a] = FALSE]
    /\ pc' = [pc EXCEPT ![a] = "done"]
    /\ UNCHANGED <<dirExists, entries, content, found, stable>>

\* delete_account_req of a listed request: delete_file of its path.
DeleteAccountReq(a) ==
    /\ pc[a] = "listed"
    /\ \E n \in found[a] :
           /\ entries' = [entries EXCEPT ![n] = "none"]
           /\ result' = [result EXCEPT ![a] = (entries[n] /= "none")]
           /\ stable' = [b \in Admins |-> stable[b] \ {n}]
    /\ pc' = [pc EXCEPT ![a] = "done"]
    /\ UNCHANGED <<dirExists, content, found>>

\* A user's account request is saved as a new file.
SaveRequest ==
    /\ dirExists
    /\ \E n \in Names \ DotNames :
           /\ entries[n] = "none"
           /\ entries' = [entries EXCEPT ![n] = "file"]
    /\ UNCHANGED <<dirExists, pc, content, found, result, stable>>

\* The steps of a listing in progress.
ListStep(a) == CheckDir(a) \/ Mkdir(a) \/ CheckEntry(a) \/ ListDone(a)

Next ==
    \/ SaveRequest
    \/ \E a \in Admins :
           \/ ListDir(a) \/ ListStep(a)
           \/ GetAccountReq(a) \/ AcceptAccountReq(a) \/ DeleteAccountReq(a)

Spec == Init /\ [][Next]_vars

-----------------------------------------------------------------------------
(***************************************************************************)
(* list_account_reqs finds all pending requests, as its docstring says:   *)
(* a listing that returned True holds every request file that stayed in  *)
(* the directory from its listdir to its return.                         *)
(***************************************************************************)
ListComplete ==
    \A a \in Admins :
        pc[a] = "listed" => stable[a] \ DotNames \subseteq found[a]

(***************************************************************************)
(* list_account_reqs answers (False, "account request setup is broken")   *)
(* only when user_pending is not there and cannot be made: a call whose  *)
(* listdir raised and whose mkdir failed finds no directory.  Two admin  *)
(* pages listing a missing directory at once both reach os.mkdir, and    *)
(* the slower one fails because the other has just created it.          *)
(***************************************************************************)
SetupBrokenOnlyWhenBroken ==
    \A a \in Admins : pc[a] = "broken" => ~dirExists

=============================================================================

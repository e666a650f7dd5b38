----------------------- MODULE AccountRequestsProofs ------------------------
(***************************************************************************)
(* Proofs about the admin calls on the pending account requests: the      *)
(* state stays well typed, and, when listdir works on an existing         *)
(* directory, every returned listing is complete.                         *)
(***************************************************************************)
EXTENDS AccountRequests, TLAPS

\* Without the directory there is no entry: user_pending is made empty.
NoDirNoEntries == ~dirExists => \A n \in Names : entries[n] = "none"

\* The requests a call tracks are all still request files.
StableAreRequests == \A a \in Admins : stable[a] \subseteq Requests

\* A listdir that failed found the directory missing, so nothing to track.
FailedTracksNothing ==
    \A a \in Admins : pc[a] \in {"failed", "mkdir"} => stable[a] = {}

\* During the loop a tracked request is found or still to be looked at.
ScanCovers ==
    \A a \in Admins :
        pc[a] = "entries" => stable[a] \ DotNames \subseteq found[a] \cup content[a]

IInv ==
    /\ TypeOK
    /\ NoDirNoEntries
    /\ StableAreRequests
    /\ FailedTracksNothing
    /\ ScanCovers
    /\ ListComplete

-----------------------------------------------------------------------------
LEMMA TypeInit == Init => TypeOK
  BY DEF Init, TypeOK

LEMMA TypeNext == TypeOK /\ [Next]_vars => TypeOK'
  <1> SUFFICES ASSUME TypeOK, [Next]_vars PROVE TypeOK'
    OBVIOUS
  <1>1. CASE SaveRequest
    BY <1>1 DEF SaveRequest, TypeOK, Kinds
  <1>2. ASSUME NEW a \in Admins, ListDir(a) PROVE TypeOK'
    BY <1>2 DEF ListDir, TypeOK, Requests
  <1>3. ASSUME NEW a \in Admins, CheckDir(a) PROVE TypeOK'
    BY <1>3 DEF CheckDir, TypeOK
  <1>4. ASSUME NEW a \in Admins, Mkdir(a) PROVE TypeOK'
    BY <1>4 DEF Mkdir, TypeOK
  <1>5. ASSUME NEW a \in Admins, CheckEntry(a) PROVE TypeOK'
    BY <1>5 DEF CheckEntry, TypeOK
  <1>6. ASSUME NEW a \in Admins, ListDone(a) PROVE TypeOK'
    BY <1>6 DEF ListDone, TypeOK
  <1>7. ASSUME NEW a \in Admins, GetAccountReq(a) PROVE TypeOK'
    BY <1>7 DEF GetAccountReq, TypeOK
  <1>8. ASSUME NEW a \in Admins, AcceptAccountReq(a) PROVE TypeOK'
    BY <1>8 DEF AcceptAccountReq, TypeOK
  <1>9. ASSUME NEW a \in Admins, DeleteAccountReq(a) PROVE TypeOK'
    BY <1>9 DEF DeleteAccountReq, TypeOK, Kinds
  <1>10. CASE UNCHANGED vars
    BY <1>10 DEF vars, TypeOK
  <1>11. QED
    BY <1>1, <1>2, <1>3, <1>4, <1>5, <1>6, <1>7, <1>8, <1>9, <1>10
       DEF Next, ListStep

(***************************************************************************)
(* Every reachable state of the admin calls, the users' saves and the     *)
(* directory is well typed, for any sets of admins and names.             *)
(***************************************************************************)
THEOREM TypeCorrect == Spec => []TypeOK
  BY TypeInit, TypeNext, PTL DEF Spec

-----------------------------------------------------------------------------
LEMMA IInvInit == Init => IInv
  BY TypeInit DEF Init, IInv, NoDirNoEntries, StableAreRequests,
     FailedTracksNothing, ScanCovers, ListComplete, Requests

\* The conjuncts other than the type, which every step below re-establishes.
Rest == NoDirNoEntries /\ StableAreRequests /\ FailedTracksNothing
        /\ ScanCovers /\ ListComplete

LEMMA IInvNext ==
  ASSUME Listable
  PROVE  IInv /\ [Next]_vars => IInv'
  <1> SUFFICES ASSUME IInv, [Next]_vars PROVE IInv'
    OBVIOUS
  <1>0. TypeOK'
    BY TypeNext DEF IInv
  <1> SUFFICES Rest'
    BY <1>0 DEF IInv, Rest
  <1> USE DEF IInv, TypeOK
  <1>1. CASE SaveRequest
    BY <1>1 DEF SaveRequest, Rest, NoDirNoEntries, StableAreRequests,
       FailedTracksNothing, ScanCovers, ListComplete, Requests
  <1>2. ASSUME NEW a \in Admins, ListDir(a) PROVE Rest'
    <2>1. dirExists = FALSE => Requests = {}
      BY DEF NoDirNoEntries, Requests
    <2>2. QED
      BY <1>2, <2>1, Listable DEF ListDir, Rest, NoDirNoEntries, StableAreRequests,
         FailedTracksNothing, ScanCovers, ListComplete, Requests
  <1>3. ASSUME NEW a \in Admins, CheckDir(a) PROVE Rest'
    BY <1>3 DEF CheckDir, Rest, NoDirNoEntries, StableAreRequests,
       FailedTracksNothing, ScanCovers, ListComplete, Requests
  <1>4. ASSUME NEW a \in Admins, Mkdir(a) PROVE Rest'
    BY <1>4 DEF Mkdir, Rest, NoDirNoEntries, StableAreRequests,
       FailedTracksNothing, ScanCovers, ListComplete, Requests
  <1>5. ASSUME NEW a \in Admins, CheckEntry(a) PROVE Rest'
    BY <1>5 DEF CheckEntry, Rest, NoDirNoEntries, StableAreRequests,
       FailedTracksNothing, ScanCovers, ListComplete, Requests
  <1>6. ASSUME NEW a \in Admins, ListDone(a) PROVE Rest'
    BY <1>6 DEF ListDone, Rest, NoDirNoEntries, StableAreRequests,
       FailedTracksNothing, ScanCovers, ListComplete, Requests
  <1>7. ASSUME NEW a \in Admins, GetAccountReq(a) PROVE Rest'
    BY <1>7 DEF GetAccountReq, Rest, NoDirNoEntries, StableAreRequests,
       FailedTracksNothing, ScanCovers, ListComplete, Requests
  <1>8. ASSUME NEW a \in Admins, AcceptAccountReq(a) PROVE Rest'
    BY <1>8 DEF AcceptAccountReq, Rest, NoDirNoEntries, StableAreRequests,
       FailedTracksNothing, ScanCovers, ListComplete, Requests
  <1>9. ASSUME NEW a \in Admins, DeleteAccountReq(a) PROVE Rest'
    BY <1>9 DEF DeleteAccountReq, Rest, NoDirNoEntries, StableAreRequests,
       FailedTracksNothing, ScanCovers, ListComplete, Requests
  <1>10. CASE UNCHANGED vars
    BY <1>10 DEF vars, Rest, NoDirNoEntries, StableAreRequests,
       FailedTracksNothing, ScanCovers, ListComplete, Requests
  <1>11. QED
    BY <1>1, <1>2, <1>3, <1>4, <1>5, <1>6, <1>7, <1>8, <1>9, <1>10
       DEF Next, ListStep

(***************************************************************************)
(* list_account_reqs is complete when listdir works on an existing        *)
(* directory: a call that returned True holds every request file that    *)
(* stayed in user_pending from its listdir to its return, whatever other *)
(* admins delete and users save in between, for any number of admins and *)
(* names.                                                                 *)
(***************************************************************************)
THEOREM ListCompleteness ==
  ASSUME Listable
  PROVE  Spec => []ListComplete
  <1>1. IInv => ListComplete
    BY DEF IInv
  <1>2. QED
    BY <1>1, IInvInit, IInvNext, PTL DEF Spec

=============================================================================

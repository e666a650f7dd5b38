----------------------- MODULE CredentialCheckAbstract -----------------------
(***************************************************************************)
(* What check_hash, check_digest and check_scramble promise a login       *)
(* handler, without their caches: a handler makes a call, and the call    *)
(* later answers, in one step, the verdict of the uncached check on it    *)
(* (the full verification against the stored credential the handler      *)
(* passed, and the policy gate of a strict call).                          *)
(***************************************************************************)
CONSTANTS
    Workers,    \* the login handlers
    Calls,      \* the calls a handler can make
    Accepts(_)  \* the verdict of the uncached check on a call

VARIABLES
    call,       \* the last call of each handler
    state,      \* "idle", "busy" while the call runs, "done" once answered
    verdict     \* the answer of the last call

vars == <<call, state, verdict>>

Init ==
    /\ call \in [Workers -> Calls]
    /\ state = [w \in Workers |-> "idle"]
    /\ verdict = [w \in Workers |-> FALSE]

\* A handler with no call running makes one.
Issue(w) ==
    /\ state[w] \in {"idle", "done"}
    /\ \E c \in Calls : call' = [call EXCEPT ![w] = c]
    /\ state' = [state EXCEPT ![w] = "busy"]
    /\ UNCHANGED verdict

\* The running call answers the uncached verdict.
Answer(w) ==
    /\ state[w] = "busy"
    /\ verdict' = [verdict EXCEPT ![w] = Accepts(call[w])]
    /\ state' = [state EXCEPT ![w] = "done"]
    /\ UNCHANGED call

Next == \E w \in Workers : Issue(w) \/ Answer(w)

Spec == Init /\ [][Next]_vars

=============================================================================

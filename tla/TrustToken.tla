----------------------------- MODULE TrustToken -----------------------------
(***************************************************************************)
(* make_csrf_token and make_csrf_trust_token of mig/shared/pwhash.py, and *)
(* the way a handler uses a trust token: it renders a link or form whose  *)
(* query arguments it already knows, with the trust token of those        *)
(* arguments; a later request carries arguments and the token back; the   *)
(* handler recomputes the token of what it got, skipping the token field, *)
(* and trusts the arguments when the two are equal.                       *)
(*                                                                         *)
(* Strings are sequences of one-character strings.  The arguments are a   *)
(* dict from keys to lists of values, as the query parser gives them.     *)
(* The order list(args) yields is a nondeterministic permutation of the   *)
(* keys, since it differs between the two dicts.                          *)
(***************************************************************************)
EXTENDS Integers, Sequences, SequencesExt, FiniteSets

CONSTANTS
    CharCode,     \* the code point of each character, for sorted()
    Keys,         \* the argument names
    Vals,         \* the argument values
    MaxVals,      \* the most values of one argument
    Operations,   \* the operations (script names)
    TrustField,   \* the argument the token itself travels in
    Method,       \* the method of the token
    ClientId,     \* the client_id of the token
    Limit         \* the limit of the token, as "%s" formats it

Str == Seq(DOMAIN CharCode)

ASSUME ConstantsAssumption ==
    /\ CharCode \in [DOMAIN CharCode -> Nat]
    /\ Keys \subseteq Str /\ Vals \subseteq Str /\ Operations \subseteq Str
    /\ MaxVals \in Nat \ {0} /\ Operations /= {}
    /\ TrustField \in Str /\ TrustField \notin Keys
    /\ {Method, ClientId, Limit} \subseteq Str

\* The dicts of query arguments over a set of names: the query parser
\* lists every value of a name that occurs, so no list is empty.
ArgDicts(names) ==
    UNION {[K -> BoundedSeq(Vals, MaxVals) \ {<<>>}] : K \in SUBSET names}

VARIABLES
    pc,        \* "idle", "issued", "sent", "checked"
    issued,    \* the operation and arguments the handler rendered
    token,     \* the trust token it rendered with them
    sent,      \* the operation and arguments of the later request
    accepted   \* whether the recomputed token equals the one sent

vars == <<pc, issued, token, sent, accepted>>

-----------------------------------------------------------------------------
\* Python's string order: by code point, a proper prefix first.
StrLess(s, t) ==
    \E k \in 0 .. Len(s) :
        /\ k <= Len(t)
        /\ SubSeq(s, 1, k) = SubSeq(t, 1, k)
        /\ \/ k = Len(s) /\ k < Len(t)
           \/ k < Len(s) /\ k < Len(t) /\ CharCode[s[k + 1]] < CharCode[t[k + 1]]

Sep(s) == <<"_">> \o s

\* "%s:%s:%s:%s" % (method, operation, client_id, limit).
Merged(method, operation, clientId, limit) ==
    method \o <<":">> \o operation \o <<":">> \o clientId \o <<":">> \o limit

\* make_csrf_token: sha256 of the XOR of the site salt with the hex value
\* of merged.  The XOR with a fixed salt and the hex conversions are
\* bijections and sha256 is taken as collision free, so the token is
\* recorded as the string it is computed from.
MakeCsrfToken(method, operation, clientId, limit) ==
    [sha256Of |-> Merged(method, operation, clientId, limit)]

\* Mutant: the keys in the order list(args) yields them.
CsrfOpUnsorted(operation, args, order, skip) ==
    LET Part(key) == IF key \in skip THEN <<>>
                     ELSE Sep(key) \o FlattenSeq([j \in DOMAIN args[key] |-> Sep(args[key][j])])
    IN  operation \o FlattenSeq([k \in DOMAIN order |-> Part(order[k])])

\* csrf_op: the operation, then for each key in sorted order that is not
\* skipped '_key' and '_val' for each of its values.  'order' is list(args).
CsrfOp(operation, args, order, skip) ==
    LET sortedKeys == IF DOMAIN args /= {} THEN SortSeq(order, StrLess) ELSE <<>>
        Part(key) == IF key \in skip THEN <<>>
                     ELSE Sep(key) \o FlattenSeq([j \in DOMAIN args[key] |-> Sep(args[key][j])])
    IN  operation \o FlattenSeq([k \in DOMAIN sortedKeys |-> Part(sortedKeys[k])])

MakeCsrfTrustToken(method, operation, args, order, clientId, limit, skip) ==
    MakeCsrfToken(method, CsrfOp(operation, args, order, skip), clientId, limit)

\* The arguments of a request without the token field.
WithoutToken(args) == [k \in DOMAIN args \ {TrustField} |-> args[k]]

TypeOK ==
    /\ pc \in {"idle", "issued", "sent", "checked"}
    /\ issued \in [op : Operations, args : ArgDicts(Keys)]
    /\ sent \in [op : Operations, args : ArgDicts(Keys \cup {TrustField})]
    /\ token \in [sha256Of : Str]
    /\ accepted \in BOOLEAN

Init ==
    /\ pc = "idle"
    /\ issued = [op |-> CHOOSE o \in Operations : TRUE, args |-> <<>>]
    /\ sent = issued
    /\ token = MakeCsrfToken(Method, <<>>, ClientId, Limit)
    /\ accepted = FALSE

\* The handler renders arguments it knows with their trust token.
Issue ==
    /\ pc = "idle"
    /\ \E op \in Operations, args \in ArgDicts(Keys) :
       \E order \in SetToSeqs(DOMAIN args) :
           /\ issued' = [op |-> op, args |-> args]
           /\ token' = MakeCsrfTrustToken(Method, op, args, order, ClientId, Limit, {})
    /\ pc' = "issued"
    /\ UNCHANGED <<sent, accepted>>

\* A request comes back with the token in its field and any operation and
\* arguments: the ones rendered, or ones a client changed.
Send ==
    /\ pc = "issued"
    /\ \E op \in Operations, args \in ArgDicts(Keys \cup {TrustField}) :
           /\ TrustField \in DOMAIN args
           /\ sent' = [op |-> op, args |-> args]
    /\ pc' = "sent"
    /\ UNCHANGED <<issued, token, accepted>>

\* The handler recomputes the token, skipping the token field.
Check ==
    /\ pc = "sent"
    /\ \E order \in SetToSeqs(DOMAIN sent.args) :
           accepted' = (MakeCsrfTrustToken(Method, sent.op, sent.args, order,
                                           ClientId, Limit, {TrustField}) = token)
    /\ pc' = "checked"
    /\ UNCHANGED <<issued, token, sent>>

Next == Issue \/ Send \/ Check

Spec == Init /\ [][Next]_vars

-----------------------------------------------------------------------------
\* The request carries back exactly what the handler rendered.
Untampered ==
    sent.op = issued.op /\ WithoutToken(sent.args) = issued.args

(***************************************************************************)
(* The trust token is a function of the argument dict's contents: a       *)
(* request that carries back the rendered operation and arguments, in     *)
(* whatever order its dict lists the keys and with the token field added, *)
(* is accepted (design 4.7: "two calls with the same map contents ...     *)
(* must yield the same token").                                            *)
(***************************************************************************)
TrustTokenDeterministic ==
    pc = "checked" /\ Untampered => accepted

=============================================================================

------------------------------ MODULE OrgEmail ------------------------------
(***************************************************************************)
(* forced_org_email_match of mig/shared/accountreq.py: the organizations  *)
(* DIKU, NBI, IMF, DTU and KU require an email address of their domains,  *)
(* and those domains require the matching organization.                   *)
(*                                                                         *)
(* An email is its local part (whether it is of [a-zA-Z0-9_.+-]+) and its *)
(* domain, a sequence of words and single characters: each domain of the  *)
(* model is written with the words the patterns use, so matching word by  *)
(* word is matching character by character.  A pattern is the set of its  *)
(* alternatives (only KU's has two), each a sequence of words and Any,    *)
(* the unescaped '.' of the source, which matches any one character.      *)
(* org.upper() is the table UpperCase on the organization names given.    *)
(***************************************************************************)
EXTENDS Integers, Sequences, FiniteSets

CONSTANTS
    Orgs,         \* the organization strings users enter
    UpperCase,    \* org.upper() on them
    Domains,      \* the email domains users enter
    SingleChars,  \* the words of Domains that are one character
    NL            \* the newline, which '$' also matches before

ASSUME OrgAssumption == UpperCase \in [Orgs -> STRING] /\ Orgs /= {}
ASSUME DomainsAssumption == NL \in SingleChars /\ "." \in SingleChars /\ Domains /= {}

Any == "<any character>"

\* force_org_email, in the source's priority order.
ForceOrgEmail ==
  << [org |-> "DIKU", pats |-> << {<<"diku", Any, "dk">>},
                                  {<<"di", Any, "ku", Any, "dk">>} >>],
     [org |-> "NBI",  pats |-> << {<<"nbi", Any, "ku", Any, "dk">>},
                                  {<<"nbi", Any, "dk">>},
                                  {<<"fys", Any, "ku", Any, "dk">>} >>],
     [org |-> "IMF",  pats |-> << {<<"math", Any, "ku", Any, "dk">>} >>],
     [org |-> "DTU",  pats |-> << {<<"dtu", Any, "dk">>} >>],
     [org |-> "KU",   pats |-> << {<<"alumni", Any, "ku", Any, "dk">>,
                                   <<"ku", Any, "dk">>} >>] >>

ForcedOrgs == {ForceOrgEmail[k].org : k \in DOMAIN ForceOrgEmail}

Emails == [localOK : BOOLEAN, domain : Domains]

VARIABLES org, email

vars == <<org, email>>

-----------------------------------------------------------------------------
\* One alternative against a domain, with 'dot' the set a '.' matches.
AltMatch(alt, d, dot) ==
    /\ Len(alt) = Len(d)
    /\ \A i \in DOMAIN alt : alt[i] = d[i] \/ (alt[i] = Any /\ d[i] \in dot)

\* re.match(forced_email, email): '^' anchors the local part, '$' the end
\* of the domain or the position before a final newline; '.' matches any
\* character but a newline.
ReMatch(p, e) ==
    /\ e.localOK
    /\ \E alt \in p :
           \/ AltMatch(alt, e.domain, SingleChars \ {NL})
           \/ /\ Len(e.domain) > 0 /\ e.domain[Len(e.domain)] = NL
              /\ AltMatch(alt, SubSeq(e.domain, 1, Len(e.domain) - 1), SingleChars \ {NL})

\* Mutant: org is compared as the user typed it.
OrgUpperMissing(o) == o

\* org, uppercased when it names a forced organization.
OrgUpper(o) == IF UpperCase[o] \in ForcedOrgs THEN UpperCase[o] ELSE o

\* The patterns of org k that match, and whether any does.
Hits(k, e) == {j \in DOMAIN ForceOrgEmail[k].pats : ReMatch(ForceOrgEmail[k].pats[j], e)}

\* The organization the outer loop breaks at: the first one with an email
\* hit, or the user's forced organization.
BreakAt(o, e) ==
    {k \in DOMAIN ForceOrgEmail :
        Hits(k, e) /= {} \/ (o \in ForcedOrgs /\ o = ForceOrgEmail[k].org)}

Least(S) == CHOOSE k \in S : \A j \in S : k <= j

\* email_hit: <<org index, pattern index>> of the first hit, or "__BOGUS__".
EmailHit(o, e) ==
    IF BreakAt(o, e) = {} \/ Hits(Least(BreakAt(o, e)), e) = {} THEN "__BOGUS__"
    ELSE <<Least(BreakAt(o, e)), Least(Hits(Least(BreakAt(o, e)), e))>>

\* force_org_email_dict.get(org, ['__BOGUS__']).
DictGet(o) ==
    IF o \in ForcedOrgs
    THEN UNION {{<<k, j>> : j \in DOMAIN ForceOrgEmail[k].pats} :
                    k \in {k \in DOMAIN ForceOrgEmail : ForceOrgEmail[k].org = o}}
    ELSE {"__BOGUS__"}

ForcedOrgEmailMatch(orgIn, e) ==
    LET o == OrgUpper(orgIn)
        isForcedOrg == o \in ForcedOrgs
        isForcedEmail == EmailHit(o, e) /= "__BOGUS__"
    IN  ~(isForcedOrg /= isForcedEmail \/ EmailHit(o, e) \notin DictGet(o))

Init == org \in Orgs /\ email \in Emails

\* The account request form is submitted with another organization.
EnterOrg == \E o \in Orgs : org' = o /\ UNCHANGED email

\* The account request form is submitted with another email.
EnterEmail == \E e \in Emails : email' = e /\ UNCHANGED org

Next == EnterOrg \/ EnterEmail

Spec == Init /\ [][Next]_vars

-----------------------------------------------------------------------------
(***************************************************************************)
(* Reference: the policy the comments describe, with the dots of the      *)
(* domains literal and the address ending at its last character.  The    *)
(* organization an email belongs to is the first one, in priority order,  *)
(* with one of its domains; a forced organization and such an email must  *)
(* go together, whatever the case of the organization.                   *)
(***************************************************************************)
OwnerOf(e) ==
    {k \in DOMAIN ForceOrgEmail :
        e.localOK /\ \E j \in DOMAIN ForceOrgEmail[k].pats :
            \E alt \in ForceOrgEmail[k].pats[j] : AltMatch(alt, e.domain, {"."})}

Intended(o, e) ==
    LET u == UpperCase[o]
    IN  IF OwnerOf(e) = {} THEN u \notin ForcedOrgs
        ELSE u = ForceOrgEmail[Least(OwnerOf(e))].org

\* Domains spelled with dots only between words and no newline.
PlainDomain(d) == \A i \in DOMAIN d : d[i] \in SingleChars => d[i] = "."

(***************************************************************************)
(* For every organization and every address whose domain has its dots   *)
(* where the words end, forced_org_email_match accepts exactly the       *)
(* combinations of the policy: the prioritised loop, its two breaks and  *)
(* the email_hit lookup give the reference's owner.                      *)
(***************************************************************************)
OrgEmailPolicyOnPlainDomains ==
    PlainDomain(email.domain) => ForcedOrgEmailMatch(org, email) = Intended(org, email)

(***************************************************************************)
(* The same for every address the form accepts: the check is what the    *)
(* policy comments say, for any domain a user may own.                   *)
(***************************************************************************)
OrgEmailPolicy == ForcedOrgEmailMatch(org, email) = Intended(org, email)

=============================================================================

CONSTANTS
    Orgs <- MCOrgs
    UpperCase <- MCUpperCase
    Domains <- MCDomains
    SingleChars <- MCSingleChars
    NL <- MCNL
SPECIFICATION Spec
INVARIANT OrgEmailPolicyOnPlainDomains

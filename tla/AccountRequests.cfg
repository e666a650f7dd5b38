CONSTANTS
    a1 = a1  a2 = a2  n1 = n1  n2 = n2  dot = dot
    Admins <- MCAdmins
    Names <- MCNames
    DotNames <- MCDotNames
    CanCreate = TRUE
    Listable = TRUE
SPECIFICATION Spec
INVARIANT ListComplete

CONSTANTS
    w1 = w1
    w2 = w2
    u1 = u1
    u2 = u2
    s1 = s1
    s2 = s2
    NoEntry = NoEntry
    Workers = {w1}
    Users = {u1, u2}
    Salts = {s1, s2}
    Passwords <- MCPasswords
    Conf <- MCConf
    Modes <- MCUniformModes
    Kinds <- MCAllKinds
SYMMETRY MCSymmetry
SPECIFICATION Spec
INVARIANT TypeOK
INVARIANT AcceptSound
INVARIANT PolicyOnAccept
PROPERTY CacheTransparent

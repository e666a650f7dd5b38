CONSTANTS
    Passwords <- MCPasswords
    Confs <- MCConfs
SPECIFICATION Spec
INVARIANT StrengthContract

CONSTANTS
    Confs <- MCConfs
    Tries = 1
    DrawChars <- MCDrawChars
SPECIFICATION Spec
INVARIANT TypeOK
INVARIANT GeneratorCanSucceedLongEnough
\* generate_random_password returns or raises: its final states are ends.
CHECK_DEADLOCK FALSE

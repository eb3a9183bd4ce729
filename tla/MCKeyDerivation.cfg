CONSTANTS
    l = l
    c = c
    s = s
    ci = ci
    si = si
    MD5Len = 2
    SHA1Len = 3
    MaxSecret = 3
    MaxOut = 7
    Label <- MCLabel
    SeedParts <- MCSeedParts
SPECIFICATION Spec
INVARIANTS
    TypeOK
    SplitAsRFC
    PrfMatchesRFC
CHECK_DEADLOCK FALSE

SPECIFICATION FairSpec
CONSTANTS
    c1 = c1
    c2 = c2
    c3 = c3
    Calls = {c1, c2, c3}
    Signed = {c3}
    Workers = 2
INVARIANT TypeOK
INVARIANT SecretMeansNoBet
PROPERTY RequestsEnd
CHECK_DEADLOCK FALSE

SPECIFICATION Spec
CONSTANTS
    Threads = {t1, t2}
    CtimeReadable = {TRUE, FALSE}
    MaxClock = 3
SYMMETRY ThreadSymmetry
INVARIANT TypeOK
INVARIANT GoneIsTruthful
INVARIANT FalseMeansDead
INVARIANT TrueMeansAlive
INVARIANT CheckedStrangerIsSafe
PROPERTY ChecksAreAtomic

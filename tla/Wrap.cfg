SPECIFICATION Spec
CONSTANTS
    Names = {disk}
    Keys = {sda, sda1}
    Fields = {1}
    Threads = {t1, t2}
    Filtered = {}
    Partitions = {}
    Removable = {sda1}
    Mutators = {t2}
    Busy = {sda1}
    Modulus = 2
    MaxTotal = 5
INVARIANT TypeOK
INVARIANT NeverDecreases
INVARIANT NeverOverReports
INVARIANT NoStaleReminder
PROPERTY SuccessiveRunsNeverDecrease

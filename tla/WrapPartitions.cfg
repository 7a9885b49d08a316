SPECIFICATION Spec
CONSTANTS
    Names = {disk}
    Keys = {sda, sda1}
    Fields = {1}
    Threads = {t1}
    Filtered = {disk}
    Partitions = {sda1}
    Removable = {}
    Mutators = {}
    Busy = {sda1}
    Modulus = 2
    MaxTotal = 3
INVARIANT NeverDecreases

\* Transactions, plain diffs and rollbacks over a file and a free path.
CONSTANTS
    a = a
    b = b
    Path <- MCPath
    InitDisk <- MCInitDisk
    Absent = Absent
    Dir = Dir
    None = None
    Torn = Torn
    MaxChanges = 2
    MaxOps = 2
    MaxFaults = 1
SPECIFICATION Spec
INVARIANT TypeOK
   
CHECK_DEADLOCK FALSE

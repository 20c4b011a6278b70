CONSTANTS
    s1 = s1
    s2 = s2
    s3 = s3
    here = here
    there = there
    p1 = p1
    p2 = p2
    a1 = a1
    Procs = {p1}
    AccessKeys = {a1}
    SessionKeys = {s1, s2, s3}
    Machines = {here, there}
    Here = here
    MachineOf <- MCMachineOf
    Absent = Absent
    Torn = Torn
SPECIFICATION LiveSpec
INVARIANTS
    WhoamiFindsItsLogin
PROPERTIES
    RejectedKeyOnly
    ImplementsOneLogin
    CommandsFinish

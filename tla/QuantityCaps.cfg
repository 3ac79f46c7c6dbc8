SPECIFICATION Spec
CONSTANTS
    Amounts = {0, 1, 4, 5, 2000, 2001, 4096, 4097, 20005, 20009, 20010}
    KibibyteAmounts = {0, 1, 1023, 1024, 4194304, 4194305, 4195327, 4195328}
INVARIANTS
    CpuCapped
    MemoryCapped

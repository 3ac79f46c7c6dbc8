SPECIFICATION Spec
CONSTANTS
    Amounts = {0, 1, 4, 5, 2000, 4096, 4097}
    KibibyteAmounts = {0, 4194304, 4195328}
INVARIANT TebibytesCapped

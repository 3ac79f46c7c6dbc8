---------------------------- MODULE QuantityCaps ----------------------------
(***************************************************************************)
(* The quantities an update_resources action may bring to the validator,   *)
(* and what its caps must mean.  A state is one pair of quantities; the    *)
(* steps go through all pairs over the given amounts.                      *)
(***************************************************************************)
EXTENDS ResourceLimits

CONSTANTS
    Amounts,           \* the numbers in front of the units
    KibibyteAmounts    \* the numbers in front of Ki

ASSUME AmountsAssumption == Amounts \subseteq Nat /\ KibibyteAmounts \subseteq Nat

VARIABLES cpu, memory

vars == <<cpu, memory>>

CpuInputs == [unit : CpuUnits, amount : Amounts]
MemoryInputs ==
    [unit : MemoryUnits \ {"Ki"}, amount : Amounts]
      \cup [unit : {"Ki"}, amount : KibibyteAmounts]

Init == cpu \in CpuInputs /\ memory \in MemoryInputs

NextCpu    == cpu' \in CpuInputs /\ UNCHANGED memory
NextMemory == memory' \in MemoryInputs /\ UNCHANGED cpu

Next == NextCpu \/ NextMemory

Spec == Init /\ [][Next]_vars

-----------------------------------------------------------------------------
\* The reference: quantities counted in units that lose nothing.
TenthsOfMillicores(q) == IF q.unit = "m" THEN q.amount * 10 ELSE q.amount

KiBPer == [Ki |-> 1, Mi |-> 1024, Gi |-> 1024 * 1024, Ti |-> 1024 * 1024 * 1024]

\* Less than one MiB above the cap, the most that cutting a fraction can hide.
AtMostCap(q) ==
    q.amount <= ((MaxMemoryMiB + 1) * 1024 - 1) \div KiBPer[q.unit]

\* A CPU value is accepted exactly if it is less than a millicore above
\* MAX_CPU_MILLICORES, in millicores as in fractional cores (_validate_cpu).
CpuCapped ==
    CpuAccepted(cpu) <=> /\ cpu.unit \in {"m", "cores"}
                         /\ TenthsOfMillicores(cpu) < 10 * (MaxCpuMillicores + 1)

\* A memory value in Ki, Mi or Gi is accepted exactly if it is less than a MiB
\* above MAX_MEMORY_MIB (_validate_memory).
MemoryCapped ==
    memory.unit \in BinarySuffixes => (MemoryAccepted(memory) <=> AtMostCap(memory))

\* app/validator.py:206: "handle Mi/Gi/Ki/Ti only".  Ti is not handled: its
\* number is taken for MiB, and the cap of 4 GiB lets 4096Ti pass.
TebibytesCapped ==
    memory.unit \in BinarySuffixes \cup {"Ti"} /\ MemoryAccepted(memory)
        => AtMostCap(memory)
=============================================================================

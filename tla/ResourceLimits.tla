--------------------------- MODULE ResourceLimits ---------------------------
(***************************************************************************)
(* The resource-limit checks of app/validator.py (_validate_cpu and        *)
(* _validate_memory): which CPU and memory quantities an update_resources  *)
(* action may carry.                                                       *)
(*                                                                         *)
(* A quantity is the number and the unit its literal spells.  The unit     *)
(* "malformed" stands for every literal the regular expressions refuse,    *)
(* "oversized" for the well-formed literals whose conversion raises: a     *)
(* number of cores beyond the float range ends in int(inf), a digit string *)
(* beyond Python's int limit in a ValueError.                              *)
(***************************************************************************)
EXTENDS Naturals

MaxCpuMillicores == 2000
MaxMemoryMiB     == 4096

CpuUnits == {"m", "cores", "malformed", "oversized"}

BinarySuffixes  == {"Ki", "Mi", "Gi"}
DecimalSuffixes == {"K", "M", "G", "T", "P"}
MemoryUnits == BinarySuffixes \cup DecimalSuffixes
                 \cup {"Ti", "Pi", "malformed", "oversized"}

\* "500m" is [unit |-> "m", amount |-> 500].  A fractional number of cores is
\* counted in ten-thousandths of a core: "1.5" is 15000.
CpuQuantity    == [unit : CpuUnits,    amount : Nat]
MemoryQuantity == [unit : MemoryUnits, amount : Nat]

-----------------------------------------------------------------------------
\* Mutant: the number of cores is rounded.
MillicoresRounded(cpu) ==
    IF cpu.unit = "m" THEN cpu.amount ELSE (cpu.amount + 5) \div 10

\* int(cpu[:-1]) or int(float(cpu) * 1000): the fraction of a millicore is cut.
Millicores(cpu) ==
    IF cpu.unit = "m" THEN cpu.amount ELSE cpu.amount \div 10

CpuRaises(cpu) == cpu.unit = "oversized"

CpuAccepted(cpu) ==
    /\ cpu.unit \in {"m", "cores"}
    /\ Millicores(cpu) <= MaxCpuMillicores

-----------------------------------------------------------------------------
\* Mutant: kibibytes and mebibytes are taken for thousands.
ApproxMB(memory) ==
    CASE memory.unit = "Gi" -> memory.amount * 1000
      [] memory.unit = "Ki" -> memory.amount \div 1000
      [] OTHER              -> memory.amount

\* The size the validator compares with the cap.  Only Gi, Mi and Ki are
\* converted; the number in front of every other suffix is taken for MiB.
ApproxMiB(memory) ==
    CASE memory.unit = "Gi" -> memory.amount * 1024
      [] memory.unit = "Ki" -> memory.amount \div 1024
      [] OTHER              -> memory.amount

MemoryRaises(memory) == memory.unit = "oversized"

MemoryAccepted(memory) ==
    /\ memory.unit \notin {"malformed", "oversized"}
    /\ ApproxMiB(memory) <= MaxMemoryMiB

-----------------------------------------------------------------------------
\* _validate_cpu(cpu) or _validate_memory(memory): the memory is looked at only
\* when the CPU value passed.
ResourcesAccepted(cpu, memory) == CpuAccepted(cpu) /\ MemoryAccepted(memory)
ResourcesRaise(cpu, memory) ==
    CpuRaises(cpu) \/ (CpuAccepted(cpu) /\ MemoryRaises(memory))
=============================================================================

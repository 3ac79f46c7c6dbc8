-------------------------- MODULE QuantityCapsProofs --------------------------
(***************************************************************************)
(* The caps hold for every quantity, not only for the amounts of a run.    *)
(***************************************************************************)
EXTENDS QuantityCaps, Integers, TLAPS

\* The quantities checked have a known unit and a natural amount.
QuantitiesTyped == cpu \in CpuQuantity /\ memory \in MemoryQuantity

\* The quantities of the first pair are well typed.
LEMMA InitQuantities == Init => QuantitiesTyped
  BY AmountsAssumption DEF Init, CpuInputs, MemoryInputs, QuantitiesTyped, CpuQuantity, MemoryQuantity,
         MemoryUnits, BinarySuffixes

\* So are those of every other pair.
LEMMA NextQuantities == QuantitiesTyped /\ [Next]_vars => QuantitiesTyped'
  BY AmountsAssumption
     DEF Next, NextCpu, NextMemory, vars, CpuInputs, MemoryInputs, QuantitiesTyped,
         CpuQuantity, MemoryQuantity, MemoryUnits, BinarySuffixes

\* Cutting the fraction of a millicore hides less than one millicore
\* (int(float(cpu) * 1000)).
LEMMA CpuCap ==
    ASSUME QuantitiesTyped
    PROVE  CpuCapped
<1>1. cpu.unit \in CpuUnits /\ cpu.amount \in Nat
  BY DEF QuantitiesTyped, CpuQuantity
<1>2. CASE cpu.unit = "m"
  BY <1>1, <1>2 DEF CpuCapped, CpuAccepted, Millicores, TenthsOfMillicores, MaxCpuMillicores
<1>3. CASE cpu.unit = "cores"
  BY <1>1, <1>3 DEF CpuCapped, CpuAccepted, Millicores, TenthsOfMillicores, MaxCpuMillicores
<1>4. CASE cpu.unit \notin {"m", "cores"}
  BY <1>4 DEF CpuCapped, CpuAccepted
<1>5. QED
  BY <1>2, <1>3, <1>4

\* Cutting the fraction of a MiB hides less than one MiB (int(...) // 1024).
LEMMA MemoryCap ==
    ASSUME QuantitiesTyped
    PROVE  MemoryCapped
<1>1. memory.amount \in Nat
  BY DEF QuantitiesTyped, MemoryQuantity
<1>2. CASE memory.unit = "Ki"
  <2>1. AtMostCap(memory) <=> memory.amount <= 4195327
    BY <1>1, <1>2 DEF AtMostCap, KiBPer, MaxMemoryMiB
  <2>2. MemoryAccepted(memory) <=> memory.amount \div 1024 <= 4096
    BY <1>1, <1>2 DEF MemoryAccepted, ApproxMiB, MaxMemoryMiB
  <2>3. QED
    BY <1>1, <2>1, <2>2 DEF MemoryCapped
<1>3. CASE memory.unit = "Mi"
  <2>1. AtMostCap(memory) <=> memory.amount <= 4096
    BY <1>1, <1>3 DEF AtMostCap, KiBPer, MaxMemoryMiB
  <2>2. MemoryAccepted(memory) <=> memory.amount <= 4096
    BY <1>1, <1>3 DEF MemoryAccepted, ApproxMiB, MaxMemoryMiB
  <2>3. QED
    BY <2>1, <2>2 DEF MemoryCapped
<1>4. CASE memory.unit = "Gi"
  <2>1. AtMostCap(memory) <=> memory.amount <= 4
    BY <1>1, <1>4 DEF AtMostCap, KiBPer, MaxMemoryMiB
  <2>2. MemoryAccepted(memory) <=> memory.amount * 1024 <= 4096
    BY <1>1, <1>4 DEF MemoryAccepted, ApproxMiB, MaxMemoryMiB
  <2>3. QED
    BY <1>1, <2>1, <2>2 DEF MemoryCapped
<1>5. QED
  BY <1>2, <1>3, <1>4 DEF MemoryCapped, BinarySuffixes

\* The CPU cap is kept, to within a millicore.
THEOREM CpuCapKept == Spec => []CpuCapped
  BY InitQuantities, NextQuantities, CpuCap, PTL DEF Spec

\* The memory cap is kept for the binary suffixes the code converts, to within
\* a MiB.
THEOREM MemoryCapKept == Spec => []MemoryCapped
  BY InitQuantities, NextQuantities, MemoryCap, PTL DEF Spec
=============================================================================

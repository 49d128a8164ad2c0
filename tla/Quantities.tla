----------------------------- MODULE Quantities -----------------------------
(***************************************************************************)
(* Amounts of CPU and memory as the program writes and reads them.  A      *)
(* quantity stands for the string with its digits in n, a fraction of one  *)
(* half behind them, and its unit; suffixes beyond the third are left out. *)
(* The radices are constants: 1024 and 1000 in the code, less for TLC.     *)
(***************************************************************************)
EXTENDS Integers, Sequences

CONSTANTS
    Bin,   \* of Ki, Mi and Gi
    Dec,   \* of K, M and G
    Core,  \* millicores of a core
    None   \* a quantity, or a struct of a spec, that is not given

ASSUME QuantitiesAssumption ==
    /\ Bin \in Nat /\ Dec \in Nat /\ 1 < Dec /\ Dec < Bin
    /\ Core \in Nat \ {0} /\ Core % 2 = 0

Quantity(n, half, unit) == [n |-> n, half |-> half, unit |-> unit]

Whole(n, unit) == Quantity(n, FALSE, unit)

\* Zero, too, stands for a number or a duration that is not given.
IsPositive(v) == v # None /\ v > 0

BinaryUnits == <<"Ki", "Mi", "Gi">>
DecimalUnits == <<"K", "M", "G">>

Power(base, i) == <<base, base * base, base * base * base>>[i]

Factor(unit) ==
    CASE unit = "" -> 1
      [] \E i \in 1..3 : BinaryUnits[i] = unit ->
             Power(Bin, CHOOSE i \in 1..3 : BinaryUnits[i] = unit)
      [] OTHER -> Power(Dec, CHOOSE i \in 1..3 : DecimalUnits[i] = unit)

\* What the API server takes a quantity for.
BytesOf(q) == q.n * Factor(q.unit) + (IF q.half THEN Factor(q.unit) \div 2 ELSE 0)

MillicoresOf(q) ==
    IF q.unit = "m" THEN q.n ELSE q.n * Core + (IF q.half THEN Core \div 2 ELSE 0)

-----------------------------------------------------------------------------
\* Writing, in the reconciler.

formatCPU(millicores) ==
    IF millicores >= Core /\ millicores % Core = 0
    THEN Whole(millicores \div Core, "")
    ELSE Whole(millicores, "m")

\* Gi only without a remainder; what is left of a Mi or a Ki is dropped.
formatMemory(bytes) ==
    LET In(unit) == Whole(bytes \div Factor(unit), unit) IN
    IF bytes >= Factor("Gi") /\ bytes % Factor("Gi") = 0 THEN In("Gi")
    ELSE IF bytes >= Factor("Mi") THEN In("Mi")
    ELSE IF bytes >= Factor("Ki") THEN In("Ki")
    ELSE In("")

HasChanges(rec) ==
    \/ rec.currentCPU # rec.recommendedCPU
    \/ rec.currentMemory # rec.recommendedMemory

-----------------------------------------------------------------------------
\* Reading a threshold, in the engine.  None is read as zero.

\* "%d" stops at the point: the fraction is lost, and one below a core is zero.
parseCPUToMillicores(q) == IF q.unit = "m" THEN q.n ELSE q.n * Core

\* The suffixes are tried in the order of a map, and "%dM" is content with
\* "128Mi": either is an answer.  With a fraction no suffix matches, and the
\* digits before the point are taken for bytes.
parseMemoryToBytes(q) ==
    IF q.half \/ q.unit = "" THEN {q.n}
    ELSE {q.n * Factor(q.unit)} \cup
         {q.n * Power(Dec, i) : i \in {j \in 1..3 : BinaryUnits[j] = q.unit}}

\* The same thresholds, in the resolver of the profiles, in megabytes.
parseMemoryToMegabytes(q) ==
    IF q.half THEN 0
    ELSE CASE q.unit = "Gi" -> q.n * Bin
           [] q.unit = "G" -> q.n * Dec
           [] q.unit \in {"Mi", "M"} -> q.n
           [] OTHER -> 0

\* And in the policies: a K is a Ki.
parseMemoryValue(q) ==
    LET unit == IF \E i \in 1..3 : DecimalUnits[i] = q.unit
                THEN BinaryUnits[CHOOSE i \in 1..3 : DecimalUnits[i] = q.unit]
                ELSE q.unit
    IN BytesOf([q EXCEPT !.unit = unit])

=============================================================================

---------------------------- MODULE MachineSizes -----------------------------
(***************************************************************************)
(* The numbers of a worker pool: how many machines each of its zones gets, *)
(* how a zone may surge while it is rolled, and what a machine type of the *)
(* cloud profile says of its machines.                                     *)
(***************************************************************************)
EXTENDS Naturals, FiniteSetsExt

\* A number of machines, or a percentage of them.
IntOrPercent == [percent : BOOLEAN, value : Nat]

\* The first zones get the remainder. Zones are counted from one here.
DistributeOverZones(k, size, zones) ==
  size \div zones + (IF k <= size % zones THEN 1 ELSE 0)

\* Mutant: rounded down.
CeilDiv_Down(a, b) == a \div b

CeilDiv(a, b) == (a + b - 1) \div b

\* The percentage weighted by the size of the zone. The code computes it with
\* binary fractions, and is one per cent higher where those round up.
DistributePercentOverZones(k, percent, zones, total) ==
  IF total % zones = 0 THEN percent
  ELSE CeilDiv(DistributeOverZones(k, total, zones) * zones * percent, total)

DistributePositiveIntOrPercent(k, n, zones, total) ==
  [n EXCEPT !.value = IF n.percent THEN DistributePercentOverZones(k, @, zones, total)
                                   ELSE DistributeOverZones(k, @, zones)]

\* A machine type: CPUs, memory in KiB, and the size of its disk in MiB, {} when
\* the type has no storage.
MachineType == [cpu : Nat, memory : Nat, storage : SUBSET Nat]

DiskInGB(type) == IF type.storage = {} THEN 20 ELSE Max(type.storage) \div 1024

\* extractMachineValues fails on a type of which no machine can be made: numbers
\* are cut to whole MiB and GiB first.
Usable(type) == type.cpu > 0 /\ type.memory \div 1024 > 0 /\ DiskInGB(type) >= 10
=============================================================================

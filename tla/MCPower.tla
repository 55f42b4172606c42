------------------------------ MODULE MCPower --------------------------------
(* Small instances of Power: budgets of a few ticks, in the code's order.   *)
EXTENDS Power

CONSTANTS u1, w1, v1, v2
MCUsers == {u1}
MCWorks == {w1}
MCVolumes == {v1, v2}
\* A machine with everything, one with the keyboard controller only, one
\* that can only be reset by a triple fault. Only the first runs from a disk.
MCMachines == {{"s5", "acpi_reset", "ps2", "boot_volume"}, {"ps2"}, {}}
=============================================================================

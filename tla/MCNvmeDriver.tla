---------------------------- MODULE MCNvmeDriver ----------------------------
(* The controller starts in every state that the firmware may leave it in. *)
(* I/O queues of three entries, two blocks, two contents: the queues wrap   *)
(* around, and each pass meets entries of both earlier phases.  Machines   *)
(* with two devices of two functions on a bus.                             *)
EXTENDS NvmeDriver, TLC

Function(class, bar, bits) ==
    [class_code |-> class, subclass |-> 8, prog_if |-> 2, bar |-> bar, command |-> bits]
Acpi2 == [guid |-> "ACPI 2.0", signature |-> "RSD PTR "]
Entry(group, first, final) == [pci_group |-> group, start_pci |-> first, end_pci |-> final]

(* Two groups; the functions of the first are a parameter.                 *)
With(functions) ==
    [config |-> <<[guid |-> "SMBIOS", signature |-> ""], [guid |-> "ACPI 2.0", signature |-> ""], Acpi2>>,
     xsdt |-> <<"FACP", "MCFG">>,
     entries |-> <<Entry(1, 1, 2), Entry(2, 0, 0)>>,
     functions |-> <<functions, 0 :> Function(1, 900, {})>>]

(* On bus 1 a device of another class and controllers as the second        *)
(* function of a device and on the next bus; a controller on a bus that    *)
(* the entry leaves out; and machines without the tables.                  *)
MCMachine ==
    LET several == 4 :> Function(2, 100, {}) @@ 7 :> Function(1, 200, {10}) @@ 8 :> Function(1, 300, {1})
    IN  {With(several), With(0 :> Function(1, 400, {}) @@ 4 :> Function(2, 100, {})),
         [With(several) EXCEPT !.config = <<[guid |-> "ACPI 1.0", signature |-> "RSD PTR "]>>],
         [With(several) EXCEPT !.xsdt = <<"FACP">>], [With(several) EXCEPT !.entries = <<>>]}
=============================================================================

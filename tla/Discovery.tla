----------------------------- MODULE Discovery ------------------------------
(***************************************************************************)
(* How kmain finds the NVMe controller: find_acpi of src/src/file/acpi.c   *)
(* looks for the MCFG table, which tells where the configuration space of  *)
(* the PCI functions is, and nvme_find of src/src/file/nvme.c scans it.    *)
(* Addresses are offsets in the configuration space; a command register is *)
(* the set of its bits.                                                    *)
(***************************************************************************)
EXTENDS Integers, Sequences, FiniteSetsExt

CONSTANTS
    Devices,     \* devices of a bus (32)
    Functions,   \* functions of a device (8)
    Machine      \* machines: config, the configuration table of the firmware;
                 \* xsdt, the tables that the RSDP leads to; entries, those of
                 \* the MCFG; functions, the PCI functions of a group by address

VARIABLES
    machine,
    search,      \* "acpi", "scan", "found", "absent" or "panic"
    at,          \* bus, device and function that the scan looks at
    base,        \* the bus address of the registers, 0 for none
    command      \* the command register of each function

discoveryVars == <<machine, search, at, base, command>>

(* Bus, device and function have bits of their own: 8, 5 and 3.            *)
pci_get_addr(bus, device, function) == (bus * Devices + device) * Functions + function

Group == machine.functions[machine.entries[1].pci_group]
IsNvme(f) == f.class_code = 1 /\ f.subclass = 8 /\ f.prog_if = 2

Init ==
    /\ machine \in Machine
    /\ search = "acpi" /\ at = <<0, 0, 0>> /\ base = 0
    /\ command = [g \in DOMAIN machine.functions |->
                    [a \in DOMAIN machine.functions[g] |-> machine.functions[g][a].command]]

(* The RSDP is that of the first ACPI 2.0 entry with its signature, and    *)
(* the MCFG the first table so signed.  nvme_find returns from within its  *)
(* loop over the entries of the MCFG, so it looks at the first one alone;  *)
(* with none it returns 0, over which kmain panics.                        *)
find_acpi ==
    /\ search = "acpi"
    /\ LET rsdp == \E k \in DOMAIN machine.config :
                      machine.config[k] = [guid |-> "ACPI 2.0", signature |-> "RSD PTR "]
           mcfg == \E k \in DOMAIN machine.xsdt : machine.xsdt[k] = "MCFG"
       IN  \/ /\ rsdp /\ mcfg /\ machine.entries # <<>>
              /\ search' = "scan"
              /\ at' = <<machine.entries[1].start_pci, 0, 0>>
           \/ /\ ~rsdp \/ ~mcfg \/ machine.entries = <<>>
              /\ search' = "panic"
              /\ UNCHANGED at
    /\ UNCHANGED <<machine, base, command>>

(* Faulty variant: only the first function of each device is looked at.    *)
Following_device(p) == IF p[2] + 1 < Devices THEN <<p[1], p[2] + 1, 0>> ELSE <<p[1] + 1, 0, 0>>

(* The three loops.                                                        *)
Following(p) ==
    IF p[3] + 1 < Functions THEN <<p[1], p[2], p[3] + 1>>
    ELSE IF p[2] + 1 < Devices THEN <<p[1], p[2] + 1, 0>>
    ELSE <<p[1] + 1, 0, 0>>

(* One function: nothing there (vendor 0xFFFF), another device, or an NVMe *)
(* controller, whose registers are found in its first two BARs, and which  *)
(* is made to accept accesses to them and to do DMA (bits 1 and 2; bit 10  *)
(* would disable its interrupts).                                          *)
Look ==
    LET a == pci_get_addr(at[1], at[2], at[3])
        g == machine.entries[1].pci_group
    IN  /\ search = "scan"
        /\ at[1] <= machine.entries[1].end_pci
        /\ \/ /\ a \in DOMAIN Group /\ IsNvme(Group[a])
              /\ base' = Group[a].bar
              /\ command' = [command EXCEPT ![g][a] = (@ \cup {1, 2}) \ {10}]
              /\ search' = "found"
              /\ UNCHANGED at
           \/ /\ ~(a \in DOMAIN Group /\ IsNvme(Group[a]))
              /\ at' = Following(at)
              /\ UNCHANGED <<base, command, search>>
        /\ UNCHANGED machine

(* No controller: nvme_find maps address 0 all the same and returns the    *)
(* pointer, so that kmain does not panic and nvme_init works on memory.    *)
NotFound ==
    /\ search = "scan"
    /\ at[1] > machine.entries[1].end_pci
    /\ search' = "absent"
    /\ UNCHANGED <<machine, at, base, command>>

nvme_find == Look \/ NotFound

Next == find_acpi \/ nvme_find

-----------------------------------------------------------------------------

(* The controllers on the buses that the first entry of the MCFG covers.   *)
Candidates ==
    IF machine.entries = <<>> THEN {}
    ELSE {a \in DOMAIN Group :
            /\ IsNvme(Group[a])
            /\ a \div (Devices * Functions) \in
                  machine.entries[1].start_pci..machine.entries[1].end_pci}

(* The scan takes the controller with the lowest address, whatever lies in *)
(* front of it (holes, devices of other classes, functions behind a hole), *)
(* makes it alone a bus master, and misses none: kmain goes on without a   *)
(* controller only if there is none on these buses.                        *)
FirstControllerTaken ==
    /\ search = "absent" => Candidates = {}
    /\ search = "found" =>
          /\ Candidates # {} /\ base = Group[Min(Candidates)].bar
          /\ \A g \in DOMAIN command : \A a \in DOMAIN command[g] :
                IF g = machine.entries[1].pci_group /\ a = Min(Candidates)
                THEN {1, 2} \subseteq command[g][a] /\ 10 \notin command[g][a]
                ELSE command[g][a] = machine.functions[g][a].command
=============================================================================

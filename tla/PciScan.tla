------------------------------ MODULE PciScan ------------------------------
(***************************************************************************)
(* The scan of the PCI buses (BusScanner and ScanAllBus of pci.cpp) and    *)
(* the table pci_devices that the commands lspci and xhci fill with it     *)
(* (command.cpp).  Scan, ScanDev and ScanFunc call each other; their       *)
(* activation records are the frames of stack.  Each frame is one Scan     *)
(* with the slot of its bus that it looks at next.                         *)
(***************************************************************************)
EXTENDS Naturals, Sequences

CONSTANTS
  kBuses,       (* 256 in the hardware                                      *)
  kDevs,        (* 32                                                       *)
  kFuncs,       (* 8                                                        *)
  Configs,      (* the configuration spaces considered                      *)
  MaxCommands   (* bound: how often a command is entered                    *)

Bus == 0 .. kBuses - 1
Dev == 0 .. kDevs - 1
Func == 0 .. kFuncs - 1
Location == Bus \X Dev \X Func

(* What the scan reads of one function: bit 7 of the header type, whether  *)
(* header and class are those of a PCI-PCI bridge, and the bus behind it.  *)
Header == [multi : BOOLEAN, bridge : BOOLEAN, secondary : Bus]

(* The firmware has numbered the buses: each bus lies behind at most one   *)
(* bridge, and has a higher number than the bus its bridge is on.          *)
Enumerated(c) ==
  \A f \in DOMAIN c : c[f].bridge =>
     /\ f[1] < c[f].secondary
     /\ \A g \in DOMAIN c :
          c[g].bridge /\ c[g].secondary = c[f].secondary => f = g

ASSUME PciScanAssumption ==
  /\ kBuses \in Nat \ {0} /\ kDevs \in Nat \ {0} /\ kFuncs \in Nat \ {0}
  /\ kFuncs <= kBuses
  /\ MaxCommands \in Nat
  /\ \A c \in Configs : /\ DOMAIN c \subseteq Location
                        /\ c \in [DOMAIN c -> Header]
                        /\ Enumerated(c)

VARIABLES
  config,       (* the configuration space, which nobody changes            *)
  pci_devices,  (* the functions reported; 32 entries in the code           *)
  stack,        (* the activations of Scan, the outermost first             *)
  host,         (* func of the loop in ScanAllBus                           *)
  pc,           (* "idle", or what ScanAllBus is doing                      *)
  commands      (* how many commands were entered                           *)

vars == <<config, pci_devices, stack, host, pc, commands>>

Present(f) == f \in DOMAIN config

(* A function that is absent reads as all ones.                            *)
IsSingleFunctionDevice(f) == Present(f) /\ ~config[f].multi

Frame(bus) == [bus |-> bus, dev |-> 0, func |-> 0]

Init ==
  /\ config \in Configs
  /\ pci_devices = <<>> /\ stack = <<>> /\ host = 0
  /\ pc = "idle" /\ commands = 0

(* Mutant: every command scans.                                            *)
CommandRescan ==
  /\ pc = "idle" /\ commands < MaxCommands
  /\ commands' = commands + 1
  /\ IF IsSingleFunctionDevice(<<0, 0, 0>>)
       THEN pc' = "single" /\ stack' = <<Frame(0)>>
       ELSE pc' = "hosts" /\ UNCHANGED stack
  /\ host' = 0
  /\ UNCHANGED <<config, pci_devices>>

(* Lspci or Xhci: they scan unless the table has entries.                  *)
Command ==
  /\ pc = "idle" /\ commands < MaxCommands
  /\ commands' = commands + 1
  /\ IF pci_devices # <<>> THEN UNCHANGED <<stack, host, pc>>
     ELSE /\ host' = 0
          /\ IF IsSingleFunctionDevice(<<0, 0, 0>>)
               THEN pc' = "single" /\ stack' = <<Frame(0)>>
               ELSE pc' = "hosts" /\ UNCHANGED stack
  /\ UNCHANGED <<config, pci_devices>>

(* The loop of ScanAllBus for a host bridge with several functions: it     *)
(* breaks at a function that is there and scans for one that is not.       *)
HostBreak ==
  /\ pc = "hosts" /\ stack = <<>>
  /\ host = kFuncs \/ Present(<<0, 0, host>>)
  /\ pc' = "idle"
  /\ UNCHANGED <<config, pci_devices, stack, host, commands>>

HostScan ==
  /\ pc = "hosts" /\ stack = <<>>
  /\ host < kFuncs /\ ~Present(<<0, 0, host>>)
  /\ stack' = <<Frame(host)>> /\ host' = host + 1
  /\ UNCHANGED <<config, pci_devices, pc, commands>>

Top == stack[Len(stack)]
Slot == <<Top.bus, Top.dev, Top.func>>
Scanning == stack # <<>> /\ Top.dev < kDevs

NextDev == [bus |-> Top.bus, dev |-> Top.dev + 1, func |-> 0]

(* Mutant: the loop over the functions runs once too often.                *)
NextSlotLate ==
  IF Top.func = 0 /\ (IsSingleFunctionDevice(Slot) \/ ~Present(Slot))
    THEN NextDev
    ELSE IF Top.func = kFuncs THEN NextDev ELSE [Top EXCEPT !.func = @ + 1]

(* Where the Scan on top goes on after its slot: functions 1 and up are    *)
(* for devices whose function 0 is there and has bit 7 of its header set.  *)
NextSlot ==
  IF \/ Top.func = 0 /\ (IsSingleFunctionDevice(Slot) \/ ~Present(Slot))
     \/ Top.func = kFuncs - 1
    THEN NextDev
    ELSE [Top EXCEPT !.func = @ + 1]

(* Mutant: a hole ends the loop over the functions of a device.            *)
SkipRest ==
  /\ Scanning /\ ~Present(Slot)
  /\ stack' = [stack EXCEPT ![Len(stack)] = NextDev]
  /\ UNCHANGED <<config, pci_devices, host, pc, commands>>

(* The vendor id read is 0xffff.                                           *)
Skip ==
  /\ Scanning /\ ~Present(Slot)
  /\ stack' = [stack EXCEPT ![Len(stack)] = NextSlot]
  /\ UNCHANGED <<config, pci_devices, host, pc, commands>>

(* Mutant: the scan follows the primary bus number of a bridge.            *)
ScanFuncPrimary ==
  /\ Scanning /\ Present(Slot)
  /\ pci_devices' = Append(pci_devices, Slot)
  /\ LET rest == [stack EXCEPT ![Len(stack)] = NextSlot]
     IN  stack' = IF config[Slot].bridge
                    THEN Append(rest, Frame(Top.bus)) ELSE rest
  /\ UNCHANGED <<config, host, pc, commands>>

(* ScanFunc: the callback stores the function, and the bus behind a bridge *)
(* is scanned before the next slot.                                        *)
ScanFunc ==
  /\ Scanning /\ Present(Slot)
  /\ pci_devices' = Append(pci_devices, Slot)
  /\ LET rest == [stack EXCEPT ![Len(stack)] = NextSlot]
     IN  stack' = IF config[Slot].bridge
                    THEN Append(rest, Frame(config[Slot].secondary)) ELSE rest
  /\ UNCHANGED <<config, host, pc, commands>>

(* Scan returns to the ScanFunc, or to the ScanAllBus, that called it.     *)
ScanReturn ==
  /\ stack # <<>> /\ Top.dev = kDevs
  /\ stack' = SubSeq(stack, 1, Len(stack) - 1)
  /\ pc' = IF Len(stack) = 1 /\ pc = "single" THEN "idle" ELSE pc
  /\ UNCHANGED <<config, pci_devices, host, commands>>

Scan == HostBreak \/ HostScan \/ Skip \/ ScanFunc \/ ScanReturn

Next == Command \/ Scan

Spec == Init /\ [][Next]_vars

-----------------------------------------------------------------------------
TypeOK ==
  /\ config \in [DOMAIN config -> Header] /\ DOMAIN config \subseteq Location
  /\ pci_devices \in Seq(Location)
  /\ stack \in Seq([bus : Bus, dev : 0 .. kDevs, func : Func])
  /\ host \in 0 .. kFuncs
  /\ pc \in {"idle", "single", "hosts"}
  /\ commands \in 0 .. MaxCommands

(* The recursion of Scan never comes back to a bus it is scanning, so it   *)
(* is never deeper than there are buses (pci.cpp 105-127, 134-140).        *)
StackBounded ==
  /\ \A j, k \in 1 .. Len(stack) : j < k => stack[j].bus < stack[k].bus
  /\ Len(stack) <= kBuses

(* What a scan from bus 0 should find.  A bus counts if it is in every set *)
(* that has bus 0 and, with a bus, the buses behind its bridges.           *)
Visible(f) == Present(f) /\ Present(<<f[1], f[2], 0>>)
                /\ (f[3] = 0 \/ config[<<f[1], f[2], 0>>].multi)
Closed(S) == /\ 0 \in S
             /\ \A f \in DOMAIN config : f[1] \in S /\ Visible(f)
                  /\ config[f].bridge => config[f].secondary \in S
Reachable ==
  {f \in DOMAIN config : Visible(f) /\ \A S \in SUBSET Bus : Closed(S) => f[1] \in S}

(* However many commands are entered, no function is in the table twice,   *)
(* if there is a host bridge (command.cpp 38-44, 150-156; pci.cpp 143-162).*)
ReportedOnce ==
  Present(<<0, 0, 0>>) =>
    \A j, k \in 1 .. Len(pci_devices) : pci_devices[j] = pci_devices[k] => j = k

(* After a command, the table has exactly the functions that bus 0 leads   *)
(* to, if the host bridge has a single function (pci.cpp 76-152).          *)
ScanComplete ==
  pc = "idle" /\ commands > 0 /\ IsSingleFunctionDevice(<<0, 0, 0>>) =>
    {pci_devices[k] : k \in 1 .. Len(pci_devices)} = Reachable
=============================================================================

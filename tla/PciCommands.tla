----------------------------- MODULE PciCommands -----------------------------
(***************************************************************************)
(* The commands lspci and xhci of command.cpp on the table that PciScan    *)
(* fills: the search for a device by its location or by its class, and the *)
(* walk of lspci along the capabilities of a device.  What lspci reads     *)
(* before the walk is only printed; the sizing of BAR 0 is in PciDevice.   *)
(* What xhci does with a controller that it has found is in XhciCommand;   *)
(* here it is one step at the end of it, which may never come.             *)
(***************************************************************************)
EXTENDS PciScan

CONSTANTS
  kWords,     (* the words of a configuration space: 64                     *)
  Pointers,   (* the values that capability pointers take                   *)
  Targets,    (* the locations typed after lspci                            *)
  Contents    (* what the functions of a configuration may hold             *)

Word == 0 .. kWords - 1
List == [first : Pointers, next : [Word -> Pointers]]

ASSUME PciCommandsAssumption ==
  /\ kWords \in Nat \ {0} /\ 0 \in Pointers /\ Pointers \subseteq 0 .. 4 * kWords - 1
  /\ DOMAIN Contents = Configs
  /\ \A c \in Configs : \A h \in Contents[c] :
       h.xhcis \subseteq DOMAIN c /\ h.caps \in [DOMAIN c -> List]

VARIABLES
  caps,      (* of each function, the capability pointer at 0x34 and, of    *)
             (* each word, the second byte                                  *)
  xhcis,     (* the functions of class 0c.03.30                             *)
  command,   (* "list", "show" (lspci with a location) or "xhci"            *)
  target,    (* the location                                                *)
  stage,     (* "idle", "table", "walk" (lspci) or "xhci", where the        *)
             (* command xhci works with its controller                       *)
  found,     (* the index in pci_devices, or 0                              *)
  cap_ptr,
  shown      (* history: the first kWords words printed as capabilities     *)

typed == <<command, target>>
walk == <<cap_ptr, shown>>
machine == <<caps, xhcis>>
commandVars == <<vars, machine, typed, stage, found, walk>>

CInit ==
  /\ Init
  /\ \E h \in Contents[config] : caps = h.caps /\ xhcis = h.xhcis
  /\ command = "list" /\ target = <<0, 0, 0>> /\ stage = "idle"
  /\ found = 0 /\ cap_ptr = 0 /\ shown = <<>>

-----------------------------------------------------------------------------
Enter ==
  /\ stage = "idle" /\ stage' = "table"
  /\ Command
  /\ command' \in {"list", "show", "xhci"} /\ target' \in Targets
  /\ command' # "show" => target' = target
  /\ found' = 0 /\ shown' = <<>>
  /\ UNCHANGED <<machine, cap_ptr>>

FillTable == Scan /\ UNCHANGED <<machine, typed, stage, found, walk>>

(* What the command looks for.                                             *)
Wanted == CASE command = "list" -> {}
            [] command = "show" -> {target}
            [] command = "xhci" -> xhcis

(* Mutant: the search begins at the second entry.                          *)
SearchFromSecond ==
  {i \in 2 .. Len(pci_devices) : pci_devices[i] \in Wanted}

Search == {i \in 1 .. Len(pci_devices) : pci_devices[i] \in Wanted}

(* The first entry that fits.                                              *)
Find ==
  /\ stage = "table" /\ pc = "idle"
  /\ IF Search = {}
       THEN found' = 0 /\ stage' = "idle" /\ UNCHANGED walk
       ELSE /\ found' \in Search /\ \A i \in Search : found' <= i
            /\ IF command = "show"
                 THEN /\ stage' = "walk"
                      /\ cap_ptr' = caps[target].first
                      /\ UNCHANGED shown
                 ELSE stage' = "xhci" /\ UNCHANGED walk
  /\ UNCHANGED <<vars, machine, typed>>

(* An address of the configuration space has no low two bits.              *)
WordOf(pointer) == pointer \div 4

(* Mutant: the loop ends before the last capability.                       *)
WalkEarly ==
  /\ stage = "walk"
  /\ IF cap_ptr = 0 \/ caps[target].next[WordOf(cap_ptr)] = 0
       THEN stage' = "idle" /\ UNCHANGED walk
       ELSE /\ cap_ptr' = caps[target].next[WordOf(cap_ptr)]
            /\ shown' = Append(shown, WordOf(cap_ptr))
            /\ UNCHANGED stage
  /\ UNCHANGED <<vars, machine, typed, found>>

(* Mutant: the pointer is not moved on.                                    *)
WalkStays ==
  /\ stage = "walk"
  /\ IF cap_ptr = 0 THEN stage' = "idle" ELSE UNCHANGED stage
  /\ UNCHANGED <<vars, machine, typed, found, walk>>

(* One round of the loop, which ends at a pointer of 0 and not at word 0.  *)
Walk ==
  /\ stage = "walk"
  /\ IF cap_ptr = 0
       THEN stage' = "idle" /\ UNCHANGED walk
       ELSE /\ cap_ptr' = caps[target].next[WordOf(cap_ptr)]
            /\ shown' = IF Len(shown) = kWords THEN shown
                        ELSE Append(shown, WordOf(cap_ptr))
            /\ UNCHANGED stage
  /\ UNCHANGED <<vars, machine, typed, found>>

(* What xhci does with the controller (XhciCommand) has come to its end.   *)
XhciReturn ==
  /\ stage = "xhci" /\ stage' = "idle"
  /\ UNCHANGED <<vars, machine, typed, found, walk>>

CNext == Enter \/ FillTable \/ Find \/ Walk \/ XhciReturn

(* Loops go on.  Nothing is asked of XhciReturn: the loops at command.cpp  *)
(* 222, 309 and 319 wait for the controller.                               *)
CSpec == CInit /\ [][CNext]_commandVars
               /\ WF_commandVars(FillTable \/ Find \/ Walk)

-----------------------------------------------------------------------------
(* A command finds a device exactly if bus 0 leads to one that it looks    *)
(* for, whichever command has filled the table, if the host bridge has a   *)
(* single function (command.cpp 36-44, 68-84, 150-174).                    *)
FindsReachable ==
  stage \in {"idle", "xhci"} /\ command # "list" /\ commands > 0
  /\ IsSingleFunctionDevice(<<0, 0, 0>>) =>
    /\ found # 0 <=> Wanted \cap Reachable # {}
    /\ found # 0 => pci_devices[found] \in Wanted

(* The words that pointers lead to from the first, and whether no part of  *)
(* them leads back to itself.                                              *)
Linked(l) ==
  {w \in Word : \A S \in SUBSET Word :
     (/\ l.first # 0 => WordOf(l.first) \in S
      /\ \A v \in S : l.next[v] # 0 => WordOf(l.next[v]) \in S) => w \in S}
Ends(l) ==
  \A S \in SUBSET Linked(l) \ {{}} :
     \E w \in S : l.next[w] = 0 \/ WordOf(l.next[w]) \notin S

(* Unless the list is a circle, lspci prints each capability once, and all *)
(* of them by the time it returns (command.cpp 109-129).                   *)
CapsShown ==
  command = "show" /\ found # 0 /\ Ends(caps[target]) =>
    /\ \A j, k \in 1 .. Len(shown) : shown[j] = shown[k] => j = k
    /\ stage = "idle" =>
         {shown[k] : k \in 1 .. Len(shown)} = Linked(caps[target])

(* On numbered buses the scan, the search and the walk come to an end,     *)
(* whatever the bridges: lspci returns, with a location if the device has  *)
(* no circle of capabilities, and xhci returns or goes on with the first   *)
(* controller of the table.  What it does then may wait for ever           *)
(* (command.cpp 36-44, 68-78, 109-129, 150-174).                           *)
SearchEnds ==
  (/\ stage \in {"table", "walk"}
   /\ command = "show" /\ Present(target) => Ends(caps[target]))
  ~> stage \in {"idle", "xhci"}
=============================================================================

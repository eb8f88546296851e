----------------------------- MODULE PciDevice -----------------------------
(***************************************************************************)
(* The base address registers (BARs) of one PCI device, and the functions  *)
(* of pci.cpp that read, write and size them.  A word is the set of the    *)
(* numbers of its bits that are 1: masks become set operations and the     *)
(* width stays a parameter.                                                *)
(***************************************************************************)
EXTENDS Naturals

CONSTANTS
  kWordBits,   (* 32                                                        *)
  kBars,       (* 6                                                         *)
  Layouts      (* the sets of BARs considered, see Layout                   *)

BarIndex == 0 .. kBars - 1
Bit == 0 .. kWordBits - 1
Bit64 == 0 .. 2 * kWordBits - 1

kSuccess == "kSuccess"
kIndexOutOfRange == "kIndexOutOfRange"

Kind == {"none", "mem32", "mem64", "upper", "io"}

(* What is behind each BAR: nothing, or a window of 2^size bytes of memory *)
(* with a 32 bit or a 64 bit address, or of I/O ports.  The upper half of  *)
(* a 64 bit address takes the next BAR.                                    *)
IsLayout(l) ==
  /\ l \in [BarIndex -> [kind : Kind, size : Bit64]]
  /\ \A i \in BarIndex :
       /\ l[i].kind \in {"mem32", "io"} => l[i].size \in Bit
       /\ l[i].kind \in {"mem32", "mem64"} => l[i].size >= 4
       /\ l[i].kind = "io" => l[i].size >= 2
       /\ l[i].kind = "mem64" =>
            /\ i + 1 \in BarIndex
            /\ l[i + 1].kind = "upper" /\ l[i + 1].size = l[i].size
       /\ l[i].kind = "upper" => i > 0 /\ l[i - 1].kind = "mem64"

ASSUME PciDeviceAssumption ==
  /\ kWordBits \in Nat /\ kWordBits > 4 /\ kBars \in Nat \ {0}
  /\ \A l \in Layouts : IsLayout(l)

VARIABLES
  layout,
  regs,    (* the BARs                                                      *)
  given,   (* history: what the firmware left in them                       *)
  pc,
  index,   (* CalcBarMapSize: its argument, and its variables               *)
  bar,
  bar_is_64bits,
  temp_bar,
  result

vars == <<layout, regs, given, pc, index, bar, bar_is_64bits, temp_bar, result>>

(* The device: the bits of BAR i that can be written, and those that are   *)
(* always 1: bit 0 says I/O ports, bit 2 a 64 bit address.                 *)
Writable(i) ==
  CASE layout[i].kind = "none"  -> {}
    [] layout[i].kind = "upper" -> {b \in Bit : b + kWordBits >= layout[i].size}
    [] OTHER                    -> {b \in Bit : b >= layout[i].size}
Fixed(i) ==
  CASE layout[i].kind = "mem64" -> {2}
    [] layout[i].kind = "io"    -> {0}
    [] OTHER                    -> {}

Stored(i, value) == (value \cap Writable(i)) \cup Fixed(i)

Low(value) == value \cap Bit
High(value) == {b \in Bit : b + kWordBits \in value}

(* The two halves of a 64 bit value, as ReadBar puts them together.        *)
Join(low, high) == low \cup {b + kWordBits : b \in high}

Init ==
  /\ layout \in Layouts
  /\ given \in [BarIndex -> SUBSET Bit]
  /\ \A i \in BarIndex : given[i] = Stored(i, given[i])
  /\ regs = given
  /\ pc = "idle" /\ index = 0 /\ bar = {} /\ bar_is_64bits = FALSE
  /\ temp_bar = {}
  /\ result = [value |-> {}, error |-> kIndexOutOfRange]

ReadBar(i) ==
  IF i >= kBars \/ (2 \in regs[i] /\ i >= kBars - 1)
    THEN [value |-> {}, error |-> kIndexOutOfRange]
    ELSE [value |-> IF 2 \in regs[i] THEN Join(regs[i], regs[i + 1]) ELSE regs[i],
          error |-> kSuccess]

WriteBar32(i, value) ==
  regs' = IF i >= kBars THEN regs ELSE [regs EXCEPT ![i] = Stored(i, value)]

(* Mutant: the upper half gets the lower half's value.                     *)
WriteBar64Low(i, value) ==
  regs' = IF i >= kBars - 1 THEN regs
          ELSE [regs EXCEPT ![i] = Stored(i, Low(value)),
                            ![i + 1] = Stored(i + 1, Low(value))]

WriteBar64(i, value) ==
  regs' = IF i >= kBars - 1 THEN regs
          ELSE [regs EXCEPT ![i] = Stored(i, Low(value)),
                            ![i + 1] = Stored(i + 1, High(value))]

WriteBar(i, value) ==
  IF bar_is_64bits THEN WriteBar64(i, value) ELSE WriteBar32(i, Low(value))

(* CalcBarMapSize(device, i), as far as its first ReadBar.                 *)
Call(i) ==
  /\ pc = "idle"
  /\ index' = i
  /\ IF ReadBar(i).error # kSuccess
       THEN /\ result' = [value |-> {}, error |-> ReadBar(i).error]
            /\ UNCHANGED <<bar, bar_is_64bits, pc>>
       ELSE /\ bar' = ReadBar(i).value
            /\ bar_is_64bits' = (2 \in ReadBar(i).value)
            /\ pc' = "read"
            /\ UNCHANGED result
  /\ UNCHANGED <<layout, regs, given, temp_bar>>

(* All ones are written, so that the bits of the device read as 1 ...      *)
WriteOnes ==
  /\ pc = "read" /\ pc' = "ones"
  /\ WriteBar(index, Bit64)
  /\ UNCHANGED <<layout, given, index, bar, bar_is_64bits, temp_bar, result>>

(* Mutant: the flag bits are not cleared.                                  *)
ReadBackFlags ==
  /\ pc = "ones" /\ pc' = "sized"
  /\ temp_bar' = ReadBar(index).value
  /\ UNCHANGED <<layout, regs, given, index, bar, bar_is_64bits, result>>

(* ... and read back, whether ReadBar succeeds or not.  ClearBits(, 0xf)   *)
(* drops the flags.                                                        *)
ReadBack ==
  /\ pc = "ones" /\ pc' = "sized"
  /\ temp_bar' = ReadBar(index).value \ (0 .. 3)
  /\ UNCHANGED <<layout, regs, given, index, bar, bar_is_64bits, result>>

(* 1 << BitScanForward(value): the lowest bit that is set, alone.  For 0   *)
(* there is none, and CalcBarMapSize returns 0 without asking.             *)
LowestBit(value) == {b \in value : \A c \in value : b <= c}

(* The BAR gets its value back, and the size is returned.                  *)
Restore ==
  /\ pc = "sized" /\ pc' = "idle"
  /\ WriteBar(index, bar)
  /\ result' = [value |-> LowestBit(temp_bar), error |-> kSuccess]
  /\ UNCHANGED <<layout, given, index, bar, bar_is_64bits, temp_bar>>

CalcBarMapSize == WriteOnes \/ ReadBack \/ Restore

Next == (\E i \in 0 .. kBars : Call(i)) \/ CalcBarMapSize

Spec == Init /\ [][Next]_vars

-----------------------------------------------------------------------------
Result == [value : SUBSET Bit64, error : {kSuccess, kIndexOutOfRange}]

TypeOK ==
  /\ layout \in Layouts
  /\ regs \in [BarIndex -> SUBSET Bit] /\ given \in [BarIndex -> SUBSET Bit]
  /\ pc \in {"idle", "read", "ones", "sized"}
  /\ index \in 0 .. kBars
  /\ bar \in SUBSET Bit64 /\ bar_is_64bits \in BOOLEAN
  /\ temp_bar \in SUBSET Bit64
  /\ result \in Result

(* CalcBarMapSize always gives the BARs their values back, on its error    *)
(* paths too; while it works on a BAR of memory, it disturbs no BAR but    *)
(* the one, or the pair, that it sizes (pci.cpp 183-263).                  *)
IsMemory(i) == i \in BarIndex /\ layout[i].kind \in {"mem32", "mem64"}
Own(i) == IF layout[i].kind = "mem64" THEN {i, i + 1} ELSE {i}
BarsKept ==
  \A r \in BarIndex : regs[r] # given[r] =>
    pc \in {"ones", "sized"} /\ (IsMemory(index) => r \in Own(index))

(* What it returns is the size of the window: for memory of any size, and  *)
(* for I/O ports if there are at least 16 of them; 0 where there is        *)
(* nothing, and for an index that is out of range (pci.cpp 235-263).       *)
Size(i) ==
  CASE i \notin BarIndex        -> {}
    [] layout[i].kind = "none"  -> {}
    [] OTHER                    -> {layout[i].size}
Sizable(i) ==
  i \in BarIndex => \/ IsMemory(i) \/ layout[i].kind = "none"
                    \/ layout[i].kind = "io" /\ layout[i].size >= 4
SizeRight ==
  pc = "idle" /\ result.error = kSuccess /\ Sizable(index) =>
    result.value = Size(index)
=============================================================================

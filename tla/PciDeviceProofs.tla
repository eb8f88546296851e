-------------------------- MODULE PciDeviceProofs --------------------------
(* The type invariant of PciDevice, and that sizing gives every BAR its    *)
(* value back, for words of any width and any set of BARs.                 *)
EXTENDS PciDevice, TLAPS

Stable(i, value) == value = Stored(i, value)

(* Between ReadBar and Restore, bar holds what the firmware left.          *)
Saved ==
  pc # "idle" =>
    /\ index \in BarIndex
    /\ IF bar_is_64bits
         THEN index + 1 \in BarIndex /\ bar = Join(given[index], given[index + 1])
         ELSE bar = given[index]
    /\ bar_is_64bits <=> 2 \in given[index]

Held(r) == pc \in {"ones", "sized"}
             /\ (r = index \/ (bar_is_64bits /\ r = index + 1))

Inv ==
  /\ TypeOK
  /\ \A i \in BarIndex : Stable(i, given[i])
  /\ Saved
  /\ \A r \in BarIndex : regs[r] # given[r] => Held(r)

LEMMA StoredType ==
  ASSUME TypeOK, NEW i \in BarIndex, NEW value
  PROVE  Stored(i, value) \in SUBSET Bit
<1>1. Writable(i) \subseteq Bit
  BY DEF Writable
<1>2. 0 \in Bit /\ 2 \in Bit
  BY PciDeviceAssumption DEF Bit
<1>3. Fixed(i) \subseteq Bit
  BY <1>2 DEF Fixed
<1> QED
  BY <1>1, <1>3 DEF Stored

(* Taking a 64 bit value apart undoes putting it together.                 *)
LEMMA JoinSplit ==
  ASSUME NEW low \in SUBSET Bit, NEW high \in SUBSET Bit
  PROVE  /\ Low(Join(low, high)) = low /\ High(Join(low, high)) = high
         /\ Join(low, high) \in SUBSET Bit64
         /\ 2 \in Join(low, high) <=> 2 \in low
<1> USE PciDeviceAssumption
<1>1. \A b \in Bit : b \in Nat /\ b + kWordBits \notin Bit /\ b + kWordBits \in Bit64
  BY DEF Bit, Bit64
<1>2. Bit \subseteq Bit64
  BY DEF Bit, Bit64
<1>3. \A b, c \in Bit : b + kWordBits = c + kWordBits => b = c
  BY DEF Bit
<1>4. Low(Join(low, high)) = low
  BY <1>1 DEF Low, Join
<1>5. High(Join(low, high)) = high
  BY <1>1, <1>3 DEF High, Join
<1>6. Join(low, high) \in SUBSET Bit64
  BY <1>1, <1>2 DEF Join
<1>7. 2 \in Bit
  BY DEF Bit
<1> QED
  BY <1>1, <1>4, <1>5, <1>6, <1>7 DEF Join

LEMMA LowOfWord ==
  ASSUME NEW value \in SUBSET Bit
  PROVE  Low(value) = value /\ value \in SUBSET Bit64
<1>1. Bit \subseteq Bit64
  BY PciDeviceAssumption DEF Bit, Bit64
<1> QED
  BY <1>1 DEF Low

LEMMA ReadBarType ==
  ASSUME TypeOK, NEW i \in 0 .. kBars
  PROVE  ReadBar(i).value \in SUBSET Bit64
<1>1. CASE i >= kBars \/ (2 \in regs[i] /\ i >= kBars - 1)
  BY <1>1 DEF ReadBar
<1>2. CASE ~(i >= kBars \/ (2 \in regs[i] /\ i >= kBars - 1))
  <2>1. i \in BarIndex /\ regs[i] \in SUBSET Bit
    BY <1>2, PciDeviceAssumption DEF TypeOK, BarIndex
  <2>2. 2 \in regs[i] => i + 1 \in BarIndex /\ regs[i + 1] \in SUBSET Bit
    BY <1>2, PciDeviceAssumption DEF TypeOK, BarIndex
  <2> QED
    BY <1>2, <2>1, <2>2, JoinSplit, LowOfWord DEF ReadBar
<1> QED
  BY <1>1, <1>2

(* WriteBar touches one register, or for a 64 bit address two.             *)
LEMMA WriteBarEffect ==
  ASSUME TypeOK, index \in BarIndex, bar_is_64bits => index + 1 \in BarIndex,
         NEW value, WriteBar(index, value)
  PROVE  /\ regs' \in [BarIndex -> SUBSET Bit]
         /\ regs'[index] = Stored(index, Low(value))
         /\ bar_is_64bits => regs'[index + 1] = Stored(index + 1, High(value))
         /\ \A r \in BarIndex :
              r # index /\ ~(bar_is_64bits /\ r = index + 1) => regs'[r] = regs[r]
<1> USE PciDeviceAssumption
<1>1. regs \in [BarIndex -> SUBSET Bit]
  BY DEF TypeOK
<1>2. CASE bar_is_64bits
  <2>1. index + 1 \in BarIndex /\ ~(index >= kBars - 1) /\ index + 1 # index
    BY <1>2 DEF BarIndex
  <2>2. regs' = [regs EXCEPT ![index] = Stored(index, Low(value)),
                             ![index + 1] = Stored(index + 1, High(value))]
    BY <1>2, <2>1 DEF WriteBar, WriteBar64
  <2> QED
    BY <1>1, <1>2, <2>1, <2>2, StoredType
<1>3. CASE ~bar_is_64bits
  <2>1. ~(index >= kBars)
    BY DEF BarIndex
  <2>2. regs' = [regs EXCEPT ![index] = Stored(index, Low(value))]
    BY <1>3, <2>1 DEF WriteBar, WriteBar32
  <2> QED
    BY <1>1, <1>3, <2>2, StoredType
<1> QED
  BY <1>2, <1>3

LEMMA InvInit == Init => Inv
<1> SUFFICES ASSUME Init PROVE Inv
  OBVIOUS
<1>1. 0 \in 0 .. kBars
  BY PciDeviceAssumption
<1>2. result \in Result
  BY DEF Init, Result
<1>3. TypeOK
  BY <1>1, <1>2 DEF Init, TypeOK
<1> QED
  BY <1>3 DEF Init, Inv, Stable, Saved

LEMMA InvCall == ASSUME Inv, NEW i \in 0 .. kBars, Call(i) PROVE Inv'
<1> USE PciDeviceAssumption
<1>0. TypeOK /\ pc = "idle"
  BY DEF Inv, Call
<1>1. \A r \in BarIndex : regs[r] = given[r]
  BY <1>0 DEF Inv, Held
<1>2. CASE ReadBar(i).error # kSuccess
  <2>1. ReadBar(i).error \in {kSuccess, kIndexOutOfRange}
    BY DEF ReadBar
  <2>2. TypeOK'
    BY <1>0, <1>2, <2>1 DEF Call, TypeOK, Result
  <2> QED
    BY <1>0, <1>1, <1>2, <2>2 DEF Call, Inv, Stable, Stored, Writable, Fixed, Saved, Held
<1>3. CASE ReadBar(i).error = kSuccess
  <2>1. ~(i >= kBars \/ (2 \in regs[i] /\ i >= kBars - 1))
    BY <1>3 DEF ReadBar, kSuccess, kIndexOutOfRange
  <2>2. i \in BarIndex /\ regs[i] = given[i] /\ given[i] \in SUBSET Bit
    BY <1>0, <1>1, <2>1 DEF BarIndex, TypeOK
  <2>3. 2 \in regs[i] => /\ i + 1 \in BarIndex /\ regs[i + 1] = given[i + 1]
                         /\ given[i + 1] \in SUBSET Bit
    BY <1>0, <1>1, <2>1, <2>2 DEF BarIndex, TypeOK
  <2>4. /\ 2 \in regs[i] => ReadBar(i).value = Join(given[i], given[i + 1])
        /\ 2 \notin regs[i] => ReadBar(i).value = given[i]
    BY <2>1, <2>2, <2>3 DEF ReadBar
  <2>5. 2 \in ReadBar(i).value <=> 2 \in given[i]
    BY <2>2, <2>3, <2>4, JoinSplit
  <2>6. /\ index' = i /\ bar' = ReadBar(i).value /\ pc' = "read"
        /\ bar_is_64bits' = (2 \in ReadBar(i).value)
        /\ UNCHANGED <<layout, regs, given, temp_bar, result>>
    BY <1>3 DEF Call
  <2>7. TypeOK'
    BY <1>0, <2>6, ReadBarType DEF TypeOK
  <2>8. Saved'
    BY <2>2, <2>3, <2>4, <2>5, <2>6 DEF Saved
  <2> QED
    BY <1>1, <2>6, <2>7, <2>8 DEF Inv, Stable, Stored, Writable, Fixed
<1> QED
  BY <1>2, <1>3

LEMMA InvNext == Inv /\ [Next]_vars => Inv'
<1> SUFFICES ASSUME Inv, [Next]_vars PROVE Inv'
  OBVIOUS
<1> USE PciDeviceAssumption
<1>0. TypeOK /\ \A i \in BarIndex : Stable(i, given[i])
  BY DEF Inv
<1>1. ASSUME NEW i \in 0 .. kBars, Call(i) PROVE Inv'
  BY <1>1, InvCall
<1>2. CASE WriteOnes
  <2>1. index \in BarIndex /\ (bar_is_64bits => index + 1 \in BarIndex)
    BY <1>2 DEF Inv, Saved, WriteOnes
  <2>2. /\ regs' \in [BarIndex -> SUBSET Bit]
        /\ \A r \in BarIndex :
             r # index /\ ~(bar_is_64bits /\ r = index + 1) => regs'[r] = regs[r]
    BY <1>0, <1>2, <2>1, WriteBarEffect DEF WriteOnes
  <2>3. TypeOK'
    BY <1>0, <1>2, <2>2 DEF TypeOK, WriteOnes
  <2>4. \A r \in BarIndex : regs[r] = given[r]
    BY <1>2 DEF Inv, Held, WriteOnes
  <2> QED
    BY <1>2, <2>2, <2>3, <2>4
       DEF Inv, WriteOnes, Stable, Stored, Writable, Fixed, Saved, Held
<1>3. CASE ReadBack
  <2>1. ReadBar(index).value \in SUBSET Bit64
    BY <1>0, ReadBarType DEF TypeOK
  <2>2. TypeOK'
    BY <1>0, <1>3, <2>1 DEF TypeOK, ReadBack
  <2> QED
    BY <1>3, <2>2 DEF Inv, ReadBack, Stable, Stored, Writable, Fixed, Saved, Held
<1>4. CASE Restore
  <2>1. /\ index \in BarIndex
        /\ IF bar_is_64bits
             THEN index + 1 \in BarIndex /\ bar = Join(given[index], given[index + 1])
             ELSE bar = given[index]
    BY <1>4 DEF Inv, Saved, Restore
  <2>2. given[index] \in SUBSET Bit
        /\ (bar_is_64bits => given[index + 1] \in SUBSET Bit)
    BY <1>0, <2>1 DEF TypeOK
  <2>3. /\ regs' \in [BarIndex -> SUBSET Bit]
        /\ regs'[index] = Stored(index, Low(bar))
        /\ bar_is_64bits => regs'[index + 1] = Stored(index + 1, High(bar))
        /\ \A r \in BarIndex :
             r # index /\ ~(bar_is_64bits /\ r = index + 1) => regs'[r] = regs[r]
    BY <1>0, <1>4, <2>1, WriteBarEffect DEF Restore
  <2>4. regs'[index] = given[index]
    BY <1>0, <2>1, <2>2, <2>3, JoinSplit, LowOfWord DEF Stable
  <2>5. bar_is_64bits => regs'[index + 1] = given[index + 1]
    BY <1>0, <2>1, <2>2, <2>3, JoinSplit DEF Stable
  <2>6. \A r \in BarIndex : regs'[r] = given[r]
    BY <2>1, <2>3, <2>4, <2>5 DEF Inv, Held
  <2>7. result' \in Result
    BY <1>0, <1>4 DEF Restore, Result, LowestBit, TypeOK
  <2>8. TypeOK'
    BY <1>0, <1>4, <2>3, <2>7 DEF Restore, TypeOK
  <2> QED
    BY <1>4, <2>6, <2>8 DEF Inv, Restore, Stable, Stored, Writable, Fixed, Saved, Held
<1>5. CASE UNCHANGED vars
  BY <1>5 DEF vars, Inv, TypeOK, Stable, Stored, Writable, Fixed, Saved, Held
<1> QED
  BY <1>1, <1>2, <1>3, <1>4, <1>5 DEF Next, CalcBarMapSize

LEMMA InvBarsKept == Inv => BarsKept
<1> SUFFICES ASSUME Inv, NEW r \in BarIndex, regs[r] # given[r]
             PROVE  /\ pc \in {"ones", "sized"}
                    /\ IsMemory(index) => r \in Own(index)
  BY DEF BarsKept
<1>1. Held(r) /\ TypeOK
  BY DEF Inv
<1>2. index \in BarIndex /\ (bar_is_64bits <=> 2 \in given[index])
  BY <1>1 DEF Held, Inv, Saved
<1>3. ASSUME IsMemory(index), bar_is_64bits
      PROVE  layout[index].kind = "mem64"
  <2>1. given[index] = (given[index] \cap Writable(index)) \cup Fixed(index)
    BY <1>2 DEF Inv, Stable, Stored
  <2>2. CASE layout[index].kind = "mem32"
    <3>1. layout[index].size >= 4 /\ layout[index].size \in Bit
      BY <1>1, <1>2, <2>2, PciDeviceAssumption DEF TypeOK, IsLayout
    <3>2. Fixed(index) = {} /\ Writable(index) = {b \in Bit : b >= layout[index].size}
      BY <2>2 DEF Fixed, Writable
    <3>3. 2 \notin Writable(index)
      BY <3>1, <3>2, PciDeviceAssumption DEF Bit
    <3> QED
      BY <1>2, <1>3, <2>1, <3>2, <3>3
  <2> QED
    BY <1>3, <2>2 DEF IsMemory
<1> QED
  BY <1>1, <1>3 DEF Held, Own

(* The bits of a BAR, or pair of BARs, that tell the size of its window.   *)
SizeBits(i) ==
  IF layout[i].kind = "none" THEN {}
  ELSE {b \in IF layout[i].kind = "mem64" THEN Bit64 ELSE Bit : b >= layout[i].size}

(* What all ones leave in the BAR, and what is made of it.                 *)
Written ==
  pc = "ones" => /\ regs[index] = Stored(index, Bit)
                 /\ bar_is_64bits => regs[index + 1] = Stored(index + 1, Bit)
Measured == pc = "sized" /\ Sizable(index) => temp_bar = SizeBits(index)

SizeInv == Written /\ Measured /\ SizeRight

LEMMA WindowOfWord ==
  ASSUME Inv, NEW i \in BarIndex, Sizable(i), layout[i].kind \in {"mem32", "io"}
  PROVE  layout[i].size \in Bit /\ layout[i].size \in Nat /\ layout[i].size >= 4
<1>1. IsLayout(layout)
  BY PciDeviceAssumption DEF Inv, TypeOK
<1>2. layout[i].size \in Bit
  BY <1>1 DEF IsLayout
<1>3. layout[i].kind = "mem32" => layout[i].size >= 4
  BY <1>1 DEF IsLayout
<1>4. layout[i].kind = "io" => layout[i].size >= 4
  BY DEF Sizable, IsMemory
<1> QED
  BY <1>2, <1>3, <1>4 DEF Bit

(* The flag at bit 2 of what the firmware left tells the kind.             *)
LEMMA FlagTellsKind ==
  ASSUME Inv, index \in BarIndex, Sizable(index)
  PROVE  2 \in given[index] <=> layout[index].kind = "mem64"
<1>1. given[index] = (given[index] \cap Writable(index)) \cup Fixed(index)
  BY DEF Inv, Stable, Stored
<1>2. IsLayout(layout)
  BY PciDeviceAssumption DEF Inv, TypeOK
<1>3. CASE layout[index].kind = "none"
  BY <1>1, <1>3 DEF Writable, Fixed
<1>4. CASE layout[index].kind = "mem64"
  BY <1>1, <1>4 DEF Fixed
<1>5. CASE layout[index].kind \in {"mem32", "io"}
  <2>1. layout[index].size \in Nat /\ layout[index].size >= 4
    BY <1>5, WindowOfWord
  <2>2. Writable(index) = {b \in Bit : b >= layout[index].size} /\ 2 \notin Fixed(index)
    BY <1>5 DEF Writable, Fixed
  <2>3. 2 \notin Writable(index)
    BY <2>1, <2>2
  <2> QED
    BY <1>1, <1>5, <2>2, <2>3
<1> QED
  BY <1>3, <1>4, <1>5 DEF Sizable, IsMemory

(* Reading the ones back gives the bits from the size on.                  *)
LEMMA OnesTellSize ==
  ASSUME Inv, Written, pc = "ones", Sizable(index)
  PROVE  ReadBar(index).value \ (0 .. 3) = SizeBits(index)
<1> USE PciDeviceAssumption
<1>1. /\ index \in BarIndex /\ index \in Nat
      /\ bar_is_64bits <=> 2 \in given[index]
      /\ bar_is_64bits => index + 1 \in BarIndex
      /\ regs[index] = Stored(index, Bit)
      /\ bar_is_64bits => regs[index + 1] = Stored(index + 1, Bit)
  BY DEF Inv, Saved, Written, BarIndex
<1>2. bar_is_64bits <=> layout[index].kind = "mem64"
  BY <1>1, FlagTellsKind
<1>3. IsLayout(layout)
  BY DEF Inv, TypeOK
<1>4. /\ ~(index >= kBars)
      /\ bar_is_64bits => ~(index >= kBars - 1)
  BY <1>1 DEF BarIndex
<1>5. Stored(index, Bit) = Writable(index) \cup Fixed(index)
  BY DEF Stored, Writable
<1>6. CASE layout[index].kind = "mem64"
  <2> DEFINE size == layout[index].size
  <2>1. /\ size \in Bit64 /\ size \in Nat /\ size >= 4
        /\ layout[index + 1].kind = "upper" /\ layout[index + 1].size = size
    BY <1>1, <1>3, <1>6 DEF IsLayout, Bit64
  <2>2. regs[index] = {b \in Bit : b >= size} \cup {2}
    BY <1>1, <1>5, <1>6 DEF Writable, Fixed
  <2>3. regs[index + 1] = {b \in Bit : b + kWordBits >= size}
    BY <1>1, <1>2, <1>6, <2>1 DEF Stored, Writable, Fixed
  <2>4. ReadBar(index).value = Join(regs[index], regs[index + 1])
    BY <1>2, <1>4, <1>6, <2>2 DEF ReadBar
  <2>5. ASSUME NEW b
        PROVE  b \in Join(regs[index], regs[index + 1]) /\ b \notin 0 .. 3
                 <=> b \in Bit64 /\ b >= size
    <3> HIDE DEF size
    <3>1. CASE b \in Bit
      <4>1. b \in Bit64 /\ \A c \in Bit : b # c + kWordBits
        BY <3>1 DEF Bit, Bit64
      <4>2. b \in Join(regs[index], regs[index + 1]) <=> b >= size \/ b = 2
        BY <2>2, <2>3, <3>1, <4>1 DEF Join
      <4> QED
        BY <2>1, <3>1, <4>1, <4>2 DEF Bit
    <3>2. CASE b \in Bit64 /\ b \notin Bit
      <4>1. b \in Nat /\ b - kWordBits \in Bit /\ b = (b - kWordBits) + kWordBits
            /\ b \notin 0 .. 3
        BY <3>2 DEF Bit, Bit64
      <4>2. b \notin regs[index]
        BY <2>2, <3>2 DEF Bit
      <4>3. b >= size => b \in Join(regs[index], regs[index + 1])
        BY <2>3, <4>1 DEF Join
      <4>4. b \in Join(regs[index], regs[index + 1]) => b >= size
        BY <2>3, <4>2 DEF Join
      <4> QED
        BY <3>2, <4>1, <4>3, <4>4
    <3>3. CASE b \notin Bit64
      <4>1. 2 \in Bit /\ Bit \subseteq Bit64
        BY DEF Bit, Bit64
      <4>2. \A c \in Bit : c + kWordBits \in Bit64
        BY DEF Bit, Bit64
      <4>3. b \notin Join(regs[index], regs[index + 1])
        BY <2>2, <2>3, <3>3, <4>1, <4>2 DEF Join
      <4> QED
        BY <3>3, <4>3
    <3> QED
      BY <3>1, <3>2, <3>3
  <2> QED
    BY <1>6, <2>4, <2>5 DEF SizeBits
<1>7. CASE layout[index].kind # "mem64"
  <2>1. 2 \notin regs[index]
    <3>1. CASE layout[index].kind = "none"
      BY <1>1, <1>5, <3>1 DEF Writable, Fixed
    <3>2. CASE layout[index].kind \in {"mem32", "io"}
      <4>1. layout[index].size \in Nat /\ layout[index].size >= 4
        BY <1>1, <3>2, WindowOfWord
      <4>2. Writable(index) = {b \in Bit : b >= layout[index].size}
            /\ 2 \notin Fixed(index)
        BY <3>2 DEF Writable, Fixed
      <4> QED
        BY <1>1, <1>5, <4>1, <4>2
    <3> QED
      BY <1>1, <1>7, <3>1, <3>2 DEF Sizable, IsMemory
  <2>2. ReadBar(index).value = Writable(index) \cup Fixed(index)
    BY <1>1, <1>4, <1>5, <2>1 DEF ReadBar
  <2>3. CASE layout[index].kind = "none"
    BY <2>2, <2>3 DEF Writable, Fixed, SizeBits
  <2>4. CASE layout[index].kind \in {"mem32", "io"}
    <3>1. layout[index].size \in Nat /\ layout[index].size >= 4
      BY <1>1, <2>4, WindowOfWord
    <3>2. /\ Writable(index) = {b \in Bit : b >= layout[index].size}
          /\ Fixed(index) \subseteq {0}
          /\ SizeBits(index) = {b \in Bit : b >= layout[index].size}
      BY <2>4 DEF Writable, Fixed, SizeBits
    <3>3. \A b \in Bit : b \in Nat
      BY DEF Bit
    <3> QED
      BY <2>2, <3>1, <3>2, <3>3
  <2> QED
    BY <1>1, <1>7, <2>3, <2>4 DEF Sizable, IsMemory
<1> QED
  BY <1>6, <1>7

LEMMA LowestIsSize ==
  ASSUME Inv, index \in BarIndex, Sizable(index)
  PROVE  LowestBit(SizeBits(index)) = Size(index)
<1> USE PciDeviceAssumption
<1>1. IsLayout(layout)
  BY DEF Inv, TypeOK
<1>2. CASE layout[index].kind = "none"
  BY <1>2 DEF LowestBit, SizeBits, Size
<1>3. CASE layout[index].kind # "none"
  <2> DEFINE size == layout[index].size
             W == IF layout[index].kind = "mem64" THEN Bit64 ELSE Bit
  <2>1. size \in W /\ W \subseteq Nat
    BY <1>1, <1>3 DEF IsLayout, Sizable, IsMemory, Bit, Bit64
  <2>2. SizeBits(index) = {b \in W : b >= size} /\ Size(index) = {size}
    BY <1>3 DEF SizeBits, Size
  <2> HIDE DEF size, W
  <2>3. size \in Nat /\ \A b \in W : b \in Nat
    BY <2>1
  <2>4. LowestBit({b \in W : b >= size}) = {size}
    <3>1. ASSUME NEW b \in W, b >= size, \A c \in W : c >= size => b <= c
          PROVE  b = size
      BY <2>1, <2>3, <3>1
    <3>2. size >= size /\ \A c \in {b \in W : b >= size} : size <= c
      BY <2>3
    <3> QED
      BY <2>1, <3>1, <3>2 DEF LowestBit
  <2> QED
    BY <2>2, <2>4
<1> QED
  BY <1>2, <1>3

LEMMA SizeInvInit == Init => SizeInv
  BY DEF Init, SizeInv, Written, Measured, SizeRight, kSuccess, kIndexOutOfRange

LEMMA SizeInvNext == Inv /\ SizeInv /\ [Next]_vars => SizeInv'
<1> SUFFICES ASSUME Inv, SizeInv, [Next]_vars PROVE SizeInv'
  OBVIOUS
<1> USE PciDeviceAssumption
<1>1. ASSUME NEW i \in 0 .. kBars, Call(i) PROVE SizeInv'
  <2>1. CASE ReadBar(i).error # kSuccess
    BY <1>1, <2>1 DEF Call, SizeInv, Written, Measured, SizeRight
  <2>2. CASE ReadBar(i).error = kSuccess
    BY <1>1, <2>2 DEF Call, SizeInv, Written, Measured, SizeRight
  <2> QED
    BY <2>1, <2>2
<1>2. CASE WriteOnes
  <2>1. TypeOK /\ index \in BarIndex /\ (bar_is_64bits => index + 1 \in BarIndex)
    BY <1>2 DEF Inv, Saved, WriteOnes
  <2>2. Low(Bit64) = Bit /\ High(Bit64) = Bit
    BY DEF Low, High, Bit, Bit64
  <2>3. /\ regs'[index] = Stored(index, Bit)
        /\ bar_is_64bits => regs'[index + 1] = Stored(index + 1, Bit)
    BY <1>2, <2>1, <2>2, WriteBarEffect DEF WriteOnes
  <2> QED
    BY <1>2, <2>3 DEF WriteOnes, SizeInv, Written, Measured, SizeRight,
                      Stored, Writable, Fixed
<1>3. CASE ReadBack
  <2>1. Sizable(index) => temp_bar' = SizeBits(index)
    BY <1>3, OnesTellSize DEF ReadBack, SizeInv
  <2> QED
    BY <1>3, <2>1 DEF ReadBack, SizeInv, Written, Measured, SizeRight,
                      Sizable, IsMemory, SizeBits
<1>4. CASE Restore
  <2>1. index \in BarIndex
    BY <1>4 DEF Inv, Saved, Restore
  <2>2. Sizable(index) => result'.value = Size(index)
    BY <1>4, <2>1, LowestIsSize DEF Restore, SizeInv, Measured
  <2> QED
    BY <1>4, <2>2 DEF Restore, SizeInv, Written, Measured, SizeRight,
                      Sizable, IsMemory, Size
<1>5. CASE UNCHANGED vars
  BY <1>5 DEF vars, SizeInv, Written, Measured, SizeRight, Stored, Writable, Fixed,
              Sizable, IsMemory, SizeBits, Size
<1> QED
  BY <1>1, <1>2, <1>3, <1>4, <1>5 DEF Next, CalcBarMapSize

(* The types of the variables.                                             *)
THEOREM DeviceType == Spec => []TypeOK
<1>1. Inv => TypeOK
  BY DEF Inv
<1> QED
  BY InvInit, InvNext, <1>1, PTL DEF Spec

(* Whatever the BARs are and whichever index is asked for, after           *)
(* CalcBarMapSize they all have the values the firmware gave them, and a   *)
(* BAR of memory is sized without disturbing the others.                   *)
THEOREM SizingKeepsBars == Spec => []BarsKept
  BY InvInit, InvNext, InvBarsKept, PTL DEF Spec

(* CalcBarMapSize returns the size of the window behind the BAR, whatever  *)
(* the width of a word and the size of the window are, also when the lowest*)
(* bit that can be written is in the upper half of a 64 bit address.       *)
THEOREM SizesAreRight == Spec => []SizeRight
<1>1. Inv /\ SizeInv => SizeRight
  BY DEF SizeInv
<1> QED
  BY InvInit, InvNext, SizeInvInit, SizeInvNext, <1>1, PTL DEF Spec
=============================================================================

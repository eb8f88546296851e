--------------------------- MODULE PciScanProofs ---------------------------
(***************************************************************************)
(* Proofs about the scan of the buses, for any number of buses, devices    *)
(* and functions: how deep it goes, that it reports each function at most  *)
(* once and, from bus 0, every function there is; and about the commands   *)
(* that use its table: what they find, and what lspci shows of it.         *)
(***************************************************************************)
EXTENDS PciCommands, SequenceTheorems, FiniteSetTheorems, TLAPS

Frames == [bus : Bus, dev : 0 .. kDevs, func : Func]

(* The buses of the frames rise, so the k-th frame is at bus k - 1 or above.*)
Rising(st) ==
  /\ \A j, k \in 1 .. Len(st) : j < k => st[j].bus < st[k].bus
  /\ \A k \in 1 .. Len(st) : k - 1 <= st[k].bus

Inv == TypeOK /\ config \in Configs /\ Rising(stack)

(* A bridge of a numbered configuration leads to a higher bus.             *)
LEMMA SecondaryAbove ==
  ASSUME TypeOK, config \in Configs, NEW f \in DOMAIN config, config[f].bridge
  PROVE  f[1] < config[f].secondary /\ config[f].secondary \in Bus
<1>1. Enumerated(config)
  BY PciScanAssumption
<1>2. config[f] \in Header
  BY DEF TypeOK
<1> QED
  BY <1>1, <1>2 DEF Enumerated, Header

(* Changing the slot of the frame on top leaves the buses alone.           *)
LEMMA RisingTop ==
  ASSUME NEW st \in Seq(Frames), Rising(st), st # <<>>,
         NEW f \in Frames, f.bus = st[Len(st)].bus
  PROVE  LET new == [st EXCEPT ![Len(st)] = f]
         IN  /\ new \in Seq(Frames) /\ Rising(new) /\ new # <<>>
             /\ Len(new) = Len(st) /\ new[Len(new)] = f
<1> DEFINE new == [st EXCEPT ![Len(st)] = f]
<1>1. Len(st) \in Nat /\ Len(st) > 0
  OBVIOUS
<1>2. new \in Seq(Frames) /\ Len(new) = Len(st)
  BY <1>1
<1>3. \A k \in 1 .. Len(st) : new[k].bus = st[k].bus
  BY <1>1
<1>4. new[Len(new)] = f /\ new # <<>>
  BY <1>1, <1>2
<1>5. Rising(new)
  BY <1>2, <1>3 DEF Rising
<1> QED
  BY <1>2, <1>4, <1>5

LEMMA RisingPush ==
  ASSUME NEW st \in Seq(Frames), Rising(st), NEW f \in Frames,
         st # <<>> => st[Len(st)].bus < f.bus
  PROVE  Append(st, f) \in Seq(Frames) /\ Rising(Append(st, f))
<1> DEFINE new == Append(st, f)
           n == Len(st)
<1>1. n \in Nat /\ new \in Seq(Frames) /\ Len(new) = n + 1
  OBVIOUS
<1>2. \A k \in 1 .. n : new[k] = st[k] /\ st[k].bus \in Nat
  <2>1. \A k \in 1 .. n : new[k] = st[k]
    BY AppendProperties
  <2>2. \A k \in 1 .. n : st[k] \in Frames
    OBVIOUS
  <2> QED
    BY <2>1, <2>2, PciScanAssumption DEF Frames, Bus
<1>3. new[n + 1] = f /\ f.bus \in Nat
  BY <1>1, PciScanAssumption, AppendProperties DEF Frames, Bus
<1>4. n > 0 => n - 1 <= st[n].bus /\ st[n].bus < f.bus /\ st[n].bus \in Nat
  BY <1>1, <1>2 DEF Rising
<1>5. \A k \in 1 .. n + 1 : k - 1 <= new[k].bus
  BY <1>1, <1>2, <1>3, <1>4 DEF Rising
<1>6. \A k \in 1 .. n : st[k].bus <= st[n].bus
  BY <1>1, <1>2 DEF Rising
<1>7. \A k \in 1 .. n : st[k].bus < f.bus
  BY <1>1, <1>2, <1>3, <1>4, <1>6
<1>8. ASSUME NEW j \in 1 .. n + 1, NEW k \in 1 .. n + 1, j < k
      PROVE  new[j].bus < new[k].bus
  <2>1. CASE k = n + 1
    BY <1>1, <1>2, <1>3, <1>7, <1>8, <2>1
  <2>2. CASE k # n + 1
    <3>1. j \in 1 .. n /\ k \in 1 .. n
      BY <1>1, <1>8, <2>2
    <3> QED
      BY <1>2, <1>8, <3>1 DEF Rising
  <2> QED
    BY <2>1, <2>2
<1> QED
  BY <1>1, <1>5, <1>8 DEF Rising

LEMMA Popped ==
  ASSUME NEW st \in Seq(Frames), st # <<>>
  PROVE  LET new == SubSeq(st, 1, Len(st) - 1)
         IN  /\ new \in Seq(Frames) /\ Len(new) = Len(st) - 1
             /\ \A k \in 1 .. Len(st) - 1 : new[k] = st[k]
<1> DEFINE n == Len(st) - 1
<1>1. n \in Nat /\ \A k \in 1 .. n : st[k] \in Frames
  OBVIOUS
<1> HIDE DEF n
<1>2. /\ SubSeq(st, 1, n) \in Seq(Frames)
      /\ Len(SubSeq(st, 1, n)) = IF 1 <= n THEN n - 1 + 1 ELSE 0
      /\ \A k \in 1 .. n - 1 + 1 : SubSeq(st, 1, n)[k] = st[1 + k - 1]
  BY <1>1, SubSeqProperties
<1>3. Len(SubSeq(st, 1, n)) = n
  BY <1>1, <1>2
<1>4. ASSUME NEW k \in 1 .. n
      PROVE  SubSeq(st, 1, n)[k] = st[k]
  <2>1. k \in 1 .. n - 1 + 1 /\ 1 + k - 1 = k
    BY <1>1
  <2> QED
    BY <1>2, <2>1
<1> QED
  BY <1>2, <1>3, <1>4 DEF n

LEMMA RisingPop ==
  ASSUME NEW st \in Seq(Frames), Rising(st), st # <<>>
  PROVE  LET new == SubSeq(st, 1, Len(st) - 1)
         IN  new \in Seq(Frames) /\ Rising(new)
<1> DEFINE new == SubSeq(st, 1, Len(st) - 1)
<1>1. Len(st) \in Nat /\ Len(st) > 0
  OBVIOUS
<1>2. /\ new \in Seq(Frames) /\ Len(new) = Len(st) - 1
      /\ \A k \in 1 .. Len(st) - 1 : new[k] = st[k]
  BY Popped
<1>3. \A k \in 1 .. Len(new) : new[k] = st[k] /\ k \in 1 .. Len(st)
  BY <1>1, <1>2
<1>4. Rising(new)
  BY <1>2, <1>3 DEF Rising
<1> QED
  BY <1>2, <1>4

(* The frame on top, and the one it becomes.                               *)
LEMMA TopFrame ==
  ASSUME TypeOK, Scanning
  PROVE  /\ Top \in Frames /\ NextSlot \in Frames /\ NextSlot.bus = Top.bus
         /\ Slot \in Location
<1>1. stack \in Seq(Frames) /\ stack # <<>>
  BY DEF TypeOK, Frames, Scanning
<1>2. Top \in Frames
  BY <1>1 DEF Top
<1>3. Top.dev \in Nat /\ Top.dev < kDevs /\ Top.dev + 1 \in 0 .. kDevs
  BY <1>2, PciScanAssumption DEF Frames, Scanning
<1>4. Top.dev \in Dev /\ Slot \in Location
  BY <1>2, <1>3, PciScanAssumption DEF Frames, Dev, Slot, Location
<1>5. NextDev \in Frames /\ NextDev.bus = Top.bus
  <2>1. 0 \in Func
    BY PciScanAssumption DEF Func
  <2>2. Top.bus \in Bus
    BY <1>2 DEF Frames
  <2> QED
    BY <1>3, <2>1, <2>2 DEF Frames, NextDev
<1>6. Top.func # kFuncs - 1 => [Top EXCEPT !.func = @ + 1] \in Frames
  BY <1>2, PciScanAssumption DEF Frames, Func
<1>7. [Top EXCEPT !.func = @ + 1].bus = Top.bus
  BY <1>2 DEF Frames
<1> QED
  BY <1>2, <1>4, <1>5, <1>6, <1>7 DEF NextSlot

LEMMA InvInit == Init => Inv
<1> SUFFICES ASSUME Init PROVE Inv
  OBVIOUS
<1>1. config \in [DOMAIN config -> Header] /\ DOMAIN config \subseteq Location
  BY PciScanAssumption DEF Init
<1>2. TypeOK
  BY <1>1, PciScanAssumption DEF Init, TypeOK
<1> QED
  BY <1>2 DEF Init, Inv, Rising

LEMMA InvNext == Inv /\ [Next]_vars => Inv'
<1> SUFFICES ASSUME Inv, [Next]_vars PROVE Inv'
  OBVIOUS
<1> USE PciScanAssumption
<1>0. /\ stack \in Seq(Frames) /\ Rising(stack) /\ TypeOK
      /\ pci_devices \in Seq(Location)
  BY DEF Inv, TypeOK, Frames
<1>a. \A b \in Bus : Frame(b) \in Frames
  BY DEF Frame, Frames, Func
<1>b. ASSUME NEW b \in Bus
      PROVE  <<Frame(b)>> \in Seq(Frames) /\ Rising(<<Frame(b)>>)
  <2>1. Frame(b) \in Frames /\ Frame(b).bus \in Nat
    BY <1>a DEF Frame, Bus
  <2> HIDE DEF Frames
  <2> QED
    BY <2>1 DEF Rising
<1>c. 0 \in Bus
  BY DEF Bus
<1>1. CASE Command
  <2>1. stack' \in Seq(Frames) /\ Rising(stack')
    BY <1>1, <1>0, <1>b, <1>c DEF Command
  <2> QED
    BY <1>1, <1>0, <2>1 DEF Command, Inv, TypeOK, Frames
<1>2. CASE HostBreak
  BY <1>2, <1>0 DEF HostBreak, Inv, TypeOK, Rising
<1>3. CASE HostScan
  <2>1. host \in Bus /\ host + 1 \in 0 .. kFuncs
    BY <1>3, <1>0 DEF HostScan, TypeOK, Bus
  <2> QED
    BY <1>3, <1>0, <1>b, <2>1 DEF HostScan, Inv, TypeOK, Frames
<1>4. CASE Skip
  <2>1. stack' \in Seq(Frames) /\ Rising(stack')
    BY <1>4, <1>0, TopFrame, RisingTop DEF Skip, Top, Scanning
  <2> QED
    BY <1>4, <1>0, <2>1 DEF Skip, Inv, TypeOK, Frames
<1>5. CASE ScanFunc
  <2> DEFINE rest == [stack EXCEPT ![Len(stack)] = NextSlot]
  <2>1. /\ rest \in Seq(Frames) /\ Rising(rest) /\ rest # <<>>
        /\ rest[Len(rest)] = NextSlot
    BY <1>5, <1>0, TopFrame, RisingTop DEF ScanFunc, Top, Scanning
  <2>2. NextSlot.bus = Top.bus /\ Slot \in Location
    BY <1>5, <1>0, TopFrame DEF ScanFunc
  <2>3. config[Slot].bridge =>
          /\ Frame(config[Slot].secondary) \in Frames
          /\ Top.bus < Frame(config[Slot].secondary).bus
    BY <1>5, <1>0, <1>a, SecondaryAbove DEF ScanFunc, Present, Slot, Inv, Frame
  <2> HIDE DEF rest
  <2>4. config[Slot].bridge =>
          /\ Append(rest, Frame(config[Slot].secondary)) \in Seq(Frames)
          /\ Rising(Append(rest, Frame(config[Slot].secondary)))
    BY <2>1, <2>2, <2>3, RisingPush
  <2>5. stack' = IF config[Slot].bridge
                   THEN Append(rest, Frame(config[Slot].secondary)) ELSE rest
    BY <1>5 DEF ScanFunc, rest
  <2>6. stack' \in Seq(Frames) /\ Rising(stack')
    BY <2>1, <2>4, <2>5
  <2>7. pci_devices' \in Seq(Location)
    BY <1>5, <1>0, <2>2 DEF ScanFunc
  <2> QED
    BY <1>5, <1>0, <2>6, <2>7 DEF ScanFunc, Inv, TypeOK, Frames
<1>6. CASE ScanReturn
  <2>1. stack' \in Seq(Frames) /\ Rising(stack')
    BY <1>6, <1>0, RisingPop DEF ScanReturn
  <2> QED
    BY <1>6, <1>0, <2>1 DEF ScanReturn, Inv, TypeOK, Frames
<1>7. CASE UNCHANGED vars
  BY <1>7 DEF vars, Inv, TypeOK, Rising
<1> QED
  BY <1>1, <1>2, <1>3, <1>4, <1>5, <1>6, <1>7 DEF Next, Scan

LEMMA InvStackBounded == Inv => StackBounded
<1> SUFFICES ASSUME Inv PROVE StackBounded
  OBVIOUS
<1>1. stack \in Seq(Frames) /\ Rising(stack)
  BY DEF Inv, TypeOK, Frames
<1>2. Len(stack) \in Nat
  BY <1>1
<1>3. Len(stack) > 0 => stack[Len(stack)].bus \in Bus
  <2>1. Len(stack) > 0 => stack[Len(stack)] \in Frames
    BY <1>1, <1>2
  <2> QED
    BY <2>1 DEF Frames
<1>4. Len(stack) <= kBuses
  BY <1>1, <1>2, <1>3, PciScanAssumption DEF Rising, Bus
<1> QED
  BY <1>1, <1>4 DEF Rising, StackBounded

(* The types of the variables.                                             *)
THEOREM ScanType == Spec => []TypeOK
<1>1. Inv => TypeOK
  BY DEF Inv
<1> QED
  BY InvInit, InvNext, <1>1, PTL DEF Spec

(* The recursion of Scan over the bridges never re-enters a bus and is     *)
(* never deeper than there are buses.                                      *)
THEOREM RecursionBounded == Spec => []StackBounded
  BY InvInit, InvNext, InvStackBounded, PTL DEF Spec

-----------------------------------------------------------------------------
Reported == {pci_devices[k] : k \in 1 .. Len(pci_devices)}

(* A scan of the bus was started: it is bus 0, or its bridge was reported. *)
LedBy(bus, R, c) == bus = 0 \/ \E f \in R : c[f].bridge /\ c[f].secondary = bus

(* The frame has gone past the function.                                   *)
Passed(f, frame) ==
  f[2] < frame.dev \/ (f[2] = frame.dev /\ f[3] < frame.func)

(* What is reported of a bus under scan lies behind its frame; a bus that  *)
(* nothing has led to has neither.                                         *)
OnceInv ==
  /\ pc \in {"idle", "hosts"} => stack = <<>>
  /\ pc = "hosts" => host = 0
  /\ ReportedOnce
  /\ \A f \in Reported : f \in DOMAIN config /\ LedBy(f[1], Reported, config)
  /\ \A k \in 1 .. Len(stack) :
       /\ LedBy(stack[k].bus, Reported, config)
       /\ \A f \in Reported : f[1] = stack[k].bus => Passed(f, stack[k])

OInv == Inv /\ (Present(<<0, 0, 0>>) => OnceInv)

(* The next slot lies behind this one, and both behind what was passed.    *)
LEMMA NextSlotPasses ==
  ASSUME TypeOK, Scanning
  PROVE  /\ Passed(Slot, NextSlot) /\ ~Passed(Slot, Top)
         /\ \A f \in Location : Passed(f, Top) => Passed(f, NextSlot)
<1>1. Top \in Frames /\ Top.dev \in Nat /\ Top.func \in Nat
  BY TopFrame, PciScanAssumption DEF Frames, Func
<1>2. \/ NextSlot.dev = Top.dev + 1
      \/ NextSlot.dev = Top.dev /\ NextSlot.func = Top.func + 1
  BY <1>1 DEF NextSlot, NextDev, Frames
<1>3. Slot[2] = Top.dev /\ Slot[3] = Top.func
  BY DEF Slot
<1>4. ASSUME NEW f \in Location, Passed(f, Top)
      PROVE  Passed(f, NextSlot)
  <2>1. f[2] \in Nat /\ f[3] \in Nat
    BY PciScanAssumption DEF Location, Dev, Func
  <2> QED
    BY <2>1, <1>1, <1>2, <1>4 DEF Passed
<1> QED
  BY <1>1, <1>2, <1>3, <1>4 DEF Passed

LEMMA ReportedGrows ==
  ASSUME pci_devices \in Seq(Location), NEW s \in Location,
         pci_devices' = Append(pci_devices, s)
  PROVE  Reported' = Reported \cup {s} /\ Reported \subseteq Location
<1>1. /\ Len(pci_devices') = Len(pci_devices) + 1 /\ Len(pci_devices) \in Nat
      /\ pci_devices'[Len(pci_devices) + 1] = s
      /\ \A k \in 1 .. Len(pci_devices) : pci_devices'[k] = pci_devices[k]
  BY AppendProperties
<1>2. Reported' = {pci_devices'[k] : k \in 1 .. Len(pci_devices) + 1}
  BY <1>1 DEF Reported
<1>3. ASSUME NEW f
      PROVE  f \in Reported' <=> f \in Reported \cup {s}
  <2>1. f \in Reported' <=>
          \E k \in 1 .. Len(pci_devices) + 1 : f = pci_devices'[k]
    BY <1>2
  <2>2. f \in Reported <=> \E k \in 1 .. Len(pci_devices) : f = pci_devices[k]
    BY DEF Reported
  <2>3. 1 .. Len(pci_devices) + 1 =
          (1 .. Len(pci_devices)) \cup {Len(pci_devices) + 1}
    BY <1>1
  <2> QED
    BY <1>1, <2>1, <2>2, <2>3
<1>4. Reported \subseteq Location
  BY DEF Reported
<1> QED
  BY <1>3, <1>4

LEMMA OnceInit == Init => OInv
<1> SUFFICES ASSUME Init PROVE OInv
  OBVIOUS
<1>1. Reported = {} /\ stack = <<>> /\ pc = "idle" /\ Len(pci_devices) = 0
  BY DEF Init, Reported
<1> QED
  BY <1>1, InvInit DEF OInv, OnceInv, ReportedOnce

LEMMA OnceScanFunc ==
  ASSUME Inv, OnceInv, ScanFunc, Present(<<0, 0, 0>>)
  PROVE  OnceInv'
<1> DEFINE rest == [stack EXCEPT ![Len(stack)] = NextSlot]
           n == Len(stack)
           s == config[Slot].secondary
<1>n. n = Len(stack)
  OBVIOUS
<1>0. /\ stack \in Seq(Frames) /\ Rising(stack) /\ TypeOK /\ Scanning
      /\ pci_devices \in Seq(Location) /\ Slot \in DOMAIN config
      /\ pci_devices' = Append(pci_devices, Slot) /\ config' = config /\ pc' = pc
      /\ stack' = IF config[Slot].bridge THEN Append(rest, Frame(s)) ELSE rest
      /\ host' = host
  BY DEF Inv, TypeOK, Frames, ScanFunc, Present
<1>1. /\ n \in Nat /\ n > 0 /\ rest \in Seq(Frames) /\ Len(rest) = n
      /\ rest[n] = NextSlot /\ \A k \in 1 .. n - 1 : rest[k] = stack[k]
      /\ NextSlot.bus = Top.bus /\ Top = stack[n] /\ Top.bus \in Nat
      /\ Slot \in Location /\ Slot[1] = Top.bus
  <2>1. n \in Nat /\ n > 0
    BY <1>0 DEF Scanning
  <2>2. NextSlot \in Frames /\ NextSlot.bus = Top.bus /\ Slot \in Location /\ Top \in Frames
    BY <1>0, TopFrame
  <2>3. Top.bus \in Nat
    BY <2>2, PciScanAssumption DEF Frames, Bus
  <2> QED
    BY <1>0, <2>1, <2>2, <2>3 DEF Top, Slot
<1>s. s = config[Slot].secondary
  OBVIOUS
<1> HIDE DEF rest, n, s
<1>2. Reported' = Reported \cup {Slot} /\ Reported \subseteq Location
  BY <1>0, <1>1, ReportedGrows
<1>3. /\ LedBy(Top.bus, Reported, config)
      /\ \A f \in Reported : f[1] = Top.bus => Passed(f, Top)
  <2>1. n \in 1 .. Len(stack)
    BY <1>1, <1>n
  <2> QED
    BY <1>1, <2>1 DEF OnceInv
<1>4. Slot \notin Reported
  BY <1>0, <1>1, <1>3, NextSlotPasses
<1>5. ASSUME NEW b, LedBy(b, Reported, config)
      PROVE  LedBy(b, Reported', config')
  BY <1>0, <1>2, <1>5 DEF LedBy
<1>6. ReportedOnce'
  <2>1. /\ Len(pci_devices') = Len(pci_devices) + 1 /\ Len(pci_devices) \in Nat
        /\ pci_devices'[Len(pci_devices) + 1] = Slot
        /\ \A k \in 1 .. Len(pci_devices) : pci_devices'[k] = pci_devices[k]
    BY <1>0, <1>1, AppendProperties
  <2>2. \A j, k \in 1 .. Len(pci_devices) : pci_devices[j] = pci_devices[k] => j = k
    BY DEF OnceInv, ReportedOnce
  <2>3. \A k \in 1 .. Len(pci_devices) : pci_devices[k] # Slot
    BY <1>4 DEF Reported
  <2> QED
    BY <2>1, <2>2, <2>3 DEF ReportedOnce
<1>7. \A f \in Reported' : f \in DOMAIN config' /\ LedBy(f[1], Reported', config')
  BY <1>0, <1>1, <1>2, <1>3, <1>5 DEF OnceInv
<1>8. ASSUME NEW k \in 1 .. n
      PROVE  /\ LedBy(rest[k].bus, Reported', config')
             /\ \A f \in Reported' : f[1] = rest[k].bus => Passed(f, rest[k])
  <2>1. CASE k = n
    BY <2>1, <1>0, <1>1, <1>2, <1>3, <1>5, NextSlotPasses
  <2>2. CASE k # n
    <3>1. k \in 1 .. n - 1 /\ rest[k] = stack[k] /\ k < n
      BY <2>2, <1>1
    <3>2. stack[k].bus < Top.bus /\ stack[k].bus \in Nat
      <4>1. stack[k] \in Frames /\ n \in 1 .. Len(stack)
        BY <1>0, <1>1, <1>n
      <4>2. stack[k].bus < stack[n].bus
        BY <4>1, <3>1, <1>0, <1>n DEF Rising
      <4>3. stack[k].bus \in Nat
        BY <4>1, PciScanAssumption DEF Frames, Bus
      <4> QED
        BY <4>2, <4>3, <1>1
    <3>3. /\ LedBy(stack[k].bus, Reported, config)
          /\ \A f \in Reported : f[1] = stack[k].bus => Passed(f, stack[k])
      BY <1>n DEF OnceInv
    <3>4. LedBy(rest[k].bus, Reported', config')
      BY <3>1, <3>3, <1>5
    <3>5. rest[k].bus # Slot[1]
      BY <3>1, <3>2, <1>1
    <3> QED
      BY <3>1, <3>3, <3>4, <3>5, <1>2
  <2> QED
    BY <2>1, <2>2
<1>9. ASSUME config[Slot].bridge
      PROVE  /\ LedBy(s, Reported', config')
             /\ \A f \in Reported' : f[1] # s
  <2>1. Top.bus < s /\ s \in Bus /\ s \in Nat
    BY <1>0, <1>1, <1>9, <1>s, SecondaryAbove, PciScanAssumption DEF Inv, Bus
  <2>2. ASSUME NEW f \in Reported, f[1] = s
        PROVE  FALSE
    <3>1. LedBy(s, Reported, config)
      BY <2>2 DEF OnceInv
    <3>0. s # 0
      BY <2>1, <1>1
    <3>2. PICK g \in Reported : config[g].bridge /\ config[g].secondary = s
      BY <3>0, <3>1 DEF LedBy
    <3>3. Enumerated(config) /\ g \in DOMAIN config
      BY PciScanAssumption DEF Inv, OnceInv
    <3>4. g = Slot
      BY <3>2, <3>3, <1>0, <1>9, <1>s DEF Enumerated
    <3> QED
      BY <3>4, <1>4
  <2>3. LedBy(s, Reported', config')
    BY <1>0, <1>2, <1>9, <1>s DEF LedBy
  <2>4. Slot[1] # s
    BY <2>1, <1>1
  <2> QED
    BY <2>2, <2>3, <2>4, <1>2
<1>10. \A k \in 1 .. Len(stack') :
         /\ LedBy(stack'[k].bus, Reported', config')
         /\ \A f \in Reported' : f[1] = stack'[k].bus => Passed(f, stack'[k])
  <2>1. CASE config[Slot].bridge
    <3>1. Len(stack') = n + 1 /\ stack'[n + 1] = Frame(s)
          /\ \A k \in 1 .. n : stack'[k] = rest[k]
      <4>1. Frame(s) \in Frames
        BY <1>0, <1>s, <2>1, SecondaryAbove, PciScanAssumption
           DEF Inv, Frame, Frames, Func
      <4> QED
        BY <4>1, <2>1, <1>0, <1>1, AppendProperties
    <3>2. Frame(s).bus = s
      BY DEF Frame
    <3> QED
      BY <2>1, <3>1, <3>2, <1>1, <1>8, <1>9
  <2>2. CASE ~config[Slot].bridge
    BY <2>2, <1>0, <1>1, <1>8
  <2> QED
    BY <2>1, <2>2
<1>11. pc \notin {"idle", "hosts"}
  BY <1>0 DEF OnceInv, Scanning
<1> QED
  BY <1>0, <1>6, <1>7, <1>10, <1>11 DEF OnceInv

LEMMA OnceNext == OInv /\ [Next]_vars => OInv'
<1> SUFFICES ASSUME OInv, [Next]_vars, Present(<<0, 0, 0>>)' PROVE OnceInv'
  BY InvNext DEF OInv
<1>0. /\ Inv /\ TypeOK /\ stack \in Seq(Frames) /\ Rising(stack)
      /\ config' = config /\ pci_devices \in Seq(Location)
  BY DEF OInv, Inv, TypeOK, Frames, Next, Scan, Command, HostBreak, HostScan, Skip,
     ScanFunc, ScanReturn, vars
<1>a. Present(<<0, 0, 0>>) /\ OnceInv
  BY <1>0 DEF Present, OInv
<1>1. CASE Command
  <2>1. pci_devices' = pci_devices /\ Reported' = Reported
    BY <1>1 DEF Command, Reported
  <2>2. CASE /\ stack' = stack
             /\ (pc' = pc /\ host' = host) \/ (pc' = "hosts" /\ host' = 0)
    <3>1. stack = <<>> /\ Len(stack) = 0
      BY <1>1, <1>a DEF Command, OnceInv
    <3> QED
      BY <1>0, <1>1, <1>a, <2>1, <2>2, <3>1 DEF Command, OnceInv, ReportedOnce, LedBy, Present
  <2>3. CASE stack' = <<Frame(0)>> /\ pci_devices = <<>> /\ pc' = "single"
    <3>1. Reported = {}
      BY <2>3 DEF Reported
    <3>2. Len(stack') = 1 /\ stack'[1].bus = 0
      BY <2>3 DEF Frame
    <3> QED
      BY <1>0, <1>a, <2>1, <2>3, <3>1, <3>2 DEF OnceInv, ReportedOnce, LedBy, Present
  <2> QED
    BY <1>1, <2>2, <2>3 DEF Command
<1>2. CASE HostBreak
  BY <1>2, <1>0, <1>a DEF HostBreak, OnceInv, ReportedOnce, Reported, LedBy, Present
<1>3. CASE HostScan
  BY <1>3, <1>a DEF HostScan, OnceInv
<1>4. CASE Skip
  <2>1. /\ Reported' = Reported /\ Reported \subseteq Location
        /\ pci_devices' = pci_devices /\ pc' = pc /\ host' = host
    BY <1>0, <1>4 DEF Skip, Reported
  <2>2. /\ Len(stack) \in Nat /\ Len(stack) > 0 /\ Len(stack') = Len(stack)
        /\ stack'[Len(stack)] = NextSlot /\ NextSlot.bus = Top.bus /\ Top = stack[Len(stack)]
        /\ \A k \in 1 .. Len(stack) : k # Len(stack) => stack'[k] = stack[k]
    BY <1>0, <1>4, TopFrame DEF Skip, Scanning, Top
  <2>3. \A f \in Reported : Passed(f, Top) => Passed(f, NextSlot)
    BY <1>0, <1>4, <2>1, NextSlotPasses DEF Skip
  <2>4. \A k \in 1 .. Len(stack') :
          /\ LedBy(stack'[k].bus, Reported, config)
          /\ \A f \in Reported : f[1] = stack'[k].bus => Passed(f, stack'[k])
    BY <1>a, <2>2, <2>3 DEF OnceInv
  <2>5. pc \notin {"idle", "hosts"}
    BY <1>a, <2>2 DEF OnceInv
  <2> QED
    BY <1>0, <1>a, <2>1, <2>4, <2>5 DEF OnceInv, ReportedOnce, LedBy, Present
<1>5. CASE ScanFunc
  BY <1>5, <1>0, <1>a, OnceScanFunc
<1>6. CASE ScanReturn
  <2>1. /\ Reported' = Reported /\ pci_devices' = pci_devices /\ host' = host
        /\ pc' = IF Len(stack) = 1 /\ pc = "single" THEN "idle" ELSE pc
        /\ stack' = SubSeq(stack, 1, Len(stack) - 1) /\ stack # <<>>
    BY <1>6 DEF ScanReturn, Reported
  <2>2. /\ Len(stack) \in Nat /\ Len(stack') = Len(stack) - 1
        /\ \A k \in 1 .. Len(stack) - 1 : stack'[k] = stack[k]
    BY <1>0, <2>1, Popped
  <2>3. \A k \in 1 .. Len(stack') :
          /\ LedBy(stack'[k].bus, Reported, config)
          /\ \A f \in Reported : f[1] = stack'[k].bus => Passed(f, stack'[k])
    BY <1>a, <2>2 DEF OnceInv
  <2>4. pc \notin {"idle", "hosts"} /\ (pc' = "idle" => stack' = <<>>)
    BY <1>0, <1>a, <2>1, <2>2 DEF OnceInv
  <2> QED
    BY <1>0, <1>a, <2>1, <2>3, <2>4 DEF OnceInv, ReportedOnce, LedBy, Present
<1>7. CASE UNCHANGED vars
  BY <1>7, <1>a DEF vars, OnceInv, ReportedOnce, Reported, LedBy, Present
<1> QED
  BY <1>1, <1>2, <1>3, <1>4, <1>5, <1>6, <1>7 DEF Next, Scan

(* Whatever the bridges and however many commands scan, no function is in  *)
(* the table twice, if there is a host bridge.                             *)
THEOREM NoneReportedTwice == Spec => []ReportedOnce
<1>1. OInv => ReportedOnce
  BY DEF OInv, OnceInv, ReportedOnce
<1> QED
  BY OnceInit, OnceNext, <1>1, PTL DEF Spec

-----------------------------------------------------------------------------
(* A scan comes to an end: the slots that it has still to look at, which   *)
(* are finitely many, become fewer with each of its steps.  They are those *)
(* of the buses that nothing has led to yet, and those that the frames     *)
(* have not passed, with one for the return from each bus.                 *)
Ahead(R, c, st) ==
  {f \in Bus \X (0 .. kDevs) \X Func :
     \/ ~LedBy(f[1], R, c)
     \/ \E k \in 1 .. Len(st) : st[k].bus = f[1] /\ ~Passed(f, st[k])}
SlotsAhead == Ahead(Reported, config, stack)

Advances == stack # <<>> => SlotsAhead' \subseteq SlotsAhead /\ SlotsAhead' # SlotsAhead

(* The frame on top goes from old to new, at the slot f, and the rest of   *)
(* the stack stays.                                                        *)
LEMMA AheadTop ==
  ASSUME NEW st \in Seq(Frames), st # <<>>, Rising(st), NEW R, NEW c,
         NEW n, n = Len(st), LedBy(st[n].bus, R, c),
         NEW new \in Frames, new.bus = st[n].bus,
         NEW f \in Bus \X (0 .. kDevs) \X Func, f[1] = st[n].bus,
         ~Passed(f, st[n]), Passed(f, new),
         \A g \in Bus \X (0 .. kDevs) \X Func : Passed(g, st[n]) => Passed(g, new)
  PROVE  /\ Ahead(R, c, [st EXCEPT ![n] = new]) \subseteq Ahead(R, c, st)
         /\ f \in Ahead(R, c, st) /\ f \notin Ahead(R, c, [st EXCEPT ![n] = new])
<1> DEFINE rest == [st EXCEPT ![n] = new]
<1>1. /\ n \in Nat /\ n \in 1 .. n /\ Len(rest) = n /\ rest[n] = new
      /\ \A k \in 1 .. n : k # n => rest[k] = st[k]
  OBVIOUS
<1> HIDE DEF rest
<1>2. ASSUME NEW g \in Ahead(R, c, rest) PROVE g \in Ahead(R, c, st)
  <2>1. g \in Bus \X (0 .. kDevs) \X Func
    BY DEF Ahead
  <2>2. CASE ~LedBy(g[1], R, c)
    BY <2>1, <2>2 DEF Ahead
  <2>3. ASSUME NEW k \in 1 .. n, rest[k].bus = g[1], ~Passed(g, rest[k])
        PROVE  st[k].bus = g[1] /\ ~Passed(g, st[k])
    BY <1>1, <2>1, <2>3
  <2>4. CASE \E k \in 1 .. n : rest[k].bus = g[1] /\ ~Passed(g, rest[k])
    BY <2>1, <2>3, <2>4 DEF Ahead
  <2> QED BY <1>1, <2>2, <2>4 DEF Ahead
<1>3. f \in Ahead(R, c, st)
  BY <1>1 DEF Ahead
<1>4. f \notin Ahead(R, c, rest)
  <2>1. ASSUME NEW k \in 1 .. n, rest[k].bus = f[1] PROVE Passed(f, rest[k])
    <3>1. CASE k = n
      BY <1>1, <3>1
    <3>2. CASE k # n
      <4>1. st[k].bus < st[n].bus /\ st[k].bus \in Nat /\ st[n].bus \in Nat
        <5>1. k < n /\ k \in 1 .. Len(st) /\ n \in 1 .. Len(st)
          BY <1>1, <3>2
        <5>2. st[k] \in Frames /\ st[n] \in Frames
          BY <5>1
        <5>3. st[k].bus < st[n].bus
          BY <5>1 DEF Rising
        <5>4. st[k].bus \in Bus /\ st[n].bus \in Bus
          BY <5>2 DEF Frames
        <5>5. \A b \in Bus : b \in Nat
          BY DEF Bus
        <5> QED BY <5>3, <5>4, <5>5
      <4> QED BY <1>1, <2>1, <3>2, <4>1
    <3> QED BY <3>1, <3>2
  <2> QED BY <1>1, <2>1 DEF Ahead
<1> QED
  BY <1>2, <1>3, <1>4 DEF rest

(* The next slot lies behind whatever was passed, the ends of the buses as *)
(* well.                                                                   *)
LEMMA NextSlotPassesAll ==
  ASSUME TypeOK, Scanning, NEW g \in Bus \X (0 .. kDevs) \X Func, Passed(g, Top)
  PROVE  Passed(g, NextSlot)
<1>1. Top \in Frames /\ Top.dev \in Nat /\ Top.func \in Nat
  BY TopFrame, PciScanAssumption DEF Frames, Func
<1>2. \/ NextSlot.dev = Top.dev + 1
      \/ NextSlot.dev = Top.dev /\ NextSlot.func = Top.func + 1
  BY <1>1 DEF NextSlot, NextDev, Frames
<1>3. g[2] \in Nat /\ g[3] \in Nat
  BY PciScanAssumption DEF Func
<1> QED
  BY <1>1, <1>2, <1>3 DEF Passed

(* The slot is passed,                                                     *)
LEMMA AheadSkip == ASSUME Inv, OnceInv, Skip PROVE Advances
<1> DEFINE n == Len(stack)
<1>1. /\ stack \in Seq(Frames) /\ Rising(stack) /\ TypeOK /\ Scanning /\ stack # <<>>
      /\ Reported' = Reported /\ config' = config
      /\ stack' = [stack EXCEPT ![n] = NextSlot]
  BY DEF Inv, TypeOK, Frames, Skip, Scanning, Reported
<1>2. /\ NextSlot \in Frames /\ NextSlot.bus = stack[n].bus /\ Slot[1] = stack[n].bus
      /\ Slot \in Location /\ Passed(Slot, NextSlot) /\ ~Passed(Slot, stack[n])
  BY <1>1, TopFrame, NextSlotPasses DEF Top, Slot
<1>3. LedBy(stack[n].bus, Reported, config)
  BY <1>1 DEF OnceInv
<1>4. Slot \in Bus \X (0 .. kDevs) \X Func
  BY <1>2, PciScanAssumption DEF Location, Dev
<1>5. \A g \in Bus \X (0 .. kDevs) \X Func : Passed(g, stack[n]) => Passed(g, NextSlot)
  BY <1>1, NextSlotPassesAll DEF Top
<1>6. /\ Ahead(Reported, config, stack') \subseteq Ahead(Reported, config, stack)
      /\ Slot \in Ahead(Reported, config, stack)
      /\ Slot \notin Ahead(Reported, config, stack')
  <2>1. n = Len(stack)
    OBVIOUS
  <2> HIDE DEF n
  <2> QED BY <1>1, <1>2, <1>3, <1>4, <1>5, <2>1, AheadTop
<1> QED
  BY <1>1, <1>6 DEF Advances, SlotsAhead

(* a bus is done,                                                          *)
LEMMA AheadReturn == ASSUME Inv, OnceInv, ScanReturn PROVE Advances
<1> DEFINE n == Len(stack)
           f == <<Top.bus, kDevs, Top.func>>
<1>1. /\ stack \in Seq(Frames) /\ Rising(stack) /\ stack # <<>> /\ Top.dev = kDevs
      /\ Reported' = Reported /\ config' = config /\ Top = stack[n]
      /\ stack' = SubSeq(stack, 1, n - 1)
  BY DEF Inv, TypeOK, Frames, ScanReturn, Reported, Top
<1>2. /\ n \in Nat /\ n \in 1 .. n /\ Len(stack') = n - 1
      /\ \A k \in 1 .. n - 1 : stack'[k] = stack[k] /\ k \in 1 .. n /\ k < n
  BY <1>1, Popped
<1>3. Top \in Frames /\ f \in Bus \X (0 .. kDevs) \X Func
  <2>1. Top \in Frames
    BY <1>1 DEF Top
  <2>2. kDevs \in 0 .. kDevs
    BY PciScanAssumption
  <2> QED BY <2>1, <2>2 DEF Frames
<1>4. LedBy(f[1], Reported, config) /\ ~Passed(f, Top) /\ f[1] = Top.bus
  BY <1>1, <1>2, <1>3, PciScanAssumption DEF OnceInv, Passed, Frames, Func
<1>5. \A k \in 1 .. n - 1 : stack[k].bus # Top.bus
  <2>1. ASSUME NEW k \in 1 .. n - 1 PROVE stack[k].bus # stack[n].bus
    <3>1. stack[k] \in Frames /\ stack[n] \in Frames
      BY <1>1, <1>2
    <3>2. stack[k].bus < stack[n].bus
      BY <1>1, <1>2 DEF Rising
    <3> QED BY <3>1, <3>2, PciScanAssumption DEF Frames, Bus
  <2> QED BY <1>1, <2>1
<1> HIDE DEF n, f
<1>n. n = Len(stack)
  BY DEF n
<1>6. f \in Ahead(Reported, config, stack)
  BY <1>1, <1>2, <1>3, <1>4, <1>n DEF Ahead
<1>7. f \notin Ahead(Reported, config, stack')
  BY <1>2, <1>4, <1>5 DEF Ahead
<1>8. Ahead(Reported, config, stack') \subseteq Ahead(Reported, config, stack)
  BY <1>2, <1>n DEF Ahead
<1> QED
  BY <1>1, <1>6, <1>7, <1>8 DEF Advances, SlotsAhead

(* or the slot is passed and a bus that nothing had led to gets its frame. *)
LEMMA AheadScanFunc == ASSUME Inv, OnceInv, ScanFunc PROVE Advances
<1> DEFINE rest == [stack EXCEPT ![Len(stack)] = NextSlot]
           n == Len(stack)
           s == config[Slot].secondary
<1>1. /\ stack \in Seq(Frames) /\ Rising(stack) /\ TypeOK /\ Scanning /\ stack # <<>>
      /\ config' = config /\ pci_devices \in Seq(Location) /\ Slot \in DOMAIN config
      /\ pci_devices' = Append(pci_devices, Slot)
      /\ stack' = IF config[Slot].bridge THEN Append(rest, Frame(s)) ELSE rest
  BY DEF Inv, TypeOK, Frames, ScanFunc, Scanning, Present
<1>2. /\ NextSlot \in Frames /\ NextSlot.bus = stack[n].bus /\ Slot[1] = stack[n].bus
      /\ Slot \in Location /\ Passed(Slot, NextSlot) /\ ~Passed(Slot, stack[n])
  BY <1>1, TopFrame, NextSlotPasses DEF Top, Slot
<1>3. /\ LedBy(stack[n].bus, Reported, config)
      /\ \A f \in Reported : f[1] = stack[n].bus => Passed(f, stack[n])
  BY <1>1 DEF OnceInv
<1>4. Slot \in Bus \X (0 .. kDevs) \X Func
  BY <1>2, PciScanAssumption DEF Location, Dev
<1>5. \A g \in Bus \X (0 .. kDevs) \X Func : Passed(g, stack[n]) => Passed(g, NextSlot)
  BY <1>1, NextSlotPassesAll DEF Top
<1>6. Reported' = Reported \cup {Slot} /\ Slot \notin Reported
  BY <1>1, <1>2, <1>3, ReportedGrows
<1>7. /\ Ahead(Reported, config, rest) \subseteq Ahead(Reported, config, stack)
      /\ Slot \in Ahead(Reported, config, stack)
      /\ Slot \notin Ahead(Reported, config, rest)
  <2>1. n = Len(stack) /\ rest = [stack EXCEPT ![n] = NextSlot]
    OBVIOUS
  <2> HIDE DEF n, rest
  <2> QED BY <1>1, <1>2, <1>3, <1>4, <1>5, <2>1, AheadTop
<1>8. \A b : LedBy(b, Reported, config) => LedBy(b, Reported', config)
  BY <1>6 DEF LedBy
<1>9. Len(rest) = n /\ rest \in Seq(Frames) /\ n \in Nat
  BY <1>1, <1>2
<1>s. s = config[Slot].secondary
  OBVIOUS
<1> HIDE DEF rest, n, s
<1>10. CASE ~config[Slot].bridge
  <2>1. stack' = rest
    BY <1>1, <1>10
  <2>2. Ahead(Reported', config, rest) \subseteq Ahead(Reported, config, rest)
    BY <1>8 DEF Ahead
  <2> QED BY <1>1, <1>7, <2>1, <2>2 DEF Advances, SlotsAhead
<1>11. CASE config[Slot].bridge
  <2>1. Frame(s) \in Frames /\ Frame(s).bus = s /\ Slot[1] < s /\ s \in Nat /\ s # 0
    <3>1. Slot[1] < s /\ s \in Bus
      BY <1>1, <1>11, <1>s, SecondaryAbove DEF Inv
    <3>2. Slot[1] \in Nat /\ s \in Nat /\ 0 \in Func /\ 0 \in 0 .. kDevs
      BY <1>2, <3>1, PciScanAssumption DEF Location, Bus, Func
    <3> QED BY <3>1, <3>2 DEF Frame, Frames
  <2>2. /\ stack' = Append(rest, Frame(s)) /\ Len(stack') = n + 1
        /\ stack'[n + 1] = Frame(s) /\ \A k \in 1 .. n : stack'[k] = rest[k]
    BY <1>1, <1>9, <1>11, <2>1, AppendProperties
  <2>3. ~LedBy(s, Reported, config)
    <3>1. ASSUME NEW g \in Reported, config[g].bridge, config[g].secondary = s
          PROVE  FALSE
      <4>1. Enumerated(config) /\ g \in DOMAIN config
        BY PciScanAssumption DEF Inv, OnceInv
      <4>2. g = Slot
        BY <3>1, <4>1, <1>1, <1>11, <1>s DEF Enumerated
      <4> QED BY <1>6, <4>2
    <3> QED BY <2>1, <3>1 DEF LedBy
  <2>4. ASSUME NEW g \in Ahead(Reported', config, stack')
        PROVE  g \in Ahead(Reported, config, stack)
    <3>0. g \in Bus \X (0 .. kDevs) \X Func
      BY DEF Ahead
    <3>1. CASE ~LedBy(g[1], Reported', config)
      BY <1>8, <3>0, <3>1 DEF Ahead
    <3>2. CASE g[1] = s
      BY <2>3, <3>0, <3>2 DEF Ahead
    <3>3. CASE LedBy(g[1], Reported', config) /\ g[1] # s
      <4>1. PICK k \in 1 .. n + 1 : stack'[k].bus = g[1] /\ ~Passed(g, stack'[k])
        BY <2>2, <3>3 DEF Ahead
      <4>2. k # n + 1
        BY <2>1, <2>2, <3>3, <4>1
      <4>3. k \in 1 .. n
        BY <1>9, <4>2
      <4>4. g \in Ahead(Reported, config, rest)
        BY <1>9, <2>2, <3>0, <4>1, <4>3 DEF Ahead
      <4> QED BY <1>7, <4>4
    <3> QED BY <3>1, <3>2, <3>3
  <2>5. Slot \notin Ahead(Reported', config, stack')
    <3>1. LedBy(Slot[1], Reported', config)
      BY <1>2, <1>3, <1>8
    <3>2. ASSUME NEW k \in 1 .. n + 1, stack'[k].bus = Slot[1], ~Passed(Slot, stack'[k])
          PROVE  FALSE
      <4>0. Slot[1] \in Nat
        BY <1>2, PciScanAssumption DEF Location, Bus
      <4>1. k # n + 1
        BY <2>1, <2>2, <3>2, <4>0
      <4>2. k \in 1 .. n /\ stack'[k] = rest[k]
        BY <1>9, <2>2, <4>1
      <4>3. Slot \in Ahead(Reported, config, rest)
        BY <1>4, <1>9, <3>2, <4>2 DEF Ahead
      <4> QED BY <1>7, <4>3
    <3> QED BY <2>2, <3>1, <3>2 DEF Ahead
  <2> QED BY <1>1, <1>7, <2>4, <2>5 DEF Advances, SlotsAhead
<1> QED BY <1>10, <1>11

(* While the scan of bus 0 is under way it has a frame.                    *)
Running == pc = "single" => stack # <<>>

(* It does so after every step.                                            *)
LEMMA RunningNext == OInv /\ Running /\ [Next]_vars => Running'
<1> SUFFICES ASSUME OInv, Running, [Next]_vars PROVE Running'
  OBVIOUS
<1>1. stack \in Seq(Frames) /\ Len(stack) \in Nat
  BY DEF OInv, Inv, TypeOK, Frames
<1>2. CASE Command
  BY <1>2 DEF Command, Running
<1>3. CASE HostBreak \/ HostScan
  BY <1>3 DEF HostBreak, HostScan, Running
<1>4. CASE Skip
  <2>1. Len(stack') = Len(stack) /\ stack # <<>>
    BY <1>1, <1>4 DEF Skip, Scanning
  <2> QED BY <1>1, <2>1 DEF Running
<1>5. CASE ScanFunc
  <2> DEFINE rest == [stack EXCEPT ![Len(stack)] = NextSlot]
  <2>0. TypeOK /\ Scanning
    BY <1>5 DEF ScanFunc, OInv, Inv
  <2>1. /\ stack # <<>> /\ Len(rest) = Len(stack) /\ rest \in Seq(Frames)
        /\ stack' = IF config[Slot].bridge
                      THEN Append(rest, Frame(config[Slot].secondary)) ELSE rest
    BY <1>1, <1>5, <2>0, TopFrame DEF ScanFunc, Scanning
  <2> HIDE DEF rest
  <2>2. rest # <<>> /\ Append(rest, Frame(config[Slot].secondary)) # <<>>
    BY <1>1, <2>1, AppendProperties
  <2> QED BY <2>1, <2>2 DEF Running
<1>6. CASE ScanReturn
  <2>1. /\ stack # <<>> /\ Len(stack') = Len(stack) - 1
        /\ pc' = IF Len(stack) = 1 /\ pc = "single" THEN "idle" ELSE pc
    BY <1>1, <1>6, Popped DEF ScanReturn
  <2> QED BY <1>1, <2>1 DEF Running
<1>7. CASE UNCHANGED vars
  BY <1>7 DEF vars, Running
<1> QED
  BY <1>2, <1>3, <1>4, <1>5, <1>6, <1>7 DEF Next, Scan

(* Every step of a scan leaves fewer slots ahead, whatever the bridges, so *)
(* that it takes at most as many steps as there are slots and buses        *)
(* (pci.cpp 76-152).                                                       *)
THEOREM ScanComesCloser == Spec => [][Present(<<0, 0, 0>>) => Advances]_vars
<1>1. OInv /\ [Next]_vars => [Present(<<0, 0, 0>>) => Advances]_vars
  <2> SUFFICES ASSUME OInv, Next, Present(<<0, 0, 0>>), stack # <<>> PROVE Advances
    BY DEF Advances
  <2>1. Inv /\ OnceInv
    BY DEF OInv
  <2>2. ~Command /\ ~HostBreak /\ ~HostScan
    BY <2>1 DEF Command, HostBreak, HostScan, OnceInv
  <2> QED
    BY <2>1, <2>2, AheadSkip, AheadScanFunc, AheadReturn DEF Next, Scan
<1> QED
  BY <1>1, OnceInit, OnceNext, PTL DEF Spec

(* As long as a scan of bus 0 has not returned to the command, one of its  *)
(* steps can be taken: it has a frame, whose bus has a slot left or is     *)
(* done.                                                                   *)
THEOREM ScanGoesOn ==
  Spec => [](pc = "single" => stack # <<>> /\ (Scanning \/ Top.dev = kDevs))
<1>1. OInv /\ Running => (pc = "single" => stack # <<>> /\ (Scanning \/ Top.dev = kDevs))
  <2> SUFFICES ASSUME OInv, stack # <<>> PROVE Scanning \/ Top.dev = kDevs
    BY DEF Running
  <2>1. stack \in Seq(Frames)
    BY DEF OInv, Inv, TypeOK, Frames
  <2>2. Top \in Frames
    BY <2>1 DEF Top
  <2> QED BY <2>2, PciScanAssumption DEF Scanning, Frames
<1>2. Init => OInv /\ Running
  BY OnceInit DEF Init, Running
<1> QED
  BY <1>1, <1>2, OnceNext, RunningNext, PTL DEF Spec

-----------------------------------------------------------------------------
(* What a scan from bus 0 finds, if the host bridge has a single function. *)

(* Every visible function of the bus is in the table, or ahead of a frame. *)
Covered(bus, st) ==
  \A f \in DOMAIN config : Visible(f) /\ f[1] = bus =>
    \/ f \in Reported
    \/ \E k \in 1 .. Len(st) : st[k].bus = bus /\ ~Passed(f, st[k])

(* The functions that a frame has reached belong to a device that has them.*)
FramesVisible(st) ==
  \A k \in 1 .. Len(st) : st[k].func > 0 =>
    LET g == <<st[k].bus, st[k].dev, 0>> IN g \in DOMAIN config /\ config[g].multi

(* The buses of the table and of the frames are buses that bus 0 leads to. *)
WithinClosed(st) ==
  \A S \in SUBSET Bus : Closed(S) =>
    /\ \A f \in Reported : f[1] \in S
    /\ \A k \in 1 .. Len(st) : st[k].bus \in S

CompleteInv ==
  /\ pc # "hosts"
  /\ pc = "idle" => stack = <<>>
  /\ commands = 0 => pc = "idle" /\ pci_devices = <<>>
  /\ commands > 0 => Covered(0, stack)
  /\ \A g \in Reported : g \in DOMAIN config /\ Visible(g)
  /\ \A g \in Reported : config[g].bridge => Covered(config[g].secondary, stack)
  /\ FramesVisible(stack)
  /\ WithinClosed(stack)

Single == IsSingleFunctionDevice(<<0, 0, 0>>)

CInv == Inv /\ (Single => CompleteInv)

(* Which functions the step to the next slot leaves behind.                *)
LEMMA NextSlotSkips ==
  ASSUME TypeOK, Scanning, NEW f \in DOMAIN config, Visible(f),
         f[1] = Top.bus, ~Passed(f, Top), Passed(f, NextSlot)
  PROVE  f = Slot
<1>1. /\ Top \in Frames /\ Top.dev \in Nat /\ Top.func \in Func /\ Top.func \in Nat
      /\ f \in Location
  BY TopFrame, PciScanAssumption DEF Frames, Func, TypeOK
<1>2. f = <<f[1], f[2], f[3]>> /\ f[2] \in Nat /\ f[3] \in Nat /\ f[3] <= kFuncs - 1
  BY <1>1, PciScanAssumption DEF Location, Dev, Func
<1>3. f[2] = Top.dev /\ f[3] >= Top.func
  <2>1. NextSlot.dev = Top.dev + 1 => NextSlot.func = 0
    BY <1>1 DEF NextSlot, NextDev, Frames
  <2>2. \/ NextSlot.dev = Top.dev + 1
        \/ NextSlot.dev = Top.dev /\ NextSlot.func = Top.func + 1
    BY <1>1 DEF NextSlot, NextDev, Frames
  <2> QED
    BY <1>1, <1>2, <2>1, <2>2 DEF Passed
<1>4. CASE Top.func = 0 /\ (IsSingleFunctionDevice(Slot) \/ ~Present(Slot))
  <2>1. Slot = <<f[1], f[2], 0>>
    BY <1>3, <1>4 DEF Slot
  <2>2. f[3] = 0
    BY <2>1, <1>4 DEF Visible, IsSingleFunctionDevice, Present
  <2> QED
    BY <1>2, <2>1, <2>2
<1>5. CASE Top.func = kFuncs - 1
  BY <1>1, <1>2, <1>3, <1>5, PciScanAssumption DEF Slot
<1>6. CASE /\ ~(Top.func = 0 /\ (IsSingleFunctionDevice(Slot) \/ ~Present(Slot)))
           /\ Top.func # kFuncs - 1
  <2>1. NextSlot.dev = Top.dev /\ NextSlot.func = Top.func + 1
    BY <1>1, <1>6 DEF NextSlot, Frames
  <2>2. f[3] = Top.func
    BY <1>1, <1>2, <1>3, <2>1 DEF Passed
  <2> QED
    BY <1>2, <1>3, <2>2 DEF Slot
<1> QED
  BY <1>4, <1>5, <1>6

(* The next slot of a device with one function, or none, is not in it.     *)
LEMMA NextSlotVisible ==
  ASSUME TypeOK, Scanning,
         Top.func > 0 => LET g == <<Top.bus, Top.dev, 0>>
                         IN  g \in DOMAIN config /\ config[g].multi,
         NextSlot.func > 0
  PROVE  LET g == <<NextSlot.bus, NextSlot.dev, 0>>
         IN  g \in DOMAIN config /\ config[g].multi
<1>1. Top \in Frames /\ Top.func \in Nat
  BY TopFrame, PciScanAssumption DEF Frames, Func
<1>2. ~(Top.func = 0 /\ (IsSingleFunctionDevice(Slot) \/ ~Present(Slot)))
  BY <1>1 DEF NextSlot, NextDev
<1>3. NextSlot.bus = Top.bus /\ NextSlot.dev = Top.dev
  BY <1>1, <1>2 DEF NextSlot, NextDev, Frames
<1>4. CASE Top.func = 0
  BY <1>2, <1>3, <1>4 DEF Slot, IsSingleFunctionDevice, Present
<1>5. CASE Top.func > 0
  BY <1>3, <1>5
<1> QED
  BY <1>1, <1>4, <1>5

LEMMA CompleteInit == Init => CInv
<1> SUFFICES ASSUME Init PROVE CompleteInv
  BY InvInit DEF CInv
<1>1. Reported = {} /\ Len(stack) = 0 /\ commands = 0
  BY DEF Init, Reported
<1>2. FramesVisible(stack) /\ WithinClosed(stack)
  BY <1>1 DEF FramesVisible, WithinClosed
<1> QED
  BY <1>1, <1>2 DEF Init, CompleteInv

(* The step of the frame on top to its next slot.                          *)
LEMMA AdvanceTop ==
  ASSUME Inv, Scanning, FramesVisible(stack), NEW st \in Seq(Frames),
         st = [stack EXCEPT ![Len(stack)] = NextSlot]
  PROVE  /\ Len(st) = Len(stack) /\ Len(stack) \in Nat \ {0}
         /\ FramesVisible(st)
         /\ \A k \in 1 .. Len(st) : st[k].bus = stack[k].bus
         /\ \A f \in DOMAIN config, k \in 1 .. Len(st) :
              Visible(f) /\ f[1] = st[k].bus /\ ~Passed(f, stack[k]) /\ f # Slot
                => ~Passed(f, st[k])
<1>0. stack \in Seq(Frames) /\ TypeOK /\ stack # <<>>
  BY DEF Inv, TypeOK, Frames, Scanning
<1>1. Len(stack) \in Nat /\ Len(stack) > 0 /\ Len(st) = Len(stack)
  BY <1>0
<1>2. st[Len(stack)] = NextSlot /\ NextSlot.bus = Top.bus /\ Top = stack[Len(stack)]
  BY <1>0, <1>1, TopFrame DEF Top
<1>3. \A k \in 1 .. Len(st) : k # Len(stack) => st[k] = stack[k]
  <2>1. DOMAIN stack = 1 .. Len(stack)
    BY <1>0
  <2> QED
    BY <1>1, <2>1
<1>4. FramesVisible(st)
  <2>1. Top.func > 0 => LET g == <<Top.bus, Top.dev, 0>>
                        IN  g \in DOMAIN config /\ config[g].multi
    BY <1>1, <1>2 DEF FramesVisible
  <2>2. NextSlot.func > 0 => LET g == <<NextSlot.bus, NextSlot.dev, 0>>
                             IN  g \in DOMAIN config /\ config[g].multi
    BY <1>0, <2>1, NextSlotVisible
  <2> QED
    BY <1>1, <1>2, <1>3, <2>2 DEF FramesVisible
<1>5. ASSUME NEW f \in DOMAIN config, NEW k \in 1 .. Len(st),
             Visible(f), f[1] = st[k].bus, ~Passed(f, stack[k]), f # Slot
      PROVE  ~Passed(f, st[k])
  <2>1. CASE k = Len(stack)
    BY <1>0, <1>2, <1>5, <2>1, NextSlotSkips
  <2>2. CASE k # Len(stack)
    BY <1>3, <1>5, <2>2
  <2> QED
    BY <2>1, <2>2
<1>6. \A k \in 1 .. Len(st) : st[k].bus = stack[k].bus
  BY <1>1, <1>2, <1>3
<1>7. \A f \in DOMAIN config, k \in 1 .. Len(st) :
        Visible(f) /\ f[1] = st[k].bus /\ ~Passed(f, stack[k]) /\ f # Slot
          => ~Passed(f, st[k])
  BY <1>5
<1>8. Len(stack) \in Nat \ {0}
  BY <1>1
<1> QED
  BY <1>1, <1>4, <1>6, <1>7, <1>8

LEMMA CompleteSkip ==
  ASSUME Inv, CompleteInv, Skip
  PROVE  CompleteInv'
<1> DEFINE st == [stack EXCEPT ![Len(stack)] = NextSlot]
<1>1. /\ stack' = st /\ Scanning /\ Slot \notin DOMAIN config
      /\ UNCHANGED <<config, pci_devices, host, pc, commands>>
  BY DEF Skip, Present
<1>2. st \in Seq(Frames) /\ stack \in Seq(Frames) /\ stack # <<>>
  BY <1>1, TopFrame DEF Inv, TypeOK, Frames, Scanning
<1> HIDE DEF st
<1>3. /\ Len(st) = Len(stack) /\ Len(stack) \in Nat \ {0}
      /\ FramesVisible(st)
      /\ \A k \in 1 .. Len(st) : st[k].bus = stack[k].bus
      /\ \A f \in DOMAIN config, k \in 1 .. Len(st) :
           Visible(f) /\ f[1] = st[k].bus /\ ~Passed(f, stack[k]) => ~Passed(f, st[k])
  <2>1. st = [stack EXCEPT ![Len(stack)] = NextSlot]
    BY DEF st
  <2> QED
    BY <1>1, <1>2, <2>1, AdvanceTop DEF CompleteInv
<1>4. ASSUME NEW b, Covered(b, stack)
      PROVE  Covered(b, st)
  BY <1>3, <1>4 DEF Covered
<1>5. WithinClosed(st)
  BY <1>3 DEF CompleteInv, WithinClosed
<1>6. /\ Covered(0, st) \/ commands = 0
      /\ \A g \in Reported : config[g].bridge => Covered(config[g].secondary, st)
  <2>1. commands = 0 \/ commands > 0
    BY DEF Inv, TypeOK
  <2> QED
    BY <1>4, <2>1 DEF CompleteInv
<1>7. Reported' = Reported /\ pc # "idle"
  BY <1>1, <1>2 DEF Reported, CompleteInv
<1> QED
  BY <1>1, <1>3, <1>5, <1>6, <1>7
     DEF CompleteInv, Covered, FramesVisible, WithinClosed, Closed, Visible, Present

LEMMA CompleteScanFunc ==
  ASSUME Inv, CompleteInv, ScanFunc
  PROVE  CompleteInv'
<1> DEFINE rest == [stack EXCEPT ![Len(stack)] = NextSlot]
           s == config[Slot].secondary
<1>1. /\ Scanning /\ Slot \in DOMAIN config
      /\ pci_devices' = Append(pci_devices, Slot)
      /\ stack' = IF config[Slot].bridge THEN Append(rest, Frame(s)) ELSE rest
      /\ UNCHANGED <<config, host, pc, commands>>
  BY DEF ScanFunc, Present
<1>2. rest \in Seq(Frames) /\ stack \in Seq(Frames) /\ stack # <<>> /\ TypeOK
  BY <1>1, TopFrame DEF Inv, TypeOK, Frames, Scanning
<1>3. /\ Len(rest) = Len(stack) /\ Len(stack) \in Nat \ {0}
      /\ FramesVisible(rest)
      /\ \A k \in 1 .. Len(rest) : rest[k].bus = stack[k].bus
      /\ \A f \in DOMAIN config, k \in 1 .. Len(rest) :
           Visible(f) /\ f[1] = rest[k].bus /\ ~Passed(f, stack[k]) /\ f # Slot
             => ~Passed(f, rest[k])
  BY <1>1, <1>2, AdvanceTop DEF CompleteInv
<1>4. Reported' = Reported \cup {Slot} /\ Slot \in Location
  BY <1>1, <1>2, TopFrame, ReportedGrows DEF TypeOK
<1>5. config[Slot].bridge =>
        /\ s \in Bus /\ Frame(s) \in Frames
        /\ Len(Append(rest, Frame(s))) = Len(rest) + 1
        /\ Append(rest, Frame(s))[Len(rest) + 1] = Frame(s)
        /\ \A k \in 1 .. Len(rest) : Append(rest, Frame(s))[k] = rest[k]
  <2>1. config[Slot].bridge => s \in Bus
    BY <1>1, <1>2, SecondaryAbove DEF Inv
  <2>2. s \in Bus => Frame(s) \in Frames
    BY PciScanAssumption DEF Frame, Frames, Func
  <2> QED
    BY <1>2, <2>1, <2>2, AppendProperties
<1> HIDE DEF rest
<1>6. /\ Len(stack') \in Nat /\ Len(stack') >= Len(rest)
      /\ \A k \in 1 .. Len(rest) : stack'[k] = rest[k]
      /\ \A k \in 1 .. Len(stack') : k \in 1 .. Len(rest) \/ stack'[k] = Frame(s)
      /\ config[Slot].bridge => \E k \in 1 .. Len(stack') : stack'[k] = Frame(s)
      /\ ~config[Slot].bridge => Len(stack') = Len(rest)
  <2>1. CASE config[Slot].bridge
    <3>1. stack' = Append(rest, Frame(s)) /\ Len(stack') = Len(rest) + 1
      BY <1>1, <1>5, <2>1
    <3> QED
      BY <1>3, <1>5, <2>1, <3>1
  <2>2. CASE ~config[Slot].bridge
    <3>1. stack' = rest
      BY <1>1, <2>2
    <3> QED
      BY <1>3, <2>2, <3>1
  <2> QED
    BY <2>1, <2>2
<1>7. Visible(Slot)
  <2>1. Top = stack[Len(stack)] /\ Slot = <<Top.bus, Top.dev, Top.func>>
    BY DEF Top, Slot
  <2>2. Top.func > 0 => LET g == <<Top.bus, Top.dev, 0>>
                        IN  g \in DOMAIN config /\ config[g].multi
    BY <1>3, <2>1 DEF CompleteInv, FramesVisible
  <2>3. Top.func \in Nat
    BY <1>1, <1>2, TopFrame, PciScanAssumption DEF Frames, Func
  <2>4. CASE Top.func = 0
    BY <1>1, <2>1, <2>4 DEF Visible, Present
  <2>5. CASE Top.func > 0
    BY <1>1, <2>1, <2>2, <2>5 DEF Visible, Present
  <2> QED
    BY <2>3, <2>4, <2>5
<1> DEFINE CoveredNext(b) ==
      \A f \in DOMAIN config : Visible(f) /\ f[1] = b =>
        \/ f \in Reported'
        \/ \E k \in 1 .. Len(stack') : stack'[k].bus = b /\ ~Passed(f, stack'[k])
<1>8. ASSUME NEW b, Covered(b, stack)
      PROVE  CoveredNext(b)
  <2> SUFFICES ASSUME NEW f \in DOMAIN config, Visible(f), f[1] = b,
                      f \notin Reported'
               PROVE  \E k \in 1 .. Len(stack') :
                        stack'[k].bus = b /\ ~Passed(f, stack'[k])
    OBVIOUS
  <2>1. f \notin Reported /\ f # Slot
    BY <1>4
  <2>2. PICK k \in 1 .. Len(stack) : stack[k].bus = b /\ ~Passed(f, stack[k])
    BY <1>8, <2>1 DEF Covered
  <2>3. rest[k].bus = b /\ ~Passed(f, rest[k])
    BY <1>3, <2>1, <2>2
  <2>4. stack'[k] = rest[k] /\ k \in 1 .. Len(stack')
    BY <1>3, <1>6
  <2> QED
    BY <2>3, <2>4
<1>9. config[Slot].bridge => CoveredNext(s)
  <2> SUFFICES ASSUME config[Slot].bridge, NEW f \in DOMAIN config
               PROVE  \E k \in 1 .. Len(stack') :
                        stack'[k].bus = s /\ ~Passed(f, stack'[k])
    OBVIOUS
  <2>1. Frame(s).bus = s /\ Frame(s).dev = 0 /\ Frame(s).func = 0
    BY DEF Frame
  <2>2. f[2] \in Nat /\ f[3] \in Nat
    <3>1. f \in Location
      BY <1>2 DEF TypeOK
    <3> QED
      BY <3>1, PciScanAssumption DEF Location, Dev, Func
  <2>3. ~Passed(f, Frame(s))
    BY <2>1, <2>2 DEF Passed
  <2> QED
    BY <1>6, <2>1, <2>3
<1>10. /\ commands > 0 => CoveredNext(0)
       /\ \A g \in Reported' : config[g].bridge => CoveredNext(config[g].secondary)
  <2> HIDE DEF CoveredNext
  <2>1. \A g \in Reported : config[g].bridge => CoveredNext(config[g].secondary)
    BY <1>8 DEF CompleteInv
  <2>2. commands > 0 => CoveredNext(0)
    BY <1>8 DEF CompleteInv
  <2> QED
    BY <1>4, <1>9, <2>1, <2>2
<1>11. FramesVisible(stack')
  BY <1>3, <1>6 DEF FramesVisible, Frame
<1>12. ASSUME NEW S \in SUBSET Bus, Closed(S)
       PROVE  /\ \A f \in Reported' : f[1] \in S
              /\ \A k \in 1 .. Len(stack') : stack'[k].bus \in S
  <2>1. /\ \A f \in Reported : f[1] \in S
        /\ \A k \in 1 .. Len(stack) : stack[k].bus \in S
    BY <1>12 DEF CompleteInv, WithinClosed
  <2>2. Slot[1] \in S
    BY <1>3, <2>1 DEF Slot, Top
  <2>3. config[Slot].bridge => s \in S
    BY <1>1, <1>7, <1>12, <2>2 DEF Closed
  <2>4. \A k \in 1 .. Len(rest) : rest[k].bus \in S
    BY <1>3, <2>1
  <2>5. \A k \in 1 .. Len(stack') : stack'[k].bus \in S
    <3>1. ASSUME NEW k \in 1 .. Len(stack')
          PROVE  stack'[k].bus \in S
      <4>1. CASE k \in 1 .. Len(rest)
        BY <1>6, <2>4, <4>1
      <4>2. CASE k \notin 1 .. Len(rest)
        <5>1. stack'[k] = Frame(s)
          BY <1>6, <4>2
        <5>2. config[Slot].bridge
          BY <1>6, <4>2
        <5> QED
          BY <2>3, <5>1, <5>2 DEF Frame
      <4> QED
        BY <4>1, <4>2
    <3> QED
      BY <3>1
  <2> QED
    BY <1>4, <2>1, <2>2, <2>5
<1>13. \A g \in Reported' : g \in DOMAIN config /\ Visible(g)
  BY <1>1, <1>4, <1>7 DEF CompleteInv
<1>14. pc # "idle" /\ pc # "hosts" /\ commands # 0
  BY <1>2 DEF CompleteInv
<1>15. config' = config /\ pc' = pc /\ commands' = commands
  BY <1>1
<1>16. WithinClosed(stack)'
  BY <1>12, <1>15 DEF WithinClosed, Closed, Visible, Present
<1>17. FramesVisible(stack)'
  BY <1>11, <1>15 DEF FramesVisible
<1>18. (/\ commands > 0 => Covered(0, stack)
        /\ \A g \in Reported :
             config[g].bridge => Covered(config[g].secondary, stack))'
  BY <1>10, <1>15 DEF Covered, Visible, Present
<1>19. (\A g \in Reported : g \in DOMAIN config /\ Visible(g))'
  BY <1>13, <1>15 DEF Visible, Present
<1> QED
  BY <1>14, <1>15, <1>16, <1>17, <1>18, <1>19 DEF CompleteInv

LEMMA CompleteReturn ==
  ASSUME Inv, CompleteInv, ScanReturn
  PROVE  CompleteInv'
<1>1. /\ stack # <<>> /\ Top.dev = kDevs
      /\ stack' = SubSeq(stack, 1, Len(stack) - 1)
      /\ pc' = IF Len(stack) = 1 /\ pc = "single" THEN "idle" ELSE pc
      /\ UNCHANGED <<config, pci_devices, host, commands>>
  BY DEF ScanReturn
<1>2. stack \in Seq(Frames) /\ Len(stack) \in Nat \ {0} /\ TypeOK
  BY <1>1 DEF Inv, TypeOK, Frames
<1>3. /\ Len(stack') = Len(stack) - 1 /\ stack' \in Seq(Frames)
      /\ \A k \in 1 .. Len(stack') : stack'[k] = stack[k] /\ k \in 1 .. Len(stack)
  <2>1. /\ stack' \in Seq(Frames) /\ Len(stack') = Len(stack) - 1
        /\ \A k \in 1 .. Len(stack) - 1 : stack'[k] = stack[k]
    BY <1>1, <1>2, Popped
  <2> QED
    BY <1>2, <2>1
<1>4. Reported' = Reported
  BY <1>1 DEF Reported
<1>5. \A f \in DOMAIN config : Passed(f, stack[Len(stack)])
  <2>0. DOMAIN config \subseteq Location
    BY <1>2 DEF TypeOK
  <2>1. \A f \in DOMAIN config : f[2] \in Nat /\ f[2] < kDevs
    BY <2>0, PciScanAssumption DEF Location, Dev
  <2> QED
    BY <1>1, <2>1 DEF Passed, Top
<1>6. ASSUME NEW b, Covered(b, stack)
      PROVE  Covered(b, stack')
  <2> SUFFICES ASSUME NEW f \in DOMAIN config, Visible(f), f[1] = b, f \notin Reported
               PROVE  \E k \in 1 .. Len(stack') :
                        stack'[k].bus = b /\ ~Passed(f, stack'[k])
    BY DEF Covered
  <2>1. PICK k \in 1 .. Len(stack) : stack[k].bus = b /\ ~Passed(f, stack[k])
    BY <1>6 DEF Covered
  <2>2. k # Len(stack)
    BY <1>5, <2>1
  <2>3. k \in 1 .. Len(stack')
    BY <1>2, <1>3, <2>2
  <2> QED
    BY <1>3, <2>1, <2>3
<1>7. /\ commands > 0 => Covered(0, stack')
      /\ \A g \in Reported : config[g].bridge => Covered(config[g].secondary, stack')
  BY <1>6 DEF CompleteInv
<1>8. FramesVisible(stack') /\ WithinClosed(stack')
  BY <1>3 DEF CompleteInv, FramesVisible, WithinClosed
<1>9. pc' # "hosts" /\ (pc' = "idle" => stack' = <<>>) /\ commands # 0
  <2>1. pc # "idle" /\ pc # "hosts" /\ commands # 0
    BY <1>1 DEF CompleteInv
  <2>2. pc' = "idle" => Len(stack') = 0
    BY <1>1, <1>3, <2>1
  <2> QED
    BY <1>1, <1>3, <2>1, <2>2, EmptySeq
<1> QED
  BY <1>1, <1>4, <1>7, <1>8, <1>9
     DEF CompleteInv, Covered, FramesVisible, WithinClosed, Closed, Visible, Present

LEMMA CompleteNext == CInv /\ [Next]_vars => CInv'
<1> SUFFICES ASSUME CInv, [Next]_vars, Single' PROVE CompleteInv'
  BY InvNext DEF CInv
<1>0. config' = config
  BY DEF Next, Scan, Command, HostBreak, HostScan, Skip, ScanFunc, ScanReturn, vars
<1>a. Single /\ CompleteInv /\ Inv
  BY <1>0 DEF CInv, Single, IsSingleFunctionDevice, Present
<1>1. CASE Command
  <2>1. pc = "idle" /\ stack = <<>> /\ pci_devices' = pci_devices
        /\ commands' = commands + 1 /\ Len(stack) = 0 /\ Reported' = Reported
    BY <1>1, <1>a DEF Command, CompleteInv, Reported
  <2>2. commands \in Nat
    BY <1>a, PciScanAssumption DEF Inv, TypeOK
  <2>3. CASE pci_devices # <<>>
    <3>1. stack' = stack /\ pc' = pc /\ commands > 0
      BY <1>1, <1>a, <2>2, <2>3 DEF Command, CompleteInv
    <3> QED
      BY <1>0, <1>a, <2>1, <2>2, <3>1
         DEF CompleteInv, Covered, FramesVisible, WithinClosed, Closed, Visible, Present
  <2>4. CASE pci_devices = <<>>
    <3>1. pc' = "single" /\ stack' = <<Frame(0)>>
      BY <1>1, <1>a, <2>4 DEF Command, Single
    <3>2. /\ Len(stack') = 1 /\ stack'[1].bus = 0 /\ stack'[1].dev = 0
          /\ stack'[1].func = 0
      BY <3>1 DEF Frame
    <3>3. Reported = {}
      BY <2>4 DEF Reported
    <3>4. ASSUME NEW f \in DOMAIN config PROVE ~Passed(f, stack'[1])
      <4>0. f \in Location
        BY <1>a DEF Inv, TypeOK
      <4>1. f[2] \in Nat /\ f[3] \in Nat
        BY <4>0, PciScanAssumption DEF Location, Dev, Func
      <4> QED
        BY <3>2, <4>1 DEF Passed
    <3>5. \A f \in DOMAIN config :
            \E k \in 1 .. Len(stack') : stack'[k].bus = 0 /\ ~Passed(f, stack'[k])
      BY <3>2, <3>4
    <3>6. FramesVisible(stack') /\ WithinClosed(stack')
      BY <3>2, <3>3 DEF FramesVisible, WithinClosed, Closed
    <3> QED
      BY <1>0, <2>1, <2>2, <3>1, <3>3, <3>5, <3>6
         DEF CompleteInv, Covered, FramesVisible, WithinClosed, Closed, Visible, Present
  <2> QED
    BY <2>3, <2>4
<1>2. CASE HostBreak \/ HostScan
  BY <1>2, <1>a DEF HostBreak, HostScan, CompleteInv
<1>3. CASE Skip
  BY <1>3, <1>a, CompleteSkip
<1>4. CASE ScanFunc
  BY <1>4, <1>a, CompleteScanFunc
<1>5. CASE ScanReturn
  BY <1>5, <1>a, CompleteReturn
<1>6. CASE UNCHANGED vars
  BY <1>6, <1>a DEF vars, CompleteInv, Reported, Covered, FramesVisible,
     WithinClosed, Closed, Visible, Present
<1> QED
  BY <1>1, <1>2, <1>3, <1>4, <1>5, <1>6 DEF Next, Scan

LEMMA CompleteReachable == CInv => ScanComplete
<1> SUFFICES ASSUME CInv, pc = "idle", commands > 0, Single
             PROVE  Reported = Reachable
  BY DEF ScanComplete, Single, Reported
<1>1. CompleteInv /\ Len(stack) = 0 /\ TypeOK /\ config \in Configs
  BY DEF CInv, CompleteInv, Inv
<1>2. Reported \subseteq Reachable
  BY <1>1 DEF CompleteInv, WithinClosed, Reachable
<1>3. ASSUME NEW f \in Reachable PROVE f \in Reported
  <2> DEFINE S == {b \in Bus : b = 0 \/ \E g \in Reported :
                                 config[g].bridge /\ config[g].secondary = b}
  <2>1. \A b \in S : Covered(b, stack)
    BY <1>1 DEF CompleteInv
  <2>2. \A g \in DOMAIN config : g[1] \in S /\ Visible(g) => g \in Reported
    BY <1>1, <2>1 DEF Covered
  <2>3. Closed(S)
    <3>1. 0 \in S
      BY PciScanAssumption DEF Bus
    <3>2. ASSUME NEW g \in DOMAIN config, g[1] \in S, Visible(g), config[g].bridge
          PROVE  config[g].secondary \in S
      <4>1. g \in Reported
        BY <2>2, <3>2
      <4>2. config[g].secondary \in Bus
        BY <1>1, <3>2, SecondaryAbove
      <4> QED
        BY <3>2, <4>1, <4>2
    <3> HIDE DEF S
    <3> QED
      BY <3>1, <3>2 DEF Closed
  <2>4. S \in SUBSET Bus
    OBVIOUS
  <2> HIDE DEF S
  <2>5. f[1] \in S /\ Visible(f) /\ f \in DOMAIN config
    BY <2>3, <2>4 DEF Reachable
  <2> QED
    BY <2>2, <2>5
<1> QED
  BY <1>2, <1>3

(* After a command the table holds exactly the functions that bus 0 leads  *)
(* to, if the host bridge has a single function, for any numbered buses.   *)
THEOREM TableComplete == Spec => []ScanComplete
  BY CompleteInit, CompleteNext, CompleteReachable, PTL DEF Spec

(* The commands, with their searches and the walk, go through the steps of *)
(* PciScan, so that what is proved of those holds for them.                *)
THEOREM CommandsKeepScan == CSpec => Spec
<1>1. CInit => Init
  BY DEF CInit
<1>2. [CNext]_commandVars => [Next]_vars
  BY DEF CNext, Enter, FillTable, Find, Walk, XhciReturn, Next, commandVars
<1> QED
  BY <1>1, <1>2, PTL DEF CSpec, Spec

-----------------------------------------------------------------------------
(* What the commands make of the table.                                    *)
SearchDone ==
  /\ stage \in {"idle", "table", "walk", "xhci"}
  /\ commands = 0 => stage = "idle"
  /\ stage # "table" /\ commands > 0 =>
       /\ pc = "idle"
       /\ found # 0 <=> Search # {}
       /\ found # 0 => found \in Search

FInv == CInv /\ (Single => SearchDone)

LEMMA FInvInit == CInit => FInv
  BY CompleteInit DEF CInit, Init, FInv, SearchDone

LEMMA FInvNext == FInv /\ [CNext]_commandVars => FInv'
<1> SUFFICES ASSUME FInv, [CNext]_commandVars, Single' PROVE SearchDone'
  <2>1. [CNext]_commandVars => [Next]_vars
    BY DEF CNext, Enter, FillTable, Find, Walk, XhciReturn, Next, commandVars
  <2> QED
    BY <2>1, CompleteNext DEF FInv
<1>0. [Next]_vars /\ config' = config
  BY DEF CNext, Enter, FillTable, Find, Walk, XhciReturn, Next, commandVars,
     Scan, Command, HostBreak, HostScan, Skip, ScanFunc, ScanReturn, vars
<1>a. Single /\ SearchDone /\ CompleteInv /\ Inv /\ commands \in Nat
  BY <1>0, PciScanAssumption
     DEF FInv, CInv, Single, IsSingleFunctionDevice, Present, Inv, TypeOK
<1>1. CASE Enter
  BY <1>1, <1>a DEF Enter, Command, SearchDone
<1>2. CASE FillTable
  <2>1. pc # "idle"
    BY <1>2, <1>a DEF FillTable, Scan, HostBreak, HostScan, Skip, ScanFunc,
       ScanReturn, Scanning, CompleteInv
  <2>2. stage' = stage /\ commands' = commands
    BY <1>2 DEF FillTable, Scan, HostBreak, HostScan, Skip, ScanFunc, ScanReturn
  <2> QED
    BY <1>a, <2>1, <2>2 DEF SearchDone, CompleteInv
<1>3. CASE Find
  <2>1. /\ stage = "table" /\ pc = "idle" /\ UNCHANGED <<vars, machine, typed>>
        /\ stage' \in {"idle", "walk", "xhci"}
        /\ \/ Search = {} /\ found' = 0
           \/ Search # {} /\ found' \in Search
    BY <1>3 DEF Find
  <2>2. Search' = Search /\ pc' = pc /\ commands' = commands
    BY <2>1 DEF Search, Wanted, vars, machine, typed
  <2>3. 0 \notin Search
    BY DEF Search
  <2> QED
    BY <1>a, <2>1, <2>2, <2>3 DEF SearchDone
<1>4. CASE Walk \/ XhciReturn \/ UNCHANGED commandVars
  <2>1. /\ UNCHANGED <<vars, machine, typed, found>>
        /\ \/ stage \in {"walk", "xhci"} /\ stage' \in {"walk", "idle"}
           \/ stage' = stage
    BY <1>4 DEF Walk, XhciReturn, commandVars, walk
  <2>2. Search' = Search /\ pc' = pc /\ commands' = commands /\ found' = found
    BY <2>1 DEF Search, Wanted, vars, machine, typed
  <2> QED
    BY <1>a, <2>1, <2>2 DEF SearchDone
<1> QED
  BY <1>1, <1>2, <1>3, <1>4 DEF CNext

(* The commands find a device exactly if bus 0 leads to one they look for, *)
(* if the host bridge has a single function.                               *)
THEOREM SearchFinds == CSpec => []FindsReachable
<1>1. FInv => FindsReachable
  <2> SUFFICES ASSUME FInv, stage \in {"idle", "xhci"}, commands > 0, Single
               PROVE  /\ found # 0 <=> Wanted \cap Reachable # {}
                      /\ found # 0 => pci_devices[found] \in Wanted
    BY DEF FindsReachable, Single
  <2>1. SearchDone /\ pc = "idle"
    BY DEF FInv, SearchDone
  <2>2. Reported = Reachable
    BY <2>1, CompleteReachable DEF FInv, ScanComplete, Single, Reported
  <2>3. Search # {} <=> Wanted \cap Reported # {}
    BY DEF Search, Reported
  <2> QED
    BY <2>1, <2>2, <2>3 DEF SearchDone, Search
<1> QED
  BY <1>1, FInvInit, FInvNext, PTL DEF CSpec

-----------------------------------------------------------------------------
(* The walk along the capabilities l: where it stands after the words sh.  *)
OnList(l, sh, ptr) ==
  /\ \A k \in 1 .. Len(sh) : sh[k] \in Linked(l)
  /\ \A k \in 1 .. Len(sh) - 1 :
       l.next[sh[k]] # 0 /\ WordOf(l.next[sh[k]]) = sh[k + 1]
  /\ sh = <<>> => ptr = l.first
  /\ sh # <<>> => /\ ptr = l.next[sh[Len(sh)]]
                  /\ l.first # 0 /\ WordOf(l.first) = sh[1]
  /\ \A j, k \in 1 .. Len(sh) : sh[j] = sh[k] => j = k

Chosen == command = "show" /\ found # 0

WInv ==
  /\ Inv /\ Reported \subseteq DOMAIN config
  /\ caps \in [DOMAIN config -> List]
  /\ shown \in Seq(Word)
  /\ stage = "table" => shown = <<>> /\ found = 0
  /\ stage = "walk" => Chosen /\ cap_ptr \in Pointers
  /\ stage = "xhci" => ~Chosen
  /\ Chosen => caps[target] \in List
  /\ Chosen /\ Ends(caps[target]) =>
       /\ OnList(caps[target], shown, cap_ptr)
       /\ stage = "idle" => cap_ptr = 0

LEMMA PointerWord ==
  ASSUME NEW p \in Pointers
  PROVE  p \in Nat /\ WordOf(p) \in Word
  BY PciCommandsAssumption DEF WordOf, Word

LEMMA LinkedStep ==
  ASSUME NEW l \in List
  PROVE  /\ l.first # 0 => WordOf(l.first) \in Linked(l)
         /\ \A w \in Linked(l) : l.next[w] # 0 => WordOf(l.next[w]) \in Linked(l)
<1>1. l.first \in Pointers /\ \A w \in Word : l.next[w] \in Pointers
  BY DEF List
<1> QED
  BY <1>1, PointerWord DEF Linked

(* A list that ends leads the walk to a word it has not shown.             *)
LEMMA NewWord ==
  ASSUME NEW l \in List, Ends(l), NEW sh \in Seq(Word), NEW ptr, ptr # 0,
         OnList(l, sh, ptr)
  PROVE  /\ WordOf(ptr) \in Linked(l)
         /\ \A k \in 1 .. Len(sh) : sh[k] # WordOf(ptr)
<1> DEFINE n == Len(sh)
<1>1. n \in Nat /\ (sh = <<>> <=> n = 0)
  BY EmptySeq
<1>2. WordOf(ptr) \in Linked(l)
  BY <1>1, LinkedStep DEF OnList
<1>3. ASSUME NEW j \in 1 .. n, sh[j] = WordOf(ptr)
      PROVE  FALSE
  <2> DEFINE S == {sh[k] : k \in j .. n}
  <2>1. S \subseteq Linked(l) /\ sh[j] \in S
    BY <1>1 DEF OnList
  <2>2. ASSUME NEW k \in j .. n
        PROVE  l.next[sh[k]] # 0 /\ WordOf(l.next[sh[k]]) \in S
    <3>1. CASE k = n
      <4>1. ptr = l.next[sh[n]]
        BY <1>1, <1>3 DEF OnList
      <4> QED
        BY <1>3, <2>1, <3>1, <4>1
    <3>2. CASE k # n
      <4>1. k \in 1 .. n - 1 /\ k + 1 \in j .. n
        BY <1>1, <3>2
      <4>2. l.next[sh[k]] # 0 /\ WordOf(l.next[sh[k]]) = sh[k + 1]
        BY <4>1 DEF OnList
      <4> QED
        BY <4>1, <4>2
    <3> QED
      BY <3>1, <3>2
  <2>3. \A w \in S : l.next[w] # 0 /\ WordOf(l.next[w]) \in S
    BY <2>2
  <2>4. S \in SUBSET Linked(l) /\ S # {}
    BY <2>1
  <2> HIDE DEF S
  <2> QED
    BY <2>3, <2>4 DEF Ends
<1> QED
  BY <1>2, <1>3

(* More than kWords words cannot differ.                                   *)
LEMMA RoomLeft ==
  ASSUME NEW sh \in Seq(Word), NEW w \in Word,
         \A j, k \in 1 .. Len(sh) : sh[j] = sh[k] => j = k,
         \A k \in 1 .. Len(sh) : sh[k] # w
  PROVE  Len(sh) # kWords
<1> SUFFICES ASSUME Len(sh) = kWords PROVE FALSE
  OBVIOUS
<1>1. kWords \in Nat
  BY PciCommandsAssumption
<1>2. IsFiniteSet(1 .. kWords) /\ Cardinality(1 .. kWords) = kWords
  BY <1>1, FS_Interval
<1>3. IsFiniteSet(Word) /\ Cardinality(Word) = kWords
  BY <1>1, FS_Interval, PciCommandsAssumption DEF Word
<1>4. sh \in Injection(1 .. kWords, Word)
  BY DEF Injection, IsInjective
<1>5. sh \in Surjection(1 .. kWords, Word)
  BY <1>2, <1>3, <1>4, FS_Injection
<1>6. \E k \in 1 .. kWords : sh[k] = w
  BY <1>5 DEF Surjection
<1> QED
  BY <1>6

LEMMA OnListStep ==
  ASSUME NEW l \in List, NEW sh \in Seq(Word), NEW ptr, ptr # 0,
         OnList(l, sh, ptr), WordOf(ptr) \in Linked(l), WordOf(ptr) \in Word,
         \A k \in 1 .. Len(sh) : sh[k] # WordOf(ptr)
  PROVE  OnList(l, Append(sh, WordOf(ptr)), l.next[WordOf(ptr)])
<1> DEFINE w == WordOf(ptr)
           n == Len(sh)
           new == Append(sh, w)
<1>1. /\ n \in Nat /\ Len(new) = n + 1 /\ new[n + 1] = w /\ new # <<>>
      /\ \A k \in 1 .. n : new[k] = sh[k]
      /\ sh = <<>> <=> n = 0
  BY AppendProperties, EmptySeq
<1>w. w = WordOf(ptr) /\ w \in Linked(l) /\ \A k \in 1 .. n : sh[k] # w
  OBVIOUS
<1>n. n = Len(sh)
  OBVIOUS
<1> HIDE DEF w, n, new
<1>2. \A k \in 1 .. n + 1 : new[k] \in Linked(l)
  BY <1>1, <1>w, <1>n DEF OnList
<1>3. ASSUME NEW k \in 1 .. n
      PROVE  l.next[new[k]] # 0 /\ WordOf(l.next[new[k]]) = new[k + 1]
  <2>1. CASE k = n
    <3>1. ptr = l.next[sh[n]]
      BY <1>1, <1>n, <1>3 DEF OnList
    <3> QED
      BY <1>1, <1>w, <2>1, <3>1
  <2>2. CASE k # n
    <3>1. k \in 1 .. n - 1 /\ k + 1 \in 1 .. n
      BY <1>1, <2>2
    <3>2. l.next[sh[k]] # 0 /\ WordOf(l.next[sh[k]]) = sh[k + 1]
      BY <1>n, <3>1 DEF OnList
    <3> QED
      BY <1>1, <3>1, <3>2
  <2> QED
    BY <2>1, <2>2
<1>4. l.first # 0 /\ WordOf(l.first) = new[1]
  <2>1. CASE n = 0
    BY <1>1, <1>w, <2>1 DEF OnList
  <2>2. CASE n # 0
    BY <1>1, <2>2 DEF OnList
  <2> QED
    BY <2>1, <2>2
<1>5. \A j, k \in 1 .. n + 1 : new[j] = new[k] => j = k
  <2>1. \A j, k \in 1 .. n : sh[j] = sh[k] => j = k
    BY <1>n DEF OnList
  <2> QED
    BY <1>1, <1>w, <2>1
<1>6. \A k \in 1 .. Len(new) - 1 :
        l.next[new[k]] # 0 /\ WordOf(l.next[new[k]]) = new[k + 1]
  BY <1>1, <1>3
<1>7. OnList(l, new, l.next[w])
  BY <1>1, <1>2, <1>4, <1>5, <1>6 DEF OnList
<1> QED
  BY <1>7 DEF new, w

LEMMA WInvInit == CInit => WInv
<1> SUFFICES ASSUME CInit PROVE WInv
  OBVIOUS
<1>1. Init /\ Inv /\ config \in Configs
  BY InvInit DEF CInit, Inv
<1>2. caps \in [DOMAIN config -> List]
  BY <1>1, PciCommandsAssumption DEF CInit
<1>3. Reported = {} /\ shown = <<>> /\ ~Chosen /\ stage = "idle"
  BY <1>1 DEF Init, CInit, Reported, Chosen
<1> QED
  BY <1>1, <1>2, <1>3 DEF WInv

LEMMA WInvNext == WInv /\ [CNext]_commandVars => WInv'
<1> SUFFICES ASSUME WInv, [CNext]_commandVars PROVE WInv'
  OBVIOUS
<1>0. [Next]_vars /\ config' = config /\ caps' = caps
  BY DEF CNext, Enter, FillTable, Find, Walk, XhciReturn, Next, commandVars,
     Scan, Command, HostBreak, HostScan, Skip, ScanFunc, ScanReturn, vars, machine
<1>a. Inv /\ Inv' /\ TypeOK /\ pci_devices \in Seq(Location)
  BY <1>0, InvNext DEF WInv, Inv, TypeOK
<1>b. Reported' \subseteq DOMAIN config
  <2>1. pci_devices' = pci_devices => Reported' = Reported
    BY DEF Reported
  <2>2. CASE ScanFunc
    <3>1. Slot \in DOMAIN config /\ Slot \in Location
          /\ pci_devices' = Append(pci_devices, Slot)
      BY <1>a, <2>2, TopFrame DEF ScanFunc, Present
    <3> QED
      BY <1>a, <3>1, ReportedGrows DEF WInv
  <2>3. ~ScanFunc => pci_devices' = pci_devices
    BY <1>0 DEF Next, Scan, Command, HostBreak, HostScan, Skip, ScanReturn, vars
  <2> QED
    BY <2>1, <2>2, <2>3 DEF WInv
<1>1. CASE Enter
  <2>1. /\ stage' = "table" /\ found' = 0 /\ shown' = <<>>
    BY <1>1 DEF Enter
  <2> QED
    BY <1>0, <1>a, <1>b, <2>1 DEF WInv, Chosen
<1>2. CASE FillTable \/ UNCHANGED commandVars
  <2>1. UNCHANGED <<command, target, stage, found, cap_ptr, shown>>
    BY <1>2 DEF FillTable, commandVars, typed, walk
  <2> QED
    BY <1>0, <1>a, <1>b, <2>1 DEF WInv, Chosen
<1>3. CASE Find
  <2>1. /\ stage = "table" /\ UNCHANGED <<command, target, shown>>
        /\ shown = <<>> /\ found = 0 /\ stage' \in {"idle", "walk", "xhci"}
    BY <1>3 DEF Find, typed, walk, WInv
  <2>2. CASE ~Chosen'
    <3>1. stage' \in {"idle", "xhci"}
      BY <1>3, <2>2 DEF Find, typed, Chosen, Search
    <3> QED
      BY <1>0, <1>a, <1>b, <2>1, <2>2, <3>1 DEF WInv
  <2>3. CASE Chosen'
    <3>1. /\ command = "show" /\ Search # {} /\ cap_ptr' = caps[target].first
          /\ stage' = "walk"
      BY <1>3, <2>1, <2>3 DEF Chosen, Find
    <3>2. target \in Reported
      BY <3>1 DEF Search, Wanted, Reported
    <3>3. caps[target] \in List
      BY <3>2 DEF WInv
    <3>4. OnList(caps[target], shown', cap_ptr')
      BY <2>1, <3>1 DEF OnList
    <3>5. cap_ptr' \in Pointers
      BY <3>1, <3>3 DEF List
    <3> QED
      BY <2>3, <3>5, <1>0, <1>a, <1>b, <2>1, <3>1, <3>3, <3>4 DEF WInv
  <2> QED
    BY <2>2, <2>3
<1>4. CASE Walk
  <2>1. /\ stage = "walk" /\ UNCHANGED <<command, target, found>>
        /\ Chosen' = Chosen
    BY <1>4 DEF Walk, typed, Chosen
  <2>2. CASE cap_ptr = 0
    <3>1. UNCHANGED <<cap_ptr, shown>> /\ stage' = "idle"
      BY <1>4, <2>2 DEF Walk, walk
    <3> QED
      BY <1>0, <1>a, <1>b, <2>1, <2>2, <3>1 DEF WInv
  <2>3. CASE cap_ptr # 0
    <3> DEFINE l == caps[target]
               w == WordOf(cap_ptr)
               n == Len(shown)
    <3>1. /\ cap_ptr' = l.next[w] /\ stage' = "walk"
          /\ shown' = IF n = kWords THEN shown ELSE Append(shown, w)
      BY <1>4, <2>1, <2>3 DEF Walk
    <3>2. shown \in Seq(Word) /\ n \in Nat
      BY DEF WInv
    <3>3. shown' \in Seq(Word)
      <4>1. w \in Word
        BY <2>1, PointerWord DEF WInv
      <4> HIDE DEF l, w
      <4> QED
        BY <3>1, <3>2, <4>1
    <3>5. Chosen /\ cap_ptr' \in Pointers
      <4>1. l \in List /\ w \in Word /\ Chosen
        BY <2>1, PointerWord DEF WInv
      <4> QED
        BY <3>1, <4>1 DEF List
    <3>4. ASSUME Chosen, Ends(l)
          PROVE  OnList(l, shown', cap_ptr')
      <4>1. l \in List /\ OnList(l, shown, cap_ptr)
        BY <3>4 DEF WInv
      <4>2. w \in Linked(l) /\ \A k \in 1 .. n : shown[k] # w
        BY <2>3, <3>2, <3>4, <4>1, NewWord
      <4>3. w \in Word
        BY <4>2 DEF Linked
      <4>4. n # kWords
        BY <3>2, <4>1, <4>2, <4>3, RoomLeft DEF OnList
      <4>5. OnList(l, Append(shown, w), l.next[w])
        BY <2>3, <3>2, <4>1, <4>2, <4>3, OnListStep
      <4> QED
        BY <3>1, <4>4, <4>5
    <3> QED
      BY <1>0, <1>a, <1>b, <2>1, <3>1, <3>3, <3>4, <3>5 DEF WInv
  <2> QED
    BY <2>2, <2>3
<1>5. CASE XhciReturn
  <2>1. /\ stage = "xhci" /\ stage' = "idle"
        /\ UNCHANGED <<command, target, found, cap_ptr, shown>>
    BY <1>5 DEF XhciReturn, typed, walk
  <2>2. ~Chosen /\ Chosen' = Chosen
    BY <2>1 DEF WInv, Chosen
  <2> QED
    BY <1>0, <1>a, <1>b, <2>1, <2>2 DEF WInv
<1> QED
  BY <1>1, <1>2, <1>3, <1>4, <1>5 DEF CNext

(* lspci prints every capability of a list that ends, once each.           *)
THEOREM WalkShowsAll == CSpec => []CapsShown
<1>1. WInv => CapsShown
  <2> SUFFICES ASSUME WInv, Chosen, Ends(caps[target])
               PROVE  /\ \A j, k \in 1 .. Len(shown) : shown[j] = shown[k] => j = k
                      /\ stage = "idle" =>
                           {shown[k] : k \in 1 .. Len(shown)} = Linked(caps[target])
    BY DEF CapsShown, Chosen
  <2> DEFINE l == caps[target]
             S == {shown[k] : k \in 1 .. Len(shown)}
  <2>1. /\ OnList(l, shown, cap_ptr) /\ l \in List /\ shown \in Seq(Word)
        /\ stage = "idle" => cap_ptr = 0
    BY DEF WInv
  <2>2. Len(shown) \in Nat /\ (shown = <<>> <=> Len(shown) = 0)
    BY <2>1, EmptySeq
  <2>3. S \subseteq Linked(l)
    BY <2>1 DEF OnList
  <2>4. ASSUME cap_ptr = 0 PROVE Linked(l) \subseteq S
    <3>1. l.first # 0 => WordOf(l.first) \in S
      BY <2>1, <2>2, <2>4 DEF OnList
    <3>2. ASSUME NEW k \in 1 .. Len(shown), l.next[shown[k]] # 0
          PROVE  WordOf(l.next[shown[k]]) \in S
      <4>1. k # Len(shown)
        BY <2>1, <2>2, <2>4, <3>2 DEF OnList
      <4>2. k \in 1 .. Len(shown) - 1 /\ k + 1 \in 1 .. Len(shown)
        BY <2>2, <4>1
      <4>3. WordOf(l.next[shown[k]]) = shown[k + 1]
        BY <2>1, <4>2 DEF OnList
      <4> QED
        BY <4>2, <4>3
    <3>3. \A v \in S : l.next[v] # 0 => WordOf(l.next[v]) \in S
      BY <3>2
    <3>4. S \in SUBSET Word
      BY <2>1
    <3> HIDE DEF S
    <3> QED
      BY <3>1, <3>3, <3>4 DEF Linked
  <2> QED
    BY <2>1, <2>3, <2>4 DEF OnList
<1> QED
  BY <1>1, WInvInit, WInvNext, PTL DEF CSpec

(* The capabilities of l that are not among the words sh.                  *)
CapsAhead(l, sh) == Linked(l) \ {sh[k] : k \in 1 .. Len(sh)}
ShowsNew ==
  Walk /\ cap_ptr # 0 /\ Ends(caps[target]) =>
    /\ CapsAhead(caps[target], shown') \subseteq CapsAhead(caps[target], shown)
    /\ CapsAhead(caps[target], shown') # CapsAhead(caps[target], shown)

(* Unless the list is a circle, every round of the loop leaves fewer       *)
(* capabilities to show, so that lspci returns after as many rounds as     *)
(* there are, and one for the pointer of 0 (command.cpp 109-129).          *)
THEOREM WalkComesCloser == CSpec => [][ShowsNew]_commandVars
<1>1. WInv /\ [CNext]_commandVars => [ShowsNew]_commandVars
  <2> SUFFICES ASSUME WInv, Walk, cap_ptr # 0, Ends(caps[target])
               PROVE  /\ CapsAhead(caps[target], shown')
                           \subseteq CapsAhead(caps[target], shown)
                      /\ CapsAhead(caps[target], shown')
                           # CapsAhead(caps[target], shown)
    BY DEF ShowsNew
  <2> DEFINE l == caps[target]
             w == WordOf(cap_ptr)
             n == Len(shown)
  <2>1. Chosen /\ l \in List /\ OnList(l, shown, cap_ptr) /\ shown \in Seq(Word)
    BY DEF Walk, WInv
  <2>2. n \in Nat
    BY <2>1
  <2>3. w \in Linked(l) /\ \A k \in 1 .. n : shown[k] # w
    BY <2>1, NewWord
  <2>4. w \in Word
    BY <2>3 DEF Linked
  <2>5. n # kWords
    BY <2>1, <2>3, <2>4, RoomLeft DEF OnList
  <2>6. shown' = Append(shown, w)
    BY <2>5 DEF Walk
  <2> HIDE DEF l, w
  <2>7. /\ Len(shown') = n + 1 /\ shown'[n + 1] = w
        /\ \A k \in 1 .. n : shown'[k] = shown[k]
    BY <2>1, <2>4, <2>6, AppendProperties
  <2>8. CapsAhead(l, shown') \subseteq CapsAhead(l, shown)
    BY <2>2, <2>7 DEF CapsAhead
  <2>9. w \in CapsAhead(l, shown) /\ w \notin CapsAhead(l, shown')
    BY <2>2, <2>3, <2>7 DEF CapsAhead
  <2> QED BY <2>8, <2>9 DEF l
<1> QED
  BY <1>1, WInvInit, WInvNext, PTL DEF CSpec
=============================================================================

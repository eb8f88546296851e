--------------------------- MODULE KeyboardProofs ---------------------------
(***************************************************************************)
(* Proofs about the keyboard path of main.cpp for every capacity of the    *)
(* queue, every set of scan codes and all key tables.                      *)
(***************************************************************************)
EXTENDS Keyboard, ArrayQueueLemmas

(* What the loop knows between Lock and Unlock, and the handler between    *)
(* TryLock and Unlock.                                                     *)
LockWord == flag = kFlagged <=> LoopCritical \/ isr \in {"push", "unlock"}

LoopKnows ==
  /\ pc \in {"front", "pop", "pop_store"} => count # 0
  /\ pc \in {"pop", "pop_store"} => key = Front
  /\ pc = "pop_store" => loaded = count

IInv ==
  /\ TypeOK
  /\ LockWord
  /\ MutualExclusion
  /\ isr = "lost" => LoopCritical
  /\ LoopKnows
  /\ Len(stamps) = count

-----------------------------------------------------------------------------
(* The codes and the tables are numbers below 256 and 128.                 *)
LEMMA Codes == \A code \in T : code \in 0 .. 255
<1>1. T \subseteq 0 .. 255
  BY KeyboardAssumption, Zenon
<1> QED
  BY <1>1, Zenon

LEMMA Keytables ==
  ASSUME NEW code \in 0 .. 127
  PROVE  keytable_shifted[code] \in 0 .. 127 /\ keytable_normal[code] \in 0 .. 127
<1>1. /\ keytable_shifted \in [0 .. 127 -> 0 .. 127]
      /\ keytable_normal \in [0 .. 127 -> 0 .. 127]
  BY KeyboardAssumption
<1> QED
  BY <1>1

LEMMA InitIInv == Init => IInv /\ Channel!Init
<1> SUFFICES ASSUME Init PROVE IInv /\ Channel!Init
  OBVIOUS
<1>1. QueueOK /\ Contents = <<>> /\ count = 0
  BY ConstructEmpty, KeyboardAssumption DEF Init, Construct
<1>2. TypeOK
  <2>1. FlagOK /\ pc \in LoopPlaces /\ isr \in IsrPlaces
    BY DEF Init, FlagOK, LoopPlaces, IsrPlaces
  <2>2. /\ key \in T /\ dat \in T /\ loaded \in 0 .. N /\ ascii \in 0 .. 127
        /\ num_lostkey \in 0 .. UIntMod - 1 /\ dropped \in 0 .. UIntMod - 1
    <3>1. UIntMod \in Nat \ {0}
      BY KeyboardAssumption
    <3> QED BY <3>1, QueueAssumption DEF Init
  <2>3. shifted \in BOOLEAN /\ down \in BOOLEAN /\ sure \in BOOLEAN
    BY Zenon DEF Init
  <2>4. stamp \in Stamp
    BY DEF Init, Stamp
  <2>5. stamps \in Seq(Stamp)
    BY EmptySeq DEF Init
  <2> QED BY <1>1, <2>1, <2>2, <2>3, <2>4, <2>5 DEF TypeOK
<1>3. LockWord /\ MutualExclusion /\ LoopKnows
  BY DEF Init, LockWord, MutualExclusion, LoopKnows, LoopCritical, kClear,
         kFlagged
<1>4. Hand = <<>>
  BY DEF Init, Hand
<1> QED
  BY <1>1, <1>2, <1>3, <1>4 DEF IInv, Init, Channel!Init

LEMMA CounterStays ==
  ASSUME NEW n \in 0 .. UIntMod - 1
  PROVE  (n + 1) % UIntMod \in 0 .. UIntMod - 1
<1>1. UIntMod \in Nat \ {0}
  BY KeyboardAssumption
<1>2. UIntMod \in Nat /\ UIntMod > 0 /\ n + 1 \in Nat
  BY <1>1
<1> QED
  BY <1>2

(* A step that leaves the queue and the loop's knowledge alone.            *)
LEMMA QueueUnchanged ==
  ASSUME UNCHANGED queue
  PROVE  /\ QueueOK' <=> QueueOK
         /\ Contents' = Contents
         /\ Front' = Front
  BY DEF queue, QueueOK, Contents, Slot, Front

-----------------------------------------------------------------------------
(* The steps of the handler.                                               *)
LEMMA InterruptIInv ==
  ASSUME IInv, NEW code \in T, Interrupt(code)
  PROVE  IInv' /\ UNCHANGED <<Contents, Hand>>
<1>1. /\ isr = "none" /\ isr' = "try" /\ dat' = code
      /\ pc' = IF pc = "halted" THEN "lock" ELSE pc
      /\ down' = IF IsShift(code) THEN Press(code) ELSE down
      /\ UNCHANGED <<queue, flag, key, loaded, shifted, ascii, num_lostkey,
                     dropped, sure, stamps, stamp>>
  BY DEF Interrupt
<1>2. QueueOK' /\ Contents' = Contents /\ Front' = Front /\ count' = count
  BY <1>1, QueueUnchanged DEF IInv, TypeOK, queue
<1>3. down' \in BOOLEAN
  <2>1. Press(code) \in BOOLEAN
    BY DEF Press
  <2> QED BY <1>1, <2>1, Zenon DEF IInv, TypeOK
<1>4. TypeOK'
  BY <1>1, <1>2, <1>3 DEF IInv, TypeOK, FlagOK, LoopPlaces, IsrPlaces
<1>5. LoopCritical' <=> LoopCritical
  BY <1>1 DEF LoopCritical
<1>6. LockWord' /\ MutualExclusion' /\ LoopKnows'
  BY <1>1, <1>2, <1>5 DEF IInv, LockWord, MutualExclusion, LoopKnows
<1>7. Hand' = Hand
  BY <1>1 DEF Hand
<1> QED
  BY <1>1, <1>2, <1>4, <1>6, <1>7 DEF IInv

LEMMA IsrTryLockIInv ==
  ASSUME IInv, IsrTryLock
  PROVE  IInv' /\ UNCHANGED <<Contents, Hand>>
<1>1. /\ isr = "try"
      /\ UNCHANGED <<queue, loop, dat, num_lostkey, history>>
  BY DEF IsrTryLock
<1>2. \/ flag = kClear /\ flag' = kFlagged /\ isr' = "push"
      \/ flag = kFlagged /\ flag' = kFlagged /\ isr' = "lost"
  BY DEF IsrTryLock, TryLock, CompareExchange, IInv, TypeOK, FlagOK, kClear,
         kFlagged
<1>3. QueueOK' /\ Contents' = Contents /\ Front' = Front /\ count' = count
  BY <1>1, QueueUnchanged DEF IInv, TypeOK, queue
<1>4. TypeOK'
  BY <1>1, <1>2, <1>3 DEF IInv, TypeOK, FlagOK, IsrPlaces, loop, history
<1>5. LoopCritical' <=> LoopCritical
  BY <1>1 DEF LoopCritical, loop
<1>6. /\ LockWord' /\ MutualExclusion' /\ LoopKnows'
      /\ isr' = "lost" => LoopCritical'
  BY <1>1, <1>2, <1>3, <1>5
  DEF IInv, LockWord, MutualExclusion, LoopKnows, loop, kClear, kFlagged
<1>7. Hand' = Hand
  BY <1>1 DEF Hand, loop
<1> QED
  BY <1>1, <1>3, <1>4, <1>6, <1>7 DEF IInv, history

LEMMA IsrPushIInv ==
  ASSUME IInv, IsrPush
  PROVE  /\ IInv'
         /\ Hand' = Hand
         /\ Contents' = Contents \/ Channel!Accept(dat)
         /\ dropped' # dropped => count = N
<1>1. /\ isr = "push" /\ isr' = "unlock"
      /\ UNCHANGED <<flag, loop, dat, num_lostkey>>
  BY DEF IsrPush
<1>2. PICK err \in Error : /\ Push(dat, err)
                           /\ IF err = kSuccess THEN Keep ELSE Drop
  BY DEF IsrPush
<1>3. ~LoopCritical /\ dat \in T
  BY <1>1 DEF IInv, MutualExclusion, TypeOK
<1>4. Hand' = Hand
  BY <1>1 DEF Hand, loop
<1>5. LockWord' /\ MutualExclusion' /\ LoopKnows'
  BY <1>1, <1>3
  DEF IInv, LockWord, MutualExclusion, LoopKnows, LoopCritical, loop
<1>6. CASE err = kSuccess
  <2>1. QueueOK' /\ Contents' = Append(Contents, dat) /\ count # N
    BY <1>2, <1>3, <1>6, PushAppends DEF IInv, TypeOK
  <2>2. Len(Contents) = count /\ count \in 0 .. N
    BY ContentsShape DEF IInv, TypeOK, QueueOK
  <2>3. count' = count + 1
    BY <1>2, <1>6, <2>1, <2>2, QueueAssumption
    DEF Push, Increment, kSuccess, kFull
  <2>4. /\ sure' = (sure \/ IsShift(dat))
        /\ stamps' = Append(stamps, [down |-> down, sure |-> sure'])
        /\ UNCHANGED <<dropped, down, stamp>>
    BY <1>2, <1>6 DEF Keep
  <2>5. sure' \in BOOLEAN
    BY <2>4 DEF IInv, TypeOK, IsShift
  <2>6. stamps' \in Seq(Stamp) /\ Len(stamps') = count'
    <3>1. [down |-> down, sure |-> sure'] \in Stamp
      BY <2>5 DEF IInv, TypeOK, Stamp
    <3> QED BY <2>3, <2>4, <3>1 DEF IInv, TypeOK
  <2>7. TypeOK'
    BY <1>1, <2>1, <2>4, <2>5, <2>6 DEF IInv, TypeOK, FlagOK, IsrPlaces, loop
  <2>8. Channel!Accept(dat)
    BY <1>4, <2>1, <2>2, QueueAssumption DEF Channel!Accept
  <2> QED
    BY <1>1, <1>4, <1>5, <2>4, <2>6, <2>7, <2>8 DEF IInv
<1>7. CASE err # kSuccess
  <2>1. UNCHANGED queue /\ count = N
    BY <1>2, <1>7 DEF Push
  <2>2. QueueOK' /\ Contents' = Contents /\ count' = count
    BY <2>1, QueueUnchanged DEF IInv, TypeOK, queue
  <2>3. /\ dropped' = (dropped + 1) % UIntMod
        /\ sure' = (sure /\ ~IsShift(dat))
        /\ UNCHANGED <<down, stamps, stamp>>
    BY <1>2, <1>7 DEF Drop
  <2>4. dropped' \in 0 .. UIntMod - 1
    BY <2>3, CounterStays DEF IInv, TypeOK
  <2>5. sure' \in BOOLEAN
    BY <2>3 DEF IInv, TypeOK
  <2>6. TypeOK'
    BY <1>1, <2>2, <2>3, <2>4, <2>5
    DEF IInv, TypeOK, FlagOK, IsrPlaces, loop
  <2> QED
    BY <1>1, <1>4, <1>5, <2>1, <2>2, <2>3, <2>6 DEF IInv
<1> QED
  BY <1>6, <1>7

LEMMA IsrUnlockIInv ==
  ASSUME IInv, IsrUnlock
  PROVE  IInv' /\ UNCHANGED <<Contents, Hand>>
<1>1. /\ isr = "unlock" /\ isr' = "none" /\ flag' = kClear
      /\ UNCHANGED <<queue, loop, dat, num_lostkey, history>>
  BY DEF IsrUnlock, Unlock
<1>2. QueueOK' /\ Contents' = Contents /\ Front' = Front /\ count' = count
  BY <1>1, QueueUnchanged DEF IInv, TypeOK, queue
<1>3. TypeOK'
  BY <1>1, <1>2 DEF IInv, TypeOK, FlagOK, IsrPlaces, loop, history
<1>4. ~LoopCritical /\ ~LoopCritical'
  BY <1>1 DEF IInv, MutualExclusion, LoopCritical, loop
<1>5. LockWord' /\ MutualExclusion' /\ LoopKnows'
  BY <1>1, <1>2, <1>4
  DEF IInv, LockWord, MutualExclusion, LoopKnows, loop, kClear, kFlagged
<1>6. Hand' = Hand
  BY <1>1 DEF Hand, loop
<1> QED
  BY <1>1, <1>2, <1>3, <1>5, <1>6 DEF IInv, history

LEMMA IsrLostIInv ==
  ASSUME IInv, IsrLost
  PROVE  IInv' /\ UNCHANGED <<Contents, Hand>> /\ LoopCritical
<1>1. /\ isr = "lost" /\ isr' = "none"
      /\ num_lostkey' = (num_lostkey + 1) % UIntMod
      /\ dropped' = (dropped + 1) % UIntMod
      /\ sure' = (sure /\ ~IsShift(dat))
      /\ UNCHANGED <<queue, flag, loop, dat, down, stamps, stamp>>
  BY DEF IsrLost, Drop
<1>2. QueueOK' /\ Contents' = Contents /\ Front' = Front /\ count' = count
  BY <1>1, QueueUnchanged DEF IInv, TypeOK, queue
<1>3. /\ num_lostkey' \in 0 .. UIntMod - 1 /\ dropped' \in 0 .. UIntMod - 1
  <2>1. num_lostkey' \in 0 .. UIntMod - 1
    BY <1>1, CounterStays DEF IInv, TypeOK
  <2>2. dropped' \in 0 .. UIntMod - 1
    BY <1>1, CounterStays DEF IInv, TypeOK
  <2> QED BY <2>1, <2>2
<1>4. sure' \in BOOLEAN
  BY <1>1 DEF IInv, TypeOK
<1>5. TypeOK'
  BY <1>1, <1>2, <1>3, <1>4 DEF IInv, TypeOK, FlagOK, IsrPlaces, loop
<1>6. LoopCritical /\ LoopCritical'
  BY <1>1 DEF IInv, LoopCritical, loop
<1>7. LockWord' /\ MutualExclusion' /\ LoopKnows'
  BY <1>1, <1>2, <1>6
  DEF IInv, LockWord, MutualExclusion, LoopKnows, loop
<1>8. Hand' = Hand
  BY <1>1 DEF Hand, loop
<1> QED
  BY <1>1, <1>2, <1>5, <1>6, <1>7, <1>8 DEF IInv

-----------------------------------------------------------------------------
(* The steps of the loop.  While it runs the handler does not: isr stays   *)
(* "none", and only the loop's own steps change the queue or the flag.     *)
LEMMA LoopQuietIInv ==
  ASSUME IInv, isr = "none", pc' \in LoopPlaces, pc # "halted",
         UNCHANGED <<queue, flag, isr, dat, num_lostkey, history>>,
         key' \in T, loaded' \in 0 .. N, ascii' \in 0 .. 127,
         shifted' \in BOOLEAN,
         LoopCritical' <=> LoopCritical,
         LoopKnows'
  PROVE  IInv' /\ Contents' = Contents
<1>1. QueueOK' /\ Contents' = Contents /\ count' = count
  BY QueueUnchanged DEF IInv, TypeOK, queue
<1>2. TypeOK'
  BY <1>1 DEF IInv, TypeOK, FlagOK, history
<1>3. LockWord' /\ MutualExclusion'
  BY DEF IInv, LockWord, MutualExclusion
<1> QED
  BY <1>1, <1>2, <1>3 DEF IInv, history

LEMMA MainLockIInv ==
  ASSUME IInv, MainLock
  PROVE  IInv' /\ UNCHANGED <<Contents, Hand>>
<1>1. /\ isr = "none" /\ pc = "lock" /\ pc' = "count" /\ flag' = kFlagged
      /\ UNCHANGED <<queue, key, loaded, shifted, ascii, isr, dat,
                     num_lostkey, history>>
  BY DEF MainLock, Goto, Lock, CompareExchange, kClear, kFlagged
<1>2. QueueOK' /\ Contents' = Contents /\ Front' = Front /\ count' = count
  BY <1>1, QueueUnchanged DEF IInv, TypeOK, queue
<1>3. TypeOK'
  BY <1>1, <1>2 DEF IInv, TypeOK, FlagOK, LoopPlaces, history
<1>4. LockWord' /\ MutualExclusion' /\ LoopKnows'
  BY <1>1 DEF LockWord, MutualExclusion, LoopKnows, LoopCritical
<1>5. Hand' = Hand
  BY <1>1 DEF Hand
<1> QED
  BY <1>1, <1>2, <1>3, <1>4, <1>5 DEF IInv, history

LEMMA MainCountIInv ==
  ASSUME IInv, MainCount
  PROVE  IInv' /\ UNCHANGED <<Contents, Hand>>
<1>1. /\ isr = "none" /\ pc = "count"
      /\ pc' = IF count = 0 THEN "unlock_empty" ELSE "front"
      /\ UNCHANGED <<queue, flag, key, loaded, shifted, ascii, isr, dat,
                     num_lostkey, history>>
  BY DEF MainCount, Goto, Count
<1>2. /\ pc' \in LoopPlaces /\ LoopCritical' /\ LoopCritical /\ LoopKnows'
      /\ Hand' = Hand
  BY <1>1 DEF LoopPlaces, LoopCritical, LoopKnows, Hand, queue
<1> QED
  BY <1>1, <1>2, LoopQuietIInv DEF IInv, TypeOK

LEMMA MainHltIInv ==
  ASSUME IInv, MainHlt \/ MainPutChar
  PROVE  IInv'
<1>1. /\ isr = "none" /\ pc \in {"hlt", "putchar"}
      /\ pc' \in {"halted", "lock"}
      /\ UNCHANGED <<queue, flag, key, loaded, shifted, isr, dat, num_lostkey,
                     history>>
      /\ ascii' = ascii \/ ascii' = 0
  BY DEF MainHlt, MainPutChar, Goto
<1>2. /\ pc' \in LoopPlaces /\ ~LoopCritical' /\ ~LoopCritical /\ LoopKnows'
  BY <1>1 DEF LoopPlaces, LoopCritical, LoopKnows
<1>3. ascii' \in 0 .. 127
  <2>1. ascii \in 0 .. 127 /\ 0 \in 0 .. 127
    BY DEF IInv, TypeOK
  <2> QED BY <1>1, <2>1
<1> QED
  BY <1>1, <1>2, <1>3, LoopQuietIInv DEF IInv, TypeOK

LEMMA MainFrontIInv ==
  ASSUME IInv, MainFront
  PROVE  IInv' /\ UNCHANGED <<Contents, Hand>>
<1>1. /\ isr = "none" /\ pc = "front" /\ pc' = "pop" /\ key' = Front
      /\ UNCHANGED <<queue, flag, loaded, shifted, ascii, isr, dat,
                     num_lostkey, history>>
  BY DEF MainFront, Goto
<1>2. Front' = Front /\ count' = count
  BY <1>1, QueueUnchanged DEF queue
<1>3. Front \in T
  BY DEF IInv, TypeOK, QueueOK, Front
<1>4. /\ pc' \in LoopPlaces /\ LoopCritical' /\ LoopCritical /\ LoopKnows'
      /\ Hand' = Hand
  BY <1>1, <1>2 DEF IInv, LoopPlaces, LoopCritical, LoopKnows, Hand
<1> QED
  BY <1>1, <1>3, <1>4, LoopQuietIInv DEF IInv, TypeOK

LEMMA MainPopLoadIInv ==
  ASSUME IInv, MainPopLoad
  PROVE  IInv' /\ UNCHANGED <<Contents, Hand>>
<1>1. /\ isr = "none" /\ pc = "pop" /\ pc' = "pop_store" /\ loaded' = count
      /\ UNCHANGED <<queue, flag, key, shifted, ascii, isr, dat,
                     num_lostkey, history>>
  BY DEF MainPopLoad, Goto, IInv, LoopKnows
<1>2. Front' = Front /\ count' = count
  BY <1>1, QueueUnchanged DEF queue
<1>3. count \in 0 .. N
  BY DEF IInv, TypeOK, QueueOK
<1>4. /\ pc' \in LoopPlaces /\ LoopCritical' /\ LoopCritical /\ LoopKnows'
      /\ Hand' = Hand
  BY <1>1, <1>2 DEF IInv, LoopPlaces, LoopCritical, LoopKnows, Hand
<1> QED
  BY <1>1, <1>3, <1>4, LoopQuietIInv DEF IInv, TypeOK

LEMMA MainPopStoreIInv ==
  ASSUME IInv, MainPopStore
  PROVE  IInv' /\ Channel!Take
<1>1. /\ isr = "none" /\ pc = "pop_store" /\ pc' = "unlock"
      /\ TakeFront(loaded) /\ loaded' = 0
      /\ stamp' = Head(stamps) /\ stamps' = Tail(stamps)
      /\ UNCHANGED <<flag, key, shifted, ascii, isr, dat, num_lostkey,
                     dropped, down, sure>>
  BY DEF MainPopStore, Goto
<1>2. loaded = count /\ count # 0 /\ key = Front /\ QueueOK
  BY <1>1 DEF IInv, LoopKnows, TypeOK
<1>3. QueueOK' /\ Contents' = Tail(Contents) /\ Front = Head(Contents)
  BY <1>1, <1>2, TakeDropsOldest
<1>4. count' = count - 1 /\ count \in 1 .. N
  BY <1>1, <1>2, QueueAssumption DEF TakeFront, QueueOK
<1>5. /\ stamps' \in Seq(Stamp) /\ Len(stamps') = count'
      /\ stamp' \in Stamp
  <2>1. stamps \in Seq(Stamp) /\ Len(stamps) = count
    BY DEF IInv, TypeOK
  <2>2. stamps # <<>>
    BY <1>2, <2>1
  <2> QED
    BY <1>1, <1>4, <2>1, <2>2, HeadTailProperties
<1>6. TypeOK'
  BY <1>1, <1>3, <1>5, QueueAssumption
  DEF IInv, TypeOK, FlagOK, LoopPlaces
<1>7. LockWord' /\ MutualExclusion' /\ LoopKnows'
  BY <1>1 DEF IInv, LockWord, MutualExclusion, LoopKnows, LoopCritical
<1>8. Channel!Take
  <2>1. Contents # <<>>
    BY <1>2, ContentsShape
  <2>2. Hand = <<>> /\ Hand' = <<key>>
    BY <1>1 DEF Hand
  <2> QED
    BY <1>2, <1>3, <2>1, <2>2 DEF Channel!Take
<1> QED
  BY <1>1, <1>5, <1>6, <1>7, <1>8 DEF IInv

LEMMA MainUnlockIInv ==
  ASSUME IInv, MainUnlock \/ MainUnlockEmpty
  PROVE  IInv' /\ UNCHANGED <<Contents, Hand>>
<1>1. /\ isr = "none" /\ flag' = kClear
      /\ \/ pc = "unlock" /\ pc' = "dispatch"
         \/ pc = "unlock_empty" /\ pc' = "hlt"
      /\ UNCHANGED <<queue, key, loaded, shifted, ascii, isr, dat,
                     num_lostkey, history>>
  BY DEF MainUnlock, MainUnlockEmpty, Goto, Unlock
<1>2. QueueOK' /\ Contents' = Contents /\ count' = count
  BY <1>1, QueueUnchanged DEF IInv, TypeOK, queue
<1>3. TypeOK'
  BY <1>1, <1>2 DEF IInv, TypeOK, FlagOK, LoopPlaces, history
<1>4. LockWord' /\ MutualExclusion' /\ LoopKnows'
  BY <1>1 DEF LockWord, MutualExclusion, LoopKnows, LoopCritical, kClear,
              kFlagged
<1>5. Hand' = Hand
  BY <1>1 DEF Hand
<1> QED
  BY <1>1, <1>2, <1>3, <1>4, <1>5 DEF IInv, history

LEMMA MainDispatchIInv ==
  ASSUME IInv, MainDispatch
  PROVE  IInv' /\ Contents' = Contents
<1>1. /\ isr = "none" /\ pc = "dispatch" /\ pc' \in {"putchar", "lock"}
      /\ shifted' = IF IsShift(key) THEN Press(key) ELSE shifted
      /\ ascii' = IF Press(key) /\ ~IsShift(key) THEN Ascii(key, shifted) ELSE 0
      /\ UNCHANGED <<queue, flag, key, loaded, isr, dat, num_lostkey, history>>
  BY DEF MainDispatch, Goto
<1>2. shifted' \in BOOLEAN
  <2>1. Press(key) \in BOOLEAN
    BY DEF Press
  <2> QED BY <1>1, <2>1, Zenon DEF IInv, TypeOK
<1>3. ascii' \in 0 .. 127
  <2>1. CASE ~Press(key)
    BY <1>1, <2>1
  <2>2. CASE Press(key)
    <3>1. key \in 0 .. 127
      <4>1. key \in 0 .. 255
        BY Codes, Zenon DEF IInv, TypeOK
      <4> QED BY <2>2, <4>1 DEF Press
    <3>2. keytable_shifted[key] \in 0 .. 127 /\ keytable_normal[key] \in 0 .. 127
      BY <3>1, Keytables
    <3>3. Ascii(key, shifted) \in 0 .. 127
      BY <3>2 DEF Ascii
    <3> QED BY <1>1, <3>3
  <2> QED BY <2>1, <2>2
<1>4. /\ pc' \in LoopPlaces /\ ~LoopCritical' /\ ~LoopCritical /\ LoopKnows'
  BY <1>1 DEF LoopPlaces, LoopCritical, LoopKnows
<1> QED
  BY <1>1, <1>2, <1>3, <1>4, LoopQuietIInv DEF IInv, TypeOK

(* Decoding and PutChar end the hand-over that Take began.                 *)
LEMMA HandOver ==
  ASSUME IInv, MainDispatch \/ MainPutChar \/ MainHlt, Contents' = Contents
  PROVE  [Channel!Next]_<<Contents, Hand>>
<1>1. CASE MainDispatch /\ pc' = "putchar"
  BY <1>1 DEF MainDispatch, Goto, Hand
<1>2. CASE MainDispatch /\ pc' # "putchar"
  <2>1. pc = "dispatch" /\ pc' = "lock"
    BY <1>2 DEF MainDispatch, Goto
  <2>2. Hand = <<key>> /\ Hand' = <<>>
    BY <2>1 DEF Hand
  <2> QED BY <2>2 DEF Channel!Next, Channel!HandOver
<1>3. CASE MainPutChar
  <2>1. pc = "putchar" /\ pc' = "lock"
    BY <1>3 DEF MainPutChar, Goto
  <2>2. Hand = <<key>> /\ Hand' = <<>>
    BY <2>1 DEF Hand
  <2> QED BY <2>2 DEF Channel!Next, Channel!HandOver
<1>4. CASE MainHlt
  <2>1. pc = "hlt" /\ pc' = "halted"
    BY <1>4 DEF MainHlt, Goto
  <2> QED BY <2>1 DEF Hand
<1> QED
  BY <1>1, <1>2, <1>3, <1>4

-----------------------------------------------------------------------------
LEMMA StepLemma ==
  ASSUME IInv, [Next]_vars
  PROVE  /\ IInv'
         /\ [Channel!Next]_<<Contents, Hand>>
         /\ dropped' # dropped => LoopCritical \/ count = N
<1> DEFINE Goal == /\ IInv'
                   /\ [Channel!Next]_<<Contents, Hand>>
                   /\ dropped' # dropped => LoopCritical \/ count = N
<1>1. CASE UNCHANGED vars
  <2>1. QueueOK' /\ Contents' = Contents /\ Front' = Front /\ count' = count
    BY <1>1, QueueUnchanged DEF IInv, TypeOK, queue, vars
  <2> QED
    BY <1>1, <2>1
    DEF vars, loop, history, IInv, TypeOK, FlagOK, LockWord, MutualExclusion,
        LoopKnows, LoopCritical, Hand
<1>2. ASSUME NEW code \in T, Interrupt(code) PROVE Goal
  BY <1>2, InterruptIInv DEF Interrupt
<1>3. CASE IsrTryLock
  BY <1>3, IsrTryLockIInv DEF IsrTryLock, history
<1>4. CASE IsrPush
  <2>1. dat \in T
    BY DEF IInv, TypeOK
  <2> QED
    BY <1>4, <2>1, IsrPushIInv DEF Channel!Next
<1>5. CASE IsrUnlock
  BY <1>5, IsrUnlockIInv DEF IsrUnlock, history
<1>6. CASE IsrLost
  BY <1>6, IsrLostIInv
<1>7. CASE MainLock
  BY <1>7, MainLockIInv DEF MainLock, history
<1>8. CASE MainCount
  BY <1>8, MainCountIInv DEF MainCount, history
<1>9. CASE MainUnlockEmpty \/ MainUnlock
  BY <1>9, MainUnlockIInv DEF MainUnlockEmpty, MainUnlock, history
<1>10. CASE MainHlt \/ MainPutChar
  <2>1. UNCHANGED queue /\ UNCHANGED history
    BY <1>10 DEF MainHlt, MainPutChar
  <2> QED
    BY <1>10, <2>1, MainHltIInv, HandOver, QueueUnchanged DEF history
<1>11. CASE MainFront
  BY <1>11, MainFrontIInv DEF MainFront, history
<1>12. CASE MainPopLoad
  BY <1>12, MainPopLoadIInv DEF MainPopLoad, history
<1>13. CASE MainPopStore
  BY <1>13, MainPopStoreIInv DEF MainPopStore, Channel!Next
<1>14. CASE MainDispatch
  BY <1>14, MainDispatchIInv, HandOver DEF MainDispatch, history
<1> QED
  BY <1>1, <1>2, <1>3, <1>4, <1>5, <1>6, <1>7, <1>8, <1>9, <1>10, <1>11,
     <1>12, <1>13, <1>14
  DEF Next, Strike, Inthandler21, MainStep, LoopStep

THEOREM InvariantHolds == Spec => []IInv
<1>1. IInv /\ [Next]_vars => IInv'
  BY StepLemma
<1> QED
  BY <1>1, InitIInv, PTL DEF Spec

(* Every variable of the keyboard path keeps its type: the queue stays     *)
(* well formed although handler and loop both work on it.                  *)
THEOREM KeyboardType == Spec => []TypeOK
<1>1. IInv => TypeOK
  BY DEF IInv
<1> QED
  BY <1>1, InvariantHolds, PTL

(* The handler never touches the queue while the loop has the lock         *)
(* (main.cpp 164-178 against 264-274).                                     *)
THEOREM KeyboardExcludes == Spec => []MutualExclusion
<1>1. IInv => MutualExclusion
  BY DEF IInv
<1> QED
  BY <1>1, InvariantHolds, PTL

(* The loop's Lock never finds the flag set (main.cpp 264).                *)
THEOREM KeyboardNeverSpins == Spec => []LoopNeverSpins
<1>1. IInv => LoopNeverSpins
  BY DEF IInv, LockWord, LoopNeverSpins, LoopCritical, TypeOK, FlagOK
<1> QED
  BY <1>1, InvariantHolds, PTL

(* A code is dropped only while the loop is between Lock and Unlock or     *)
(* the queue is full (main.cpp 170-177).                                   *)
THEOREM KeyboardLoss == Spec => LossExcused
<1>1. IInv /\ [Next]_vars => [dropped' # dropped => LoopCritical \/ count = N]_vars
  BY StepLemma
<1> QED
  BY <1>1, InvariantHolds, PTL DEF Spec, LossExcused

(* The codes that are queued reach the decoder once each and in order.     *)
THEOREM KeyboardRefines == Spec => IsKeyChannel
<1>1. IInv /\ [Next]_vars => [Channel!Next]_<<Contents, Hand>>
  BY StepLemma
<1> QED
  BY <1>1, InitIInv, InvariantHolds, PTL DEF Spec, IsKeyChannel, Channel!Spec

-----------------------------------------------------------------------------
(* The shift state that travels with the codes: a stamp that is sure agrees*)
(* with the one before it, and the stamp of a shift code is that code's.   *)
Agree(p, s) == s.sure => p.sure /\ p.down = s.down

Link(p, c, s) ==
  IF IsShift(c) THEN s.sure /\ s.down = Press(c) ELSE Agree(p, s)

(* The stamp before the i-th code of the queue; s0 is that of the hand.    *)
Before(s0, ss, i) == IF i = 1 THEN s0 ELSE ss[i - 1]

Linked(s0, ss, cs) ==
  \A i \in 1 .. Len(ss) : Link(Before(s0, ss, i), cs[i], ss[i])

Decoder == [down |-> shifted, sure |-> TRUE]

HandLinked ==
  IF pc \in {"unlock", "dispatch"} THEN Link(Decoder, key, stamp)
                                   ELSE Agree(Decoder, stamp)

KeyboardLinked ==
  IF isr \in {"try", "push", "lost"} /\ IsShift(dat)
    THEN down = Press(dat)
    ELSE Agree(Before(stamp, stamps, Len(stamps) + 1),
               [down |-> down, sure |-> sure])

SInv ==
  /\ Linked(stamp, stamps, Contents)
  /\ HandLinked
  /\ KeyboardLinked
  /\ pc = "putchar" => ascii = Ascii(key, shifted)

LEMMA LinkedAppend ==
  ASSUME NEW s0, NEW ss \in Seq(Stamp), NEW cs \in Seq(T), Len(cs) = Len(ss),
         NEW s \in Stamp, NEW c \in T,
         Linked(s0, ss, cs), Link(Before(s0, ss, Len(ss) + 1), c, s)
  PROVE  /\ Linked(s0, Append(ss, s), Append(cs, c))
         /\ Before(s0, Append(ss, s), Len(Append(ss, s)) + 1) = s
<1> DEFINE n == Len(ss)
<1>1. /\ n \in Nat /\ Len(Append(ss, s)) = n + 1
      /\ Append(ss, s)[n + 1] = s /\ Append(cs, c)[n + 1] = c
      /\ \A i \in 1 .. n : Append(ss, s)[i] = ss[i] /\ Append(cs, c)[i] = cs[i]
  BY AppendProperties
<1>2. \A i \in 1 .. n + 1 : Before(s0, Append(ss, s), i) = Before(s0, ss, i)
  BY <1>1 DEF Before
<1>3. ASSUME NEW i \in 1 .. n + 1
      PROVE  Link(Before(s0, Append(ss, s), i), Append(cs, c)[i], Append(ss, s)[i])
  <2>1. CASE i = n + 1
    BY <1>1, <1>2, <2>1
  <2>2. CASE i # n + 1
    <3>1. i \in 1 .. n
      BY <1>1, <2>2
    <3> QED
      BY <1>1, <1>2, <3>1 DEF Linked
  <2> QED
    BY <2>1, <2>2
<1>4. Before(s0, Append(ss, s), Len(Append(ss, s)) + 1) = s
  BY <1>1 DEF Before
<1> QED
  BY <1>1, <1>3, <1>4 DEF Linked

LEMMA LinkedTail ==
  ASSUME NEW s0, NEW ss \in Seq(Stamp), NEW cs \in Seq(T), Len(cs) = Len(ss),
         Linked(s0, ss, cs), ss # <<>>
  PROVE  /\ Link(s0, Head(cs), Head(ss))
         /\ Linked(Head(ss), Tail(ss), Tail(cs))
         /\ Before(Head(ss), Tail(ss), Len(Tail(ss)) + 1)
              = Before(s0, ss, Len(ss) + 1)
<1> DEFINE n == Len(ss)
<1>1. /\ n \in Nat /\ n > 0 /\ Len(Tail(ss)) = n - 1
      /\ Head(ss) = ss[1] /\ Head(cs) = cs[1]
      /\ \A i \in 1 .. n - 1 : Tail(ss)[i] = ss[i + 1] /\ Tail(cs)[i] = cs[i + 1]
  OBVIOUS
<1>2. Link(s0, Head(cs), Head(ss))
  BY <1>1 DEF Linked, Before
<1>3. \A i \in 1 .. n : Before(Head(ss), Tail(ss), i) = Before(s0, ss, i + 1)
  BY <1>1 DEF Before
<1>4. ASSUME NEW i \in 1 .. n - 1
      PROVE  Link(Before(Head(ss), Tail(ss), i), Tail(cs)[i], Tail(ss)[i])
  <2>1. i \in 1 .. n /\ i + 1 \in 1 .. n
    BY <1>1
  <2>2. Link(Before(s0, ss, i + 1), cs[i + 1], ss[i + 1])
    BY <2>1 DEF Linked
  <2> QED
    BY <1>1, <1>3, <2>1, <2>2
<1>5. Before(Head(ss), Tail(ss), n) = Before(s0, ss, n + 1)
  BY <1>1, <1>3
<1> QED
  BY <1>1, <1>2, <1>4, <1>5 DEF Linked

LEMMA SInvInit == Init => SInv
<1> SUFFICES ASSUME Init PROVE SInv
  OBVIOUS
<1>1. Len(stamps) = 0
  BY DEF Init
<1>2. /\ pc = "lock" /\ isr = "none" /\ stamp.down = FALSE /\ shifted = FALSE
      /\ stamp.sure = TRUE /\ down = FALSE /\ sure = TRUE
  BY DEF Init
<1>3. Linked(stamp, stamps, Contents)
  BY <1>1 DEF Linked
<1>4. HandLinked
  BY <1>2 DEF HandLinked, Agree, Decoder
<1>5. KeyboardLinked
  <2>1. Before(stamp, stamps, Len(stamps) + 1) = stamp
    BY <1>1 DEF Before
  <2>2. Agree(stamp, [down |-> down, sure |-> sure])
    BY <1>2 DEF Agree
  <2> QED
    BY <2>1, <2>2, <1>2 DEF KeyboardLinked
<1> QED
  BY <1>2, <1>3, <1>4, <1>5 DEF SInv

(* A step that neither queues nor takes a code.                            *)
LEMMA SInvQuiet ==
  ASSUME SInv, UNCHANGED <<queue, stamps, stamp>>,
         HandLinked', KeyboardLinked',
         pc' = "putchar" => ascii' = Ascii(key', shifted')
  PROVE  SInv'
<1>1. Contents' = Contents
  BY QueueUnchanged
<1>2. Linked(stamp, stamps, Contents)
  BY DEF SInv
<1>3. Linked(stamp', stamps', Contents')
  BY <1>1, <1>2
<1> QED
  BY <1>3 DEF SInv

LEMMA SInvHandler ==
  ASSUME IInv, IInv', SInv,
         (\E code \in T : Interrupt(code)) \/ Inthandler21
  PROVE  SInv'
<1>0. /\ Linked(stamp, stamps, Contents) /\ HandLinked /\ KeyboardLinked
      /\ pc = "putchar" => ascii = Ascii(key, shifted)
  BY DEF SInv
<1>1. ASSUME NEW code \in T, Interrupt(code) PROVE SInv'
  <2>1. /\ isr = "none" /\ isr' = "try" /\ dat' = code
        /\ pc' = IF pc = "halted" THEN "lock" ELSE pc
        /\ down' = IF IsShift(code) THEN Press(code) ELSE down
        /\ UNCHANGED <<queue, key, shifted, ascii, sure, stamps, stamp>>
    BY <1>1 DEF Interrupt
  <2>2. HandLinked'
    BY <2>1, <1>0 DEF HandLinked, Decoder
  <2>3. KeyboardLinked'
    BY <2>1, <1>0 DEF KeyboardLinked
  <2> QED
    BY <2>1, <2>2, <2>3, <1>0, SInvQuiet
<1>2. CASE IsrTryLock \/ IsrUnlock
  <2>1. /\ UNCHANGED <<queue, pc, key, shifted, ascii, dat, down, sure, stamps,
                       stamp>>
        /\ \/ isr = "try" /\ isr' \in {"push", "lost"}
           \/ isr = "unlock" /\ isr' = "none"
    BY <1>2 DEF IsrTryLock, IsrUnlock, loop, history
  <2>2. HandLinked'
    BY <2>1, <1>0 DEF HandLinked, Decoder
  <2>3. KeyboardLinked'
    BY <2>1, <1>0 DEF KeyboardLinked
  <2> QED
    BY <2>1, <2>2, <2>3, <1>0, SInvQuiet
<1>3. ASSUME Drop, UNCHANGED <<queue, loop, dat>>, isr \in {"push", "lost"},
             isr' \in {"none", "unlock"}
      PROVE  SInv'
  <2>1. /\ UNCHANGED <<queue, pc, key, shifted, ascii, dat, down, stamps, stamp>>
        /\ sure' = (sure /\ ~IsShift(dat))
    BY <1>3 DEF Drop, loop
  <2>2. HandLinked'
    BY <2>1, <1>0 DEF HandLinked, Decoder
  <2>3. KeyboardLinked'
    <3>1. CASE IsShift(dat)
      BY <3>1, <2>1, <1>3 DEF KeyboardLinked, Agree
    <3>2. CASE ~IsShift(dat)
      <4>1. Agree(Before(stamp, stamps, Len(stamps) + 1),
                  [down |-> down, sure |-> sure])
        BY <3>2, <1>0 DEF KeyboardLinked
      <4>2. sure' = sure
        BY <3>2, <2>1 DEF IInv, TypeOK
      <4> QED
        BY <3>2, <4>1, <4>2, <2>1 DEF KeyboardLinked
    <3> QED
      BY <3>1, <3>2
  <2> QED
    BY <2>1, <2>2, <2>3, <1>0, SInvQuiet
<1>4. CASE IsrLost
  BY <1>4, <1>3 DEF IsrLost
<1>5. CASE IsrPush
  <2>1. /\ isr = "push" /\ isr' = "unlock"
        /\ UNCHANGED <<flag, loop, dat, num_lostkey>>
    BY <1>5 DEF IsrPush
  <2>2. PICK err \in Error : /\ Push(dat, err)
                             /\ IF err = kSuccess THEN Keep ELSE Drop
    BY <1>5 DEF IsrPush
  <2>3. CASE err # kSuccess
    <3>1. UNCHANGED queue /\ Drop
      BY <2>2, <2>3 DEF Push
    <3> QED
      BY <3>1, <2>1, <1>3
  <2>4. CASE err = kSuccess
    <3> DEFINE s == [down |-> down, sure |-> sure']
    <3>1. /\ UNCHANGED <<pc, key, shifted, ascii, dat, down, stamp>>
          /\ sure' = (sure \/ IsShift(dat)) /\ stamps' = Append(stamps, s)
      BY <2>1, <2>2, <2>4 DEF Keep, loop
    <3>2. Contents' = Append(Contents, dat) /\ dat \in T
      BY <2>2, <2>4, PushAppends DEF IInv, TypeOK
    <3>3. /\ Contents \in Seq(T) /\ Len(Contents) = Len(stamps)
          /\ stamps \in Seq(Stamp)
      BY ContentsShape DEF IInv, TypeOK
    <3>4. s \in Stamp
      BY <3>1 DEF IInv, TypeOK, Stamp
    <3>5. Link(Before(stamp, stamps, Len(stamps) + 1), dat, s)
      <4>1. CASE IsShift(dat)
        <5>1. down = Press(dat) /\ sure' = TRUE
          BY <4>1, <2>1, <3>1, <1>0 DEF KeyboardLinked
        <5> QED
          BY <4>1, <5>1 DEF Link
      <4>2. CASE ~IsShift(dat)
        <5>1. sure' = sure
          BY <4>2, <3>1 DEF IInv, TypeOK
        <5>2. Agree(Before(stamp, stamps, Len(stamps) + 1),
                    [down |-> down, sure |-> sure])
          BY <4>2, <1>0 DEF KeyboardLinked
        <5> QED
          BY <4>2, <5>1, <5>2 DEF Link
      <4> QED
        BY <4>1, <4>2
    <3>6. /\ Linked(stamp, Append(stamps, s), Append(Contents, dat))
          /\ Before(stamp, Append(stamps, s), Len(Append(stamps, s)) + 1) = s
      <4> HIDE DEF s
      <4> QED
        BY <3>2, <3>3, <3>4, <3>5, <1>0, LinkedAppend
    <3>7. HandLinked'
      BY <3>1, <1>0 DEF HandLinked, Decoder
    <3>8. KeyboardLinked'
      <4>1. Before(stamp', stamps', Len(stamps') + 1) = s
        BY <3>1, <3>6
      <4>2. [down |-> down', sure |-> sure'] = s
        BY <3>1
      <4>3. Agree(s, s)
        BY DEF Agree
      <4> QED
        BY <4>1, <4>2, <4>3, <2>1 DEF KeyboardLinked
    <3> QED
      BY <3>1, <3>2, <3>6, <3>7, <3>8, <1>0 DEF SInv
  <2> QED
    BY <2>3, <2>4
<1> QED
  BY <1>1, <1>2, <1>4, <1>5 DEF Inthandler21

LEMMA SInvLoop ==
  ASSUME IInv, IInv', SInv, MainStep
  PROVE  SInv'
<1>0. /\ Linked(stamp, stamps, Contents) /\ HandLinked /\ KeyboardLinked
      /\ pc = "putchar" => ascii = Ascii(key, shifted)
  BY DEF SInv
<1>1. ASSUME UNCHANGED <<queue, isr, dat, history, shifted>>,
             UNCHANGED key \/ pc = "front",
             pc \notin {"pop_store", "dispatch", "halted"},
             pc' \in {"unlock", "dispatch"} <=> pc = "unlock",
             pc' # "putchar", pc = "unlock" => pc' = "dispatch"
      PROVE  SInv'
  <2>1. UNCHANGED <<stamp, stamps, down, sure>>
    BY <1>1 DEF history
  <2>2. HandLinked'
    BY <2>1, <1>0, <1>1 DEF HandLinked, Decoder
  <2>3. KeyboardLinked'
    BY <2>1, <1>0, <1>1 DEF KeyboardLinked
  <2> QED
    BY <2>1, <2>2, <2>3, <1>1, SInvQuiet
<1>2. CASE MainLock \/ MainCount \/ MainUnlockEmpty \/ MainHlt \/ MainFront
             \/ MainPopLoad \/ MainUnlock \/ MainPutChar
  <2>1. UNCHANGED <<queue, isr, dat, history, shifted>>
    BY <1>2 DEF MainLock, MainCount, MainUnlockEmpty, MainHlt, MainFront,
       MainPopLoad, MainUnlock, MainPutChar
  <2>2. UNCHANGED key \/ pc = "front"
    BY <1>2 DEF MainLock, MainCount, MainUnlockEmpty, MainHlt, MainFront,
       MainPopLoad, MainUnlock, MainPutChar, Goto
  <2>3. /\ pc \notin {"pop_store", "dispatch", "halted"}
        /\ pc' \in {"unlock", "dispatch"} <=> pc = "unlock"
        /\ pc' # "putchar" /\ (pc = "unlock" => pc' = "dispatch")
    BY <1>2 DEF MainLock, MainCount, MainUnlockEmpty, MainHlt, MainFront,
       MainPopLoad, MainUnlock, MainPutChar, Goto, IInv, LoopKnows
  <2> QED
    BY <2>1, <2>2, <2>3, <1>1
<1>3. CASE MainPopStore
  <2>1. /\ isr = "none" /\ pc = "pop_store" /\ pc' = "unlock"
        /\ TakeFront(loaded)
        /\ stamp' = Head(stamps) /\ stamps' = Tail(stamps)
        /\ UNCHANGED <<key, shifted, isr, dat, down, sure>>
    BY <1>3 DEF MainPopStore, Goto
  <2>2. loaded = count /\ count # 0 /\ key = Front /\ QueueOK
    BY <2>1 DEF IInv, LoopKnows, TypeOK
  <2>3. Contents' = Tail(Contents) /\ key = Head(Contents)
    BY <2>1, <2>2, TakeDropsOldest
  <2>4. /\ Contents \in Seq(T) /\ Len(Contents) = Len(stamps)
        /\ stamps \in Seq(Stamp) /\ stamps # <<>>
    BY <2>2, ContentsShape DEF IInv, TypeOK
  <2>5. /\ Link(stamp, key, stamp')
        /\ Linked(stamp', stamps', Contents')
        /\ Before(stamp', stamps', Len(stamps') + 1)
             = Before(stamp, stamps, Len(stamps) + 1)
    BY <2>1, <2>3, <2>4, <1>0, LinkedTail
  <2>6. Agree(Decoder, stamp)
    BY <2>1, <1>0 DEF HandLinked
  <2>7. Link(Decoder, key, stamp')
    BY <2>5, <2>6 DEF Link, Agree, Decoder
  <2>8. HandLinked'
    BY <2>1, <2>7 DEF HandLinked, Decoder
  <2>9. KeyboardLinked'
    BY <2>1, <2>5, <1>0 DEF KeyboardLinked
  <2> QED
    BY <2>1, <2>5, <2>8, <2>9 DEF SInv
<1>4. CASE MainDispatch
  <2>1. /\ isr = "none" /\ pc = "dispatch" /\ pc' \in {"putchar", "lock"}
        /\ shifted' = IF IsShift(key) THEN Press(key) ELSE shifted
        /\ ascii' = IF Press(key) /\ ~IsShift(key) THEN Ascii(key, shifted) ELSE 0
        /\ pc' = IF ascii' # 0 THEN "putchar" ELSE "lock"
        /\ UNCHANGED <<queue, key, isr, dat, stamps, stamp, down, sure>>
    BY <1>4 DEF MainDispatch, Goto, history
  <2>2. Link(Decoder, key, stamp)
    BY <2>1, <1>0 DEF HandLinked
  <2>3. Agree([down |-> shifted', sure |-> TRUE], stamp)
    <3>1. CASE IsShift(key)
      BY <3>1, <2>1, <2>2 DEF Link, Agree
    <3>2. CASE ~IsShift(key)
      BY <3>2, <2>1, <2>2 DEF Link, Decoder
    <3> QED
      BY <3>1, <3>2
  <2>4. HandLinked'
    BY <2>1, <2>3 DEF HandLinked, Decoder
  <2>5. KeyboardLinked'
    BY <2>1, <1>0 DEF KeyboardLinked
  <2>6. pc' = "putchar" => ascii' = Ascii(key', shifted')
    BY <2>1
  <2> QED
    BY <2>1, <2>4, <2>5, <2>6, SInvQuiet
<1> QED
  BY <1>2, <1>3, <1>4 DEF MainStep, LoopStep

LEMMA SInvNext == IInv /\ IInv' /\ SInv /\ [Next]_vars => SInv'
<1> SUFFICES ASSUME IInv, IInv', SInv, [Next]_vars PROVE SInv'
  OBVIOUS
<1>1. CASE Strike \/ Inthandler21
  BY <1>1, SInvHandler DEF Strike
<1>2. CASE MainStep
  BY <1>2, SInvLoop
<1>3. CASE UNCHANGED vars
  <2>1. UNCHANGED <<queue, pc, key, shifted, ascii, isr, dat, down, sure, stamps,
                    stamp>>
    BY <1>3 DEF vars, loop, history
  <2>2. HandLinked'
    BY <2>1 DEF SInv, HandLinked, Decoder
  <2>3. KeyboardLinked'
    BY <2>1 DEF SInv, KeyboardLinked
  <2> QED
    BY <2>1, <2>2, <2>3, SInvQuiet DEF SInv
<1> QED
  BY <1>1, <1>2, <1>3 DEF Next

(* Whenever the keys are struck and however far the loop lags, a key is    *)
(* decoded with the shift state it was struck with, unless the shift code  *)
(* that set it was dropped (main.cpp 261, 276-303).                        *)
THEOREM KeyboardShift == Spec => []ShiftAtStroke
<1>1. SInv => ShiftAtStroke
  BY DEF SInv, ShiftAtStroke, HandLinked, Agree, Decoder
<1> QED
  BY <1>1, InvariantHolds, SInvInit, SInvNext, PTL DEF Spec
=============================================================================

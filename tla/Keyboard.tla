------------------------------ MODULE Keyboard ------------------------------
(***************************************************************************)
(* The keyboard path of main.cpp: the handler of IRQ 1 puts scan codes     *)
(* into keydat, the loop at the end of MyMain takes them out, both under   *)
(* keydat_mutex.  There is one processor.  The handler runs through an     *)
(* interrupt gate, so it is never interrupted itself, and the loop makes   *)
(* no step while it runs (isr # "none"); it may start between any two      *)
(* steps of the loop.  The handler is taken to give the loop its registers *)
(* back; whether the stub does that is the question of TrapFrame.          *)
(***************************************************************************)
EXTENDS ArrayQueue, Mutex

CONSTANTS
  keytable_normal, keytable_shifted,  (* character of a key, 0 for none     *)
  UIntMod                             (* 2^(width of unsigned int)          *)

ASSUME KeyboardAssumption ==
  /\ T \subseteq 0 .. 255
  /\ StorageCounts = {0}    (* keydat has static storage                    *)
  /\ keytable_normal \in [0 .. 127 -> 0 .. 127]
  /\ keytable_shifted \in [0 .. 127 -> 0 .. 127]
  /\ UIntMod \in Nat \ {0}

VARIABLES
  pc,           (* where the loop of MyMain is                              *)
  key,          (* its local: the scan code in hand                         *)
  loaded,       (* the value --count_ read in the Pop under way             *)
  shifted,      (* its local                                                *)
  ascii,        (* its local: the character given to shell.PutChar          *)
  isr,          (* where Inthandler21 is, "none" when it is not running     *)
  dat,          (* its local: the code it read from the controller          *)
  num_lostkey,
  (* History, read by no action's guard:                                    *)
  dropped,      (* codes that were read and not queued, mod UIntMod         *)
  down,         (* the last shift code the keyboard sent was a press        *)
  sure,         (* and that code was not dropped                            *)
  stamps,       (* down and sure when each queued code was sent             *)
  stamp         (* the same for the code in hand                            *)

loop == <<pc, key, loaded, shifted, ascii>>
history == <<dropped, down, sure, stamps, stamp>>
vars == <<queue, flag, loop, isr, dat, num_lostkey, history>>

Press(code) == code < 128
KeyOf(code) == code % 128
IsShift(code) == KeyOf(code) \in {42, 54}

(* The character a pressed key stands for; unshifted letters are made      *)
(* small, and 0 is no character.                                           *)
Ascii(code, shift) ==
  LET c == IF shift THEN keytable_shifted[code] ELSE keytable_normal[code]
  IN  IF ~shift /\ c \in 65 .. 90 THEN c + 32 ELSE c

Init ==
  /\ Construct
  /\ flag = kClear
  /\ pc = "lock" /\ isr = "none"
  /\ key \in T /\ dat = key    (* not assigned yet *)
  /\ loaded = 0 /\ ascii = 0
  /\ shifted = FALSE
  /\ num_lostkey = 0
  /\ dropped = 0 /\ down = FALSE /\ sure = TRUE
  /\ stamps = <<>> /\ stamp = [down |-> FALSE, sure |-> TRUE]

-----------------------------------------------------------------------------
(* Inthandler21.                                                           *)

(* The controller has a code and interrupts are enabled: the processor     *)
(* leaves the loop where it is (or leaves hlt) and the handler acknowledges*)
(* the interrupt and reads the code.                                       *)
Interrupt(code) ==
  /\ isr = "none"
  /\ isr' = "try"
  /\ dat' = code
  /\ pc' = IF pc = "halted" THEN "lock" ELSE pc
  /\ down' = IF IsShift(code) THEN Press(code) ELSE down
  /\ UNCHANGED <<queue, flag, key, loaded, shifted, ascii, num_lostkey,
                 dropped, sure, stamps, stamp>>

(* Mutant: the handler takes the lock with Lock, not with TryLock.         *)
IsrLock ==
  /\ isr = "try"
  /\ Lock
  /\ isr' = "push"
  /\ UNCHANGED <<queue, loop, dat, num_lostkey, history>>

IsrTryLock ==
  /\ isr = "try"
  /\ \E ok \in BOOLEAN : TryLock(ok) /\ isr' = IF ok THEN "push" ELSE "lost"
  /\ UNCHANGED <<queue, loop, dat, num_lostkey, history>>

(* The code the handler holds is gone, counted or not.                     *)
Drop ==
  /\ dropped' = (dropped + 1) % UIntMod
  /\ sure' = (sure /\ ~IsShift(dat))
  /\ UNCHANGED <<down, stamps, stamp>>

Keep ==
  /\ sure' = (sure \/ IsShift(dat))
  /\ stamps' = Append(stamps, [down |-> down, sure |-> sure'])
  /\ UNCHANGED <<dropped, down, stamp>>

(* Mutant: on a full queue the handler returns at once.                    *)
IsrPushLeaky ==
  /\ isr = "push"
  /\ \E err \in Error : /\ Push(dat, err)
                        /\ IF err = kSuccess THEN Keep ELSE Drop
                        /\ isr' = IF err = kSuccess THEN "unlock" ELSE "none"
  /\ UNCHANGED <<flag, loop, dat, num_lostkey>>

(* The error that Push returns is not looked at.                           *)
IsrPush ==
  /\ isr = "push"
  /\ \E err \in Error : /\ Push(dat, err)
                        /\ IF err = kSuccess THEN Keep ELSE Drop
  /\ isr' = "unlock"
  /\ UNCHANGED <<flag, loop, dat, num_lostkey>>

IsrUnlock ==
  /\ isr = "unlock"
  /\ Unlock
  /\ isr' = "none"
  /\ UNCHANGED <<queue, loop, dat, num_lostkey, history>>

IsrLost ==
  /\ isr = "lost"
  /\ num_lostkey' = (num_lostkey + 1) % UIntMod
  /\ Drop
  /\ isr' = "none"
  /\ UNCHANGED <<queue, flag, loop, dat>>

Inthandler21 == IsrTryLock \/ IsrPush \/ IsrUnlock \/ IsrLost

-----------------------------------------------------------------------------
(* The loop of MyMain.                                                     *)
Goto(here, there) == isr = "none" /\ pc = here /\ pc' = there

(* Mutant: the loop does not take the lock.                                *)
MainLockSkipped ==
  /\ Goto("lock", "count")
  /\ UNCHANGED <<queue, flag, key, loaded, shifted, ascii, isr, dat,
                 num_lostkey, history>>

MainLock ==
  /\ Goto("lock", "count")
  /\ Lock
  /\ UNCHANGED <<queue, key, loaded, shifted, ascii, isr, dat, num_lostkey,
                 history>>

MainCount ==
  /\ Goto("count", IF Count = 0 THEN "unlock_empty" ELSE "front")
  /\ UNCHANGED <<queue, flag, key, loaded, shifted, ascii, isr, dat,
                 num_lostkey, history>>

(* Mutant: the loop goes to sleep with the lock held.                      *)
MainUnlockEmptyMissing ==
  /\ Goto("unlock_empty", "hlt")
  /\ UNCHANGED <<queue, flag, key, loaded, shifted, ascii, isr, dat,
                 num_lostkey, history>>

MainUnlockEmpty ==
  /\ Goto("unlock_empty", "hlt")
  /\ Unlock
  /\ UNCHANGED <<queue, key, loaded, shifted, ascii, isr, dat, num_lostkey,
                 history>>

(* hlt: only an interrupt that comes later ends it.                        *)
MainHlt ==
  /\ Goto("hlt", "halted")
  /\ UNCHANGED <<queue, flag, key, loaded, shifted, ascii, isr, dat,
                 num_lostkey, history>>

MainFront ==
  /\ Goto("front", "pop")
  /\ key' = Front
  /\ UNCHANGED <<queue, flag, loaded, shifted, ascii, isr, dat, num_lostkey,
                 history>>

(* Pop is not one step: it reads count_ and later writes it.  (The locals  *)
(* loaded and ascii are reset when they are no longer used.)               *)
MainPopLoad ==
  /\ Goto("pop", IF count = 0 THEN "unlock" ELSE "pop_store")
  /\ loaded' = count
  /\ UNCHANGED <<queue, flag, key, shifted, ascii, isr, dat, num_lostkey,
                 history>>

MainPopStore ==
  /\ Goto("pop_store", "unlock")
  /\ TakeFront(loaded)
  /\ loaded' = 0
  /\ stamp' = Head(stamps) /\ stamps' = Tail(stamps)
  /\ UNCHANGED <<flag, key, shifted, ascii, isr, dat, num_lostkey,
                 dropped, down, sure>>

(* Mutant: the loop does not give the lock back.                           *)
MainUnlockMissing ==
  /\ Goto("unlock", "dispatch")
  /\ UNCHANGED <<queue, flag, key, loaded, shifted, ascii, isr, dat,
                 num_lostkey, history>>

MainUnlock ==
  /\ Goto("unlock", "dispatch")
  /\ Unlock
  /\ UNCHANGED <<queue, key, loaded, shifted, ascii, isr, dat, num_lostkey,
                 history>>

(* Mutant: the release of a shift key is taken for a press.                *)
MainDispatchSticky ==
  /\ shifted' = (shifted \/ IsShift(key))
  /\ ascii' = IF Press(key) /\ ~IsShift(key) THEN Ascii(key, shifted) ELSE 0
  /\ Goto("dispatch", IF ascii' # 0 THEN "putchar" ELSE "lock")
  /\ UNCHANGED <<queue, flag, key, loaded, isr, dat, num_lostkey, history>>

MainDispatch ==
  /\ shifted' = IF IsShift(key) THEN Press(key) ELSE shifted
  /\ ascii' = IF Press(key) /\ ~IsShift(key) THEN Ascii(key, shifted) ELSE 0
  /\ Goto("dispatch", IF ascii' # 0 THEN "putchar" ELSE "lock")
  /\ UNCHANGED <<queue, flag, key, loaded, isr, dat, num_lostkey, history>>

(* shell.PutChar(ascii) returns.  It runs with interrupts enabled, however *)
(* long it takes, and it may never return: a newline executes a command,   *)
(* and lspci on capabilities in a circle or xhci (command.cpp 113, 222,    *)
(* 309, 319) can wait for ever.  What it does is in DebugShell.            *)
MainPutChar ==
  /\ Goto("putchar", "lock")
  /\ ascii' = 0
  /\ UNCHANGED <<queue, flag, key, loaded, shifted, isr, dat, num_lostkey,
                 history>>

(* The steps that are the loop's own.                                      *)
LoopStep ==
  \/ MainLock \/ MainCount \/ MainUnlockEmpty \/ MainHlt \/ MainFront
  \/ MainPopLoad \/ MainPopStore \/ MainUnlock \/ MainDispatch

MainStep == LoopStep \/ MainPutChar

Strike == \E code \in T : Interrupt(code)

Next == Strike \/ Inthandler21 \/ MainStep

(* The handler runs to its end once started.  The loop is not starved: a   *)
(* keyboard is slower than the processor, so between two codes the loop    *)
(* gets to make a step.  Nothing is asked of MainPutChar, for the command  *)
(* it executes may not end, and nobody has to press a key.                 *)
Spec == Init /\ [][Next]_vars /\ WF_vars(Inthandler21) /\ SF_vars(LoopStep)

-----------------------------------------------------------------------------
Stamp == [down : BOOLEAN, sure : BOOLEAN]

LoopPlaces == {"lock", "count", "unlock_empty", "hlt", "halted", "front",
               "pop", "pop_store", "unlock", "dispatch", "putchar"}
IsrPlaces == {"none", "try", "push", "unlock", "lost"}

TypeOK ==
  /\ QueueOK /\ FlagOK
  /\ pc \in LoopPlaces /\ isr \in IsrPlaces
  /\ key \in T /\ dat \in T
  /\ loaded \in 0 .. N /\ ascii \in 0 .. 127 /\ shifted \in BOOLEAN
  /\ num_lostkey \in 0 .. UIntMod - 1 /\ dropped \in 0 .. UIntMod - 1
  /\ down \in BOOLEAN /\ sure \in BOOLEAN
  /\ stamps \in Seq(Stamp) /\ stamp \in Stamp

LoopCritical == pc \in {"count", "unlock_empty", "front", "pop", "pop_store",
                        "unlock"}

(* The handler does not touch the queue while the loop is between Lock and *)
(* Unlock (main.cpp 169-173 against 264-274).                              *)
MutualExclusion == ~(LoopCritical /\ isr \in {"push", "unlock"})

(* On a single processor a spinning loop would wait for a handler that     *)
(* cannot run: the handler has given the lock back, on every path, when it *)
(* returns, so the loop's Lock succeeds at once (main.cpp 264).            *)
LoopNeverSpins == isr = "none" /\ pc = "lock" => flag = kClear

(* A code is dropped only if it comes while the loop is between Lock and   *)
(* Unlock, or the queue is full: never because the loop is in hlt, in the  *)
(* shell, or has forgotten the lock.                                       *)
LossExcused == [][dropped' # dropped => LoopCritical \/ count = N]_vars

(* Every code that is queued reaches the decoder exactly once and in the   *)
(* order it was sent, although Push can come between any two steps of the  *)
(* loop (main.cpp 164-178, 262-274).                                       *)
Hand == IF pc \in {"unlock", "dispatch", "putchar"} THEN <<key>> ELSE <<>>
Channel == INSTANCE KeyChannel WITH Capacity <- N, Code <- T,
                                    chan <- Contents, hand <- Hand
IsKeyChannel == Channel!Spec

(* A key is decoded with the shift state of the moment it was struck, not  *)
(* of the moment the loop gets to it, unless the last shift code before it *)
(* was dropped; the next shift code that gets through repairs that         *)
(* (main.cpp 261, 276-303).                                                *)
ShiftAtStroke ==
  pc = "putchar" /\ stamp.sure => ascii = Ascii(key, stamp.down)

(* Whatever the loop was doing, the handler returns: the single processor  *)
(* is not lost in it (main.cpp 164-178).                                   *)
HandlerReturns == isr # "none" ~> isr = "none"

(* A queued code is decoded, unless shell.PutChar never returns, provided  *)
(* keys keep being struck (main.cpp 262-303).  Without the strokes it may  *)
(* wait for ever: the code can arrive between the Unlock of line 267 and   *)
(* the hlt of line 268, and hlt then sleeps on a queue that is not empty.  *)
QueuedIsDecoded ==
  []<><<Strike>>_vars =>
    [](count > 0 => <>(pc = "dispatch" \/ [](pc = "putchar")))

(* main.cpp 275 prints num_lostkey as the number of lost keys.             *)
LostKeysCounted == isr = "none" => num_lostkey = dropped
=============================================================================

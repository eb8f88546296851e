----------------------------- MODULE TrapFrame -----------------------------
(***************************************************************************)
(* The instructions of CompareExchange (asmfunc.s) as the loop of MyMain   *)
(* runs them in keydat_mutex.Lock, with the interrupt stub of inthandler.s *)
(* between any two of them.  The stub calls Inthandler21, a C++ function,  *)
(* which the calling convention allows to leave anything in the            *)
(* caller-saved registers, and returns with iretq.                         *)
(***************************************************************************)
EXTENDS Naturals

CONSTANTS
  Word,  (* the values of a register or of the flag: kClear, kFlagged, others *)
  Addr   (* what rdi may point to, Flag among it                           *)

kClear == 0
kFlagged == 1
Flag == "flag_"

VARIABLES pc, rax, rsi, rdx, rdi, mem

regs == <<rax, rsi, rdx, rdi>>
vars == <<pc, regs, mem>>

(* The call CompareExchange(&flag_, kClear, kFlagged), with the flag clear. *)
Init ==
  /\ pc = "mov"
  /\ rax \in Word
  /\ rdi = Flag /\ rsi = kClear /\ rdx = kFlagged
  /\ mem \in [Addr -> Word] /\ mem[Flag] = kClear

(* mov rax, rsi                                                            *)
Mov ==
  /\ pc = "mov" /\ pc' = "cmpxchg"
  /\ rax' = rsi
  /\ UNCHANGED <<rsi, rdx, rdi, mem>>

(* lock cmpxchg [rdi], rdx                                                 *)
CmpXchg ==
  /\ pc = "cmpxchg" /\ pc' = "ret"
  /\ \/ /\ mem[rdi] = rax
        /\ mem' = [mem EXCEPT ![rdi] = rdx]
        /\ UNCHANGED rax
     \/ /\ mem[rdi] # rax
        /\ rax' = mem[rdi]
        /\ UNCHANGED mem
  /\ UNCHANGED <<rsi, rdx, rdi>>

(* ret, with the result in rax.                                            *)
Ret ==
  /\ pc = "ret" /\ pc' = "returned"
  /\ UNCHANGED <<regs, mem>>

(* call Inthandler21; iretq.  No register is saved around the call.  The   *)
(* handler gives the lock back if it gets it, so the flag is as before.    *)
AsmInthandler21 ==
  /\ pc \in {"mov", "cmpxchg", "ret"}
  /\ rax' \in Word /\ rsi' \in Word /\ rdx' \in Word /\ rdi' \in Addr
  /\ UNCHANGED <<pc, mem>>

Next == Mov \/ CmpXchg \/ Ret \/ AsmInthandler21

Spec == Init /\ [][Next]_vars

-----------------------------------------------------------------------------
(* asmfunc.h lines 16, 17 and 23: the flag was kClear as expected, so the  *)
(* call writes kFlagged to it and returns the value it had, kClear.        *)
CompareExchangeContract ==
  pc = "returned" => rax = kClear /\ mem[Flag] = kFlagged
=============================================================================

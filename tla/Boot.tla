-------------------------------- MODULE Boot --------------------------------
(***************************************************************************)
(* MyMain of main.cpp from its first line to its loop, composed with the   *)
(* command xhci that auto_cmd runs on the way: pixel format, entry 0x21 of *)
(* the interrupt descriptor table, auto_cmd, the interrupt controllers     *)
(* (PIC), the keyboard controller (KBC), and then commands that are typed. *)
(* Nothing here turns interrupts on, and hlt needs them, so they have been *)
(* on from the beginning.  The PICs, the KBC and the processor's dispatch  *)
(* of IRQ 1 are hardware, modelled as far as the code relies on them; what *)
(* the handler does with a code is in Keyboard.                            *)
(***************************************************************************)
EXTENDS XhciCommand

VARIABLES
  boot,        (* where MyMain is                                           *)
  step,        (* the port write it is at, in init_pic and init_keyboard    *)
  idt,         (* how many words of the entry are written                   *)
  refused,     (* SetIDTEntry found the table too short                     *)
  pic,         (* PIC 0 and PIC 1                                           *)
  irr,         (* PIC 0 has latched a request of IRQ 1                      *)
  kbc,         (* what is in the input buffer of the KBC                    *)
  mode_next,   (* of the KBC: the next data byte is its mode                *)
  kbc_int,     (* of the KBC: its mode says to raise IRQ 1                  *)
  code,        (* of the KBC: a scan code waits in its output buffer        *)
  early,       (* history: IRQ 1 was up when PIC 0 was initialised          *)
  astray       (* history: an IRQ 1 was not led to Inthandler21             *)

mymain == <<boot, step, idt, refused>>
board == <<pic, irr, kbc, mode_next, kbc_int, code, early>>
bootVars == <<allVars, mymain, board, astray>>

(* The firmware has masked all interrupts, and may have left the KBC busy. *)
BInit ==
  /\ XInit
  /\ boot = "format" /\ step = 1 /\ idt = 0 /\ refused = FALSE
  /\ pic = [chip \in {0, 1} |-> [icw |-> 0, base |-> 8, imr |-> 0 .. 7]]
  /\ irr = FALSE /\ kbc = "data" /\ mode_next = FALSE
  /\ kbc_int \in BOOLEAN /\ code = FALSE
  /\ early = FALSE /\ astray = FALSE

-----------------------------------------------------------------------------
(* Mutant: the interrupts are set up before the descriptor table.          *)
MyMainOrderSwapped ==
  [format |-> "auto", xhci |-> "pic", pic |-> "idt", idt |-> "kbc",
   kbc |-> "loop"]

(* What comes after what.                                                  *)
MyMainOrder ==
  [format |-> "idt", idt |-> "auto", xhci |-> "pic", pic |-> "kbc",
   kbc |-> "loop"]

(* The switch over the pixel format leaves no writer for most of them, and *)
(* MyMain returns.                                                         *)
PixelFormat ==
  /\ boot = "format"
  /\ boot' \in {"returned", MyMainOrder.format}
  /\ UNCHANGED <<allVars, step, idt, refused, board, astray>>

(* SetIDTEntry: the three words of the entry, one after the other, or an   *)
(* error that MyMain prints before it goes on.                             *)
SetIDTEntry ==
  /\ boot = "idt"
  /\ \/ /\ idt = 0 /\ refused' = TRUE
        /\ UNCHANGED idt
     \/ /\ idt' = idt + 1
        /\ UNCHANGED refused
  /\ boot' = IF refused' \/ idt' = 3 THEN MyMainOrder.idt ELSE boot
  /\ UNCHANGED <<allVars, step, board, astray>>

(* The last line of auto_cmd; the two before it are lspci's.               *)
AutoCmd ==
  /\ boot = "auto" /\ boot' = "xhci"
  /\ Enter \/ NoController
  /\ UNCHANGED <<step, idt, refused, board, astray>>

AutoCmdDone ==
  /\ boot = "xhci" /\ at = "shell"
  /\ boot' = MyMainOrder.xhci
  /\ UNCHANGED <<allVars, step, idt, refused, board, astray>>

(* Mutant: the masks that the comments of init_pic spell in binary.        *)
InitPicAsCommented ==
  << <<0, "imr", 0 .. 7>>, <<1, "imr", 0 .. 7>>,
     <<0, "icw1", 17>>, <<0, "icw2", 32>>, <<0, "icw3", 4>>, <<0, "icw4", 1>>,
     <<1, "icw1", 17>>, <<1, "icw2", 40>>, <<1, "icw3", 2>>, <<1, "icw4", 1>>,
     <<0, "imr", (0 .. 7) \ {2}>>, <<1, "imr", 0 .. 7>> >>

(* The writes of init_pic: chip, register, value; a mask is the set of the *)
(* bits that are 1.                                                        *)
InitPic ==
  << <<0, "imr", 0 .. 7>>, <<1, "imr", 0 .. 7>>,
     <<0, "icw1", 17>>, <<0, "icw2", 32>>, <<0, "icw3", 4>>, <<0, "icw4", 1>>,
     <<1, "icw1", 17>>, <<1, "icw2", 40>>, <<1, "icw3", 2>>, <<1, "icw4", 1>>,
     <<0, "imr", (0 .. 7) \ {1, 2}>>, <<1, "imr", 0 .. 7>> >>

(* A PIC after a write.  Only ICW1 has a port of its own: which register   *)
(* the other port is depends on what the PIC expects.  ICW1 clears the     *)
(* mask.                                                                   *)
Written(chip, register, value) ==
  CASE register = "icw1" ->
         [icw |-> 2, base |-> chip.base, imr |-> {}]
    [] register # "icw1" /\ chip.icw = 0 -> [chip EXCEPT !.imr = value]
    [] register # "icw1" /\ chip.icw = 2 ->
         [icw |-> 3, base |-> value, imr |-> chip.imr]
    [] register # "icw1" /\ chip.icw = 3 -> [chip EXCEPT !.icw = 4]
    [] register # "icw1" /\ chip.icw = 4 -> [chip EXCEPT !.icw = 0]

(* ICW1 of PIC 0 also forgets the requests: from then on it takes a new    *)
(* edge to make one.                                                       *)
WritePic ==
  /\ boot = "pic"
  /\ LET w == InitPic[step]
     IN  /\ pic' = [pic EXCEPT ![w[1]] = Written(@, w[2], w[3])]
         /\ IF w[1] = 0 /\ w[2] = "icw1"
              THEN irr' = FALSE /\ early' = (code /\ kbc_int)
              ELSE UNCHANGED <<irr, early>>
  /\ step' = (step % Len(InitPic)) + 1
  /\ boot' = IF step = Len(InitPic) THEN MyMainOrder.pic ELSE boot
  /\ UNCHANGED <<allVars, idt, refused, kbc, mode_next, kbc_int, code, astray>>

(* init_keyboard: before each of its two bytes wait_KBC_sendready polls    *)
(* until the input buffer is empty.                                        *)
InitKeyboard ==
  /\ boot = "kbc" /\ kbc = "empty"
  /\ kbc' = IF step = 1 THEN "command" ELSE "data"
  /\ step' = 3 - step
  /\ boot' = IF step = 2 THEN MyMainOrder.kbc ELSE boot
  /\ UNCHANGED <<allVars, idt, refused, pic, irr, mode_next, kbc_int, code,
                 early, astray>>

(* The command again, typed.                                               *)
Typed ==
  /\ boot = "loop"
  /\ Enter \/ NoController
  /\ UNCHANGED <<mymain, board, astray>>

MyMain ==
  \/ PixelFormat \/ SetIDTEntry \/ AutoCmd \/ AutoCmdDone \/ WritePic
  \/ InitKeyboard
  \/ Xhci /\ UNCHANGED <<mymain, board, astray>>

-----------------------------------------------------------------------------
(* A key is struck; if the KBC holds a code already, this one waits in the *)
(* keyboard.                                                               *)
Strike ==
  /\ ~code /\ code' = TRUE
  /\ irr' = (irr \/ kbc_int)
  /\ UNCHANGED <<allVars, mymain, pic, kbc, mode_next, kbc_int, early, astray>>

(* The KBC takes the byte in its input buffer.  Told to raise IRQ 1 while  *)
(* it is up, it may or may not make an edge.                               *)
KbcTake ==
  /\ kbc # "empty" /\ kbc' = "empty"
  /\ mode_next' = (kbc = "command")
  /\ kbc_int' = (kbc_int \/ (kbc = "data" /\ mode_next))
  /\ irr' \in {irr \/ (code /\ kbc_int' /\ ~kbc_int),
               irr \/ (code /\ kbc = "data" /\ mode_next)}
  /\ UNCHANGED <<allVars, mymain, pic, code, early, astray>>

(* The processor is interrupted, at any point of MyMain.  If the vector    *)
(* leads to Inthandler21, which reads the code, MyMain goes on.            *)
Irq1 ==
  /\ irr /\ pic[0].icw = 0 /\ 1 \notin pic[0].imr
  /\ irr' = FALSE
  /\ IF pic[0].base + 1 = 33 /\ idt = 3
       THEN code' = FALSE /\ UNCHANGED astray
       ELSE astray' = TRUE /\ UNCHANGED code
  /\ UNCHANGED <<allVars, mymain, pic, kbc, mode_next, kbc_int, early>>

Hardware == (Xhc \/ PortStatusChange) /\ UNCHANGED <<mymain, board, astray>>

BNext ==
  \/ ~astray /\ (MyMain \/ Typed)
  \/ Hardware \/ Strike \/ KbcTake
  \/ ~astray /\ Irq1

(* The processor runs, the KBC takes what it is sent, the xHC executes     *)
(* commands.  Nobody has to strike a key, type a command, or plug.         *)
BSpec ==
  /\ BInit /\ [][BNext]_bootVars
  /\ WF_bootVars(~astray /\ MyMain) /\ WF_bootVars(~astray /\ Irq1)
  /\ WF_bootVars(KbcTake)
  /\ WF_bootVars(Xhc /\ UNCHANGED <<mymain, board, astray>>)

-----------------------------------------------------------------------------
(* From the first write to a PIC on, an interrupt of the keyboard finds    *)
(* its vector and a complete entry, if the table has room for one: MyMain  *)
(* fills in the entry before it unmasks IRQ 1 (main.cpp 237-259).          *)
HandlerReady == astray => refused

(* MyMain gets to its loop, with auto_cmd's xhci on the way, if the        *)
(* controller was halted and has at most one slot in use.  With a second   *)
(* slot the command may wait for ever and no key is ever taken: the PIC    *)
(* and the KBC are not set up yet (main.cpp 204-261).  Two ways to end     *)
(* before the loop are allowed: MyMain returns when it does not know the   *)
(* pixel format, and a key goes astray, which by HandlerReady needs a      *)
(* descriptor table without room for entry 0x21 (refused): MyMain prints   *)
(* the error of SetIDTEntry and goes on all the same.                      *)
AtMostOne(S) == \A s, t \in S : s = t
KeyboardComesUp ==
  ~running /\ AtMostOne(occupied) =>
    <>(boot \in {"loop", "returned"} \/ astray)

(* Once MyMain is in its loop, every code reaches the handler, also while  *)
(* a typed command waits for ever, unless a key was struck too early: then *)
(* IRQ 1 was up before ICW1, nobody reads the code, and no edge comes      *)
(* (main.cpp 114-158).                                                     *)
CodeIsRead ==
  []((boot = "loop" /\ code /\ ~early /\ ~refused) => <>~code)
=============================================================================

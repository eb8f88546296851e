--------------------------- MODULE MCPciCommands ---------------------------
(* PciCommands for TLC.  The machines are all small ones without           *)
(* capabilities, and one with every list of capabilities behind its bridge.*)
EXTENDS PciCommands, TLC

Plain(multi) == [multi |-> multi, bridge |-> FALSE, secondary |-> 0]
Bridge(s) == [multi |-> FALSE, bridge |-> TRUE, secondary |-> s]

(* Two devices on bus 0 and one on every other bus, each absent, of one    *)
(* function, or of two with a hole before the second or not.               *)
Kinds(bus) == {Plain(FALSE)} \cup {Bridge(s) : s \in bus + 1 .. kBuses - 1}
Devices(bus) == {<<>>} \cup {(0 :> h) : h \in Kinds(bus)}
                \cup {(0 :> Plain(TRUE)) @@ (f :> h) : f \in 1 .. kFuncs - 1, h \in Kinds(bus)}

At(bus, dev, d) == [f \in {bus} \X {dev} \X DOMAIN d |-> d[f[3]]]
SmallConfigs ==
  {c \in {At(0, 0, d00) @@ At(0, 1, d01) @@ At(1, 0, d10) @@ At(2, 1, d21) :
            d00 \in Devices(0), d01 \in Devices(0), d10 \in Devices(1), d21 \in Devices(2)} :
     Enumerated(c)}

(* A pointer to word 0, and one that is not a multiple of four.            *)
SomePointers == {0, 2, 4, 9, 12}
NoList == [first |-> 0, next |-> [w \in Word |-> 0]]
Typed == {<<0, 0, 0>>, <<1, 0, 0>>, <<2, 1, 1>>}

Bridged == At(0, 0, 0 :> Plain(FALSE)) @@ At(0, 1, 0 :> Bridge(1)) @@ At(1, 0, 0 :> Plain(FALSE))
NoLists(c) == [xhcis |-> {f \in DOMAIN c : f[2] = 1 /\ ~c[f].bridge},
               caps |-> [f \in DOMAIN c |-> NoList]]
SmallContents ==
  [c \in SmallConfigs |->
     {NoLists(c)} \cup
     IF c # Bridged THEN {}
     ELSE {[NoLists(c) EXCEPT !.caps[<<1, 0, 0>>] = l] : l \in List}]
=============================================================================

---------------------------- MODULE MCPciDevice ----------------------------
(* PciDevice for TLC: every layout.                                        *)
EXTENDS PciDevice

Behind == {[kind |-> "none", size |-> 0]}
          \cup {[kind |-> k, size |-> s] : k \in {"mem32", "io"}, s \in 2 .. kWordBits - 1}
          \cup {[kind |-> k, size |-> s] : k \in {"mem64", "upper"}, s \in 4 .. 2 * kWordBits - 1}
AllLayouts == {l \in [BarIndex -> Behind] : IsLayout(l)}
=============================================================================

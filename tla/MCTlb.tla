------------------------------- MODULE MCTlb -------------------------------
(* Small instances of Tlb: two address spaces on two or three harts.        *)
EXTENDS Tlb
CONSTANTS s1, s2
TlbSc(arch, harts, ops, max) == [arch |-> arch, harts |-> harts, ops |-> ops, max |-> max]
TlbMain == {TlbSc("la", 2, {"map", "cow", "unmap"}, 3),
            TlbSc("la", 3, {"map"}, 2),
            TlbSc("la", 2, {"map", "exit", "fork"}, 3),
            TlbSc("rv", 2, {"map", "cow", "unmap", "exit", "fork"}, 2)}
=============================================================================

--------------------------- MODULE MCTunnelConns ---------------------------
(* Small instances of TunnelConns: all clients claim the same domain. *)
EXTENDS TunnelConns, TLC

CONSTANTS c1, c2, c3, d1, k1, k2, k3, r1, r2

MCDomainOf == [c \in Client |-> d1]

\* Connections and requests are interchangeable, and so are clients with the
\* same rights.
MCSymmetry ==
    Permutations(Conn) \cup Permutations(Request) \cup Permutations(Allowed)
=============================================================================

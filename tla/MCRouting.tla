----------------------------- MODULE MCRouting ------------------------------
(* Routing for TLC.  Device <<g, h>> is the device of host g on its link to *)
(* host h.                                                                  *)
EXTENDS Routing

CONSTANT Wires  \* which hosts are linked

DevicesOfWires == UNION {{w, <<w[2], w[1]>>} : w \in Wires}
LinksOfWires == {{w, <<w[2], w[1]>>} : w \in Wires}
HostOfPair == [d \in DevicesOfWires |-> d[1]]

Triangle == {<<1, 2>>, <<2, 3>>, <<1, 3>>}

OneTwo == <<1, 2>>
=============================================================================

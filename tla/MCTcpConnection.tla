--------------------------- MODULE MCTcpConnection --------------------------
(* Instances of TcpConnection for TLC: the thread cli on the host that      *)
(* called connect, the thread srv on the host that called accept, and aux,  *)
(* a second thread beside cli where a run needs one.                        *)
EXTENDS TcpConnection

CONSTANTS cli, srv, aux

HostOf == [t \in Thread |-> IF t = srv THEN 1 ELSE 0]

(* The bytes cli (and aux) and srv may write. *)
Bytes(c, s) == [t \in Thread |-> IF t = srv THEN s ELSE c]
Bytes31 == Bytes(3, 1)
Bytes11 == Bytes(1, 1)
Bytes10 == Bytes(1, 0)
=============================================================================

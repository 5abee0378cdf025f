------------------------------ MODULE MCTcpServer ------------------------------
(* Instances of the reactor for TLC: the connections are interchangeable.  *)
EXTENDS TcpServer, TLC

ConnSymmetry == Permutations(Conns)
=============================================================================

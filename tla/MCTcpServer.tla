----------------------------- MODULE MCTcpServer -----------------------------
(* Instances of TcpServer for TLC.                                         *)
EXTENDS TcpServer

CONSTANTS c1, c2

\* Request ids no two connections share.
UniqueIds ==
  [k \in {c1, c2} \X (1 .. MaxRequests) |->
     IF k[1] = c1 THEN k[2] ELSE 10 + k[2]]

\* What BbgClient does: each client process counts its requests from 1.
BbgIds == [k \in {c1, c2} \X (1 .. MaxRequests) |-> k[2]]
=============================================================================

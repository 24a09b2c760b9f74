---------------------------- MODULE MCTcpStream -----------------------------
(* Instances of TcpStream.                                                 *)
EXTENDS TcpStream

Lengths == <<3, 3>>

=============================================================================

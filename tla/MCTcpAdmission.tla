--------------------------- MODULE MCTcpAdmission ---------------------------
(* Instances of TcpAdmission.  a1 and a2 are two ports of one host.        *)
EXTENDS TcpAdmission, TLC

CONSTANTS a1, a2, b1

OneFamily == [a \in Addrs |-> "v4"]
TwoFamilies == [a \in Addrs |-> IF a = b1 THEN "v6" ELSE "v4"]
Hosts == [a \in Addrs |-> IF a = b1 THEN "B" ELSE "A"]
Symmetry == Permutations(Sockets)

=============================================================================

------------------------------ MODULE MCConfig ------------------------------
(***************************************************************************)
(* The trie of allowed IPs under its readers, and the configuration with   *)
(* its dumps: a behaviour of this instance is one of the trie or one of    *)
(* the configuration.                                                      *)
(***************************************************************************)
EXTENDS AllowedIPs, Config

CONSTANTS x, y, z  \* allowed IPs of the requests

MCNetworks == {<<>>, <<0, 0>>, <<0, 1>>, <<1>>}
MCAddresses == {<<0, 0>>}
Symmetry == Permutations(Peers)

Nothing == [transport |-> Null, port |-> Null, replace |-> FALSE,
            private |-> Null, peers |-> <<>>]
ThePeer(k, ips) == [key |-> k, remove |-> FALSE, update |-> FALSE,
                    replace |-> FALSE, ips |-> ips]
Add(ip) == [remove |-> FALSE, ip |-> ip]
Del(ip) == [remove |-> TRUE, ip |-> ip]

(* The lists of peers a request may bring. *)
PeerLists ==
    {<<ThePeer(1, <<Add(x), Add(y)>>), ThePeer(2, <<Add(z)>>)>>,
     <<ThePeer(2, <<Add(y)>>)>>,
     <<ThePeer(1, <<Del(x), Add(x)>>)>>,
     <<[ThePeer(1, <<>>) EXCEPT !.remove = TRUE]>>,
     <<[ThePeer(2, <<>>) EXCEPT !.remove = TRUE], ThePeer(2, <<>>)>>,
     <<[ThePeer(2, <<Add(x)>>) EXCEPT !.update = TRUE, !.replace = TRUE]>>}

MCRequests ==
    {[Nothing EXCEPT !.transport = "tcp", !.replace = r] : r \in BOOLEAN}
    \cup {[Nothing EXCEPT !.port = 1], [Nothing EXCEPT !.private = 1]}
    \cup {[Nothing EXCEPT !.peers = p] : p \in PeerLists}
    \cup {[Nothing EXCEPT !.peers = <<ThePeer(1, <<Add(x), Add(y)>>)>>,
                          !.replace = TRUE]}

MCInit == IpInit /\ CfInit

MCNext == \/ requests = 0 /\ dump = NoDump /\ ~dev.up
             /\ IpNext /\ UNCHANGED cfvars
          \/ unused = Nodes /\ \A r \in Readers : reader[r] = Resting
             /\ CfNext /\ UNCHANGED ipvars

MCSpec == MCInit /\ [][MCNext]_<<ipvars, cfvars>>
=============================================================================

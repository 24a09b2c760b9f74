----------------------------- MODULE MCSession -----------------------------
(***************************************************************************)
(* Sessions, and what stands before a handshake: the intake of messages    *)
(* with its cookies, the rate limiter and, for TCP, the limit of           *)
(* connections.  They share no state: a behaviour of this instance is one  *)
(* of the four.                                                            *)
(***************************************************************************)
EXTENDS Session, HandshakeIntake, RateLimiter, TcpAcceptRate, TLC

(* get_random_u32() yields the least unused index, since nothing depends   *)
(* on which one it is.                                                     *)
Least(S) == {CHOOSE i \in S : \A j \in S : i <= j}

VARIABLE part  \* the part that takes steps

MCInit == /\ Init /\ HiInit /\ RlInit /\ ArInit
          /\ part \in {"session", "intake", "limiter", "accepts"}

MCNext ==
    /\ UNCHANGED part
    /\ \/ part = "session" /\ Next /\ UNCHANGED <<hivars, rlvars, arvars>>
       \/ part = "intake" /\ HiNext /\ UNCHANGED <<vars, rlvars, arvars>>
       \/ part = "limiter" /\ RlNext /\ UNCHANGED <<vars, hivars, arvars>>
       \/ part = "accepts" /\ ArNext /\ UNCHANGED <<vars, hivars, rlvars>>

MCSpec == MCInit /\ [][MCNext]_<<part, vars, hivars, rlvars, arvars>>
=============================================================================

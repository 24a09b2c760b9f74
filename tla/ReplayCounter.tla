--------------------------- MODULE ReplayCounter ---------------------------
(***************************************************************************)
(* The replay window of a receiving key, counter_validate() of             *)
(* kernel/receive.c: a ring of words of which a new highest nonce clears   *)
(* those it skips, instead of shifting a bitmap.                           *)
(***************************************************************************)
EXTENDS Naturals, FiniteSets

CONSTANTS BitsPerLong,  \* BITS_PER_LONG
          Longs,        \* COUNTER_BITS_TOTAL / BITS_PER_LONG
          Width,        \* 2^64, the number of values of a u64
          MaxNonces     \* bound: nonces received in the check

CounterWindowSize == BitsPerLong * (Longs - 1)
RejectAfterMessages == Width - 1 - CounterWindowSize - 1

ASSUME ReplayAssumption ==
    /\ BitsPerLong \in Nat \ {0}
    /\ Longs \in Nat \ {0}
    /\ Width \in Nat
    /\ Width > CounterWindowSize + 2

(* struct noise_replay_counter; a word is the set of its bits. *)
NoReplays == [counter |-> 0, backtrack |-> [l \in 0..Longs - 1 |-> {}]]

(* The word of the new highest nonce is left as it is. *)
SkippedShort(highest, n) ==
    LET current == highest \div BitsPerLong
        ahead == n \div BitsPerLong - current
        top == IF ahead < Longs THEN ahead ELSE Longs
    IN  IF n > highest THEN {(i + current) % Longs : i \in 1..top - 1} ELSE {}

(* The words a nonce that is the n-th skips and clears, given the highest  *)
(* one before it.                                                          *)
Skipped(highest, n) ==
    LET current == highest \div BitsPerLong
        ahead == n \div BitsPerLong - current
        top == IF ahead < Longs THEN ahead ELSE Longs
    IN  IF n > highest THEN {(i + current) % Longs : i \in 1..top} ELSE {}

(* Is the nonce good, and the counter after the call. *)
CounterValidate(c, nonce) ==
    LET n == nonce + 1
        slot == (n \div BitsPerLong) % Longs
        bit == n % BitsPerLong
        swept == [l \in 0..Longs - 1 |->
                     IF l \in Skipped(c.counter, n) THEN {}
                     ELSE c.backtrack[l]]
    IN  IF \/ c.counter >= RejectAfterMessages + 1
           \/ nonce >= RejectAfterMessages
           \/ (CounterWindowSize + n) % Width < c.counter
        THEN [good |-> FALSE, after |-> c]
        ELSE [good |-> bit \notin swept[slot],
              after |-> [counter |-> IF n > c.counter THEN n ELSE c.counter,
                         backtrack |-> [swept EXCEPT ![slot] = @ \cup {bit}]]]

(* What the window promises, in terms of the nonces accepted before: a     *)
(* nonce is good if it is new, below the limit, and less than a window     *)
(* behind the highest.                                                     *)
Acceptable(accepted, nonce) ==
    /\ nonce \notin accepted
    /\ nonce < RejectAfterMessages
    /\ \A a \in accepted : a <= nonce + CounterWindowSize

-----------------------------------------------------------------------------
(* wg_packet_rx_poll() validates the nonces of a key, in any order. *)

VARIABLE window  \* the counter, and [history] the nonces that were good

WindowInit == window = [counter |-> NoReplays, accepted |-> {}, received |-> 0]

ValidateNonce(nonce) ==
    LET v == CounterValidate(window.counter, nonce)
    IN  /\ window.received < MaxNonces
        /\ window' = [counter |-> v.after,
                      accepted |-> window.accepted
                                   \cup {n \in {nonce} : v.good},
                      received |-> window.received + 1]

WindowNext == \E nonce \in 0..Width - 1 : ValidateNonce(nonce)

(* counter_validate() with its ring of words answers as the set of the     *)
(* accepted nonces would, for every nonce after every sequence of nonces:  *)
(* across word boundaries, jumps past the whole window, the reuse of words *)
(* and the last nonces of a key.                                           *)
ReplayExact ==
    window.received > 0 =>
        \A n \in 0..Width - 1 :
            CounterValidate(window.counter, n).good
                <=> Acceptable(window.accepted, n)
=============================================================================

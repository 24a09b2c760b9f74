------------------------------- MODULE Noise -------------------------------
(***************************************************************************)
(* The Noise handshake of one peer (kernel/noise.c), the three slots its   *)
(* keypairs move through, and the index table both are found by            *)
(* (kernel/peerlookup.c).  Every operator takes the state d of one device  *)
(* and returns the state the C function leaves behind, so that a handler   *)
(* is the composition of the functions it calls.                           *)
(*                                                                         *)
(* Cryptography is abstracted to what it tells apart.  An ephemeral key is *)
(* a number that was never used before.  The chaining key is the sequence  *)
(* of ephemerals mixed into it: <<>> when zeroed, <<ei>> after the         *)
(* initiation, <<ei, er>> after the response.  The pair is the session     *)
(* key.  A message opens exactly for the holder of the same sequence.      *)
(***************************************************************************)
EXTENDS Naturals, Sequences, FiniteSets

CONSTANTS Indices,     \* the values an index can have
          None,        \* no index
          Proposed(_)  \* of a set of indices, those get_random_u32() yields

(* An entry of index_hashtable: unused, the handshake's, or a keypair's. *)
Free == [type |-> "free", key |-> <<>>]
HandshakeEntry == [type |-> "handshake", key |-> <<>>]
KeypairEntry(key) == [type |-> "keypair", key |-> key]

(* struct noise_keypair.  index is that of its entry, None while unhashed; *)
(* age says which lifetime has passed since birthdate.                     *)
NoKeypair == [key |-> <<>>, i_am_the_initiator |-> FALSE, index |-> None,
              remote_index |-> None, sending_counter |-> 0, sending |-> FALSE,
              age |-> "fresh"]

Slots(d) == {d.current_keypair, d.previous_keypair, d.next_keypair}
Keypairs(d) == Slots(d) \ {NoKeypair}

(* wg_noise_handshake_init(): the parts of a device that noise.c owns. *)
NoiseInit == [state |-> "ZEROED", chaining_key |-> <<>>,
              remote_index |-> None, index |-> None, latest_timestamp |-> 0,
              current_keypair |-> NoKeypair, previous_keypair |-> NoKeypair,
              next_keypair |-> NoKeypair, table |-> [i \in Indices |-> Free]]

-----------------------------------------------------------------------------
(* The index table. *)

(* wg_index_hashtable_remove(): the entries with one of these indices go. *)
Unhash(d, is) ==
    [d EXCEPT !.table = [i \in Indices |-> IF i \in is THEN Free ELSE @[i]]]

(* wg_index_hashtable_insert() first unhashes the entry, so that its own   *)
(* old index is free as well, and takes an index nobody has.               *)
Unused(d) == Proposed({i \in Indices : d.table[i].type # "keypair"})

HashtableInsert(d, i) ==
    [Unhash(d, {d.index}) EXCEPT !.table[i] = HandshakeEntry, !.index = i]

(* The entry goes and the keypair is not put in its place. *)
HashtableReplaceStale(d, key) ==
    LET Named(k) == IF k.key = key THEN [k EXCEPT !.index = d.index] ELSE k
    IN  [d EXCEPT !.table[d.index] = Free, !.index = None,
                  !.current_keypair = Named(@), !.previous_keypair = Named(@),
                  !.next_keypair = Named(@)]

(* wg_index_hashtable_replace(): the keypair takes over the handshake's    *)
(* entry and its index.                                                    *)
HashtableReplace(d, key) ==
    LET Named(k) == IF k.key = key THEN [k EXCEPT !.index = d.index] ELSE k
    IN  [d EXCEPT !.table[d.index] = KeypairEntry(key), !.index = None,
                  !.current_keypair = Named(@), !.previous_keypair = Named(@),
                  !.next_keypair = Named(@)]

-----------------------------------------------------------------------------
(* The handshake. *)

HandshakeZero(d) ==
    [d EXCEPT !.state = "ZEROED", !.chaining_key = <<>>, !.remote_index = None]

HandshakeClear(d) ==
    HandshakeZero([Unhash(d, {d.index}) EXCEPT !.index = None])

(* wg_noise_handshake_create_initiation() with ephemeral e and index i. *)
CreateInitiation(d, e, i) ==
    [HashtableInsert(d, i) EXCEPT !.chaining_key = <<e>>,
                                  !.state = "CREATED_INITIATION"]

(* The test of wg_noise_handshake_consume_initiation() under the read lock *)
(* and, separately, what it writes under the write lock.                   *)
InitiationIsNew(d, m) == m.timestamp > d.latest_timestamp

(* The timestamp is taken from the message, later or not. *)
ConsumeInitiationAnyTime(d, m) ==
    [d EXCEPT !.chaining_key = <<m.ephemeral>>,
              !.latest_timestamp = m.timestamp,
              !.remote_index = m.sender_index,
              !.state = "CONSUMED_INITIATION"]

ConsumeInitiation(d, m) ==
    [d EXCEPT !.chaining_key = <<m.ephemeral>>,
              !.latest_timestamp = IF m.timestamp > @ THEN m.timestamp ELSE @,
              !.remote_index = m.sender_index,
              !.state = "CONSUMED_INITIATION"]

CreateResponse(d, e, i) ==
    [HashtableInsert(d, i) EXCEPT !.chaining_key = Append(@, e),
                                  !.state = "CREATED_RESPONSE"]

(* The response m opens under the chaining key ck read before. *)
ResponseOpens(ck, m) == Len(ck) = 1 /\ m.chaining_key[1] = ck[1]

ConsumeResponse(d, m) ==
    [d EXCEPT !.chaining_key = m.chaining_key,
              !.remote_index = m.sender_index,
              !.state = "CONSUMED_RESPONSE"]

-----------------------------------------------------------------------------
(* The keypairs. *)

(* wg_noise_keypair_put(keypair, true) on each of ks. *)
KeypairsPut(d, ks) == Unhash(d, {k.index : k \in ks})

KeypairsClear(d) ==
    [KeypairsPut(d, Slots(d)) EXCEPT !.current_keypair = NoKeypair,
         !.previous_keypair = NoKeypair, !.next_keypair = NoKeypair]

(* keypair_create() and derive_keys() in begin_session(). *)
NewKeypair(d) ==
    [key |-> d.chaining_key,
     i_am_the_initiator |-> d.state = "CONSUMED_RESPONSE",
     index |-> None, remote_index |-> d.remote_index, sending_counter |-> 0,
     sending |-> TRUE, age |-> "fresh"]

(* The responder uses its key at once. *)
AddNewKeypairUnconfirmed(d, new) ==
    [KeypairsPut(d, {d.previous_keypair})
        EXCEPT !.previous_keypair = d.current_keypair,
               !.current_keypair = new]

AddNewKeypair(d, new) ==
    IF ~new.i_am_the_initiator
    THEN [KeypairsPut(d, {d.next_keypair, d.previous_keypair})
             EXCEPT !.next_keypair = new, !.previous_keypair = NoKeypair]
    ELSE IF d.next_keypair # NoKeypair
    THEN [KeypairsPut(d, {d.current_keypair, d.previous_keypair})
             EXCEPT !.next_keypair = NoKeypair,
                    !.previous_keypair = d.next_keypair,
                    !.current_keypair = new]
    ELSE [KeypairsPut(d, {d.previous_keypair})
             EXCEPT !.previous_keypair = d.current_keypair,
                    !.current_keypair = new]

(* wg_noise_received_with_keypair(): does the key make the step, and what  *)
(* the step is.                                                            *)
KeyIsNew(d, key) == d.next_keypair.key = key

ReceivedWithKeypair(d) ==
    [KeypairsPut(d, {d.previous_keypair})
        EXCEPT !.previous_keypair = d.current_keypair,
               !.current_keypair = d.next_keypair,
               !.next_keypair = NoKeypair]

(* wg_noise_expire_current_peer_keypairs(), without last_sent_handshake. *)
ExpireCurrentPeerKeypairs(d) ==
    [HandshakeClear(d) EXCEPT !.next_keypair.sending = FALSE,
                              !.current_keypair.sending = FALSE]
=============================================================================

---------------------------- MODULE RateLimiter ----------------------------
(***************************************************************************)
(* The token buckets of kernel/ratelimiter.c, one for each address that    *)
(* shows a valid cookie.  Handshake workers look them up under RCU and add *)
(* a missing one without looking again; a work item collects the idle ones *)
(* once a second.                                                          *)
(***************************************************************************)
EXTENDS Integers, Sequences, FiniteSets, SequencesExt

CONSTANTS Callers,     \* handshake workers
          Ips,         \* addresses, or /64 networks
          Entries,     \* memory for struct ratelimiter_entry
          PacketCost,  \* PACKET_COST, in ticks of the clock
          Burstable,   \* PACKETS_BURSTABLE
          Second,      \* NSEC_PER_SEC, the age and the period of collection
          MaxEntries,  \* max_entries
          MaxUsers,    \* bound: devices
          MaxClock,    \* bound: time
          MaxGrants    \* bound: calls granted to an address

ASSUME RateLimiterAssumption ==
    /\ PacketCost \in Nat \ {0} /\ Burstable \in Nat \ {0}
    /\ Second \in Nat \ {0} /\ MaxEntries \in Nat \ {0}

TokenMax == PacketCost * Burstable

VARIABLES clock,
          users,   \* init_refcnt
          total,   \* total_entries
          linked,  \* the hash chains, newest first
          entry,   \* contents of the entries in use
          gc,      \* gc_work
          call,    \* where each caller is
          granted  \* [history] the calls granted to each address

rlvars == <<clock, users, total, linked, entry, gc, call, granted>>

NotCalling == [at |-> "idle"]

(* The collector sleeps until a time, [history] after so many passes. *)
Asleep(until, passes) == [at |-> "asleep", until |-> until, passes |-> passes]

RlInit ==
    /\ clock = 0 /\ users = 0 /\ total = 0
    /\ linked = <<>>
    /\ entry = [e \in {} |-> {}]
    /\ gc = Asleep(0, 0)
    /\ call = [c \in Callers |-> NotCalling]
    /\ granted = [ip \in Ips |-> <<>>]

-----------------------------------------------------------------------------
(* wg_ratelimiter_allow() *)

(* The history of a call that is granted; pass says whether one is going on. *)
Granted(ip) ==
    granted' = [granted EXCEPT ![ip] = Append(@,
        [time |-> clock, passes |-> gc.passes, pass |-> gc.at = "pass"])]

(* The first entry of the address on its chain. *)
AllowLookup(c, ip) ==
    LET found == SelectSeq(linked, LAMBDA e : entry[e].ip = ip)
    IN  /\ users > 0 /\ call[c] = NotCalling
        /\ Len(granted[ip]) < MaxGrants
        /\ call' = [call EXCEPT ![c] =
               IF found = <<>> THEN [at |-> "missing", ip |-> ip]
               ELSE [at |-> "found", e |-> Head(found)]]
        /\ UNCHANGED <<clock, users, total, linked, entry, gc, granted>>

Tokens(e) ==
    LET t == entry[e].tokens + clock - entry[e].last
    IN  IF t < TokenMax THEN t ELSE TokenMax

(* The packet is not charged. *)
AllowSpendFree(c) ==
    LET e == call[c].e
        ok == Tokens(e) >= PacketCost
    IN  /\ call[c].at = "found"
        /\ entry' = [entry EXCEPT ![e].last = clock,
                        ![e].tokens = Tokens(e)]
        /\ IF ok THEN Granted(entry[e].ip) ELSE UNCHANGED granted
        /\ call' = [call EXCEPT ![c] = NotCalling]
        /\ UNCHANGED <<clock, users, total, linked, gc>>

(* Under the lock of the entry, which may have been unlinked meanwhile. *)
AllowSpend(c) ==
    LET e == call[c].e
        ok == Tokens(e) >= PacketCost
    IN  /\ call[c].at = "found"
        /\ entry' = [entry EXCEPT ![e].last = clock,
                        ![e].tokens = IF ok THEN Tokens(e) - PacketCost
                                      ELSE Tokens(e)]
        /\ IF ok THEN Granted(entry[e].ip) ELSE UNCHANGED granted
        /\ call' = [call EXCEPT ![c] = NotCalling]
        /\ UNCHANGED <<clock, users, total, linked, gc>>

AllowCount(c) ==
    /\ call[c].at = "missing"
    /\ total' = total + 1
    /\ call' = [call EXCEPT ![c].at = IF total + 1 > MaxEntries THEN "oom"
                                      ELSE "new"]
    /\ UNCHANGED <<clock, users, linked, entry, gc, granted>>

TableLocked == gc.at = "pass" /\ gc.chain # <<>>

(* The new entry has its time before the table is locked. *)
AllowNew(c) ==
    /\ call[c].at = "new"
    /\ call' = [call EXCEPT ![c] = [at |-> "insert", ip |-> @.ip, last |-> clock]]
    /\ UNCHANGED <<clock, users, total, linked, entry, gc, granted>>

AllowInsert(c) ==
    /\ call[c].at = "insert" /\ ~TableLocked
    /\ Entries \ DOMAIN entry # {}
    /\ LET e == CHOOSE f \in Entries \ DOMAIN entry : TRUE
       IN  /\ linked' = <<e>> \o linked
           /\ entry' = [f \in DOMAIN entry \cup {e} |->
                 IF f # e THEN entry[f]
                 ELSE [ip |-> call[c].ip, last |-> call[c].last,
                       tokens |-> TokenMax - PacketCost]]
    /\ Granted(call[c].ip)
    /\ call' = [call EXCEPT ![c] = NotCalling]
    /\ UNCHANGED <<clock, users, total, gc>>

(* The count was over the limit, or the allocation failed. *)
AllowOom(c) ==
    /\ call[c].at \in {"oom", "new"}
    /\ total' = total - 1
    /\ call' = [call EXCEPT ![c] = NotCalling]
    /\ UNCHANGED <<clock, users, linked, entry, gc, granted>>

-----------------------------------------------------------------------------
(* wg_ratelimiter_gc_entries() and entry_free() *)

(* The time of the whole pass is read once. *)
GcStart ==
    /\ users > 0 /\ gc.at = "asleep" /\ gc.until <= clock
    /\ gc' = [at |-> "pass", now |-> clock, passes |-> gc.passes + 1,
              todo |-> Ips, chain |-> <<>>]
    /\ UNCHANGED <<clock, users, total, linked, entry, call, granted>>

(* A chain is walked under table_lock; those of two addresses differ. *)
GcChain(ip) ==
    /\ gc.at = "pass" /\ gc.chain = <<>> /\ ip \in gc.todo
    /\ gc' = [gc EXCEPT !.todo = @ \ {ip},
                 !.chain = SelectSeq(linked, LAMBDA e : entry[e].ip = ip)]
    /\ UNCHANGED <<clock, users, total, linked, entry, call, granted>>

(* The difference is unsigned: an entry used since the pass began counts   *)
(* as very old.                                                            *)
Aged(now, last) == last > now \/ now - last > Second

(* entry_uninit() *)
EntryUninit(e) == SelectSeq(linked, LAMBDA f : f # e)

(* Its entries are unlinked one by one, under the eyes of the callers. *)
GcEntry ==
    /\ gc.at = "pass" /\ gc.chain # <<>>
    /\ linked' = IF Aged(gc.now, entry[Head(gc.chain)].last)
                 THEN EntryUninit(Head(gc.chain)) ELSE linked
    /\ gc' = [gc EXCEPT !.chain = Tail(@)]
    /\ UNCHANGED <<clock, users, total, entry, call, granted>>

GcEnd ==
    /\ gc.at = "pass" /\ gc.chain = <<>> /\ gc.todo = {}
    /\ gc' = Asleep(clock + Second, gc.passes)
    /\ UNCHANGED <<clock, users, total, linked, entry, call, granted>>

(* call_rcu(): no reader has the entry any more. *)
EntryFree ==
    /\ \E e \in DOMAIN entry \ ToSet(linked) :
         /\ \A c \in Callers : call[c].at = "found" => call[c].e # e
         /\ entry' = [f \in DOMAIN entry \ {e} |-> entry[f]]
    /\ total' = total - 1
    /\ UNCHANGED <<clock, users, linked, gc, call, granted>>

-----------------------------------------------------------------------------
(* wg_ratelimiter_init(), for a new device, and wg_ratelimiter_uninit():   *)
(* the last device waits for the collector, and for RCU.  Its workers have *)
(* ended before.                                                           *)

UserInit ==
    /\ users < MaxUsers
    /\ users' = users + 1
    /\ gc' = IF users = 0 THEN Asleep(clock + Second, gc.passes) ELSE gc
    /\ UNCHANGED <<clock, total, linked, entry, call, granted>>

UserUninit ==
    /\ users > 0
    /\ IF users > 1 THEN UNCHANGED <<total, linked, entry>>
       ELSE /\ gc.at = "asleep"
            /\ \A c \in Callers : call[c] = NotCalling
            /\ linked' = <<>> /\ entry' = [e \in {} |-> {}]
            /\ total' = total - Cardinality(DOMAIN entry)
    /\ users' = users - 1
    /\ granted' = IF users > 1 THEN granted ELSE [ip \in Ips |-> <<>>]
    /\ UNCHANGED <<clock, gc, call>>

RlTick ==
    /\ clock < MaxClock
    /\ clock' = clock + 1
    /\ UNCHANGED <<users, total, linked, entry, gc, call, granted>>

RlNext ==
    \/ \E c \in Callers : \/ \E ip \in Ips : AllowLookup(c, ip)
                          \/ AllowSpend(c) \/ AllowCount(c)
                          \/ AllowNew(c) \/ AllowInsert(c) \/ AllowOom(c)
    \/ GcStart \/ (\E ip \in Ips : GcChain(ip)) \/ GcEntry \/ GcEnd \/ EntryFree
    \/ UserInit \/ UserUninit \/ RlTick

RlSpec == RlInit /\ [][RlNext]_rlvars

-----------------------------------------------------------------------------
(* What an address is granted over any stretch of time: a burst and the    *)
(* steady rate.  The races cost a known amount more: every worker may miss *)
(* the entry at the same time and add one, with a burst of its own, and    *)
(* every worker may still hold each of these when it is not the first any  *)
(* more; and all of this again for every pass of the collector, which may  *)
(* drop an entry in use (wg_ratelimiter_allow(),                           *)
(* wg_ratelimiter_gc_entries()).                                           *)
RateBound ==
    \A ip \in Ips : \A i, j \in DOMAIN granted[ip] : i <= j =>
        LET from == granted[ip][i]
            to == granted[ip][j]
            passes == to.passes - from.passes + (IF from.pass THEN 1 ELSE 0)
            n == Cardinality(Callers)
        IN  j - i + 1 <= n * (Burstable + n) * (1 + passes)
                         + (to.time - from.time) \div PacketCost
=============================================================================

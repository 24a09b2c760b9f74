----------------------------- MODULE AllowedIPs -----------------------------
(***************************************************************************)
(* The routing table of a device, kernel/allowedips.c: a trie of prefixes  *)
(* changed under device_update_lock and searched under RCU by every packet *)
(* sent and received.                                                      *)
(*                                                                         *)
(* A step of the writer is one write to a pointer that readers follow; a   *)
(* step of a reader is one read.  One family; an address is a sequence of  *)
(* Bits bits and a prefix a shorter one.                                   *)
(***************************************************************************)
EXTENDS Naturals, Sequences, FiniteSets, SequencesExt

CONSTANTS Bits,       \* 32 or 128, the length of an address
          Networks,   \* prefixes the writer inserts and removes
          Addresses,  \* addresses readers look up
          Peers,
          Readers,    \* contexts in lookup()
          MaxChanges, \* bound: operations of the writer during a lookup
          Copies,     \* bound: nodes of one prefix, freed ones included
          None        \* NULL

ASSUME AllowedIPsAssumption ==
    /\ Bits \in Nat \ {0}
    /\ \A x \in Networks : Len(x) <= Bits
    /\ \A a \in Addresses : Len(a) = Bits
    /\ Copies \in Nat \ {0} /\ MaxChanges \in Nat
    /\ None \notin Peers

VARIABLES node,    \* struct allowedips_node: bits, peer, bit[2], parent
          root,    \* table->root4
          unused,  \* nodes that are free memory
          grace,   \* call_rcu(): a node, and the readers it waits for
          writer,  \* where the writer is
          reader,  \* where each lookup is
          changes, \* operations of the writer since no lookup ran
          table,   \* [history] the prefixes and their peers
          seen,    \* [history] a lookup: entries that were there meanwhile
          always   \* [history] a lookup: prefixes there all the time

ipvars == <<node, root, unused, grace, writer, reader, changes, table, seen,
            always>>

(* Memory for a node is named after the prefix it is used for. *)
Nodes == (UNION {Prefixes(x) : x \in Networks}) \X (1..Copies)

Root == [node |-> None, side |-> 2]  \* parent_bit_packed of the root
Blank == [bits |-> <<>>, peer |-> None, bit |-> [b \in 0..1 |-> None],
          parent |-> Root]
Resting == [at |-> "idle"]

(* wg_allowedips_init() *)
IpInit ==
    /\ node = [n \in Nodes |-> Blank]
    /\ root = None
    /\ unused = Nodes
    /\ grace = [n \in {} |-> {}]
    /\ writer = Resting
    /\ reader = [r \in Readers |-> Resting]
    /\ changes = 0
    /\ table = [x \in {} |-> None]
    /\ seen = [r \in Readers |-> {}]
    /\ always = [r \in Readers |-> {}]

(* node->cidr is Len(bits).  prefix_matches(), choose() *)
PrefixMatches(t, n, key) == IsPrefix(t[n].bits, key)
Choose(bits, key) == key[Len(bits) + 1]

(* common_bits(), of two prefixes *)
CommonBits(x, y) == CHOOSE i \in 0..Len(x) :
    /\ i <= Len(y) /\ SubSeq(x, 1, i) = SubSeq(y, 1, i)
    /\ i = Len(x) \/ i = Len(y) \/ x[i + 1] # y[i + 1]

(* node_placement(): the longest node that is a prefix of x. *)
RECURSIVE Placement(_, _, _)
Placement(n, parent, x) ==
    IF n = None \/ ~PrefixMatches(node, n, x) THEN parent
    ELSE IF node[n].bits = x THEN n
    ELSE Placement(node[n].bit[Choose(node[n].bits, x)], n, x)

(* kmem_cache_zalloc() *)
Memory(x) ==
    LET free == {n \in unused : n[1] = x}
    IN  IF free = {} THEN None
        ELSE CHOOSE n \in free : \A m \in free : n[2] <= m[2]

(* connect_node(): n below the parent on a side. *)
Connect(t, p, side, n) ==
    [t EXCEPT ![n].parent = [node |-> p, side |-> side],
              ![p].bit[side] = n]
ChooseAndConnect(t, p, n) == Connect(t, p, Choose(t[p].bits, t[n].bits), n)

(* The subtree n, below parent or at the root. *)
Publish(t, parent, n) ==
    IF parent = None
    THEN root' = n /\ node' = [t EXCEPT ![n].parent = Root]
    ELSE root' = root /\ node' = ChooseAndConnect(t, parent, n)

-----------------------------------------------------------------------------
(* History of the table, for the lookups under way. *)

Entries(t, address) ==
    {e \in {<<x, t[x]>> : x \in DOMAIN t} : IsPrefix(e[1], address)}

TableBecomes(t) ==
    /\ table' = t
    /\ seen' = [r \in Readers |->
                   IF reader[r].at = "idle" THEN {}
                   ELSE seen[r] \cup Entries(t, reader[r].ip)]
    /\ always' = [r \in Readers |-> always[r] \cap DOMAIN t]

SameTable == UNCHANGED <<table, seen, always>>

Without(t, xs) == [x \in DOMAIN t \ xs |-> t[x]]
With(t, x, p) == [y \in DOMAIN t \cup {x} |-> IF y = x THEN p ELSE t[y]]

(* call_rcu() for nodes: free once the readers of this moment are done. *)
Busy == {r \in Readers : reader[r].at # "idle"}
Retire(ns) ==
    IF Busy = {} THEN unused' = unused \cup ns /\ UNCHANGED grace
    ELSE /\ grace' = [n \in DOMAIN grace \cup ns |->
                         IF n \in ns THEN Busy ELSE grace[n]]
         /\ UNCHANGED unused

(* The contents of freed memory do not matter. *)
Erased(t, ns) == [n \in Nodes |-> IF n \in ns THEN Blank ELSE t[n]]
Retired(t, ns) == IF Busy = {} THEN Erased(t, ns) ELSE t

-----------------------------------------------------------------------------
(* The writer. *)

(* Nodes in the trie. *)
InUse == Nodes \ (unused \cup DOMAIN grace)

(* Bound: a table with a node that was added again during a lookup is not  *)
(* changed or searched further once the lookup is over.                    *)
FirstCopies == \A n \in InUse : n[2] = 1

(* An operation begins, under device_update_lock. *)
Begin ==
    /\ writer = Resting
    /\ IF Busy = {} THEN FirstCopies ELSE changes < MaxChanges
    /\ changes' = IF Busy = {} THEN 0 ELSE changes + 1

(* add().  A new node, and the branch above it and a sibling, are complete *)
(* before the one write that makes them reachable.                         *)
Insert(p, x) ==
    LET at == Placement(root, None, x)
        exact == at # None /\ node[at].bits = x
        down == IF at = None THEN root
                ELSE node[at].bit[Choose(node[at].bits, x)]
        new == Memory(x)
        made == [node EXCEPT ![new] = [Blank EXCEPT !.bits = x, !.peer = p]]
        cidr == CommonBits(x, node[down].bits)
        branch == Memory(SubSeq(x, 1, cidr))
        forked == [made EXCEPT
                      ![branch] = [Blank EXCEPT !.bits = SubSeq(x, 1, cidr)]]
    IN  /\ Begin
        /\ IF exact
           THEN /\ node' = [node EXCEPT ![at].peer = p]
                /\ UNCHANGED <<root, unused>>
           ELSE IF down = None
           THEN /\ new # None
                /\ Publish(made, at, new)
                /\ unused' = unused \ {new}
           ELSE IF cidr = Len(x)
           THEN /\ new # None
                /\ Publish(ChooseAndConnect(made, new, down), at, new)
                /\ unused' = unused \ {new}
           ELSE /\ new # None /\ branch # None
                /\ Publish(ChooseAndConnect(
                               ChooseAndConnect(forked, branch, down),
                               branch, new), at, branch)
                /\ unused' = unused \ {new, branch}
        /\ TableBecomes(With(table, x, p))
        /\ UNCHANGED <<grace, writer, reader>>

(* remove() of a prefix that the peer has, and remove_by_peer(), begin. *)
Removing(nodes) ==
    /\ nodes # {}
    /\ Begin
    /\ writer' = [at |-> "clear", todo |-> nodes]
    /\ SameTable
    /\ UNCHANGED <<node, root, unused, grace, reader>>

RemovePrefix(p, x) ==
    LET n == Placement(root, None, x)
    IN  n # None /\ node[n].bits = x /\ node[n].peer = p /\ Removing({n})

RemoveByPeer(p) == Removing({n \in InUse : node[n].peer = p})

Rest(todo) == IF todo = {} THEN Resting ELSE [at |-> "clear", todo |-> todo]

(* remove_node(): the peer is cleared.  A node with two children stays. *)
RemoveClear ==
    /\ writer.at = "clear"
    /\ \E n \in writer.todo :
         LET todo == writer.todo \ {n}
         IN  /\ node' = [node EXCEPT ![n].peer = None]
             /\ TableBecomes(Without(table, {node[n].bits}))
             /\ writer' = IF \A b \in 0..1 : node[n].bit[b] # None
                          THEN Rest(todo)
                          ELSE [at |-> "splice", todo |-> todo, n |-> n]
    /\ UNCHANGED <<root, unused, grace, reader, changes>>

(* *(at) = child, with the child's way back up. *)
Spliced(at, child) ==
    LET t == IF child = None THEN node
             ELSE [node EXCEPT ![child].parent = at]
    IN  IF at.side = 2 THEN t
        ELSE [t EXCEPT ![at.node].bit[at.side] = child]
RootSpliced(at, child) == root' = IF at.side = 2 THEN child ELSE root

(* A branch left with one child stays. *)
FreeParentNever(n) == FALSE

(* The only child of the node takes its place; a branch left with one      *)
(* child goes too.                                                         *)
FreeParent(n) ==
    /\ \A b \in 0..1 : node[n].bit[b] = None
    /\ node[n].parent.side # 2
    /\ node[node[n].parent.node].peer = None

RemoveSplice ==
    LET n == writer.n
        up == node[n].parent
        child == IF node[n].bit[0] = None THEN node[n].bit[1]
                 ELSE node[n].bit[0]
    IN  /\ writer.at = "splice"
        /\ RootSpliced(up, child)
        /\ IF FreeParent(n)
           THEN /\ writer' = [at |-> "parent", todo |-> writer.todo, n |-> n]
                /\ node' = Spliced(up, child)
                /\ UNCHANGED <<grace, unused>>
           ELSE /\ writer' = Rest(writer.todo)
                /\ node' = Retired(Spliced(up, child), {n})
                /\ Retire({n})
        /\ SameTable
        /\ UNCHANGED <<reader, changes>>

RemoveParent ==
    LET n == writer.n
        parent == node[n].parent.node
        up == node[parent].parent
        child == node[parent].bit[1 - node[n].parent.side]
    IN  /\ writer.at = "parent"
        /\ RootSpliced(up, child)
        /\ node' = Retired(Spliced(up, child), {n, parent})
        /\ Retire({n, parent})
        /\ writer' = Rest(writer.todo)
        /\ SameTable
        /\ UNCHANGED <<reader, changes>>

(* wg_allowedips_free(): the whole trie at once. *)
FreeTable ==
    /\ root # None
    /\ Begin
    /\ root' = None
    /\ node' = Retired(node, InUse)
    /\ Retire(InUse)
    /\ TableBecomes([x \in {} |-> None])
    /\ UNCHANGED <<writer, reader>>

-----------------------------------------------------------------------------
(* lookup() *)

ReaderAt(r, s) == reader' = [reader EXCEPT ![r] = s]

(* rcu_read_lock_bh() and the read of the root, once: a retry starts from  *)
(* the same node.                                                          *)
LookupStart(r, ip) ==
    /\ reader[r].at = "idle"
    /\ FirstCopies
    /\ ReaderAt(r, [at |-> "walk", ip |-> ip, root |-> root, n |-> root,
                      found |-> None])
    /\ seen' = [seen EXCEPT ![r] = Entries(table, ip)]
    /\ always' = [always EXCEPT ![r] = {e[1] : e \in Entries(table, ip)}]
    /\ UNCHANGED <<node, root, unused, grace, writer, changes, table>>

(* find_node(): the node matches, and has a peer or not ... *)
LookupWalk(r) ==
    LET s == reader[r]
    IN  /\ s.at = "walk"
        /\ IF s.n = None
           THEN ReaderAt(r, [s EXCEPT !.at = "get"])
           ELSE IF ~PrefixMatches(node, s.n, s.ip)
           THEN ReaderAt(r, [s EXCEPT !.at = "get"])
           ELSE LET found == IF node[s.n].peer # None THEN s.n ELSE s.found
                IN  ReaderAt(r, [s EXCEPT !.found = found,
                                   !.at = IF Len(node[s.n].bits) = Bits
                                          THEN "get" ELSE "down"])
        /\ SameTable
        /\ UNCHANGED <<node, root, unused, grace, writer, changes>>

(* ... and the walk goes on below it. *)
LookupDown(r) ==
    LET s == reader[r]
    IN  /\ s.at = "down"
        /\ ReaderAt(r, [s EXCEPT !.at = "walk",
                           !.n = node[s.n].bit[Choose(node[s.n].bits, s.ip)]])
        /\ SameTable
        /\ UNCHANGED <<node, root, unused, grace, writer, changes>>

(* It is taken for no peer at all. *)
RetryNever(found) == FALSE

(* A peer that is gone by now is looked up again. *)
Retry(found) == found # None /\ node[found].peer = None

LookupGet(r) ==
    LET s == reader[r]
    IN  /\ s.at = "get"
        /\ IF Retry(s.found)
           THEN ReaderAt(r, [s EXCEPT !.at = "walk", !.n = s.root,
                                      !.found = None])
           ELSE ReaderAt(r, [s EXCEPT !.at = "return",
                  !.found = IF @ = None THEN None ELSE node[@].peer])
        /\ SameTable
        /\ UNCHANGED <<node, root, unused, grace, writer, changes>>

(* rcu_read_unlock_bh(): nodes that waited for this reader only are freed. *)
LookupReturn(r) ==
    LET left == [n \in DOMAIN grace |-> grace[n] \ {r}]
        done == {n \in DOMAIN grace : left[n] = {}}
    IN  /\ reader[r].at = "return"
        /\ ReaderAt(r, Resting)
        /\ unused' = unused \cup done
        /\ node' = Erased(node, done)
        /\ grace' = [n \in DOMAIN grace \ done |-> left[n]]
        /\ seen' = [seen EXCEPT ![r] = {}]
        /\ always' = [always EXCEPT ![r] = {}]
        /\ changes' = IF Busy = {r} THEN 0 ELSE changes
        /\ UNCHANGED <<root, writer, table>>

IpWrite == \/ \E p \in Peers, x \in Networks : Insert(p, x) \/ RemovePrefix(p, x)
           \/ \E p \in Peers : RemoveByPeer(p)
           \/ RemoveClear \/ RemoveSplice \/ RemoveParent \/ FreeTable

IpRead(r) == \/ \E ip \in Addresses : LookupStart(r, ip)
             \/ LookupWalk(r) \/ LookupDown(r) \/ LookupGet(r)
             \/ LookupReturn(r)

IpNext == IpWrite \/ \E r \in Readers : IpRead(r)

IpSpec == IpInit /\ [][IpNext]_ipvars

-----------------------------------------------------------------------------
(* A packet is routed by an entry that was in the table during its lookup, *)
(* and by none shorter than a prefix that was there all the time, whatever *)
(* the writer did meanwhile.  With a table at rest this is the longest     *)
(* matching prefix.                                                        *)
LookupRegular ==
    \A r \in Readers : reader[r].at = "return" =>
        IF reader[r].found = None THEN always[r] = {}
        ELSE \E e \in seen[r] :
                /\ e[2] = reader[r].found
                /\ \A x \in always[r] : Len(x) <= Len(e[1])

(* After any sequence of operations the trie holds exactly the table's     *)
(* prefixes and the branches they need: a node without a peer has two      *)
(* children, every node in use hangs where its parent_bit_packed says, and *)
(* none is lost or kept, so n prefixes take less than 2n nodes.            *)
TrieCompact ==
    writer = Resting =>
        /\ {n \in InUse : node[n].peer # None} # {} \/ root = None
        /\ {<<node[n].bits, node[n].peer>> :
               n \in {m \in InUse : node[m].peer # None}}
             = {<<x, table[x]>> : x \in DOMAIN table}
        /\ \A n \in InUse :
             LET up == node[n].parent
             IN  /\ IF up.side = 2 THEN root = n
                    ELSE up.node \in InUse /\ node[up.node].bit[up.side] = n
                 /\ node[n].peer = None =>
                      \A b \in 0..1 : node[n].bit[b] # None
=============================================================================

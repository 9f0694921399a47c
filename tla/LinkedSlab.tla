----------------------------- MODULE LinkedSlab -----------------------------
(***************************************************************************)
(* `LinkedSlab` of abi/src/linked_slab.rs: a doubly linked list kept in a  *)
(* `slab::Slab`, newest item first.  A slab is a record: `nodes` maps the  *)
(* occupied keys to their nodes, `first` is the key of the newest node.    *)
(* `usize::MAX`, the key no slab hands out, is NoKey.                      *)
(*                                                                         *)
(* `slab::Slab` chooses the key of an insertion: any vacant one.  Keys of  *)
(* removed items are handed out again.                                     *)
(***************************************************************************)
EXTENDS Naturals, Sequences

CONSTANTS Keys,    \* the keys of the slab
          NoKey,   \* usize::MAX
          Items,   \* what is stored
          None     \* Option::None

ASSUME NoKeyAssumption == NoKey \notin Keys
ASSUME NoneAssumption == None \notin Items

Node == [item : Items, next : Keys \cup {NoKey}, prev : Keys \cup {NoKey}]

Empty == [nodes |-> [k \in {} |-> None], first |-> NoKey]

Occupied(slab) == DOMAIN slab.nodes

Vacant(slab) == Keys \ Occupied(slab)

Get(slab, k) == IF k \in Occupied(slab) THEN slab.nodes[k].item ELSE None

First(slab) == Get(slab, slab.first)

GetNext(slab, k) ==
  IF k \in Occupied(slab) THEN Get(slab, slab.nodes[k].next) ELSE None

(* push_front, with the key k that `slab::Slab::insert` came up with: the  *)
(* new node comes before the old first one.                                *)
PushFront(slab, item, k) ==
  [nodes |-> [j \in Occupied(slab) \cup {k} |->
      IF j = k THEN [item |-> item, next |-> slab.first, prev |-> NoKey]
      ELSE LET node == slab.nodes[j]
           IN [item |-> node.item,
               next |-> node.next,
               prev |-> IF j = slab.first THEN k ELSE node.prev]],
   first |-> k]

(* Mutant of RemoveKey: the newer neighbour keeps its link to the removed  *)
(* node.                                                                   *)
RemoveKey_KeepsNext(slab, k) ==
  IF k \notin Occupied(slab) THEN slab
  ELSE LET gone == slab.nodes[k]
       IN [nodes |-> [j \in Occupied(slab) \ {k} |->
              [slab.nodes[j] EXCEPT !.prev = IF j = gone.next THEN gone.prev ELSE @]],
           first |-> IF gone.prev = NoKey THEN gone.next ELSE slab.first]

(* remove: the two neighbours are linked to each other.  A key that is not *)
(* occupied leaves the list alone.                                         *)
RemoveKey(slab, k) ==
  IF k \notin Occupied(slab) THEN slab
  ELSE LET gone == slab.nodes[k]
           rest == Occupied(slab) \ {k}
           prev == IF gone.prev \in rest THEN gone.prev ELSE NoKey
       IN [nodes |-> [j \in rest |->
              LET node == slab.nodes[j]
              IN [item |-> node.item,
                  next |-> IF j = gone.prev THEN gone.next ELSE node.next,
                  prev |-> IF j = gone.next THEN prev ELSE node.prev]],
           first |-> IF gone.prev \in rest THEN slab.first ELSE gone.next]

-----------------------------------------------------------------------------
(* What a slab stands for: a sequence of entries, the newest first.        *)
Entry == [key : Keys, item : Items]

IsSlab(slab) ==
  /\ Occupied(slab) \subseteq Keys
  /\ slab.nodes \in [Occupied(slab) -> Node]
  /\ slab.first \in Keys \cup {NoKey}

(* The key at position p, and usize::MAX beyond either end. *)
KeyAt(entries, p) == IF p \in DOMAIN entries THEN entries[p].key ELSE NoKey

(* The nodes are the entries: each has a key of its own, its node holds    *)
(* its item and is linked to its two neighbours, the ends carry the        *)
(* usize::MAX sentinel, `first` leads to the newest entry and no other key *)
(* is occupied.                                                            *)
Represents(slab, entries) ==
  /\ \A p, q \in DOMAIN entries : entries[p].key = entries[q].key => p = q
  /\ Occupied(slab) = {entries[p].key : p \in DOMAIN entries}
  /\ slab.first = KeyAt(entries, 1)
  /\ \A p \in DOMAIN entries :
       slab.nodes[entries[p].key] =
         [item |-> entries[p].item, next |-> KeyAt(entries, p + 1), prev |-> KeyAt(entries, p - 1)]

(* The entries without the one that has the key k, if there is one. *)
Without(entries, k) ==
  IF \E p \in DOMAIN entries : entries[p].key = k
  THEN LET r == CHOOSE p \in DOMAIN entries : entries[p].key = k
       IN [i \in 1..(Len(entries) - 1) |-> entries[IF i < r THEN i ELSE i + 1]]
  ELSE entries

(* get_next(key) is the entry pushed just before the one with that key, as *)
(* call_original expects of it; and first() is the newest entry.           *)
NextIsOlder(slab, entries) ==
  /\ First(slab) = IF entries = <<>> THEN None ELSE entries[1].item
  /\ \A p \in DOMAIN entries :
       GetNext(slab, entries[p].key) = IF p = Len(entries) THEN None ELSE entries[p + 1].item

(* iter() goes through the nodes with these keys: from `first` on along    *)
(* the links, until there is no node.                                      *)
Iterates(slab, keys) ==
  LET after(i) == IF i = 0 THEN slab.first ELSE slab.nodes[keys[i]].next
  IN /\ \A i \in DOMAIN keys : keys[i] = after(i - 1) /\ keys[i] \in Occupied(slab)
     /\ after(Len(keys)) \notin Occupied(slab)
=============================================================================

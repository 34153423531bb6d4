----------------------------- MODULE IndexTree ------------------------------
(***************************************************************************)
(* What a load of KeyLog does: it replays the index file into the tree of  *)
(* sbtree.c by the keys that genrecordkey or genuserkey makes, which may   *)
(* come in any order and be equal, and goes through the tree in order.     *)
(***************************************************************************)
EXTENDS KeyLog, SbTree

CONSTANT
  Hashes         (* functions from Keys that genrecordkey, genuserkey may be*)

(* dbopen with DB_RDONLY                                                   *)
Replayed(hash) ==
  LET Enter(t, entry) == Insert(t, [key |-> hash[entry.of]] @@ entry)
  IN  FoldLeft(Enter, Nil, idx)

(* dbseq: the last entry of a key that is met stays in the map.            *)
Walked(hash) ==
  LET entries == Sequence(Replayed(hash))
      last(k) == CHOOSE i \in 1 .. Len(entries) :
                   /\ entries[i].of = k
                   /\ \A j \in i + 1 .. Len(entries) : entries[j].of # k
  IN  [k \in {entries[i].of : i \in 1 .. Len(entries)} |-> entries[last(k)].data]

(* Whatever the order in which the index gives the keys, and with equal    *)
(* keys, the replay builds a size balanced search tree, and the walk gives *)
(* each key the oldest of its entries (sbtree.c:25, :58, :108).            *)
LoadIsWalkOfBalancedTree ==
  \A hash \in Hashes :
    IsBalancedSearchTree(Replayed(hash)) /\ Walked(hash) = Loaded
==============================================================================

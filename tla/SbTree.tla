------------------------------- MODULE SbTree -------------------------------
(***************************************************************************)
(* sbtree.c: the size balanced tree in which logdb keeps its index.  A     *)
(* tree is Nil or a node with its entry, its two subtrees and the size the *)
(* code has written into it.  An entry is a record with a field `key';     *)
(* equal keys are kept, the later one on the left.                         *)
(***************************************************************************)
EXTENDS Naturals, Sequences

Nil == [size |-> 0]
IsNil(t) == t = Nil

LeftRotate(t) ==
  LET r == t.right
  IN  [r EXCEPT !.size = t.size,
                !.left = [t EXCEPT !.right = r.left,
                                   !.size = t.left.size + r.left.size + 1]]

RightRotate(t) ==
  LET l == t.left
  IN  [l EXCEPT !.size = t.size,
                !.right = [t EXCEPT !.left = l.right,
                                    !.size = l.right.size + t.right.size + 1]]

(* Mutant: only the outer grandchildren are looked at.                     *)
Rotated_SingleOnly(t, onRight) ==
  IF ~ onRight
    THEN IF IsNil(t.left) \/ t.left.left.size <= t.right.size THEN t
         ELSE RightRotate(t)
    ELSE IF IsNil(t.right) \/ t.right.right.size <= t.left.size THEN t
         ELSE LeftRotate(t)

(* The rotations of sbtree_maintain; t itself if none is needed.  A missing *)
(* subtree has no size: the code tests for it, and here it is 0.           *)
Rotated(t, onRight) ==
  IF ~ onRight
    THEN IF IsNil(t.left) THEN t
         ELSE IF t.left.left.size > t.right.size THEN RightRotate(t)
         ELSE IF t.left.right.size > t.right.size
           THEN RightRotate([t EXCEPT !.left = LeftRotate(t.left)])
         ELSE t
    ELSE IF IsNil(t.right) THEN t
         ELSE IF t.right.right.size > t.left.size THEN LeftRotate(t)
         ELSE IF t.right.left.size > t.left.size
           THEN LeftRotate([t EXCEPT !.right = RightRotate(t.right)])
         ELSE t

RECURSIVE Maintain(_, _)
Maintain(t, onRight) ==
  LET turned == Rotated(t, onRight)
  IN  IF turned = t THEN t
      ELSE LET inner == [turned EXCEPT !.left = Maintain(@, FALSE),
                                       !.right = Maintain(@, TRUE)]
           IN  Maintain(Maintain(inner, FALSE), TRUE)

RECURSIVE Insert(_, _)
Insert(t, entry) ==
  IF IsNil(t)
    THEN [entry |-> entry, left |-> Nil, right |-> Nil, size |-> 1]
    ELSE LET grown == [t EXCEPT !.size = @ + 1]
         IN  IF entry.key <= t.entry.key
               THEN Maintain([grown EXCEPT !.left = Insert(@, entry)], FALSE)
               ELSE Maintain([grown EXCEPT !.right = Insert(@, entry)], TRUE)

RECURSIVE Sequence(_)
Sequence(t) ==
  IF IsNil(t) THEN <<>>
  ELSE Sequence(t.left) \o <<t.entry>> \o Sequence(t.right)

------------------------------------------------------------------------------
(* What makes it a size balanced search tree                               *)

RECURSIVE Subtrees(_)
Subtrees(t) == IF IsNil(t) THEN {} ELSE {t} \union Subtrees(t.left) \union Subtrees(t.right)

(* No subtree is smaller than a child of its sibling, the sizes are true,  *)
(* and the entries are in the order of their keys.                         *)
IsBalancedSearchTree(t) ==
  /\ \A s \in Subtrees(t) :
       /\ s.size = Len(Sequence(s))
       /\ ~ IsNil(s.left) =>
            s.left.left.size <= s.right.size /\ s.left.right.size <= s.right.size
       /\ ~ IsNil(s.right) =>
            s.right.left.size <= s.left.size /\ s.right.right.size <= s.left.size
  /\ \A i, j \in 1 .. t.size :
       i < j => Sequence(t)[i].key <= Sequence(t)[j].key
==============================================================================

----------------------------- MODULE BPlusTree ------------------------------
(***************************************************************************)
(* raknet/DS_BPlusTree.h, as values and operators on them.  A page is a    *)
(* leaf with keys, or an index with keys and one child more; data moves    *)
(* with its key and is left out.  next and previous chain the leaves: a    *)
(* split puts the new page right behind its leaf and a merge removes the   *)
(* page it emptied, so the chain is the order of the leaves in the tree.   *)
(*                                                                         *)
(* Positions count from 1 here.  The branches for order <= 3 are left out: *)
(* the only tree of the program has order 32.                              *)
(***************************************************************************)
EXTENDS Integers, SequencesExt

CONSTANT Order  \* the most keys of a page

ASSUME OrderAssumption == Order \in Nat /\ Order >= 4

Leaf(keys)            == [isLeaf |-> TRUE, keys |-> keys, children |-> <<>>]
Index(keys, children) == [isLeaf |-> FALSE, keys |-> keys, children |-> children]

\* root = 0.
NoPage == Leaf(<<>>)

IsEmpty(tree) == tree = NoPage

Size(page)   == Len(page.keys)
IsFull(page) == Size(page) = Order
HasKey(page, key) == Contains(page.keys, key)

\* GetIndexOf: where the key is, or would be inserted.
GetIndexOf(page, key) ==
  1 + Cardinality({i \in DOMAIN page.keys : page.keys[i] < key})

\* The child to follow: on an exact match the one behind the key.
Branch(page, key) ==
  1 + Cardinality({i \in DOMAIN page.keys : page.keys[i] <= key})

RECURSIVE GetLeafFromKey(_, _)
GetLeafFromKey(page, key) ==
  IF page.isLeaf THEN page
                 ELSE GetLeafFromKey(page.children[Branch(page, key)], key)

Get(tree, key) == ~IsEmpty(tree) /\ HasKey(GetLeafFromKey(tree, key), key)

\* ForEachLeaf: the leaves from the leftmost one on.
RECURSIVE Leaves(_)
Leaves(page) ==
  IF page.isLeaf THEN <<page>>
                 ELSE FlattenSeq([i \in DOMAIN page.children |->
                                     Leaves(page.children[i])])

\* ForEachData: the keys in the order of the chain of leaves.
Chain(tree) ==
  LET leaves == Leaves(tree)
  IN  FlattenSeq([i \in DOMAIN leaves |-> leaves[i].keys])

RECURSIVE Keys(_)
Keys(page) ==
  IF page.isLeaf THEN ToSet(page.keys)
                 ELSE UNION {Keys(page.children[i]) : i \in DOMAIN page.children}
-----------------------------------------------------------------------------
(***************************************************************************)
(* Insertion.  A result holds the page as it is now, what split off (none  *)
(* or one page with the key that separates it), the key that moved to the  *)
(* head of a leaf in place of another (REPLACE_KEY1_WITH_KEY2), and        *)
(* whether the key was new.                                                *)
(***************************************************************************)
Result(page) == [page |-> page, split |-> <<>>, moved |-> <<>>, success |-> TRUE]

Refused(page) == [Result(page) EXCEPT !.success = FALSE]

\* The keys that stay when a full page splits, by where the new key goes.
Stay_mutant(i) == IF i > (Order + 1) \div 2 THEN Order \div 2
                                            ELSE (Order + 1) \div 2 - 1

Stay(i) == IF i > (Order + 1) \div 2 THEN Order \div 2 ELSE (Order + 1) \div 2

\* InsertIntoNode: the key at position i of the page and, in an index, the
\* new child behind it.
InsertIntoNode(page, i, key, child) ==
  LET keys     == InsertAt(page.keys, i, key)
      children == IF page.isLeaf THEN <<>>
                  ELSE InsertAt(page.children, i + 1, child)
      stay     == Stay(i)
  IN  IF ~IsFull(page)
      THEN Result([page EXCEPT !.keys = keys, !.children = children])
      ELSE IF page.isLeaf
      THEN [Result(Leaf(SubSeq(keys, 1, stay))) EXCEPT
              !.split = <<[key  |-> keys[stay + 1],
                           page |-> Leaf(SubSeq(keys, stay + 1, Len(keys)))]>>]
      ELSE [Result(Index(SubSeq(keys, 1, stay),
                         SubSeq(children, 1, stay + 1))) EXCEPT
              !.split = <<[key  |-> keys[stay + 1],
                           page |-> Index(SubSeq(keys, stay + 2, Len(keys)),
                                          SubSeq(children, stay + 2,
                                                 Len(children)))]>>]

CanRotateLeft(page, b)  == b > 1 /\ ~IsFull(page.children[b - 1])
CanRotateRight(page, b) == b <= Size(page) /\ ~IsFull(page.children[b + 1])

\* Key key goes to leaf b, which is full; the least of its keys and the new
\* one moves to the end of the leaf on the left.
RotateLeft(page, b, key) ==
  LET leaf == page.children[b]
      keys == InsertAt(leaf.keys, GetIndexOf(leaf, key), key)
      rest == IF key > Head(leaf.keys) THEN Tail(keys)
                                       ELSE <<key>> \o Tail(leaf.keys)
  IN  [Result([page EXCEPT
                 !.keys[b - 1] = Head(rest),
                 !.children[b - 1].keys = Append(@, Head(leaf.keys)),
                 !.children[b].keys = rest]) EXCEPT
         !.moved = <<Head(leaf.keys),
                     IF key > Head(leaf.keys) THEN leaf.keys[2] ELSE key>>]

\* The greatest of the keys of leaf b and the new one moves to the head of the
\* leaf on the right.
RotateRight(page, b, key) ==
  LET leaf  == page.children[b]
      right == page.children[b + 1]
      keys  == InsertAt(leaf.keys, GetIndexOf(leaf, key), key)
  IN  [Result([page EXCEPT
                 !.keys[b] = Last(keys),
                 !.children[b].keys = Front(keys),
                 !.children[b + 1].keys = <<Last(keys)>> \o @]) EXCEPT
         !.moved = <<Head(right.keys), Last(keys)>>]

\* REPLACE_KEY1_WITH_KEY2 on the way up.
ReplaceKey(page, b, moved) ==
  IF moved # <<>> /\ b > 1 /\ page.keys[b - 1] = moved[1]
  THEN [page EXCEPT !.keys[b - 1] = moved[2]]
  ELSE page

RECURSIVE InsertBranchDown(_, _)
InsertBranchDown(page, key) ==
  LET b     == Branch(page, key)
      child == page.children[b]
      full  == child.isLeaf /\ IsFull(child)
      below == InsertBranchDown(child, key)
      here  == ReplaceKey([page EXCEPT !.children[b] = below.page], b,
                          below.moved)
  IN  CASE page.isLeaf /\ HasKey(page, key)          -> Refused(page)
        [] page.isLeaf /\ ~HasKey(page, key)         ->
             InsertIntoNode(page, b, key, NoPage)
        [] ~page.isLeaf /\ full /\ HasKey(page, key) -> Refused(page)
        [] ~page.isLeaf /\ full /\ ~HasKey(page, key) /\ CanRotateLeft(page, b) ->
             RotateLeft(page, b, key)
        [] ~page.isLeaf /\ full /\ ~HasKey(page, key) /\ ~CanRotateLeft(page, b)
             /\ CanRotateRight(page, b) -> RotateRight(page, b, key)
        [] OTHER ->
             IF below.split = <<>> THEN [below EXCEPT !.page = here]
             ELSE InsertIntoNode(here, b, below.split[1].key,
                                 below.split[1].page)

\* Insert, which grows a new root when the old one splits.
Insert(tree, key) ==
  LET r == InsertBranchDown(tree, key)
  IN  IF IsEmpty(tree) THEN Leaf(<<key>>)
      ELSE IF r.split = <<>> THEN r.page
      ELSE Index(<<r.split[1].key>>, <<r.page, r.split[1].page>>)
-----------------------------------------------------------------------------
(***************************************************************************)
(* Deletion.  A result holds the page as it is now, whether it has too few *)
(* keys, the key an index further up is to take (SET_BRANCH_KEY), and      *)
(* whether the key was found.                                              *)
(***************************************************************************)
Deleted(page, underflow, branchKey) ==
  [page |-> page, underflow |-> underflow, branchKey |-> branchKey,
   found |-> TRUE]

\* The key that separates the two children FixUnderflow moves keys between.
RightRootKey(page, b) == page.keys[IF b <= Size(page) THEN b ELSE b - 1]

HasExcess(page) == Size(page) > Order \div 2

\* The last entry of the child on the left becomes the first of child b.
BorrowLeft(page, b) ==
  LET source == page.children[b - 1]
      dest   == page.children[b]
      moved  == IF dest.isLeaf THEN Leaf(<<Last(source.keys)>> \o dest.keys)
                ELSE Index(<<page.keys[b - 1]>> \o dest.keys,
                           <<Last(source.children)>> \o dest.children)
  IN  [page EXCEPT
         !.keys[b - 1] = Last(source.keys),
         !.children[b] = moved,
         !.children[b - 1] =
            IF @.isLeaf THEN Leaf(Front(@.keys))
                        ELSE Index(Front(@.keys), Front(@.children))]

BorrowRight_mutant(page, b) ==
  LET source == page.children[b + 1]
      dest   == page.children[b]
  IN  [page EXCEPT
         !.keys[b] = IF dest.isLeaf THEN source.keys[2] ELSE @,
         !.children[b] =
            IF dest.isLeaf THEN Leaf(Append(dest.keys, Head(source.keys)))
            ELSE Index(Append(dest.keys, RightRootKey(page, b)),
                       Append(dest.children, Head(source.children))),
         !.children[b + 1] =
            IF @.isLeaf THEN Leaf(Tail(@.keys))
                        ELSE Index(Tail(@.keys), Tail(@.children))]

\* The first entry of the child on the right becomes the last of child b.
BorrowRight(page, b) ==
  LET source == page.children[b + 1]
      dest   == page.children[b]
  IN  [page EXCEPT
         !.keys[b] = IF dest.isLeaf THEN source.keys[2] ELSE Head(source.keys),
         !.children[b] =
            IF dest.isLeaf THEN Leaf(Append(dest.keys, Head(source.keys)))
            ELSE Index(Append(dest.keys, RightRootKey(page, b)),
                       Append(dest.children, Head(source.children))),
         !.children[b + 1] =
            IF @.isLeaf THEN Leaf(Tail(@.keys))
                        ELSE Index(Tail(@.keys), Tail(@.children))]

\* Children d and d + 1 become one.
Merge(page, d, rootKey) ==
  LET dest   == page.children[d]
      source == page.children[d + 1]
      whole  == IF dest.isLeaf THEN Leaf(dest.keys \o source.keys)
                ELSE Index(Append(dest.keys, rootKey) \o source.keys,
                           dest.children \o source.children)
  IN  Index(RemoveAt(page.keys, d),
            RemoveAt([page.children EXCEPT ![d] = whole], d + 1))

\* FixUnderflow of child b, whose removal may already ask for a branch key.
FixUnderflow(page, b, branchKey) ==
  LET child == page.children[b]
      first == <<Head(child.keys)>>
      d     == IF b <= Size(page) THEN b ELSE b - 1
      whole == Merge(page, d, RightRootKey(page, b))
  IN  IF b > 1 /\ HasExcess(page.children[b - 1])
      THEN Deleted(BorrowLeft(page, b), FALSE, branchKey)
      ELSE IF b <= Size(page) /\ HasExcess(page.children[b + 1])
      THEN Deleted(BorrowRight(page, b), FALSE,
                   IF child.isLeaf \/ branchKey # <<>> THEN branchKey ELSE first)
      ELSE Deleted(whole, Size(whole) < Order \div 2,
                   IF b = 1 /\ child.isLeaf THEN first ELSE branchKey)

\* The part of FindDeleteRebalance that removes the key from leaf b.
DeleteFromLeaf(page, b, key) ==
  LET i     == GetIndexOf(page.children[b], key)
      leaf  == Leaf(RemoveAt(page.children[b].keys, i))
      here  == [page EXCEPT !.children[b] = leaf,
                            !.keys = IF i = 1 /\ b > 1
                                     THEN [@ EXCEPT ![b - 1] = Head(leaf.keys)]
                                     ELSE @]
  IN  Deleted(here, Size(leaf) < Order \div 2,
              IF i = 1 /\ b = 1 THEN <<Head(leaf.keys)>> ELSE <<>>)

\* The part of FindDeleteRebalance that follows the call for child b.
SetBranchKey(page, b, key, below) ==
  LET here == [page EXCEPT !.children[b] = below.page]
  IN  IF below.branchKey # <<>> /\ HasKey(page, key)
      THEN Deleted([here EXCEPT !.keys[b - 1] = below.branchKey[1]],
                   below.underflow, <<>>)
      ELSE Deleted(here, below.underflow, below.branchKey)

RECURSIVE FindDeleteRebalance(_, _)
FindDeleteRebalance(page, key) ==
  LET b     == Branch(page, key)
      child == page.children[b]
      below == FindDeleteRebalance(child, key)
      r     == IF child.isLeaf THEN DeleteFromLeaf(page, b, key)
                               ELSE SetBranchKey(page, b, key, below)
  IN  IF IF child.isLeaf THEN ~HasKey(child, key) ELSE ~below.found
      THEN [Deleted(page, FALSE, <<>>) EXCEPT !.found = FALSE]
      ELSE IF r.underflow THEN FixUnderflow(r.page, b, r.branchKey) ELSE r

\* Delete, which gives up the root when it has one child left.
Delete(tree, key) ==
  LET r == FindDeleteRebalance(tree, key)
  IN  IF IsEmpty(tree) THEN tree
      ELSE IF tree.isLeaf
      THEN IF HasKey(tree, key) THEN Leaf(Remove(tree.keys, key)) ELSE tree
      ELSE IF r.found /\ r.underflow /\ Size(r.page) = 0
      THEN r.page.children[1]
      ELSE r.page
-----------------------------------------------------------------------------
(***************************************************************************)
(* ValidateTree: what a tree must be for a search to find every key.       *)
(***************************************************************************)
IsAscending(keys) == \A i \in 2..Len(keys) : keys[i - 1] < keys[i]

RECURSIVE ValidateTreeRecursive(_, _)
ValidateTreeRecursive(page, isRoot) ==
  /\ isRoot \/ Size(page) >= Order \div 2
  /\ Size(page) <= Order
  /\ ~page.isLeaf =>
       /\ Len(page.children) = Size(page) + 1
       /\ \A i \in DOMAIN page.children :
             ValidateTreeRecursive(page.children[i], FALSE)
       /\ page.children[1].isLeaf =>
             /\ Head(page.children[1].keys) < Head(page.keys)
             /\ \A i \in DOMAIN page.keys :
                   Head(page.children[i + 1].keys) = page.keys[i]

ValidateTree(tree) ==
  LET chain == Chain(tree)
  IN  /\ IsAscending(chain)
      /\ ~IsEmpty(tree) =>
           /\ \A leaf \in ToSet(Leaves(tree)) : Size(leaf) > 0
           /\ ValidateTreeRecursive(tree, TRUE)
=============================================================================

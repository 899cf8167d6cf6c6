----------------------------- MODULE RadixTree -----------------------------
(***************************************************************************)
(* The radix trees of rce/radixtree.hh, in which the resource database     *)
(* keeps routers and links: a binary tree of prefixes in which a node with *)
(* one child may be skipped, so that a branching node is made when an      *)
(* index turns off in the middle of an edge.                               *)
(*                                                                         *)
(* A tree is [root, node]. A node is named by its index, the sequence of   *)
(* bits it stands for; node maps the indexes in the tree to records of     *)
(* parent, children and data. Nodes without data are branching nodes, or   *)
(* what a deletion left behind. Locks are switched off, which is the       *)
(* default (SystemConfig::radix_lock_on): LockNode and UnlockNode do       *)
(* nothing, and DeleteNode leaves the parent alone.                        *)
(***************************************************************************)
LOCAL INSTANCE Naturals
LOCAL INSTANCE SequencesExt

CONSTANT None    \* the null pointer

EmptyTree == [root |-> None, node |-> [i \in {} |-> None]]
Fresh(data) == [parent |-> None, link |-> [b \in 0 .. 1 |-> None], data |-> data]

Nodes(t)    == DOMAIN t.node
NodesWithData(t) == {n \in Nodes(t) : t.node[n].data # None}
Data(t, n)  == t.node[n].data
Child(t, n, b) == t.node[n].link[b]

(* p <= k of the code: the index p is a prefix of the index k.              *)
Covers(p, k) == IsPrefix(p, k)
(* check_bit: the side of a node p on which the longer index k lies.        *)
Side(p, k)   == k[Len(p) + 1]
(* node & index: the longest prefix that both have.                         *)
Common(p, k) == LongestCommonPrefix({p, k})

-----------------------------------------------------------------------------
(* The loop of GetNode, LookupNode and LookupMatchedNode: it goes down from *)
(* the root while the node is a proper prefix of k. The result is the last  *)
(* such node and the one at which the loop ends.                            *)
Fall(t, k) ==
  LET N == Nodes(t) \cup {None}
      down[m \in N, n \in N] ==
        IF n # None /\ Covers(n, k) /\ n # k
        THEN down[n, Child(t, n, Side(n, k))]
        ELSE [match |-> m, node |-> n]
  IN down[None, t.root]

(* set_link, or the assignment to the root when there is no node above.     *)
(* (Mutant first: the new child does not know its parent.)                  *)
Linked_NoParent(t, above, n) ==
  IF above = None
  THEN [t EXCEPT !.root = n]
  ELSE [t EXCEPT !.node[above].link[Side(above, n)] = n]

Linked(t, above, n) ==
  IF above = None
  THEN [t EXCEPT !.root = n]
  ELSE [t EXCEPT !.node[above].link[Side(above, n)] = n,
                 !.node[n].parent = above]

Added(t, above, n) ==
  Linked([t EXCEPT !.node = [i \in Nodes(t) \cup {n} |->
                               IF i = n THEN Fresh(None) ELSE t.node[i]]],
         above, n)

(* The tree after GetNode, which makes the node of an index if need be.     *)
GetNode(t, k) ==
  LET f == Fall(t, k)
      branch == Common(f.node, k)
      split  == Linked(Added(t, f.match, branch), branch, f.node)
  IN CASE f.node = k    -> t
       [] f.node = None -> Added(t, f.match, k)
       [] OTHER         -> IF branch = k THEN split ELSE Added(split, branch, k)

SetData(t, n, data) == [t EXCEPT !.node[n].data = data]

(* InsertNode, and what ResourceDB::Update does to the tree.                *)
InsertNode(t, k, data) == SetData(GetNode(t, k), k, data)

(* LookupNode: a node without data is not found.                            *)
LookupNode(t, k) ==
  LET n == Fall(t, k).node
  IN IF n = k /\ Data(t, n) # None THEN n ELSE None

(* DeleteNode of a node: its only child takes its place. A node with two    *)
(* children is left as it is, and its data is not returned.                 *)
Only(t, n) == IF Child(t, n, 0) # None THEN Child(t, n, 0) ELSE Child(t, n, 1)

Unlinked(t, n) ==
  LET up == t.node[n].parent
      c  == Only(t, n)
      t1 == IF c = None THEN t ELSE [t EXCEPT !.node[c].parent = up]
      t2 == IF up = None
            THEN [t1 EXCEPT !.root = c]
            ELSE [t1 EXCEPT !.node[up].link[IF Child(t, up, 0) = n THEN 0 ELSE 1] = c]
  IN [t2 EXCEPT !.node = [i \in Nodes(t) \ {n} |-> t2.node[i]]]

DeleteNode(t, n) ==
  IF Child(t, n, 0) # None /\ Child(t, n, 1) # None THEN t ELSE Unlinked(t, n)

-----------------------------------------------------------------------------
(* NextNode: the next node in preorder. Above a node without children it    *)
(* climbs to the first node it is left of which has a right child.          *)
(* (Mutant first: it does not climb past the parent.)                       *)
Climb_OneLevel(t, n) ==
  LET p == t.node[n].parent
  IN IF p # None /\ Child(t, p, 0) = n THEN Child(t, p, 1) ELSE None

Climb(t, n) ==
  LET up[m \in Nodes(t)] ==
        LET p == t.node[m].parent
        IN CASE p = None -> None
             [] p # None /\ Child(t, p, 0) = m /\ Child(t, p, 1) # None
                  -> Child(t, p, 1)
             [] OTHER -> up[p]
  IN up[n]

NextNode(t, n) == IF Only(t, n) # None THEN Only(t, n) ELSE Climb(t, n)

(* NextNodeHavingData: the same, passing over the nodes without data.       *)
NextNodeHavingData(t, n) ==
  LET next[m \in Nodes(t)] ==
        LET x == NextNode(t, m)
        IN IF x = None \/ Data(t, x) # None THEN x ELSE next[x]
  IN next[n]

(* The nodes from n on that a walk with NextNode passes.                    *)
Walk(t) ==
  LET from[n \in Nodes(t) \cup {None}] ==
        IF n = None THEN <<>> ELSE <<n>> \o from[NextNode(t, n)]
  IN from[t.root]

(* LookupMatchedNode of a prefix shorter than the indexes that carry data:  *)
(* the first node after the last one passed on the way down, which is the   *)
(* root when none covers the prefix, that has data and lies under it.       *)
LookupNextMatchedNode(t, n, p) ==
  LET next[m \in Nodes(t)] ==
        LET x == NextNodeHavingData(t, m)
        IN IF x = None \/ Covers(p, x) THEN x ELSE next[x]
  IN next[n]

LookupMatchedNode(t, p) ==
  LET f == Fall(t, p)
      passed == CASE f.node = p -> p [] f.match # None -> f.match [] OTHER -> t.root
  IN IF t.root = None THEN None ELSE LookupNextMatchedNode(t, passed, p)

(* The nodes with data under a prefix, as BuildLinkVector goes through them. *)
Under(t, p) ==
  LET from[n \in Nodes(t) \cup {None}] ==
        IF n = None THEN <<>> ELSE <<n>> \o from[LookupNextMatchedNode(t, n, p)]
  IN from[LookupMatchedNode(t, p)]

-----------------------------------------------------------------------------
(* What a tree must be: parents and children agree, a child's index goes on *)
(* where its parent's ends on the side it hangs on, and nothing is cut off. *)
WellFormed(t) ==
  /\ (t.root = None) <=> (Nodes(t) = {})
  /\ \A n \in Nodes(t) :
       LET p == t.node[n].parent
       IN IF p = None
          THEN n = t.root
          ELSE /\ p \in Nodes(t)
               /\ Covers(p, n) /\ p # n
               /\ Child(t, p, Side(p, n)) = n
  /\ \A n \in Nodes(t), b \in 0 .. 1 :
       Child(t, n, b) # None => Child(t, n, b) \in Nodes(t) /\ t.node[Child(t, n, b)].parent = n
=============================================================================

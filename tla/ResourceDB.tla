----------------------------- MODULE ResourceDB -----------------------------
(***************************************************************************)
(* The resource database of the RCE as it is written: two radix trees, the *)
(* links under their indexes and the bookmarks of incomplete links, whose  *)
(* data are pointers to Link objects. It implements LinkTable, as long as  *)
(* path computations move links that are under the index they have: a jump *)
(* of a link that a commit has overwritten can delete the object it stores *)
(* (astray), and the database is not followed beyond.                      *)
(***************************************************************************)
EXTENDS TeLinks, FiniteSets, SequencesExt

INSTANCE RadixTree

CONSTANT Sessions
CONSTANT Word      \* the bits of a word of an index

VARIABLES
  heap,      \* the Link objects: address -> link
  tree,      \* r_trees[RTYPE_LOC_PHY_LNK]
  book,      \* r_trees[RTYPE_LOC_PHY_LNK_INCOMPLETE]
  edited,    \* link_to_update
  editing,   \* the CLI sessions in the edit-link-node
  astray     \* history: a link that was not under its index has jumped

operatorVars == <<edited, editing>>
vars == <<heap, tree, book, operatorVars, astray>>

-----------------------------------------------------------------------------
(* Indexes as bits, word by word.                                           *)
Bits == [x \in 0 .. 2 ^ Word - 1 |-> [j \in 1 .. Word |-> (x \div 2 ^ (Word - j)) % 2]]
Flat(words) == FlattenSeq([j \in DOMAIN words |-> Bits[words[j]]])

Index(l)           == Flat(KeyOf(l))
IncompleteIndex(l) == Flat(Iface(l))

-----------------------------------------------------------------------------
(* A database is the objects and the trees that point to them.              *)
DB == [heap |-> heap, tree |-> tree, book |-> book]

(* A new object gets an address that is free. It is named after the index   *)
(* the object has when it is made.                                          *)
New(h, k) == <<k, CHOOSE i \in 1 .. Cardinality(DOMAIN h) + 1 :
                    /\ <<k, i>> \notin DOMAIN h
                    /\ \A j \in 1 .. i - 1 : <<k, j>> \in DOMAIN h>>
Stored(h, p, l) == [q \in DOMAIN h \cup {p} |-> IF q = p THEN l ELSE h[q]]
Freed(h, p)     == [q \in DOMAIN h \ {p} |-> h[q]]

(* Link::hook_PreUpdate.                                                    *)
Inheriting(l, old, gris) ==
  IF old.holds = None THEN l ELSE [l EXCEPT !.holds = old.holds \ gris]

(* ResourceDB::Update of the object p. (Mutant first: without the hook.)    *)
Update_NoHook(db, p, gris) ==
  LET k   == Index(db.heap[p])
      t   == GetNode(db.tree, k)
      old == Data(t, k)
  IN [db EXCEPT !.heap = IF old = None THEN @ ELSE Freed(@, old),
                !.tree = SetData(t, k, p)]

Update(db, p, gris) ==
  LET k   == Index(db.heap[p])
      t   == GetNode(db.tree, k)
      old == Data(t, k)
      h   == IF old = None
             THEN db.heap
             ELSE Freed([db.heap EXCEPT ![p] = Inheriting(@, db.heap[old], gris)], old)
  IN [db EXCEPT !.heap = h, !.tree = SetData(t, k, p)]

(* ResourceDB::Remove: the node is deleted, the object is not.              *)
Removed(db, k) ==
  LET n == LookupNode(db.tree, k)
  IN IF n = None THEN db ELSE [db EXCEPT !.tree = DeleteNode(@, n)]

(* ResourceDB::Delete: the node and the object in it are deleted.           *)
Deleted(db, k) ==
  LET n == LookupNode(db.tree, k)
  IN IF n = None
     THEN db
     ELSE [Removed(db, k) EXCEPT !.heap = Freed(@, Data(db.tree, n))]

(* LookupIncompleteLinkNode: the first node of a walk through the bookmarks *)
(* that has the index and data.                                             *)
LookupIncompleteLinkNode(db, i) ==
  LET found == SelectSeq(Walk(db.book), LAMBDA n : n = i /\ Data(db.book, n) # None)
  IN IF found = <<>> THEN None ELSE found[1]

BookmarkIncompleteLink(db, p) ==
  [db EXCEPT !.book = InsertNode(@, IncompleteIndex(db.heap[p]), p)]

RemoveIncompleteLinkNode(db, n) ==
  [db EXCEPT !.book = DeleteNode(SetData(@, n, None), n)]

(* What the handler of a complete LSA does with the link bookmarked for its *)
(* interface.                                                               *)
Completed(db, l) ==
  LET n == LookupIncompleteLinkNode(db, IncompleteIndex(l))
  IN IF n = None
     THEN db
     ELSE RemoveIncompleteLinkNode(Deleted(db, Index(db.heap[Data(db.book, n)])), n)

Becomes(db) == heap' = db.heap /\ tree' = db.tree /\ book' = db.book

-----------------------------------------------------------------------------
(* LSAHandler::Run.                                                         *)
LsaUpdate(a, gris) ==
  LET l  == Advertised(a)
      p  == New(heap, Index(l))
      db == [DB EXCEPT !.heap = Stored(@, p, l)]
  IN /\ Becomes(Update(IF IsIncomplete(l) THEN BookmarkIncompleteLink(db, p)
                                          ELSE Completed(db, l),
                       p, gris))
     /\ UNCHANGED <<operatorVars, astray>>

(* (Mutant first: the bookmark stays.)                                      *)
LsaDelete_KeepsBookmark(a) ==
  /\ Becomes(Deleted(DB, Index(Advertised(a))))
  /\ UNCHANGED <<operatorVars, astray>>

LsaDelete(a) ==
  LET l == Advertised(a)
      n == LookupIncompleteLinkNode(DB, IncompleteIndex(l))
  IN /\ Becomes(Deleted(IF n = None THEN DB ELSE RemoveIncompleteLinkNode(DB, n), Index(l)))
     /\ UNCHANGED <<operatorVars, astray>>

(* LSPHandler and PCEN insert and remove deltas of the links in the tree.   *)
InTree == {Data(tree, n) : n \in NodesWithData(tree)}

Hold(p, g) ==
  /\ heap' = [heap EXCEPT ![p].holds = Deltas(heap[p]) \cup {g}]
  /\ UNCHANGED <<tree, book, operatorVars, astray>>

Release(p, g) ==
  /\ g \in Deltas(heap[p])
  /\ heap' = [heap EXCEPT ![p].holds = @ \ {g}]
  /\ UNCHANGED <<tree, book, operatorVars, astray>>

(* An object is where its index says, unless a commit has overwritten it.   *)
AtIndex(p) ==
  LET n == LookupNode(tree, Index(heap[p])) IN n # None /\ Data(tree, n) = p

(* The 'jump' links of PCEN_MRN::PostBuildTopology. A link that jumped and  *)
(* was overwritten with a copy made before is under the index it jumps to:  *)
(* the second jump removes nothing, finds the link itself at its new index, *)
(* deletes it and stores it.                                                *)
Jump(p, q) ==
  /\ p # q
  /\ heap[p].uni # None /\ heap[p].uni # heap[p].adv
  /\ Opposite(heap[p], heap[q])
  /\ LET out == Removed(Removed(DB, Index(heap[p])), Index(heap[q]))
         h   == [heap EXCEPT ![p].adv = heap[p].uni, ![p].uni = None,
                             ![q].id = heap[p].uni]
     IN Becomes(Update(Update([out EXCEPT !.heap = h], p, {}), q, {}))
  /\ astray' = ~(AtIndex(p) /\ AtIndex(q))
  /\ UNCHANGED operatorVars

-----------------------------------------------------------------------------
(* The commands "edit link", "commit" and "cancel" of the RCE.              *)
LookupLinkByLclRmtIf(lcl, rmt) ==
  LET found == SelectSeq(Walk(tree), LAMBDA n : /\ Data(tree, n) # None
                                                /\ heap[Data(tree, n)].lcl = lcl
                                                /\ heap[Data(tree, n)].rmt = rmt)
  IN IF found = <<>> THEN None ELSE Data(tree, found[1])

Edit(s, a) ==
  LET p == LookupLinkByLclRmtIf(a.lcl, a.rmt)
  IN /\ s \notin editing
     /\ a.lcl # 0 /\ p # None
     /\ edited' = heap[p]
     /\ editing' = editing \cup {s}
     /\ UNCHANGED <<heap, tree, book, astray>>

Target == IF edited = None THEN None ELSE LookupLinkByLclRmtIf(edited.lcl, edited.rmt)

Commit(s) ==
  /\ s \in editing /\ Target # None
  /\ heap' = [heap EXCEPT ![Target] = edited]
  /\ edited' = None
  /\ editing' = editing \ {s}
  /\ UNCHANGED <<tree, book, astray>>

(* A commit that reads a null pointer: the RCE starts anew.                 *)
CommitFails(s) ==
  /\ s \in editing /\ Target = None
  /\ Becomes([heap |-> [p \in {} |-> None], tree |-> EmptyTree, book |-> EmptyTree])
  /\ edited' = None /\ editing' = {}
  /\ UNCHANGED astray

Cancel(s) ==
  /\ s \in editing
  /\ edited' = None
  /\ editing' = editing \ {s}
  /\ UNCHANGED <<heap, tree, book, astray>>

-----------------------------------------------------------------------------
Init ==
  /\ heap = [p \in {} |-> None]
  /\ tree = EmptyTree /\ book = EmptyTree
  /\ edited = None /\ editing = {}
  /\ astray = FALSE

Steps ==
  \/ \E a \in Ads, gris \in SUBSET Gri : LsaUpdate(a, gris)
  \/ \E a \in Ads : LsaDelete(a)
  \/ \E p \in InTree, g \in Gri : Hold(p, g) \/ Release(p, g)
  \/ \E p, q \in InTree : Jump(p, q)
  \/ \E s \in Sessions, a \in Ads : Edit(s, a)
  \/ \E s \in Sessions : Commit(s) \/ CommitFails(s) \/ Cancel(s)

Next == ~astray /\ Steps

Spec == Init /\ [][Next]_vars

-----------------------------------------------------------------------------
(* What the trees and the objects stand for.                                *)
Number == [b \in Range(Bits) |-> CHOOSE x \in DOMAIN Bits : Bits[x] = b]
Words(n) ==
  [w \in 1 .. Len(n) \div Word |-> Number[SubSeq(n, (w - 1) * Word + 1, w * Word)]]

LinkOf(k) == heap[Data(tree, Flat(k))]
NodeOf(p) == CHOOSE n \in NodesWithData(tree) : Data(tree, n) = p

Links ==
  [k \in {Words(n) : n \in NodesWithData(tree)} |-> LinkOf(k)]
Marks ==
  [i \in {Words(n) : n \in NodesWithData(book)} |-> Words(NodeOf(Data(book, Flat(i))))]

(* Once astray there may be a pointer to nothing, and the table is any.     *)
Table == INSTANCE LinkTable WITH
  links <- IF astray THEN <<>> ELSE Links,
  marks <- IF astray THEN <<>> ELSE Marks

(* The trees and the pointers are an implementation of the table: whatever  *)
(* LSAs, queries, operators and path computations do to the trees, node by  *)
(* node, is one step of the table or none. The table says nothing beyond a  *)
(* jump of a link that is not under its index (LinkTable!JumpAstray).       *)
ImplementsTable == Table!Spec

-----------------------------------------------------------------------------
TypeOK ==
  /\ \A p \in DOMAIN heap : heap[p] \in LinkSet
  /\ WellFormed(tree) /\ \A n \in Nodes(tree) : Len(n) <= 4 * Word
  /\ WellFormed(book) /\ \A n \in Nodes(book) : Len(n) <= 2 * Word
  /\ edited \in LinkSet \cup {None}
  /\ editing \subseteq Sessions
  /\ astray \in BOOLEAN

(* Every object is in the tree of links, at one node of it, and both trees  *)
(* point to nothing else: no object is lost or deleted while it is pointed  *)
(* to, though Update deletes what a bookmark may point to, and the handler  *)
(* of a complete LSA deletes by the index the bookmarked object has now.    *)
NothingDangles ==
  /\ InTree = DOMAIN heap
  /\ Cardinality(NodesWithData(tree)) = Cardinality(DOMAIN heap)
  /\ \A n \in NodesWithData(book) : Data(book, n) \in DOMAIN heap

(* The walks reach what is there. NextNode passes every node once; from     *)
(* LookupMatchedNode on the path computation finds each link of a router    *)
(* once. The walk does not look at the node it starts from, so a link that  *)
(* is alone in the tree, which then is the root, is not found.              *)
Routers == {l.adv : l \in {heap[p] : p \in DOMAIN heap}}

WalksFindAll ==
  /\ IsInjective(Walk(tree)) /\ Range(Walk(tree)) = Nodes(tree)
  /\ \A r \in Routers :
       LET found == Under(tree, Bits[r])
       IN \/ Nodes(tree) = {tree.root}
          \/ /\ IsInjective(found)
             /\ Range(found) = {n \in NodesWithData(tree) : Covers(Bits[r], n)}

(* The two together, for the trees as the code keeps them (RadixTree,       *)
(* ResourceDB::Update, Remove, BookmarkIncompleteLink), up to the first     *)
(* jump of a link that a commit has put under an index not its own.         *)
TreesIntact == astray \/ (NothingDangles /\ WalksFindAll)

(* "re-plant the links into RDB" (pcen_mrn.cc:752): the two links of a jump *)
(* are objects, and the tree has them. The code fails it when a link that   *)
(* has jumped, was overwritten by a commit (rce_cli.cc:1779) and is at the  *)
(* index it goes to jumps again: ResourceDB::Update deletes what it stores  *)
(* (resource.cc:777).                                                       *)
Replanted ==
  [][\A p, q \in InTree : Jump(p, q) => {p, q} \subseteq DOMAIN heap' \cap InTree']_vars
=============================================================================

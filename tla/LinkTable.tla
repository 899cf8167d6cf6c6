----------------------------- MODULE LinkTable -----------------------------
(***************************************************************************)
(* What the resource database of the RCE promises of its links: a table    *)
(* from the index of a link (advertising router, link ID, local and remote *)
(* interface address) to the link, and bookmarks from an interface         *)
(* (advertising router, local address) to the last link of it that was     *)
(* advertised before its TE information was complete.                      *)
(*                                                                         *)
(* The database is written to by the handler of LSAs, by queries and       *)
(* releases (the link state deltas of LinkDelta, which are but the set of  *)
(* their owners here, expired ones left out), by the path computation,     *)
(* which makes a 'jump' link of a link into a subnet, and by operators who *)
(* edit a link.                                                            *)
(***************************************************************************)
EXTENDS TeLinks

CONSTANT Sessions    \* CLI sessions

VARIABLES
  links,     \* index -> link, the tree RTYPE_LOC_PHY_LNK
  marks,     \* interface -> index, the tree RTYPE_LOC_PHY_LNK_INCOMPLETE
  edited,    \* link_to_update, the copy that operators edit
  editing,   \* the sessions that are editing a link
  astray     \* history: a link that was not under its index has jumped

operatorVars == <<edited, editing>>
vars == <<links, marks, operatorVars, astray>>

-----------------------------------------------------------------------------
Without(f, K) == [k \in DOMAIN f \ K |-> f[k]]
With(f, k, v) == [i \in DOMAIN f \cup {k} |-> IF i = k THEN v ELSE f[i]]

(* Link::hook_PreUpdate: the deltas of the link that is replaced go over to *)
(* the new one, which forgets its own, but for those of the GRIs in the LSA *)
(* that the new link comes from.                                            *)
Inheriting(tab, l, gris) ==
  IF KeyOf(l) \in DOMAIN tab /\ tab[KeyOf(l)].holds # None
  THEN [l EXCEPT !.holds = tab[KeyOf(l)].holds \ gris]
  ELSE l

(* ResourceDB::Update.                                                      *)
Update(tab, l, gris) == With(tab, KeyOf(l), Inheriting(tab, l, gris))

(* The link that is bookmarked for the interface of a complete link.        *)
Superseded(l) ==
  IF IsIncomplete(l) \/ Iface(l) \notin DOMAIN marks
  THEN {}
  ELSE {KeyOf(links[marks[Iface(l)]])}

(* LSAHandler::Run, ACT_UPDATE.                                             *)
LsaUpdate(a, gris) ==
  LET l == Advertised(a)
  IN /\ links' = Update(Without(links, Superseded(l)), l, gris)
     /\ marks' = IF IsIncomplete(l)
                 THEN With(marks, Iface(l), KeyOf(l))
                 ELSE Without(marks, {Iface(l)})
     /\ UNCHANGED <<operatorVars, astray>>

(* LSAHandler::Run, ACT_DELETE.                                             *)
LsaDelete(a) ==
  /\ links' = Without(links, {KeyOf(a)})
  /\ marks' = Without(marks, {Iface(a)})
  /\ UNCHANGED <<operatorVars, astray>>

-----------------------------------------------------------------------------
(* A query inserts a delta.                                                 *)
Hold(k, g) ==
  /\ k \in DOMAIN links
  /\ links' = [links EXCEPT ![k].holds = Deltas(links[k]) \cup {g}]
  /\ UNCHANGED <<marks, operatorVars, astray>>

(* A release, or the same GRI's next query, removes it.                     *)
Release(k, g) ==
  /\ k \in DOMAIN links
  /\ g \in Deltas(links[k])
  /\ links' = [links EXCEPT ![k].holds = @ \ {g}]
  /\ UNCHANGED <<marks, operatorVars, astray>>

(* The path computation finds that a link ends at a subnet: it takes the    *)
(* link and the one in the other direction out of the database, moves their *)
(* ends to the subnet's router and puts them back. Their bookmarks go on    *)
(* pointing to them.                                                        *)
IntoSubnet(k, r) ==
  /\ k \in DOMAIN links /\ r \in DOMAIN links \ {k}
  /\ links[k].uni # None /\ links[k].uni # links[k].adv
  /\ Opposite(links[k], links[r])

UnderIndex(k) == KeyOf(links[k]) = k

Jump(k, r) ==
  /\ IntoSubnet(k, r)
  /\ UnderIndex(k) /\ UnderIndex(r)
  /\ LET l == [links[k] EXCEPT !.adv = links[k].uni, !.uni = None]
         b == [links[r] EXCEPT !.id = links[k].uni]
     IN /\ links' = Update(Update(Without(links, {k, r}), l, {}), b, {})
        /\ marks' = [i \in DOMAIN marks |->
                       CASE marks[i] = k -> KeyOf(l)
                         [] marks[i] = r -> KeyOf(b)
                         [] OTHER -> marks[i]]
  /\ UNCHANGED <<operatorVars, astray>>

(* A link that a commit has put under another link's index is not taken out *)
(* but put back all the same: it is under two indexes, or deleted and still *)
(* pointed to. Nothing is promised of the table then.                       *)
JumpAstray(k, r) ==
  /\ IntoSubnet(k, r)
  /\ ~(UnderIndex(k) /\ UnderIndex(r))
  /\ astray' = TRUE
  /\ UNCHANGED operatorVars

-----------------------------------------------------------------------------
(* Operators. "edit link" copies a link with its deltas, "commit" looks for *)
(* a link with the same addresses and overwrites it with the copy; if there *)
(* are several it is the first in the order of the tree. A commit with no   *)
(* such link, or after another session's commit, reads a null pointer: the  *)
(* RCE dies, and starts anew with an empty database.                        *)
Edit(s, k) ==
  /\ k \in DOMAIN links /\ links[k].lcl # 0
  /\ s \notin editing
  /\ edited' = links[k]
  /\ editing' = editing \cup {s}
  /\ UNCHANGED <<links, marks, astray>>

SameAddresses ==
  {k \in DOMAIN links : links[k].lcl = edited.lcl /\ links[k].rmt = edited.rmt}

Commit(s, k) ==
  /\ s \in editing /\ edited # None
  /\ k \in SameAddresses
  /\ links' = [links EXCEPT ![k] = edited]
  /\ edited' = None
  /\ editing' = editing \ {s}
  /\ UNCHANGED <<marks, astray>>

CommitFails(s) ==
  /\ s \in editing
  /\ edited = None \/ SameAddresses = {}
  /\ links' = Without(links, DOMAIN links)
  /\ marks' = Without(marks, DOMAIN marks)
  /\ edited' = None /\ editing' = {}
  /\ UNCHANGED astray

(* "cancel" and "exit" delete the copy, whoever made it.                    *)
Cancel(s) ==
  /\ s \in editing
  /\ edited' = None
  /\ editing' = editing \ {s}
  /\ UNCHANGED <<links, marks, astray>>

-----------------------------------------------------------------------------
Empty == [i \in {} |-> None]

Init ==
  /\ links = Empty /\ marks = Empty
  /\ edited = None /\ editing = {}
  /\ astray = FALSE

Steps ==
  \/ \E a \in Ads, gris \in SUBSET Gri : LsaUpdate(a, gris)
  \/ \E a \in Ads : LsaDelete(a)
  \/ \E k \in DOMAIN links, g \in Gri : Hold(k, g) \/ Release(k, g)
  \/ \E k, r \in DOMAIN links : Jump(k, r) \/ JumpAstray(k, r)
  \/ \E s \in Sessions, k \in DOMAIN links : Edit(s, k) \/ Commit(s, k)
  \/ \E s \in Sessions : CommitFails(s) \/ Cancel(s)

Next == ~astray /\ Steps

Spec == Init /\ [][Next]_vars

-----------------------------------------------------------------------------
(* A bookmark is of a link in the table, one on the same local address: the *)
(* handler of a complete LSA deletes what the bookmark points to. Once the  *)
(* table is astray a bookmark may point to what was deleted.                *)
BookmarksAreLinks ==
  \A i \in DOMAIN marks : marks[i] \in DOMAIN links /\ marks[i][3] = i[2]
=============================================================================

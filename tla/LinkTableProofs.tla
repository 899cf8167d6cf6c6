-------------------------- MODULE LinkTableProofs --------------------------
(***************************************************************************)
(* The bookmarks of LinkTable do not dangle while every link that jumps is *)
(* under its index, which without operators is always, for any links,      *)
(* owners of deltas and sessions.                                          *)
(***************************************************************************)
EXTENDS LinkTable, TLAPS

(* A link at an index: the local address is that of the index, whatever a   *)
(* commit has put there, and so is the router if the link has no address.   *)
(* Only links with an address lead into a subnet or are edited.             *)
Placed(k, l) ==
  /\ l \in LinkSet
  /\ l.lcl = k[3]
  /\ l.lcl = 0 => l.adv = k[1] /\ l.uni = None

PlacedAll(tab) == \A k \in DOMAIN tab : Placed(k, tab[k])

LinkInv ==
  /\ PlacedAll(links)
  /\ edited # None => edited \in LinkSet /\ edited.lcl # 0

(* A bookmark is under the interface of an LSA, and points to a link of     *)
(* that address, of that router too if the address is missing.              *)
Marked(tab, i, k) ==
  /\ \E a \in Ads : i = Iface(a)
  /\ k \in DOMAIN tab
  /\ k[3] = i[2]
  /\ i[2] = 0 => k[1] = i[1]

MarkInv == \A i \in DOMAIN marks : Marked(links, i, marks[i])

IInv == LinkInv /\ MarkInv

-----------------------------------------------------------------------------
(* The table with links left out, and with one put in.                      *)
LEMMA WithDef ==
  ASSUME NEW f, NEW k, NEW v
  PROVE  /\ DOMAIN With(f, k, v) = DOMAIN f \cup {k}
         /\ With(f, k, v)[k] = v
         /\ \A j \in DOMAIN f \ {k} : With(f, k, v)[j] = f[j]
  BY DEF With

LEMMA WithoutDef ==
  ASSUME NEW f, NEW K
  PROVE  /\ DOMAIN Without(f, K) = DOMAIN f \ K
         /\ \A j \in DOMAIN f \ K : Without(f, K)[j] = f[j]
  BY DEF Without

(* A link that takes over deltas stays the link it is, so every link of an  *)
(* updated table is where it belongs.                                       *)
LEMMA UpdatePlaces ==
  ASSUME NEW tab, PlacedAll(tab),
         NEW l \in LinkSet, l.lcl = 0 => l.uni = None, NEW G
  PROVE  /\ PlacedAll(Update(tab, l, G))
         /\ DOMAIN Update(tab, l, G) = DOMAIN tab \cup {KeyOf(l)}
<1> DEFINE n == Inheriting(tab, l, G)
<1>1. n \in LinkSet /\ n.adv = l.adv /\ n.lcl = l.lcl /\ n.uni = l.uni
  BY DEF Inheriting, LinkSet, PlacedAll, Placed
<1>2. Placed(KeyOf(l), n)
  BY <1>1 DEF Placed, KeyOf
<1>3. Update(tab, l, G) = With(tab, KeyOf(l), n)
  BY DEF Update
<1>4. ASSUME NEW k \in DOMAIN tab \cup {KeyOf(l)}
      PROVE  Placed(k, With(tab, KeyOf(l), n)[k])
  <2> HIDE DEF n
  <2>1. CASE k = KeyOf(l)
    <3>1. With(tab, KeyOf(l), n)[KeyOf(l)] = n
      BY DEF With
    <3>2. QED
      BY <1>2, <2>1, <3>1
  <2>2. CASE k # KeyOf(l)
    <3>1. With(tab, KeyOf(l), n)[k] = tab[k]
      BY <2>2 DEF With
    <3>2. QED
      BY <2>2, <3>1 DEF PlacedAll
  <2>3. QED
    BY <2>1, <2>2
<1> HIDE DEF n
<1>5. DOMAIN With(tab, KeyOf(l), n) = DOMAIN tab \cup {KeyOf(l)}
  BY WithDef
<1>6. QED
  BY <1>3, <1>4, <1>5 DEF PlacedAll

LEMMA WithoutPlaces ==
  ASSUME NEW tab, PlacedAll(tab), NEW K
  PROVE  PlacedAll(Without(tab, K))
<1>1. ASSUME NEW k \in DOMAIN tab \ K
      PROVE  Placed(k, Without(tab, K)[k])
  <2>1. Without(tab, K)[k] = tab[k]
    BY WithoutDef
  <2>2. QED
    BY <2>1 DEF PlacedAll
<1>2. DOMAIN Without(tab, K) = DOMAIN tab \ K
  BY WithoutDef
<1>3. QED
  BY <1>1, <1>2 DEF PlacedAll

LEMMA AdvertisedPlaced ==
  ASSUME NEW a \in Ads
  PROVE  /\ Advertised(a) \in LinkSet
         /\ Advertised(a).lcl = 0 => Advertised(a).uni = None
         /\ KeyOf(Advertised(a)) = KeyOf(a) /\ Iface(Advertised(a)) = Iface(a)
  BY AdsAssumption, SubnetAssumption DEF Advertised, KeyOf, Iface

(* Two bookmarks to links of one address are one: only one router has it.   *)
LEMMA OneMarkPerAddress ==
  ASSUME NEW a \in Ads, NEW b \in Ads, a.lcl = b.lcl,
         a.lcl = 0 => a.adv = b.adv
  PROVE  Iface(a) = Iface(b)
  BY SubnetAssumption DEF Iface
-----------------------------------------------------------------------------
(* The two ends of a jump.                                                  *)
Ahead(k) == [links[k] EXCEPT !.adv = links[k].uni, !.uni = None]
Back(k, r) == [links[r] EXCEPT !.id = links[k].uni]

LEMMA JumpEnds ==
  ASSUME LinkInv, NEW k \in DOMAIN links, NEW r \in DOMAIN links, links[k].uni # None
  PROVE  /\ Ahead(k) \in LinkSet /\ Ahead(k).lcl = k[3] /\ k[3] # 0
         /\ Ahead(k).lcl = 0 => Ahead(k).uni = None
         /\ Back(k, r) \in LinkSet /\ Back(k, r).lcl = r[3]
         /\ r[3] = 0 => Back(k, r).adv = r[1]
         /\ Back(k, r).lcl = 0 => Back(k, r).uni = None
  BY DEF LinkInv, PlacedAll, Placed, LinkSet, Ahead, Back

LEMMA LinkStep ==
  ASSUME LinkInv, [Next]_vars, ~astray'
  PROVE  LinkInv'
<1> USE DEF LinkInv, operatorVars
<1>1. ASSUME NEW a \in Ads, NEW gris \in SUBSET Gri, LsaUpdate(a, gris)
      PROVE  LinkInv'
  BY <1>1, UpdatePlaces, WithoutPlaces, AdvertisedPlaced DEF LsaUpdate
<1>2. ASSUME NEW a \in Ads, LsaDelete(a)
      PROVE  LinkInv'
  BY <1>2, WithoutPlaces DEF LsaDelete
<1>3. ASSUME NEW k \in DOMAIN links, NEW g \in Gri, Hold(k, g) \/ Release(k, g)
      PROVE  LinkInv'
  <2>1. links[k] \in LinkSet
    BY DEF PlacedAll, Placed
  <2>2. PICK H \in SUBSET Gri : links' = [links EXCEPT ![k].holds = H]
    <3>1. CASE Hold(k, g)
      BY <2>1, <3>1 DEF Hold, Deltas, LinkSet
    <3>2. CASE Release(k, g)
      <4>1. links[k].holds \in SUBSET Gri
        BY <2>1, <3>2 DEF Release, Deltas, LinkSet
      <4>2. QED
        BY <3>2, <4>1 DEF Release
    <3>3. QED
      BY <1>3, <3>1, <3>2
  <2>3. Placed(k, [links[k] EXCEPT !.holds = H])
    BY <2>1 DEF PlacedAll, Placed, LinkSet
  <2>4. PlacedAll(links')
    BY <2>2, <2>3 DEF PlacedAll
  <2>5. QED
    BY <1>3, <2>4 DEF Hold, Release
<1>4. ASSUME NEW k \in DOMAIN links, NEW r \in DOMAIN links, Jump(k, r)
      PROVE  LinkInv'
  <2>1. links' = Update(Update(Without(links, {k, r}), Ahead(k), {}), Back(k, r), {})
    BY <1>4 DEF Jump, Ahead, Back
  <2>2. PlacedAll(Update(Without(links, {k, r}), Ahead(k), {}))
    BY <1>4, JumpEnds, UpdatePlaces, WithoutPlaces DEF Jump, IntoSubnet
  <2>3. links[k].uni # None
    BY <1>4 DEF Jump, IntoSubnet
  <2>4. Back(k, r) \in LinkSet /\ (Back(k, r).lcl = 0 => Back(k, r).uni = None)
    BY <2>3, JumpEnds
  <2>5. PlacedAll(links')
    BY <2>1, <2>2, <2>4, UpdatePlaces
  <2>6. QED
    BY <1>4, <2>5 DEF Jump
<1>5. ASSUME NEW s \in Sessions, NEW k \in DOMAIN links, Edit(s, k) \/ Commit(s, k)
      PROVE  LinkInv'
  <2>1. CASE Edit(s, k)
    BY <2>1 DEF Edit, PlacedAll, Placed
  <2>2. CASE Commit(s, k)
    BY <2>2 DEF Commit, SameAddresses, PlacedAll, Placed
  <2>3. QED
    BY <1>5, <2>1, <2>2
<1>6. ASSUME NEW s \in Sessions, CommitFails(s) \/ Cancel(s)
      PROVE  LinkInv'
  BY <1>6, WithoutPlaces DEF CommitFails, Cancel
<1>7. CASE UNCHANGED vars
  BY <1>7 DEF vars
<1>8. QED
  BY <1>1, <1>2, <1>3, <1>4, <1>5, <1>6, <1>7 DEF Next, Steps, JumpAstray
-----------------------------------------------------------------------------
(* A bookmark of another interface does not point to the link at a key that *)
(* has the address and, if it is missing, the router of this one.           *)
LEMMA OthersElsewhere ==
  ASSUME MarkInv, NEW a \in Ads, NEW k, k[3] = a.lcl, a.lcl = 0 => k[1] = a.adv,
         NEW i \in DOMAIN marks, i # Iface(a)
  PROVE  marks[i] # k
<1>1. Marked(links, i, marks[i])
  BY DEF MarkInv
<1>2. PICK b \in Ads : i = Iface(b)
  BY <1>1 DEF Marked
<1>3. i[2] = b.lcl /\ i[1] = b.adv
  BY <1>2 DEF Iface
<1>4. SUFFICES ASSUME marks[i] = k PROVE FALSE
  OBVIOUS
<1>5. a.lcl = b.lcl /\ (a.lcl = 0 => a.adv = b.adv)
  BY <1>1, <1>3, <1>4 DEF Marked
<1>6. QED
  BY <1>2, <1>5, OneMarkPerAddress

LEMMA LsaUpdateMarks ==
  ASSUME IInv, NEW a \in Ads, NEW gris, LsaUpdate(a, gris)
  PROVE  MarkInv'
<1> DEFINE l == Advertised(a)
           left == Without(links, Superseded(l))
<1>1. l \in LinkSet /\ (l.lcl = 0 => l.uni = None) /\ Iface(l) = Iface(a) /\ KeyOf(l) = KeyOf(a)
  BY AdvertisedPlaced
<1>2. links' = Update(left, l, gris)
  BY DEF LsaUpdate
<1>3. PlacedAll(left)
  BY WithoutPlaces DEF IInv, LinkInv
<1>4. DOMAIN left = DOMAIN links \ Superseded(l)
  BY WithoutDef
<1>5. DOMAIN links' = (DOMAIN links \ Superseded(l)) \cup {KeyOf(a)}
  <2> HIDE DEF l, left
  <2>1. QED
    BY <1>1, <1>2, <1>3, <1>4, UpdatePlaces
<1> HIDE DEF left
<1>6. Marked(links', Iface(a), KeyOf(a))
  BY <1>5 DEF Marked, KeyOf, Iface
<1>7. ASSUME NEW i \in DOMAIN marks, i # Iface(a)
      PROVE  Marked(links', i, marks[i])
  <2>1. Marked(links, i, marks[i])
    BY <1>7 DEF IInv, MarkInv
  <2>2. marks[i] \notin Superseded(l)
    <3>1. CASE IsIncomplete(l) \/ Iface(l) \notin DOMAIN marks
      BY <3>1 DEF Superseded
    <3>2. CASE ~IsIncomplete(l) /\ Iface(l) \in DOMAIN marks
      <4> DEFINE m == marks[Iface(a)]
                 k == KeyOf(links[m])
      <4>1. Superseded(l) = {k}
        BY <1>1, <3>2 DEF Superseded
      <4>2. Marked(links, Iface(a), m)
        BY <1>1, <3>2 DEF IInv, MarkInv
      <4>3. Placed(m, links[m])
        BY <4>2 DEF IInv, LinkInv, PlacedAll, Marked
      <4>4. k[3] = a.lcl /\ (a.lcl = 0 => k[1] = a.adv)
        BY <4>2, <4>3 DEF Marked, Placed, KeyOf, Iface
      <4> HIDE DEF k
      <4>5. marks[i] # k
        BY <1>7, <4>4, OthersElsewhere DEF IInv
      <4>6. QED
        BY <4>1, <4>5
    <3>3. QED
      BY <3>1, <3>2
  <2>3. QED
    BY <1>5, <2>1, <2>2 DEF Marked
<1>8. CASE IsIncomplete(l)
  <2>1. marks' = With(marks, Iface(a), KeyOf(a))
    BY <1>1, <1>8 DEF LsaUpdate
  <2>2. QED
    BY <1>6, <1>7, <2>1 DEF MarkInv, With
<1>9. CASE ~IsIncomplete(l)
  <2>1. marks' = Without(marks, {Iface(a)})
    BY <1>1, <1>9 DEF LsaUpdate
  <2>2. QED
    BY <1>7, <2>1 DEF MarkInv, Without
<1>10. QED
  BY <1>8, <1>9

LEMMA LsaDeleteMarks ==
  ASSUME IInv, NEW a \in Ads, LsaDelete(a)
  PROVE  MarkInv'
<1>1. links' = Without(links, {KeyOf(a)}) /\ marks' = Without(marks, {Iface(a)})
  BY DEF LsaDelete
<1>2. ASSUME NEW i \in DOMAIN marks, i # Iface(a)
      PROVE  Marked(links', i, marks[i])
  <2>1. KeyOf(a)[3] = a.lcl /\ KeyOf(a)[1] = a.adv
    BY DEF KeyOf
  <2>2. marks[i] # KeyOf(a)
    BY <1>2, <2>1, OthersElsewhere DEF IInv
  <2>3. Marked(links, i, marks[i])
    BY <1>2 DEF IInv, MarkInv
  <2>4. QED
    BY <1>1, <2>2, <2>3 DEF Marked, Without
<1>3. QED
  BY <1>1, <1>2 DEF MarkInv, Without

(* The bookmarks of the two links that jump follow them.                    *)
LEMMA JumpMarks ==
  ASSUME IInv, NEW k \in DOMAIN links, NEW r \in DOMAIN links, Jump(k, r)
  PROVE  MarkInv'
<1> DEFINE A == KeyOf(Ahead(k))
           B == KeyOf(Back(k, r))
<1>1. links[k].uni # None /\ LinkInv
  BY DEF Jump, IntoSubnet, IInv
<1>2. DOMAIN links' = (DOMAIN links \ {k, r}) \cup {A, B}
  <2>1. links' = Update(Update(Without(links, {k, r}), Ahead(k), {}), Back(k, r), {})
    BY DEF Jump, Ahead, Back
  <2>2. PlacedAll(Without(links, {k, r})) /\ DOMAIN Without(links, {k, r}) = DOMAIN links \ {k, r}
    BY <1>1, WithoutPlaces, WithoutDef DEF LinkInv
  <2>3. Ahead(k) \in LinkSet /\ (Ahead(k).lcl = 0 => Ahead(k).uni = None)
    BY <1>1, JumpEnds
  <2>4. Back(k, r) \in LinkSet /\ (Back(k, r).lcl = 0 => Back(k, r).uni = None)
    BY <1>1, JumpEnds
  <2>5. PlacedAll(Update(Without(links, {k, r}), Ahead(k), {}))
    BY <2>2, <2>3, UpdatePlaces
  <2>6. DOMAIN Update(Without(links, {k, r}), Ahead(k), {}) = (DOMAIN links \ {k, r}) \cup {A}
    BY <2>2, <2>3, UpdatePlaces
  <2>7. DOMAIN links' = DOMAIN Update(Without(links, {k, r}), Ahead(k), {}) \cup {B}
    BY <2>1, <2>4, <2>5, UpdatePlaces
  <2>8. QED
    BY <2>6, <2>7
<1>3. A[3] = k[3] /\ k[3] # 0 /\ B[3] = r[3] /\ (r[3] = 0 => B[1] = r[1])
  BY <1>1, JumpEnds DEF KeyOf
<1>4. marks' = [i \in DOMAIN marks |-> CASE marks[i] = k -> A
                                        [] marks[i] = r -> B
                                        [] OTHER -> marks[i]]
  BY DEF Jump, Ahead, Back
<1> HIDE DEF A, B
<1>5. k # r
  BY DEF Jump, IntoSubnet
<1>6. ASSUME NEW i \in DOMAIN marks
      PROVE  Marked(links', i, marks'[i])
  <2>1. Marked(links, i, marks[i])
    BY DEF IInv, MarkInv
  <2>2. CASE marks[i] = k
    BY <1>2, <1>3, <1>4, <1>5, <2>1, <2>2 DEF Marked
  <2>3. CASE marks[i] = r
    BY <1>2, <1>3, <1>4, <1>5, <2>1, <2>3 DEF Marked
  <2>4. CASE marks[i] # k /\ marks[i] # r
    BY <1>2, <1>4, <2>1, <2>4 DEF Marked
  <2>5. QED
    BY <2>2, <2>3, <2>4
<1>7. QED
  BY <1>4, <1>6 DEF MarkInv

LEMMA MarkStep ==
  ASSUME IInv, [Next]_vars, ~astray'
  PROVE  MarkInv'
<1>1. ASSUME NEW k \in DOMAIN links, NEW g \in Gri, Hold(k, g) \/ Release(k, g)
      PROVE  MarkInv'
  BY <1>1 DEF IInv, MarkInv, Marked, Hold, Release
<1>2. ASSUME NEW s \in Sessions, NEW k \in DOMAIN links, Edit(s, k) \/ Commit(s, k)
      PROVE  MarkInv'
  BY <1>2 DEF IInv, MarkInv, Marked, Edit, Commit
<1>3. ASSUME NEW s \in Sessions, CommitFails(s) \/ Cancel(s)
      PROVE  MarkInv'
  BY <1>3 DEF IInv, MarkInv, Marked, CommitFails, Cancel, Without
<1>4. CASE UNCHANGED vars
  BY <1>4 DEF IInv, MarkInv, Marked, vars
<1>5. QED
  BY <1>1, <1>2, <1>3, <1>4, LsaUpdateMarks, LsaDeleteMarks, JumpMarks DEF Next, Steps, JumpAstray

-----------------------------------------------------------------------------
(* What a bookmark points to, which the handler of a complete LSA deletes   *)
(* (LSAHandler::Run, rce_lsa.cc), is a link in the database on the address  *)
(* of the interface, for any LSAs and any number of holds and operators,    *)
(* until a path computation moves a link that a commit has put under an     *)
(* index not its own.                                                       *)
THEOREM BookmarksSafe == Spec => [](astray \/ BookmarksAreLinks)
<1>1. Init => IInv
  BY DEF Init, Empty, IInv, LinkInv, MarkInv, PlacedAll
<1>2. (astray \/ IInv) /\ [Next]_vars => (astray \/ IInv)'
  <2>1. ASSUME astray, [Next]_vars
        PROVE  astray'
    BY <2>1 DEF Next, vars
  <2>2. QED
    BY <2>1, LinkStep, MarkStep DEF IInv
<1>3. IInv => BookmarksAreLinks
  BY DEF IInv, MarkInv, Marked, BookmarksAreLinks
<1>4. QED
  BY <1>1, <1>2, <1>3, PTL DEF Spec

-----------------------------------------------------------------------------
(* Without operators every link is under its index: LSAs, holds and jumps   *)
(* put a link where it says it is, and no jump goes astray.                 *)
InPlace(tab) == \A k \in DOMAIN tab : tab[k] \in LinkSet /\ KeyOf(tab[k]) = k

ChartInv == InPlace(links) /\ editing = {} /\ ~astray

LEMMA WithoutInPlace ==
  ASSUME NEW tab, InPlace(tab), NEW K
  PROVE  InPlace(Without(tab, K))
  BY DEF InPlace, Without

LEMMA UpdateInPlace ==
  ASSUME NEW tab, InPlace(tab), NEW l \in LinkSet, NEW G
  PROVE  InPlace(Update(tab, l, G))
<1> DEFINE n == Inheriting(tab, l, G)
<1>1. n \in LinkSet /\ KeyOf(n) = KeyOf(l)
  BY DEF Inheriting, LinkSet, InPlace, KeyOf
<1>2. Update(tab, l, G) = With(tab, KeyOf(l), n)
  BY DEF Update
<1> HIDE DEF n
<1>3. QED
  BY <1>1, <1>2 DEF InPlace, With

LEMMA ChartStep ==
  ASSUME Sessions = {}, ChartInv, [Next]_vars
  PROVE  ChartInv'
<1> USE DEF ChartInv, operatorVars
<1>1. ASSUME NEW a \in Ads, NEW gris \in SUBSET Gri, LsaUpdate(a, gris)
      PROVE  ChartInv'
  BY <1>1, UpdateInPlace, WithoutInPlace, AdvertisedPlaced DEF LsaUpdate
<1>2. ASSUME NEW a \in Ads, LsaDelete(a)
      PROVE  ChartInv'
  BY <1>2, WithoutInPlace DEF LsaDelete
<1>3. ASSUME NEW k \in DOMAIN links, NEW g \in Gri, Hold(k, g) \/ Release(k, g)
      PROVE  ChartInv'
  <2>1. links[k] \in LinkSet /\ KeyOf(links[k]) = k
    BY DEF InPlace
  <2>2. PICK H \in SUBSET Gri : links' = [links EXCEPT ![k].holds = H]
    <3>1. CASE Hold(k, g)
      BY <2>1, <3>1 DEF Hold, Deltas, LinkSet
    <3>2. CASE Release(k, g)
      <4>1. links[k].holds \in SUBSET Gri
        BY <2>1, <3>2 DEF Release, Deltas, LinkSet
      <4>2. QED
        BY <3>2, <4>1 DEF Release
    <3>3. QED
      BY <1>3, <3>1, <3>2
  <2>3. [links[k] EXCEPT !.holds = H] \in LinkSet /\ KeyOf([links[k] EXCEPT !.holds = H]) = k
    BY <2>1 DEF LinkSet, KeyOf
  <2>4. InPlace(links')
    BY <2>2, <2>3 DEF InPlace
  <2>5. QED
    BY <1>3, <2>4 DEF Hold, Release
<1>4. ASSUME NEW k \in DOMAIN links, NEW r \in DOMAIN links, Jump(k, r)
      PROVE  ChartInv'
  <2>1. links' = Update(Update(Without(links, {k, r}), Ahead(k), {}), Back(k, r), {})
    BY <1>4 DEF Jump, Ahead, Back
  <2>2. links[k] \in LinkSet /\ links[r] \in LinkSet /\ links[k].uni # None
    BY <1>4 DEF Jump, IntoSubnet, InPlace
  <2>3. Ahead(k) \in LinkSet /\ Back(k, r) \in LinkSet
    BY <2>2 DEF Ahead, Back, LinkSet
  <2>4. InPlace(Update(Without(links, {k, r}), Ahead(k), {}))
    BY <2>3, UpdateInPlace, WithoutInPlace
  <2>5. InPlace(links')
    BY <2>1, <2>3, <2>4, UpdateInPlace
  <2>6. QED
    BY <1>4, <2>5 DEF Jump
<1>5. ASSUME NEW k \in DOMAIN links, NEW r \in DOMAIN links, JumpAstray(k, r)
      PROVE  FALSE
  BY <1>5 DEF JumpAstray, IntoSubnet, UnderIndex, InPlace
<1>6. CASE UNCHANGED vars
  BY <1>6 DEF vars
<1>7. QED
  BY <1>1, <1>2, <1>3, <1>4, <1>5, <1>6 DEF Next, Steps

(* As long as no operator edits a link no path computation moves a link that*)
(* is not under its index (PCEN_MRN::PostBuildTopology), and every bookmark *)
(* is of a link in the table.                                               *)
THEOREM NeverAstray == Sessions = {} => (Spec => [](~astray /\ BookmarksAreLinks))
<1> SUFFICES ASSUME Sessions = {}
             PROVE  Spec => [](~astray /\ BookmarksAreLinks)
  OBVIOUS
<1>1. Init => ChartInv
  BY DEF Init, Empty, ChartInv, InPlace
<1>2. ChartInv /\ [Next]_vars => ChartInv'
  BY ChartStep
<1>3. ChartInv => ~astray
  BY DEF ChartInv
<1>4. QED
  BY <1>1, <1>2, <1>3, BookmarksSafe, PTL DEF Spec
=============================================================================

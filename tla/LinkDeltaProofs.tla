--------------------------- MODULE LinkDeltaProofs ---------------------------
(***************************************************************************)
(* Theorems about the delta list of a TE link, for every set of GRIs and   *)
(* tags, every bandwidth and every expiration.                             *)
(***************************************************************************)
EXTENDS LinkDelta, TLAPS, FiniteSetTheorems

-----------------------------------------------------------------------------
(* Bandwidth sums and the TE state.                                        *)

LEMMA UnitsFinite ==
  ASSUME NEW D, IsFiniteSet(D), \A d \in D : d.bw \in Nat
  PROVE  IsFiniteSet(Units(D))
<1> DEFINE f == [d \in D |-> {d} \X (1 .. d.bw)]
           T == {{d} \X (1 .. d.bw) : d \in D}
<1>1. f \in Surjection(D, T)
  BY DEF Surjection
<1>2. IsFiniteSet(T)
  BY <1>1, FS_Surjection
<1>3. ASSUME NEW t \in T PROVE IsFiniteSet(t)
  <2>1. PICK d \in D : t = {d} \X (1 .. d.bw)
    OBVIOUS
  <2>2. 1 \in Int /\ d.bw \in Int
    OBVIOUS
  <2>3. IsFiniteSet({d})
    BY FS_Singleton
  <2>4. IsFiniteSet(1 .. d.bw)
    BY <2>2, FS_Interval
  <2> QED BY <2>1, <2>3, <2>4, FS_Product
<1>4. Units(D) = UNION T
  BY DEF Units
<1> QED BY <1>2, <1>3, <1>4, FS_UNION

LEMMA SumBwNat ==
  ASSUME NEW D, IsFiniteSet(D), \A d \in D : d.bw \in Nat
  PROVE  SumBw(D) \in Nat
BY UnitsFinite, FS_CardinalityType DEF SumBw

LEMMA PlusType ==
  ASSUME NEW s \in TeState, NEW D, SumBw(D) \in Nat, TagsOf(D) \subseteq Tags
  PROVE  Plus(s, D) \in TeState
BY LinkAssumption DEF Plus, TeState, LinkAssumption

LEMMA MinusType ==
  ASSUME NEW s \in TeState, NEW D, SumBw(D) \in Nat, TagsOf(D) \subseteq Tags
  PROVE  Minus(s, D) \in TeState
BY LinkAssumption DEF Minus, TeState, LinkAssumption

LEMMA DeltasType ==
  ASSUME NEW D, D \subseteq Delta, IsFiniteSet(D)
  PROVE  SumBw(D) \in Nat /\ TagsOf(D) \subseteq Tags
<1>1. \A d \in D : d.bw \in Nat /\ d.tags \subseteq Tags
  BY DEF Delta
<1>2. SumBw(D) \in Nat
  BY <1>1, SumBwNat
<1>3. TagsOf(D) \subseteq Tags
  BY <1>1 DEF TagsOf
<1> QED BY <1>2, <1>3

LEMMA SubsetDeltas ==
  ASSUME NEW D, D \subseteq Delta, IsFiniteSet(D), NEW E \in SUBSET D
  PROVE  E \subseteq Delta /\ IsFiniteSet(E)
BY FS_Subset

LEMMA PlusDeltas ==
  ASSUME NEW s \in TeState, NEW D, D \subseteq Delta, IsFiniteSet(D)
  PROVE  Plus(s, D) \in TeState
BY PlusType, DeltasType

LEMMA MinusDeltas ==
  ASSUME NEW s \in TeState, NEW D, D \subseteq Delta, IsFiniteSet(D)
  PROVE  Minus(s, D) \in TeState
BY MinusType, DeltasType

LEMMA ReducedType ==
  ASSUME NEW s \in TeState, NEW d \in Delta
  PROVE  Reduced(s, d) \in TeState
<1>1. IsFiniteSet({d}) /\ {d} \subseteq Delta
  BY FS_Singleton
<1> QED BY <1>1, MinusDeltas DEF Reduced

LEMMA PeriodsNat == Periods \subseteq Nat
BY LinkAssumption DEF LinkAssumption, Periods

LEMMA NewDeltaType ==
  ASSUME NEW D, NEW g \in Gri, NEW req, req.bw \in Nat, req.tags \subseteq Tags,
         NEW flag \in Flags, NEW period \in Periods,
         Next1(D, g) \in 1 .. MaxDeltas
  PROVE  NewDelta(D, g, req, flag, period) \in Delta
BY PeriodsNat DEF NewDelta, Delta

LEMMA InsertType ==
  ASSUME NEW D, D \subseteq Delta, IsFiniteSet(D), NEW d \in Delta
  PROVE  D \cup {d} \subseteq Delta /\ IsFiniteSet(D \cup {d})
BY FS_AddElement

-----------------------------------------------------------------------------
(* Type correctness.  The sums need the sets to be finite.                 *)

TInv == TypeOK /\ IsFiniteSet(deltas) /\ IsFiniteSet(net)

LEMMA RequestType ==
  ASSUME NEW req \in Request
  PROVE  req.bw \in Nat /\ req.tags \subseteq Tags
BY LinkAssumption DEF Request, LinkAssumption

LEMMA FirstSub == \A D, g : First(D, g) \subseteq D
BY DEF First, Of

LEMMA SweptType ==
  ASSUME TInv, NEW g
  PROVE  /\ Swept(g) \subseteq Delta /\ IsFiniteSet(Swept(g))
         /\ SweptTe(g) \in TeState
<1> DEFINE F == First(deltas, g)
           D == deltas \ F
<1>1. deltas \subseteq Delta /\ IsFiniteSet(deltas) /\ te \in TeState
  BY DEF TInv, TypeOK
<1>2. F \in SUBSET deltas /\ Swept(g) \in SUBSET deltas /\ AddedBack(D) \in SUBSET deltas
  BY FirstSub DEF Swept, AddedBack, Expired
<1>3. Swept(g) \subseteq Delta /\ IsFiniteSet(Swept(g))
  BY <1>1, <1>2, SubsetDeltas
<1>4. Plus(te, F) \in TeState
  BY <1>1, <1>2, SubsetDeltas, PlusDeltas
<1>5. AddedBack(D) \subseteq Delta /\ IsFiniteSet(AddedBack(D))
  BY <1>1, <1>2, SubsetDeltas
<1>6. Plus(Plus(te, F), AddedBack(D)) \in TeState
  BY <1>4, <1>5, PlusDeltas
<1> QED BY <1>3, <1>6 DEF SweptTe

LEMMA ReplaceType ==
  ASSUME TInv, NEW g \in Gri, NEW req, req.bw \in Nat, req.tags \subseteq Tags,
         NEW flag \in Flags, NEW period \in Periods,
         Replace(g, req, flag, period)
  PROVE  deltas' \subseteq Delta /\ IsFiniteSet(deltas') /\ te' \in TeState
<1> DEFINE F == First(deltas, g)
           D == deltas \ F
           d == NewDelta(D, g, req, flag, period)
<1>1. deltas \subseteq Delta /\ IsFiniteSet(deltas) /\ te \in TeState
  BY DEF TInv, TypeOK
<1>2. F \in SUBSET deltas /\ D \in SUBSET deltas
  BY FirstSub
<1>3. D \subseteq Delta /\ IsFiniteSet(D) /\ F \subseteq Delta /\ IsFiniteSet(F)
  BY <1>1, <1>2, SubsetDeltas
<1>4. /\ d.n \in 1 .. MaxDeltas
      /\ deltas' = D \cup {d}
      /\ te' = Reduced(Plus(te, F), d)
  BY DEF Replace
<1>5. d \in Delta
  <2>1. d.n = Next1(D, g)
    BY DEF NewDelta
  <2> QED BY <1>4, <2>1, NewDeltaType
<1>6. deltas' \subseteq Delta /\ IsFiniteSet(deltas')
  BY <1>3, <1>4, <1>5, InsertType
<1>7. Plus(te, F) \in TeState
  BY <1>1, <1>3, PlusDeltas
<1>8. te' \in TeState
  BY <1>4, <1>5, <1>7, ReducedType
<1> QED BY <1>6, <1>8

LEMMA PeriodMembers ==
  /\ QueryExpire \in Periods /\ ReserveExpire \in Periods
  /\ \A h \in Holdings : h \in Periods
BY DEF Periods

LEMMA GrantedType ==
  ASSUME NEW req \in Request, NEW s \in TeState
  PROVE  Granted(req, s) \in Grant
BY RequestType DEF Granted, Grant, TeState

(* What is left to show of an action that only changes deltas and te: the  *)
(* lemma turns the facts about those two into the invariant.               *)
LEMMA TInvDeltas ==
  ASSUME TInv, deltas' \subseteq Delta, IsFiniteSet(deltas'), te' \in TeState,
         up' \in BOOLEAN, gris' \subseteq Gri, lsa' \in Lsa,
         status' \in [Gri -> Status], grant' \in [Gri -> Grant], UNCHANGED net
  PROVE  TInv'
BY DEF TInv, TypeOK

LEMMA StatusType ==
  ASSUME status \in [Gri -> Status], NEW g \in Gri, NEW st \in Status
  PROVE  [status EXCEPT ![g] = st] \in [Gri -> Status]
OBVIOUS

LEMMA TypeInit == Init => TInv
<1> SUFFICES ASSUME Init PROVE TInv
  OBVIOUS
<1>1. IsFiniteSet({})
  BY FS_EmptySet
<1>2. te \in TeState
  BY LinkAssumption DEF Init, TeState, LinkAssumption
<1>3. lsa \in Lsa
  BY LinkAssumption DEF Init, Lsa, NoLsa, LinkAssumption
<1>4. status \in [Gri -> Status] /\ grant \in [Gri -> Grant]
  BY DEF Init, Status, Grant
<1> QED BY <1>1, <1>2, <1>3, <1>4 DEF Init, TInv, TypeOK

LEMMA TypeStep == TInv /\ [Next]_vars => TInv'
<1> SUFFICES ASSUME TInv, [Next]_vars PROVE TInv'
  OBVIOUS
<1>0. /\ up \in BOOLEAN /\ te \in TeState /\ deltas \subseteq Delta /\ gris \subseteq Gri
      /\ lsa \in Lsa /\ status \in [Gri -> Status] /\ grant \in [Gri -> Grant]
      /\ net \subseteq Lsp /\ IsFiniteSet(deltas) /\ IsFiniteSet(net)
  BY DEF TInv, TypeOK
<1>1. ASSUME NEW g \in Gri, NEW req \in Request, QueryHold(g, req) PROVE TInv'
  <2> DEFINE d == NewDelta(Swept(g), g, req, "QUERIED", QueryExpire)
  <2>1. Swept(g) \subseteq Delta /\ IsFiniteSet(Swept(g)) /\ SweptTe(g) \in TeState
    BY SweptType
  <2>2. d \in Delta
    BY <1>1, RequestType, PeriodMembers, NewDeltaType DEF QueryHold, Flags
  <2>3. deltas' \subseteq Delta /\ IsFiniteSet(deltas')
    BY <1>1, <2>1, <2>2, InsertType DEF QueryHold
  <2>4. te' \in TeState
    BY <1>1, <2>1, <2>2, ReducedType DEF QueryHold
  <2>5. grant' \in [Gri -> Grant]
    BY <1>0, <1>1, <2>1, GrantedType DEF QueryHold
  <2>6. status' \in [Gri -> Status]
    BY <1>0, <1>1 DEF QueryHold, Status
  <2> QED BY <1>0, <1>1, <2>3, <2>4, <2>5, <2>6, TInvDeltas DEF QueryHold
<1>2. ASSUME NEW g \in Gri, QueryNoHold(g) PROVE TInv'
  <2>1. Swept(g) \subseteq Delta /\ IsFiniteSet(Swept(g)) /\ SweptTe(g) \in TeState
    BY SweptType
  <2>2. status' \in [Gri -> Status]
    BY <1>0, <1>2 DEF QueryNoHold, Status
  <2> QED BY <1>0, <1>2, <2>1, <2>2, TInvDeltas DEF QueryNoHold
<1>3. ASSUME NEW g \in Gri, NEW req \in Request, QueryShadow(g, req) PROVE TInv'
  <2> DEFINE d == NewDelta(deltas, g, req, "QUERIED", QueryExpire)
  <2>1. d \in Delta
    BY <1>3, RequestType, PeriodMembers, NewDeltaType DEF QueryShadow, Flags
  <2>2. deltas' \subseteq Delta /\ IsFiniteSet(deltas')
    BY <1>0, <1>3, <2>1, InsertType DEF QueryShadow
  <2>3. te' \in TeState
    BY <1>0, <1>3, <2>1, ReducedType DEF QueryShadow
  <2>4. grant' \in [Gri -> Grant]
    BY <1>0, <1>3, GrantedType DEF QueryShadow
  <2>5. status' \in [Gri -> Status]
    BY <1>0, <1>3 DEF QueryShadow, Status
  <2> QED BY <1>0, <1>3, <2>2, <2>3, <2>4, <2>5, TInvDeltas DEF QueryShadow
<1>4. ASSUME NEW g \in Gri, NEW h \in Holdings, Confirm(g, h) PROVE TInv'
  <2> DEFINE period == IF h = 0 THEN ReserveExpire ELSE h
  <2>1. period \in Periods
    BY PeriodMembers
  <2>2. grant[g].bw \in Nat /\ grant[g].tags \subseteq Tags
    BY <1>0 DEF Grant
  <2>3. CASE period = 0
    <3>1. deltas' \in SUBSET deltas /\ te' = te
      BY <1>4, <2>3, FirstSub DEF Confirm
    <3>2. deltas' \subseteq Delta /\ IsFiniteSet(deltas') /\ te' \in TeState
      BY <1>0, <3>1, SubsetDeltas
    <3>3. status' \in [Gri -> Status]
      BY <1>0, <1>4 DEF Confirm, Status
    <3> QED BY <1>0, <1>4, <3>2, <3>3, TInvDeltas DEF Confirm
  <2>4. CASE period # 0
    <3>1. Replace(g, grant[g], "RESERVED", period)
      BY <1>4, <2>4 DEF Confirm
    <3>2. deltas' \subseteq Delta /\ IsFiniteSet(deltas') /\ te' \in TeState
      BY <2>1, <2>2, <3>1, ReplaceType DEF Flags
    <3>3. status' \in [Gri -> Status]
      BY <1>0, <1>4 DEF Confirm, Status
    <3> QED BY <1>0, <1>4, <3>2, <3>3, TInvDeltas DEF Confirm
  <2> QED BY <2>3, <2>4
<1>5. ASSUME NEW g \in Gri, NEW tags \in {{t} : t \in Tags}, Update(g, tags) PROVE TInv'
  <2> DEFINE req == [grant[g] EXCEPT !.tags = tags]
  <2>1. req \in Grant
    BY <1>0 DEF Grant
  <2>2. req.bw \in Nat /\ req.tags \subseteq Tags
    BY <2>1 DEF Grant
  <2>3. Replace(g, req, "UPDATED", QueryExpire) /\ grant' = [grant EXCEPT ![g] = req]
    BY <1>5 DEF Update
  <2>4. deltas' \subseteq Delta /\ IsFiniteSet(deltas') /\ te' \in TeState
    BY <2>2, <2>3, PeriodMembers, ReplaceType DEF Flags
  <2>5. grant' \in [Gri -> Grant]
    BY <1>0, <2>1, <2>3
  <2> QED BY <1>0, <1>5, <2>4, <2>5, TInvDeltas DEF Update
<1>6. ASSUME NEW g \in Gri, Delete(g) PROVE TInv'
  <2> DEFINE F == First(deltas, g)
  <2>1. F \in SUBSET deltas /\ deltas \ F \in SUBSET deltas
    BY FirstSub
  <2>2. /\ deltas \ F \subseteq Delta /\ IsFiniteSet(deltas \ F)
        /\ F \subseteq Delta /\ IsFiniteSet(F)
    BY <1>0, <2>1, SubsetDeltas
  <2>3. Plus(te, F) \in TeState
    BY <1>0, <2>2, PlusDeltas
  <2>4. status' \in [Gri -> Status]
    BY <1>0, <1>6 DEF Delete, Status
  <2> QED BY <1>0, <1>6, <2>2, <2>3, <2>4, TInvDeltas DEF Delete
<1>7. ASSUME NEW g \in Gri, Vanish(g) PROVE TInv'
  <2>1. status' \in [Gri -> Status]
    BY <1>0, <1>7 DEF Vanish, Status
  <2> QED BY <1>0, <1>7, <2>1 DEF Vanish, TInv, TypeOK
<1>8. CASE CliDeleteDeltas
  BY <1>0, <1>8, FS_EmptySet DEF CliDeleteDeltas, TInv, TypeOK
<1>9. ASSUME NEW g \in Gri, SetUp(g) PROVE TInv'
  <2> DEFINE l == [owner |-> g, bw |-> grant[g].bw, tags |-> grant[g].tags]
  <2>1. l \in Lsp
    BY <1>0 DEF Lsp, Grant
  <2>2. net' = net \cup {l}
    BY <1>9 DEF SetUp
  <2>3. net' \subseteq Lsp /\ IsFiniteSet(net')
    BY <1>0, <2>1, <2>2, FS_AddElement
  <2>4. status' \in [Gri -> Status]
    BY <1>0, <1>9 DEF SetUp, Status
  <2> QED BY <1>0, <1>9, <2>3, <2>4 DEF SetUp, TInv, TypeOK
<1>10. ASSUME NEW g \in Gri, TearDown(g) PROVE TInv'
  <2>1. net' \in SUBSET net
    BY <1>10 DEF TearDown
  <2>2. net' \subseteq Lsp /\ IsFiniteSet(net')
    BY <1>0, <2>1, FS_Subset
  <2> QED BY <1>0, <1>10, <2>2 DEF TearDown, TInv, TypeOK
<1>11. CASE Originate
  <2>1. \A l \in net : l.bw \in Nat /\ l.tags \subseteq Tags /\ l.owner \in Gri
    BY <1>0 DEF Lsp
  <2>2. SumBw(net) \in Nat
    BY <1>0, <2>1, SumBwNat
  <2>3. TagsOf(net) \subseteq Tags
    BY <2>1 DEF TagsOf
  <2>4. lsa' \in Lsa
    BY <1>11, <2>1, <2>2, <2>3, LinkAssumption DEF Originate, Lsa, LinkAssumption
  <2> QED BY <1>0, <1>11, <2>4 DEF Originate, TInv, TypeOK
<1>12. CASE Deliver
  <2>1. Kept(deltas, lsa.gris) \in SUBSET deltas
    BY DEF Kept
  <2>2. Kept(deltas, lsa.gris) \subseteq Delta /\ IsFiniteSet(Kept(deltas, lsa.gris))
    BY <1>0, <2>1, SubsetDeltas
  <2>3. Fresh(lsa) \in TeState
    BY <1>0 DEF Fresh, Lsa, TeState
  <2>4. te' \in TeState
    BY <1>12, <2>2, <2>3, MinusDeltas DEF Deliver, Relinked
  <2>5. lsa' \in Lsa /\ gris' \subseteq Gri
    BY <1>0, <1>12, LinkAssumption DEF Deliver, Lsa, NoLsa, LinkAssumption
  <2> QED BY <1>0, <1>12, <2>2, <2>4, <2>5, TInvDeltas DEF Deliver
<1>13. CASE Withdraw
  <2>1. te' \in TeState
    BY <1>13, LinkAssumption DEF Withdraw, TeState, LinkAssumption
  <2> QED BY <1>0, <1>13, <2>1, FS_EmptySet DEF Withdraw, TInv, TypeOK
<1>14. CASE Tick
  <2> DEFINE aged(d) == [d EXCEPT !.ttl = IF @ > 0 THEN @ - 1 ELSE 0]
             f == [d \in deltas |-> aged(d)]
  <2>1. deltas' = {aged(d) : d \in deltas}
    BY <1>14 DEF Tick
  <2>2. f \in Surjection(deltas, deltas')
    BY <2>1 DEF Surjection
  <2>3. IsFiniteSet(deltas')
    BY <1>0, <2>2, FS_Surjection
  <2>4. \A d \in deltas : aged(d) \in Delta
    BY <1>0 DEF Delta
  <2>5. deltas' \subseteq Delta
    BY <2>1, <2>4
  <2> QED BY <1>0, <1>14, <2>3, <2>5, TInvDeltas DEF Tick
<1>15. CASE UNCHANGED vars
  BY <1>15 DEF vars, TInv, TypeOK
<1> QED
  BY <1>1, <1>2, <1>3, <1>4, <1>5, <1>6, <1>7, <1>8, <1>9, <1>10, <1>11, <1>12,
     <1>13, <1>14, <1>15 DEF Next

(* Whatever the disturbances, the link's state keeps its type: the clamps  *)
(* of Link::operator+= and -= keep the bandwidth within the link's.        *)
THEOREM TypeCorrect == Spec => []TypeOK
<1>1. TInv => TypeOK
  BY DEF TInv
<1> QED BY <1>1, TypeInit, TypeStep, PTL DEF Spec

-----------------------------------------------------------------------------
(* Reservations.  If clients confirm in time, do not query a GRI that has  *)
(* been signalled, and pick free tags, then no tag is promised twice.      *)

Disciplined == Faults \cap {"late", "reuse", "retag", "shadow"} = {}

Signalled == {"signalled", "done", "gone"}

(* HeldTagsNotOffered and NoContention need each other: a delta that goes  *)
(* puts its tags back, and these must not be another delta's.  That an     *)
(* insertion does take its tags off the link needs the owner to be absent  *)
(* from the LSA in force, and the tags confirmed are those of the hold.    *)
RInv ==
  /\ OneDeltaPerOwner
  /\ HeldTagsNotOffered
  /\ NoContention
  /\ \A d \in deltas : d.tags = grant[d.owner].tags
  /\ \A g \in gris \cup lsa.gris : status[g] \in Signalled
  /\ \A l \in net : status[l.owner] \in Signalled

LEMMA FirstIsOf ==
  ASSUME TInv, OneDeltaPerOwner, NEW g
  PROVE  First(deltas, g) = Of(deltas, g)
<1>1. \A d \in deltas : d.n \in Nat
  BY DEF TInv, TypeOK, Delta
<1>2. \A d, e \in Of(deltas, g) : d = e
  BY DEF OneDeltaPerOwner, Of
<1>3. \A d \in Of(deltas, g) : d.n \in Nat
  BY <1>1 DEF Of
<1>4. \A d, e \in Of(deltas, g) : d.n <= e.n
  BY <1>2, <1>3
<1> QED BY <1>4 DEF First

(* What is left when g's delta, and others, have been put back.            *)
LEMMA PutBack ==
  ASSUME TInv, RInv, NEW g, NEW A, A \subseteq deltas \ Of(deltas, g)
  PROVE  LET E == (deltas \ Of(deltas, g)) \ A
             V == te.vlan \cup TagsOf(Of(deltas, g)) \cup TagsOf(A)
         IN  TagsOf(E) \cap V = {}
<1> DEFINE E == (deltas \ Of(deltas, g)) \ A
           V == te.vlan \cup TagsOf(Of(deltas, g)) \cup TagsOf(A)
<1> SUFFICES ASSUME NEW e \in E, NEW t \in e.tags, t \in V PROVE FALSE
  BY DEF TagsOf
<1>1. e \in deltas /\ e.owner # g
  BY DEF Of
<1>2. t \notin te.vlan
  BY <1>1 DEF RInv, HeldTagsNotOffered, TagsOf
<1>3. t \notin TagsOf(Of(deltas, g))
  BY <1>1 DEF RInv, NoContention, TagsOf, Of
<1>4. \A a \in A : a \in deltas /\ a # e
  OBVIOUS
<1>5. \A a \in A : a.owner # e.owner
  BY <1>1, <1>4 DEF RInv, OneDeltaPerOwner
<1>6. t \notin TagsOf(A)
  BY <1>1, <1>4, <1>5 DEF RInv, NoContention, TagsOf
<1> QED BY <1>2, <1>3, <1>6

(* Inserting a delta of g, with free tags, into what is left.              *)
LEMMA Inserted ==
  ASSUME NEW D, NEW d, NEW s, TagsOf(D) \cap s.vlan = {},
         d.tags \subseteq s.vlan, d.owner \notin gris,
         \A e \in D : e.owner # d.owner,
         \A e, f \in D : e.owner = f.owner => e = f,
         \A e, f \in D : e.owner # f.owner => e.tags \cap f.tags = {}
  PROVE  /\ \A e, f \in D \cup {d} : e.owner = f.owner => e = f
         /\ \A e, f \in D \cup {d} : e.owner # f.owner => e.tags \cap f.tags = {}
         /\ TagsOf(D \cup {d}) \cap Reduced(s, d).vlan = {}
<1>1. \A e \in D : e.tags \cap d.tags = {}
  BY DEF TagsOf
<1>2. Reduced(s, d).vlan = s.vlan \ d.tags
  BY DEF Reduced, Minus, TagsOf
<1>3. TagsOf(D \cup {d}) = TagsOf(D) \cup d.tags
  BY DEF TagsOf
<1> QED BY <1>1, <1>2, <1>3

(* The three conjuncts about the list carry over to any part of it.        *)
LEMMA RInvSub ==
  ASSUME RInv, deltas' \subseteq deltas
  PROVE  OneDeltaPerOwner' /\ NoContention'
BY DEF RInv, OneDeltaPerOwner, NoContention

LEMMA RInit == Init => RInv
BY DEF Init, RInv, OneDeltaPerOwner, HeldTagsNotOffered, NoContention, TagsOf, NoLsa

(* The conjuncts about the list, for an action that puts back g's delta    *)
(* and the deltas A, drops the deltas B, and inserts a delta of g whose    *)
(* tags are free after that.                                               *)
LEMMA RInsert ==
  ASSUME TInv, RInv, NEW g \in Gri, g \notin gris,
         NEW A, NEW B, A \subseteq B, B \subseteq deltas \ Of(deltas, g),
         NEW s, s.vlan = te.vlan \cup TagsOf(Of(deltas, g)) \cup TagsOf(A),
         NEW d, d.owner = g, d.tags \subseteq s.vlan,
         deltas' = ((deltas \ Of(deltas, g)) \ B) \cup {d},
         te' = Reduced(s, d)
  PROVE  OneDeltaPerOwner' /\ HeldTagsNotOffered' /\ NoContention'
<1> DEFINE D == (deltas \ Of(deltas, g)) \ B
<1>1. D \subseteq (deltas \ Of(deltas, g)) \ A
  OBVIOUS
<1>2. TagsOf(D) \cap s.vlan = {}
  <2>1. TagsOf((deltas \ Of(deltas, g)) \ A) \cap s.vlan = {}
    BY PutBack
  <2> QED BY <1>1, <2>1 DEF TagsOf
<1>3. \A e \in D : e \in deltas /\ e.owner # d.owner
  BY DEF Of
<1>4. \A e, f \in D : e.owner = f.owner => e = f
  BY <1>3 DEF RInv, OneDeltaPerOwner
<1>5. \A e, f \in D : e.owner # f.owner => e.tags \cap f.tags = {}
  BY <1>3 DEF RInv, NoContention
<1>6. /\ \A e, f \in D \cup {d} : e.owner = f.owner => e = f
      /\ \A e, f \in D \cup {d} : e.owner # f.owner => e.tags \cap f.tags = {}
      /\ TagsOf(D \cup {d}) \cap Reduced(s, d).vlan = {}
  <2>1. d.owner \notin gris /\ \A e \in D : e.owner # d.owner
    BY <1>3
  <2>h. HIDE DEF D
  <2> QED BY <1>2, <1>4, <1>5, <2>1, Inserted
<1> QED BY <1>6 DEF OneDeltaPerOwner, HeldTagsNotOffered, NoContention

LEMMA RStep == Disciplined /\ TInv /\ RInv /\ [Next]_vars => RInv'
<1> SUFFICES ASSUME Disciplined, TInv, RInv, [Next]_vars PROVE RInv'
  OBVIOUS
<1> DEFINE O(g) == Of(deltas, g)
<1>0. /\ OneDeltaPerOwner /\ HeldTagsNotOffered /\ NoContention
      /\ \A d \in deltas : d.owner \in Gri /\ d.tags = grant[d.owner].tags
      /\ \A g \in gris \cup lsa.gris : status[g] \in Signalled
      /\ \A l \in net : status[l.owner] \in Signalled /\ l.owner \in Gri
      /\ status \in [Gri -> Status] /\ grant \in [Gri -> Grant]
      /\ gris \subseteq Gri /\ lsa.gris \subseteq Gri
  BY DEF RInv, TInv, TypeOK, Delta, Lsp, Lsa
<1>q. \A g : First(deltas, g) = O(g)
  BY <1>0, FirstIsOf
<1>s. \A g \in Gri : /\ Swept(g) = (deltas \ O(g)) \ Expired(deltas \ O(g))
                     /\ SweptTe(g).vlan = te.vlan \cup TagsOf(O(g))
                                            \cup TagsOf(AddedBack(deltas \ O(g)))
  BY <1>q DEF Swept, SweptTe, Plus
<1>1. ASSUME NEW g \in Gri, NEW req \in Request, QueryHold(g, req) PROVE RInv'
  <2> DEFINE d == NewDelta(Swept(g), g, req, "QUERIED", QueryExpire)
             A == AddedBack(deltas \ O(g))
             B == Expired(deltas \ O(g))
  <2>1. status[g] \in {"idle", "granted"}
    BY <1>1 DEF QueryHold, MayQuery, Disciplined
  <2>2. g \notin gris \cup lsa.gris /\ \A l \in net : l.owner # g
    BY <1>0, <2>1 DEF Signalled
  <2>3. A \subseteq B /\ B \subseteq deltas \ O(g)
    BY DEF AddedBack, Expired
  <2>4. d.owner = g /\ d.tags = req.tags /\ d.tags \subseteq SweptTe(g).vlan
    BY <1>1 DEF QueryHold, NewDelta, Feasible
  <2>5. deltas' = ((deltas \ O(g)) \ B) \cup {d} /\ te' = Reduced(SweptTe(g), d)
    BY <1>1, <1>s DEF QueryHold
  <2>6. OneDeltaPerOwner' /\ HeldTagsNotOffered' /\ NoContention'
    <3>1. g \notin gris /\ SweptTe(g).vlan = te.vlan \cup TagsOf(O(g)) \cup TagsOf(A)
      BY <2>2, <1>s
    <3>h. HIDE DEF A, B, d, O
    <3> QED BY <3>1, <2>3, <2>4, <2>5, RInsert DEF O
  <2>7. \A e \in deltas' : e.tags = grant'[e.owner].tags
    <3>1. grant' = [grant EXCEPT ![g] = Granted(req, SweptTe(g))]
      BY <1>1 DEF QueryHold
    <3>2. grant'[g].tags = d.tags
      BY <1>0, <2>4, <3>1 DEF Granted
    <3>3. \A e \in deltas \ O(g) : e.owner \in Gri /\ grant'[e.owner] = grant[e.owner]
      BY <1>0, <3>1 DEF Of
    <3> QED BY <1>0, <2>4, <2>5, <3>2, <3>3
  <2>8. /\ \A h \in gris' \cup lsa'.gris : status'[h] \in Signalled
        /\ \A l \in net' : status'[l.owner] \in Signalled
    BY <1>0, <1>1, <2>2 DEF QueryHold
  <2> QED BY <2>6, <2>7, <2>8 DEF RInv
<1>2. ASSUME NEW g \in Gri, QueryNoHold(g) PROVE RInv'
  <2> DEFINE A == AddedBack(deltas \ O(g))
             B == Expired(deltas \ O(g))
  <2>1. A \subseteq B /\ A \subseteq deltas \ O(g)
    BY DEF AddedBack, Expired
  <2>2. deltas' = (deltas \ O(g)) \ B
        /\ te'.vlan = te.vlan \cup TagsOf(O(g)) \cup TagsOf(A)
    BY <1>2, <1>s DEF QueryNoHold
  <2>3. TagsOf((deltas \ O(g)) \ A) \cap te'.vlan = {}
    BY <2>1, <2>2, PutBack
  <2>4. HeldTagsNotOffered'
    <3>1. TagsOf(deltas') \subseteq TagsOf((deltas \ O(g)) \ A)
      BY <2>1, <2>2 DEF TagsOf
    <3> QED BY <2>3, <3>1 DEF HeldTagsNotOffered
  <2>5. OneDeltaPerOwner' /\ NoContention'
    BY <2>2, RInvSub
  <2>6. /\ \A h \in gris' \cup lsa'.gris : status'[h] \in Signalled
        /\ \A l \in net' : status'[l.owner] \in Signalled
    BY <1>0, <1>2 DEF QueryNoHold, Signalled
  <2>7. \A d \in deltas' : d.tags = grant'[d.owner].tags
    BY <1>0, <1>2, <2>2 DEF QueryNoHold
  <2> QED BY <2>4, <2>5, <2>6, <2>7 DEF RInv
<1>3. ASSUME NEW g \in Gri, NEW req \in Request, QueryShadow(g, req) PROVE RInv'
  BY <1>3 DEF QueryShadow, Disciplined
<1>4. ASSUME NEW g \in Gri, NEW req, NEW flag, NEW period, Replace(g, req, flag, period),
             status[g] = "granted", req.tags \subseteq te.vlan \cup TagsOf(O(g))
      PROVE  /\ OneDeltaPerOwner' /\ HeldTagsNotOffered' /\ NoContention'
             /\ \A e \in deltas' : \/ e \in deltas /\ e.owner # g
                                   \/ e.owner = g /\ e.tags = req.tags
  <2> DEFINE D == deltas \ O(g)
             d == NewDelta(D, g, req, flag, period)
             s == Plus(te, O(g))
  <2>1. deltas' = D \cup {d} /\ te' = Reduced(s, d)
    BY <1>4, <1>q DEF Replace
  <2>2. d.owner = g /\ d.tags = req.tags
    BY DEF NewDelta
  <2>3. s.vlan = te.vlan \cup TagsOf(O(g)) \cup TagsOf({})
    BY DEF Plus, TagsOf
  <2>4. g \notin gris
    BY <1>0, <1>4 DEF Signalled
  <2>5. deltas' = (D \ {}) \cup {d}
    BY <2>1
  <2>6. d.tags \subseteq s.vlan
    BY <1>4, <2>2, <2>3
  <2>7. OneDeltaPerOwner' /\ HeldTagsNotOffered' /\ NoContention'
    <3>h. HIDE DEF d, s, O
    <3> QED BY <2>1, <2>2, <2>3, <2>4, <2>5, <2>6, RInsert DEF O
  <2>8. \A e \in D : e.owner # g
    BY DEF Of
  <2> QED BY <2>1, <2>2, <2>7, <2>8
<1>5. ASSUME NEW g \in Gri, NEW h \in Holdings, Confirm(g, h) PROVE RInv'
  <2>1. status[g] = "granted" /\ O(g) # {} /\ UNCHANGED <<gris, lsa, grant, net>>
    BY <1>5 DEF Confirm, OnList, Disciplined
  <2>2. /\ \A k \in gris' \cup lsa'.gris : status'[k] \in Signalled
        /\ \A l \in net' : status'[l.owner] \in Signalled
    BY <1>0, <1>5, <2>1 DEF Confirm, Signalled
  <2>3. CASE deltas' = deltas \ First(deltas, g) /\ UNCHANGED te
    <3>1. deltas' \subseteq deltas
      BY <2>3
    <3>2. OneDeltaPerOwner' /\ NoContention'
      BY <3>1, RInvSub
    <3>3. HeldTagsNotOffered'
      BY <1>0, <2>3, <3>1 DEF HeldTagsNotOffered, TagsOf
    <3> QED BY <1>0, <2>1, <2>2, <3>1, <3>2, <3>3 DEF RInv
  <2>4. ASSUME NEW period, Replace(g, grant[g], "RESERVED", period) PROVE RInv'
    <3>1. grant[g].tags \subseteq TagsOf(O(g))
      BY <1>0, <2>1 DEF Of, TagsOf
    <3>2. /\ OneDeltaPerOwner' /\ HeldTagsNotOffered' /\ NoContention'
          /\ \A e \in deltas' : \/ e \in deltas /\ e.owner # g
                                \/ e.owner = g /\ e.tags = grant[g].tags
      BY <1>4, <2>1, <2>4, <3>1
    <3> QED BY <1>0, <2>1, <2>2, <3>2 DEF RInv
  <2> QED BY <1>5, <2>3, <2>4 DEF Confirm
<1>6. ASSUME NEW g \in Gri, NEW tags \in {{t} : t \in Tags}, Update(g, tags) PROVE RInv'
  <2> DEFINE req == [grant[g] EXCEPT !.tags = tags]
  <2>1. /\ status[g] = "granted" /\ O(g) # {} /\ UNCHANGED <<gris, lsa, status, net>>
        /\ tags \subseteq te.vlan \cup grant[g].tags
        /\ Replace(g, req, "UPDATED", QueryExpire)
        /\ grant' = [grant EXCEPT ![g] = req]
    BY <1>6 DEF Update, OnList, Disciplined
  <2>2. grant[g].tags \subseteq TagsOf(O(g))
    BY <1>0, <2>1 DEF Of, TagsOf
  <2>3. req.tags = tags
    BY <1>0 DEF Grant
  <2>4. /\ OneDeltaPerOwner' /\ HeldTagsNotOffered' /\ NoContention'
        /\ \A e \in deltas' : \/ e \in deltas /\ e.owner # g
                              \/ e.owner = g /\ e.tags = req.tags
    <3>1. req.tags \subseteq te.vlan \cup TagsOf(O(g))
      BY <2>1, <2>2, <2>3
    <3>h. HIDE DEF req
    <3> QED BY <1>4, <2>1, <3>1
  <2>5. grant'[g] = req /\ \A k \in Gri : k # g => grant'[k] = grant[k]
    BY <1>0, <2>1
  <2> QED BY <1>0, <2>1, <2>4, <2>5 DEF RInv
<1>7. ASSUME NEW g \in Gri, Delete(g) PROVE RInv'
  <2>1. deltas' = deltas \ O(g) /\ te'.vlan = te.vlan \cup TagsOf(O(g)) \cup TagsOf({})
    BY <1>7, <1>q DEF Delete, Plus, TagsOf
  <2>2. HeldTagsNotOffered'
    <3>1. TagsOf((deltas \ O(g)) \ {}) \cap te'.vlan = {}
      BY <2>1, PutBack
    <3> QED BY <2>1, <3>1 DEF HeldTagsNotOffered
  <2>3. OneDeltaPerOwner' /\ NoContention'
    BY <2>1, RInvSub
  <2>4. /\ \A h \in gris' \cup lsa'.gris : status'[h] \in Signalled
        /\ \A l \in net' : status'[l.owner] \in Signalled
    BY <1>0, <1>7 DEF Delete, Signalled
  <2> QED BY <1>0, <1>7, <2>1, <2>2, <2>3, <2>4 DEF RInv, Delete
<1>8. ASSUME NEW g \in Gri, Vanish(g) PROVE RInv'
  BY <1>0, <1>8 DEF Vanish, RInv, Signalled, OneDeltaPerOwner, HeldTagsNotOffered,
       NoContention
<1>9. CASE CliDeleteDeltas
  BY <1>0, <1>9 DEF CliDeleteDeltas, RInv, OneDeltaPerOwner, HeldTagsNotOffered,
       NoContention, TagsOf
<1>10. ASSUME NEW g \in Gri, SetUp(g) PROVE RInv'
  <2>1. \A l \in net' : status'[l.owner] \in Signalled
    BY <1>0, <1>10 DEF SetUp, Signalled
  <2>2. \A h \in gris' \cup lsa'.gris : status'[h] \in Signalled
    BY <1>0, <1>10 DEF SetUp, Signalled
  <2> QED BY <1>0, <1>10, <2>1, <2>2 DEF SetUp, RInv, OneDeltaPerOwner,
            HeldTagsNotOffered, NoContention
<1>11. ASSUME NEW g \in Gri, TearDown(g) PROVE RInv'
  BY <1>0, <1>11 DEF TearDown, RInv, OneDeltaPerOwner, HeldTagsNotOffered, NoContention
<1>12. CASE Originate
  <2>1. \A h \in gris' \cup lsa'.gris : status'[h] \in Signalled
    BY <1>0, <1>12 DEF Originate
  <2> QED BY <1>0, <1>12, <2>1 DEF Originate, RInv, OneDeltaPerOwner,
            HeldTagsNotOffered, NoContention
<1>13. CASE Deliver
  <2>1. deltas' \subseteq deltas /\ te'.vlan = lsa.vlan \ TagsOf(deltas')
    BY <1>13 DEF Deliver, Kept, Relinked, Minus, Fresh
  <2>2. OneDeltaPerOwner' /\ NoContention'
    BY <2>1, RInvSub
  <2>3. HeldTagsNotOffered'
    BY <2>1 DEF HeldTagsNotOffered
  <2>4. \A h \in gris' \cup lsa'.gris : status'[h] \in Signalled
    BY <1>0, <1>13 DEF Deliver, NoLsa
  <2> QED BY <1>0, <1>13, <2>1, <2>2, <2>3, <2>4 DEF Deliver, RInv
<1>14. CASE Withdraw
  BY <1>0, <1>14 DEF Withdraw, RInv, OneDeltaPerOwner, HeldTagsNotOffered,
       NoContention, TagsOf
<1>15. CASE Tick
  <2> DEFINE aged(d) == [d EXCEPT !.ttl = IF @ > 0 THEN @ - 1 ELSE 0]
  <2>1. deltas' = {aged(d) : d \in deltas} /\ UNCHANGED <<te, gris, lsa, status, grant, net>>
    BY <1>15 DEF Tick
  <2>2. \A d \in deltas : aged(d).owner = d.owner /\ aged(d).tags = d.tags
    BY DEF TInv, TypeOK, Delta
  <2>h. HIDE DEF aged
  <2>3. \A e \in deltas' : \E d \in deltas : e = aged(d) /\ e.owner = d.owner /\ e.tags = d.tags
    BY <2>1, <2>2
  <2>4. TagsOf(deltas') \subseteq TagsOf(deltas)
    BY <2>3 DEF TagsOf
  <2>5. OneDeltaPerOwner' /\ NoContention'
    BY <1>0, <2>3 DEF OneDeltaPerOwner, NoContention
  <2> QED BY <1>0, <2>1, <2>3, <2>4, <2>5 DEF RInv, HeldTagsNotOffered
<1>16. CASE UNCHANGED vars
  BY <1>0, <1>16 DEF vars, RInv, OneDeltaPerOwner, HeldTagsNotOffered, NoContention
<1> QED
  BY <1>1, <1>2, <1>3, <1>5, <1>6, <1>7, <1>8, <1>9, <1>10, <1>11, <1>12, <1>13,
     <1>14, <1>15, <1>16 DEF Next

(* The tags of what is held, in the order of the proof.                    *)
LEMMA Reserved ==
  ASSUME Disciplined
  PROVE  Spec => [](HeldTagsNotOffered /\ NoContention)
<1>1. TInv /\ RInv /\ [Next]_vars => (TInv /\ RInv)'
  BY TypeStep, RStep
<1>2. Init => TInv /\ RInv
  BY TypeInit, RInit
<1>3. TInv /\ RInv => HeldTagsNotOffered /\ NoContention
  BY DEF RInv
<1> QED BY <1>1, <1>2, <1>3, PTL DEF Spec

(* With clients that keep the protocol's deadlines, no two GRIs are ever   *)
(* promised the same VLAN tag of the link (HoldLinkStatesUponQuery).       *)
THEOREM Reservation ==
  ASSUME Disciplined
  PROVE  Spec => []NoContention
BY Reserved, PTL

(* And what one of them holds is not offered to the others, in spite of    *)
(* LSAs that do not know of it (Link::hook_PreUpdate).                     *)
THEOREM HeldIsWithheld ==
  ASSUME Disciplined
  PROVE  Spec => []HeldTagsNotOffered
BY Reserved, PTL

-----------------------------------------------------------------------------
(* One delta per owner, whatever the clients do: that a delta goes before  *)
(* its owner gets another needs no deadline and no order of calls, only    *)
(* that a hold is made by the path search, which sweeps the list.          *)

(* A list with another delta in the place of that of its owner.            *)
LEMMA OneReplaced ==
  ASSUME TInv, OneDeltaPerOwner, NEW g,
         NEW D, D \subseteq deltas \ First(deltas, g), NEW d, d.owner = g,
         deltas' \subseteq D \cup {d}
  PROVE  OneDeltaPerOwner'
<1>1. \A e \in D : e \in deltas /\ e.owner # g
  BY FirstIsOf DEF Of
<1> QED BY <1>1 DEF OneDeltaPerOwner

LEMMA OneStep ==
  ASSUME "shadow" \notin Faults, TInv, OneDeltaPerOwner, [Next]_vars
  PROVE  OneDeltaPerOwner'
<1>1. ASSUME NEW g \in Gri, NEW req \in Request, QueryHold(g, req) PROVE OneDeltaPerOwner'
  <2> DEFINE d == NewDelta(Swept(g), g, req, "QUERIED", QueryExpire)
  <2>1. deltas' = Swept(g) \cup {d} /\ d.owner = g
    BY <1>1 DEF QueryHold, NewDelta
  <2>2. Swept(g) \subseteq deltas \ First(deltas, g)
    BY DEF Swept
  <2>h. HIDE DEF d
  <2> QED BY <2>1, <2>2, OneReplaced
<1>2. ASSUME NEW g, NEW req, NEW flag, NEW period, Replace(g, req, flag, period)
      PROVE  OneDeltaPerOwner'
  <2> DEFINE D == deltas \ First(deltas, g)
             d == NewDelta(D, g, req, flag, period)
  <2>1. deltas' = D \cup {d} /\ d.owner = g
    BY <1>2 DEF Replace, NewDelta
  <2>2. D \subseteq deltas \ First(deltas, g)
    OBVIOUS
  <2>h. HIDE DEF d, D
  <2> QED BY <2>1, <2>2, OneReplaced
<1>3. ASSUME deltas' \subseteq deltas PROVE OneDeltaPerOwner'
  BY <1>3 DEF OneDeltaPerOwner
<1>4. ASSUME NEW g \in Gri, QueryNoHold(g) PROVE OneDeltaPerOwner'
  BY <1>3, <1>4 DEF QueryNoHold, Swept
<1>5. ASSUME NEW g \in Gri, NEW h \in Holdings, Confirm(g, h) PROVE OneDeltaPerOwner'
  BY <1>2, <1>3, <1>5 DEF Confirm
<1>6. ASSUME NEW g \in Gri, NEW tags, Update(g, tags) PROVE OneDeltaPerOwner'
  BY <1>2, <1>6 DEF Update
<1>7. CASE \E g \in Gri : Delete(g)
  BY <1>3, <1>7 DEF Delete
<1>8. CASE Deliver
  BY <1>3, <1>8 DEF Deliver, Kept
<1>9. CASE Tick
  <2> DEFINE aged(d) == [d EXCEPT !.ttl = IF @ > 0 THEN @ - 1 ELSE 0]
  <2>1. deltas' = {aged(d) : d \in deltas}
    BY <1>9 DEF Tick
  <2>2. \A d \in deltas : aged(d).owner = d.owner
    BY DEF TInv, TypeOK, Delta
  <2>h. HIDE DEF aged
  <2> QED BY <2>1, <2>2 DEF OneDeltaPerOwner
<1>10. CASE CliDeleteDeltas \/ Withdraw
  BY <1>10 DEF CliDeleteDeltas, Withdraw, OneDeltaPerOwner
<1>11. CASE \/ \E g \in Gri : Vanish(g) \/ SetUp(g) \/ TearDown(g)
            \/ Originate
            \/ UNCHANGED vars
  BY <1>3, <1>11 DEF Vanish, SetUp, TearDown, Originate, vars
<1> QED
  BY <1>1, <1>4, <1>5, <1>6, <1>7, <1>8, <1>9, <1>10, <1>11 DEF Next, QueryShadow

(* No GRI ever holds a link twice, however late, repeated or disordered    *)
(* its queries, confirmations, updates and releases are, and whatever the  *)
(* operator and the network do, as long as a query that holds has searched *)
(* the link (PCEN::BuildLinkVector, Link::removeDeltaByOwner).             *)
THEOREM OneHold ==
  ASSUME "shadow" \notin Faults
  PROVE  Spec => []OneDeltaPerOwner
<1>1. TInv /\ OneDeltaPerOwner /\ [Next]_vars => (TInv /\ OneDeltaPerOwner)'
  BY TypeStep, OneStep
<1>2. Init => TInv /\ OneDeltaPerOwner
  BY TypeInit DEF Init, OneDeltaPerOwner
<1> QED BY <1>1, <1>2, PTL DEF Spec

-----------------------------------------------------------------------------
(* End to end: what the network sets up on the link, when nothing disturbs *)
(* the protocol.  The sums of bandwidth are cardinalities of sets of       *)
(* units, which the theorems on finite sets add and compare.               *)

(* Sums.                                                                   *)

HasBw(D) == IsFiniteSet(D) /\ \A d \in D : d.bw \in Nat

LEMMA HasBwSub ==
  ASSUME NEW D, HasBw(D), NEW E \in SUBSET D
  PROVE  HasBw(E)
BY FS_Subset DEF HasBw

LEMMA SumNat ==
  ASSUME NEW D, HasBw(D)
  PROVE  SumBw(D) \in Nat
BY SumBwNat DEF HasBw

LEMMA SumUnion ==
  ASSUME NEW D, HasBw(D), NEW E, HasBw(E), D \cap E = {}
  PROVE  SumBw(D \cup E) = SumBw(D) + SumBw(E)
<1>1. IsFiniteSet(Units(D)) /\ IsFiniteSet(Units(E))
  BY UnitsFinite DEF HasBw
<1>2. Units(D \cup E) = Units(D) \cup Units(E)
  BY DEF Units
<1>3. Units(D) \cap Units(E) = {}
  BY DEF Units
<1>4. Cardinality(Units(D) \cap Units(E)) = 0
  BY <1>3, FS_EmptySet
<1>5. Cardinality(Units(D)) \in Nat /\ Cardinality(Units(E)) \in Nat
  BY <1>1, FS_CardinalityType
<1>6. Cardinality(Units(D) \cup Units(E))
        = Cardinality(Units(D)) + Cardinality(Units(E))
            - Cardinality(Units(D) \cap Units(E))
  BY <1>1, FS_Union
<1>7. SumBw(D \cup E) = Cardinality(Units(D) \cup Units(E))
  BY <1>2 DEF SumBw
<1>8. SumBw(D) = Cardinality(Units(D)) /\ SumBw(E) = Cardinality(Units(E))
  BY DEF SumBw
<1>9. SumBw(D \cup E) = SumBw(D) + SumBw(E) - 0
  BY <1>4, <1>6, <1>7, <1>8
<1> QED BY <1>5, <1>8, <1>9

LEMMA SumMono ==
  ASSUME NEW E, HasBw(E), NEW D \in SUBSET E
  PROVE  SumBw(D) <= SumBw(E)
<1>1. IsFiniteSet(Units(E))
  BY UnitsFinite DEF HasBw
<1>2. Units(D) \in SUBSET Units(E)
  BY DEF Units
<1> QED BY <1>1, <1>2, FS_Subset DEF SumBw

LEMMA SumSingle ==
  ASSUME NEW d, d.bw \in Nat
  PROVE  HasBw({d}) /\ SumBw({d}) = d.bw
<1>1. IsFiniteSet({d}) /\ Cardinality({d}) = 1
  BY FS_Singleton
<1>2. 1 \in Int /\ d.bw \in Int
  OBVIOUS
<1>3. IsFiniteSet(1 .. d.bw) /\ Cardinality(1 .. d.bw) = IF 1 > d.bw THEN 0 ELSE d.bw - 1 + 1
  BY <1>2, FS_Interval
<1>4. Cardinality(1 .. d.bw) = d.bw
  BY <1>3
<1>5. Units({d}) = {d} \X (1 .. d.bw)
  BY DEF Units
<1>6. Cardinality({d} \X (1 .. d.bw)) = Cardinality({d}) * Cardinality(1 .. d.bw)
  BY <1>1, <1>3, FS_Product
<1>7. SumBw({d}) = 1 * d.bw
  BY <1>1, <1>4, <1>5, <1>6 DEF SumBw
<1> QED BY <1>1, <1>7 DEF HasBw

LEMMA SumInj ==
  ASSUME NEW L, NEW D, HasBw(D), \A l \in L : l.bw \in Nat,
         NEW f \in [L -> D], \A l \in L : f[l].bw = l.bw,
         \A l, m \in L : f[l] = f[m] => l = m
  PROVE  SumBw(L) <= SumBw(D)
<1> DEFINE h == [u \in Units(L) |-> <<f[u[1]], u[2]>>]
<1>1. \A u \in Units(L) : u[1] \in L /\ u[2] \in 1 .. u[1].bw /\ u = <<u[1], u[2]>>
  BY DEF Units
<1>2. \A d \in D : \A i \in 1 .. d.bw : <<d, i>> \in Units(D)
  BY DEF Units
<1>3. \A u \in Units(L) : h[u] \in Units(D)
  BY <1>1, <1>2
<1>4. \A u, v \in Units(L) : h[u] = h[v] => u = v
  <2> SUFFICES ASSUME NEW u \in Units(L), NEW v \in Units(L), h[u] = h[v] PROVE u = v
    OBVIOUS
  <2>1. f[u[1]] = f[v[1]] /\ u[2] = v[2]
    OBVIOUS
  <2>2. u[1] = v[1]
    BY <1>1, <2>1
  <2> QED BY <1>1, <2>1, <2>2
<1>5. h \in Injection(Units(L), Units(D))
  BY <1>3, <1>4 DEF Injection, IsInjective
<1>6. IsFiniteSet(Units(D))
  BY UnitsFinite DEF HasBw
<1> QED BY <1>5, <1>6, FS_Injection DEF SumBw

-----------------------------------------------------------------------------
(* The invariant.                                                          *)

Listed(G) == {l \in net : l.owner \in G}

(* One LSP per GRI, and no tag carries two of them.                        *)
NetTags ==
  \A l, m \in net : /\ l.owner = m.owner => l = m
                    /\ l.owner # m.owner => l.tags \cap m.tags = {}

(* An LSP is covered by its own delta until the LSA in force lists it, and *)
(* by that LSA from then on.                                               *)
Covered ==
  \A l \in net :
    /\ l.owner \notin gris =>
         \E d \in deltas : /\ d.owner = l.owner /\ d.ttl > 0
                           /\ d.tags = l.tags /\ d.bw = l.bw
    /\ l.owner \in gris => l.tags \cap (te.vlan \cup TagsOf(deltas)) = {}

(* The LSA in flight knows what the one in force knows, and offers nothing *)
(* that the LSPs it lists use.                                             *)
LsaSound ==
  lsa.sent =>
    /\ \A l \in net : /\ l.owner \in gris => l.owner \in lsa.gris
                      /\ l.owner \in lsa.gris => l.tags \cap lsa.vlan = {}
    /\ lsa.bw + SumBw(Listed(lsa.gris)) <= MaxBw

Booked == te.bw + SumBw(Listed(gris)) + SumBw(deltas) <= MaxBw

NInv ==
  /\ NetTags /\ Covered /\ LsaSound /\ Booked
  /\ \A d \in deltas : d.owner \notin gris /\ d.bw = grant[d.owner].bw

LEMMA NInit == Init => NInv
<1> SUFFICES ASSUME Init PROVE NInv
  OBVIOUS
<1>1. Units({}) = {}
  BY DEF Units
<1>2. SumBw({}) = 0
  BY <1>1, FS_EmptySet DEF SumBw
<1>3. Listed(gris) = {}
  BY DEF Init, Listed
<1>4. Booked
  BY <1>2, <1>3, LinkAssumption DEF Init, Booked, LinkAssumption
<1> QED BY <1>4 DEF Init, NInv, NetTags, Covered, LsaSound, NoLsa

(* What the types say about sums.                                          *)
LEMMA SumTypes ==
  ASSUME TInv
  PROVE  /\ HasBw(deltas) /\ HasBw(net) /\ te.bw \in Nat /\ MaxBw \in Nat
         /\ \A D \in SUBSET deltas : HasBw(D) /\ SumBw(D) \in Nat
         /\ \A L \in SUBSET net : HasBw(L) /\ SumBw(L) \in Nat
<1>1. HasBw(deltas) /\ HasBw(net)
  BY DEF TInv, TypeOK, HasBw, Delta, Lsp
<1>2. te.bw \in Nat /\ MaxBw \in Nat
  BY LinkAssumption DEF TInv, TypeOK, TeState, LinkAssumption
<1>3. \A D \in SUBSET deltas : HasBw(D) /\ SumBw(D) \in Nat
  BY <1>1, HasBwSub, SumNat
<1>4. \A L \in SUBSET net : HasBw(L) /\ SumBw(L) \in Nat
  BY <1>1, HasBwSub, SumNat
<1> QED BY <1>1, <1>2, <1>3, <1>4

(* The LSPs of L each have their delta in D.                               *)
LEMMA SumCovered ==
  ASSUME TInv, NetTags, NEW L \in SUBSET net, NEW D \in SUBSET deltas,
         \A l \in L : \E d \in D : d.owner = l.owner /\ d.bw = l.bw
  PROVE  SumBw(L) <= SumBw(D)
<1> DEFINE f == [l \in L |-> CHOOSE d \in D : d.owner = l.owner /\ d.bw = l.bw]
<1>1. \A l \in L : f[l] \in D /\ f[l].owner = l.owner /\ f[l].bw = l.bw
  OBVIOUS
<1>2. f \in [L -> D]
  BY <1>1
<1>3. \A l, m \in L : f[l] = f[m] => l = m
  BY <1>1 DEF NetTags
<1>4. HasBw(D)
  BY SumTypes
<1>5. \A l \in L : l.bw \in Nat
  BY SumTypes DEF HasBw
<1>h. HIDE DEF f
<1> QED BY <1>1, <1>2, <1>3, <1>4, <1>5, SumInj

LEMMA Offered ==
  ASSUME TInv, NInv
  PROVE  te.bw + SumBw(net) + SumBw({d \in deltas : ~InNet(d.owner)}) <= MaxBw
<1> DEFINE A == {d \in deltas : InNet(d.owner)}
           B == {d \in deltas : ~InNet(d.owner)}
           L == Listed(gris)
           U == net \ L
<1>1. deltas = A \cup B /\ A \cap B = {} /\ net = L \cup U /\ L \cap U = {}
  BY DEF Listed
<1>2. /\ HasBw(A) /\ HasBw(B) /\ SumBw(A) \in Nat /\ SumBw(B) \in Nat
      /\ A \in SUBSET deltas /\ B \in SUBSET deltas
  BY SumTypes
<1>3. /\ L \in SUBSET net /\ U \in SUBSET net
      /\ HasBw(L) /\ HasBw(U) /\ SumBw(L) \in Nat /\ SumBw(U) \in Nat
  <2>1. L \in SUBSET net /\ U \in SUBSET net
    BY DEF Listed
  <2>h. HIDE DEF L, U
  <2> QED BY <2>1, SumTypes
<1>4. \A l \in U : \E d \in A : d.owner = l.owner /\ d.bw = l.bw
  BY DEF NInv, Covered, Listed, InNet, Of
<1>h. HIDE DEF A, B, L, U
<1>5. SumBw(U) <= SumBw(A)
  BY <1>2, <1>3, <1>4, SumCovered DEF NInv
<1>6. SumBw(deltas) = SumBw(A) + SumBw(B)
  BY <1>1, <1>2, SumUnion
<1>7. SumBw(net) = SumBw(L) + SumBw(U)
  BY <1>1, <1>3, SumUnion
<1>8. te.bw + SumBw(L) + SumBw(deltas) <= MaxBw
  BY DEF NInv, Booked, L
<1>9. te.bw + SumBw(net) + SumBw(B) <= MaxBw
  BY <1>2, <1>3, <1>5, <1>6, <1>7, <1>8, SumTypes
<1> QED BY <1>9 DEF B

-----------------------------------------------------------------------------
(* The RCE's own steps.  They leave gris, lsa and net alone, and disturb   *)
(* only the delta of one GRI that is not in the network, and expired ones. *)

LEMMA KeepsNet ==
  ASSUME TInv, NInv, NEW g, \A l \in net : l.owner # g,
         UNCHANGED <<gris, lsa, net>>,
         \A d \in deltas : d.owner # g /\ d.ttl > 0 => d \in deltas',
         te'.vlan \cup TagsOf(deltas') \subseteq te.vlan \cup TagsOf(deltas)
  PROVE  NetTags' /\ Covered' /\ LsaSound'
<1>1. NetTags'
  BY DEF NInv, NetTags
<1>2. LsaSound'
  BY DEF NInv, LsaSound, Listed
<1>3. Covered'
  <2> SUFFICES ASSUME NEW l \in net
               PROVE /\ l.owner \notin gris =>
                          \E d \in deltas' : /\ d.owner = l.owner /\ d.ttl > 0
                                             /\ d.tags = l.tags /\ d.bw = l.bw
                     /\ l.owner \in gris => l.tags \cap (te'.vlan \cup TagsOf(deltas')) = {}
    BY DEF Covered
  <2>1. l.owner # g
    OBVIOUS
  <2>2. /\ l.owner \notin gris =>
              \E d \in deltas : /\ d.owner = l.owner /\ d.ttl > 0
                                /\ d.tags = l.tags /\ d.bw = l.bw
        /\ l.owner \in gris => l.tags \cap (te.vlan \cup TagsOf(deltas)) = {}
    BY DEF NInv, Covered
  <2> QED BY <2>1, <2>2
<1> QED BY <1>1, <1>2, <1>3

LEMMA PlusBw ==
  ASSUME NEW s, s.bw \in Nat, NEW D, SumBw(D) \in Nat
  PROVE  /\ Plus(s, D).bw <= s.bw + SumBw(D)
         /\ Plus(s, D).bw \in Nat
         /\ s.bw + SumBw(D) <= MaxBw => Plus(s, D).bw = s.bw + SumBw(D)
BY LinkAssumption DEF Plus, LinkAssumption

LEMMA InsertBw ==
  ASSUME NEW s, s.bw \in Nat, NEW d, d.bw \in Nat, d.bw <= s.bw, d.owner \notin gris,
         NEW X, HasBw(X), d \notin X
  PROVE  Reduced(s, d).bw + SumBw(X \cup {d}) = s.bw + SumBw(X)
<1>1. HasBw({d}) /\ SumBw({d}) = d.bw
  BY SumSingle
<1>2. X \cap {d} = {}
  OBVIOUS
<1>3. SumBw(X \cup {d}) = SumBw(X) + d.bw
  <2>1. SumBw(X \cup {d}) = SumBw(X) + SumBw({d})
    BY <1>1, <1>2, SumUnion
  <2> QED BY <1>1, <2>1
<1>4. Reduced(s, d).bw = s.bw - d.bw
  BY <1>1 DEF Reduced, Minus
<1>5. SumBw(X) \in Nat
  BY SumNat
<1> QED BY <1>3, <1>4, <1>5

(* What a sweep does to the books.                                         *)
LEMMA SweptBw ==
  ASSUME TInv, RInv, NInv, NEW g \in Gri
  PROVE  /\ SweptTe(g).bw \in Nat /\ HasBw(Swept(g)) /\ SumBw(Swept(g)) \in Nat
         /\ SweptTe(g).bw + SumBw(Listed(gris)) + SumBw(Swept(g)) <= MaxBw
<1> DEFINE F == First(deltas, g)
           D == deltas \ F
           B == Expired(D)
           A == AddedBack(D)
           W == Swept(g)
           s == Plus(te, F)
<1>1. /\ F \in SUBSET deltas /\ D \in SUBSET deltas /\ B \in SUBSET deltas
      /\ A \in SUBSET deltas /\ A \in SUBSET B /\ W \in SUBSET deltas
      /\ deltas = F \cup D /\ F \cap D = {}
      /\ D = B \cup W /\ B \cap W = {}
  BY FirstSub DEF Expired, AddedBack, Swept
<1>2. SweptTe(g) = Plus(s, A)
  BY DEF SweptTe
<1>h. HIDE DEF F, D, B, A, W
<1>3. /\ SumBw(F) \in Nat /\ SumBw(D) \in Nat /\ SumBw(B) \in Nat
      /\ SumBw(A) \in Nat /\ SumBw(W) \in Nat
      /\ HasBw(F) /\ HasBw(D) /\ HasBw(B) /\ HasBw(W)
  BY <1>1, SumTypes
<1>4. SumBw(deltas) = SumBw(F) + SumBw(D)
  BY <1>1, <1>3, SumUnion
<1>5. SumBw(D) = SumBw(B) + SumBw(W)
  BY <1>1, <1>3, SumUnion
<1>6. SumBw(A) <= SumBw(B)
  BY <1>1, <1>3, SumMono
<1>7. s.bw <= te.bw + SumBw(F) /\ s.bw \in Nat
  BY <1>3, SumTypes, PlusBw
<1>h2. HIDE DEF s
<1>8. SweptTe(g).bw <= s.bw + SumBw(A) /\ SweptTe(g).bw \in Nat
  BY <1>2, <1>3, <1>7, PlusBw
<1>9. te.bw + SumBw(Listed(gris)) + SumBw(deltas) <= MaxBw
  BY DEF NInv, Booked
<1>10. SumBw(Listed(gris)) \in Nat
  BY SumTypes DEF Listed
<1>11. SweptTe(g).bw + SumBw(Listed(gris)) + SumBw(W) <= MaxBw
  BY <1>3, <1>4, <1>5, <1>6, <1>7, <1>8, <1>9, <1>10, SumTypes
<1> QED BY <1>3, <1>8, <1>11 DEF W

(* What it does to the list and the tags.                                  *)
LEMMA SweptNet ==
  ASSUME TInv, RInv, NEW g \in Gri
  PROVE  /\ SweptTe(g).vlan \cup TagsOf(Swept(g)) \subseteq te.vlan \cup TagsOf(deltas)
         /\ Swept(g) \in SUBSET deltas
         /\ \A e \in Swept(g) : e.owner # g
         /\ \A e \in deltas : e.owner # g /\ e.ttl > 0 => e \in Swept(g)
<1>1. First(deltas, g) = Of(deltas, g)
  BY FirstIsOf DEF RInv
<1>2. SweptTe(g).vlan \cup TagsOf(Swept(g)) \subseteq te.vlan \cup TagsOf(deltas)
  BY <1>1 DEF SweptTe, Swept, Plus, TagsOf, AddedBack, Expired, Of
<1>3. /\ Swept(g) \in SUBSET deltas
      /\ \A e \in Swept(g) : e.owner # g
      /\ \A e \in deltas : e.owner # g /\ e.ttl > 0 => e \in Swept(g)
  BY <1>1 DEF Swept, Expired, Of
<1> QED BY <1>2, <1>3

(* A GRI that queries or confirms has no LSP yet.                          *)
LEMMA NotUsed ==
  ASSUME RInv, NEW g, status[g] \in {"idle", "granted"}
  PROVE  /\ g \notin gris /\ g \notin lsa.gris
         /\ \A l \in net : l.owner # g
BY DEF RInv, Signalled

LEMMA NextTypes ==
  ASSUME TInv'
  PROVE  HasBw(deltas') /\ SumBw(deltas') \in Nat /\ te'.bw \in Nat
<1>1. HasBw(deltas')
  BY DEF TInv, TypeOK, HasBw, Delta
<1>2. te'.bw \in Nat
  BY LinkAssumption DEF TInv, TypeOK, TeState, LinkAssumption
<1>3. \A D : HasBw(D) => SumBw(D) \in Nat
  BY SumNat
<1> QED BY <1>1, <1>2, <1>3

Undisturbed == Faults = {}

LEMMA NQueryHold ==
  ASSUME Undisturbed, TInv, RInv, NInv, TInv',
         NEW g \in Gri, NEW req \in Request, QueryHold(g, req)
  PROVE  NInv'
<1> DEFINE d == NewDelta(Swept(g), g, req, "QUERIED", QueryExpire)
<1>1. d.owner = g /\ d.bw = req.bw /\ d.tags = req.tags
  BY DEF NewDelta
<1>2. /\ deltas' = Swept(g) \cup {d} /\ te' = Reduced(SweptTe(g), d)
      /\ UNCHANGED <<gris, lsa, net>>
      /\ d.bw <= SweptTe(g).bw /\ d.tags \subseteq SweptTe(g).vlan
      /\ grant' = [grant EXCEPT ![g] = Granted(req, SweptTe(g))]
  BY <1>1 DEF QueryHold, Feasible
<1>3. g \notin gris /\ \A l \in net : l.owner # g
  BY NotUsed DEF QueryHold, MayQuery, Undisturbed
<1>4. d.bw \in Nat
  BY <1>1, RequestType
<1>h. HIDE DEF d
<1>5. NetTags' /\ Covered' /\ LsaSound'
  <2>1. Reduced(SweptTe(g), d).vlan \subseteq SweptTe(g).vlan
    BY DEF Reduced, Minus
  <2>2. TagsOf(Swept(g) \cup {d}) = TagsOf(Swept(g)) \cup d.tags
    BY DEF TagsOf
  <2>3. te'.vlan \cup TagsOf(deltas') \subseteq te.vlan \cup TagsOf(deltas)
    BY <1>2, <2>1, <2>2, SweptNet
  <2>4. \A e \in deltas : e.owner # g /\ e.ttl > 0 => e \in deltas'
    BY <1>2, SweptNet
  <2> QED BY <1>2, <1>3, <2>3, <2>4, KeepsNet
<1>6. Booked'
  <2> DEFINE S == Swept(g)
             s == SweptTe(g)
  <2>1. /\ s.bw \in Nat /\ HasBw(S) /\ SumBw(S) \in Nat
        /\ s.bw + SumBw(Listed(gris)) + SumBw(S) <= MaxBw
    BY SweptBw
  <2>2. d \notin S
    BY <1>1, SweptNet
  <2>3. d.owner \notin gris /\ d.bw <= s.bw
    BY <1>1, <1>2, <1>3
  <2>h. HIDE DEF S, s
  <2>4. Reduced(s, d).bw + SumBw(S \cup {d}) = s.bw + SumBw(S)
    BY <1>4, <2>1, <2>2, <2>3, InsertBw
  <2>5. Listed(gris)' = Listed(gris)
    BY <1>2 DEF Listed
  <2>6. te'.bw + SumBw(deltas') = s.bw + SumBw(S)
    BY <1>2, <2>4 DEF S, s
  <2>7. SumBw(Listed(gris)) \in Nat
    BY SumTypes DEF Listed
  <2>8. te'.bw \in Nat /\ SumBw(deltas') \in Nat
    BY NextTypes
  <2> QED BY <2>1, <2>5, <2>6, <2>7, <2>8 DEF Booked
<1>7. \A e \in deltas' : e.owner \notin gris' /\ e.bw = grant'[e.owner].bw
  <2>1. \A e \in Swept(g) : e.owner \notin gris' /\ e.bw = grant'[e.owner].bw
    BY <1>2, SweptNet DEF NInv, TInv, TypeOK
  <2>2. grant'[g].bw = req.bw
    BY <1>2 DEF TInv, TypeOK, Granted
  <2> QED BY <1>1, <1>2, <1>3, <2>1, <2>2 DEF d
<1> QED BY <1>5, <1>6, <1>7 DEF NInv

LEMMA NQueryNoHold ==
  ASSUME Undisturbed, TInv, RInv, NInv, TInv', NEW g \in Gri, QueryNoHold(g)
  PROVE  NInv'
<1>1. deltas' = Swept(g) /\ te' = SweptTe(g) /\ UNCHANGED <<gris, lsa, grant, net>>
  BY DEF QueryNoHold
<1>2. \A l \in net : l.owner # g
  BY NotUsed DEF QueryNoHold, MayQuery, Undisturbed
<1>3. NetTags' /\ Covered' /\ LsaSound'
  BY <1>1, <1>2, SweptNet, KeepsNet
<1>4. Booked'
  BY <1>1, SweptBw DEF Booked, Listed
<1>5. \A e \in deltas' : e.owner \notin gris' /\ e.bw = grant'[e.owner].bw
  BY <1>1, SweptNet DEF NInv
<1> QED BY <1>3, <1>4, <1>5 DEF NInv

(* ACT_CONFIRM and ACT_UPDATE put back as much as they take: no clamp      *)
(* comes in between.                                                       *)
LEMMA NReplace ==
  ASSUME TInv, RInv, NInv, TInv', NEW g \in Gri, status[g] = "granted", OnList(g),
         NEW req, req.bw = grant[g].bw, req.tags \subseteq te.vlan \cup TagsOf(deltas),
         NEW flag, NEW period, Replace(g, req, flag, period),
         UNCHANGED <<gris, lsa, net>>, grant'[g].bw = grant[g].bw,
         \A k \in Gri : k # g => grant'[k] = grant[k]
  PROVE  NInv'
<1> DEFINE F == Of(deltas, g)
           D == deltas \ F
           d == NewDelta(D, g, req, flag, period)
           s == Plus(te, F)
<1>1. d.owner = g /\ d.bw = grant[g].bw /\ d.tags = req.tags
  BY DEF NewDelta
<1>2. deltas' = D \cup {d} /\ te' = Reduced(s, d)
  BY FirstIsOf DEF Replace, RInv
<1>3. g \notin gris /\ \A l \in net : l.owner # g
  BY NotUsed
<1>4. PICK f \in deltas : F = {f} /\ f.bw = grant[g].bw
  BY DEF OnList, Of, RInv, OneDeltaPerOwner, NInv
<1>5. /\ deltas = F \cup D /\ F \cap D = {} /\ F \in SUBSET deltas /\ D \in SUBSET deltas
      /\ \A e \in D : e.owner # g
      /\ \A e \in deltas : e.owner # g => e \in D
  BY DEF Of
<1>6. s.vlan = te.vlan \cup TagsOf(F)
  BY DEF Plus
<1>h. HIDE DEF d, F, D
<1>7. f.bw \in Nat
  BY <1>4, SumTypes DEF HasBw
<1>8. SumBw(F) = f.bw
  BY <1>4, <1>7, SumSingle
<1>9. HasBw(F) /\ HasBw(D) /\ SumBw(D) \in Nat /\ SumBw(F) \in Nat
  BY <1>5, SumTypes
<1>10. SumBw(deltas) = SumBw(F) + SumBw(D)
  BY <1>5, <1>9, SumUnion
<1>11. te.bw + SumBw(Listed(gris)) + SumBw(deltas) <= MaxBw
  BY DEF NInv, Booked
<1>12. SumBw(Listed(gris)) \in Nat
  BY SumTypes DEF Listed
<1>13. s.bw = te.bw + f.bw /\ s.bw \in Nat
  <2>1. te.bw + SumBw(F) <= MaxBw
    BY <1>9, <1>10, <1>11, <1>12, SumTypes
  <2> QED BY <1>8, <1>9, <2>1, SumTypes, PlusBw
<1>14. Booked'
  <2>1. d.bw \in Nat /\ d.bw <= s.bw
    BY <1>1, <1>4, <1>7, <1>13, SumTypes
  <2>2. d \notin D /\ d.owner \notin gris
    BY <1>1, <1>3, <1>5
  <2>h. HIDE DEF s
  <2>3. Reduced(s, d).bw + SumBw(D \cup {d}) = s.bw + SumBw(D)
    BY <1>9, <1>13, <2>1, <2>2, InsertBw
  <2>4. te'.bw + SumBw(deltas') = s.bw + SumBw(D)
    BY <1>2, <2>3 DEF s
  <2>5. Listed(gris)' = Listed(gris)
    BY DEF Listed
  <2>6. te'.bw + SumBw(Listed(gris)) + SumBw(deltas') <= MaxBw
    BY <1>7, <1>8, <1>9, <1>10, <1>11, <1>12, <1>13, <2>4, SumTypes, NextTypes
  <2> QED BY <2>5, <2>6 DEF Booked
<1>15. NetTags' /\ Covered' /\ LsaSound'
  <2>1. Reduced(s, d).vlan \subseteq s.vlan
    BY DEF Reduced, Minus
  <2>2. TagsOf(D \cup {d}) = TagsOf(D) \cup d.tags /\ TagsOf(D) \subseteq TagsOf(deltas)
        /\ TagsOf(F) \subseteq TagsOf(deltas)
    BY <1>5 DEF TagsOf
  <2>3. te'.vlan \cup TagsOf(deltas') \subseteq te.vlan \cup TagsOf(deltas)
    BY <1>1, <1>2, <1>6, <2>1, <2>2
  <2>4. \A e \in deltas : e.owner # g /\ e.ttl > 0 => e \in deltas'
    BY <1>2, <1>5
  <2> QED BY <1>3, <2>3, <2>4, KeepsNet
<1>16. \A e \in deltas' : e.owner \notin gris' /\ e.bw = grant'[e.owner].bw
  <2>1. \A e \in D : e.owner \in Gri /\ e.owner \notin gris /\ e.bw = grant[e.owner].bw
    BY <1>5 DEF NInv, TInv, TypeOK, Delta
  <2> QED BY <1>1, <1>2, <1>3, <1>5, <2>1
<1> QED BY <1>14, <1>15, <1>16 DEF NInv

LEMMA NConfirm ==
  ASSUME Undisturbed, TInv, RInv, NInv, TInv',
         NEW g \in Gri, NEW h \in Holdings, Confirm(g, h)
  PROVE  NInv'
<1>1. status[g] = "granted" /\ OnList(g) /\ UNCHANGED <<gris, lsa, grant, net>>
  BY DEF Confirm, Undisturbed
<1>2. ASSUME deltas' = deltas \ First(deltas, g), UNCHANGED te PROVE NInv'
  <2>1. deltas' \in SUBSET deltas /\ \A e \in deltas : e.owner # g => e \in deltas'
    BY <1>2 DEF First, Of
  <2>2. \A l \in net : l.owner # g
    BY <1>1, NotUsed
  <2>3. te'.vlan \cup TagsOf(deltas') \subseteq te.vlan \cup TagsOf(deltas)
    BY <1>2, <2>1 DEF TagsOf
  <2>4. NetTags' /\ Covered' /\ LsaSound'
    BY <1>1, <2>1, <2>2, <2>3, KeepsNet
  <2>5. SumBw(deltas') <= SumBw(deltas)
    BY <2>1, SumTypes, SumMono
  <2>6. Booked'
    <3>1. SumBw(Listed(gris)) \in Nat /\ SumBw(deltas) \in Nat
      BY SumTypes DEF Listed
    <3>2. te.bw + SumBw(Listed(gris)) + SumBw(deltas) <= MaxBw
      BY DEF NInv, Booked
    <3>3. te.bw + SumBw(Listed(gris)) + SumBw(deltas') <= MaxBw
      BY <2>5, <3>1, <3>2, SumTypes, NextTypes
    <3> QED BY <1>1, <1>2, <3>3 DEF Booked, Listed
  <2> QED BY <1>1, <2>1, <2>4, <2>6 DEF NInv
<1>3. ASSUME NEW period, Replace(g, grant[g], "RESERVED", period) PROVE NInv'
  <2>1. grant[g].tags \subseteq TagsOf(deltas)
    BY <1>1 DEF OnList, Of, RInv, TagsOf
  <2> QED BY <1>1, <1>3, <2>1, NReplace
<1> QED BY <1>2, <1>3 DEF Confirm

LEMMA NUpdate ==
  ASSUME Undisturbed, TInv, RInv, NInv, TInv',
         NEW g \in Gri, NEW tags, Update(g, tags)
  PROVE  NInv'
<1> DEFINE req == [grant[g] EXCEPT !.tags = tags]
<1>1. /\ status[g] = "granted" /\ OnList(g) /\ UNCHANGED <<gris, lsa, net>>
      /\ tags \subseteq te.vlan \cup grant[g].tags
      /\ Replace(g, req, "UPDATED", QueryExpire)
      /\ grant' = [grant EXCEPT ![g] = req]
  BY DEF Update, Undisturbed
<1>2. grant[g].tags \subseteq TagsOf(deltas)
  BY <1>1 DEF OnList, Of, RInv, TagsOf
<1>3. grant \in [Gri -> Grant]
  BY DEF TInv, TypeOK
<1>4. req.bw = grant[g].bw /\ req.tags = tags
  BY <1>3 DEF Grant
<1>5. grant'[g].bw = grant[g].bw /\ \A k \in Gri : k # g => grant'[k] = grant[k]
  BY <1>1, <1>3, <1>4
<1>6. req.tags \subseteq te.vlan \cup TagsOf(deltas)
  BY <1>1, <1>2, <1>4
<1>h. HIDE DEF req
<1> QED BY <1>1, <1>4, <1>5, <1>6, NReplace

LEMMA NDelete ==
  ASSUME Undisturbed, TInv, RInv, NInv, TInv', NEW g \in Gri, Delete(g)
  PROVE  NInv'
<1> DEFINE F == Of(deltas, g)
           D == deltas \ F
<1>1. deltas' = D /\ te' = Plus(te, F) /\ UNCHANGED <<gris, lsa, grant, net>>
  BY FirstIsOf DEF Delete, RInv
<1>2. \A l \in net : l.owner # g
  BY DEF Delete, Undisturbed, InNet, Of
<1>3. /\ deltas = F \cup D /\ F \cap D = {} /\ F \in SUBSET deltas /\ D \in SUBSET deltas
      /\ \A e \in deltas : e.owner # g => e \in D
  BY DEF Of
<1>4. te'.vlan = te.vlan \cup TagsOf(F)
  BY <1>1 DEF Plus
<1>h. HIDE DEF F, D
<1>5. te'.vlan \cup TagsOf(deltas') \subseteq te.vlan \cup TagsOf(deltas)
  BY <1>1, <1>3, <1>4 DEF TagsOf
<1>6. NetTags' /\ Covered' /\ LsaSound'
  BY <1>1, <1>2, <1>3, <1>5, KeepsNet
<1>7. HasBw(F) /\ HasBw(D) /\ SumBw(F) \in Nat /\ SumBw(D) \in Nat
  BY <1>3, SumTypes
<1>8. SumBw(deltas) = SumBw(F) + SumBw(D)
  BY <1>3, <1>7, SumUnion
<1>9. te'.bw <= te.bw + SumBw(F)
  BY <1>1, <1>7, SumTypes, PlusBw
<1>10. Booked'
  <2>1. SumBw(Listed(gris)) \in Nat
    BY SumTypes DEF Listed
  <2>2. te.bw + SumBw(Listed(gris)) + SumBw(deltas) <= MaxBw
    BY DEF NInv, Booked
  <2>3. te'.bw + SumBw(Listed(gris)) + SumBw(D) <= MaxBw
    BY <1>7, <1>8, <1>9, <2>1, <2>2, SumTypes, NextTypes
  <2> QED BY <1>1, <2>3 DEF Booked, Listed
<1> QED BY <1>1, <1>3, <1>6, <1>10 DEF NInv

-----------------------------------------------------------------------------
(* The network's steps, the LSAs, and time.                                *)

LEMMA NSetUp ==
  ASSUME Undisturbed, TInv, RInv, NInv, NEW g \in Gri, SetUp(g)
  PROVE  NInv'
<1> DEFINE l == [owner |-> g, bw |-> grant[g].bw, tags |-> grant[g].tags]
<1>1. /\ status[g] = "confirmed" /\ net' = net \cup {l}
      /\ \A m \in net : m.owner # g
      /\ UNCHANGED <<te, deltas, gris, lsa, grant>>
  BY DEF SetUp, InNet, Of
<1>2. PICK d \in deltas : d.owner = g /\ d.ttl > 0 /\ d.tags = l.tags /\ d.bw = l.bw
  BY DEF SetUp, Undisturbed, Of, RInv, NInv
<1>3. g \notin gris /\ g \notin lsa.gris
  BY <1>1 DEF RInv, Signalled
<1>4. l.owner = g
  OBVIOUS
<1>h. HIDE DEF l
<1>5. \A m \in net : l.tags \cap m.tags = {}
  <2> SUFFICES ASSUME NEW m \in net PROVE l.tags \cap m.tags = {}
    OBVIOUS
  <2>1. CASE m.owner \in gris
    BY <1>2, <2>1 DEF NInv, Covered, TagsOf
  <2>2. CASE m.owner \notin gris
    <3>1. PICK e \in deltas : e.owner = m.owner /\ e.tags = m.tags
      BY <2>2 DEF NInv, Covered
    <3> QED BY <1>1, <1>2, <3>1 DEF RInv, NoContention
  <2> QED BY <2>1, <2>2
<1>6. NetTags'
  BY <1>1, <1>4, <1>5 DEF NInv, NetTags
<1>7. Covered'
  BY <1>1, <1>2, <1>3, <1>4 DEF NInv, Covered
<1>8. Listed(gris)' = Listed(gris) /\ Listed(lsa.gris)' = Listed(lsa.gris)
  BY <1>1, <1>3, <1>4 DEF Listed
<1>9. LsaSound'
  BY <1>1, <1>3, <1>4, <1>8 DEF NInv, LsaSound
<1>10. Booked'
  BY <1>1, <1>8 DEF NInv, Booked
<1> QED BY <1>1, <1>6, <1>7, <1>9, <1>10 DEF NInv

LEMMA NTearDown ==
  ASSUME TInv, NInv, NEW g \in Gri, TearDown(g)
  PROVE  NInv'
<1> DEFINE M(G) == {l \in net' : l.owner \in G}
<1>1. net' \in SUBSET net /\ UNCHANGED <<te, deltas, gris, lsa, grant>>
  BY DEF TearDown
<1>2. \A G : /\ Listed(G) \in SUBSET net
             /\ M(G) \in SUBSET Listed(G)
  BY <1>1 DEF Listed
<1>h. HIDE DEF M
<1>3. \A G : /\ SumBw(Listed(G)) \in Nat /\ SumBw(M(G)) \in Nat
             /\ SumBw(M(G)) <= SumBw(Listed(G))
  <2> SUFFICES ASSUME NEW G
               PROVE /\ SumBw(Listed(G)) \in Nat /\ SumBw(M(G)) \in Nat
                     /\ SumBw(M(G)) <= SumBw(Listed(G))
    OBVIOUS
  <2>1. M(G) \in SUBSET net
    BY <1>2 DEF Listed
  <2>2. HasBw(Listed(G)) /\ SumBw(Listed(G)) \in Nat /\ SumBw(M(G)) \in Nat
    BY <1>2, <2>1, SumTypes
  <2> QED BY <1>2, <2>2, SumMono
<1>4. te.bw \in Nat /\ SumBw(deltas) \in Nat /\ MaxBw \in Nat
  BY SumTypes
<1>5. Booked'
  <2>1. te.bw + SumBw(Listed(gris)) + SumBw(deltas) <= MaxBw
    BY DEF NInv, Booked
  <2>2. te.bw + SumBw(M(gris)) + SumBw(deltas) <= MaxBw
    BY <1>3, <1>4, <2>1
  <2> QED BY <1>1, <2>2 DEF Booked, Listed, M
<1>6. LsaSound'
  <2> SUFFICES ASSUME lsa.sent PROVE LsaSound'
    BY <1>1 DEF LsaSound
  <2>1. lsa.bw \in Nat
    BY LinkAssumption DEF TInv, TypeOK, Lsa, LinkAssumption
  <2>2. lsa.bw + SumBw(Listed(lsa.gris)) <= MaxBw
    BY DEF NInv, LsaSound
  <2>3. lsa.bw + SumBw(M(lsa.gris)) <= MaxBw
    BY <1>3, <1>4, <2>1, <2>2
  <2> QED BY <1>1, <2>3 DEF NInv, LsaSound, Listed, M
<1>7. NetTags' /\ Covered'
  BY <1>1 DEF NInv, NetTags, Covered
<1> QED BY <1>1, <1>5, <1>6, <1>7 DEF NInv

LEMMA NOriginate ==
  ASSUME TInv, NInv, Originate
  PROVE  NInv'
<1>1. UNCHANGED <<te, deltas, gris, grant, net>>
  BY DEF Originate
<1>2. SumBw(net) \in Nat /\ SumBw(net) <= MaxBw /\ MaxBw \in Nat
  <2> DEFINE B == {d \in deltas : ~InNet(d.owner)}
  <2>1. SumBw(B) \in Nat /\ SumBw(net) \in Nat
    BY SumTypes
  <2>2. te.bw + SumBw(net) + SumBw(B) <= MaxBw
    BY Offered
  <2>h. HIDE DEF B
  <2> QED BY <2>1, <2>2, SumTypes
<1>3. /\ lsa'.vlan = Tags \ TagsOf(net) /\ lsa'.gris = {l.owner : l \in net}
      /\ lsa'.bw = MaxBw - SumBw(net)
  BY <1>2 DEF Originate
<1>4. (Listed(lsa.gris))' = net
  BY <1>1, <1>3 DEF Listed
<1>5. lsa'.bw + SumBw((Listed(lsa.gris))') <= MaxBw
  BY <1>2, <1>3, <1>4
<1>6. \A l \in net : l.owner \in lsa'.gris /\ l.tags \cap lsa'.vlan = {}
  BY <1>3 DEF TagsOf
<1>7. LsaSound'
  <2>1. SumBw(Listed(lsa.gris))' = SumBw((Listed(lsa.gris))')
    BY DEF SumBw, Units
  <2> QED BY <1>1, <1>5, <1>6, <2>1 DEF LsaSound
<1> QED BY <1>1, <1>7 DEF NInv, NetTags, Covered, Booked, Listed

(* The deltas that a new LSA leaves.                                       *)
LEMMA KeptIs ==
  ASSUME TInv, RInv, NEW G
  PROVE  Kept(deltas, G) = {d \in deltas : d.owner \notin G /\ d.ttl # 0}
<1>1. \A g : First(deltas, g) = Of(deltas, g)
  BY FirstIsOf DEF RInv
<1>2. UNION {First(deltas, g) : g \in G} = {d \in deltas : d.owner \in G}
  BY <1>1 DEF Of
<1> QED BY <1>2 DEF Kept, Expired

LEMMA NDeliver ==
  ASSUME TInv, RInv, NInv, Deliver
  PROVE  NInv'
<1> DEFINE K == Kept(deltas, lsa.gris)
           C == {d \in deltas : d.owner \in lsa.gris}
           N == Listed(lsa.gris)
           U == {l \in net : l.owner \in lsa.gris \ gris}
<1>1. /\ lsa.sent /\ deltas' = K /\ te' = Minus(Fresh(lsa), K) /\ gris' = lsa.gris
      /\ lsa'.sent = FALSE /\ UNCHANGED <<grant, net>>
  BY DEF Deliver, Relinked, NoLsa
<1>2. K = {d \in deltas : d.owner \notin lsa.gris /\ d.ttl # 0}
  BY KeptIs
<1>3. /\ \A l \in net : /\ l.owner \in gris => l.owner \in lsa.gris
                        /\ l.owner \in lsa.gris => l.tags \cap lsa.vlan = {}
      /\ lsa.bw + SumBw(N) <= MaxBw
  BY <1>1 DEF NInv, LsaSound
<1>4. NetTags' /\ LsaSound'
  BY <1>1 DEF NInv, NetTags, LsaSound
<1>5. Covered'
  <2> SUFFICES ASSUME NEW l \in net
               PROVE /\ l.owner \notin lsa.gris =>
                          \E d \in K : /\ d.owner = l.owner /\ d.ttl > 0
                                       /\ d.tags = l.tags /\ d.bw = l.bw
                     /\ l.owner \in lsa.gris => l.tags \cap (te'.vlan \cup TagsOf(K)) = {}
    BY <1>1 DEF Covered
  <2>1. CASE l.owner \notin lsa.gris
    <3>1. PICK d \in deltas : /\ d.owner = l.owner /\ d.ttl > 0
                              /\ d.tags = l.tags /\ d.bw = l.bw
      BY <1>3, <2>1 DEF NInv, Covered
    <3>2. d \in K
      BY <1>2, <2>1, <3>1
    <3> QED BY <2>1, <3>1, <3>2
  <2>2. CASE l.owner \in lsa.gris
    <3>1. l.tags \cap te'.vlan = {}
      BY <1>1, <1>3, <2>2 DEF Minus, Fresh
    <3>2. ASSUME NEW d \in K PROVE l.tags \cap d.tags = {}
      <4>1. d \in deltas /\ d.owner # l.owner
        BY <1>2, <2>2
      <4>2. CASE l.owner \in gris
        BY <4>1, <4>2 DEF NInv, Covered, TagsOf
      <4>3. CASE l.owner \notin gris
        <5>1. PICK e \in deltas : e.owner = l.owner /\ e.tags = l.tags
          BY <4>3 DEF NInv, Covered
        <5> QED BY <4>1, <5>1 DEF RInv, NoContention
      <4> QED BY <4>2, <4>3
    <3> QED BY <2>2, <3>1, <3>2 DEF TagsOf
  <2> QED BY <2>1, <2>2
<1>6. \A d \in deltas' : d.owner \notin gris' /\ d.bw = grant'[d.owner].bw
  BY <1>1, <1>2 DEF NInv
<1>7. /\ K \in SUBSET deltas /\ C \in SUBSET deltas /\ C \cap K = {}
      /\ C \cup K \in SUBSET deltas
  BY <1>2
<1>8. /\ N \in SUBSET net /\ U \in SUBSET net /\ Listed(gris) \in SUBSET net
      /\ N = Listed(gris) \cup U /\ Listed(gris) \cap U = {}
  BY <1>3 DEF Listed
<1>9. \A l \in U : \E d \in C : d.owner = l.owner /\ d.bw = l.bw
  BY DEF NInv, Covered
<1>10. te'.bw = IF lsa.bw - SumBw(K) < 0 THEN 0 ELSE lsa.bw - SumBw(K)
  BY <1>1 DEF Minus, Fresh
<1>h. HIDE DEF K, C, N, U
<1>11. /\ HasBw(K) /\ HasBw(C) /\ SumBw(K) \in Nat /\ SumBw(C) \in Nat
       /\ HasBw(U) /\ HasBw(Listed(gris)) /\ SumBw(N) \in Nat /\ SumBw(U) \in Nat
       /\ SumBw(Listed(gris)) \in Nat /\ SumBw(deltas) \in Nat
  BY <1>7, <1>8, SumTypes
<1>12. SumBw(N) = SumBw(Listed(gris)) + SumBw(U)
  BY <1>8, <1>11, SumUnion
<1>13. SumBw(U) <= SumBw(C)
  BY <1>7, <1>8, <1>9, SumCovered DEF NInv
<1>14. SumBw(C) + SumBw(K) <= SumBw(deltas)
  <2>1. SumBw(C \cup K) = SumBw(C) + SumBw(K)
    BY <1>7, <1>11, SumUnion
  <2>2. SumBw(C \cup K) <= SumBw(deltas)
    BY <1>7, SumTypes, SumMono
  <2> QED BY <2>1, <2>2
<1>15. te.bw + SumBw(Listed(gris)) + SumBw(deltas) <= MaxBw
  BY DEF NInv, Booked
<1>16. te'.bw + SumBw(N) + SumBw(K) <= MaxBw
  <2>1. lsa.bw \in Nat
    BY LinkAssumption DEF TInv, TypeOK, Lsa, LinkAssumption
  <2> QED BY <1>3, <1>10, <1>11, <1>12, <1>13, <1>14, <1>15, <2>1, SumTypes
<1>17. Booked'
  BY <1>1, <1>16 DEF Booked, Listed, N
<1> QED BY <1>4, <1>5, <1>6, <1>17 DEF NInv

LEMMA NTick ==
  ASSUME Undisturbed, TInv, NInv, TInv', Tick
  PROVE  NInv'
<1> DEFINE aged(d) == [d EXCEPT !.ttl = IF @ > 0 THEN @ - 1 ELSE 0]
<1>1. /\ deltas' = {aged(d) : d \in deltas} /\ UNCHANGED <<te, gris, lsa, grant, net>>
      /\ \A g \in Gri : Unadvertised(g) => \A d \in Of(deltas, g) : d.ttl > 1
  BY DEF Tick, Undisturbed
<1>2. \A d \in deltas : /\ aged(d).owner = d.owner /\ aged(d).tags = d.tags
                        /\ aged(d).bw = d.bw
                        /\ d.ttl > 1 => aged(d).ttl > 0
  BY DEF TInv, TypeOK, Delta
<1>h. HIDE DEF aged
<1> DEFINE f == [e \in deltas' |-> CHOOSE d \in deltas : e = aged(d)]
<1>3. \A e \in deltas' : f[e] \in deltas /\ e = aged(f[e])
  BY <1>1
<1>4. f \in [deltas' -> deltas]
  BY <1>3
<1>5. \A e \in deltas' : e.owner = f[e].owner /\ e.tags = f[e].tags /\ e.bw = f[e].bw
  BY <1>2, <1>3
<1>6. \A d, e \in deltas' : f[d] = f[e] => d = e
  BY <1>3
<1>7. \A e \in deltas' : e.bw \in Nat
  BY NextTypes DEF HasBw
<1>h2. HIDE DEF f
<1>8. SumBw(deltas') <= SumBw(deltas)
  BY <1>4, <1>5, <1>6, <1>7, SumTypes, SumInj
<1>9. Booked'
  <2>1. SumBw(Listed(gris)) \in Nat /\ SumBw(deltas) \in Nat
    BY SumTypes DEF Listed
  <2>2. te.bw + SumBw(Listed(gris)) + SumBw(deltas) <= MaxBw
    BY DEF NInv, Booked
  <2>3. te.bw + SumBw(Listed(gris)) + SumBw(deltas') <= MaxBw
    BY <1>8, <2>1, <2>2, SumTypes, NextTypes
  <2> QED BY <1>1, <2>3 DEF Booked, Listed
<1>10. Covered'
  <2> SUFFICES ASSUME NEW l \in net
               PROVE /\ l.owner \notin gris =>
                          \E d \in deltas' : /\ d.owner = l.owner /\ d.ttl > 0
                                             /\ d.tags = l.tags /\ d.bw = l.bw
                     /\ l.owner \in gris => l.tags \cap (te.vlan \cup TagsOf(deltas')) = {}
    BY <1>1 DEF Covered
  <2>1. CASE l.owner \notin gris
    <3>1. PICK d \in deltas : d.owner = l.owner /\ d.tags = l.tags /\ d.bw = l.bw
      BY <2>1 DEF NInv, Covered
    <3>2. l.owner \in Gri
      BY DEF TInv, TypeOK, Lsp
    <3>3. d.ttl > 1
      BY <1>1, <2>1, <3>1, <3>2 DEF Unadvertised, InNet, Of
    <3>4. aged(d) \in deltas'
      BY <1>1
    <3> QED BY <1>2, <2>1, <3>1, <3>3, <3>4
  <2>2. CASE l.owner \in gris
    <3>1. TagsOf(deltas') \subseteq TagsOf(deltas)
      BY <1>3, <1>5 DEF TagsOf
    <3> QED BY <2>2, <3>1 DEF NInv, Covered
  <2> QED BY <2>1, <2>2
<1>11. \A e \in deltas' : e.owner \notin gris /\ e.bw = grant[e.owner].bw
  BY <1>3, <1>5 DEF NInv
<1> QED BY <1>1, <1>9, <1>10, <1>11 DEF NInv, NetTags, LsaSound, Listed

LEMMA NStep == Undisturbed /\ TInv /\ RInv /\ NInv /\ [Next]_vars => NInv'
<1> SUFFICES ASSUME Undisturbed, TInv, RInv, NInv, [Next]_vars PROVE NInv'
  OBVIOUS
<1>0. TInv'
  BY TypeStep
<1>1. ASSUME NEW g \in Gri PROVE Vanish(g) => NInv'
  BY DEF Vanish, NInv, NetTags, Covered, LsaSound, Booked, Listed
<1>2. CASE UNCHANGED vars
  BY <1>2 DEF vars, NInv, NetTags, Covered, LsaSound, Booked, Listed
<1>3. /\ ~CliDeleteDeltas /\ ~Withdraw
      /\ \A g \in Gri, req \in Request : ~QueryShadow(g, req)
  BY DEF Undisturbed, CliDeleteDeltas, Withdraw, QueryShadow
<1> QED
  BY <1>0, <1>1, <1>2, <1>3, NQueryHold, NQueryNoHold, NConfirm, NUpdate, NDelete,
     NSetUp, NTearDown, NOriginate, NDeliver, NTick DEF Next

LEMMA Composed ==
  ASSUME Undisturbed
  PROVE  Spec => [](TInv /\ RInv /\ NInv)
<1>1. Init => TInv /\ RInv /\ NInv
  BY TypeInit, RInit, NInit
<1>2. TInv /\ RInv /\ NInv /\ [Next]_vars => (TInv /\ RInv /\ NInv)'
  BY TypeStep, RStep, NStep DEF Undisturbed, Disciplined
<1> QED BY <1>1, <1>2, PTL DEF Spec

(* If nothing disturbs the protocol, the network is never asked to set up  *)
(* two LSPs on one VLAN tag, nor more bandwidth than the link has, however *)
(* many GRIs compete and however late the LSAs are.                        *)
THEOREM NetworkSafe ==
  ASSUME Undisturbed
  PROVE  Spec => []NetworkNotOverbooked
<1>1. TInv /\ RInv /\ NInv => NetworkNotOverbooked
  <2> SUFFICES ASSUME TInv, NInv PROVE NetworkNotOverbooked
    OBVIOUS
  <2> DEFINE B == {d \in deltas : ~InNet(d.owner)}
  <2>1. SumBw(B) \in Nat /\ SumBw(net) \in Nat
    BY SumTypes
  <2>2. te.bw + SumBw(net) + SumBw(B) <= MaxBw
    BY Offered
  <2>h. HIDE DEF B
  <2>3. SumBw(net) <= MaxBw
    BY <2>1, <2>2, SumTypes
  <2> QED BY <2>3 DEF NetworkNotOverbooked, NInv, NetTags
<1> QED BY <1>1, Composed, PTL

(* And the RCE never offers bandwidth that an LSP or a hold takes.         *)
THEOREM OfferedIsFree ==
  ASSUME Undisturbed
  PROVE  Spec => []NeverOffersTakenBandwidth
<1>1. TInv /\ RInv /\ NInv => NeverOffersTakenBandwidth
  BY Offered DEF NeverOffersTakenBandwidth
<1> QED BY <1>1, Composed, PTL

=============================================================================

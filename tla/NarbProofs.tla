----------------------------- MODULE NarbProofs ------------------------------
(***************************************************************************)
(* What holds of the components of NARB that keep to themselves: of the    *)
(* store of confirmation IDs, for every number of IDs and of entries and   *)
(* for every setting of its times; of the line that is edited in a session *)
(* of the command line, for any characters and lengths for which a line    *)
(* fits into a row of the terminal; of these sessions, and of the clients  *)
(* of RCEs, for any number of them.                                        *)
(***************************************************************************)
EXTENDS MCNarb, TLAPS, FiniteSetTheorems, SequenceTheorems

Sess == INSTANCE CliSessionProofs
Peer == INSTANCE ApiClientProofs WITH made <- clients

-----------------------------------------------------------------------------
(* The store of confirmation IDs.  Its invariant: the entries of the list  *)
(* are the latest ones made for their IDs, every entry has its timer, and  *)
(* until it expires its age and the time left add up to ExpireSecs.        *)

Latest == \A e \in listed, d \in 1 .. made : ent[d].key = ent[e].key => d <= e

Clock == \A e \in live :
           /\ ent[e].trash \in 0 .. TrashSecs
           /\ ~ent[e].expired => ent[e].age + ent[e].due = ExpireSecs

SInv == TypeOK /\ timers = live /\ ListedExists /\ Latest /\ Clock

(* What the code may do to the list: whatever is taken off, the rest still *)
(* is the latest of its ID.                                                *)
LEMMA RemoveLeaves ==
  ASSUME NEW k, SInv
  PROVE  /\ Remove(k) \subseteq listed
         /\ \A e \in Remove(k) : ent[e].key # k
<1>1. Remove(k) \subseteq listed
  BY DEF Remove
<1>2. ASSUME NEW e \in Remove(k), ent[e].key = k PROVE FALSE
  <2>1. e \in listed /\ e \in 1 .. made
    BY <1>1, <1>2 DEF SInv, ListedExists, TypeOK
  <2>2. PICK d \in listed : ent[d].key = k /\ ~(d <= e)
    BY <1>2, <2>1 DEF Remove, Lookup
  <2>3. d \in 1 .. made
    BY <2>2 DEF SInv, ListedExists, TypeOK
  <2>4. QED BY <1>2, <2>1, <2>2, <2>3 DEF SInv, Latest
<1>3. QED BY <1>1, <1>2

LEMMA Frame ==
  ASSUME SInv
  PROVE  /\ made \in Nat /\ 1 .. made \subseteq Ids /\ live \subseteq 1 .. made
         /\ live \subseteq Ids /\ listed \subseteq live /\ timers = live
         /\ ent \in [Ids -> Entry]
<1>1. /\ made \in 0 .. MaxEntries /\ live \subseteq 1 .. made /\ listed \subseteq live
      /\ timers = live /\ ent \in [Ids -> Entry]
  BY DEF SInv, TypeOK, ListedExists
<1>2. 1 .. made \subseteq Ids BY <1>1, StoreAssumption DEF Ids
<1>3. QED BY <1>1, <1>2

LEMMA StoreInit == Init => SInv
<1> SUFFICES ASSUME Init PROVE SInv OBVIOUS
<1> USE StoreAssumption
<1>1. PICK k \in Key : ent = [e \in Ids |-> Blank(k)] BY DEF Init
<1>2. Blank(k) \in Entry BY DEF Blank, Entry
<1>3. ent \in [Ids -> Entry] BY <1>1, <1>2
<1>4. lspq \in [Key -> Lspq] BY DEF Init, NewLspq, Lspq, LspqStates
<1>5. QED BY <1>3, <1>4 DEF Init, SInv, TypeOK, ListedExists, Latest, Clock

(* The steps that concern LSPQs alone.                                     *)
LEMMA Unchanged ==
  ASSUME SInv, UNCHANGED <<made, ent, live, listed, timers>>, lspq' \in [Key -> Lspq]
  PROVE  SInv'
BY DEF SInv, TypeOK, ListedExists, Latest, Clock

LEMMA StoreEROKeeps ==
  ASSUME SInv, NEW k \in Key, StoreERO(k)
  PROVE  SInv'
<1> USE StoreAssumption
<1> DEFINE n == made + 1
<1>1. /\ made \in Nat /\ n \in Ids /\ made' = n /\ live' = live \cup {n}
      /\ listed' = Remove(k) \cup {n} /\ timers' = timers \cup {n}
      /\ ent \in [Ids -> Entry] /\ live \subseteq 1 .. made /\ lspq' = lspq
  BY DEF StoreERO, SInv, TypeOK, Ids, Store
<1> DEFINE new == [key |-> k, trash |-> TrashSecs, expired |-> FALSE, border |-> FALSE,
                   due |-> ExpireSecs, age |-> 0]
<1>2. /\ ent' = [ent EXCEPT ![n] = new] /\ new \in Entry
  BY DEF StoreERO, Entry
<1> HIDE DEF new
<1>3. /\ ent' \in [Ids -> Entry] /\ ent'[n] = new
      /\ \A e \in 1 .. made : e \in Ids /\ ent'[e] = ent[e]
  <2>1. \A e \in 1 .. made : e \in Ids /\ e # n BY <1>1, Frame
  <2>2. QED BY <1>1, <1>2, <2>1
<1> USE DEF new
<1>4. Remove(k) \subseteq listed /\ \A e \in Remove(k) : ent[e].key # k
  BY RemoveLeaves
<1>5. listed \subseteq 1 .. made /\ listed \subseteq live
  BY <1>1 DEF SInv, ListedExists
<1>6. Clock'
  <2> SUFFICES ASSUME NEW e \in live'
               PROVE  /\ ent'[e].trash \in 0 .. TrashSecs
                      /\ ~ent'[e].expired => ent'[e].age + ent'[e].due = ExpireSecs
    BY DEF Clock
  <2>1. CASE e = n BY <1>3, <2>1
  <2>2. CASE e \in live BY <1>1, <1>3, <2>2 DEF SInv, Clock
  <2>3. QED BY <1>1, <2>1, <2>2
<1>7. Latest'
  <2> SUFFICES ASSUME NEW e \in listed', NEW d \in 1 .. made', ent'[d].key = ent'[e].key
               PROVE  d <= e
    BY DEF Latest
  <2>1. CASE e = n BY <1>1, <2>1
  <2>2. CASE e \in Remove(k)
    <3>1. e \in 1 .. made /\ ent'[e] = ent[e] /\ ent[e].key # k
      BY <1>3, <1>4, <1>5, <2>2
    <3>2. d # n BY <1>3, <3>1
    <3>3. d \in 1 .. made BY <1>1, <3>2
    <3>4. QED BY <1>3, <1>4, <2>2, <3>1, <3>3 DEF SInv, Latest
  <2>3. QED BY <1>1, <2>1, <2>2
<1>8. \A e \in live' : ent'[e].due \in -MaxLag .. TrashSecs + ExpireSecs
  <2> SUFFICES ASSUME NEW e \in live' PROVE ent'[e].due \in -MaxLag .. TrashSecs + ExpireSecs
    OBVIOUS
  <2>1. CASE e = n BY <1>3, <2>1
  <2>2. CASE e \in live BY <1>1, <1>3, <2>2 DEF SInv, TypeOK
  <2>3. QED BY <1>1, <2>1, <2>2
<1>9. TypeOK'
  <2>1. made' \in 0 .. MaxEntries BY <1>1 DEF StoreERO
  <2>2. live' \subseteq 1 .. made' BY <1>1
  <2>3. listed' \subseteq Ids /\ timers' \subseteq Ids BY <1>1, <1>4, <1>5, Frame
  <2>4. lspq' \in [Key -> Lspq] BY <1>1 DEF SInv, TypeOK
  <2>5. QED BY <1>3, <1>8, <2>1, <2>2, <2>3, <2>4 DEF TypeOK
<1>10. QED BY <1>1, <1>4, <1>5, <1>6, <1>7, <1>9 DEF SInv, ListedExists

LEMMA RequestKeeps ==
  ASSUME SInv, NEW k \in Key, Request(k)
  PROVE  SInv'
<1> USE StoreAssumption
<1>1. UNCHANGED <<made, live, listed, timers>> BY DEF Request, HandleStoredERO
<1>2. lspq' \in [Key -> Lspq]
  BY DEF Request, HandleStoredERO, SInv, TypeOK, Lspq, LspqStates
<1>3. /\ ent' \in [Ids -> Entry]
      /\ \A e \in Ids : /\ ent'[e].key = ent[e].key /\ ent'[e].due = ent[e].due
                        /\ ent'[e].trash = ent[e].trash /\ ent'[e].age = ent[e].age
                        /\ ent'[e].expired = ent[e].expired
  <2>1. ent \in [Ids -> Entry] BY DEF SInv, TypeOK
  <2>2. ent' = [e \in Ids |-> IF e \in Outdated(k) THEN [ent[e] EXCEPT !.border = TRUE]
                                                   ELSE ent[e]]
    BY DEF Request, HandleStoredERO
  <2>3. ASSUME NEW e \in Ids
        PROVE  /\ ent'[e] \in Entry
               /\ ent'[e].key = ent[e].key /\ ent'[e].due = ent[e].due
               /\ ent'[e].trash = ent[e].trash /\ ent'[e].age = ent[e].age
               /\ ent'[e].expired = ent[e].expired
    <3>1. ent[e] \in Entry BY <2>1
    <3>2. CASE e \in Outdated(k) BY <2>2, <3>1, <3>2 DEF Entry
    <3>3. CASE e \notin Outdated(k) BY <2>2, <3>1, <3>3
    <3>4. QED BY <3>2, <3>3
  <2>4. QED BY <2>2, <2>3
<1>4. live \subseteq Ids /\ listed \subseteq Ids /\ 1 .. made \subseteq Ids
  BY DEF SInv, TypeOK, Ids
<1>5. TypeOK' BY <1>1, <1>2, <1>3, <1>4 DEF SInv, TypeOK
<1>6. Latest' BY <1>1, <1>3, <1>4 DEF SInv, Latest
<1>7. Clock' BY <1>1, <1>3, <1>4 DEF SInv, Clock
<1>8. QED BY <1>1, <1>5, <1>6, <1>7 DEF SInv, ListedExists

LEMMA ReplyKeeps ==
  ASSUME SInv, NEW k \in Key, RceReply(k) \/ PeerReply(k)
  PROVE  SInv'
<1>1. UNCHANGED <<made, ent, live, listed, timers>> BY DEF RceReply, PeerReply
<1>2. lspq' \in [Key -> Lspq]
  BY DEF RceReply, PeerReply, SInv, TypeOK, Lspq, LspqStates
<1>3. QED BY <1>1, <1>2, Unchanged

LEMMA TimerKeeps ==
  ASSUME SInv, NEW e \in Ids, RunTimer(e)
  PROVE  SInv'
<1> USE StoreAssumption
<1>1. /\ e \in live /\ ent \in [Ids -> Entry] /\ ent[e] \in Entry
      /\ UNCHANGED <<made, lspq>> /\ live \subseteq Ids /\ 1 .. made \subseteq Ids
      /\ listed \subseteq live /\ live \subseteq 1 .. made /\ timers = live
  BY DEF RunTimer, Due, SInv, TypeOK, ListedExists, Ids
<1>2. CASE Kept(e) /\ ent' = [ent EXCEPT ![e] = Expired(e)]
           /\ UNCHANGED <<live, listed, timers>>
  <2>1. ent[e].trash \in 0 .. TrashSecs BY <1>1 DEF SInv, Clock
  <2>2. /\ Expired(e) \in Entry /\ Expired(e).key = ent[e].key
        /\ Expired(e).expired = TRUE /\ Expired(e).trash = 0
        /\ Expired(e).due = ent[e].trash + ExpireSecs
    <3>1. ent[e].trash + ExpireSecs \in Int BY <2>1
    <3>2. Expired(e) = [ent[e] EXCEPT !.expired = TRUE, !.trash = 0,
                                      !.due = ent[e].trash + ExpireSecs]
      BY DEF Expired
    <3>3. Expired(e) = [key |-> ent[e].key, trash |-> 0, expired |-> TRUE,
                        border |-> ent[e].border, due |-> ent[e].trash + ExpireSecs,
                        age |-> ent[e].age]
      BY <1>1, <3>2 DEF Entry
    <3>4. ent[e].key \in Key /\ ent[e].border \in BOOLEAN /\ ent[e].age \in Nat
      BY <1>1 DEF Entry
    <3>5. QED BY <3>1, <3>3, <3>4 DEF Entry
  <2>3. /\ ent' \in [Ids -> Entry] /\ ent'[e] = Expired(e)
        /\ \A d \in Ids : d # e => ent'[d] = ent[d]
    BY <1>1, <1>2, <2>2
  <2>4. \A d \in Ids : ent'[d].key = ent[d].key BY <2>2, <2>3
  <2>5. Latest' BY <1>1, <1>2, <2>4 DEF SInv, Latest
  <2>6. Clock' BY <1>1, <1>2, <2>2, <2>3 DEF SInv, Clock
  <2>7. \A d \in live : ent'[d].due \in -MaxLag .. TrashSecs + ExpireSecs
    BY <1>1, <2>1, <2>2, <2>3 DEF SInv, TypeOK
  <2>8. TypeOK' BY <1>1, <1>2, <2>3, <2>7 DEF SInv, TypeOK
  <2>9. QED BY <1>1, <1>2, <2>5, <2>6, <2>8 DEF SInv, ListedExists
<1>3. CASE /\ live' = live \ {e} /\ timers' = timers \ {e}
           /\ listed' = Remove(ent[e].key)
           /\ ent' = [ent EXCEPT ![e] = Blank(ent[e].key)]
  <2>1. /\ listed' \subseteq listed
        /\ \A d \in listed' : ent[d].key # ent[e].key
    BY <1>3, RemoveLeaves
  <2>2. Blank(ent[e].key) \in Entry /\ Blank(ent[e].key).key = ent[e].key
    BY <1>1 DEF Blank, Entry
  <2>3. /\ ent' \in [Ids -> Entry] /\ ent'[e] = Blank(ent[e].key)
        /\ \A d \in Ids : d # e => ent'[d] = ent[d]
    BY <1>1, <1>3, <2>2
  <2>4. \A d \in Ids : ent'[d].key = ent[d].key BY <2>2, <2>3
  <2>5. ListedExists' BY <1>1, <1>3, <2>1 DEF ListedExists
  <2>6. Latest' BY <1>1, <2>1, <2>4 DEF SInv, Latest
  <2>7. Clock' BY <1>1, <1>3, <2>3 DEF SInv, Clock
  <2>8. TypeOK' BY <1>1, <1>3, <2>1, <2>3 DEF SInv, TypeOK
  <2>9. QED BY <1>1, <1>3, <2>5, <2>6, <2>7, <2>8 DEF SInv
<1>4. QED BY <1>2, <1>3 DEF RunTimer

LEMMA TickKeeps ==
  ASSUME SInv, Tick
  PROVE  SInv'
<1> USE StoreAssumption
<1>1. /\ UNCHANGED <<made, live, listed, timers, lspq>> /\ ent \in [Ids -> Entry]
      /\ live \subseteq Ids /\ 1 .. made \subseteq Ids /\ listed \subseteq Ids
      /\ \A e \in live : ent[e].due > -MaxLag
  BY Frame DEF Tick
<1>2. ASSUME NEW e \in Ids
      PROVE  /\ ent'[e] \in Entry /\ ent'[e].key = ent[e].key
             /\ ent'[e].expired = ent[e].expired /\ ent'[e].trash = ent[e].trash
             /\ e \in live => /\ ent'[e].due = ent[e].due - 1
                              /\ ent'[e].age = ent[e].age + 1
  <2>1. ent[e] \in Entry BY <1>1
  <2>2. ent'[e] = IF e \in live THEN [ent[e] EXCEPT !.due = @ - 1, !.age = @ + 1]
                                ELSE ent[e]
    BY Frame DEF Tick
  <2>3. ent[e].due - 1 \in Int /\ ent[e].age + 1 \in Nat BY <2>1 DEF Entry
  <2>4. CASE e \in live
    <3>1. ent'[e] = [ent[e] EXCEPT !.due = ent[e].due - 1, !.age = ent[e].age + 1]
      BY <2>2, <2>4
    <3>2. QED BY <2>1, <2>3, <3>1 DEF Entry
  <2>5. CASE e \notin live BY <2>1, <2>2, <2>5
  <2>6. QED BY <2>4, <2>5
<1>3. ent' \in [Ids -> Entry]
  <2>1. ent' = [e \in Ids |-> ent'[e]] BY DEF Tick
  <2>2. QED BY <1>2, <2>1
<1>4. ASSUME NEW e \in live
      PROVE  /\ ent'[e].due \in -MaxLag .. TrashSecs + ExpireSecs
             /\ ~ent'[e].expired => ent'[e].age + ent'[e].due = ExpireSecs
  <2>1. e \in Ids /\ ent[e] \in Entry BY <1>1
  <2>2. ent[e].due \in Int /\ ent[e].age \in Nat BY <2>1 DEF Entry
  <2>3. /\ ent[e].due \in -MaxLag .. TrashSecs + ExpireSecs
        /\ ent[e].due > -MaxLag
        /\ ~ent[e].expired => ent[e].age + ent[e].due = ExpireSecs
    BY <1>1 DEF SInv, TypeOK, Clock
  <2>4. QED BY <1>2, <2>1, <2>2, <2>3
<1>5. TypeOK' BY <1>1, <1>3, <1>4 DEF SInv, TypeOK
<1>6. Latest' BY <1>1, <1>2 DEF SInv, Latest
<1>7. Clock' BY <1>1, <1>2, <1>4 DEF SInv, Clock
<1>8. QED BY <1>1, <1>5, <1>6, <1>7 DEF SInv, ListedExists

LEMMA StoreInductive == SInv /\ [Next]_vars => SInv'
<1> SUFFICES ASSUME SInv, [Next]_vars PROVE SInv' OBVIOUS
<1>1. CASE UNCHANGED vars
  <2>1. lspq' \in [Key -> Lspq] BY <1>1 DEF vars, SInv, TypeOK
  <2>2. QED BY <1>1, <2>1, Unchanged DEF vars
<1>2. ASSUME NEW k \in Key, StoreERO(k) PROVE SInv' BY <1>2, StoreEROKeeps
<1>3. ASSUME NEW k \in Key, Request(k) PROVE SInv' BY <1>3, RequestKeeps
<1>4. ASSUME NEW k \in Key, RceReply(k) \/ PeerReply(k) PROVE SInv' BY <1>4, ReplyKeeps
<1>5. ASSUME NEW e \in Ids, RunTimer(e) PROVE SInv' BY <1>5, TimerKeeps
<1>6. CASE Tick BY <1>6, TickKeeps
<1>7. QED BY <1>1, <1>2, <1>3, <1>4, <1>5, <1>6 DEF Next

LEMMA StoreInvariant == Spec => []SInv
<1>1. Init => SInv BY StoreInit
<1>2. SInv /\ [Next]_vars => SInv' BY StoreInductive
<1>3. QED BY <1>1, <1>2, PTL DEF Spec

(* No entry of the list is one that was deleted (the destructor of         *)
(* ConfirmationIDIndxedEROWithTimer), and there is one for an ID.          *)
THEOREM ListIntact == Spec => []ListWhole
<1>1. SInv => ListWhole
  <2> SUFFICES ASSUME SInv PROVE OnePerId BY DEF SInv, ListWhole
  <2>1. listed \subseteq 1 .. made /\ made \in Nat BY DEF SInv, ListedExists, TypeOK
  <2>2. ASSUME NEW d \in listed, NEW e \in listed, ent[d].key = ent[e].key PROVE d = e
    <3>1. d <= e /\ e <= d BY <2>1, <2>2 DEF SInv, Latest
    <3>2. QED BY <2>1, <3>1
  <2>3. QED BY <2>2 DEF OnePerId
<1>2. QED BY <1>1, StoreInvariant, PTL

(* A request is answered with a stored ERO only if it is the last one      *)
(* stored for the ID and has not expired (HandleStoredEROWithConfirmationID*)
(* looks at the first entry of the list).                                  *)
THEOREM ServedCurrent == Spec => ServedIsCurrent
<1> USE StoreAssumption
<1> DEFINE Good(k) == Request(k) /\ lspq'[k].ero = "stored" =>
             \A e \in Lookup(k) :
               /\ ent[e].age <= ExpireSecs + MaxLag
               /\ \A d \in 1 .. made : ent[d].key = k => d <= e
<1>1. ASSUME SInv, NEW k \in Key PROVE Good(k)
  <2> SUFFICES ASSUME Request(k), lspq'[k].ero = "stored", NEW e \in Lookup(k)
               PROVE  /\ ent[e].age <= ExpireSecs + MaxLag
                      /\ \A d \in 1 .. made : ent[d].key = k => d <= e
    OBVIOUS
  <2>1. Valid(k) # {}
    <3> SUFFICES ASSUME Valid(k) = {} PROVE FALSE OBVIOUS
    <3>1. lspq \in [Key -> Lspq] BY <1>1 DEF SInv, TypeOK
    <3>2. lspq'[k].ero = "none" BY <3>1 DEF Request, HandleStoredERO
    <3>3. QED BY <3>2
  <2>2. PICK v : v \in Lookup(k) /\ ~ent[v].expired BY <2>1 DEF Valid
  <2>3. /\ e \in listed /\ v \in listed /\ ent[e].key = k /\ ent[v].key = k
        /\ listed \subseteq live /\ live \subseteq 1 .. made /\ made \in Nat
        /\ live \subseteq Ids /\ ent \in [Ids -> Entry]
    BY <1>1, <2>2 DEF Lookup, SInv, ListedExists, TypeOK, Ids
  <2>4. e <= v /\ v <= e BY <1>1, <2>3 DEF SInv, Latest
  <2>5. e = v BY <2>3, <2>4
  <2>6. /\ ent[e].age + ent[e].due = ExpireSecs
        /\ ent[e].due \in -MaxLag .. TrashSecs + ExpireSecs
    BY <1>1, <2>2, <2>3, <2>5 DEF SInv, Clock, TypeOK
  <2>7. ent[e] \in Entry BY <2>3
  <2>8. ent[e].age \in Nat /\ ent[e].due \in Int BY <2>7 DEF Entry
  <2>9. ent[e].age <= ExpireSecs + MaxLag BY <2>6, <2>8
  <2>10. QED BY <1>1, <2>3, <2>9 DEF SInv, Latest
<1>2. SInv => \A k \in Key : Good(k) BY <1>1
<1>3. SInv => [\A k \in Key : Good(k)]_vars BY <1>2
<1>4. Spec => [][\A k \in Key : Good(k)]_vars BY <1>3, StoreInvariant, PTL
<1>5. QED BY <1>4 DEF ServedIsCurrent

(* The types, and that no timer waits longer than its two periods.         *)
THEOREM StoreTypes == Spec => []TypeOK
BY StoreInvariant, PTL DEF SInv

-----------------------------------------------------------------------------
(* The line editor.                                                        *)

Line == {s \in Seq(Chars) : Len(s) <= MaxLine}
Cells == Editor!Cells
EditFields == {"buffer", "cp", "clen", "hi", "history", "width", "screen", "cur", "passwd"}

(* The types of the fields that matter here.                               *)
EditTypes(e) ==
  /\ EditFields \subseteq DOMAIN e
  /\ e.buffer \in Line /\ e.history \in Seq(Line) /\ e.screen \in Seq(Cells)
  /\ e.cp \in Nat /\ e.hi \in Nat /\ e.cur \in 0 .. Len(e.screen)
  /\ e.passwd \in BOOLEAN /\ e.width \in {0, Columns % 256}

(* What the terminal shows in a column, of a line and of its screen.       *)
Cell(b, i) == IF i <= Len(b) THEN b[i] ELSE Editor!Space
Displays(s, b) == /\ Len(b) <= Len(s)
                  /\ \A i \in 1 .. Len(s) : s[i] = Cell(b, i)

EdInv(e) ==
  /\ EditTypes(e)
  /\ e.clen = Len(e.buffer) /\ e.cp <= e.clen
  /\ ~e.passwd => e.cur = e.cp /\ Displays(e.screen, e.buffer)

(* The rest of the state is as it was.                                     *)
SameRest(e, u) ==
  /\ DOMAIN u = DOMAIN e
  /\ u.hi = e.hi /\ u.history = e.history /\ u.width = e.width /\ u.passwd = e.passwd

-----------------------------------------------------------------------------
(* What Puts leaves.                                                       *)
Wrote(e, u, t) ==
  LET end == e.cur + Len(t)
  IN  /\ u.screen \in Seq(Cells) /\ u.cur = end
      /\ Len(u.screen) = IF end < Len(e.screen) THEN Len(e.screen) ELSE end
      /\ \A i \in 1 .. Len(u.screen) :
           u.screen[i] = IF i \in e.cur + 1 .. end THEN t[i - e.cur] ELSE e.screen[i]

LEMMA PutsWrites ==
  ASSUME NEW e, EditFields \subseteq DOMAIN e, e.screen \in Seq(Cells),
         e.cur \in 0 .. Len(e.screen), NEW t \in Seq(Cells), NEW u, u = Editor!Puts(e, t)
  PROVE  /\ SameRest(e, u) /\ u.buffer = e.buffer /\ u.cp = e.cp /\ u.clen = e.clen
         /\ Wrote(e, u, t)
<1> DEFINE end == e.cur + Len(t)
           n == IF end < Len(e.screen) THEN Len(e.screen) ELSE end
           over == [i \in 1 .. n |-> IF i \in e.cur + 1 .. end THEN t[i - e.cur] ELSE e.screen[i]]
<1>1. u = [e EXCEPT !.screen = over, !.cur = end] BY DEF Editor!Puts
<1>2. /\ DOMAIN u = DOMAIN e /\ u.screen = over /\ u.cur = end /\ u.hi = e.hi
      /\ u.history = e.history /\ u.width = e.width /\ u.passwd = e.passwd
      /\ u.buffer = e.buffer /\ u.cp = e.cp /\ u.clen = e.clen
  <2> HIDE DEF over, end
  <2>1. QED BY <1>1 DEF EditFields
<1>3. n \in Nat /\ e.cur \in Nat /\ Len(t) \in Nat /\ Len(e.screen) \in Nat BY LenProperties
<1>4. ASSUME NEW i \in 1 .. n PROVE over[i] \in Cells
  <2>1. CASE i \in e.cur + 1 .. end
    <3>1. i - e.cur \in 1 .. Len(t) BY <1>3, <2>1
    <3>2. over[i] = t[i - e.cur] BY <2>1
    <3>3. QED BY <3>1, <3>2, ElementOfSeq
  <2>2. CASE i \notin e.cur + 1 .. end
    <3>1. i \in 1 .. Len(e.screen) BY <1>3, <2>2
    <3>2. over[i] = e.screen[i] BY <2>2
    <3>3. QED BY <3>1, <3>2, ElementOfSeq
  <2>3. QED BY <2>1, <2>2
<1>5. over \in Seq(Cells) /\ Len(over) = n
  <2>1. over \in [1 .. n -> Cells] BY <1>4
  <2> HIDE DEF over, n
  <2>2. n \in Nat BY <1>3
  <2>3. over \in Seq(Cells) BY <2>1, <2>2, SMTT(30)
  <2>4. DOMAIN over = 1 .. n BY <2>1
  <2>5. Len(over) = n BY <2>2, <2>3, <2>4, SMTT(30)
  <2>6. QED BY <2>3, <2>5
<1>6. SameRest(e, u) BY <1>2 DEF SameRest
<1>7. Wrote(e, u, t)
  <2>1. \A i \in 1 .. n :
          u.screen[i] = IF i \in e.cur + 1 .. end THEN t[i - e.cur] ELSE e.screen[i]
    BY <1>2
  <2>2. /\ u.screen \in Seq(Cells) /\ u.cur = end
        /\ Len(u.screen) = n
    <3> HIDE DEF over, end, n
    <3>1. QED BY <1>2, <1>5
  <2>3. QED BY <2>1, <2>2 DEF Wrote
<1>8. QED BY <1>2, <1>6, <1>7

(* The line b is shown when what is written is b from the cursor on, as    *)
(* far as it differs from what was there.                                  *)
Covers(e, t, b) ==
  LET end == e.cp + Len(t)
  IN  /\ \A i \in Nat \ {0} :
           Cell(b, i) = IF i \in e.cp + 1 .. end THEN t[i - e.cp] ELSE Cell(e.buffer, i)
      /\ Len(b) <= end \/ Len(b) <= Len(e.buffer)

LEMMA WritesLine ==
  ASSUME NEW e, EdInv(e), ~e.passwd, NEW t \in Seq(Cells), NEW b \in Seq(Chars), Covers(e, t, b),
         NEW d, d.screen = e.screen, d.cur = e.cur, NEW u, Wrote(d, u, t)
  PROVE  Displays(u.screen, b)
<1>1. /\ e.cp \in Nat /\ Len(t) \in Nat /\ Len(e.screen) \in Nat /\ Len(b) \in Nat
      /\ Len(e.buffer) \in Nat /\ e.cur = e.cp /\ Len(e.buffer) <= Len(e.screen)
      /\ e.cp <= Len(e.screen)
  BY LenProperties DEF EdInv, EditTypes, Displays, Line
<1>2. \A i \in 1 .. Len(e.screen) : e.screen[i] = Cell(e.buffer, i)
  BY DEF EdInv, Displays
<1>3. /\ Len(u.screen) = IF e.cp + Len(t) < Len(e.screen) THEN Len(e.screen) ELSE e.cp + Len(t)
      /\ \A i \in 1 .. Len(u.screen) :
           u.screen[i] = IF i \in e.cp + 1 .. e.cp + Len(t) THEN t[i - e.cp] ELSE e.screen[i]
  BY <1>1 DEF Wrote
<1>4. Len(b) <= Len(u.screen) BY <1>1, <1>3 DEF Covers
<1>5. ASSUME NEW i \in 1 .. Len(u.screen) PROVE u.screen[i] = Cell(b, i)
  <2>0. /\ i \in Nat \ {0}
        /\ Cell(b, i) = IF i \in e.cp + 1 .. e.cp + Len(t) THEN t[i - e.cp] ELSE Cell(e.buffer, i)
        /\ u.screen[i] = IF i \in e.cp + 1 .. e.cp + Len(t) THEN t[i - e.cp] ELSE e.screen[i]
    <3>1. i \in Nat \ {0} BY <1>1, <1>3
    <3>2. QED BY <1>3, <3>1 DEF Covers
  <2>1. CASE i \in e.cp + 1 .. e.cp + Len(t) BY <2>0, <2>1
  <2>2. CASE i \notin e.cp + 1 .. e.cp + Len(t)
    <3>1. i \in 1 .. Len(e.screen) BY <1>1, <1>3, <2>2
    <3>2. QED BY <1>2, <2>0, <2>2, <3>1
  <2>3. QED BY <2>1, <2>2
<1>6. QED BY <1>4, <1>5 DEF Displays

(* What Echo leaves: a password is not shown.                              *)
Echoed(d, t, w) ==
  /\ SameRest(d, w) /\ w.buffer = d.buffer /\ w.cp = d.cp /\ w.clen = d.clen
  /\ d.passwd => w.screen = d.screen /\ w.cur = d.cur
  /\ ~d.passwd => Wrote(d, w, t)

LEMMA Echoes ==
  ASSUME NEW d, EditFields \subseteq DOMAIN d, d.screen \in Seq(Cells),
         d.cur \in 0 .. Len(d.screen), NEW t \in Seq(Cells)
  PROVE  Echoed(d, t, Editor!Echo(d, t))
<1>1. PICK w : w = Editor!Echo(d, t) OBVIOUS
<1>2. CASE d.passwd BY <1>1, <1>2 DEF Editor!Echo, SameRest, Echoed
<1>3. CASE ~d.passwd
  <2>1. w = Editor!Puts(d, t) BY <1>1, <1>3 DEF Editor!Echo
  <2>2. /\ SameRest(d, w) /\ w.buffer = d.buffer /\ w.cp = d.cp /\ w.clen = d.clen
        /\ Wrote(d, w, t)
    BY <2>1, PutsWrites
  <2>3. QED BY <1>1, <1>3, <2>2 DEF Echoed
<1>4. QED BY <1>2, <1>3

(* A key that writes t, from the state d in which the line may have changed *)
(* already, goes back by n, and leaves the line b with the cursor in it.   *)
LEMMA KeyStep ==
  ASSUME NEW e, EdInv(e), NEW t \in Seq(Cells), NEW b \in Line, Covers(e, t, b),
         NEW d, SameRest(e, d), d.screen = e.screen, d.cur = e.cur,
         NEW w, Echoed(d, t, w), NEW n \in Nat,
         NEW u, SameRest(w, u), u.screen = w.screen, u.buffer = b, u.clen = Len(b),
         u.cur = IF w.passwd THEN w.cur ELSE w.cur - n,
         u.cp \in 0 .. Len(b), u.cp = e.cp + Len(t) - n
  PROVE  EdInv(u)
<1>1. /\ EditFields \subseteq DOMAIN d /\ d.screen \in Seq(Cells) /\ d.cur \in 0 .. Len(d.screen)
      /\ (d.passwd <=> e.passwd) /\ (~e.passwd => e.cur = e.cp)
  BY DEF EdInv, EditTypes, SameRest
<1>2. d.passwd => w.screen = d.screen /\ w.cur = d.cur BY DEF Echoed
<1>3. ~d.passwd => Wrote(d, w, t) BY DEF Echoed
<1>4. SameRest(d, w) BY DEF Echoed
<1>5. ASSUME ~e.passwd PROVE w.cur = e.cp + Len(t) /\ Displays(w.screen, b)
  <2>1. b \in Seq(Chars) BY DEF Line
  <2>2. Wrote(d, w, t) BY <1>1, <1>3, <1>5
  <2>3. w.cur = d.cur + Len(t) BY <2>2 DEF Wrote
  <2>4. Displays(w.screen, b) BY ONLY EdInv(e), <1>5, t \in Seq(Cells), <2>1, Covers(e, t, b), d.screen = e.screen, d.cur = e.cur, <2>2, WritesLine
  <2>5. QED BY <1>1, <1>5, <2>3, <2>4
<1>6. w.screen \in Seq(Cells) BY <1>1, <1>2, <1>3 DEF Wrote
<1>7. SameRest(e, u) /\ (u.passwd <=> e.passwd) BY <1>4 DEF SameRest
<1>8. u.cur = IF e.passwd THEN w.cur ELSE u.cp
  <2>1. w.passwd <=> e.passwd BY <1>1, <1>4 DEF SameRest
  <2>2. CASE e.passwd BY <2>1, <2>2
  <2>3. CASE ~e.passwd
    <3>1. e.cp \in Nat /\ Len(t) \in Nat BY LenProperties DEF EdInv, EditTypes
    <3>2. u.cur = w.cur - n BY <2>1, <2>3
    <3>3. w.cur = e.cp + Len(t) BY <1>5, <2>3
    <3>4. u.cur = u.cp BY <3>1, <3>2, <3>3
    <3>5. QED BY <2>3, <3>4
  <2>4. QED BY <2>2, <2>3
<1>9. u.cur \in 0 .. Len(u.screen) /\ u.cp \in Nat
  <2>1. Len(b) \in Nat /\ Len(w.screen) \in Nat BY <1>6, LenProperties DEF Line
  <2>2. CASE e.passwd
    <3>1. w.cur = e.cur /\ w.screen = e.screen BY <1>1, <1>2, <2>2
    <3>2. QED BY <1>1, <1>8, <2>2, <3>1
  <2>3. CASE ~e.passwd BY <1>5, <1>8, <2>1, <2>3 DEF Displays
  <2>4. QED BY <2>2, <2>3
<1>10. EditTypes(u) BY <1>6, <1>7, <1>9 DEF EdInv, EditTypes, SameRest
<1>11. u.cp <= u.clen BY LenProperties DEF Line
<1>12. QED BY <1>1, <1>5, <1>7, <1>8, <1>10, <1>11 DEF EdInv

(* What the keys do to a line, from its positions.                         *)
LEMMA Inserted ==
  ASSUME NEW s \in Seq(Chars), NEW k \in 0 .. Len(s), NEW c \in Chars
  PROVE  LET b == Editor!InsertAt(s, k + 1, c)
         IN  /\ b \in Seq(Chars) /\ Len(b) = Len(s) + 1
             /\ \A i \in 1 .. Len(b) : b[i] = IF i <= k THEN s[i] ELSE IF i = k + 1 THEN c ELSE s[i - 1]
<1> DEFINE front == SubSeq(s, 1, k)
           rest  == SubSeq(s, k + 1, Len(s))
<1>0. PICK b : b = Editor!InsertAt(s, k + 1, c) OBVIOUS
<1>2. Len(s) \in Nat BY LenProperties
<1>1. b = (front \o <<c>>) \o rest
  <2>1. (k + 1) - 1 = k BY <1>2
  <2>2. b = (SubSeq(s, 1, (k + 1) - 1) \o <<c>>) \o rest BY <1>0, Zenon DEF Editor!InsertAt
  <2>3. QED BY <2>1, <2>2
<1>3. front \in Seq(Chars) /\ Len(front) = k /\ \A i \in 1 .. k : front[i] = s[i]
  BY <1>2, SubSeqProperties, ElementOfSeq
<1>4. /\ rest \in Seq(Chars) /\ Len(rest) = Len(s) - k
      /\ \A i \in 1 .. Len(s) - k : rest[i] = s[k + i]
  BY <1>2, SubSeqProperties, ElementOfSeq
<1>5. <<c>> \in Seq(Chars) /\ Len(<<c>>) = 1 /\ <<c>>[1] = c OBVIOUS
<1> HIDE DEF front, rest
<1>6. /\ front \o <<c>> \in Seq(Chars) /\ Len(front \o <<c>>) = k + 1
      /\ \A i \in 1 .. k + 1 : (front \o <<c>>)[i] = IF i <= k THEN s[i] ELSE c
  BY <1>2, <1>3, <1>5, ConcatProperties
<1>7. /\ b \in Seq(Chars) /\ Len(b) = Len(s) + 1
      /\ \A i \in 1 .. Len(s) + 1 : b[i] = IF i <= k + 1 THEN (front \o <<c>>)[i] ELSE rest[i - (k + 1)]
  <2>1. PICK f : f = front \o <<c>> OBVIOUS
  <2>2. /\ b \in Seq(Chars) /\ Len(b) = Len(f) + Len(rest)
        /\ \A i \in 1 .. Len(f) + Len(rest) : b[i] = IF i <= Len(f) THEN f[i] ELSE rest[i - Len(f)]
    <3>1. f \in Seq(Chars) /\ rest \in Seq(Chars) BY <1>4, <1>6, <2>1
    <3>2. b = f \o rest BY <1>1, <2>1
    <3>3. QED BY <3>1, <3>2, ConcatProperties
  <2>3. Len(f) = k + 1 /\ Len(rest) = Len(s) - k BY <1>4, <1>6, <2>1
  <2>5. Len(f) + Len(rest) = Len(s) + 1 BY <1>2, <2>3
  <2>4. QED BY <2>1, <2>2, <2>3, <2>5
<1>8. ASSUME NEW i \in 1 .. Len(b)
      PROVE  b[i] = IF i <= k THEN s[i] ELSE IF i = k + 1 THEN c ELSE s[i - 1]
  <2>1. CASE i <= k + 1
    <3>1. b[i] = (front \o <<c>>)[i] BY <1>2, <1>7, <2>1
    <3>2. QED BY <1>2, <1>6, <1>7, <2>1, <3>1
  <2>2. CASE i > k + 1
    <3>1. i - (k + 1) \in 1 .. Len(s) - k BY <1>2, <1>7, <2>2
    <3>2. rest[i - (k + 1)] = s[k + (i - (k + 1))] BY <1>4, <3>1
    <3>3. k + (i - (k + 1)) = i - 1 BY <1>2
    <3>4. QED BY <1>2, <1>7, <2>2, <3>2, <3>3
  <2>3. QED BY <1>2, <1>7, <2>1, <2>2
<1>9. QED BY <1>0, <1>7, <1>8

LEMMA Removed ==
  ASSUME NEW s \in Seq(Chars), NEW k \in 0 .. Len(s) - 1
  PROVE  LET b == Editor!RemoveAt(s, k + 1)
         IN  /\ b \in Seq(Chars) /\ Len(b) = Len(s) - 1
             /\ \A i \in 1 .. Len(b) : b[i] = IF i <= k THEN s[i] ELSE s[i + 1]
<1> DEFINE front == SubSeq(s, 1, k)
           rest  == SubSeq(s, k + 2, Len(s))
<1>0. PICK b : b = Editor!RemoveAt(s, k + 1) OBVIOUS
<1>2. Len(s) \in Nat BY LenProperties
<1>1. b = front \o rest
  <2>1. (k + 1) - 1 = k /\ (k + 1) + 1 = k + 2 BY <1>2
  <2>2. b = SubSeq(s, 1, (k + 1) - 1) \o SubSeq(s, (k + 1) + 1, Len(s))
    BY <1>0, Zenon DEF Editor!RemoveAt
  <2>3. QED BY <2>1, <2>2
<1>3. front \in Seq(Chars) /\ Len(front) = k /\ \A i \in 1 .. k : front[i] = s[i]
  BY <1>2, SubSeqProperties, ElementOfSeq
<1>4. /\ rest \in Seq(Chars) /\ Len(rest) = Len(s) - k - 1
      /\ \A i \in 1 .. Len(s) - k - 1 : rest[i] = s[k + i + 1]
  BY <1>2, SubSeqProperties, ElementOfSeq
<1> HIDE DEF front, rest
<1>5. /\ b \in Seq(Chars) /\ Len(b) = Len(s) - 1
      /\ \A i \in 1 .. Len(s) - 1 : b[i] = IF i <= k THEN front[i] ELSE rest[i - k]
  <2>1. /\ b \in Seq(Chars) /\ Len(b) = Len(front) + Len(rest)
        /\ \A i \in 1 .. Len(front) + Len(rest) :
             b[i] = IF i <= Len(front) THEN front[i] ELSE rest[i - Len(front)]
    <3>1. front \in Seq(Chars) /\ rest \in Seq(Chars) BY <1>3, <1>4
    <3>2. QED BY <1>1, <3>1, ConcatProperties
  <2>2. Len(front) + Len(rest) = Len(s) - 1 BY <1>2, <1>3, <1>4
  <2>3. QED BY <1>3, <2>1, <2>2
<1>6. ASSUME NEW i \in 1 .. Len(b) PROVE b[i] = IF i <= k THEN s[i] ELSE s[i + 1]
  <2>1. CASE i <= k BY <1>2, <1>3, <1>5, <2>1
  <2>2. CASE i > k
    <3>1. i - k \in 1 .. Len(s) - k - 1 BY <1>2, <1>5, <2>2
    <3>2. rest[i - k] = s[k + (i - k) + 1] BY <1>4, <3>1
    <3>3. k + (i - k) + 1 = i + 1 BY <1>2
    <3>4. QED BY <1>2, <1>5, <2>2, <3>2, <3>3
  <2>3. QED BY <1>2, <1>5, <2>1, <2>2
<1>7. QED BY <1>0, <1>5, <1>6

LEMMA TailOfLine ==
  ASSUME NEW s \in Seq(Chars), NEW k \in 0 .. Len(s)
  PROVE  /\ SubSeq(s, k + 1, Len(s)) \in Seq(Chars) /\ SubSeq(s, k + 1, Len(s)) \in Seq(Cells)
         /\ Len(SubSeq(s, k + 1, Len(s))) = Len(s) - k
         /\ \A i \in 1 .. Len(s) - k : SubSeq(s, k + 1, Len(s))[i] = s[k + i]
<1> DEFINE r == SubSeq(s, k + 1, Len(s))
<1>1. Len(s) \in Nat BY LenProperties
<1>2. r \in Seq(Chars) /\ Len(r) = Len(s) - k /\ \A i \in 1 .. Len(s) - k : r[i] = s[k + i]
  BY <1>1, SubSeqProperties, ElementOfSeq
<1> HIDE DEF r
<1>3. r \in Seq(Cells) BY <1>2, SeqMonotonic DEF Cells, Editor!Cells
<1>4. QED BY <1>2, <1>3 DEF r

(* Everything but what a key changes.                                      *)
LEMMA Backs ==
  ASSUME NEW w, EditFields \subseteq DOMAIN w, NEW n, NEW v, v = Editor!EchoBack(w, n)
  PROVE  /\ SameRest(w, v) /\ v.buffer = w.buffer /\ v.cp = w.cp /\ v.clen = w.clen
         /\ v.screen = w.screen /\ v.cur = IF w.passwd THEN w.cur ELSE w.cur - n
<1>1. v = IF w.passwd THEN w ELSE [w EXCEPT !.cur = @ - n] BY DEF Editor!EchoBack, Editor!Back
<1>2. QED BY <1>1 DEF SameRest, EditFields

LEMMA EditNumbers ==
  ASSUME NEW e, EdInv(e)
  PROVE  /\ EditFields \subseteq DOMAIN e
         /\ e.buffer \in Line /\ e.buffer \in Seq(Chars) /\ Len(e.buffer) \in 0 .. MaxLine
         /\ e.cp \in 0 .. Len(e.buffer) /\ e.clen = Len(e.buffer) /\ e.clen \in Nat
         /\ e.screen \in Seq(Cells) /\ e.cur \in 0 .. Len(e.screen) /\ e.cur \in Nat
         /\ e.passwd \in BOOLEAN
<1>1. /\ e.buffer \in Line /\ e.buffer \in Seq(Chars) /\ Len(e.buffer) <= MaxLine
      /\ Len(e.buffer) \in Nat /\ Len(e.screen) \in Nat
  BY LenProperties DEF EdInv, EditTypes, Line
<1>2. QED BY <1>1, RowAssumption DEF EdInv, EditTypes

(* The state in which a key is echoed, whose line has changed already.     *)
LEMMA Changed ==
  ASSUME NEW e, EdInv(e), NEW b
  PROVE  LET d == [e EXCEPT !.buffer = b]
         IN  /\ SameRest(e, d) /\ d.screen = e.screen /\ d.cur = e.cur
             /\ d.buffer = b /\ d.cp = e.cp /\ d.clen = e.clen
             /\ \A t \in Seq(Cells) : Echoed(d, t, Editor!Echo(d, t))
<1>1. PICK d : d = [e EXCEPT !.buffer = b] OBVIOUS
<1>2. /\ SameRest(e, d) /\ d.screen = e.screen /\ d.cur = e.cur
      /\ d.buffer = b /\ d.cp = e.cp /\ d.clen = e.clen /\ EditFields \subseteq DOMAIN d
  BY <1>1, EditNumbers DEF SameRest, EditFields
<1>3. d.screen \in Seq(Cells) /\ d.cur \in 0 .. Len(d.screen) BY <1>2, EditNumbers
<1>4. \A t \in Seq(Cells) : Echoed(d, t, Editor!Echo(d, t)) BY <1>2, <1>3, Echoes
<1>5. QED BY <1>1, <1>2, <1>4

LEMMA InsertStep ==
  ASSUME NEW e, EdInv(e), e.clen < MaxLine, NEW c \in Chars
  PROVE  EdInv([[Editor!InsertChar(e, c) EXCEPT !.clen = @ + 1] EXCEPT !.cp = @ + 1])
<1>0. /\ EditFields \subseteq DOMAIN e
      /\ e.buffer \in Seq(Chars) /\ Len(e.buffer) \in 0 .. MaxLine
      /\ e.cp \in 0 .. Len(e.buffer) /\ e.clen = Len(e.buffer)
  BY EditNumbers
<1>1. PICK b : b = Editor!InsertAt(e.buffer, e.cp + 1, c) OBVIOUS
<1>2. PICK t : t = SubSeq(b, e.cp + 1, Len(b)) OBVIOUS
<1>3. PICK d : d = [e EXCEPT !.buffer = b] OBVIOUS
<1>4. PICK w : w = Editor!Echo(d, t) OBVIOUS
<1>5. PICK v : v = Editor!EchoBack(w, e.clen - e.cp) OBVIOUS
<1>6. Editor!InsertChar(e, c) = v BY <1>1, <1>2, <1>3, <1>4, <1>5 DEF Editor!InsertChar
<1>7. /\ b \in Seq(Chars) /\ Len(b) = Len(e.buffer) + 1
      /\ \A i \in 1 .. Len(b) :
           b[i] = IF i <= e.cp THEN e.buffer[i] ELSE IF i = e.cp + 1 THEN c ELSE e.buffer[i - 1]
  <2>1. e.buffer \in Seq(Chars) /\ e.cp \in 0 .. Len(e.buffer) /\ c \in Chars BY <1>0
  <2> HIDE <1>0
  <2>2. QED BY <1>1, <2>1, Inserted, ZenonT(40)
<1>8. e.cp \in 0 .. Len(b) BY <1>0, <1>7
<1>9. /\ t \in Seq(Cells) /\ Len(t) = Len(b) - e.cp
      /\ \A i \in 1 .. Len(b) - e.cp : t[i] = b[e.cp + i]
  BY <1>2, <1>7, <1>8, TailOfLine
<1>10. Covers(e, t, b)
  <2>1. ASSUME NEW i \in Nat \ {0}
        PROVE  Cell(b, i) = IF i \in e.cp + 1 .. e.cp + Len(t) THEN t[i - e.cp] ELSE Cell(e.buffer, i)
    <3>1. CASE i <= e.cp
      <4>1. i \in 1 .. Len(b) /\ i <= Len(e.buffer) /\ i \notin e.cp + 1 .. e.cp + Len(t)
        BY <1>0, <1>7, <1>9, <3>1
      <4>2. QED BY <1>7, <3>1, <4>1 DEF Cell
    <3>2. CASE i > e.cp /\ i <= Len(b)
      <4>1. i - e.cp \in 1 .. Len(b) - e.cp /\ e.cp + (i - e.cp) = i BY <1>0, <1>8, <3>2
      <4>2. t[i - e.cp] = b[i] BY <1>9, <4>1
      <4>3. i \in e.cp + 1 .. e.cp + Len(t) BY <1>0, <1>8, <1>9, <3>2
      <4>4. QED BY <3>2, <4>2, <4>3 DEF Cell
    <3>3. CASE i > Len(b) BY <1>0, <1>7, <1>8, <1>9, <3>3 DEF Cell
    <3>4. QED BY <1>0, <1>7, <3>1, <3>2, <3>3
  <2>2. Len(b) <= e.cp + Len(t) BY <1>0, <1>7, <1>9
  <2>3. QED BY <2>1, <2>2 DEF Covers
<1>11. /\ SameRest(e, d) /\ d.screen = e.screen /\ d.cur = e.cur
       /\ d.buffer = b /\ d.cp = e.cp /\ d.clen = e.clen /\ Echoed(d, t, w)
  <2>1. t \in Seq(Cells) BY <1>9
  <2> HIDE <1>7, <1>9
  <2>2. QED BY <1>3, <1>4, <2>1, Changed
<1>12. /\ SameRest(e, w) /\ EditFields \subseteq DOMAIN w /\ w.buffer = b /\ w.cp = e.cp /\ w.clen = e.clen
  BY <1>0, <1>11 DEF Echoed, SameRest
<1>13. /\ SameRest(w, v) /\ v.buffer = b /\ v.cp = e.cp /\ v.clen = e.clen
       /\ v.screen = w.screen /\ v.cur = IF w.passwd THEN w.cur ELSE w.cur - (e.clen - e.cp)
  BY <1>5, <1>12, Backs
<1>14. PICK u : u = [[v EXCEPT !.clen = @ + 1] EXCEPT !.cp = @ + 1] OBVIOUS
<1>15. /\ SameRest(w, u) /\ u.screen = w.screen /\ u.buffer = b /\ u.cp = e.cp + 1
       /\ u.clen = e.clen + 1 /\ u.cur = v.cur
  BY <1>12, <1>13, <1>14 DEF SameRest, EditFields
<1>16. u.cp \in 0 .. Len(b) /\ u.clen = Len(b) /\ Len(b) <= MaxLine
  BY <1>0, <1>7, <1>15, RowAssumption
<1>17. b \in Line /\ e.clen - e.cp \in Nat /\ u.cp = e.cp + Len(t) - (e.clen - e.cp)
  <2>1. b \in Line BY <1>7, <1>16 DEF Line
  <2>2. Len(t) = Len(e.buffer) + 1 - e.cp /\ u.cp = e.cp + 1
    <3>1. Len(b) = Len(e.buffer) + 1 /\ Len(t) = Len(b) - e.cp /\ u.cp = e.cp + 1
      BY <1>7, <1>9, <1>15
    <3>2. QED BY <1>0, <3>1
  <2>3. e.cp \in Nat /\ e.clen = Len(e.buffer) /\ Len(e.buffer) \in Nat /\ e.cp <= Len(e.buffer)
    BY <1>0
  <2>4. QED BY <2>1, <2>2, <2>3
<1>18. EdInv(u) BY <1>9, <1>10, <1>11, <1>13, <1>15, <1>16, <1>17, KeyStep
<1>19. QED BY <1>6, <1>14, <1>18

(* A character is written over another, or behind the last.                *)
Overwritten(b, s, k, c) ==
  /\ b \in Seq(Chars) /\ Len(b) = IF k = Len(s) THEN Len(s) + 1 ELSE Len(s)
  /\ \A i \in 1 .. Len(b) : b[i] = IF i = k + 1 THEN c ELSE s[i]

LEMMA WriteStep ==
  ASSUME NEW e, EdInv(e), NEW c \in Chars, e.cp < e.clen \/ e.clen < MaxLine,
         NEW u, LET w == Editor!WriteChar(e, c)
                IN  /\ SameRest(w, u) /\ u.screen = w.screen /\ u.buffer = w.buffer
                    /\ u.cp = e.cp + 1 /\ u.cur = w.cur
                    /\ u.clen = IF e.cp = e.clen THEN e.clen + 1 ELSE e.clen
  PROVE  EdInv(u)
<1>0. /\ EditFields \subseteq DOMAIN e
      /\ e.buffer \in Seq(Chars) /\ Len(e.buffer) \in 0 .. MaxLine
      /\ e.cp \in 0 .. Len(e.buffer) /\ e.clen = Len(e.buffer)
  BY EditNumbers
<1>1. PICK b : b = IF e.cp = e.clen THEN Append(e.buffer, c)
                   ELSE Editor!Replaced(e.buffer, e.cp + 1, c)
  OBVIOUS
<1>2. PICK d : d = [e EXCEPT !.buffer = b] OBVIOUS
<1>3. PICK w : w = Editor!Echo(d, <<c>>) OBVIOUS
<1>4. Editor!WriteChar(e, c) = w BY <1>1, <1>2, <1>3 DEF Editor!WriteChar
<1>5. Overwritten(b, e.buffer, e.cp, c)
  <2>1. CASE e.cp = e.clen
    <3>1. b = Append(e.buffer, c) BY <1>1, <2>1
    <3>2. QED BY <1>0, <2>1, <3>1, AppendProperties DEF Overwritten
  <2>2. CASE e.cp # e.clen
    <3>1. b = [e.buffer EXCEPT ![e.cp + 1] = c] BY <1>0, <1>1, <2>2 DEF Editor!Replaced
    <3>2. QED BY <1>0, <2>2, <3>1, ExceptSeq DEF Overwritten
  <2>3. QED BY <2>1, <2>2
<1>6. <<c>> \in Seq(Cells) /\ Len(<<c>>) = 1 /\ <<c>>[1] = c BY DEF Cells, Editor!Cells
<1>7. Covers(e, <<c>>, b)
  <2>1. ASSUME NEW i \in Nat \ {0}
        PROVE  Cell(b, i) = IF i \in e.cp + 1 .. e.cp + 1 THEN <<c>>[i - e.cp] ELSE Cell(e.buffer, i)
    <3>1. CASE i = e.cp + 1
      <4>1. i - e.cp = 1 /\ i \in e.cp + 1 .. e.cp + 1 BY <1>0, <3>1
      <4>2. i \in 1 .. Len(b) /\ i <= Len(b) BY <1>0, <1>5, <3>1 DEF Overwritten
      <4>3. QED BY <1>5, <1>6, <3>1, <4>1, <4>2 DEF Cell, Overwritten
    <3>2. CASE i # e.cp + 1
      <4>1. i \notin e.cp + 1 .. e.cp + 1 BY <1>0, <3>2
      <4>2. i <= Len(b) <=> i <= Len(e.buffer) BY <1>0, <1>5, <3>2 DEF Overwritten
      <4>3. i <= Len(b) => b[i] = e.buffer[i] BY <1>0, <1>5, <3>2 DEF Overwritten
      <4>4. QED BY <4>1, <4>2, <4>3 DEF Cell
    <3>3. QED BY <3>1, <3>2
  <2>2. Len(b) <= e.cp + 1 \/ Len(b) <= Len(e.buffer) BY <1>0, <1>5 DEF Overwritten
  <2>3. QED BY <1>6, <2>1, <2>2 DEF Covers
<1>8. /\ SameRest(e, d) /\ d.screen = e.screen /\ d.cur = e.cur
      /\ d.buffer = b /\ Echoed(d, <<c>>, w)
  BY <1>2, <1>3, <1>6, Changed
<1>9. w.buffer = b BY <1>8 DEF Echoed
<1>10. /\ SameRest(w, u) /\ u.screen = w.screen /\ u.buffer = b /\ u.cp = e.cp + 1
       /\ u.cur = w.cur /\ u.clen = IF e.cp = e.clen THEN e.clen + 1 ELSE e.clen
  BY <1>4, <1>9
<1>11. u.cp \in 0 .. Len(b) /\ u.clen = Len(b) /\ Len(b) <= MaxLine
  BY <1>0, <1>5, <1>10, RowAssumption DEF Overwritten
<1>12. b \in Line BY <1>5, <1>11 DEF Line, Overwritten
<1>13. u.cur = IF w.passwd THEN w.cur ELSE w.cur - 0
  <2>1. CASE w.passwd BY <1>10, <2>1
  <2>2. CASE ~w.passwd
    <3>1. w.cur \in Int
      <4>1. ~d.passwd BY <1>8, <2>2 DEF Echoed, SameRest
      <4>2. w.cur = d.cur + 1 BY <1>6, <1>8, <4>1 DEF Echoed, Wrote
      <4>3. d.cur \in Nat BY <1>8, EditNumbers
      <4>4. QED BY <4>2, <4>3
    <3>2. QED BY <1>10, <2>2, <3>1
  <2>3. QED BY <2>1, <2>2
<1>14. u.cp = e.cp + Len(<<c>>) - 0 BY <1>0, <1>6, <1>10
<1>15. QED BY <1>6, <1>7, <1>8, <1>10, <1>11, <1>12, <1>13, <1>14, KeyStep

LEMMA WriteFields ==
  ASSUME NEW e, EdInv(e), NEW c \in Chars
  PROVE  LET w == Editor!WriteChar(e, c)
         IN  EditFields \subseteq DOMAIN w /\ w.cp = e.cp /\ w.clen = e.clen
<1>1. PICK b : b = IF e.cp = e.clen THEN Append(e.buffer, c)
                   ELSE Editor!Replaced(e.buffer, e.cp + 1, c)
  OBVIOUS
<1>2. PICK d : d = [e EXCEPT !.buffer = b] OBVIOUS
<1>3. PICK w : w = Editor!Echo(d, <<c>>) OBVIOUS
<1>4. Editor!WriteChar(e, c) = w BY <1>1, <1>2, <1>3 DEF Editor!WriteChar
<1>5. <<c>> \in Seq(Cells) BY DEF Cells, Editor!Cells
<1>6. SameRest(e, d) /\ d.cp = e.cp /\ d.clen = e.clen /\ Echoed(d, <<c>>, w)
  BY <1>2, <1>3, <1>5, Changed
<1>7. QED BY <1>4, <1>6, EditNumbers DEF Echoed, SameRest

LEMMA PrintStep ==
  ASSUME NEW e, EdInv(e), e.clen < MaxLine, NEW c \in Chars
  PROVE  EdInv(Editor!PrintChar(e, c))
<1>1. CASE e.insert
  <2>1. Editor!PrintChar(e, c)
          = [[Editor!InsertChar(e, c) EXCEPT !.clen = @ + 1] EXCEPT !.cp = @ + 1]
    BY <1>1 DEF Editor!PrintChar
  <2>2. EdInv([[Editor!InsertChar(e, c) EXCEPT !.clen = @ + 1] EXCEPT !.cp = @ + 1])
    BY InsertStep
  <2>3. QED BY ONLY <2>1, <2>2
<1>2. CASE ~e.insert
  <2>1. PICK w : w = Editor!WriteChar(e, c) OBVIOUS
  <2>2. EditFields \subseteq DOMAIN w /\ w.cp = e.cp /\ w.clen = e.clen BY <2>1, WriteFields
  <2>3. PICK u : u = [[w EXCEPT !.clen = IF e.cp = @ THEN @ + 1 ELSE @] EXCEPT !.cp = @ + 1]
    OBVIOUS
  <2>4. Editor!PrintChar(e, c) = u BY <1>2, <2>1, <2>3 DEF Editor!PrintChar
  <2>5. /\ SameRest(w, u) /\ u.screen = w.screen /\ u.buffer = w.buffer /\ u.cp = e.cp + 1
        /\ u.cur = w.cur /\ u.clen = IF e.cp = e.clen THEN e.clen + 1 ELSE e.clen
    BY <2>2, <2>3 DEF SameRest, EditFields
  <2>6. EdInv(u) BY <2>1, <2>5, WriteStep
  <2>7. QED BY <2>4, <2>6
<1>3. QED BY <1>1, <1>2

LEMMA ForwardStep ==
  ASSUME NEW e, EdInv(e)
  PROVE  EdInv(Editor!ForwardChar(e))
<1>1. CASE e.cp = e.clen BY <1>1 DEF Editor!ForwardChar
<1>2. CASE e.cp # e.clen
  <2>1. PICK c : c = e.buffer[e.cp + 1] OBVIOUS
  <2>2. e.cp < e.clen /\ e.cp + 1 \in 1 .. Len(e.buffer) /\ e.buffer \in Seq(Chars)
    BY <1>2, EditNumbers
  <2>3. c \in Chars BY <2>1, <2>2, ElementOfSeq
  <2>4. PICK w : w = Editor!WriteChar(e, c) OBVIOUS
  <2>5. EditFields \subseteq DOMAIN w /\ w.cp = e.cp /\ w.clen = e.clen BY <2>3, <2>4, WriteFields
  <2>6. PICK u : u = [w EXCEPT !.cp = @ + 1] OBVIOUS
  <2>7. Editor!ForwardChar(e) = u BY <1>2, <2>1, <2>4, <2>6 DEF Editor!ForwardChar
  <2>8. /\ SameRest(w, u) /\ u.screen = w.screen /\ u.buffer = w.buffer /\ u.cp = e.cp + 1
        /\ u.cur = w.cur /\ u.clen = e.clen
    BY <2>5, <2>6 DEF SameRest, EditFields
  <2>9. EdInv(u) BY <1>2, <2>2, <2>3, <2>4, <2>8, WriteStep
  <2>10. QED BY <2>7, <2>9
<1>3. QED BY <1>1, <1>2

(* Going back within the line.                                             *)
LEMMA BackStep ==
  ASSUME NEW e, EdInv(e), NEW n \in 0 .. e.cp
  PROVE  EdInv([Editor!EchoBack(e, n) EXCEPT !.cp = e.cp - n])
<1>0. /\ EditFields \subseteq DOMAIN e /\ Len(e.buffer) \in Nat
      /\ e.cp \in 0 .. Len(e.buffer) /\ e.clen = Len(e.buffer)
      /\ e.cur \in 0 .. Len(e.screen) /\ Len(e.screen) \in Nat
  BY EditNumbers, LenProperties
<1>1. PICK v : v = Editor!EchoBack(e, n) OBVIOUS
<1>2. /\ SameRest(e, v) /\ v.buffer = e.buffer /\ v.clen = e.clen
      /\ v.screen = e.screen /\ v.cur = IF e.passwd THEN e.cur ELSE e.cur - n
  BY <1>0, <1>1, Backs
<1>3. PICK u : u = [v EXCEPT !.cp = e.cp - n] OBVIOUS
<1>4. /\ SameRest(e, u) /\ u.buffer = e.buffer /\ u.clen = e.clen /\ u.screen = e.screen
      /\ u.cur = v.cur /\ u.cp = e.cp - n /\ EditFields \subseteq DOMAIN u
  BY <1>0, <1>2, <1>3 DEF SameRest, EditFields
<1>5. u.cp \in Nat /\ u.cp <= u.clen BY <1>0, <1>4
<1>6. ~e.passwd => e.cur = e.cp /\ Displays(e.screen, e.buffer) BY DEF EdInv
<1>7. u.cur \in 0 .. Len(u.screen)
  <2>1. CASE e.passwd BY <1>0, <1>2, <1>4, <2>1
  <2>2. CASE ~e.passwd BY <1>0, <1>2, <1>4, <1>6, <2>2
  <2>3. QED BY <2>1, <2>2
<1>8. ~e.passwd => u.cur = u.cp BY <1>2, <1>4, <1>6
<1>9. EditTypes(u) BY <1>4, <1>5, <1>7 DEF EdInv, EditTypes, SameRest
<1>10. EdInv(u) BY <1>4, <1>5, <1>6, <1>8, <1>9 DEF EdInv, SameRest
<1>11. QED BY <1>1, <1>3, <1>10

LEMMA TrapStep ==
  ASSUME NEW e, EdInv(e)
  PROVE  EdInv([e EXCEPT !.trapped = TRUE])
<1>1. PICK u : u = [e EXCEPT !.trapped = TRUE] OBVIOUS
<1>2. /\ SameRest(e, u) /\ u.buffer = e.buffer /\ u.cp = e.cp /\ u.clen = e.clen
      /\ u.screen = e.screen /\ u.cur = e.cur
  BY <1>1, EditNumbers DEF SameRest, EditFields
<1>3. QED BY <1>1, <1>2 DEF EdInv, EditTypes, SameRest

LEMMA BackwardStep ==
  ASSUME NEW e, EdInv(e)
  PROVE  EdInv(Editor!BackwardChar(e))
<1>1. e.cp \in Nat BY EditNumbers
<1>2. \/ Editor!BackwardChar(e) = e
      \/ Editor!BackwardChar(e) = [e EXCEPT !.trapped = TRUE]
      \/ e.cp # 0 /\ Editor!BackwardChar(e) = [Editor!EchoBack(e, 1) EXCEPT !.cp = @ - 1]
  BY Zenon DEF Editor!BackwardChar
<1>3. ASSUME e.cp # 0 PROVE EdInv([Editor!EchoBack(e, 1) EXCEPT !.cp = @ - 1])
  <2>1. 1 \in 0 .. e.cp BY <1>1, <1>3
  <2>2. PICK v : v = Editor!EchoBack(e, 1) OBVIOUS
  <2>3. v.cp = e.cp BY <2>2, EditNumbers, Backs
  <2>4. EdInv([v EXCEPT !.cp = e.cp - 1]) BY <2>1, <2>2, BackStep
  <2>5. [v EXCEPT !.cp = @ - 1] = [v EXCEPT !.cp = e.cp - 1] BY <2>3
  <2>6. QED BY <2>2, <2>4, <2>5
<1>4. QED BY <1>2, <1>3, TrapStep

LEMMA BeginningStep ==
  ASSUME NEW e, EdInv(e)
  PROVE  EdInv(Editor!LineBeginning(e))
<1>1. e.cp \in Nat BY EditNumbers
<1>2. EdInv([Editor!EchoBack(e, e.cp) EXCEPT !.cp = e.cp - e.cp]) BY <1>1, BackStep
<1>3. e.cp - e.cp = 0 BY <1>1
<1>4. EdInv([Editor!EchoBack(e, e.cp) EXCEPT !.cp = 0]) BY <1>2, <1>3
<1>5. QED BY <1>4 DEF Editor!LineBeginning

(* The rest of a line is written again from the cursor on.                 *)
LEMMA EndStep ==
  ASSUME NEW e, EdInv(e)
  PROVE  EdInv(Editor!LineEnd(e))
<1>0. /\ EditFields \subseteq DOMAIN e /\ e.buffer \in Line
      /\ e.buffer \in Seq(Chars) /\ Len(e.buffer) \in 0 .. MaxLine
      /\ e.cp \in 0 .. Len(e.buffer) /\ e.clen = Len(e.buffer)
      /\ e.screen \in Seq(Cells) /\ e.cur \in 0 .. Len(e.screen)
  BY EditNumbers
<1>1. PICK t : t = SubSeq(e.buffer, e.cp + 1, e.clen) OBVIOUS
<1>2. /\ t \in Seq(Cells) /\ Len(t) = Len(e.buffer) - e.cp
      /\ \A i \in 1 .. Len(e.buffer) - e.cp : t[i] = e.buffer[e.cp + i]
  BY <1>0, <1>1, TailOfLine
<1>3. Covers(e, t, e.buffer)
  <2>1. ASSUME NEW i \in Nat \ {0}
        PROVE  Cell(e.buffer, i) = IF i \in e.cp + 1 .. e.cp + Len(t) THEN t[i - e.cp]
                                   ELSE Cell(e.buffer, i)
    <3>1. CASE i \in e.cp + 1 .. e.cp + Len(t)
      <4>1. i - e.cp \in 1 .. Len(e.buffer) - e.cp /\ e.cp + (i - e.cp) = i BY <1>0, <1>2, <3>1
      <4>2. t[i - e.cp] = e.buffer[i] BY <1>2, <4>1
      <4>3. i <= Len(e.buffer) BY <1>0, <1>2, <3>1
      <4>4. QED BY <3>1, <4>2, <4>3 DEF Cell
    <3>2. QED BY <3>1
  <2>2. QED BY <1>0, <2>1 DEF Covers
<1>4. PICK w : w = Editor!Echo(e, t) OBVIOUS
<1>5. Echoed(e, t, w) BY <1>0, <1>2, <1>4, Echoes
<1>6. PICK u : u = [w EXCEPT !.cp = e.clen] OBVIOUS
<1>7. Editor!LineEnd(e) = u BY <1>1, <1>4, <1>6 DEF Editor!LineEnd
<1>8. /\ SameRest(w, u) /\ u.screen = w.screen /\ u.buffer = e.buffer /\ u.clen = Len(e.buffer)
      /\ u.cur = w.cur /\ u.cp = Len(e.buffer)
  BY <1>0, <1>5, <1>6 DEF SameRest, EditFields, Echoed
<1>9. u.cp \in 0 .. Len(e.buffer) /\ u.cp = e.cp + Len(t) - 0 BY <1>0, <1>2, <1>8
<1>10. u.cur = IF w.passwd THEN w.cur ELSE w.cur - 0
  <2>1. ASSUME ~w.passwd PROVE w.cur = w.cur - 0
    <3>1. ~e.passwd BY <1>5, <2>1 DEF Echoed, SameRest
    <3>2. w.cur = e.cur + Len(t) BY <1>5, <3>1 DEF Echoed, Wrote
    <3>3. Len(t) \in Int /\ e.cur \in Int BY <1>0, <1>2, LenProperties
    <3>4. QED BY <3>2, <3>3
  <2>2. QED BY <1>8, <2>1
<1>11. SameRest(e, e) BY DEF SameRest
<1>12. EdInv(u) BY <1>0, <1>2, <1>3, <1>5, <1>8, <1>9, <1>10, <1>11, KeyStep
<1>13. QED BY <1>7, <1>12

LEMMA DeleteStep ==
  ASSUME NEW e, EdInv(e)
  PROVE  EdInv(Editor!DeleteChar(e))
<1>0. /\ EditFields \subseteq DOMAIN e /\ e.buffer \in Line
      /\ e.buffer \in Seq(Chars) /\ Len(e.buffer) \in 0 .. MaxLine
      /\ e.cp \in 0 .. Len(e.buffer) /\ e.clen = Len(e.buffer)
      /\ e.screen \in Seq(Cells) /\ e.cur \in 0 .. Len(e.screen)
  BY EditNumbers
<1>1. PICK b : b = Editor!RemoveAt(e.buffer, e.cp + 1) OBVIOUS
<1>2. PICK r : r = SubSeq(b, e.cp + 1, Len(b)) OBVIOUS
<1>3. PICK t : t = r \o <<Editor!Space>> OBVIOUS
<1>4. PICK w : w = Editor!Echo(e, t) OBVIOUS
<1>5. PICK v : v = Editor!EchoBack(w, e.clen - e.cp) OBVIOUS
<1>6. PICK u : u = [v EXCEPT !.buffer = b, !.clen = @ - 1] OBVIOUS
<1>7. Editor!DeleteChar(e) = IF e.cp = e.clen THEN e ELSE u
  BY <1>1, <1>2, <1>3, <1>4, <1>5, <1>6 DEF Editor!DeleteChar
<1>8. CASE e.cp # e.clen
  <2>0. e.cp \in 0 .. Len(e.buffer) - 1 BY <1>0, <1>8
  <2>1. /\ b \in Seq(Chars) /\ Len(b) = Len(e.buffer) - 1
        /\ \A i \in 1 .. Len(b) : b[i] = IF i <= e.cp THEN e.buffer[i] ELSE e.buffer[i + 1]
    <3>1. e.buffer \in Seq(Chars) BY <1>0
    <3>2. QED BY <1>1, <2>0, <3>1, Removed, ZenonT(40)
  <2>2. e.cp \in 0 .. Len(b) /\ Len(b) \in Nat BY <1>0, <2>0, <2>1
  <2>3. /\ r \in Seq(Cells) /\ Len(r) = Len(b) - e.cp
        /\ \A i \in 1 .. Len(b) - e.cp : r[i] = b[e.cp + i]
    BY <1>2, <2>1, <2>2, TailOfLine
  <2>4. <<Editor!Space>> \in Seq(Cells) /\ Len(<<Editor!Space>>) = 1
        /\ <<Editor!Space>>[1] = Editor!Space
    BY DEF Cells, Editor!Cells
  <2>5. /\ t \in Seq(Cells) /\ Len(t) = Len(b) - e.cp + 1
        /\ \A i \in 1 .. Len(b) - e.cp + 1 : t[i] = Cell(b, e.cp + i)
    <3>1. /\ t \in Seq(Cells) /\ Len(t) = Len(r) + Len(<<Editor!Space>>)
          /\ \A i \in 1 .. Len(r) + Len(<<Editor!Space>>) :
               t[i] = IF i <= Len(r) THEN r[i] ELSE <<Editor!Space>>[i - Len(r)]
      BY <1>3, <2>3, <2>4, ConcatProperties
    <3>2. Len(t) = Len(b) - e.cp + 1 BY <2>2, <2>3, <2>4, <3>1
    <3>3. ASSUME NEW i \in 1 .. Len(b) - e.cp + 1 PROVE t[i] = Cell(b, e.cp + i)
      <4>1. i \in 1 .. Len(r) + Len(<<Editor!Space>>) BY <2>2, <2>3, <2>4
      <4>2. CASE i <= Len(r)
        <5>1. i \in 1 .. Len(b) - e.cp /\ e.cp + i <= Len(b) BY <2>2, <2>3, <4>2
        <5>2. t[i] = b[e.cp + i] BY <2>3, <3>1, <4>1, <4>2, <5>1
        <5>3. QED BY <5>1, <5>2 DEF Cell
      <4>3. CASE i > Len(r)
        <5>0. i \in Nat /\ Len(r) \in Nat /\ Len(r) = Len(b) - e.cp /\ i <= Len(r) + 1
              /\ e.cp \in Nat /\ Len(b) \in Nat
          BY <2>2, <2>3
        <5>1. i - Len(r) = 1 /\ ~(e.cp + i <= Len(b)) /\ ~(i <= Len(r)) BY <4>3, <5>0
        <5>2. t[i] = Editor!Space BY <2>4, <3>1, <4>1, <5>1
        <5>3. QED BY <5>1, <5>2 DEF Cell
      <4>4. QED BY <2>2, <2>3, <4>2, <4>3
    <3>4. QED BY <3>1, <3>2, <3>3
  <2>6. Covers(e, t, b)
    <3>1. ASSUME NEW i \in Nat \ {0}
          PROVE  Cell(b, i) = IF i \in e.cp + 1 .. e.cp + Len(t) THEN t[i - e.cp]
                              ELSE Cell(e.buffer, i)
      <4>1. CASE i \in e.cp + 1 .. e.cp + Len(t)
        <5>1. i - e.cp \in 1 .. Len(b) - e.cp + 1 /\ e.cp + (i - e.cp) = i
          BY <2>2, <2>5, <4>1
        <5>2. QED BY <2>5, <4>1, <5>1
      <4>2. CASE i <= e.cp
        <5>1. i \in 1 .. Len(b) /\ i <= Len(b) /\ i <= Len(e.buffer)
              /\ i \notin e.cp + 1 .. e.cp + Len(t)
          BY <1>0, <2>1, <2>2, <2>5, <4>2
        <5>2. QED BY <2>1, <4>2, <5>1 DEF Cell
      <4>3. CASE i > e.cp + Len(t)
        <5>1. ~(i <= Len(b)) /\ ~(i <= Len(e.buffer)) /\ i \notin e.cp + 1 .. e.cp + Len(t)
          BY <1>0, <2>1, <2>2, <2>5, <4>3
        <5>2. QED BY <5>1 DEF Cell
      <4>4. QED BY <2>2, <2>5, <4>1, <4>2, <4>3
    <3>2. Len(b) <= e.cp + Len(t) BY <2>2, <2>5
    <3>3. QED BY <3>1, <3>2 DEF Covers
  <2>7. Echoed(e, t, w) BY <1>0, <1>4, <2>5, Echoes
  <2>8. /\ EditFields \subseteq DOMAIN w /\ w.clen = e.clen /\ w.cp = e.cp
    BY <1>0, <2>7 DEF Echoed, SameRest
  <2>9. /\ SameRest(w, v) /\ v.clen = e.clen /\ v.cp = e.cp /\ v.screen = w.screen
        /\ v.cur = IF w.passwd THEN w.cur ELSE w.cur - (e.clen - e.cp)
    BY <1>5, <2>8, Backs
  <2>10. /\ SameRest(w, u) /\ u.screen = w.screen /\ u.buffer = b /\ u.cp = e.cp
         /\ u.clen = e.clen - 1 /\ u.cur = v.cur
    BY <1>6, <2>8, <2>9 DEF SameRest, EditFields
  <2>11. u.cp \in 0 .. Len(b) /\ u.clen = Len(b) /\ Len(b) <= MaxLine
    BY <1>0, <2>1, <2>2, <2>10, RowAssumption
  <2>12. e.clen - e.cp \in Nat /\ u.cp = e.cp + Len(t) - (e.clen - e.cp)
    BY <1>0, <2>1, <2>2, <2>5, <2>10
  <2>13. b \in Line BY <2>1, <2>11 DEF Line
  <2>14. SameRest(e, e) BY DEF SameRest
  <2>15. EdInv(u)
    BY <2>5, <2>6, <2>7, <2>9, <2>10, <2>11, <2>12, <2>13, <2>14, KeyStep
  <2>16. QED BY <1>7, <1>8, <2>15
<1>9. QED BY <1>7, <1>8

LEMMA KillStep ==
  ASSUME NEW e, EdInv(e)
  PROVE  /\ EdInv(Editor!KillLine(e))
         /\ Editor!KillLine(e).cp = e.cp /\ Len(Editor!KillLine(e).buffer) = e.cp
<1>0. /\ EditFields \subseteq DOMAIN e /\ e.buffer \in Line
      /\ e.buffer \in Seq(Chars) /\ Len(e.buffer) \in 0 .. MaxLine
      /\ e.cp \in 0 .. Len(e.buffer) /\ e.clen = Len(e.buffer)
      /\ e.screen \in Seq(Cells) /\ e.cur \in 0 .. Len(e.screen)
  BY EditNumbers
<1>1. PICK n : n = e.clen - e.cp OBVIOUS
<1>2. PICK t : t = [i \in 1 .. n |-> Editor!Space] OBVIOUS
<1>3. PICK b : b = SubSeq(e.buffer, 1, e.cp) OBVIOUS
<1>4. PICK w : w = Editor!Echo(e, t) OBVIOUS
<1>5. PICK v : v = Editor!EchoBack(w, n) OBVIOUS
<1>6. PICK u : u = [v EXCEPT !.buffer = b, !.clen = e.cp] OBVIOUS
<1>7. n \in Nat /\ Editor!Space \in Cells BY <1>0, <1>1 DEF Cells, Editor!Cells
<1>8. t \in Seq(Cells) /\ Len(t) = n /\ \A i \in 1 .. n : t[i] = Editor!Space
  <2>1. t \in [1 .. n -> Cells] BY <1>2, <1>7
  <2>2. QED BY <1>2, <1>7, <2>1
<1>9. b \in Seq(Chars) /\ Len(b) = e.cp /\ \A i \in 1 .. e.cp : b[i] = e.buffer[i]
  <2>1. e.buffer \in Seq(Chars) /\ e.cp \in 0 .. Len(e.buffer) /\ Len(e.buffer) \in Nat BY <1>0
  <2>2. QED BY <1>3, <2>1, SubSeqProperties, ElementOfSeq
<1>10. Covers(e, t, b)
  <2>1. ASSUME NEW i \in Nat \ {0}
        PROVE  Cell(b, i) = IF i \in e.cp + 1 .. e.cp + Len(t) THEN t[i - e.cp]
                            ELSE Cell(e.buffer, i)
    <3>1. CASE i <= e.cp
      <4>1. i \in 1 .. e.cp /\ i <= Len(b) /\ i <= Len(e.buffer) /\ i \notin e.cp + 1 .. e.cp + Len(t)
        BY <1>0, <1>8, <1>9, <3>1
      <4>2. QED BY <1>9, <4>1 DEF Cell
    <3>2. CASE i \in e.cp + 1 .. e.cp + Len(t)
      <4>1. i - e.cp \in 1 .. n /\ ~(i <= Len(b)) BY <1>0, <1>7, <1>8, <1>9, <3>2
      <4>2. QED BY <1>8, <3>2, <4>1 DEF Cell
    <3>3. CASE i > e.cp + Len(t)
      <4>1. ~(i <= Len(b)) /\ ~(i <= Len(e.buffer)) /\ i \notin e.cp + 1 .. e.cp + Len(t)
        BY <1>0, <1>1, <1>7, <1>8, <1>9, <3>3
      <4>2. QED BY <4>1 DEF Cell
    <3>4. QED BY <1>0, <1>7, <1>8, <3>1, <3>2, <3>3
  <2>2. Len(b) <= e.cp + Len(t) BY <1>0, <1>7, <1>8, <1>9
  <2>3. QED BY <2>1, <2>2 DEF Covers
<1>11. Echoed(e, t, w) BY <1>0, <1>4, <1>8, Echoes
<1>12. EditFields \subseteq DOMAIN w /\ w.cp = e.cp BY <1>0, <1>11 DEF Echoed, SameRest
<1>13. /\ SameRest(w, v) /\ v.cp = e.cp /\ v.screen = w.screen
       /\ v.cur = IF w.passwd THEN w.cur ELSE w.cur - n
  BY <1>5, <1>12, Backs
<1>14. /\ SameRest(w, u) /\ u.screen = w.screen /\ u.buffer = b /\ u.cp = e.cp
       /\ u.clen = Len(b) /\ u.cur = v.cur
  BY <1>6, <1>9, <1>12, <1>13 DEF SameRest, EditFields
<1>15. u.cp \in 0 .. Len(b) /\ Len(b) <= MaxLine /\ u.cp = e.cp + Len(t) - n
  BY <1>0, <1>7, <1>8, <1>9, <1>14, RowAssumption
<1>16. b \in Line BY <1>9, <1>15 DEF Line
<1>17. SameRest(e, e) BY DEF SameRest
<1>18. EdInv(u) BY <1>7, <1>8, <1>10, <1>11, <1>13, <1>14, <1>15, <1>16, <1>17, KeyStep
<1>19. Editor!KillLine(e) = u
  <2>1. v.buffer = e.buffer BY <1>5, <1>11, <1>12, Backs DEF Echoed
  <2>2. QED BY <1>1, <1>2, <1>3, <1>4, <1>5, <1>6, <2>1 DEF Editor!KillLine
<1>20. QED BY <1>9, <1>14, <1>18, <1>19

-----------------------------------------------------------------------------
(* A row with nothing in it, behind the prompt.                            *)
Blanked(e) ==
  /\ EditFields \subseteq DOMAIN e /\ e.history \in Seq(Line) /\ e.screen \in Seq(Cells)
  /\ e.hi \in Nat /\ e.cur \in 0 .. Len(e.screen)
  /\ e.passwd \in BOOLEAN /\ e.width \in {0, Columns % 256}
  /\ ~e.passwd => e.cur = 0 /\ \A i \in 1 .. Len(e.screen) : e.screen[i] = Editor!Space

LEMMA EmptyLine == <<>> \in Line /\ <<>> \in Seq(Cells) /\ Len(<<>>) = 0
BY RowAssumption DEF Line

LEMMA BlankedIsEmpty ==
  ASSUME NEW e, Blanked(e), e.buffer = <<>>, e.cp = 0, e.clen = 0
  PROVE  EdInv(e)
<1>1. Len(e.screen) \in Nat /\ Len(e.buffer) = 0 BY LenProperties, EmptyLine DEF Blanked
<1>2. EditTypes(e) BY EmptyLine DEF Blanked, EditTypes
<1>3. ASSUME ~e.passwd PROVE Displays(e.screen, e.buffer)
  <2>1. \A i \in 1 .. Len(e.screen) : Cell(e.buffer, i) = Editor!Space BY <1>1 DEF Cell
  <2>2. QED BY <1>1, <1>3, <2>1 DEF Displays, Blanked
<1>4. QED BY <1>1, <1>2, <1>3 DEF EdInv, Blanked

LEMMA PromptBlanks ==
  ASSUME NEW e, EditTypes(e)
  PROVE  /\ Blanked(Editor!NewPrompt(e))
         /\ Editor!NewPrompt(e).buffer = e.buffer
<1>1. PICK u : u = Editor!NewPrompt(e) OBVIOUS
<1>2. /\ EditFields \subseteq DOMAIN u /\ u.history = e.history /\ u.screen = <<>> /\ u.hi = e.hi
      /\ u.cur = 0 /\ u.passwd = e.passwd /\ u.width = e.width /\ u.buffer = e.buffer
  BY <1>1 DEF Editor!NewPrompt, EditTypes, EditFields
<1>3. Len(u.screen) = 0 /\ u.screen \in Seq(Cells) BY <1>2, EmptyLine
<1>4. QED BY <1>1, <1>2, <1>3 DEF Blanked, EditTypes

LEMMA EmptyStep ==
  ASSUME NEW e, Blanked(e)
  PROVE  EdInv(Editor!Emptied(e)) /\ Blanked(Editor!Emptied(e))
<1>1. PICK u : u = Editor!Emptied(e) OBVIOUS
<1>2. /\ SameRest(e, u) /\ u.screen = e.screen /\ u.cur = e.cur
      /\ u.buffer = <<>> /\ u.cp = 0 /\ u.clen = 0
  BY <1>1 DEF Editor!Emptied, Blanked, SameRest, EditFields
<1>3. Blanked(u) BY <1>2 DEF Blanked, SameRest
<1>4. QED BY <1>1, <1>2, <1>3, BlankedIsEmpty

LEMMA InterruptStep ==
  ASSUME NEW e, EdInv(e)
  PROVE  EdInv(Editor!InterruptLine(e)) /\ Blanked(Editor!InterruptLine(e))
BY PromptBlanks, EmptyStep DEF EdInv, Editor!InterruptLine

LEMMA BeginningIsReached ==
  ASSUME NEW e, EdInv(e), ~(e.cp + Prompt > e.width)
  PROVE  Editor!LineBeginning(e).cp = 0
<1>a. /\ EditFields \subseteq DOMAIN e /\ e.cp \in 0 .. Len(e.buffer)
      /\ Len(e.buffer) \in 0 .. MaxLine
  BY EditNumbers
<1>b. e.width \in {0, Columns % 256} BY DEF EdInv, EditTypes
<1>c. e.cp \in Nat /\ e.cp <= MaxLine BY <1>a, RowAssumption
<1>0. /\ EditFields \subseteq DOMAIN e /\ e.cp \in Nat /\ e.cp <= MaxLine
      /\ e.width \in {0, Columns % 256}
  BY <1>a, <1>b, <1>c
<1>1. CASE e.cp + Prompt >= e.width
  <2>1. e.width = 0 BY <1>0, <1>1, RowAssumption
  <2>2. e.cp = 0 BY <1>0, <2>1, RowAssumption
  <2>3. QED BY <1>1, <2>2 DEF Editor!LineBeginning
<1>2. CASE ~(e.cp + Prompt >= e.width)
  <2>1. PICK v : v = Editor!EchoBack(e, e.cp) OBVIOUS
  <2>2. EditFields \subseteq DOMAIN v BY <1>0, <2>1, Backs DEF SameRest
  <2>3. [v EXCEPT !.cp = 0].cp = 0 BY <2>2 DEF EditFields
  <2>4. QED BY <1>2, <2>1, <2>3 DEF Editor!LineBeginning
<1>3. QED BY <1>1, <1>2

LEMMA EraseStep ==
  ASSUME NEW e, EdInv(e)
  PROVE  EdInv(Editor!DeleteLine(e)) /\ Blanked(Editor!DeleteLine(e))
<1>1. CASE e.cp + Prompt > e.width BY <1>1, InterruptStep DEF Editor!DeleteLine
<1>2. CASE ~(e.cp + Prompt > e.width)
  <2>1. PICK s : s = Editor!LineBeginning(e) OBVIOUS
  <2>2. EdInv(s) /\ s.cp = 0 BY <1>2, <2>1, BeginningStep, BeginningIsReached
  <2>3. PICK k : k = Editor!KillLine(s) OBVIOUS
  <2>4. EdInv(k) /\ k.cp = 0 /\ Len(k.buffer) = 0 BY <2>2, <2>3, KillStep
  <2>5. Blanked(k)
    <3>1. ASSUME ~k.passwd
          PROVE  k.cur = 0 /\ \A i \in 1 .. Len(k.screen) : k.screen[i] = Editor!Space
      <4>1. k.cur = 0 /\ Displays(k.screen, k.buffer) BY <2>4, <3>1 DEF EdInv
      <4>2. \A i \in 1 .. Len(k.screen) : Cell(k.buffer, i) = Editor!Space BY <2>4 DEF Cell
      <4>3. QED BY <4>1, <4>2 DEF Displays
    <3>2. QED BY <2>4, <3>1 DEF EdInv, EditTypes, Blanked
  <2>6. Editor!DeleteLine(e) = Editor!Emptied(k) BY <1>2, <2>1, <2>3 DEF Editor!DeleteLine
  <2>7. QED BY <2>5, <2>6, EmptyStep
<1>3. QED BY <1>1, <1>2

LEMMA ShownStep ==
  ASSUME NEW e, Blanked(e), NEW b \in Line
  PROVE  EdInv(Editor!Shown(e, b))
<1>1. PICK d : d = [e EXCEPT !.buffer = b, !.cp = Len(b), !.clen = Len(b)] OBVIOUS
<1>2. /\ EditFields \subseteq DOMAIN d /\ SameRest(e, d) /\ d.screen = e.screen /\ d.cur = e.cur
      /\ d.buffer = b /\ d.cp = Len(b) /\ d.clen = Len(b)
  BY <1>1 DEF Blanked, SameRest, EditFields
<1>3. b \in Seq(Chars) /\ b \in Seq(Cells) /\ Len(b) \in Nat
  BY SeqMonotonic, LenProperties DEF Line, Cells, Editor!Cells
<1>4. d.screen \in Seq(Cells) /\ d.cur \in 0 .. Len(d.screen) /\ Len(d.screen) \in Nat
  BY <1>2, LenProperties DEF Blanked
<1>5. PICK u : u = Editor!Puts(d, b) OBVIOUS
<1>6. /\ SameRest(d, u) /\ u.buffer = d.buffer /\ u.cp = d.cp /\ u.clen = d.clen /\ Wrote(d, u, b)
  BY <1>2, <1>3, <1>4, <1>5, PutsWrites
<1>7. /\ u.screen \in Seq(Cells) /\ u.cur = d.cur + Len(b)
      /\ Len(u.screen) = IF d.cur + Len(b) < Len(d.screen) THEN Len(d.screen) ELSE d.cur + Len(b)
      /\ \A i \in 1 .. Len(u.screen) :
           u.screen[i] = IF i \in d.cur + 1 .. d.cur + Len(b) THEN b[i - d.cur] ELSE d.screen[i]
  BY <1>6 DEF Wrote
<1>8. u.cur \in 0 .. Len(u.screen) BY <1>3, <1>4, <1>7
<1>9. EditTypes(u)
  <2>1. u.buffer \in Line /\ u.cp \in Nat BY <1>2, <1>3, <1>6
  <2>2. u.history \in Seq(Line) /\ u.hi \in Nat /\ u.passwd \in BOOLEAN /\ u.width \in {0, Columns % 256}
        /\ EditFields \subseteq DOMAIN u
    BY <1>2, <1>6 DEF SameRest, Blanked
  <2>3. QED BY <1>7, <1>8, <2>1, <2>2 DEF EditTypes
<1>10. ASSUME ~u.passwd PROVE u.cur = u.cp /\ Displays(u.screen, u.buffer)
  <2>1. ~e.passwd BY <1>2, <1>6, <1>10 DEF SameRest
  <2>2. d.cur = 0 /\ \A i \in 1 .. Len(d.screen) : d.screen[i] = Editor!Space
    BY <1>2, <2>1 DEF Blanked
  <2>3. u.cur = u.cp BY <1>2, <1>3, <1>6, <1>7, <2>2
  <2>4. Len(b) <= Len(u.screen) BY <1>3, <1>4, <1>7, <2>2
  <2>5. ASSUME NEW i \in 1 .. Len(u.screen) PROVE u.screen[i] = Cell(b, i)
    <3>1. CASE i <= Len(b)
      <4>1. i \in d.cur + 1 .. d.cur + Len(b) /\ i - d.cur = i BY <1>3, <2>2, <3>1
      <4>2. QED BY <1>7, <3>1, <4>1 DEF Cell
    <3>2. CASE ~(i <= Len(b))
      <4>1. i \notin d.cur + 1 .. d.cur + Len(b) /\ i \in 1 .. Len(d.screen)
        BY <1>3, <1>4, <1>7, <2>2, <3>2
      <4>2. QED BY <1>7, <2>2, <3>2, <4>1 DEF Cell
    <3>3. QED BY <3>1, <3>2
  <2>6. QED BY <1>2, <1>6, <2>3, <2>4, <2>5 DEF Displays
<1>11. u.clen = Len(u.buffer) /\ u.cp <= u.clen BY <1>2, <1>3, <1>6
<1>12. EdInv(u) BY <1>9, <1>10, <1>11 DEF EdInv
<1>13. Editor!Shown(e, b) = u BY <1>1, <1>5 DEF Editor!Shown
<1>14. QED BY <1>12, <1>13

LEMMA HiStep ==
  ASSUME NEW e, EdInv(e), NEW i \in Nat
  PROVE  EdInv([e EXCEPT !.hi = i])
<1>1. PICK u : u = [e EXCEPT !.hi = i] OBVIOUS
<1>2. /\ DOMAIN u = DOMAIN e /\ u.buffer = e.buffer /\ u.cp = e.cp /\ u.clen = e.clen
      /\ u.screen = e.screen /\ u.cur = e.cur /\ u.hi = i /\ u.history = e.history
      /\ u.width = e.width /\ u.passwd = e.passwd
  BY <1>1, EditNumbers DEF EditFields
<1>3. QED BY <1>1, <1>2 DEF EdInv, EditTypes

LEMMA RecalledStep ==
  ASSUME NEW e, EdInv(e), NEW i \in Nat, i < Len(e.history)
  PROVE  EdInv(Editor!Recalled(e, i))
<1>1. e.history \in Seq(Line) /\ Len(e.history) \in Nat BY LenProperties DEF EdInv, EditTypes
<1>2. i + 1 \in 1 .. Len(e.history) BY <1>1
<1>3. e.history[i + 1] \in Line BY <1>1, <1>2, ElementOfSeq
<1>4. EdInv(Editor!Shown(Editor!DeleteLine(e), e.history[i + 1])) BY <1>3, EraseStep, ShownStep
<1>5. QED BY <1>4, HiStep DEF Editor!Recalled

LEMMA HistorySteps ==
  ASSUME NEW e, EdInv(e)
  PROVE  EdInv(Editor!PreviousLine(e)) /\ EdInv(Editor!NextLine(e))
<1>1. e.hi \in Nat /\ Len(e.history) \in Nat BY LenProperties DEF EdInv, EditTypes
<1>2. EdInv(Editor!PreviousLine(e))
  <2>1. CASE e.hi = 0 BY <2>1 DEF Editor!PreviousLine
  <2>2. CASE e.hi # 0 /\ e.hi - 1 < Len(e.history)
    <3>1. e.hi - 1 \in Nat BY <1>1, <2>2
    <3>2. EdInv(Editor!Recalled(e, e.hi - 1)) BY <2>2, <3>1, RecalledStep
    <3>3. QED BY <2>2, <3>2 DEF Editor!PreviousLine
  <2>3. CASE e.hi # 0 /\ ~(e.hi - 1 < Len(e.history))
    <3>1. e.hi - 1 \in Nat BY <1>1, <2>3
    <3>2. EdInv([e EXCEPT !.hi = e.hi - 1]) BY <3>1, HiStep
    <3>3. QED BY <2>3, <3>2 DEF Editor!PreviousLine
  <2>4. QED BY <2>1, <2>2, <2>3
<1>3. EdInv(Editor!NextLine(e))
  <2>1. CASE e.hi >= Len(e.history) - 1 BY <2>1 DEF Editor!NextLine
  <2>2. CASE ~(e.hi >= Len(e.history) - 1)
    <3>1. e.hi + 1 \in Nat /\ e.hi + 1 < Len(e.history) BY <1>1, <2>2
    <3>2. EdInv(Editor!Recalled(e, e.hi + 1)) BY <3>1, RecalledStep
    <3>3. QED BY <2>2, <3>2 DEF Editor!NextLine
  <2>3. QED BY <2>1, <2>2
<1>4. QED BY <1>2, <1>3

(* What Return leaves of a line.                                           *)
LEMMA AuthenticateStep ==
  ASSUME NEW e, EdInv(e), e.passwd
  PROVE  EdInv(Editor!Authenticate(e))
<1>0. EditTypes(e) BY DEF EdInv
<1>1. PICK f : f = [e EXCEPT !.retry = @ - 1] OBVIOUS
<1>2. /\ DOMAIN f = DOMAIN e /\ f.buffer = e.buffer /\ f.cp = e.cp /\ f.clen = e.clen
      /\ f.screen = e.screen /\ f.cur = e.cur /\ f.hi = e.hi /\ f.history = e.history
      /\ f.width = e.width /\ f.passwd = e.passwd
  BY <1>1, EditNumbers DEF EditFields
<1>3. EditTypes(f) /\ EdInv(f) BY <1>2 DEF EditTypes, EdInv
<1>4. PICK g : g = [f EXCEPT !.open = FALSE] OBVIOUS
<1>5. EdInv(g)
  <2>1. /\ DOMAIN g = DOMAIN f /\ g.buffer = f.buffer /\ g.cp = f.cp /\ g.clen = f.clen
        /\ g.screen = f.screen /\ g.cur = f.cur /\ g.hi = f.hi /\ g.history = f.history
        /\ g.width = f.width /\ g.passwd = f.passwd
    BY <1>3, <1>4, EditNumbers DEF EditFields
  <2>2. QED BY <1>3, <2>1 DEF EditTypes, EdInv
<1>6. PICK h : h = [e EXCEPT !.passwd = FALSE] OBVIOUS
<1>7. EditTypes(h)
  <2>1. /\ DOMAIN h = DOMAIN e /\ h.buffer = e.buffer /\ h.cp = e.cp
        /\ h.screen = e.screen /\ h.cur = e.cur /\ h.hi = e.hi /\ h.history = e.history
        /\ h.width = e.width /\ h.passwd = FALSE
    BY <1>0, <1>6 DEF EditTypes, EditFields
  <2>2. QED BY <1>0, <2>1 DEF EditTypes
<1>8. /\ EdInv(Editor!Emptied(Editor!NewPrompt(h)))
      /\ EdInv(Editor!Emptied(Editor!NewPrompt(f)))
  BY <1>3, <1>7, PromptBlanks, EmptyStep
<1>9. \/ Editor!Authenticate(e) = Editor!Emptied(Editor!NewPrompt(h))
      \/ Editor!Authenticate(e) = g
      \/ Editor!Authenticate(e) = Editor!Emptied(Editor!NewPrompt(f))
  BY <1>1, <1>4, <1>6 DEF Editor!Authenticate
<1>10. QED BY <1>5, <1>8, <1>9

LEMMA QueuedTypes ==
  ASSUME NEW e, EditTypes(e)
  PROVE  EditTypes(Editor!Queued(e)) /\ Editor!Queued(e).buffer = e.buffer
<1>0. e.history \in Seq(Line) /\ Len(e.history) \in Nat /\ e.buffer \in Line
  BY LenProperties DEF EditTypes
<1>1. PICK s : s = IF Len(e.history) = Depth THEN Tail(e.history) ELSE e.history OBVIOUS
<1>2. s \in Seq(Line)
  <2>1. CASE Len(e.history) = Depth
    <3>1. e.history # <<>> BY <1>0, <2>1, RowAssumption, EmptyLine
    <3>2. QED BY <1>0, <1>1, <2>1, <3>1, HeadTailProperties
  <2>2. CASE Len(e.history) # Depth BY <1>0, <1>1, <2>2
  <2>3. QED BY <2>1, <2>2
<1>3. PICK h : h = Append(s, e.buffer) OBVIOUS
<1>4. h \in Seq(Line) /\ Len(h) = Len(s) + 1 /\ Len(s) \in Nat
  BY <1>0, <1>2, <1>3, AppendProperties, LenProperties
<1>5. PICK q : q = [e EXCEPT !.history = h, !.hi = Len(h) - 1] OBVIOUS
<1>6. /\ DOMAIN q = DOMAIN e /\ q.buffer = e.buffer /\ q.cp = e.cp
      /\ q.screen = e.screen /\ q.cur = e.cur /\ q.hi = Len(h) - 1 /\ q.history = h
      /\ q.width = e.width /\ q.passwd = e.passwd
  BY <1>5 DEF EditTypes, EditFields
<1>7. EditTypes(q)
  <2>1. q.hi \in Nat BY <1>4, <1>6
  <2>2. QED BY <1>4, <1>6, <2>1 DEF EditTypes
<1>8. Editor!Queued(e) = e \/ Editor!Queued(e) = q
  BY <1>1, <1>3, <1>5 DEF Editor!Queued
<1>9. QED BY <1>6, <1>7, <1>8

LEMMA ExecuteStep ==
  ASSUME NEW e, EdInv(e), NEW outcome
  PROVE  EdInv(Editor!ExecuteCommand(e, outcome))
<1>1. PICK q : q = Editor!Queued(e) OBVIOUS
<1>2. EditTypes(q) BY <1>1, QueuedTypes DEF EdInv
<1>3. q.buffer \in Line BY <1>2 DEF EditTypes
<1>4. PICK p : p = Editor!Emptied(Editor!NewPrompt(q)) OBVIOUS
<1>5. EdInv(p) /\ p.hi + 1 \in Nat BY <1>2, <1>4, PromptBlanks, EmptyStep DEF Blanked
<1>6. EdInv([p EXCEPT !.hi = p.hi + 1]) BY <1>5, HiStep
<1>7. EdInv(Editor!Shown(Editor!NewPrompt(q), q.buffer)) BY <1>2, <1>3, PromptBlanks, ShownStep
<1>8. \/ Editor!ExecuteCommand(e, outcome) = [p EXCEPT !.hi = p.hi + 1]
      \/ Editor!ExecuteCommand(e, outcome) = Editor!Shown(Editor!NewPrompt(q), q.buffer)
  BY <1>1, <1>4 DEF Editor!ExecuteCommand
<1>9. QED BY <1>6, <1>7, <1>8

LEMMA CompleteStep ==
  ASSUME NEW e, EdInv(e), NEW b \in Line, NEW choices
  PROVE  EdInv(Editor!CompleteCommand(e, b, choices)) /\ EdInv(Editor!DescribeCommand(e))
<1>1. EdInv(Editor!Shown(Editor!NewPrompt(e), b)) BY PromptBlanks, ShownStep DEF EdInv
<1>2. EdInv(Editor!Shown(Editor!DeleteLine(e), b)) BY EraseStep, ShownStep
<1>3. EdInv(Editor!CompleteCommand(e, b, choices))
  BY <1>1, <1>2 DEF Editor!CompleteCommand
<1>4. e.buffer \in Line BY EditNumbers
<1>5. EdInv(Editor!Shown(Editor!NewPrompt(e), e.buffer))
  BY <1>4, PromptBlanks, ShownStep DEF EdInv
<1>6. QED BY <1>3, <1>5 DEF Editor!DescribeCommand

LEMMA ResizeStep ==
  ASSUME NEW e, EdInv(e)
  PROVE  EdInv(Editor!Told(e, Columns)) /\ EdInv([e EXCEPT !.insert = ~@])
<1>1. ASSUME NEW u, u = Editor!Told(e, Columns) \/ u = [e EXCEPT !.insert = ~@]
      PROVE  EdInv(u)
  <2>1. /\ DOMAIN u = DOMAIN e /\ u.buffer = e.buffer /\ u.cp = e.cp /\ u.clen = e.clen
        /\ u.screen = e.screen /\ u.cur = e.cur /\ u.hi = e.hi /\ u.history = e.history
        /\ u.passwd = e.passwd
    BY <1>1, EditNumbers DEF EditFields, Editor!Told
  <2>2. u.width \in {e.width, Columns % 256}
    BY <1>1, EditNumbers DEF EditFields, Editor!Told
  <2>3. QED BY <2>1, <2>2 DEF EdInv, EditTypes
<1>2. QED BY <1>1

LEMMA KeysStep ==
  ASSUME EdInv(ed), Editor!Next
  PROVE  EdInv(ed')
<1>1. ASSUME Editor!Type PROVE EdInv(ed')
  <2>1. PICK c \in Chars : ed.clen < MaxLine /\ ed' = Editor!PrintChar(ed, c)
    BY <1>1 DEF Editor!Type, Editor!Fits, Editor!Press
  <2>2. QED BY <2>1, PrintStep
<1>2. ASSUME Editor!Backspace PROVE EdInv(ed')
  <2>1. PICK b : b = Editor!BackwardChar(ed) OBVIOUS
  <2>2. EdInv(b) BY <2>1, BackwardStep
  <2>3. ed' = b \/ ed' = Editor!DeleteChar(b)
    BY <1>2, <2>1 DEF Editor!Backspace, Editor!Press
  <2>4. QED BY <2>2, <2>3, DeleteStep
<1>3. CASE Editor!MoveBackward BY <1>3, BackwardStep DEF Editor!MoveBackward, Editor!Press
<1>4. CASE Editor!MoveForward BY <1>4, ForwardStep DEF Editor!MoveForward, Editor!Press
<1>5. CASE Editor!Delete BY <1>5, DeleteStep DEF Editor!Delete, Editor!Press
<1>6. CASE Editor!Home BY <1>6, BeginningStep DEF Editor!Home, Editor!Press
<1>7. CASE Editor!End BY <1>7, EndStep DEF Editor!End, Editor!Press
<1>8. CASE Editor!Kill BY <1>8, KillStep DEF Editor!Kill, Editor!Press
<1>9. CASE Editor!Interrupt BY <1>9, InterruptStep DEF Editor!Interrupt, Editor!Press
<1>10. CASE Editor!Erase BY <1>10, EraseStep DEF Editor!Erase, Editor!Press
<1>11. CASE Editor!Up BY <1>11, HistorySteps DEF Editor!Up, Editor!Press
<1>12. CASE Editor!Down BY <1>12, HistorySteps DEF Editor!Down, Editor!Press
<1>13. CASE Editor!InsertKey BY <1>13, ResizeStep DEF Editor!InsertKey, Editor!Press
<1>14. CASE Editor!Resize BY <1>14, ResizeStep DEF Editor!Resize, Editor!Press
<1>15. ASSUME Editor!Return PROVE EdInv(ed')
  <2>1. CASE ed.passwd
    <3>1. ed' = Editor!Authenticate(ed) BY <1>15, <2>1 DEF Editor!Return, Editor!Press
    <3>2. QED BY <2>1, <3>1, AuthenticateStep
  <2>2. CASE ~ed.passwd
    <3>1. PICK o : ed' = Editor!ExecuteCommand(ed, o)
      BY <1>15, <2>2 DEF Editor!Return, Editor!Press
    <3>2. QED BY <3>1, ExecuteStep
  <2>3. QED BY <2>1, <2>2
<1>16. ASSUME Editor!Tab PROVE EdInv(ed')
  <2>1. PICK c \in Chars, choices \in BOOLEAN :
          /\ Len(ed.buffer) < MaxLine
          /\ ed' = Editor!CompleteCommand(ed, Append(ed.buffer, c), choices)
    BY <1>16 DEF Editor!Tab, Editor!Press
  <2>2. ed.buffer \in Seq(Chars) /\ Len(ed.buffer) \in 0 .. MaxLine BY EditNumbers
  <2>3. PICK b : b = Append(ed.buffer, c) OBVIOUS
  <2>4. b \in Seq(Chars) /\ Len(b) = Len(ed.buffer) + 1 BY <2>2, <2>3, AppendProperties
  <2>5. b \in Line BY <2>1, <2>2, <2>4, RowAssumption DEF Line
  <2>6. QED BY <2>1, <2>3, <2>5, CompleteStep
<1>17. ASSUME Editor!Question PROVE EdInv(ed')
  <2>1. ed' = Editor!DescribeCommand(ed) BY <1>17 DEF Editor!Question, Editor!Press
  <2>2. ed.buffer \in Line BY EditNumbers
  <2>3. QED BY <2>1, <2>2, CompleteStep
<1>18. QED
  BY <1>1, <1>2, <1>3, <1>4, <1>5, <1>6, <1>7, <1>8, <1>9, <1>10, <1>11, <1>12, <1>13,
     <1>14, <1>15, <1>16, <1>17 DEF Editor!Next

LEMMA BlankStep == Editor!Init => EdInv(ed)
<1> SUFFICES ASSUME Editor!Init PROVE EdInv(ed) OBVIOUS
<1>1. /\ EditFields \subseteq DOMAIN ed /\ ed.buffer = <<>> /\ ed.cp = 0 /\ ed.clen = 0 /\ ed.hi = 0
      /\ ed.history = <<>> /\ ed.width = 0 /\ ed.screen = <<>> /\ ed.cur = 0
      /\ ed.passwd \in BOOLEAN
  BY DEF Editor!Init, Editor!Blank, EditFields
<1>2. Len(ed.screen) = 0 /\ ed.screen \in Seq(Cells) /\ ed.history \in Seq(Line)
  BY <1>1, EmptyLine
<1>3. Blanked(ed) BY <1>1, <1>2 DEF Blanked
<1>4. QED BY <1>1, <1>3, BlankedIsEmpty

-----------------------------------------------------------------------------
(* The terminal shows the line that is edited and the cursor where the     *)
(* next key acts, whatever keys came before, as long as a line and the     *)
(* prompt fit into a row (CLIReader of cli.cc, ProcessChar and what it     *)
(* calls).                                                                 *)
THEOREM ScreenShowsTheLine == PartsSpec => []ScreenShowsLine
<1>1. PartsInit => EdInv(ed) BY BlankStep DEF PartsInit
<1>2. EdInv(ed) /\ [PartsNext]_partsVars => EdInv(ed)'
  <2> SUFFICES ASSUME EdInv(ed), [PartsNext]_partsVars PROVE EdInv(ed') OBVIOUS
  <2>1. CASE OnlyEditor /\ Editor!Next BY <2>1, KeysStep
  <2>2. CASE ed' = ed BY <2>2
  <2>3. QED
    BY <2>1, <2>2 DEF PartsNext, OnlyQconf, OnlyCli, OnlyApi, partsVars
<1>3. EdInv(ed) => ScreenShowsLine
  <2> SUFFICES ASSUME EdInv(ed) PROVE Editor!ScreenShowsLine BY DEF ScreenShowsLine
  <2>1. ed.cp \in 0 .. ed.clen /\ ed.clen = Len(ed.buffer) BY EditNumbers
  <2>2. ASSUME ~ed.passwd
        PROVE  /\ ed.cur = ed.cp /\ Len(ed.buffer) <= Len(ed.screen)
               /\ \A i \in 1 .. Len(ed.screen) :
                    ed.screen[i] = IF i <= Len(ed.buffer) THEN ed.buffer[i] ELSE Editor!Space
    BY <2>2 DEF EdInv, Displays, Cell
  <2>3. QED BY <2>1, <2>2 DEF Editor!ScreenShowsLine
<1>4. QED BY <1>1, <1>2, <1>3, PTL DEF PartsSpec

-----------------------------------------------------------------------------
(* The sessions of the command line do not get mixed up in what they       *)
(* share, for any number of them (CLIWriter::WriteBuffer, ~CLIReader,      *)
(* CLICommand::Execute).                                                   *)
THEOREM SessionsOfNarbApart == PartsSpec => []SessionsApart
<1>0. Sess!IsFiniteSet(Sessions) /\ MaxBatch \in Nat
  BY SessionAssumption DEF Sess!IsFiniteSet, IsFiniteSet
<1>1. Sess!Spec => []Sess!SessionsApart BY <1>0, Sess!SessionsStayApart
<1>2. PartsInit => Sess!Init
  BY DEF PartsInit, Cli!Init, Sess!Init, Cli!Unborn, Sess!Unborn, Cli!Commands, Sess!Commands
<1>3. [PartsNext]_partsVars => [Sess!Next]_(Sess!cliVars)
  <2>1. Cli!Next => Sess!Next
    BY Zenon
     DEF Cli!Unborn, Sess!Unborn, Cli!Reader, Sess!Reader, Cli!Writer, Sess!Writer,
         Cli!More, Sess!More, Cli!WriteBuffer, Sess!WriteBuffer, Cli!CloseReader,
         Sess!CloseReader, Cli!CloseWriter, Sess!CloseWriter, Cli!Exit, Sess!Exit,
         Cli!Freed, Sess!Freed, Cli!Alive, Sess!Alive, Cli!PrioritiesDone,
         Sess!PrioritiesDone, Cli!Accept, Sess!Accept, Cli!Hangup, Sess!Hangup,
         Cli!Reads, Sess!Reads, Cli!Select, Sess!Select, Cli!Command, Sess!Command,
         Cli!Found, Sess!Found, Cli!Batches, Sess!Batches, Cli!Named, Sess!Named,
         Cli!Queued, Sess!Queued, Cli!NoInput, Sess!NoInput, Cli!IsNext,
         Sess!IsNext, Cli!RunReader, Sess!RunReader, Cli!RunWriter, Sess!RunWriter,
         Cli!RunCommand, Sess!RunCommand, Cli!RunTimer, Sess!RunTimer, Cli!LoopNext,
         Sess!LoopNext, Cli!Next, Sess!Next, Cli!Line, Sess!Line, Cli!Commands,
         Sess!Commands, Cli!cliVars, Sess!cliVars, Cli!SetToSeq, Sess!SetToSeq,
         Cli!Max, Sess!Max, Cli!Cardinality, Sess!Cardinality, Cli!MapThenSumSet,
         Sess!MapThenSumSet, Cli!MapThenFoldSet, Sess!MapThenFoldSet,
         Cli!IsInjective, Sess!IsInjective
  <2>2. QED BY <2>1 DEF PartsNext, OnlyQconf, OnlyEditor, OnlyApi, partsVars,
                      Sess!cliVars, cliVars
<1>4. Sess!SessionsApart => SessionsApart
  BY DEF SessionsApart, Cli!SessionsApart, Sess!SessionsApart, Cli!OutputIsWritten,
         Sess!OutputIsWritten, Cli!FreedIsUnused, Sess!FreedIsUnused, Cli!NoMixing, Sess!NoMixing
<1>5. QED BY <1>1, <1>2, <1>3, <1>4, PTL DEF PartsSpec, Sess!Spec

-----------------------------------------------------------------------------
(* A client of an RCE that is connected is in the loop, and once, for what *)
(* it has to read and to write, and the RCE gets what was posted for it in *)
(* order and without a gap, for any number of clients, connections and     *)
(* messages (EventMaster::Schedule, APIWriter::PostMessage and Run).       *)
THEOREM ClientsOfNarbServed == PartsSpec => []InOrder
<1>1. Peer!Spec => [](Peer!OneList /\ Peer!NothingMissed /\ Peer!InOrder)
  BY ClientAssumption, Peer!LoopServesAll
<1>2. PartsInit => Peer!Init
  BY DEF PartsInit, Api!Init, Peer!Init, Api!Broker, Peer!Broker, Api!Clients, Peer!Clients,
         Api!NewClient, Peer!NewClient, Api!None, Peer!None, Api!Conns, Peer!Conns,
         Api!Closed, Peer!Closed
<1>3. [PartsNext]_partsVars => [Peer!Next]_(Peer!vars)
  <2>1. Api!Next => Peer!Next
    <3>1. /\ Api!Clients = Peer!Clients
          /\ Api!Conns = Peer!Conns
          /\ Api!None = Peer!None
          /\ Api!Closed = Peer!Closed
          /\ Api!Broker = Peer!Broker
          /\ Api!NewClient = Peer!NewClient
          /\ \A c : Api!Reader(c) = Peer!Reader(c) /\ Api!Writer(c) = Peer!Writer(c)
      BY DEF Api!Clients, Peer!Clients, Api!Conns, Peer!Conns, Api!None,
        Peer!None, Api!Closed, Peer!Closed, Api!Broker, Peer!Broker,
        Api!NewClient, Peer!NewClient, Api!Reader, Peer!Reader, Api!Writer,
        Peer!Writer
    <3>2. Api!Events = Peer!Events
      BY <3>1 DEF Api!Events, Peer!Events
    <3>3. \A e, l : Api!In(e, l) <=> Peer!In(e, l)
      BY DEF Api!In, Peer!In
    <3>4. Api!Posts = Peer!Posts
      BY DEF Api!Posts, Peer!Posts, Api!FoldFunction, Peer!FoldFunction,
        Api!FoldFunctionOnSet, Peer!FoldFunctionOnSet, Api!MapThenFoldSet,
        Peer!MapThenFoldSet
    <3>5. Api!Loop = Peer!Loop
      BY DEF Api!Loop, Peer!Loop
    <3>6. \A l, S : Api!Only(l, S) = Peer!Only(l, S)
      BY DEF Api!Only, Peer!Only, Api!Cardinality, Peer!Cardinality,
        Api!IsFiniteSet, Peer!IsFiniteSet
    <3>7. \A l, e : Api!Without(l, e) = Peer!Without(l, e)
      BY <3>2, <3>6 DEF Api!Without, Peer!Without
    <3>8. \A s, c : Api!ScheduleReader(s, c) = Peer!ScheduleReader(s, c)
      BY <3>1 DEF Api!ScheduleReader, Peer!ScheduleReader
    <3>9. \A s, c : Api!ScheduleWriter(s, c) = Peer!ScheduleWriter(s, c)
      BY <3>1 DEF Api!ScheduleWriter, Peer!ScheduleWriter
    <3>10. \A s, c : Api!CloseReader(s, c) = Peer!CloseReader(s, c)
      BY <3>1, <3>7 DEF Api!CloseReader, Peer!CloseReader
    <3>11. \A s, c : Api!CloseWriter(s, c) = Peer!CloseWriter(s, c)
      BY <3>1, <3>7 DEF Api!CloseWriter, Peer!CloseWriter
    <3>12. \A s, c : Api!CloseBoth(s, c) = Peer!CloseBoth(s, c)
      BY <3>10, <3>11 DEF Api!CloseBoth, Peer!CloseBoth
    <3>13. \A s, c, m : Api!PostMessage(s, c, m) = Peer!PostMessage(s, c, m)
      BY <3>9 DEF Api!PostMessage, Peer!PostMessage
    <3>14. \A s, c : Api!Send(s, c) = Peer!Send(s, c)
      BY <3>13 DEF Api!Send, Peer!Send
    <3>15. \A s, c : Api!Alive(s, c) <=> Peer!Alive(s, c)
      BY <3>1 DEF Api!Alive, Peer!Alive
    <3>16. \A s : Api!GetClient(s) = Peer!GetClient(s)
      BY <3>15 DEF Api!GetClient, Peer!GetClient
    <3>17. \A s : Api!Connected(s) = Peer!Connected(s)
      BY <3>8 DEF Api!Connected, Peer!Connected
    <3>18. \A s : Api!NotConnected(s) = Peer!NotConnected(s)
      BY <3>1 DEF Api!NotConnected, Peer!NotConnected
    <3>19. \A kind : Api!Handler(kind) = Peer!Handler(kind)
      BY <3>5, <3>14, <3>15, <3>16, <3>17, <3>18 DEF Api!Handler, Peer!Handler
    <3>20. Api!Bounded <=> Peer!Bounded
      BY <3>4, <3>15, <3>5 DEF Api!Bounded, Peer!Bounded
    <3>21. \A s, r : Api!Commit(s, r) <=> Peer!Commit(s, r)
      BY DEF Api!Commit, Peer!Commit
    <3>22. \A s, c : Api!Again(s, c) = Peer!Again(s, c)
      BY <3>9 DEF Api!Again, Peer!Again
    <3>23. \A l, a, b : Api!Renamed(l, a, b) = Peer!Renamed(l, a, b)
      BY DEF Api!Renamed, Peer!Renamed
    <3>24. \A f, g : Api!Watched(f, g) = Peer!Watched(f, g)
      BY DEF Api!Watched, Peer!Watched
    <3>25. Api!Readable = Peer!Readable
      BY <3>1 DEF Api!Readable, Peer!Readable
    <3>26. Api!lists = Peer!lists /\ Api!objs = Peer!objs
      BY DEF Api!lists, Peer!lists, Api!objs, Peer!objs
    <3>27. \A c : Api!RunReader(c) => Peer!RunReader(c)
      BY <3>1, <3>5, <3>21, <3>8, <3>12 DEF Api!RunReader, Peer!RunReader
    <3>28. \A c : Api!RunWriter(c) => Peer!RunWriter(c)
      BY <3>1, <3>5, <3>21, <3>22, <3>12 DEF Api!RunWriter, Peer!RunWriter
    <3>29. Api!RunBroker => Peer!RunBroker
      BY <3>1, <3>20, <3>19, <3>3, <3>21, <3>23 DEF Api!RunBroker,
        Peer!RunBroker
    <3>30. Api!SkipBroker => Peer!SkipBroker
      BY <3>1, <3>20, <3>26 DEF Api!lists, Peer!lists, Api!objs, Peer!objs, Api!SkipBroker, Peer!SkipBroker
    <3>31. \A w : Api!Select(w) => Peer!Select(w)
      BY <3>1, <3>2, <3>6, <3>24, <3>25, <3>26 DEF Api!lists, Peer!lists, Api!objs, Peer!objs, Api!Select, Peer!Select
    <3>32. /\ \A n : Api!RceSend(n) => Peer!RceSend(n)
           /\ Api!RceStop => Peer!RceStop
           /\ Api!RceStart => Peer!RceStart
      <4>1. \A n : Api!RceSend(n) => Peer!RceSend(n)
        BY <3>26 DEF Api!lists, Peer!lists, Api!objs, Peer!objs, Api!RceSend, Peer!RceSend
      <4>2. Api!RceStop => Peer!RceStop
        BY <3>1, <3>26 DEF Api!lists, Peer!lists, Api!objs, Peer!objs, Api!RceStop, Peer!RceStop
      <4>3. Api!RceStart => Peer!RceStart
        BY <3>26 DEF Api!lists, Peer!lists, Api!objs, Peer!objs, Api!RceStart, Peer!RceStart
      <4>4. QED BY <4>1, <4>2, <4>3
    <3>33. QED
      BY <3>1, <3>27, <3>28, <3>29, <3>30, <3>31, <3>32 DEF Api!Next, Peer!Next
  <2>2. QED BY <2>1 DEF PartsNext, OnlyQconf, OnlyCli, OnlyEditor, partsVars,
                      Peer!vars, Peer!lists, Peer!objs, apiVars
<1>4. Peer!OneList /\ Peer!NothingMissed /\ Peer!InOrder => InOrder
  BY Zenon
  DEF InOrder, Api!OneList, Peer!OneList, Api!NothingMissed, Peer!NothingMissed, Api!InOrder,
      Peer!InOrder, Api!ListedOnce, Peer!ListedOnce, Api!All, Peer!All, Api!In, Peer!In,
      Api!Events, Peer!Events, Api!Clients, Peer!Clients, Api!Conns, Peer!Conns, Api!Reader,
      Peer!Reader, Api!Writer, Peer!Writer, Api!Broker, Peer!Broker, Api!Cardinality,
      Peer!Cardinality
<1>5. QED BY <1>1, <1>2, <1>3, <1>4, PTL DEF PartsSpec, Peer!Spec
=============================================================================

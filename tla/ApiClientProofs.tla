--------------------------- MODULE ApiClientProofs --------------------------
(***************************************************************************)
(* What the event loop of a NARB keeps for its clients of an RCE, for any  *)
(* number of clients, connections and messages.  The invariant is stated   *)
(* of a loop state s, a list r of ready events and a set X of events that  *)
(* a handler has in its hands: it holds with X = {} between two steps, and *)
(* the operators that a handler calls add events to X or take them away.   *)
(***************************************************************************)
EXTENDS ApiClient, TLAPS, FiniteSetTheorems, SequenceTheorems

-----------------------------------------------------------------------------
(* Lists of events.                                                        *)

Once(l) == \A i, j \in 1 .. Len(l) : l[i] = l[j] => i = j

(* The list k is the list l with x at its end.                             *)
Adds(l, x, k) == /\ k \in Seq(Events)
                 /\ \A e : In(e, k) <=> In(e, l) \/ e = x
                 /\ Once(l) /\ ~In(x, l) => Once(k)

LEMMA Added ==
  ASSUME NEW l \in Seq(Events), NEW x \in Events
  PROVE  Adds(l, x, Append(l, x))
<1>0. PICK k : k = Append(l, x) OBVIOUS
<1>1. /\ k \in Seq(Events) /\ Len(l) \in Nat /\ Len(k) = Len(l) + 1
      /\ \A i \in 1 .. Len(l) : k[i] = l[i]
      /\ k[Len(l) + 1] = x
  BY <1>0, AppendProperties, LenProperties
<1>2. ASSUME NEW e, In(e, k) PROVE In(e, l) \/ e = x
  <2>1. PICK i \in 1 .. Len(k) : k[i] = e BY <1>2 DEF In
  <2>2. i \in 1 .. Len(l) \/ i = Len(l) + 1 BY <1>1
  <2>3. QED BY <1>1, <2>1, <2>2 DEF In
<1>3. ASSUME NEW e, In(e, l) \/ e = x PROVE In(e, k)
  <2>1. CASE In(e, l)
    <3>1. PICK i \in 1 .. Len(l) : l[i] = e BY <2>1 DEF In
    <3>2. i \in 1 .. Len(k) /\ k[i] = e BY <1>1, <3>1
    <3>3. QED BY <3>2 DEF In
  <2>2. CASE e = x
    <3>1. Len(l) + 1 \in 1 .. Len(k) /\ k[Len(l) + 1] = e BY <1>1, <2>2
    <3>2. QED BY <3>1 DEF In
  <2>3. QED BY <1>3, <2>1, <2>2
<1>4. ASSUME Once(l), ~In(x, l), NEW i \in 1 .. Len(k), NEW j \in 1 .. Len(k), k[i] = k[j]
      PROVE  i = j
  <2>1. /\ i \in 1 .. Len(l) \/ i = Len(l) + 1
        /\ j \in 1 .. Len(l) \/ j = Len(l) + 1
    BY <1>1
  <2>2. ASSUME NEW m \in 1 .. Len(l) PROVE k[m] # x BY <1>1, <1>4 DEF In
  <2>3. CASE i \in 1 .. Len(l) /\ j \in 1 .. Len(l) BY <1>1, <1>4, <2>3 DEF Once
  <2>4. QED BY <1>1, <1>4, <2>1, <2>2, <2>3
<1>5. Once(l) /\ ~In(x, l) => Once(k) BY <1>4 DEF Once
<1>6. QED BY <1>0, <1>1, <1>2, <1>3, <1>5 DEF Adds

LEMMA Popped ==
  ASSUME NEW l \in Seq(Events), l # <<>>, NEW k, k = Tail(l), NEW x, x = Head(l)
  PROVE  /\ x \in Events /\ k \in Seq(Events)
         /\ \A e : In(e, l) <=> In(e, k) \/ e = x
         /\ Once(l) => Once(k) /\ ~In(x, k)
<1>1. /\ x \in Events /\ k \in Seq(Events) /\ Len(l) \in Nat \ {0} /\ Len(k) = Len(l) - 1
      /\ \A i \in 1 .. Len(k) : k[i] = l[i + 1]
      /\ x = l[1]
  BY HeadTailProperties, EmptySeq, LenProperties
<1>2. ASSUME NEW e, In(e, l) PROVE In(e, k) \/ e = x
  <2>1. PICK i \in 1 .. Len(l) : l[i] = e BY <1>2 DEF In
  <2>2. CASE i = 1 BY <1>1, <2>1, <2>2
  <2>3. CASE i # 1
    <3>1. i - 1 \in 1 .. Len(k) /\ (i - 1) + 1 = i BY <1>1, <2>3
    <3>2. k[i - 1] = e BY <1>1, <2>1, <3>1
    <3>3. QED BY <3>1, <3>2 DEF In
  <2>4. QED BY <2>2, <2>3
<1>3. ASSUME NEW e, In(e, k) \/ e = x PROVE In(e, l)
  <2>1. CASE In(e, k)
    <3>1. PICK i \in 1 .. Len(k) : k[i] = e BY <2>1 DEF In
    <3>2. i + 1 \in 1 .. Len(l) /\ l[i + 1] = e BY <1>1, <3>1
    <3>3. QED BY <3>2 DEF In
  <2>2. CASE e = x
    <3>1. 1 \in 1 .. Len(l) BY <1>1
    <3>2. QED BY <1>1, <2>2, <3>1 DEF In
  <2>3. QED BY <1>3, <2>1, <2>2
<1>4. ASSUME Once(l) PROVE Once(k) /\ ~In(x, k)
  <2>1. ASSUME NEW i \in 1 .. Len(k), NEW j \in 1 .. Len(k), k[i] = k[j] PROVE i = j
    <3>1. /\ i + 1 \in 1 .. Len(l) /\ j + 1 \in 1 .. Len(l) /\ l[i + 1] = l[j + 1]
      BY <1>1, <2>1
    <3>2. i + 1 = j + 1 BY <1>4, <3>1 DEF Once
    <3>3. QED BY <3>2
  <2>2. ASSUME NEW i \in 1 .. Len(k), k[i] = x PROVE FALSE
    <3>1. /\ i + 1 \in 1 .. Len(l) /\ 1 \in 1 .. Len(l) /\ l[i + 1] = l[1] BY <1>1, <2>2
    <3>2. i + 1 = 1 BY <1>4, <3>1 DEF Once
    <3>3. QED BY <3>2
  <2>3. QED BY <2>1, <2>2 DEF Once, In
<1>5. QED BY <1>1, <1>2, <1>3, <1>4

LEMMA Joined ==
  ASSUME NEW l \in Seq(Events), NEW m \in Seq(Events), NEW k, k = l \o m
  PROVE  /\ k \in Seq(Events)
         /\ \A e : In(e, k) <=> In(e, l) \/ In(e, m)
         /\ Once(l) /\ Once(m) /\ (\A e \in Events : ~(In(e, l) /\ In(e, m))) => Once(k)
<1>1. /\ k \in Seq(Events) /\ Len(l) \in Nat /\ Len(m) \in Nat /\ Len(k) = Len(l) + Len(m)
      /\ \A i \in 1 .. Len(l) + Len(m) : k[i] = IF i <= Len(l) THEN l[i] ELSE m[i - Len(l)]
  BY ConcatProperties, LenProperties
<1>2. ASSUME NEW i \in 1 .. Len(k)
      PROVE  \/ i \in 1 .. Len(l) /\ k[i] = l[i]
             \/ i - Len(l) \in 1 .. Len(m) /\ k[i] = m[i - Len(l)]
  BY <1>1
<1>3. ASSUME NEW e, In(e, k) PROVE In(e, l) \/ In(e, m)
  <2>1. PICK i \in 1 .. Len(k) : k[i] = e BY <1>3 DEF In
  <2>2. QED BY <1>2, <2>1 DEF In
<1>4. ASSUME NEW e, In(e, l) PROVE In(e, k)
  <2>1. PICK i \in 1 .. Len(l) : l[i] = e BY <1>4 DEF In
  <2>2. i \in 1 .. Len(k) /\ k[i] = e BY <1>1, <2>1
  <2>3. QED BY <2>2 DEF In
<1>5. ASSUME NEW e, In(e, m) PROVE In(e, k)
  <2>1. PICK i \in 1 .. Len(m) : m[i] = e BY <1>5 DEF In
  <2>2. i + Len(l) \in 1 .. Len(k) /\ ~(i + Len(l) <= Len(l)) /\ (i + Len(l)) - Len(l) = i
    BY <1>1, <2>1
  <2>3. k[i + Len(l)] = e BY <1>1, <2>1, <2>2
  <2>4. QED BY <2>2, <2>3 DEF In
<1>6. ASSUME Once(l), Once(m), \A e \in Events : ~(In(e, l) /\ In(e, m)),
             NEW i \in 1 .. Len(k), NEW j \in 1 .. Len(k), k[i] = k[j]
      PROVE  i = j
  <2>1. ASSUME NEW a \in 1 .. Len(l), NEW b \in 1 .. Len(m) PROVE l[a] # m[b]
    <3>1. l[a] \in Events BY ElementOfSeq
    <3>2. QED BY <1>6, <3>1 DEF In
  <2>2. CASE i \in 1 .. Len(l) /\ k[i] = l[i] /\ j \in 1 .. Len(l) /\ k[j] = l[j]
    BY <1>6, <2>2 DEF Once
  <2>3. CASE /\ i - Len(l) \in 1 .. Len(m) /\ k[i] = m[i - Len(l)]
             /\ j - Len(l) \in 1 .. Len(m) /\ k[j] = m[j - Len(l)]
    <3>1. i - Len(l) = j - Len(l) BY <1>6, <2>3 DEF Once
    <3>2. QED BY <1>1, <3>1
  <2>4. QED BY <1>2, <1>6, <2>1, <2>2, <2>3
<1>7. QED BY <1>1, <1>3, <1>4, <1>5, <1>6 DEF Once

(* What Only leaves is the list without the rest: the places that are kept *)
(* and their ranks are in one-to-one correspondence.                       *)
LEMMA OnlyLeaves ==
  ASSUME NEW l \in Seq(Events), NEW S, NEW k, k = Only(l, S)
  PROVE  /\ k \in Seq(Events)
         /\ \A e : In(e, k) <=> In(e, l) /\ e \in S
         /\ Once(l) => Once(k)
<1> DEFINE at == {i \in 1 .. Len(l) : l[i] \in S}
           upto(i) == {j \in at : j <= i}
           rank(i) == Cardinality(upto(i))
           pos(n) == CHOOSE i \in at : rank(i) = n
           N == Cardinality(at)
<1>1. Len(l) \in Nat /\ IsFiniteSet(1 .. Len(l)) BY LenProperties, FS_Interval
<1>2. at \subseteq 1 .. Len(l) OBVIOUS
<1>3. IsFiniteSet(at) /\ N \in Nat BY <1>1, <1>2, FS_Subset, FS_CardinalityType
<1>4. k = [n \in 1 .. N |-> l[pos(n)]] BY DEF Only
<1>5. ASSUME NEW i \in at
      PROVE  IsFiniteSet(upto(i)) /\ rank(i) \in 1 .. N
  <2>1. upto(i) \in SUBSET at /\ i \in upto(i) BY <1>2, <1>1
  <2>2. IsFiniteSet(upto(i)) /\ rank(i) <= N BY <1>3, <2>1, FS_Subset
  <2>3. rank(i) \in Nat /\ rank(i) # 0 BY <2>1, <2>2, FS_EmptySet, FS_CardinalityType
  <2>4. QED BY <1>3, <2>2, <2>3
<1>6. ASSUME NEW i \in at, NEW j \in at, i < j PROVE rank(i) # rank(j)
  <2>1. upto(i) \in SUBSET upto(j) /\ j \in upto(j) /\ j \notin upto(i) BY <1>1, <1>2, <1>6
  <2>2. upto(i) # upto(j) BY <2>1
  <2>3. QED BY <1>5, <2>1, <2>2, FS_Subset
<1>7. ASSUME NEW i \in at, NEW j \in at, rank(i) = rank(j) PROVE i = j
  <2>1. i \in Nat /\ j \in Nat BY <1>1, <1>2
  <2>2. QED BY <1>6, <1>7, <2>1
<1>8. ASSUME NEW n \in 1 .. N PROVE \E i \in at : rank(i) = n
  <2> DEFINE f == [i \in at |-> rank(i)]
  <2>1. f \in [at -> 1 .. N] BY <1>5
  <2>2. f \in Injection(at, 1 .. N) BY <1>7, <2>1 DEF Injection, IsInjective
  <2>3. IsFiniteSet(1 .. N) /\ Cardinality(1 .. N) = N BY <1>3, FS_Interval
  <2>4. f \in Surjection(at, 1 .. N) BY <2>2, <2>3, FS_Injection
  <2>5. QED BY <2>4 DEF Surjection
<1>9. ASSUME NEW n \in 1 .. N PROVE pos(n) \in at /\ rank(pos(n)) = n BY <1>8
<1>10. ASSUME NEW i \in at PROVE rank(i) \in 1 .. N /\ pos(rank(i)) = i BY <1>5, <1>7, <1>9
<1> HIDE DEF pos, rank, N
<1>11. ASSUME NEW n \in 1 .. N
       PROVE  /\ pos(n) \in 1 .. Len(l) /\ l[pos(n)] \in S /\ l[pos(n)] \in Events
              /\ k[n] = l[pos(n)]
  <2>1. pos(n) \in 1 .. Len(l) /\ l[pos(n)] \in S BY <1>9
  <2>2. QED BY <1>4, <2>1, ElementOfSeq
<1>12. k \in Seq(Events) /\ Len(k) = N
  <2>1. k \in [1 .. N -> Events] BY <1>4, <1>11
  <2>2. QED BY <1>3, <2>1
<1>13. ASSUME NEW e, In(e, k) PROVE In(e, l) /\ e \in S
  <2>1. PICK n \in 1 .. N : k[n] = e BY <1>12, <1>13 DEF In
  <2>2. QED BY <1>11, <2>1 DEF In
<1>14. ASSUME NEW e, In(e, l), e \in S PROVE In(e, k)
  <2>1. PICK i \in 1 .. Len(l) : l[i] = e BY <1>14 DEF In
  <2>2. i \in at BY <1>14, <2>1
  <2>3. rank(i) \in 1 .. N /\ k[rank(i)] = e BY <1>10, <1>11, <2>1, <2>2
  <2>4. QED BY <1>12, <2>3 DEF In
<1>15. ASSUME Once(l), NEW m \in 1 .. Len(k), NEW n \in 1 .. Len(k), k[m] = k[n] PROVE m = n
  <2>1. pos(m) = pos(n) BY <1>11, <1>12, <1>15 DEF Once
  <2>2. QED BY <1>9, <1>12, <2>1
<1>16. QED BY <1>12, <1>13, <1>14, <1>15 DEF Once

LEMMA RenamedIs ==
  ASSUME NEW l \in Seq(Events), NEW old, NEW new \in Events, NEW k, k = Renamed(l, old, new)
  PROVE  /\ k \in Seq(Events)
         /\ \A e : In(e, k) => In(e, l) \/ e = new
         /\ \A e : In(e, l) /\ e # old => In(e, k)
<1>1. Len(l) \in Nat BY LenProperties
<1>2. \A i \in 1 .. Len(l) : l[i] \in Events BY ElementOfSeq
<1>3. k \in [1 .. Len(l) -> Events] BY <1>2 DEF Renamed
<1>4. k \in Seq(Events) /\ Len(k) = Len(l) BY <1>1, <1>3
<1>5. \A i \in 1 .. Len(l) : k[i] = IF l[i] = old THEN new ELSE l[i] BY DEF Renamed
<1>6. QED BY <1>4, <1>5 DEF In

-----------------------------------------------------------------------------
(* The invariant.                                                          *)

Message == [conn : Conns \cup {Closed}, num : Nat]
Client  == [rfd : Conns \cup {None, Closed}, wfd : Conns \cup {None}, queue : Seq(Message)]

Types(s, r, X, g) ==
  /\ s \in [reads : Seq(Events), writes : Seq(Events), readfd : SUBSET Conns,
            writefd : SUBSET Conns, cl : [Clients -> Client], cur : Clients \cup {0},
            made : 0 .. MaxClients, deleted : SUBSET Clients, conns : 0 .. MaxConns,
            open : SUBSET Conns, posted : [Conns \cup {Closed} -> Nat]]
  /\ r \in Seq(Events) /\ X \subseteq Events /\ g \in [Conns -> Seq(Message)]

(* A client that was not made is a new one, the sockets of one that is     *)
(* connected are a connection of its own, and one that was deleted has     *)
(* none.                                                                   *)
Sockets(s) ==
  /\ \A c \in Clients : c > s.made => s.cl[c] = NewClient
  /\ \A c \in Clients : s.cl[c].wfd # None => s.cl[c].wfd = s.cl[c].rfd
  /\ \A c \in Clients : s.cl[c].rfd \in Conns => s.cl[c].wfd = s.cl[c].rfd
                                              /\ s.cl[c].rfd <= s.conns
  /\ \A c, d \in Clients : s.cl[c].rfd \in Conns /\ s.cl[c].rfd = s.cl[d].rfd => c = d
  /\ \A n \in s.open : n <= s.conns
  /\ s.cur \in {0, s.made}
  /\ \A c \in s.deleted : c <= s.made /\ c # s.cur /\ s.cl[c].rfd = None

(* An event is in a list of the loop, or in a handler's hands.             *)
Listed(e, s, r)  == In(e, s.reads) \/ In(e, s.writes) \/ In(e, r)
Known(s, r, X) ==
  \A c \in Clients :
    /\ Listed(Reader(c), s, r) \/ Reader(c) \in X => c <= s.made /\ s.cl[c].rfd # Closed
    /\ Listed(Writer(c), s, r) \/ Writer(c) \in X => c <= s.made

(* A socket that is watched has its event in the list.                     *)
Bits(s) ==
  /\ \A n \in s.readfd  : \E c \in Clients : s.cl[c].rfd = n /\ In(Reader(c), s.reads)
  /\ \A n \in s.writefd : \E c \in Clients : s.cl[c].wfd = n /\ In(Writer(c), s.writes)

(* NothingMissed, of a loop state.                                         *)
Missed(s, r, X) ==
  \A c \in Clients :
    /\ s.cl[c].rfd \in Conns => In(Reader(c), s.reads) \/ In(Reader(c), r) \/ Reader(c) \in X
    /\ s.cl[c].wfd \in Conns /\ s.cl[c].queue # <<>> =>
         In(Writer(c), s.writes) \/ In(Writer(c), r) \/ Writer(c) \in X

(* No event is listed twice, and a writer only when it has something to    *)
(* write.                                                                  *)
Single(s, r, X) ==
  /\ Once(s.reads) /\ Once(s.writes) /\ Once(r)
  /\ \A e \in Events : /\ ~(In(e, s.reads) /\ In(e, s.writes))
                       /\ ~(In(e, s.reads) /\ In(e, r))
                       /\ ~(In(e, s.writes) /\ In(e, r))
                       /\ e \in X => ~Listed(e, s, r)
  /\ \A c \in Clients : Listed(Writer(c), s, r) /\ s.cl[c].wfd # None =>
                          s.cl[c].queue # <<>>

(* The queue q of connection n, over which p messages were posted, goes on *)
(* where the list l of those that arrived ends.                            *)
GoesOn(q, n, p, l) ==
  /\ p = Len(l) + Len(q)
  /\ \A i \in 1 .. Len(q) : q[i] = [conn |-> n, num |-> Len(l) + i]

(* This is so as long as the connection is up.                             *)
Queues(s, g) ==
  /\ \A n \in Conns : \A i \in 1 .. Len(g[n]) : g[n][i] = [conn |-> n, num |-> i]
  /\ \A n \in Conns : n > s.conns => s.posted[n] = 0 /\ g[n] = <<>>
  /\ \A c \in Clients :
       s.cl[c].wfd \in s.open =>
         GoesOn(s.cl[c].queue, s.cl[c].wfd, s.posted[s.cl[c].wfd], g[s.cl[c].wfd])

AInv(s, r, X, u, g) ==
  /\ Types(s, r, X, g)
  /\ Sockets(s) /\ Known(s, r, X) /\ Bits(s) /\ Missed(s, r, X) /\ Queues(s, g)
  /\ ~u => Single(s, r, X)

-----------------------------------------------------------------------------
(* Numbers and names.                                                      *)

LEMMA Names ==
  /\ \A c \in Clients : Reader(c) \in Events /\ Writer(c) \in Events
  /\ Broker \in Events
  /\ \A c, d \in Clients : /\ Reader(c) = Reader(d) <=> c = d
                           /\ Writer(c) = Writer(d) <=> c = d
                           /\ Reader(c) # Writer(d)
  /\ \A c \in Clients : Reader(c) # Broker /\ Writer(c) # Broker
<1>1. "R" # "W" /\ "R" # "X" /\ "W" # "X" OBVIOUS
<1>2. QED BY <1>1 DEF Reader, Writer, Broker, Events

LEMMA Numbers ==
  ASSUME MaxConns \in Nat
  PROVE  /\ None \notin Conns /\ Closed \notin Conns /\ None # Closed
         /\ \A n \in Conns : n \in Nat
BY DEF None, Closed, Conns

LEMMA Fields ==
  ASSUME NEW s, NEW r, NEW X, NEW g, Types(s, r, X, g)
  PROVE  /\ s.reads \in Seq(Events) /\ s.writes \in Seq(Events) /\ s.readfd \subseteq Conns
         /\ s.writefd \subseteq Conns /\ s.cl \in [Clients -> Client]
         /\ s.cur \in Clients \cup {0} /\ s.made \in 0 .. MaxClients
         /\ s.deleted \subseteq Clients /\ s.conns \in 0 .. MaxConns /\ s.open \subseteq Conns
         /\ s.posted \in [Conns \cup {Closed} -> Nat]
         /\ r \in Seq(Events) /\ X \subseteq Events /\ g \in [Conns -> Seq(Message)]
         /\ \A c \in Clients : /\ s.cl[c].rfd \in Conns \cup {None, Closed}
                               /\ s.cl[c].wfd \in Conns \cup {None}
                               /\ s.cl[c].queue \in Seq(Message)
                               /\ Len(s.cl[c].queue) \in Nat
<1>1. \A q \in Seq(Message) : Len(q) \in Nat BY LenProperties
<1>2. QED BY <1>1 DEF Types, Client

-----------------------------------------------------------------------------
(* What the operators of the loop keep.                                    *)

LEMMA SameQueues ==
  ASSUME NEW s, NEW t, NEW g, t.cl = s.cl, t.conns = s.conns, t.open = s.open,
         t.posted = s.posted, Queues(s, g)
  PROVE  Queues(t, g)
BY Zenon DEF Queues

(* An event that need not wait is dropped.                                 *)
LEMMA Dropped ==
  ASSUME MaxConns \in Nat, NEW s, NEW r, NEW X, NEW u, NEW g, AInv(s, r, X, u, g), NEW x,
         \A c \in Clients : /\ x = Reader(c) => s.cl[c].rfd \notin Conns
                            /\ x = Writer(c) => s.cl[c].wfd \notin Conns \/ s.cl[c].queue = <<>>
  PROVE  AInv(s, r, X \ {x}, u, g)
<1>1. Types(s, r, X \ {x}, g) BY DEF AInv, Types
<1>2. Known(s, r, X \ {x}) BY DEF AInv, Known
<1>3. Missed(s, r, X \ {x}) BY DEF AInv, Missed
<1>4. ~u => Single(s, r, X \ {x}) BY DEF AInv, Single
<1>5. QED BY <1>1, <1>2, <1>3, <1>4 DEF AInv

LEMMA SchedulesReader ==
  ASSUME MaxConns \in Nat, NEW s, NEW r, NEW X, NEW u, NEW g, AInv(s, r, X, u, g),
         NEW c \in Clients, Reader(c) \in X
  PROVE  AInv(ScheduleReader(s, c), r, X \ {Reader(c)}, u, g)
<1>0. s.cl[c].rfd \in Conns \cup {None}
  BY Fields DEF AInv, Known
<1>1. CASE s.cl[c].rfd = None
  <2>1. \A d \in Clients : Reader(c) = Reader(d) => s.cl[d].rfd \notin Conns
    BY <1>1, Names, Numbers
  <2>2. \A d \in Clients : Reader(c) # Writer(d) BY Names
  <2>3. QED BY <1>1, <2>1, <2>2, Dropped DEF ScheduleReader
<1>2. CASE s.cl[c].rfd \in Conns /\ s.cl[c].rfd \in s.readfd
  <2>1. In(Reader(c), s.reads) BY <1>2 DEF AInv, Bits, Sockets
  <2>2. ScheduleReader(s, c) = s BY <1>2 DEF ScheduleReader
  <2>3. Types(s, r, X \ {Reader(c)}, g) BY DEF AInv, Types
  <2>4. Known(s, r, X \ {Reader(c)}) BY DEF AInv, Known
  <2>5. Missed(s, r, X \ {Reader(c)}) BY <2>1, Names DEF AInv, Missed
  <2>6. ~u => Single(s, r, X \ {Reader(c)}) BY DEF AInv, Single
  <2>7. QED BY <2>2, <2>3, <2>4, <2>5, <2>6 DEF AInv
<1>3. CASE s.cl[c].rfd \in Conns /\ s.cl[c].rfd \notin s.readfd
  <2> DEFINE Y == X \ {Reader(c)}
  <2>1. PICK k : k = Append(s.reads, Reader(c)) OBVIOUS
  <2>2. /\ k \in Seq(Events)
        /\ \A e : In(e, k) <=> In(e, s.reads) \/ e = Reader(c)
        /\ Once(s.reads) /\ ~In(Reader(c), s.reads) => Once(k)
    <3>1. s.reads \in Seq(Events) /\ Reader(c) \in Events BY Fields, Names DEF AInv
    <3>2. Adds(s.reads, Reader(c), Append(s.reads, Reader(c))) BY <3>1, Added
    <3>3. QED BY <2>1, <3>2 DEF Adds
  <2>3. PICK t : t = ScheduleReader(s, c) OBVIOUS
  <2>4. t = [s EXCEPT !.reads = k, !.readfd = @ \cup {s.cl[c].rfd}]
    BY <1>3, <2>1, <2>3, Numbers DEF ScheduleReader
  <2>5. Types(t, r, Y, g) BY <1>3, <2>2, <2>4 DEF AInv, Types
  <2>6. /\ t.reads = k /\ t.readfd = s.readfd \cup {s.cl[c].rfd} /\ t.writes = s.writes
        /\ t.writefd = s.writefd /\ t.cl = s.cl /\ t.cur = s.cur /\ t.made = s.made
        /\ t.deleted = s.deleted /\ t.conns = s.conns /\ t.open = s.open /\ t.posted = s.posted
    BY <2>4 DEF AInv, Types
  <2>7. Sockets(t) BY <2>6 DEF AInv, Sockets
  <2>8. \A e \in Events : Listed(e, t, r) <=> Listed(e, s, r) \/ e = Reader(c)
    BY <2>2, <2>6 DEF Listed
  <2>9. Known(t, r, Y) BY <2>6, <2>8, Names DEF AInv, Known
  <2>10. Bits(t) BY <2>2, <2>6 DEF AInv, Bits
  <2>11. Missed(t, r, Y) BY <2>2, <2>6, Names DEF AInv, Missed
  <2>12. Queues(t, g) BY <2>6, SameQueues DEF AInv
  <2>13. ASSUME ~u PROVE Single(t, r, Y)
    <3>1. Single(s, r, X) /\ Reader(c) \in Events BY <2>13, Names DEF AInv
    <3>2. ~In(Reader(c), s.reads) /\ ~In(Reader(c), s.writes) /\ ~In(Reader(c), r)
      BY <3>1 DEF Single, Listed
    <3>3. Once(t.reads) /\ Once(t.writes) /\ Once(r) BY <2>2, <2>6, <3>1, <3>2 DEF Single
    <3>4. \A e \in Events : /\ ~(In(e, t.reads) /\ In(e, t.writes))
                            /\ ~(In(e, t.reads) /\ In(e, r))
                            /\ ~(In(e, t.writes) /\ In(e, r))
                            /\ e \in Y => ~Listed(e, t, r)
      BY <2>2, <2>6, <2>8, <3>1, <3>2 DEF Single
    <3>5. \A d \in Clients : Listed(Writer(d), t, r) /\ t.cl[d].wfd # None =>
                               t.cl[d].queue # <<>>
      BY <2>6, <2>8, <3>1, Names DEF Single
    <3>6. QED BY <3>3, <3>4, <3>5 DEF Single
  <2>14. QED BY <2>3, <2>5, <2>7, <2>9, <2>10, <2>11, <2>12, <2>13 DEF AInv
<1>4. QED BY <1>0, <1>1, <1>2, <1>3

LEMMA SchedulesWriter ==
  ASSUME MaxConns \in Nat, NEW s, NEW r, NEW X, NEW u, NEW g, AInv(s, r, X, u, g),
         NEW c \in Clients, Writer(c) \in X, s.cl[c].queue # <<>>
  PROVE  AInv(ScheduleWriter(s, c), r, X \ {Writer(c)}, u, g)
<1>0. s.cl[c].wfd \in Conns \cup {None}
  BY Fields DEF AInv
<1>1. CASE s.cl[c].wfd = None
  <2>1. \A d \in Clients : Writer(c) = Writer(d) => s.cl[d].wfd \notin Conns
    BY <1>1, Names, Numbers
  <2>2. \A d \in Clients : Writer(c) # Reader(d) BY Names
  <2>3. QED BY <1>1, <2>1, <2>2, Dropped DEF ScheduleWriter
<1>2. CASE s.cl[c].wfd \in Conns /\ s.cl[c].wfd \in s.writefd
  <2>1. In(Writer(c), s.writes)
    <3>1. PICK d \in Clients : s.cl[d].wfd = s.cl[c].wfd /\ In(Writer(d), s.writes)
      BY <1>2 DEF AInv, Bits
    <3>2. s.cl[c].rfd \in Conns /\ s.cl[c].rfd = s.cl[d].rfd
      BY <1>2, <3>1, Numbers DEF AInv, Sockets
    <3>3. QED BY <3>1, <3>2 DEF AInv, Sockets
  <2>2. ScheduleWriter(s, c) = s BY <1>2 DEF ScheduleWriter
  <2>3. Types(s, r, X \ {Writer(c)}, g) BY DEF AInv, Types
  <2>4. Known(s, r, X \ {Writer(c)}) BY DEF AInv, Known
  <2>5. Missed(s, r, X \ {Writer(c)}) BY <2>1, Names DEF AInv, Missed
  <2>6. ~u => Single(s, r, X \ {Writer(c)}) BY DEF AInv, Single
  <2>7. QED BY <2>2, <2>3, <2>4, <2>5, <2>6 DEF AInv
<1>3. CASE s.cl[c].wfd \in Conns /\ s.cl[c].wfd \notin s.writefd
  <2> DEFINE Y == X \ {Writer(c)}
  <2>1. PICK k : k = Append(s.writes, Writer(c)) OBVIOUS
  <2>2. /\ k \in Seq(Events)
        /\ \A e : In(e, k) <=> In(e, s.writes) \/ e = Writer(c)
        /\ Once(s.writes) /\ ~In(Writer(c), s.writes) => Once(k)
    <3>1. s.writes \in Seq(Events) /\ Writer(c) \in Events BY Fields, Names DEF AInv
    <3>2. Adds(s.writes, Writer(c), Append(s.writes, Writer(c))) BY <3>1, Added
    <3>3. QED BY <2>1, <3>2 DEF Adds
  <2>3. PICK t : t = ScheduleWriter(s, c) OBVIOUS
  <2>4. t = [s EXCEPT !.writes = k, !.writefd = @ \cup {s.cl[c].wfd}]
    BY <1>3, <2>1, <2>3, Numbers DEF ScheduleWriter
  <2>5. Types(t, r, Y, g) BY <1>3, <2>2, <2>4 DEF AInv, Types
  <2>6. /\ t.writes = k /\ t.writefd = s.writefd \cup {s.cl[c].wfd} /\ t.reads = s.reads
        /\ t.readfd = s.readfd /\ t.cl = s.cl /\ t.cur = s.cur /\ t.made = s.made
        /\ t.deleted = s.deleted /\ t.conns = s.conns /\ t.open = s.open /\ t.posted = s.posted
    BY <2>4 DEF AInv, Types
  <2>7. Sockets(t) BY <2>6 DEF AInv, Sockets
  <2>8. \A e \in Events : Listed(e, t, r) <=> Listed(e, s, r) \/ e = Writer(c)
    BY <2>2, <2>6 DEF Listed
  <2>9. Known(t, r, Y) BY <2>6, <2>8, Names DEF AInv, Known
  <2>10. Bits(t) BY <2>2, <2>6 DEF AInv, Bits
  <2>11. Missed(t, r, Y) BY <2>2, <2>6, Names DEF AInv, Missed
  <2>12. Queues(t, g) BY <2>6, SameQueues DEF AInv
  <2>13. ASSUME ~u PROVE Single(t, r, Y)
    <3>1. Single(s, r, X) /\ Writer(c) \in Events BY <2>13, Names DEF AInv
    <3>2. ~In(Writer(c), s.reads) /\ ~In(Writer(c), s.writes) /\ ~In(Writer(c), r)
      BY <3>1 DEF Single, Listed
    <3>3. Once(t.reads) /\ Once(t.writes) /\ Once(r) BY <2>2, <2>6, <3>1, <3>2 DEF Single
    <3>4. \A e \in Events : /\ ~(In(e, t.reads) /\ In(e, t.writes))
                            /\ ~(In(e, t.reads) /\ In(e, r))
                            /\ ~(In(e, t.writes) /\ In(e, r))
                            /\ e \in Y => ~Listed(e, t, r)
      BY <2>2, <2>6, <2>8, <3>1, <3>2 DEF Single
    <3>5. \A d \in Clients : Listed(Writer(d), t, r) /\ t.cl[d].wfd # None =>
                               t.cl[d].queue # <<>>
      BY <2>6, <2>8, <3>1, Names DEF Single
    <3>6. QED BY <3>3, <3>4, <3>5 DEF Single
  <2>14. QED BY <2>3, <2>5, <2>7, <2>9, <2>10, <2>11, <2>12, <2>13 DEF AInv
<1>4. QED BY <1>0, <1>1, <1>2, <1>3

(* What of the events in S alone is left of a list.                        *)
Leaves(l, S, k) == /\ k \in Seq(Events)
                   /\ \A e : In(e, k) <=> In(e, l) /\ e \in S
                   /\ Once(l) => Once(k)

LEMMA WithoutLeaves ==
  ASSUME NEW l \in Seq(Events), NEW e
  PROVE  Leaves(l, Events \ {e}, Without(l, e))
<1>1. PICK k : k = Only(l, Events \ {e}) OBVIOUS
<1>2. Leaves(l, Events \ {e}, k) BY <1>1, OnlyLeaves DEF Leaves
<1>3. QED BY <1>1, <1>2 DEF Without

LEMMA InEvents ==
  ASSUME NEW l \in Seq(Events), NEW e, In(e, l)
  PROVE  e \in Events
BY ElementOfSeq DEF In

LEMMA ClosesBoth ==
  ASSUME MaxConns \in Nat, NEW s, NEW r, NEW X, NEW u, NEW g, AInv(s, r, X, u, g),
         NEW c \in Clients
  PROVE  /\ AInv(CloseBoth(s, c), r, X, u, g)
         /\ CloseBoth(s, c).cl[c].rfd = None /\ CloseBoth(s, c).cl[c].wfd = None
<1>0. /\ s.reads \in Seq(Events) /\ s.writes \in Seq(Events) /\ s.cl \in [Clients -> Client]
      /\ s.cl[c] \in Client
  BY Fields DEF AInv
<1>1. PICK t : t = CloseBoth(s, c) OBVIOUS
<1>2. PICK l : l = Without(s.reads, Reader(c)) OBVIOUS
<1>3. PICK m : m = Without(s.writes, Writer(c)) OBVIOUS
<1>4. Leaves(s.reads, Events \ {Reader(c)}, l) /\ Leaves(s.writes, Events \ {Writer(c)}, m)
  BY <1>0, <1>2, <1>3, WithoutLeaves
<1>5. PICK f : f = [s.cl EXCEPT ![c] = [rfd |-> None, wfd |-> None, queue |-> s.cl[c].queue]]
  OBVIOUS
<1>6. t = [s EXCEPT !.reads = l, !.readfd = @ \ {s.cl[c].rfd}, !.writes = m,
                    !.writefd = @ \ {s.cl[c].wfd}, !.open = @ \ {s.cl[c].wfd, s.cl[c].rfd},
                    !.cl = f]
  <2>1. PICK w : w = CloseWriter(s, c) OBVIOUS
  <2>2. PICK h : h = [s.cl EXCEPT ![c].wfd = None] OBVIOUS
  <2>3. w = [s EXCEPT !.writes = m, !.writefd = @ \ {s.cl[c].wfd}, !.open = @ \ {s.cl[c].wfd},
                      !.cl = h]
    BY <1>3, <2>1, <2>2 DEF CloseWriter, AInv, Types
  <2>4. h[c].rfd = s.cl[c].rfd /\ f = [h EXCEPT ![c].rfd = None]
    BY <1>0, <1>5, <2>2 DEF Client
  <2>5. w.reads = s.reads /\ w.readfd = s.readfd /\ w.cl = h /\ w.open = s.open \ {s.cl[c].wfd}
    BY <2>3 DEF AInv, Types
  <2>6. t = [w EXCEPT !.reads = l, !.readfd = s.readfd \ {s.cl[c].rfd},
                      !.open = (s.open \ {s.cl[c].wfd}) \ {s.cl[c].rfd}, !.cl = f]
    BY <1>1, <1>2, <2>1, <2>4, <2>5 DEF CloseBoth, CloseReader
  <2>7. QED BY <2>3, <2>6 DEF AInv, Types
<1>7. f \in [Clients -> Client]
  BY <1>0, <1>5 DEF Client
<1>8. Types(t, r, X, g) BY <1>4, <1>6, <1>7 DEF AInv, Types, Leaves
<1>9. /\ t.reads = l /\ t.readfd = s.readfd \ {s.cl[c].rfd} /\ t.writes = m
      /\ t.writefd = s.writefd \ {s.cl[c].wfd} /\ t.open = s.open \ {s.cl[c].wfd, s.cl[c].rfd}
      /\ t.cl = f /\ t.cur = s.cur /\ t.made = s.made /\ t.deleted = s.deleted
      /\ t.conns = s.conns /\ t.posted = s.posted
  BY <1>6 DEF AInv, Types
<1>10. /\ f[c].rfd = None /\ f[c].wfd = None /\ f[c].queue = s.cl[c].queue
       /\ \A d \in Clients \ {c} : f[d] = s.cl[d]
  BY <1>0, <1>5
<1>11. /\ \A e : Listed(e, t, r) => Listed(e, s, r)
       /\ \A d \in Clients \ {c} : /\ In(Reader(d), s.reads) => In(Reader(d), t.reads)
                                   /\ In(Writer(d), s.writes) => In(Writer(d), t.writes)
  BY <1>4, <1>9, Names DEF Listed, Leaves
<1>12. Sockets(t)
  <2>0. /\ s.made \in Nat /\ \A d \in Clients : d \in Nat BY Fields DEF AInv, Clients
  <2>1. \A d \in Clients : d > t.made => t.cl[d] = NewClient
    <3>1. ASSUME c > s.made PROVE f = s.cl
      <4>1. s.cl[c] = NewClient BY <3>1 DEF AInv, Sockets
      <4>2. QED BY <1>0, <1>5, <4>1 DEF NewClient
    <3>2. QED BY <1>9, <1>10, <3>1 DEF AInv, Sockets
  <2>2. \A d \in Clients : t.cl[d].wfd # None => t.cl[d].wfd = t.cl[d].rfd
    BY <1>9, <1>10 DEF AInv, Sockets
  <2>3. \A d \in Clients : t.cl[d].rfd \in Conns => t.cl[d].wfd = t.cl[d].rfd
                                                 /\ t.cl[d].rfd <= t.conns
    BY <1>9, <1>10, Numbers DEF AInv, Sockets
  <2>4. \A d, e \in Clients : t.cl[d].rfd \in Conns /\ t.cl[d].rfd = t.cl[e].rfd => d = e
    BY <1>9, <1>10, Numbers DEF AInv, Sockets
  <2>5. \A n \in t.open : n <= t.conns BY <1>9 DEF AInv, Sockets
  <2>6. \A d \in t.deleted : d <= t.made /\ d # t.cur /\ t.cl[d].rfd = None
    <3>1. \A d \in t.deleted : d \in Clients BY <1>9, Fields DEF AInv
    <3>2. QED BY <1>9, <1>10, <3>1 DEF AInv, Sockets
  <2>7. QED BY <1>9, <2>1, <2>2, <2>3, <2>4, <2>5, <2>6 DEF AInv, Sockets
<1>13. Known(t, r, X) BY <1>9, <1>10, <1>11, Numbers DEF AInv, Known
<1>14. Bits(t)
  <2>1. ASSUME NEW n \in t.readfd
        PROVE  \E d \in Clients : t.cl[d].rfd = n /\ In(Reader(d), t.reads)
    <3>1. n \in s.readfd /\ n # s.cl[c].rfd BY <1>9, <2>1
    <3>2. PICK d \in Clients : s.cl[d].rfd = n /\ In(Reader(d), s.reads)
      BY <3>1 DEF AInv, Bits
    <3>3. QED BY <1>9, <1>10, <1>11, <3>1, <3>2
  <2>2. ASSUME NEW n \in t.writefd
        PROVE  \E d \in Clients : t.cl[d].wfd = n /\ In(Writer(d), t.writes)
    <3>1. n \in s.writefd /\ n # s.cl[c].wfd BY <1>9, <2>2
    <3>2. PICK d \in Clients : s.cl[d].wfd = n /\ In(Writer(d), s.writes)
      BY <3>1 DEF AInv, Bits
    <3>3. QED BY <1>9, <1>10, <1>11, <3>1, <3>2
  <2>3. QED BY <2>1, <2>2 DEF Bits
<1>15. Missed(t, r, X) BY <1>9, <1>10, <1>11, Numbers DEF AInv, Missed
<1>16. Queues(t, g)
  <2>1. /\ \A n \in Conns : \A i \in 1 .. Len(g[n]) : g[n][i] = [conn |-> n, num |-> i]
        /\ \A n \in Conns : n > t.conns => t.posted[n] = 0 /\ g[n] = <<>>
    BY <1>9 DEF AInv, Queues
  <2>2. ASSUME NEW d \in Clients, t.cl[d].wfd \in t.open
        PROVE  t.cl[d] = s.cl[d] /\ s.cl[d].wfd \in s.open
    <3>1. None \notin t.open BY <1>8, Fields, Numbers
    <3>2. d # c BY <1>9, <1>10, <2>2, <3>1
    <3>3. t.cl[d] = s.cl[d] BY <1>9, <1>10, <3>2
    <3>4. t.open \subseteq s.open BY <1>9
    <3>5. QED BY <2>2, <3>3, <3>4
  <2>3. QED BY <1>9, <2>1, <2>2 DEF AInv, Queues
<1>17. ASSUME ~u PROVE Single(t, r, X)
  <2>1. Single(s, r, X) BY <1>17 DEF AInv
  <2>2. Once(t.reads) /\ Once(t.writes) /\ Once(r) BY <1>4, <1>9, <2>1 DEF Leaves, Single
  <2>3. /\ \A e : In(e, t.reads) => In(e, s.reads)
        /\ \A e : In(e, t.writes) => In(e, s.writes)
    BY <1>4, <1>9 DEF Leaves
  <2>4. \A e \in Events : /\ ~(In(e, t.reads) /\ In(e, t.writes))
                          /\ ~(In(e, t.reads) /\ In(e, r))
                          /\ ~(In(e, t.writes) /\ In(e, r))
                          /\ e \in X => ~Listed(e, t, r)
    BY <1>11, <2>1, <2>3 DEF Single
  <2>5. \A d \in Clients : Listed(Writer(d), t, r) /\ t.cl[d].wfd # None =>
                             t.cl[d].queue # <<>>
    BY <1>9, <1>10, <1>11, <2>1 DEF Single
  <2>6. QED BY <2>2, <2>4, <2>5 DEF Single
<1>18. QED
  BY <1>1, <1>8, <1>9, <1>10, <1>12, <1>13, <1>14, <1>15, <1>16, <1>17 DEF AInv

-----------------------------------------------------------------------------
(* What a handler of the broker's reader does.                             *)

(* The client in the list is one that was just made.                       *)
Fresh(s, r, X) ==
  /\ s.cur \in Clients /\ s.cl[s.cur] = NewClient
  /\ ~Listed(Reader(s.cur), s, r) /\ Reader(s.cur) \notin X
  /\ ~Listed(Writer(s.cur), s, r) /\ Writer(s.cur) \notin X

LEMMA GetsClient ==
  ASSUME MaxConns \in Nat, MaxClients \in Nat,
         NEW s, NEW r, NEW X, NEW u, NEW g, AInv(s, r, X, u, g),
         Alive(s, s.cur) \/ s.made < MaxClients,
         NEW t, t = GetClient(s)
  PROVE  /\ AInv(t, r, X, u, g) /\ t.conns = s.conns
         /\ t.made \in Clients /\ t.made >= s.made
         /\ \/ Alive(t, t.cur) /\ t.cur \in Clients /\ t = s
            \/ ~Alive(t, t.cur) /\ Fresh(t, r, X) /\ ~Alive(s, s.cur)
<1>0. /\ s.made \in 0 .. MaxClients /\ s.cur \in Clients \cup {0} /\ s.deleted \subseteq Clients
      /\ s.cl \in [Clients -> Client]
  BY Fields DEF AInv
<1>1. CASE Alive(s, s.cur)
  <2>1. t = s BY <1>1 DEF GetClient
  <2>2. s.cur \in Clients /\ s.cur = s.made BY <1>0, <1>1 DEF Alive, AInv, Sockets
  <2>3. QED BY <1>0, <1>1, <2>1, <2>2
<1>2. CASE ~Alive(s, s.cur)
  <2>0. s.made < MaxClients BY <1>2
  <2>1. t = [s EXCEPT !.deleted = @ \cup ({s.cur} \ {0}), !.made = @ + 1, !.cur = s.made + 1]
    BY <1>2 DEF GetClient
  <2>2. /\ t.deleted = s.deleted \cup ({s.cur} \ {0}) /\ t.made = s.made + 1
        /\ t.cur = s.made + 1 /\ t.reads = s.reads /\ t.writes = s.writes
        /\ t.readfd = s.readfd /\ t.writefd = s.writefd /\ t.cl = s.cl
        /\ t.conns = s.conns /\ t.open = s.open /\ t.posted = s.posted
    BY <2>1 DEF AInv, Types
  <2>3. s.made + 1 \in Clients /\ s.made \in Nat /\ s.made + 1 \in 0 .. MaxClients
        /\ \A c \in Clients : c \in Nat
    BY <1>0, <2>0 DEF Clients
  <2>4. Types(t, r, X, g)
    <3>1. s.deleted \cup ({s.cur} \ {0}) \subseteq Clients BY <1>0
    <3>2. QED BY <2>1, <2>3, <3>1 DEF AInv, Types
  <2>5. \A e : Listed(e, t, r) <=> Listed(e, s, r) BY <2>2 DEF Listed
  <2>6. Sockets(t)
    <3>1. \A c \in Clients : c > s.made + 1 => c > s.made BY <2>3
    <3>2. \A c \in Clients : c > t.made => t.cl[c] = NewClient
      BY <2>2, <3>1 DEF AInv, Sockets
    <3>3. \A c \in t.deleted : c <= t.made /\ c # t.cur /\ t.cl[c].rfd = None
      <4>1. \A c \in s.deleted : c <= s.made /\ s.cl[c].rfd = None BY DEF AInv, Sockets
      <4>2. s.cur # 0 => s.cur <= s.made /\ s.cl[s.cur].rfd = None
        BY <1>2, <2>3 DEF Alive, AInv, Sockets
      <4>3. \A c \in t.deleted : c \in Clients /\ c <= s.made /\ s.cl[c].rfd = None
        BY <1>0, <2>2, <4>1, <4>2
      <4>4. QED BY <2>2, <2>3, <4>3
    <3>4. QED BY <2>2, <3>2, <3>3 DEF AInv, Sockets
  <2>7. Known(t, r, X)
    <3>1. \A c \in Clients : c <= s.made => c <= s.made + 1 BY <2>3
    <3>2. QED BY <2>2, <2>5, <3>1 DEF AInv, Known
  <2>8. Bits(t) BY <2>2 DEF AInv, Bits
  <2>9. Missed(t, r, X) BY <2>2 DEF AInv, Missed
  <2>10. Queues(t, g) BY <2>2, SameQueues DEF AInv
  <2>11. ~u => Single(t, r, X) BY <2>2, <2>5 DEF AInv, Single
  <2>12. s.cl[s.made + 1] = NewClient
    <3>1. s.made + 1 > s.made BY <2>3
    <3>2. QED BY <2>3, <3>1 DEF AInv, Sockets
  <2>13. Fresh(t, r, X)
    <3>1. ~(s.made + 1 <= s.made) BY <2>3
    <3>2. QED BY <2>2, <2>3, <2>5, <2>12, <3>1 DEF AInv, Known, Fresh
  <2>14. ~Alive(t, t.cur) BY <2>2, <2>12 DEF Alive, NewClient
  <2>15. t.made >= s.made BY <2>2, <2>3
  <2>16. QED
    BY <1>2, <2>2, <2>3, <2>4, <2>6, <2>7, <2>8, <2>9, <2>10, <2>11, <2>13, <2>14, <2>15 DEF AInv
<1>3. QED BY <1>1, <1>2

LEMMA Connects ==
  ASSUME MaxConns \in Nat, NEW s, NEW r, NEW X, NEW u, NEW g, AInv(s, r, X, u, g),
         Fresh(s, r, X), s.conns < MaxConns,
         NEW t, t = Connected(s)
  PROVE  /\ AInv(t, r, X, u, g) /\ Alive(t, t.cur) /\ t.cur = s.cur /\ t.made = s.made
         /\ t.deleted = s.deleted
<1> DEFINE n == s.conns + 1
           c == s.cur
<1>0. /\ c \in Clients /\ s.cl \in [Clients -> Client] /\ s.conns \in Nat /\ n \in Conns
      /\ n \in 0 .. MaxConns /\ n \in Nat /\ s.cur = s.made /\ s.cl[c] = NewClient /\ c # 0
      /\ s.conns < n /\ s.open \subseteq Conns
  <2>1. c \in Clients /\ s.cl[c] = NewClient BY DEF Fresh
  <2>2. c # 0 BY <2>1 DEF Clients
  <2>3. s.conns \in 0 .. MaxConns /\ s.cl \in [Clients -> Client] /\ s.open \subseteq Conns
    BY Fields DEF AInv
  <2>4. s.conns \in Nat /\ n \in Conns /\ n \in 0 .. MaxConns /\ n \in Nat /\ s.conns < n
    BY <2>3 DEF Conns
  <2>5. QED BY <2>1, <2>2, <2>3, <2>4 DEF AInv, Sockets
<1>1. PICK f : f = [s.cl EXCEPT ![c] = [rfd |-> n, wfd |-> n, queue |-> <<>>]] OBVIOUS
<1>2. PICK w : w = [s EXCEPT !.conns = n, !.open = @ \cup {n}, !.cl = f] OBVIOUS
<1>3. t = ScheduleReader(w, c)
  <2>1. [s EXCEPT !.conns = n, !.open = @ \cup {n}, !.cl[s.cur].rfd = n, !.cl[s.cur].wfd = n] = w
    <3>1. PICK h : h = [s.cl EXCEPT ![c].rfd = n] OBVIOUS
    <3>2. /\ h[c] = [rfd |-> n, wfd |-> None, queue |-> <<>>] /\ DOMAIN h = Clients
          /\ \A d \in Clients \ {c} : h[d] = s.cl[d]
      BY <1>0, <3>1 DEF NewClient
    <3>3. PICK k : k = [h EXCEPT ![c].wfd = n] OBVIOUS
    <3>4. /\ k[c] = [rfd |-> n, wfd |-> n, queue |-> <<>>] /\ DOMAIN k = Clients
          /\ \A d \in Clients \ {c} : k[d] = s.cl[d]
      <4>1. [h[c] EXCEPT !.wfd = n] = [rfd |-> n, wfd |-> n, queue |-> <<>>] BY <3>2
      <4>2. k = [h EXCEPT ![c] = [rfd |-> n, wfd |-> n, queue |-> <<>>]] BY <3>3, <4>1
      <4>3. QED BY <1>0, <3>2, <4>2
    <3>5. k = f BY <1>0, <1>1, <3>1, <3>3, <3>4
    <3>6. QED BY <1>2, <3>1, <3>3, <3>5 DEF AInv, Types
  <2>2. QED BY <2>1 DEF Connected
<1> HIDE DEF n, c
<1>4. f \in [Clients -> Client]
  <2>1. <<>> \in Seq(Message) OBVIOUS
  <2>2. [rfd |-> n, wfd |-> n, queue |-> <<>>] \in Client BY <1>0, <2>1 DEF Client
  <2>3. QED BY <1>0, <1>1, <2>2
<1>5. /\ w.conns = n /\ w.open = s.open \cup {n} /\ w.cl = f /\ w.reads = s.reads
      /\ w.writes = s.writes /\ w.readfd = s.readfd /\ w.writefd = s.writefd /\ w.cur = s.cur
      /\ w.made = s.made /\ w.deleted = s.deleted /\ w.posted = s.posted
  BY <1>2 DEF AInv, Types
<1>6. /\ f[c].rfd = n /\ f[c].wfd = n /\ f[c].queue = <<>>
      /\ \A d \in Clients \ {c} : f[d] = s.cl[d]
  BY <1>0, <1>1
<1> DEFINE Y == X \cup {Reader(c)}
<1>7. Types(w, r, Y, g)
  <2>1. Y \subseteq Events BY <1>0, Names DEF AInv, Types
  <2>2. s.open \cup {n} \subseteq Conns BY <1>0
  <2>3. QED BY <1>0, <1>2, <1>4, <2>1, <2>2 DEF AInv, Types
<1>8. \A d \in Clients : s.cl[d].rfd # n /\ s.cl[d].wfd # n
  <2>1. \A d \in Clients : s.cl[d].rfd # n BY <1>0 DEF AInv, Sockets
  <2>2. \A d \in Clients : s.cl[d].wfd = n => s.cl[d].rfd = n
    BY <1>0, Numbers DEF AInv, Sockets
  <2>3. QED BY <2>1, <2>2
<1>9. \A e : Listed(e, w, r) <=> Listed(e, s, r) BY <1>5 DEF Listed
<1>10. Sockets(w)
  <2>0. /\ s.made \in Nat /\ \A d \in Clients : d \in Nat BY Fields DEF AInv, Clients
  <2>1. \A d \in Clients : d > w.made => w.cl[d] = NewClient
    <3>1. ~(c > s.made) BY <1>0, <2>0 DEF c
    <3>2. QED BY <1>5, <1>6, <3>1 DEF AInv, Sockets
  <2>2. \A d \in Clients : w.cl[d].wfd # None => w.cl[d].wfd = w.cl[d].rfd
    BY <1>5, <1>6 DEF AInv, Sockets
  <2>3. \A d \in Clients : w.cl[d].rfd \in Conns => w.cl[d].wfd = w.cl[d].rfd
                                                 /\ w.cl[d].rfd <= w.conns
    <3>1. ASSUME NEW m \in Conns, m <= s.conns PROVE m <= n
      <4>1. m \in Nat BY Numbers
      <4>2. QED BY <1>0, <3>1, <4>1
    <3>2. \A d \in Clients : s.cl[d].rfd \in Conns => s.cl[d].wfd = s.cl[d].rfd
                                                   /\ s.cl[d].rfd <= n
      BY <3>1 DEF AInv, Sockets
    <3>3. n <= n BY <1>0
    <3>4. QED BY <1>5, <1>6, <3>2, <3>3
  <2>4. \A d, e \in Clients : w.cl[d].rfd \in Conns /\ w.cl[d].rfd = w.cl[e].rfd => d = e
    BY <1>5, <1>6, <1>8 DEF AInv, Sockets
  <2>5. \A m \in w.open : m <= w.conns
    <3>1. \A m \in s.open : m <= s.conns /\ m \in Nat BY <1>0, Numbers DEF AInv, Sockets
    <3>2. QED BY <1>0, <1>5, <3>1
  <2>6. \A d \in w.deleted : d <= w.made /\ d # w.cur /\ w.cl[d].rfd = None
    <3>1. \A d \in s.deleted : d \in Clients /\ d # c
      BY Fields DEF AInv, Sockets, c
    <3>2. QED BY <1>5, <1>6, <3>1 DEF AInv, Sockets
  <2>7. QED BY <1>5, <2>1, <2>2, <2>3, <2>4, <2>5, <2>6 DEF AInv, Sockets
<1>11. Known(w, r, Y)
  <2>1. c <= s.made BY <1>0, Fields DEF AInv, c
  <2>2. n # Closed BY <1>0, Numbers
  <2>3. QED BY <1>0, <1>5, <1>6, <1>9, <2>1, <2>2, Names DEF AInv, Known
<1>12. Bits(w)
  <2>1. \A m \in s.readfd \cup s.writefd : m # None BY Fields, Numbers DEF AInv
  <2>2. s.cl[c].rfd = None /\ s.cl[c].wfd = None BY <1>0 DEF NewClient
  <2>3. QED BY <1>5, <1>6, <2>1, <2>2 DEF AInv, Bits
<1>13. Missed(w, r, Y) BY <1>5, <1>6 DEF AInv, Missed
<1>14. Queues(w, g)
  <2>1. \A m \in Conns : \A i \in 1 .. Len(g[m]) : g[m][i] = [conn |-> m, num |-> i]
    BY DEF AInv, Queues
  <2>2. \A m \in Conns : m > w.conns => w.posted[m] = 0 /\ g[m] = <<>>
    <3>1. ASSUME NEW m \in Conns, m > n PROVE m > s.conns
      <4>1. m \in Nat BY Numbers
      <4>2. QED BY <1>0, <3>1, <4>1
    <3>2. QED BY <1>5, <3>1 DEF AInv, Queues
  <2>3. ASSUME NEW d \in Clients, w.cl[d].wfd \in w.open
        PROVE  GoesOn(w.cl[d].queue, w.cl[d].wfd, w.posted[w.cl[d].wfd], g[w.cl[d].wfd])
    <3>1. CASE d = c
      <4>1. n > s.conns BY <1>0
      <4>2. s.posted[n] = 0 /\ g[n] = <<>> BY <1>0, <4>1 DEF AInv, Queues
      <4>3. w.cl[d].wfd = n /\ w.cl[d].queue = <<>> /\ w.posted = s.posted BY <1>5, <1>6, <3>1
      <4>4. QED BY <4>2, <4>3 DEF GoesOn
    <3>2. CASE d # c
      <4>1. w.cl[d] = s.cl[d] /\ s.cl[d].wfd \in s.open BY <1>5, <1>6, <1>8, <2>3, <3>2
      <4>2. QED BY <1>5, <4>1 DEF AInv, Queues
    <3>3. QED BY <3>1, <3>2
  <2>4. QED BY <2>1, <2>2, <2>3 DEF Queues
<1>15. ASSUME ~u PROVE Single(w, r, Y)
  <2>1. Single(s, r, X) BY <1>15 DEF AInv
  <2>2. ~Listed(Reader(c), s, r) /\ ~Listed(Writer(c), s, r) BY DEF Fresh, c
  <2>3. \A e \in Events : e \in Y => ~Listed(e, w, r) BY <1>9, <2>1, <2>2 DEF Single
  <2>4. \A d \in Clients : Listed(Writer(d), w, r) /\ w.cl[d].wfd # None =>
                             w.cl[d].queue # <<>>
    BY <1>5, <1>6, <1>9, <2>1, <2>2 DEF Single
  <2>5. QED BY <1>5, <2>1, <2>3, <2>4 DEF Single
<1>16. AInv(w, r, Y, u, g)
  BY <1>7, <1>10, <1>11, <1>12, <1>13, <1>14, <1>15 DEF AInv
<1>17. AInv(t, r, Y \ {Reader(c)}, u, g) BY <1>0, <1>3, <1>16, SchedulesReader
<1>18. Y \ {Reader(c)} = X BY DEF Fresh, c
<1>19. t.cl = f /\ t.cur = c /\ t.made = s.made /\ t.deleted = s.deleted
  BY <1>2, <1>3, <1>5 DEF ScheduleReader, AInv, Types, c
<1>20. Alive(t, t.cur) BY <1>0, <1>6, <1>19, Numbers DEF Alive
<1>21. QED BY <1>17, <1>18, <1>19, <1>20 DEF c

(* The client that cannot connect stays in the list, or is taken off it.   *)
LEMMA NotConnects ==
  ASSUME MaxConns \in Nat, NEW s, NEW r, NEW X, NEW u, NEW g, AInv(s, r, X, u, g),
         Fresh(s, r, X), NEW t, t = NotConnected(s) \/ t = [NotConnected(s) EXCEPT !.cur = 0]
  PROVE  AInv(t, r, X, u, g) /\ t.deleted = s.deleted /\ t.made = s.made
<1> DEFINE c == s.cur
<1>0. /\ c \in Clients /\ s.cl \in [Clients -> Client] /\ s.cl[c] = NewClient
      /\ s.cur = s.made /\ c # 0
  <2>1. c \in Clients /\ s.cl[c] = NewClient BY DEF Fresh
  <2>2. c # 0 BY <2>1 DEF Clients
  <2>3. QED BY <2>1, <2>2, Fields DEF AInv, Sockets
<1>1. PICK f : f = [s.cl EXCEPT ![c] = [rfd |-> Closed, wfd |-> None, queue |-> <<>>]] OBVIOUS
<1>2. PICK h : h = [s.cl EXCEPT ![c].rfd = Closed] OBVIOUS
<1>3. h = f BY <1>0, <1>1, <1>2 DEF NewClient
<1>4. f \in [Clients -> Client]
  <2>1. <<>> \in Seq(Message) OBVIOUS
  <2>2. [rfd |-> Closed, wfd |-> None, queue |-> <<>>] \in Client BY <2>1 DEF Client
  <2>3. QED BY <1>0, <1>1, <2>2
<1>5. t = [s EXCEPT !.cl = f] \/ t = [s EXCEPT !.cl = f, !.cur = 0]
  BY <1>2, <1>3 DEF NotConnected, AInv, Types
<1>6. /\ t.cl = f /\ t.cur \in {0, s.cur} /\ t.conns = s.conns /\ t.open = s.open
      /\ t.reads = s.reads /\ t.writes = s.writes /\ t.readfd = s.readfd
      /\ t.writefd = s.writefd /\ t.made = s.made /\ t.deleted = s.deleted
      /\ t.posted = s.posted
  BY <1>5 DEF AInv, Types
<1>7. Types(t, r, X, g) BY <1>4, <1>5 DEF AInv, Types
<1> HIDE DEF c
<1>8. /\ f[c].rfd = Closed /\ f[c].wfd = None /\ f[c].queue = <<>>
      /\ \A d \in Clients \ {c} : f[d] = s.cl[d]
  BY <1>0, <1>1
<1>9. \A e : Listed(e, t, r) <=> Listed(e, s, r) BY <1>6 DEF Listed
<1>10. Sockets(t)
  <2>0. /\ s.made \in Nat /\ \A d \in Clients : d \in Nat BY Fields DEF AInv, Clients
  <2>1. \A d \in Clients : d > t.made => t.cl[d] = NewClient
    <3>1. ~(c > s.made) BY <1>0, <2>0 DEF c
    <3>2. QED BY <1>6, <1>8, <3>1 DEF AInv, Sockets
  <2>2. \A d \in Clients : t.cl[d].wfd # None => t.cl[d].wfd = t.cl[d].rfd
    BY <1>6, <1>8 DEF AInv, Sockets
  <2>3. \A d \in Clients : t.cl[d].rfd \in Conns => t.cl[d].wfd = t.cl[d].rfd
                                                 /\ t.cl[d].rfd <= t.conns
    BY <1>6, <1>8, Numbers DEF AInv, Sockets
  <2>4. \A d, e \in Clients : t.cl[d].rfd \in Conns /\ t.cl[d].rfd = t.cl[e].rfd => d = e
    BY <1>6, <1>8, Numbers DEF AInv, Sockets
  <2>5. \A d \in t.deleted : d <= t.made /\ d # t.cur /\ t.cl[d].rfd = None
    <3>1. \A d \in s.deleted : d \in Clients /\ d # c /\ d # 0
      BY Fields DEF AInv, Sockets, c, Clients
    <3>2. QED BY <1>6, <1>8, <3>1 DEF AInv, Sockets
  <2>6. QED BY <1>0, <1>6, <2>1, <2>2, <2>3, <2>4, <2>5 DEF AInv, Sockets
<1>11. Known(t, r, X)
  <2>1. ~Listed(Reader(c), s, r) /\ Reader(c) \notin X BY DEF Fresh, c
  <2>2. QED BY <1>6, <1>8, <1>9, <2>1 DEF AInv, Known
<1>12. Bits(t)
  <2>1. \A m \in s.readfd \cup s.writefd : m # None BY Fields, Numbers DEF AInv
  <2>2. s.cl[c].rfd = None /\ s.cl[c].wfd = None BY <1>0 DEF NewClient
  <2>3. QED BY <1>6, <1>8, <2>1, <2>2 DEF AInv, Bits
<1>13. Missed(t, r, X) BY <1>6, <1>8, Numbers DEF AInv, Missed
<1>14. Queues(t, g)
  <2>1. None \notin s.open BY Fields, Numbers DEF AInv
  <2>2. QED BY <1>6, <1>8, <2>1 DEF AInv, Queues
<1>15. ~u => Single(t, r, X)
  BY <1>6, <1>8, <1>9 DEF AInv, Single
<1>16. QED
  BY <1>6, <1>7, <1>10, <1>11, <1>12, <1>13, <1>14, <1>15 DEF AInv

(* A new message goes to the end of the queue.                             *)
LEMMA GrownGoesOn ==
  ASSUME NEW q \in Seq(Message), NEW n, NEW p \in Nat, NEW l \in Seq(Message),
         GoesOn(q, n, p, l), NEW m \in Message, m = [conn |-> n, num |-> p + 1]
  PROVE  GoesOn(Append(q, m), n, p + 1, l)
<1>1. PICK k : k = Append(q, m) OBVIOUS
<1>2. /\ Len(q) \in Nat /\ Len(l) \in Nat /\ Len(k) = Len(q) + 1 /\ k[Len(q) + 1] = m
      /\ \A i \in 1 .. Len(q) : k[i] = q[i]
  BY <1>1, AppendProperties, LenProperties
<1>3. p = Len(l) + Len(q) BY DEF GoesOn
<1>4. ASSUME NEW i \in 1 .. Len(k) PROVE k[i] = [conn |-> n, num |-> Len(l) + i]
  <2>1. CASE i \in 1 .. Len(q) BY <1>2, <2>1 DEF GoesOn
  <2>2. CASE i = Len(q) + 1
    <3>1. Len(l) + i = p + 1 BY <1>2, <1>3, <2>2
    <3>2. QED BY <1>2, <2>2, <3>1
  <2>3. QED BY <1>2, <2>1, <2>2
<1>5. p + 1 = Len(l) + Len(k) BY <1>2, <1>3
<1>6. QED BY <1>1, <1>4, <1>5 DEF GoesOn

(* The first message goes over to the messages that arrived.               *)
LEMMA SentGoesOn ==
  ASSUME NEW q \in Seq(Message), q # <<>>, NEW n, NEW p \in Nat, NEW l \in Seq(Message),
         GoesOn(q, n, p, l)
  PROVE  /\ GoesOn(Tail(q), n, p, Append(l, Head(q)))
         /\ Head(q) = [conn |-> n, num |-> Len(l) + 1]
<1>1. PICK k : k = Tail(q) OBVIOUS
<1>2. PICK h : h = Head(q) OBVIOUS
<1>3. PICK j : j = Append(l, h) OBVIOUS
<1>4. /\ h \in Message /\ Len(k) = Len(q) - 1 /\ h = q[1] /\ Len(q) \in Nat \ {0}
      /\ \A i \in 1 .. Len(k) : k[i] = q[i + 1]
  BY <1>1, <1>2, HeadTailProperties, EmptySeq, LenProperties
<1>5. Len(l) \in Nat /\ Len(j) = Len(l) + 1
  BY <1>3, <1>4, AppendProperties, LenProperties
<1>6. p = Len(l) + Len(q) /\ \A i \in 1 .. Len(q) : q[i] = [conn |-> n, num |-> Len(l) + i]
  BY DEF GoesOn
<1>7. h = [conn |-> n, num |-> Len(l) + 1]
  <2>1. 1 \in 1 .. Len(q) BY <1>4
  <2>2. QED BY <1>4, <1>6, <2>1
<1>8. ASSUME NEW i \in 1 .. Len(k) PROVE k[i] = [conn |-> n, num |-> Len(j) + i]
  <2>1. i + 1 \in 1 .. Len(q) /\ Len(l) + (i + 1) = Len(j) + i BY <1>4, <1>5
  <2>2. k[i] = [conn |-> n, num |-> Len(l) + (i + 1)] BY <1>4, <1>6, <2>1
  <2>3. QED BY <2>1, <2>2
<1>9. p = Len(j) + Len(k) BY <1>4, <1>5, <1>6
<1>10. QED BY <1>1, <1>2, <1>3, <1>7, <1>8, <1>9 DEF GoesOn

LEMMA Sends ==
  ASSUME MaxConns \in Nat, NEW s, NEW r, NEW X, NEW u, NEW g, AInv(s, r, X, u, g),
         NEW c \in Clients, c = s.cur, Alive(s, c), Writer(c) \notin X,
         NEW t, t = Send(s, c)
  PROVE  AInv(t, r, X, u, g) /\ t.deleted = s.deleted /\ t.made = s.made
<1> DEFINE n == s.cl[c].rfd
           m == [conn |-> n, num |-> s.posted[n] + 1]
           q == Append(s.cl[c].queue, m)
<1>0. /\ n \in Conns \cup {Closed} /\ n # None /\ s.cl \in [Clients -> Client]
      /\ s.posted \in [Conns \cup {Closed} -> Nat] /\ s.posted[n] \in Nat
      /\ s.cl[c].queue \in Seq(Message) /\ m \in Message /\ s.cl[c] \in Client
      /\ c = s.made /\ c # 0 /\ Len(s.cl[c].queue) \in Nat /\ g \in [Conns -> Seq(Message)]
  <2>1. n \in Conns \cup {Closed} BY Fields DEF AInv, Alive
  <2>2. s.posted \in [Conns \cup {Closed} -> Nat] BY Fields DEF AInv
  <2>3. s.posted[n] \in Nat /\ s.posted[n] + 1 \in Nat BY <2>1, <2>2
  <2>4. m \in Message BY <2>1, <2>3 DEF Message
  <2>5. c # 0 BY DEF Clients
  <2>6. QED BY <2>1, <2>2, <2>3, <2>4, <2>5, Fields, Numbers DEF AInv, Sockets
<1>1. PICK f : f = [s.cl EXCEPT ![c].queue = q] OBVIOUS
<1>2. PICK p : p = [s.posted EXCEPT ![n] = @ + 1] OBVIOUS
<1>3. PICK w : w = [s EXCEPT !.posted = p, !.cl = f] OBVIOUS
<1>4. q \in Seq(Message) /\ q # <<>> /\ Len(q) = Len(s.cl[c].queue) + 1
  <2> HIDE DEF m
  <2>1. m \in Message /\ s.cl[c].queue \in Seq(Message) BY <1>0
  <2>2. QED BY <2>1, AppendProperties
<1>5. t = IF Len(q) = 1 THEN ScheduleWriter(w, c) ELSE w
  <2>1. PICK v : v = [s EXCEPT !.posted[n] = @ + 1] OBVIOUS
  <2>2. v = [s EXCEPT !.posted = p] /\ v.posted[n] = s.posted[n] + 1 /\ v.cl = s.cl
    BY <1>0, <1>2, <2>1 DEF AInv, Types
  <2>3. t = PostMessage(v, c, m) BY <2>1, <2>2 DEF Send
  <2>4. [v EXCEPT !.cl[c].queue = Append(@, m)] = w
    BY <1>1, <1>3, <2>2 DEF AInv, Types
  <2>5. w.cl[c].queue = q
    <3> HIDE DEF q
    <3>1. w.cl = f BY <1>3 DEF AInv, Types
    <3>2. f[c].queue = q BY <1>0, <1>1 DEF Client
    <3>3. QED BY <3>1, <3>2
  <2>6. QED BY <2>3, <2>4, <2>5 DEF PostMessage
<1> HIDE DEF n, m
<1>6. /\ p \in [Conns \cup {Closed} -> Nat] /\ p[n] = s.posted[n] + 1
      /\ \A d \in (Conns \cup {Closed}) \ {n} : p[d] = s.posted[d]
  BY <1>0, <1>2
<1> HIDE DEF q
<1>7. /\ f \in [Clients -> Client] /\ f[c].rfd = n /\ f[c].wfd = s.cl[c].wfd /\ f[c].queue = q
      /\ \A d \in Clients \ {c} : f[d] = s.cl[d]
  BY <1>0, <1>1, <1>4 DEF Client, n
<1>8. /\ w.cl = f /\ w.posted = p /\ w.cur = s.cur /\ w.conns = s.conns /\ w.open = s.open
      /\ w.reads = s.reads /\ w.writes = s.writes /\ w.readfd = s.readfd
      /\ w.writefd = s.writefd /\ w.made = s.made /\ w.deleted = s.deleted
  BY <1>3 DEF AInv, Types
<1>9. \A d \in Clients : f[d].rfd = s.cl[d].rfd /\ f[d].wfd = s.cl[d].wfd
  BY <1>7 DEF n
<1> DEFINE Y == IF s.cl[c].wfd # None /\ s.cl[c].queue = <<>> THEN X \cup {Writer(c)} ELSE X
<1>10. Types(w, r, Y, g)
  <2>1. Y \subseteq Events BY Names DEF AInv, Types
  <2>2. QED BY <1>3, <1>6, <1>7, <2>1 DEF AInv, Types
<1>11. \A e : Listed(e, w, r) <=> Listed(e, s, r) BY <1>8 DEF Listed
<1>12. Sockets(w)
  <2>1. ~(c > s.made)
    <3>1. s.made \in Nat BY Fields DEF AInv
    <3>2. QED BY <1>0, <3>1
  <2>2. \A d \in Clients : d > w.made => w.cl[d] = NewClient
    BY <1>7, <1>8, <2>1 DEF AInv, Sockets
  <2>3. \A d \in w.deleted : d <= w.made /\ d # w.cur /\ w.cl[d].rfd = None
    <3>1. \A d \in s.deleted : d \in Clients BY Fields DEF AInv
    <3>2. QED BY <1>8, <1>9, <3>1 DEF AInv, Sockets
  <2>4. QED BY <1>8, <1>9, <2>2, <2>3 DEF AInv, Sockets
<1>13. Known(w, r, Y)
  <2>1. c <= s.made
    <3>1. s.made \in Nat BY Fields DEF AInv
    <3>2. QED BY <1>0, <3>1
  <2>2. QED BY <1>8, <1>9, <1>11, <2>1, Names DEF AInv, Known
<1>14. Bits(w) BY <1>8, <1>9 DEF AInv, Bits
<1>15. Missed(w, r, Y)
  <2>1. \A d \in Clients : w.cl[d].rfd \in Conns =>
                             In(Reader(d), w.reads) \/ In(Reader(d), r) \/ Reader(d) \in Y
    BY <1>8, <1>9 DEF AInv, Missed
  <2>2. ASSUME NEW d \in Clients, w.cl[d].wfd \in Conns, w.cl[d].queue # <<>>
        PROVE  In(Writer(d), w.writes) \/ In(Writer(d), r) \/ Writer(d) \in Y
    <3>1. CASE d = c /\ s.cl[c].queue = <<>>
      <4>1. Writer(c) \in Y BY <1>8, <1>9, <2>2, <3>1, Numbers
      <4>2. QED BY <3>1, <4>1
    <3>2. CASE ~(d = c /\ s.cl[c].queue = <<>>)
      <4>1. s.cl[d].queue # <<>> BY <1>7, <1>8, <2>2, <3>2
      <4>2. QED BY <1>8, <1>9, <2>2, <4>1 DEF AInv, Missed
    <3>3. QED BY <3>1, <3>2
  <2>3. QED BY <2>1, <2>2 DEF Missed
<1>16. Queues(w, g)
  <2>1. /\ \A d \in Conns : \A i \in 1 .. Len(g[d]) : g[d][i] = [conn |-> d, num |-> i]
        /\ \A d \in Conns : d > s.conns => s.posted[d] = 0 /\ g[d] = <<>>
    BY DEF AInv, Queues
  <2>2. ASSUME NEW d \in Conns, d > w.conns PROVE w.posted[d] = 0 /\ g[d] = <<>>
    <3>1. d # n
      <4>1. n \in Conns => n <= s.conns BY DEF n, AInv, Sockets
      <4>2. d \in Nat /\ s.conns \in Nat BY Fields, Numbers DEF AInv
      <4>3. QED BY <1>8, <2>2, <4>1, <4>2
    <3>2. QED BY <1>6, <1>8, <2>1, <2>2, <3>1
  <2>3. ASSUME NEW d \in Clients, w.cl[d].wfd \in w.open
        PROVE  GoesOn(w.cl[d].queue, w.cl[d].wfd, w.posted[w.cl[d].wfd], g[w.cl[d].wfd])
    <3>0. w.cl[d].wfd = s.cl[d].wfd /\ s.cl[d].wfd \in s.open /\ s.cl[d].wfd \in Conns
          /\ GoesOn(s.cl[d].queue, s.cl[d].wfd, s.posted[s.cl[d].wfd], g[s.cl[d].wfd])
          /\ s.cl[d].rfd = s.cl[d].wfd
      BY <1>8, <1>9, <2>3, Fields, Numbers DEF AInv, Queues, Sockets
    <3>1. CASE d = c
      <4>1. s.cl[c].wfd = n /\ n \in Conns /\ g[n] \in Seq(Message) BY <1>0, <3>0, <3>1 DEF n
      <4>2. GoesOn(s.cl[c].queue, n, s.posted[n], g[n]) BY <3>0, <3>1, <4>1
      <4>3. GoesOn(q, n, s.posted[n] + 1, g[n]) BY <1>0, <4>1, <4>2, GrownGoesOn DEF q, m
      <4>4. QED BY <1>6, <1>7, <1>8, <3>1, <4>1, <4>3
    <3>2. CASE d # c
      <4>1. s.cl[d].wfd # n BY <3>0, <3>2 DEF n, AInv, Sockets
      <4>2. QED BY <1>6, <1>7, <1>8, <3>0, <3>2, <4>1
    <3>3. QED BY <3>1, <3>2
  <2>4. QED BY <2>1, <2>2, <2>3 DEF Queues
<1>17. ASSUME ~u PROVE Single(w, r, Y)
  <2>1. Single(s, r, X) BY <1>17 DEF AInv
  <2>2. \A d \in Clients : Listed(Writer(d), w, r) /\ w.cl[d].wfd # None =>
                             w.cl[d].queue # <<>>
    BY <1>4, <1>7, <1>8, <1>9, <1>11, <2>1 DEF Single
  <2>3. \A e \in Events : e \in Y => ~Listed(e, w, r) BY <1>11, <2>1 DEF Single
  <2>4. QED BY <1>8, <2>1, <2>2, <2>3 DEF Single
<1>18. AInv(w, r, Y, u, g)
  BY <1>10, <1>12, <1>13, <1>14, <1>15, <1>16, <1>17 DEF AInv
<1>19. Len(q) = 1 <=> s.cl[c].queue = <<>>
  BY <1>0, <1>4, EmptySeq
<1>20. CASE s.cl[c].queue # <<>> BY <1>5, <1>8, <1>18, <1>19, <1>20
<1>21. CASE s.cl[c].queue = <<>>
  <2>1. t = ScheduleWriter(w, c) BY <1>5, <1>19, <1>21
  <2>2. t.deleted = w.deleted /\ t.made = w.made
    BY <1>10, <2>1 DEF ScheduleWriter, Types
  <2>3. AInv(t, r, X, u, g)
    <3>1. CASE s.cl[c].wfd = None
      <4>1. t = w BY <1>8, <1>9, <2>1, <3>1 DEF ScheduleWriter
      <4>2. QED BY <1>18, <3>1, <4>1
    <3>2. CASE s.cl[c].wfd # None
      <4>1. w.cl[c].queue # <<>> BY <1>4, <1>7, <1>8
      <4>2. Writer(c) \in Y /\ Y \ {Writer(c)} = X BY <1>21, <3>2
      <4> HIDE DEF Y
      <4>3. AInv(t, r, Y \ {Writer(c)}, u, g) BY <1>18, <2>1, <4>1, <4>2, SchedulesWriter
      <4>4. QED BY <4>2, <4>3
    <3>3. QED BY <3>1, <3>2
  <2>4. QED BY <1>8, <2>2, <2>3
<1>22. QED BY <1>20, <1>21

-----------------------------------------------------------------------------
(* What a writer does, and the reader of the broker.                       *)

(* The state after the writer took its first message.                      *)
Written(s, c) == [s EXCEPT !.cl[c].queue = Tail(@)]

(* h is what has arrived after that, when it was g before.                 *)
Received(s, c, g, h) ==
  \/ s.cl[c].wfd \notin s.open /\ h = g
  \/ /\ s.cl[c].wfd \in s.open
     /\ h = [g EXCEPT ![s.cl[c].wfd] = Append(@, Head(s.cl[c].queue))]

(* The first message is written; it arrives if the connection is up.       *)
LEMMA Writes ==
  ASSUME MaxConns \in Nat, NEW s, NEW r, NEW X, NEW u, NEW g, AInv(s, r, X, u, g),
         NEW c \in Clients, Writer(c) \in X, s.cl[c].wfd # None, s.cl[c].queue # <<>>,
         NEW t, t = Written(s, c),
         NEW h, Received(s, c, g, h)
  PROVE  AInv(t, r, X, u, h) /\ t.cl[c].queue = Tail(s.cl[c].queue)
<1> USE DEF Written, Received
<1> DEFINE n == s.cl[c].wfd
           q == s.cl[c].queue
           l == Append(g[n], Head(q))
<1>0. /\ n \in Conns /\ s.cl \in [Clients -> Client] /\ q \in Seq(Message) /\ Head(q) \in Message
      /\ Tail(q) \in Seq(Message) /\ g \in [Conns -> Seq(Message)] /\ g[n] \in Seq(Message)
      /\ s.posted \in [Conns \cup {Closed} -> Nat] /\ s.posted[n] \in Nat
      /\ n <= s.conns /\ s.conns \in Nat /\ n \in Nat /\ l \in Seq(Message)
  <2>1. n \in Conns /\ q \in Seq(Message) /\ g \in [Conns -> Seq(Message)]
        /\ s.posted \in [Conns \cup {Closed} -> Nat] /\ s.conns \in Nat
    <3>1. s.conns \in Nat BY Fields DEF AInv
    <3>2. n \in Conns /\ q \in Seq(Message) BY Fields DEF AInv
    <3>3. QED BY <3>1, <3>2, Fields DEF AInv
  <2>2. Head(q) \in Message /\ Tail(q) \in Seq(Message)
    <3> HIDE DEF q
    <3>1. q # <<>> BY DEF q
    <3>2. QED BY <2>1, <3>1, HeadTailProperties
  <2>3. n <= s.conns /\ n \in Nat BY <2>1, Numbers DEF AInv, Sockets
  <2>4. s.cl \in [Clients -> Client] BY Fields DEF AInv
  <2> HIDE DEF n, q
  <2>5. g[n] \in Seq(Message) /\ s.posted[n] \in Nat BY <2>1
  <2>6. l \in Seq(Message) BY <2>2, <2>5, AppendProperties
  <2>7. QED BY <2>1, <2>2, <2>3, <2>4, <2>5, <2>6
<1>1. PICK f : f = [s.cl EXCEPT ![c].queue = Tail(q)] OBVIOUS
<1>2. t = [s EXCEPT !.cl = f] BY <1>0, <1>1 DEF AInv, Types
<1>3. \/ n \notin s.open /\ h = g
      \/ n \in s.open /\ h = [g EXCEPT ![n] = l]
  OBVIOUS
<1>4. q # <<>> OBVIOUS
<1> HIDE DEF q
<1>5. /\ f \in [Clients -> Client] /\ f[c].rfd = s.cl[c].rfd /\ f[c].wfd = n
      /\ f[c].queue = Tail(q) /\ \A d \in Clients \ {c} : f[d] = s.cl[d]
  BY <1>0, <1>1 DEF Client
<1>6. /\ t.cl = f /\ t.posted = s.posted /\ t.cur = s.cur /\ t.conns = s.conns
      /\ t.open = s.open /\ t.reads = s.reads /\ t.writes = s.writes /\ t.readfd = s.readfd
      /\ t.writefd = s.writefd /\ t.made = s.made /\ t.deleted = s.deleted
  BY <1>2 DEF AInv, Types
<1>7. \A d \in Clients : f[d].rfd = s.cl[d].rfd /\ f[d].wfd = s.cl[d].wfd BY <1>5
<1>8. \A e : Listed(e, t, r) <=> Listed(e, s, r) BY <1>6 DEF Listed
<1>9. h \in [Conns -> Seq(Message)]
  <2> HIDE DEF n, l
  <2>1. QED BY <1>0, <1>3
<1>10. Types(t, r, X, h) BY <1>2, <1>5, <1>9 DEF AInv, Types
<1>11. Sockets(t)
  <2>1. ~(c > s.made)
    <3>1. s.cl[c] # NewClient BY DEF NewClient
    <3>2. QED BY <3>1 DEF AInv, Sockets
  <2>2. \A d \in Clients : d > t.made => t.cl[d] = NewClient
    BY <1>5, <1>6, <2>1 DEF AInv, Sockets
  <2>3. \A d \in t.deleted : d <= t.made /\ d # t.cur /\ t.cl[d].rfd = None
    <3>1. \A d \in s.deleted : d \in Clients BY Fields DEF AInv
    <3>2. QED BY <1>6, <1>7, <3>1 DEF AInv, Sockets
  <2>4. /\ \A d \in Clients : t.cl[d].wfd # None => t.cl[d].wfd = t.cl[d].rfd
        /\ \A d \in Clients : t.cl[d].rfd \in Conns => t.cl[d].wfd = t.cl[d].rfd
                                                    /\ t.cl[d].rfd <= t.conns
        /\ \A d, e \in Clients : t.cl[d].rfd \in Conns /\ t.cl[d].rfd = t.cl[e].rfd => d = e
    <3>1. /\ \A d \in Clients : s.cl[d].wfd # None => s.cl[d].wfd = s.cl[d].rfd
          /\ \A d \in Clients : s.cl[d].rfd \in Conns => s.cl[d].wfd = s.cl[d].rfd
                                                      /\ s.cl[d].rfd <= s.conns
          /\ \A d, e \in Clients : s.cl[d].rfd \in Conns /\ s.cl[d].rfd = s.cl[e].rfd => d = e
      BY DEF AInv, Sockets
    <3>2. \A d \in Clients : t.cl[d].rfd = s.cl[d].rfd /\ t.cl[d].wfd = s.cl[d].wfd
      BY <1>6, <1>7, SMTT(30)
    <3>3. t.conns = s.conns BY <1>6
    <3>4. \A d \in Clients : t.cl[d].wfd # None => t.cl[d].wfd = t.cl[d].rfd
      BY <3>1, <3>2
    <3>5. \A d \in Clients : t.cl[d].rfd \in Conns => t.cl[d].wfd = t.cl[d].rfd
                                                    /\ t.cl[d].rfd <= t.conns
      <4>1. SUFFICES ASSUME NEW d \in Clients, t.cl[d].rfd \in Conns
                     PROVE  t.cl[d].wfd = t.cl[d].rfd /\ t.cl[d].rfd <= t.conns
        OBVIOUS
      <4>2. t.cl[d].rfd = s.cl[d].rfd /\ t.cl[d].wfd = s.cl[d].wfd BY <3>2
      <4>3. s.cl[d].wfd = s.cl[d].rfd /\ s.cl[d].rfd <= s.conns BY <3>1, <4>1, <4>2
      <4>4. QED BY <3>3, <4>2, <4>3
    <3>6. \A d, e \in Clients : t.cl[d].rfd \in Conns /\ t.cl[d].rfd = t.cl[e].rfd => d = e
      BY <3>1, <3>2
    <3>7. QED BY <3>4, <3>5, <3>6
  <2>5. QED BY <1>6, <2>2, <2>3, <2>4 DEF AInv, Sockets
<1>12. Known(t, r, X) BY <1>6, <1>7, <1>8 DEF AInv, Known
<1>13. Bits(t) BY <1>6, <1>7 DEF AInv, Bits
<1>14. Missed(t, r, X)
  <2>1. \A d \in Clients : t.cl[d].rfd \in Conns =>
                             In(Reader(d), t.reads) \/ In(Reader(d), r) \/ Reader(d) \in X
    BY <1>6, <1>7 DEF AInv, Missed
  <2>2. ASSUME NEW d \in Clients, t.cl[d].wfd \in Conns, t.cl[d].queue # <<>>
        PROVE  In(Writer(d), t.writes) \/ In(Writer(d), r) \/ Writer(d) \in X
    <3>1. CASE d = c BY <3>1
    <3>2. CASE d # c BY <1>5, <1>6, <2>2, <3>2 DEF AInv, Missed
    <3>3. QED BY <3>1, <3>2
  <2>3. QED BY <2>1, <2>2 DEF Missed
<1>15. Queues(t, h)
  <2>1. /\ \A d \in Conns : \A i \in 1 .. Len(g[d]) : g[d][i] = [conn |-> d, num |-> i]
        /\ \A d \in Conns : d > s.conns => s.posted[d] = 0 /\ g[d] = <<>>
    BY DEF AInv, Queues
  <2>2. n \in s.open =>
          GoesOn(Tail(q), n, s.posted[n], l) /\ Head(q) = [conn |-> n, num |-> Len(g[n]) + 1]
    <3>1. n \in s.open => GoesOn(q, n, s.posted[n], g[n]) BY DEF AInv, Queues, q
    <3>2. q \in Seq(Message) /\ s.posted[n] \in Nat /\ g[n] \in Seq(Message) BY <1>0
    <3> HIDE DEF n
    <3>3. QED BY <1>4, <3>1, <3>2, SentGoesOn
  <2>3. \A d \in Conns \ {n} : h[d] = g[d]
    <3> HIDE DEF n, l
    <3>1. QED BY <1>0, <1>3
  <2>4. h[n] = IF n \in s.open THEN l ELSE g[n]
    <3> HIDE DEF n, l
    <3>1. QED BY <1>0, <1>3
  <2>5. ASSUME NEW d \in Conns PROVE \A i \in 1 .. Len(h[d]) : h[d][i] = [conn |-> d, num |-> i]
    <3>1. CASE d # n \/ n \notin s.open
      <4>1. h[d] = g[d] BY <2>3, <2>4, <3>1
      <4>2. QED BY <2>1, <4>1
    <3>2. CASE d = n /\ n \in s.open
      <4>1. PICK k : k = l OBVIOUS
      <4>2. h[d] = k BY <2>4, <3>2, <4>1
      <4>3. /\ Len(g[n]) \in Nat /\ Len(k) = Len(g[n]) + 1 /\ k[Len(g[n]) + 1] = Head(q)
            /\ \A i \in 1 .. Len(g[n]) : k[i] = g[n][i]
        <5> HIDE DEF n
        <5>1. g[n] \in Seq(Message) /\ Head(q) \in Message BY <1>0
        <5>2. QED BY <4>1, <5>1, AppendProperties, LenProperties
      <4>4. ASSUME NEW i \in 1 .. Len(k) PROVE k[i] = [conn |-> d, num |-> i]
        <5> HIDE DEF n, l
        <5>1. CASE i \in 1 .. Len(g[n]) BY <1>0, <2>1, <3>2, <4>3, <5>1
        <5>2. CASE i = Len(g[n]) + 1 BY <2>2, <3>2, <4>3, <5>2
        <5>3. QED BY <4>3, <5>1, <5>2
      <4>5. QED BY <4>2, <4>4
    <3>3. QED BY <3>1, <3>2
  <2>6. ASSUME NEW d \in Conns, d > t.conns PROVE t.posted[d] = 0 /\ h[d] = <<>>
    <3>1. d # n
      <4> HIDE DEF n
      <4>1. QED BY <1>0, <1>6, <2>6
    <3>2. QED BY <1>6, <2>1, <2>3, <2>6, <3>1
  <2>7. ASSUME NEW d \in Clients, t.cl[d].wfd \in t.open
        PROVE  GoesOn(t.cl[d].queue, t.cl[d].wfd, t.posted[t.cl[d].wfd], h[t.cl[d].wfd])
    <3>1. CASE d = c
      <4>1. t.cl[d].wfd = n /\ n \in s.open /\ t.cl[d].queue = Tail(q)
        BY <1>5, <1>6, <2>7, <3>1
      <4>2. h[n] = l BY <2>4, <4>1
      <4> HIDE DEF n, l
      <4>3. QED BY <1>6, <2>2, <4>1, <4>2
    <3>2. CASE d # c
      <4>1. t.cl[d] = s.cl[d] /\ s.cl[d].wfd \in s.open BY <1>5, <1>6, <2>7, <3>2
      <4>2. GoesOn(s.cl[d].queue, s.cl[d].wfd, s.posted[s.cl[d].wfd], g[s.cl[d].wfd])
        BY <4>1 DEF AInv, Queues
      <4>3. s.cl[d].wfd \in Conns BY <4>1, Fields DEF AInv
      <4>4. s.cl[d].wfd # n
        <5>1. s.cl[d].wfd # None /\ s.cl[c].wfd # None BY <1>0, <4>3, Numbers
        <5>2. s.cl[d].rfd = s.cl[d].wfd /\ s.cl[c].rfd = n BY <5>1 DEF AInv, Sockets
        <5>3. s.cl[c].rfd \in Conns BY <1>0, <5>2
        <5>4. s.cl[d].rfd # s.cl[c].rfd BY <3>2, <5>3 DEF AInv, Sockets
        <5>5. QED BY <5>2, <5>4
      <4>5. h[s.cl[d].wfd] = g[s.cl[d].wfd] BY <2>3, <4>3, <4>4
      <4>6. QED BY <1>6, <4>1, <4>2, <4>5
    <3>3. QED BY <3>1, <3>2
  <2>8. QED BY <2>5, <2>6, <2>7 DEF Queues
<1>16. ASSUME ~u PROVE Single(t, r, X)
  <2>1. Single(s, r, X) BY <1>16 DEF AInv
  <2>2. ~Listed(Writer(c), s, r) BY <2>1, Names DEF Single
  <2>3. \A d \in Clients : Listed(Writer(d), t, r) /\ t.cl[d].wfd # None =>
                             t.cl[d].queue # <<>>
    BY <1>5, <1>6, <1>8, <2>1, <2>2 DEF Single
  <2>4. QED BY <1>6, <1>8, <2>1, <2>3 DEF Single
<1>17. t.cl[c].queue = Tail(s.cl[c].queue) BY <1>5, <1>6 DEF q
<1>18. QED
  BY <1>10, <1>11, <1>12, <1>13, <1>14, <1>15, <1>16, <1>17 DEF AInv

(* The reader of the broker waits again.                                   *)
LEMMA WaitsAgain ==
  ASSUME NEW s, NEW r, NEW u, NEW g, AInv(s, r, {Broker}, u, g),
         NEW t, t = [s EXCEPT !.reads = Append(@, Broker)]
  PROVE  AInv(t, r, {}, u, g)
<1>0. s.reads \in Seq(Events) /\ Broker \in Events BY Fields, Names DEF AInv
<1>1. PICK k : k = Append(s.reads, Broker) OBVIOUS
<1>2. Adds(s.reads, Broker, k) BY <1>0, <1>1, Added
<1>3. t = [s EXCEPT !.reads = k] BY <1>1
<1>4. Types(t, r, {}, g) BY <1>2, <1>3 DEF AInv, Types, Adds
<1>5. /\ t.reads = k /\ t.cl = s.cl /\ t.posted = s.posted /\ t.cur = s.cur /\ t.conns = s.conns
      /\ t.open = s.open /\ t.writes = s.writes /\ t.readfd = s.readfd
      /\ t.writefd = s.writefd /\ t.made = s.made /\ t.deleted = s.deleted
  BY <1>3 DEF AInv, Types
<1>6. \A e \in Events : Listed(e, t, r) <=> Listed(e, s, r) \/ e = Broker
  BY <1>2, <1>5 DEF Listed, Adds
<1>7. Sockets(t) BY <1>5 DEF AInv, Sockets
<1>8. Known(t, r, {}) BY <1>5, <1>6, Names DEF AInv, Known
<1>9. \A e : In(e, s.reads) => In(e, t.reads) BY <1>2, <1>5 DEF Adds
<1>10. Bits(t) /\ Missed(t, r, {})
  <2>1. Bits(t) BY <1>5, <1>9 DEF AInv, Bits
  <2>2. Missed(t, r, {}) BY <1>5, <1>9, Names DEF AInv, Missed
  <2>3. QED BY <2>1, <2>2
<1>11. Queues(t, g) BY <1>5, SameQueues DEF AInv
<1>12. ASSUME ~u PROVE Single(t, r, {})
  <2>1. Single(s, r, {Broker}) BY <1>12 DEF AInv
  <2>2. ~In(Broker, s.reads) /\ ~In(Broker, s.writes) /\ ~In(Broker, r)
    BY <1>0, <2>1 DEF Single, Listed
  <2>3. Once(t.reads) /\ Once(t.writes) /\ Once(r) BY <1>2, <1>5, <2>1, <2>2 DEF Single, Adds
  <2>4. \A e \in Events : /\ ~(In(e, t.reads) /\ In(e, t.writes))
                          /\ ~(In(e, t.reads) /\ In(e, r))
                          /\ ~(In(e, t.writes) /\ In(e, r))
    BY <1>2, <1>5, <2>1, <2>2 DEF Single, Adds
  <2>5. \A d \in Clients : Listed(Writer(d), t, r) /\ t.cl[d].wfd # None =>
                             t.cl[d].queue # <<>>
    BY <1>5, <1>6, <2>1, Names DEF Single
  <2>6. QED BY <2>3, <2>4, <2>5 DEF Single
<1>13. QED BY <1>4, <1>7, <1>8, <1>10, <1>11, <1>12 DEF AInv

(* A deleted client's writer in ready turns into another's.                *)
LEMMA Moves ==
  ASSUME MaxConns \in Nat, NEW s, NEW r, NEW u, NEW g, AInv(s, r, {}, u, g), s.made \in Clients,
         NEW c \in s.deleted
  PROVE  AInv(s, Renamed(r, Writer(c), Writer(s.made)), {}, TRUE, g)
<1>0. /\ r \in Seq(Events) /\ Writer(s.made) \in Events /\ c \in Clients
      /\ s.made \in 0 .. MaxClients
  BY Fields, Names DEF AInv
<1>1. PICK k : k = Renamed(r, Writer(c), Writer(s.made)) OBVIOUS
<1>2. /\ k \in Seq(Events)
      /\ \A e : In(e, k) => In(e, r) \/ e = Writer(s.made)
      /\ \A e : In(e, r) /\ e # Writer(c) => In(e, k)
  <2>1. PICK new : new = Writer(s.made) OBVIOUS
  <2>2. new \in Events /\ k = Renamed(r, Writer(c), new) BY <1>0, <1>1, <2>1
  <2>3. /\ k \in Seq(Events)
        /\ \A e : In(e, k) => In(e, r) \/ e = new
        /\ \A e : In(e, r) /\ e # Writer(c) => In(e, k)
    BY <1>0, <2>2, RenamedIs
  <2>4. QED BY <2>1, <2>3
<1>3. Types(s, k, {}, g) BY <1>2 DEF AInv, Types
<1>4. s.cl[c].wfd \notin Conns
  <2>1. s.cl[c].rfd = None BY DEF AInv, Sockets
  <2>2. QED BY <1>0, <2>1, Numbers DEF AInv, Sockets
<1>5. Known(s, k, {})
  <2>1. \A e : Listed(e, s, k) => Listed(e, s, r) \/ e = Writer(s.made) BY <1>2 DEF Listed
  <2>2. s.made <= s.made BY <1>0
  <2>3. QED BY <2>1, <2>2, Names DEF AInv, Known
<1>6. Missed(s, k, {}) BY <1>0, <1>2, <1>4, Names DEF AInv, Missed
<1>7. QED BY <1>1, <1>3, <1>5, <1>6 DEF AInv

-----------------------------------------------------------------------------
(* The steps of the loop and of the RCE.                                   *)

Inv == AInv(Loop, ready, {}, reused, rcvd)

LEMMA LoopFields ==
  /\ Loop.reads = reads /\ Loop.writes = writes /\ Loop.readfd = readfd
  /\ Loop.writefd = writefd /\ Loop.cl = cl /\ Loop.cur = cur /\ Loop.made = made
  /\ Loop.deleted = deleted /\ Loop.conns = conns /\ Loop.open = open /\ Loop.posted = posted
BY DEF Loop

LEMMA LoopTypes ==
  ASSUME NEW s, s = Loop, s.reads \in Seq(Events), s.writes \in Seq(Events),
         s.readfd \in SUBSET Conns, s.writefd \in SUBSET Conns, s.cl \in [Clients -> Client],
         s.cur \in Clients \cup {0}, s.made \in 0 .. MaxClients, s.deleted \in SUBSET Clients,
         s.conns \in 0 .. MaxConns, s.open \in SUBSET Conns,
         s.posted \in [Conns \cup {Closed} -> Nat]
  PROVE  s \in [reads : Seq(Events), writes : Seq(Events), readfd : SUBSET Conns,
                writefd : SUBSET Conns, cl : [Clients -> Client], cur : Clients \cup {0},
                made : 0 .. MaxClients, deleted : SUBSET Clients, conns : 0 .. MaxConns,
                open : SUBSET Conns, posted : [Conns \cup {Closed} -> Nat]]
<1>1. s = [reads |-> s.reads, writes |-> s.writes, readfd |-> s.readfd,
           writefd |-> s.writefd, cl |-> s.cl, cur |-> s.cur, made |-> s.made,
           deleted |-> s.deleted, conns |-> s.conns, open |-> s.open, posted |-> s.posted]
  BY DEF Loop
<1>2. QED BY <1>1

LEMMA Committed ==
  ASSUME NEW s, NEW r, NEW u, NEW g, AInv(s, r, {}, u, g),
         Commit(s, r), reused' = u, rcvd' = g
  PROVE  Inv'
<1>1. Loop' = s BY DEF Loop, Commit, AInv, Types
<1>2. ready' = r BY DEF Commit
<1>3. QED BY <1>1, <1>2 DEF Inv

LEMMA Taken ==
  ASSUME Inv, ready # <<>>
  PROVE  AInv(Loop, Tail(ready), {Head(ready)}, reused, rcvd)
<1>1. PICK s : s = Loop OBVIOUS
<1>2. PICK r : r = ready OBVIOUS
<1>3. PICK k : k = Tail(r) OBVIOUS
<1>4. PICK x : x = Head(r) OBVIOUS
<1>5. PICK u : u = reused OBVIOUS
<1>6. PICK g : g = rcvd OBVIOUS
<1>7. AInv(s, r, {}, u, g) /\ r # <<>> BY <1>1, <1>2, <1>5, <1>6 DEF Inv
<1>8. r \in Seq(Events) BY <1>7, Fields DEF AInv
<1>9. /\ x \in Events /\ k \in Seq(Events)
      /\ \A e : In(e, r) <=> In(e, k) \/ e = x
      /\ Once(r) => Once(k) /\ ~In(x, k)
  BY <1>3, <1>4, <1>7, <1>8, Popped
<1>10. Types(s, k, {x}, g) BY <1>7, <1>9 DEF AInv, Types
<1>11. \A e : Listed(e, s, r) <=> Listed(e, s, k) \/ e = x BY <1>9 DEF Listed
<1>12. Known(s, k, {x}) BY <1>7, <1>11 DEF AInv, Known
<1>13. Missed(s, k, {x}) BY <1>7, <1>9 DEF AInv, Missed
<1>14. ASSUME ~u PROVE Single(s, k, {x})
  <2>1. Single(s, r, {}) BY <1>7, <1>14 DEF AInv
  <2>2. Once(k) /\ ~In(x, k) BY <1>9, <2>1 DEF Single
  <2>3. In(x, r) BY <1>9
  <2>4. \A e \in Events : /\ ~(In(e, s.reads) /\ In(e, s.writes))
                          /\ ~(In(e, s.reads) /\ In(e, k))
                          /\ ~(In(e, s.writes) /\ In(e, k))
                          /\ e \in {x} => ~Listed(e, s, k)
    BY <1>9, <2>1, <2>2, <2>3 DEF Single, Listed
  <2>5. \A d \in Clients : Listed(Writer(d), s, k) /\ s.cl[d].wfd # None =>
                             s.cl[d].queue # <<>>
    BY <1>11, <2>1 DEF Single
  <2>6. QED BY <2>1, <2>2, <2>4, <2>5 DEF Single
<1>15. AInv(s, k, {x}, u, g) BY <1>7, <1>10, <1>12, <1>13, <1>14 DEF AInv
<1>16. QED BY <1>1, <1>2, <1>3, <1>4, <1>5, <1>6, <1>15

LEMMA RunReaderKeeps ==
  ASSUME MaxConns \in Nat, Inv, NEW c \in Clients, RunReader(c)
  PROVE  Inv'
<1>1. PICK s : s = Loop OBVIOUS
<1>2. PICK r : r = Tail(ready) OBVIOUS
<1>3. PICK u : u = reused OBVIOUS
<1>4. PICK g : g = rcvd OBVIOUS
<1>5. AInv(s, r, {Reader(c)}, u, g)
  <2>1. ready # <<>> /\ Head(ready) = Reader(c) BY DEF RunReader
  <2>2. QED BY <1>1, <1>2, <1>3, <1>4, <2>1, Taken
<1>6. reused' = u /\ rcvd' = g /\ s.cl = cl
  BY <1>1, <1>3, <1>4, LoopFields DEF RunReader
<1>7. \/ cl[c].rfd = None /\ Commit(s, r)
      \/ Commit(ScheduleReader(s, c), r)
      \/ Commit(CloseBoth(s, c), r)
  BY <1>1, <1>2 DEF RunReader
<1>8. CASE cl[c].rfd = None /\ Commit(s, r)
  <2>1. \A d \in Clients : /\ Reader(c) = Reader(d) => s.cl[d].rfd \notin Conns
                           /\ Reader(c) # Writer(d)
    BY <1>6, <1>8, Names, Numbers
  <2>2. AInv(s, r, {Reader(c)} \ {Reader(c)}, u, g) BY <1>5, <2>1, Dropped
  <2>3. {Reader(c)} \ {Reader(c)} = {} OBVIOUS
  <2>4. QED BY <1>6, <1>8, <2>2, <2>3, Committed
<1>9. CASE Commit(ScheduleReader(s, c), r)
  <2>1. PICK X : X = {Reader(c)} OBVIOUS
  <2>2. AInv(ScheduleReader(s, c), r, X \ {Reader(c)}, u, g) BY <1>5, <2>1, SchedulesReader
  <2>3. X \ {Reader(c)} = {} BY <2>1
  <2>4. QED BY <1>6, <1>9, <2>2, <2>3, Committed
<1>10. CASE Commit(CloseBoth(s, c), r)
  <2>1. PICK t : t = CloseBoth(s, c) OBVIOUS
  <2>2. AInv(t, r, {Reader(c)}, u, g) /\ t.cl[c].rfd = None BY <1>5, <2>1, ClosesBoth
  <2>3. \A d \in Clients : /\ Reader(c) = Reader(d) => t.cl[d].rfd \notin Conns
                           /\ Reader(c) # Writer(d)
    BY <2>2, Names, Numbers
  <2>4. AInv(t, r, {Reader(c)} \ {Reader(c)}, u, g) BY <2>2, <2>3, Dropped
  <2>5. {Reader(c)} \ {Reader(c)} = {} OBVIOUS
  <2>6. QED BY <1>6, <1>10, <2>1, <2>4, <2>5, Committed
<1>11. QED BY <1>7, <1>8, <1>9, <1>10

LEMMA RunWriterKeeps ==
  ASSUME MaxConns \in Nat, Inv, NEW c \in Clients, RunWriter(c)
  PROVE  Inv'
<1>1. PICK s : s = Loop OBVIOUS
<1>2. PICK r : r = Tail(ready) OBVIOUS
<1>3. PICK u : u = reused OBVIOUS
<1>4. PICK g : g = rcvd OBVIOUS
<1>5. AInv(s, r, {Writer(c)}, u, g)
  <2>1. ready # <<>> /\ Head(ready) = Writer(c) BY DEF RunWriter
  <2>2. QED BY <1>1, <1>2, <1>3, <1>4, <2>1, Taken
<1>6. reused' = u /\ s.cl = cl /\ s.open = open BY <1>1, <1>3, LoopFields DEF RunWriter
<1>7. PICK w : w = Written(s, c) OBVIOUS
<1>8. PICK h : h = rcvd' OBVIOUS
<1>9. \/ cl[c].wfd = None /\ Commit(s, r) /\ h = g
      \/ cl[c].queue = <<>> /\ Commit(s, r) /\ h = g
      \/ /\ cl[c].wfd # None /\ cl[c].queue # <<>>
         /\ \/ /\ cl[c].wfd \in open
               /\ h = [g EXCEPT ![cl[c].wfd] = Append(@, Head(cl[c].queue))]
            \/ cl[c].wfd \notin open /\ h = g
         /\ Commit(Again(w, c), r) \/ Commit(CloseBoth(w, c), r)
  BY <1>1, <1>2, <1>4, <1>7, <1>8 DEF RunWriter, Written
<1>10. {Writer(c)} \ {Writer(c)} = {} OBVIOUS
<1>11. CASE (cl[c].wfd = None \/ cl[c].queue = <<>>) /\ Commit(s, r) /\ h = g
  <2>1. \A d \in Clients : /\ Writer(c) = Writer(d) => s.cl[d].wfd \notin Conns
                                                       \/ s.cl[d].queue = <<>>
                           /\ Writer(c) # Reader(d)
    BY <1>6, <1>11, Names, Numbers
  <2>2. AInv(s, r, {Writer(c)} \ {Writer(c)}, u, g) BY <1>5, <2>1, Dropped
  <2>3. QED BY <1>6, <1>8, <1>10, <1>11, <2>2, Committed
<1>12. CASE /\ cl[c].wfd # None /\ cl[c].queue # <<>>
            /\ \/ /\ cl[c].wfd \in open
                  /\ h = [g EXCEPT ![cl[c].wfd] = Append(@, Head(cl[c].queue))]
               \/ cl[c].wfd \notin open /\ h = g
            /\ Commit(Again(w, c), r) \/ Commit(CloseBoth(w, c), r)
  <2>1. AInv(w, r, {Writer(c)}, u, h)
    <3>1. PICK X : X = {Writer(c)} OBVIOUS
    <3>2. AInv(s, r, X, u, g) /\ Writer(c) \in X BY <1>5, <3>1
    <3>3. /\ s.cl[c].wfd # None /\ s.cl[c].queue # <<>>
          /\ \/ s.cl[c].wfd \notin s.open /\ h = g
             \/ /\ s.cl[c].wfd \in s.open
                /\ h = [g EXCEPT ![s.cl[c].wfd] = Append(@, Head(s.cl[c].queue))]
      <4>1. s.cl[c].wfd = cl[c].wfd /\ s.cl[c].queue = cl[c].queue BY <1>6
      <4>2. PICK q : q = cl[c].queue OBVIOUS
      <4>3. PICK n : n = cl[c].wfd OBVIOUS
      <4>4. /\ n # None /\ q # <<>>
            /\ \/ n \in open /\ h = [g EXCEPT ![n] = Append(@, Head(q))]
               \/ n \notin open /\ h = g
        BY <1>12, <4>2, <4>3, SMTT(30)
      <4>5. s.cl[c].queue = q /\ s.cl[c].wfd = n BY <4>1, <4>2, <4>3
      <4>6. [g EXCEPT ![s.cl[c].wfd] = Append(@, Head(s.cl[c].queue))]
              = [g EXCEPT ![n] = Append(@, Head(q))]
        BY <4>5
      <4>7. s.open = open BY <1>6
      <4>8. CASE n \notin open /\ h = g BY <4>4, <4>5, <4>7, <4>8
      <4>9. CASE n \in open /\ h = [g EXCEPT ![n] = Append(@, Head(q))]
        <5>1. h = [g EXCEPT ![s.cl[c].wfd] = Append(@, Head(s.cl[c].queue))] BY <4>6, <4>9
        <5>2. s.cl[c].wfd \in s.open BY <4>5, <4>7, <4>9
        <5>3. QED BY <4>4, <4>5, <5>1, <5>2, SMTT(30)
      <4>10. QED BY <4>4, <4>8, <4>9, SMTT(30)
    <3>4. Received(s, c, g, h) BY <3>3 DEF Received
    <3>5. AInv(w, r, X, u, h) BY <1>7, <3>2, <3>3, <3>4, Writes
    <3>6. QED BY <3>1, <3>5
  <2>2. CASE Commit(Again(w, c), r)
    <3>1. CASE w.cl[c].queue = <<>>
      <4>1. \A d \in Clients : /\ Writer(c) = Writer(d) => w.cl[d].queue = <<>>
                               /\ Writer(c) # Reader(d)
        BY <3>1, Names
      <4>2. AInv(w, r, {Writer(c)} \ {Writer(c)}, u, h) BY <2>1, <4>1, Dropped
      <4>3. Commit(w, r) BY <2>2, <3>1 DEF Again
      <4>4. QED BY <1>6, <1>8, <1>10, <4>2, <4>3, Committed
    <3>2. CASE w.cl[c].queue # <<>>
      <4>1. PICK X : X = {Writer(c)} OBVIOUS
      <4>2. AInv(ScheduleWriter(w, c), r, X \ {Writer(c)}, u, h)
        BY <2>1, <3>2, <4>1, SchedulesWriter
      <4>3. Commit(ScheduleWriter(w, c), r) BY <2>2, <3>2 DEF Again
      <4>4. X \ {Writer(c)} = {} BY <4>1
      <4>5. QED BY <1>6, <1>8, <4>2, <4>3, <4>4, Committed
    <3>3. QED BY <3>1, <3>2
  <2>3. CASE Commit(CloseBoth(w, c), r)
    <3>1. PICK t : t = CloseBoth(w, c) OBVIOUS
    <3>2. AInv(t, r, {Writer(c)}, u, h) /\ t.cl[c].wfd = None BY <2>1, <3>1, ClosesBoth
    <3>3. \A d \in Clients : /\ Writer(c) = Writer(d) => t.cl[d].wfd \notin Conns
                             /\ Writer(c) # Reader(d)
      BY <3>2, Names, Numbers
    <3>4. AInv(t, r, {Writer(c)} \ {Writer(c)}, u, h) BY <3>2, <3>3, Dropped
    <3>5. QED BY <1>6, <1>8, <1>10, <2>3, <3>1, <3>4, Committed
  <2>4. QED BY <1>12, <2>2, <2>3
<1>13. QED BY <1>9, <1>11, <1>12

LEMMA SkipBrokerKeeps ==
  ASSUME MaxConns \in Nat, Inv, SkipBroker
  PROVE  Inv'
<1>1. PICK s : s = Loop OBVIOUS
<1>2. PICK r : r = Tail(ready) OBVIOUS
<1>3. PICK u : u = reused OBVIOUS
<1>4. PICK g : g = rcvd OBVIOUS
<1>5. AInv(s, r, {Broker}, u, g)
  <2>1. ready # <<>> /\ Head(ready) = Broker BY DEF SkipBroker
  <2>2. QED BY <1>1, <1>2, <1>3, <1>4, <2>1, Taken
<1>6. PICK t : t = [s EXCEPT !.reads = Append(@, Broker)] OBVIOUS
<1>7. AInv(t, r, {}, u, g) BY <1>5, <1>6, WaitsAgain
<1>8. Commit(t, r)
  BY <1>1, <1>2, <1>6 DEF SkipBroker, Commit, Loop, objs
<1>9. reused' = u /\ rcvd' = g BY <1>3, <1>4 DEF SkipBroker, objs
<1>10. QED BY <1>7, <1>8, <1>9, Committed

LEMMA RunBrokerKeeps ==
  ASSUME MaxConns \in Nat, MaxClients \in Nat, Inv, RunBroker
  PROVE  Inv'
<1>1. PICK s : s = Loop OBVIOUS
<1>2. PICK r : r = Tail(ready) OBVIOUS
<1>3. PICK u : u = reused OBVIOUS
<1>4. PICK g : g = rcvd OBVIOUS
<1>5. AInv(s, r, {Broker}, u, g)
  <2>1. ready # <<>> /\ Head(ready) = Broker BY DEF RunBroker
  <2>2. QED BY <1>1, <1>2, <1>3, <1>4, <2>1, Taken
<1>6. /\ s.cl = cl /\ s.cur = cur /\ s.conns = conns /\ s.made = made /\ rcvd' = g
  BY <1>1, <1>4, LoopFields DEF RunBroker
<1>7. Alive(s, s.cur) \/ (s.made < MaxClients /\ s.conns < MaxConns)
  BY <1>1, <1>6 DEF RunBroker, Bounded
<1>8. PICK kind \in {"query", "notify"}, again \in BOOLEAN :
        LET t == Handler(kind)
            moved == again /\ cur \in t.deleted /\ In(Writer(cur), ready)
        IN  /\ Commit([t EXCEPT !.reads = Append(@, Broker)],
                      IF moved THEN Renamed(r, Writer(cur), Writer(t.made)) ELSE r)
            /\ reused' = (reused \/ moved)
  BY <1>2 DEF RunBroker
<1>9. PICK t : t = Handler(kind) OBVIOUS
<1>10. AInv(t, r, {Broker}, u, g) /\ t.made \in Clients
  <2>1. PICK v : v = GetClient(s) OBVIOUS
  <2>2. /\ AInv(v, r, {Broker}, u, g) /\ v.conns = s.conns /\ v.made \in Clients
        /\ \/ Alive(v, v.cur) /\ v.cur \in Clients
           \/ ~Alive(v, v.cur) /\ Fresh(v, r, {Broker}) /\ ~Alive(s, s.cur)
    BY <1>5, <1>7, <2>1, GetsClient
  <2>3. \A d \in Clients : Writer(d) \notin {Broker} BY Names
  <2>4. CASE Alive(v, v.cur)
    <3>1. t = Send(v, v.cur) BY <1>1, <1>9, <2>1, <2>4 DEF Handler
    <3>2. QED BY <2>2, <2>3, <2>4, <3>1, Sends
  <2>5. CASE ~Alive(v, v.cur) /\ up
    <3>1. PICK w : w = Connected(v) OBVIOUS
    <3>2. v.conns < MaxConns BY <1>7, <2>2, <2>5
    <3>3. /\ AInv(w, r, {Broker}, u, g) /\ Alive(w, w.cur) /\ w.cur = v.cur /\ w.made = v.made
      BY <2>2, <2>5, <3>1, <3>2, Connects
    <3>4. w.cur \in Clients BY <2>2, <2>5, <3>3 DEF Fresh
    <3>5. t = Send(w, w.cur) BY <1>1, <1>9, <2>1, <2>5, <3>1 DEF Handler
    <3>6. QED BY <2>2, <2>3, <3>3, <3>4, <3>5, Sends
  <2>6. CASE ~Alive(v, v.cur) /\ ~up
    <3>1. t = NotConnected(v) \/ t = [NotConnected(v) EXCEPT !.cur = 0]
      BY <1>1, <1>9, <2>1, <2>6 DEF Handler
    <3>2. QED BY <2>2, <2>6, <3>1, NotConnects
  <2>7. QED BY <2>4, <2>5, <2>6
<1>11. PICK w : w = [t EXCEPT !.reads = Append(@, Broker)] OBVIOUS
<1>12. AInv(w, r, {}, u, g) BY <1>10, <1>11, WaitsAgain
<1>13. w.made = t.made /\ w.deleted = t.deleted BY <1>10, <1>11 DEF AInv, Types
<1>14. CASE again /\ cur \in t.deleted /\ In(Writer(cur), ready)
  <2>1. Commit(w, Renamed(r, Writer(cur), Writer(w.made))) /\ reused' = TRUE
    BY <1>8, <1>9, <1>11, <1>13, <1>14
  <2>2. PICK c : c = cur OBVIOUS
  <2>3. AInv(w, Renamed(r, Writer(c), Writer(w.made)), {}, TRUE, g)
    BY <1>10, <1>12, <1>13, <1>14, <2>2, Moves
  <2>4. QED BY <1>6, <2>1, <2>2, <2>3, Committed
<1>15. CASE ~(again /\ cur \in t.deleted /\ In(Writer(cur), ready))
  <2>1. Commit(w, r) BY <1>8, <1>9, <1>11, <1>15
  <2>2. reused' \/ ~reused' <=> TRUE OBVIOUS
  <2>3. (~reused' => ~u) /\ (~u => ~reused') BY <1>3, <1>8, <1>9, <1>15
  <2>4. AInv(w, r, {}, reused', g) BY <1>12, <2>3 DEF AInv
  <2>5. QED BY <1>6, <2>1, <2>4, Committed
<1>16. QED BY <1>14, <1>15

LEMMA SelectKeeps ==
  ASSUME MaxConns \in Nat, Inv, NEW W \in SUBSET {Writer(c) : c \in Clients}, Select(W)
  PROVE  Inv'
<1>1. PICK s : s = Loop OBVIOUS
<1>2. PICK t : t = Loop' OBVIOUS
<1>3. PICK k : k = ready' OBVIOUS
<1>4. PICK u : u = reused OBVIOUS
<1>5. PICK g : g = rcvd OBVIOUS
<1>6. AInv(s, <<>>, {}, u, g) BY <1>1, <1>4, <1>5 DEF Inv, Select
<1>7. PICK B \in SUBSET {Broker} :
        LET S == Readable \cup B
        IN  /\ ready' = Only(reads, S) \o Only(writes, W)
            /\ reads' = Only(reads, Events \ S)
            /\ writes' = Only(writes, Events \ W)
            /\ readfd' = Watched(readfd, {cl[c].rfd : c \in {d \in Clients : Reader(d) \in S}})
            /\ writefd' = Watched(writefd, {cl[c].wfd : c \in {d \in Clients : Writer(d) \in W}})
  BY DEF Select
<1>8. PICK S : S = Readable \cup B OBVIOUS
<1>9. /\ t.cl = s.cl /\ t.cur = s.cur /\ t.made = s.made /\ t.deleted = s.deleted
      /\ t.conns = s.conns /\ t.open = s.open /\ t.posted = s.posted
      /\ reused' = u /\ rcvd' = g /\ s.cl = cl
  BY <1>1, <1>2, <1>4, <1>5 DEF Loop, Select, objs
<1>10. /\ t.reads = Only(s.reads, Events \ S) /\ t.writes = Only(s.writes, Events \ W)
       /\ k = Only(s.reads, S) \o Only(s.writes, W)
       /\ t.readfd = Watched(s.readfd, {s.cl[c].rfd : c \in {d \in Clients : Reader(d) \in S}})
       /\ t.writefd = Watched(s.writefd, {s.cl[c].wfd : c \in {d \in Clients : Writer(d) \in W}})
  BY <1>1, <1>2, <1>3, <1>7, <1>8, LoopFields DEF Loop
<1>11. s.reads \in Seq(Events) /\ s.writes \in Seq(Events) BY <1>6, Fields DEF AInv
<1>12. PICK a : a = Only(s.reads, S) OBVIOUS
<1>13. PICK b : b = Only(s.writes, W) OBVIOUS
<1>14. Leaves(s.reads, S, a) BY <1>11, <1>12, OnlyLeaves DEF Leaves
<1>15. Leaves(s.writes, W, b) BY <1>11, <1>13, OnlyLeaves DEF Leaves
<1>16. Leaves(s.reads, Events \ S, t.reads)
  <2>1. PICK l : l = t.reads OBVIOUS
  <2>2. PICK V : V = Events \ S OBVIOUS
  <2>3. l = Only(s.reads, V) BY <1>10, <2>1, <2>2
  <2>4. Leaves(s.reads, V, l) BY <1>11, <2>3, OnlyLeaves DEF Leaves
  <2>5. QED BY <2>1, <2>2, <2>4
<1>17. Leaves(s.writes, Events \ W, t.writes)
  <2>1. PICK l : l = t.writes OBVIOUS
  <2>2. PICK V : V = Events \ W OBVIOUS
  <2>3. l = Only(s.writes, V) BY <1>10, <2>1, <2>2
  <2>4. Leaves(s.writes, V, l) BY <1>11, <2>3, OnlyLeaves DEF Leaves
  <2>5. QED BY <2>1, <2>2, <2>4
<1>18. a \in Seq(Events) /\ b \in Seq(Events) BY <1>14, <1>15 DEF Leaves
<1>19. /\ k \in Seq(Events)
       /\ \A e : In(e, k) <=> In(e, a) \/ In(e, b)
       /\ Once(a) /\ Once(b) /\ (\A e \in Events : ~(In(e, a) /\ In(e, b))) => Once(k)
  <2>1. k = a \o b BY <1>10, <1>12, <1>13
  <2>2. QED BY <1>18, <2>1, Joined
<1>20. /\ \A e \in Events : In(e, s.reads) <=> In(e, t.reads) \/ In(e, a)
       /\ \A e \in Events : In(e, s.writes) <=> In(e, t.writes) \/ In(e, b)
       /\ \A e \in Events : ~(In(e, t.reads) /\ In(e, a)) /\ ~(In(e, t.writes) /\ In(e, b))
  BY <1>14, <1>15, <1>16, <1>17 DEF Leaves
<1>21. ASSUME NEW e \in Events PROVE Listed(e, t, k) <=> Listed(e, s, <<>>)
  <2>1. ~In(e, <<>>) BY DEF In
  <2>2. QED BY <1>19, <1>20, <2>1 DEF Listed
<1>22. Types(t, k, {}, g)
  <2>1. t.readfd \subseteq s.readfd /\ t.writefd \subseteq s.writefd BY <1>10 DEF Watched
  <2>2. t.reads \in Seq(Events) /\ t.writes \in Seq(Events) BY <1>16, <1>17 DEF Leaves
  <2>3. t = [reads |-> t.reads, writes |-> t.writes, readfd |-> t.readfd,
             writefd |-> t.writefd, cl |-> t.cl, cur |-> t.cur, made |-> t.made,
             deleted |-> t.deleted, conns |-> t.conns, open |-> t.open, posted |-> t.posted]
    BY <1>2 DEF Loop
  <2>4. /\ s.readfd \subseteq Conns /\ s.writefd \subseteq Conns /\ s.cl \in [Clients -> Client]
        /\ s.cur \in Clients \cup {0} /\ s.made \in 0 .. MaxClients /\ s.deleted \subseteq Clients
        /\ s.conns \in 0 .. MaxConns /\ s.open \subseteq Conns
        /\ s.posted \in [Conns \cup {Closed} -> Nat] /\ g \in [Conns -> Seq(Message)]
    BY <1>6, Fields DEF AInv
  <2>5. /\ t.readfd \in SUBSET Conns /\ t.writefd \in SUBSET Conns /\ t.cl \in [Clients -> Client]
        /\ t.cur \in Clients \cup {0} /\ t.made \in 0 .. MaxClients
        /\ t.deleted \in SUBSET Clients /\ t.conns \in 0 .. MaxConns /\ t.open \in SUBSET Conns
        /\ t.posted \in [Conns \cup {Closed} -> Nat]
    BY <1>9, <2>1, <2>4
  <2>6. QED BY <1>19, <2>2, <2>3, <2>4, <2>5 DEF Types
<1>23. Sockets(t) BY <1>6, <1>9 DEF AInv, Sockets
<1>24. Known(t, k, {}) BY <1>6, <1>9, <1>21, Names DEF AInv, Known
<1>25. Bits(t)
  <2>1. ASSUME NEW n \in t.readfd
        PROVE  \E c \in Clients : t.cl[c].rfd = n /\ In(Reader(c), t.reads)
    <3>1. n \in s.readfd /\ \A c \in Clients : Reader(c) \in S => s.cl[c].rfd # n
      BY <1>10, <2>1 DEF Watched
    <3>2. PICK c \in Clients : s.cl[c].rfd = n /\ In(Reader(c), s.reads)
      BY <1>6, <3>1 DEF AInv, Bits
    <3>3. Reader(c) \in Events \ S BY <3>1, <3>2, Names
    <3>4. In(Reader(c), t.reads) BY <1>16, <3>2, <3>3 DEF Leaves
    <3>5. QED BY <1>9, <3>2, <3>4
  <2>2. ASSUME NEW n \in t.writefd
        PROVE  \E c \in Clients : t.cl[c].wfd = n /\ In(Writer(c), t.writes)
    <3>1. n \in s.writefd /\ \A c \in Clients : Writer(c) \in W => s.cl[c].wfd # n
      BY <1>10, <2>2 DEF Watched
    <3>2. PICK c \in Clients : s.cl[c].wfd = n /\ In(Writer(c), s.writes)
      BY <1>6, <3>1 DEF AInv, Bits
    <3>3. Writer(c) \in Events \ W BY <3>1, <3>2, Names
    <3>4. In(Writer(c), t.writes) BY <1>17, <3>2, <3>3 DEF Leaves
    <3>5. QED BY <1>9, <3>2, <3>4
  <2>3. QED BY <2>1, <2>2 DEF Bits
<1>26. Missed(t, k, {})
  <2>1. \A e : ~In(e, <<>>) BY DEF In
  <2>2. QED BY <1>6, <1>9, <1>19, <1>20, <2>1, Names DEF AInv, Missed
<1>27. Queues(t, g) BY <1>6, <1>9, SameQueues DEF AInv
<1>28. ASSUME ~u PROVE Single(t, k, {})
  <2>1. Single(s, <<>>, {}) BY <1>6, <1>28 DEF AInv
  <2>2. Once(t.reads) /\ Once(t.writes) /\ Once(a) /\ Once(b)
    BY <1>14, <1>15, <1>16, <1>17, <2>1 DEF Leaves, Single
  <2>3. \A e \in Events : ~(In(e, s.reads) /\ In(e, s.writes)) BY <2>1 DEF Single
  <2>4. Once(k) BY <1>19, <1>20, <2>2, <2>3
  <2>5. \A e \in Events : /\ ~(In(e, t.reads) /\ In(e, t.writes))
                          /\ ~(In(e, t.reads) /\ In(e, k))
                          /\ ~(In(e, t.writes) /\ In(e, k))
    BY <1>19, <1>20, <2>3
  <2>6. \A d \in Clients : Listed(Writer(d), t, k) /\ t.cl[d].wfd # None =>
                             t.cl[d].queue # <<>>
    BY <1>9, <1>21, <2>1, Names DEF Single
  <2>7. QED BY <2>2, <2>4, <2>5, <2>6 DEF Single
<1>29. AInv(t, k, {}, u, g)
  BY <1>22, <1>23, <1>24, <1>25, <1>26, <1>27, <1>28 DEF AInv
<1>30. QED BY <1>2, <1>3, <1>9, <1>29 DEF Inv

LEMMA StopKeeps ==
  ASSUME MaxConns \in Nat, Inv, RceStop
  PROVE  Inv'
<1>1. PICK s : s = Loop OBVIOUS
<1>2. PICK t : t = Loop' OBVIOUS
<1>3. PICK r : r = ready OBVIOUS
<1>4. PICK u : u = reused OBVIOUS
<1>5. PICK g : g = rcvd OBVIOUS
<1>6. AInv(s, r, {}, u, g) BY <1>1, <1>3, <1>4, <1>5 DEF Inv
<1>7. ready' = r /\ reused' = u /\ rcvd' = g BY <1>3, <1>4, <1>5 DEF RceStop, lists, objs
<1>8. t = [s EXCEPT !.open = {}] BY <1>1, <1>2 DEF RceStop, lists, objs, Loop
<1>9. /\ t.reads = s.reads /\ t.writes = s.writes /\ t.readfd = s.readfd
      /\ t.writefd = s.writefd /\ t.cl = s.cl /\ t.cur = s.cur /\ t.made = s.made
      /\ t.deleted = s.deleted /\ t.conns = s.conns /\ t.open = {} /\ t.posted = s.posted
  BY <1>6, <1>8 DEF AInv, Types
<1>10. Types(t, r, {}, g) BY <1>6, <1>8 DEF AInv, Types
<1>11. Sockets(t) BY <1>6, <1>9 DEF AInv, Sockets
<1>12. \A e : Listed(e, t, r) <=> Listed(e, s, r) BY <1>9 DEF Listed
<1>13. Known(t, r, {}) BY <1>6, <1>9, <1>12 DEF AInv, Known
<1>14. Bits(t) BY <1>6, <1>9 DEF AInv, Bits
<1>15. Missed(t, r, {}) BY <1>6, <1>9 DEF AInv, Missed
<1>16. Queues(t, g)
  <2>1. /\ \A n \in Conns : \A i \in 1 .. Len(g[n]) : g[n][i] = [conn |-> n, num |-> i]
        /\ \A n \in Conns : n > t.conns => t.posted[n] = 0 /\ g[n] = <<>>
    BY <1>6, <1>9 DEF AInv, Queues
  <2>2. \A c \in Clients : t.cl[c].wfd \notin t.open BY <1>9
  <2>3. QED BY <2>1, <2>2 DEF Queues
<1>17. ~u => Single(t, r, {}) BY <1>6, <1>9, <1>12 DEF AInv, Single
<1>18. AInv(t, r, {}, u, g)
  BY <1>10, <1>11, <1>13, <1>14, <1>15, <1>16, <1>17 DEF AInv
<1>19. QED BY <1>2, <1>7, <1>18 DEF Inv

LEMMA StepKeeps ==
  ASSUME MaxConns \in Nat, MaxClients \in Nat, Inv, [Next]_vars
  PROVE  Inv'
<1>1. ASSUME NEW c \in Clients, RunReader(c) PROVE Inv' BY <1>1, RunReaderKeeps
<1>2. ASSUME NEW c \in Clients, RunWriter(c) PROVE Inv' BY <1>2, RunWriterKeeps
<1>3. CASE RunBroker BY <1>3, RunBrokerKeeps
<1>4. CASE SkipBroker BY <1>4, SkipBrokerKeeps
<1>5. ASSUME NEW W \in SUBSET {Writer(c) : c \in Clients}, Select(W) PROVE Inv'
  BY <1>5, SelectKeeps
<1>6. CASE RceStop BY <1>6, StopKeeps
<1>7. CASE UNCHANGED <<lists, objs, conns, open, rcvd, posted>>
  <2>1. Loop' = Loop BY <1>7 DEF Loop, lists, objs
  <2>2. ready' = ready /\ reused' = reused /\ rcvd' = rcvd BY <1>7 DEF lists, objs
  <2>3. QED BY <2>1, <2>2 DEF Inv
<1>8. ASSUME NEW n \in Conns, RceSend(n) PROVE Inv'
  BY <1>7, <1>8 DEF RceSend
<1>9. CASE RceStart BY <1>7, <1>9 DEF RceStart
<1>10. CASE UNCHANGED vars BY <1>7, <1>10 DEF vars
<1>11. QED
  BY <1>1, <1>2, <1>3, <1>4, <1>5, <1>6, <1>8, <1>9, <1>10 DEF Next

LEMMA StartHolds ==
  ASSUME MaxConns \in Nat, MaxClients \in Nat, Init
  PROVE  Inv
<1>0. PICK s : s = Loop OBVIOUS
<1>1. /\ s.reads = <<Broker>> /\ s.writes = <<>> /\ s.readfd = {} /\ s.writefd = {}
      /\ s.cl = [c \in Clients |-> NewClient] /\ s.cur = 0 /\ s.made = 0 /\ s.deleted = {}
      /\ s.conns = 0 /\ s.open = {} /\ s.posted = [n \in Conns \cup {Closed} |-> 0]
  BY <1>0, LoopFields DEF Init
<1>2. PICK g : g = rcvd OBVIOUS
<1>3. g = [n \in Conns |-> <<>>] /\ ready = <<>> BY <1>2 DEF Init
<1>4. NewClient \in Client
  <2>1. <<>> \in Seq(Message) OBVIOUS
  <2>2. QED BY <2>1 DEF NewClient, Client
<1>5. <<Broker>> \in Seq(Events) /\ <<>> \in Seq(Events) BY Names
<1>6. Types(s, <<>>, {}, g)
  <2>1. g \in [Conns -> Seq(Message)]
    <3>1. <<>> \in Seq(Message) OBVIOUS
    <3>2. QED BY <1>3, <3>1
  <2>2. s.cl \in [Clients -> Client] BY <1>1, <1>4
  <2>3. s.posted \in [Conns \cup {Closed} -> Nat] BY <1>1
  <2>4. 0 \in 0 .. MaxClients /\ 0 \in 0 .. MaxConns OBVIOUS
  <2>5. QED BY <1>0, <1>1, <1>5, <2>1, <2>2, <2>3, <2>4, LoopTypes DEF Types
<1>7. \A e : ~In(e, <<>>) BY DEF In
<1>8. \A e : In(e, <<Broker>>) => e = Broker BY DEF In
<1>9. \A c \in Clients : c \in Nat \ {0} /\ c > 0 BY DEF Clients
<1>10. \A c \in Clients : s.cl[c].rfd = None /\ s.cl[c].wfd = None /\ s.cl[c] = NewClient
  BY <1>1 DEF NewClient
<1>11. Sockets(s) BY <1>1, <1>10, Numbers DEF Sockets
<1>12. Known(s, <<>>, {}) BY <1>1, <1>7, <1>8, Names DEF Known, Listed
<1>13. Bits(s) BY <1>1 DEF Bits
<1>14. Missed(s, <<>>, {}) BY <1>10, Numbers DEF Missed
<1>15. Queues(s, g)
  <2>1. \A n \in Conns : g[n] = <<>> /\ s.posted[n] = 0 BY <1>1, <1>3
  <2>2. \A c \in Clients : s.cl[c].wfd \notin s.open BY <1>1
  <2>3. QED BY <2>1, <2>2 DEF Queues
<1>16. Single(s, <<>>, {})
  <2>1. Once(<<Broker>>) /\ Once(<<>>) BY DEF Once
  <2>2. QED BY <1>1, <1>7, <1>10, <2>1 DEF Single
<1>17. AInv(s, <<>>, {}, reused, g)
  BY <1>6, <1>11, <1>12, <1>13, <1>14, <1>15, <1>16 DEF AInv
<1>18. QED BY <1>0, <1>2, <1>3, <1>17 DEF Inv

LEMMA LoopInvariant ==
  ASSUME MaxConns \in Nat, MaxClients \in Nat
  PROVE  Spec => []Inv
<1>1. Init => Inv BY StartHolds
<1>2. Inv /\ [Next]_vars => Inv' BY StepKeeps
<1>3. QED BY <1>1, <1>2, PTL DEF Spec

-----------------------------------------------------------------------------
(* What is posted for a connection arrives in order and without a gap      *)
(* (APIWriter::PostMessage and Run), a connection is in the loop for what  *)
(* it has to read and to write (EventMaster::Schedule), and no event waits *)
(* twice unless the memory of one that was deleted is used again, for any  *)
(* number of clients, connections and messages.                            *)
THEOREM LoopServesAll ==
  ASSUME MaxConns \in Nat, MaxClients \in Nat
  PROVE  Spec => [](OneList /\ NothingMissed /\ InOrder)
<1>1. ASSUME Inv PROVE OneList /\ NothingMissed /\ InOrder
  <2>1. PICK s : s = Loop OBVIOUS
  <2>2. PICK r : r = ready OBVIOUS
  <2>3. PICK u : u = reused OBVIOUS
  <2>4. PICK g : g = rcvd OBVIOUS
  <2>5. AInv(s, r, {}, u, g) BY <1>1, <2>1, <2>2, <2>3, <2>4 DEF Inv
  <2>6. s.reads = reads /\ s.writes = writes /\ s.cl = cl BY <2>1, LoopFields
  <2>7. reads \in Seq(Events) /\ writes \in Seq(Events) /\ ready \in Seq(Events)
    BY <2>2, <2>5, <2>6, Fields DEF AInv
  <2>8. InOrder BY <2>4, <2>5 DEF InOrder, AInv, Queues
  <2>9. NothingMissed
    <3>1. PICK k : k = reads \o ready OBVIOUS
    <3>2. PICK m : m = writes \o ready OBVIOUS
    <3>3. \A e : In(e, k) <=> In(e, reads) \/ In(e, ready) BY <2>7, <3>1, Joined
    <3>4. \A e : In(e, m) <=> In(e, writes) \/ In(e, ready) BY <2>7, <3>2, Joined
    <3>5. QED BY <2>2, <2>5, <2>6, <3>1, <3>2, <3>3, <3>4 DEF NothingMissed, AInv, Missed
  <2>10. ASSUME ~reused PROVE ListedOnce(All)
    <3>1. PICK k : k = reads \o writes OBVIOUS
    <3>2. PICK m : m = k \o ready OBVIOUS
    <3>3. Single(s, r, {}) BY <2>3, <2>5, <2>10 DEF AInv
    <3>4. /\ k \in Seq(Events)
          /\ \A e : In(e, k) <=> In(e, reads) \/ In(e, writes)
          /\ Once(reads) /\ Once(writes) /\ (\A e \in Events : ~(In(e, reads) /\ In(e, writes)))
               => Once(k)
      BY <2>7, <3>1, Joined
    <3>5. Once(k) /\ Once(ready) BY <2>2, <2>6, <3>3, <3>4 DEF Single
    <3>6. \A e \in Events : ~(In(e, k) /\ In(e, ready)) BY <2>2, <2>6, <3>3, <3>4 DEF Single
    <3>7. m \in Seq(Events) /\ Once(m) BY <2>7, <3>2, <3>4, <3>5, <3>6, Joined
    <3>8. ASSUME NEW e \in Events PROVE Cardinality({i \in 1 .. Len(m) : m[i] = e}) <= 1
      <4>1. PICK at : at = {i \in 1 .. Len(m) : m[i] = e} OBVIOUS
      <4>2. CASE at = {} BY <4>1, <4>2, FS_EmptySet
      <4>3. CASE at # {}
        <5>1. PICK i : i \in at BY <4>3
        <5>2. at = {i} BY <3>7, <4>1, <5>1 DEF Once
        <5>3. Cardinality(at) = 1 BY <5>2, FS_Singleton
        <5>4. QED BY <4>1, <5>3
      <4>4. QED BY <4>2, <4>3
    <3>9. All = m BY <3>1, <3>2 DEF All
    <3>10. QED BY <3>8, <3>9 DEF ListedOnce
  <2>11. QED BY <2>8, <2>9, <2>10 DEF OneList
<1>2. Spec => []Inv BY LoopInvariant
<1>3. QED BY <1>1, <1>2, PTL
=============================================================================

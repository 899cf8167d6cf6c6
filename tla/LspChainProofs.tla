--------------------------- MODULE LspChainProofs ----------------------------
(***************************************************************************)
(* What is held and confirmed along a chain of domains: when nothing of a  *)
(* request is under way any more, every domain of its ERO is where the     *)
(* application is.  For every number of domains, every set of requests and *)
(* tags, and every bound of the model.                                     *)
(***************************************************************************)
EXTENDS LspBrokerProofs

-----------------------------------------------------------------------------
(* What is held for a request, and where it stands in each domain.         *)

(* What may go wrong: an RCE finds no path, query holds expire; what may be*)
(* repeated: a request that has failed, a confirmation, a release.         *)
Steady == Faults \subseteq {"again", "repeat", "twice", "noroute", "expire"}

Idle    == {"none", "ERROR"}
Asking  == {"APP_REQ", "REQ_RECURSIVE"}
Leaving == {"leaving", "done"}

Asked       == [kind |-> "asked", tag |-> AnyTag]
Held(t)     == [kind |-> "held", tag |-> t]
Reserved(t) == [kind |-> "reserved", tag |-> t]

(* What the RCE of i holds for g once it has read its messages is in H     *)
(* (Asked: what it finds then).                                            *)
Outcome(m) == IF m.type = "QUERY" THEN Asked ELSE RceNotified(m)
Latest(s, g, k) == s[k].gri = g /\ \A n \in 1 .. Len(s) : n > k => s[n].gri # g
Comes(s, x, g, H) ==
  /\ \A k \in 1 .. Len(s) : Latest(s, g, k) => Outcome(s[k]) \in H
  /\ (\A k \in 1 .. Len(s) : s[k].gri # g) => x \in H
Due(i, g, H) == Comes(Net[<<"toRce", i>>], hold[i][g], g, H)

(* The domains a request has come through wait; those ahead are idle.      *)
Ahead(i, g)  == \A j \in Dom : j < i => q[j][g].st = "ERO_PARTIAL"
Beyond(i, g) == \A j \in Dom : j > i => q[j][g].st \in Idle

(* The LSPQ of g in domain i.                                              *)
Settled(i, g) ==
  LET l == q[i][g]
  IN  /\ l.st \in Idle \cup Released => Due(i, g, {NoHold})
      /\ l.st \in Asking => /\ l.tag = AnyTag
                            /\ l.sug = AnyTag \/ (l.mask # {} /\ l.sug = Min(l.mask))
      /\ l.st = "ERO_PARTIAL" => l.ero = i /\ l.mask # {}
      /\ l.st \in Granted /\ g \in Qconf => Due(i, g, {NoHold, Held(l.tag)})
      /\ l.st = "RESV_CONFIRM" => Due(i, g, {Reserved(app[g].tag)})
      /\ l.st # "none" => IF i = 1 THEN l.sug = AnyTag ELSE l.via # "app"

(* A message of g to NARB i from its client; to its RCE; from its RCE; to  *)
(* its client.                                                             *)
Descends(g, i, m) ==
  /\ m.type \in {"REQUEST", "PEER_REQUEST"} => /\ Ahead(i, g) /\ Beyond(i, g)
                                               /\ q[i][g].st \in Idle
  /\ m.type = "REQUEST" => i = 1
  /\ m.type = "PEER_REQUEST" => i > 1 /\ m.via # "app" /\ m.mask # {} /\ m.tag = Min(m.mask)
  /\ m.type = "CONFIRM" => i <= app[g].ero /\ m.tag = app[g].tag
  /\ m.type = "REMOVE" => i <= app[g].ero /\ app[g].st \in Leaving
Queries(g, i, m) ==
  m.type = "QUERY" => /\ Ahead(i, g) /\ Beyond(i, g) /\ q[i][g].st \in Asking
                      /\ m.mask = q[i][g].mask /\ Due(i, g, {Asked})
Returns(g, i, m) ==
  /\ Ahead(i, g) /\ Beyond(i, g) /\ q[i][g].st \in Asking
  /\ m.type = "ERROR" => Due(i, g, {NoHold})
  /\ m.type = "ERO" => /\ Due(i, g, {NoHold, Held(m.tag)}) /\ m.via # "app"
                       /\ m.mask # {} /\ m.tag = Min(m.mask)
                       /\ q[i][g].mask = {} \/ m.mask \subseteq q[i][g].mask
Ascends(g, i, m) ==
  /\ m.type # "RELEASED" => Ahead(i, g)
  /\ m.type = "ERROR" => Beyond(i, g) /\ q[i][g].st \in Idle
  /\ m.type \in {"ERO", "ID"} =>
       /\ m.ero >= i /\ (g \in Qconf /\ i > 1 => m.type = "ID")
       /\ \A j \in Dom : j >= i =>
            /\ q[j][g].st \in Idle \cup Granted
            /\ j <= m.ero => q[j][g].st \in Granted
            /\ g \in Qconf /\ q[j][g].st \in Granted => q[j][g].tag = m.tag
  /\ m.type = "RELEASED" /\ i = 1 => q[1][g].st \in Released
Travels(g, p, m) ==
  /\ p[1] = "up"      => Descends(g, p[2], m)
  /\ p[1] = "toRce"   => Queries(g, p[2], m)
  /\ p[1] = "fromRce" => Returns(g, p[2], m)
  /\ p[1] = "dn"      => Ascends(g, p[2], m)

(* The domains as the application has left them.                           *)
Standing(g) ==
  LET a == app[g]
  IN  /\ a.st \in {"idle", "failed"} => \A j \in Dom : q[j][g].st \in Idle
      /\ a.st = "granted" => \A j \in Dom :
           /\ q[j][g].st \in Idle \cup Granted
           /\ g \in Qconf /\ q[j][g].st \in Granted => q[j][g].tag = a.tag
      /\ a.st \in {"granted"} \cup Engaged =>
           a.ero >= 1 /\ \A j \in Dom : j <= a.ero => q[j][g].st \in Granted \cup Closed
      /\ a.st = "done" => q[1][g].st \in Released
      /\ \A j \in Dom : q[j][g].st \in Released =>
           /\ a.st \in Leaving
           /\ j < a.ero => \/ q[j + 1][g].st \in Released
                           \/ Has(Net[<<"up", j + 1>>], g, "REMOVE")

Mail(p) == {Net[p][k] : k \in 1 .. Len(Net[p])}
Chained(g) ==
  /\ \A i \in Dom : Settled(i, g)
  /\ \A p \in Places : \A m \in Mail(p) : m.gri = g => Travels(g, p, m)
  /\ Standing(g)
Linked == live = Dom /\ \A i \in Dom : rcli[i] # "stale"

LEMMA LatestExists ==
  ASSUME NEW S, NEW s \in Seq(S), NEW g, NEW k \in 1 .. Len(s), s[k].gri = g
  PROVE  \E n \in 1 .. Len(s) : n >= k /\ Latest(s, g, n)
<1> DEFINE T == {Len(s) - n : n \in {m \in 1 .. Len(s) : s[m].gri = g}}
<1>1. Len(s) \in Nat
  BY LenProperties
<1>2. T \subseteq 0 .. Len(s) /\ Len(s) - k \in T
  BY <1>1
<1>3. IsFiniteSet(0 .. Len(s))
  BY <1>1, FS_Interval
<1>4. T \subseteq Nat /\ T # {} /\ IsFiniteSet(T)
  BY <1>1, <1>2, <1>3, FS_Subset
<1>5. PICK x \in T : \A y \in T : x <= y
  BY <1>4, LeastExists
<1>6. PICK n \in 1 .. Len(s) : x = Len(s) - n /\ s[n].gri = g
  BY <1>5
<1>7. ASSUME NEW m \in 1 .. Len(s), m > n, s[m].gri = g PROVE FALSE
  <2>1. Len(s) - m \in T
    BY <1>7
  <2>2. x <= Len(s) - m
    BY <1>5, <2>1
  <2> QED BY <1>1, <1>6, <1>7, <2>2
<1>8. n >= k
  <2>1. Len(s) - n <= Len(s) - k
    BY <1>2, <1>5, <1>6
  <2> QED BY <1>1, <2>1
<1> QED BY <1>6, <1>7, <1>8 DEF Latest

(* What a posted message, and one that is read, make of what is due.       *)
LEMMA ComesMoved ==
  ASSUME NEW C, NEW r, NEW W, NEW y, Movable(C, r, W, y), NEW p \in Places, NEW g, NEW H, NEW x
  PROVE  LET D == Moved(C, r, W, y)
         IN  /\ p \in W /\ y[p].gri = g /\ Outcome(y[p]) \in H => Comes(D[p], x, g, H)
             /\ (p \in W => y[p].gri # g) /\ (p = r => C[p][1].gri # g) /\ Comes(C[p], x, g, H)
                  => Comes(D[p], x, g, H)
             /\ p = r /\ Comes(C[p], x, g, H) => Comes(D[p], Outcome(C[p][1]), g, H)
                                                 \/ C[p][1].gri # g
<1> DEFINE D == Moved(C, r, W, y)
<1>1. /\ Len(D[p]) \in Nat /\ Len(C[p]) \in Nat
      /\ p = r => /\ Len(D[p]) = Len(C[p]) - 1 /\ Len(C[p]) > 0
                  /\ \A k \in 1 .. Len(D[p]) : D[p][k] = C[p][k + 1]
      /\ p \in W => /\ Len(D[p]) = Len(C[p]) + 1
                    /\ \A k \in 1 .. Len(C[p]) : D[p][k] = C[p][k]
                    /\ D[p][Len(C[p]) + 1] = y[p]
      /\ p # r /\ p \notin W => D[p] = C[p]
  BY MovedAt
<1>2. p = r => p \notin W
  BY DEF Movable
<1> HIDE DEF D
<1>3. ASSUME p \in W, y[p].gri = g, Outcome(y[p]) \in H PROVE Comes(D[p], x, g, H)
  <2>1. Len(C[p]) + 1 \in 1 .. Len(D[p]) /\ D[p][Len(C[p]) + 1].gri = g
    BY <1>1, <1>3
  <2>2. ASSUME NEW k \in 1 .. Len(D[p]), Latest(D[p], g, k) PROVE k = Len(C[p]) + 1
    BY <1>1, <1>3, <2>1, <2>2 DEF Latest
  <2> QED BY <1>1, <1>3, <2>1, <2>2 DEF Comes
<1>4. ASSUME p \in W, y[p].gri # g, Comes(C[p], x, g, H) PROVE Comes(D[p], x, g, H)
  <2>1. \A k \in 1 .. Len(D[p]) : k \in 1 .. Len(C[p]) \/ k = Len(C[p]) + 1
    BY <1>1, <1>4
  <2>2. \A k \in 1 .. Len(C[p]) : k \in 1 .. Len(D[p]) /\ D[p][k] = C[p][k]
    BY <1>1, <1>4
  <2>3. ASSUME NEW k \in 1 .. Len(D[p]), Latest(D[p], g, k) PROVE Outcome(D[p][k]) \in H
    <3>1. k \in 1 .. Len(C[p]) /\ D[p][k] = C[p][k]
      BY <1>1, <1>4, <2>1, <2>2, <2>3 DEF Latest
    <3>2. Latest(C[p], g, k)
      BY <2>2, <2>3, <3>1 DEF Latest
    <3> QED BY <1>4, <3>1, <3>2 DEF Comes
  <2>4. (\A k \in 1 .. Len(D[p]) : D[p][k].gri # g) => x \in H
    BY <1>4, <2>2 DEF Comes
  <2> QED BY <2>3, <2>4 DEF Comes
<1>5. ASSUME p = r PROVE /\ \A k \in 1 .. Len(D[p]) : k + 1 \in 1 .. Len(C[p]) /\ D[p][k] = C[p][k + 1]
                         /\ \A k \in 1 .. Len(C[p]) : k # 1 => k - 1 \in 1 .. Len(D[p])
                                                               /\ D[p][k - 1] = C[p][k]
                         /\ 1 \in 1 .. Len(C[p])
  BY <1>1, <1>5
<1>6. ASSUME p = r, Comes(C[p], x, g, H)
      PROVE  \A k \in 1 .. Len(D[p]) : Latest(D[p], g, k) => Outcome(D[p][k]) \in H
  <2> SUFFICES ASSUME NEW k \in 1 .. Len(D[p]), Latest(D[p], g, k) PROVE Outcome(D[p][k]) \in H
    OBVIOUS
  <2>1. ASSUME NEW n \in 1 .. Len(C[p]), n > k + 1 PROVE C[p][n].gri # g
    <3>1. n # 1 /\ n - 1 > k
      BY <1>1, <2>1
    <3>2. n - 1 \in 1 .. Len(D[p]) /\ D[p][n - 1] = C[p][n]
      BY <1>5, <1>6, <3>1
    <3>3. D[p][n - 1].gri # g
      BY <3>1, <3>2 DEF Latest
    <3> QED BY <3>2, <3>3
  <2>2. Latest(C[p], g, k + 1)
    BY <1>5, <1>6, <2>1 DEF Latest
  <2> QED BY <1>5, <1>6, <2>2 DEF Comes
<1>7. ASSUME p = r, C[p][1].gri # g, Comes(C[p], x, g, H) PROVE Comes(D[p], x, g, H)
  <2>1. ASSUME NEW k \in 1 .. Len(C[p]), C[p][k].gri = g
        PROVE  \E n \in 1 .. Len(D[p]) : D[p][n].gri = g
    BY <1>5, <1>7, <2>1
  <2> QED BY <1>6, <1>7, <2>1 DEF Comes
<1>8. ASSUME p = r, C[p][1].gri = g, Comes(C[p], x, g, H)
      PROVE  Comes(D[p], Outcome(C[p][1]), g, H)
  <2>1. ASSUME \A k \in 1 .. Len(D[p]) : D[p][k].gri # g PROVE Outcome(C[p][1]) \in H
    <3>1. \A n \in 1 .. Len(C[p]) : n > 1 => C[p][n].gri # g
      BY <1>1, <1>5, <1>8, <2>1
    <3> QED BY <1>5, <1>8, <3>1 DEF Latest, Comes
  <2> QED BY <1>6, <1>8, <2>1 DEF Comes
<1> QED BY <1>1, <1>2, <1>3, <1>4, <1>7, <1>8 DEF D

(* A query hold may expire: what is due has room for that.                 *)
Loose(H) == (\E x \in H : x.kind = "held") => NoHold \in H
Keeps(j, g) == \A H : Loose(H) /\ Due(j, g, H) => Due(j, g, H)'

LEMMA LooseSets ==
  ASSUME NEW t
  PROVE  Loose({NoHold}) /\ Loose({NoHold, Held(t)}) /\ Loose({Reserved(t)}) /\ Loose({Asked})
BY DEF Loose, NoHold, Held, Reserved, Asked

LEMMA DueNext ==
  ASSUME NEW j, NEW g, NEW H
  PROVE  Due(j, g, H)' <=> Comes(Net'[<<"toRce", j>>], hold'[j][g], g, H)
BY DEF Due

LEMMA DuePosted ==
  ASSUME NEW r, NEW W, NEW y, Movable(Net, r, W, y), Net' = Moved(Net, r, W, y),
         NEW j \in Dom, NEW g, <<"toRce", j>> \in W, y[<<"toRce", j>>].gri = g,
         NEW H, Outcome(y[<<"toRce", j>>]) \in H
  PROVE  Due(j, g, H)'
<1> DEFINE p == <<"toRce", j>>
<1>1. p \in Places /\ p \in W /\ y[p].gri = g /\ Outcome(y[p]) \in H
  BY NetAt
<1> HIDE DEF p
<1>2. Comes(Net'[p], hold'[j][g], g, H)
  BY <1>1, ComesMoved
<1> QED BY <1>2, DueNext DEF p

LEMMA KeepsMoved ==
  ASSUME NEW r, NEW W, NEW y, Movable(Net, r, W, y), Net' = Moved(Net, r, W, y),
         NEW j \in Dom, NEW g,
         <<"toRce", j>> \in W => y[<<"toRce", j>>].gri # g,
         <<"toRce", j>> = r => Net[<<"toRce", j>>][1].gri # g,
         hold'[j][g] = hold[j][g] \/ (hold[j][g].kind = "held" /\ hold'[j][g] = NoHold)
  PROVE  Keeps(j, g)
<1> DEFINE p == <<"toRce", j>>
<1>1. p \in Places /\ (p \in W => y[p].gri # g) /\ (p = r => Net[p][1].gri # g)
  BY NetAt
<1> SUFFICES ASSUME NEW H, Loose(H), Comes(Net[p], hold[j][g], g, H)
             PROVE  Comes(Net'[p], hold'[j][g], g, H)
  BY DueNext DEF Keeps, Due
<1> HIDE DEF p
<1>2. Comes(Net[p], hold'[j][g], g, H)
  BY DEF Comes, Loose
<1> QED BY <1>1, <1>2, ComesMoved

LEMMA KeepsNotified ==
  ASSUME NEW r, NEW W, NEW y, Movable(Net, r, W, y), Net' = Moved(Net, r, W, y),
         NEW j \in Dom, NEW g, r = <<"toRce", j>>, Net[r][1].gri = g,
         hold'[j][g] = Outcome(Net[r][1])
  PROVE  Keeps(j, g)
<1>1. r \in Places
  BY NetAt
<1> SUFFICES ASSUME NEW H, Comes(Net[r], hold[j][g], g, H)
             PROVE  Comes(Net'[r], hold'[j][g], g, H)
  BY DueNext DEF Keeps, Due
<1>2. Comes(Net'[r], Outcome(Net[r][1]), g, H)
  BY <1>1, ComesMoved
<1> QED BY <1>2

LEMMA DueWider ==
  ASSUME NEW j, NEW g, NEW H, NEW K, H \subseteq K, Due(j, g, H) PROVE Due(j, g, K)
BY DEF Due, Comes

(* The only query that is on the way is the last word to the RCE.          *)
LEMMA DueAnswered ==
  ASSUME NEW r, NEW W, NEW y, Movable(Net, r, W, y), Net' = Moved(Net, r, W, y),
         NEW j \in Dom, NEW g, r = <<"toRce", j>>, OnlyToken(Net, g, r),
         \A k \in 1 .. Len(Net[r]) : Net[r][k].type \in {"QUERY", "UPDATE", "CONFIRM", "DELETE"},
         Due(j, g, {Asked}), NEW H, hold'[j][g] \in H
  PROVE  Due(j, g, H)'
<1>1. r \in Places /\ r[1] = "toRce"
  BY NetAt
<1>2. /\ Len(Net'[r]) = Len(Net[r]) - 1 /\ Len(Net[r]) \in Nat
      /\ \A k \in 1 .. Len(Net'[r]) : Net'[r][k] = Net[r][k + 1]
  <2>1. r \notin W
    BY <1>1 DEF Movable
  <2> QED BY <1>1, <2>1, MovedAt
<1>3. Net[r] \in Seq(Msg)
  BY <1>1 DEF Movable
<1>4. \A k \in 1 .. Len(Net[r]) : Latest(Net[r], g, k) => Outcome(Net[r][k]) = Asked
  BY DEF Due, Comes
<1>5. ASSUME NEW k \in 1 .. Len(Net[r]), k > 1, Net[r][k].gri = g PROVE FALSE
  <2>1. PICK n \in 1 .. Len(Net[r]) : n >= k /\ Latest(Net[r], g, n)
    BY <1>3, <1>5, LatestExists
  <2>2. Outcome(Net[r][n]) = Asked /\ Net[r][n].gri = g
    BY <1>4, <2>1 DEF Latest
  <2>3. Net[r][n].type = "QUERY"
    BY <2>2 DEF Outcome, RceNotified, Asked, NoHold
  <2>4. TokenAt(Net, g, r, n)
    BY <1>1, <2>2, <2>3 DEF TokenAt, Carried
  <2>5. n = 1
    BY <1>1, <2>4 DEF OnlyToken
  <2> QED BY <1>5, <2>1, <2>5
<1>6. \A k \in 1 .. Len(Net'[r]) : Net'[r][k].gri # g
  <2> SUFFICES ASSUME NEW k \in 1 .. Len(Net'[r]), Net'[r][k].gri = g PROVE FALSE
    OBVIOUS
  <2>1. k + 1 \in 1 .. Len(Net[r]) /\ k + 1 > 1 /\ Net'[r][k] = Net[r][k + 1]
    BY <1>2
  <2> QED BY <1>5, <2>1
<1>7. Comes(Net'[r], hold'[j][g], g, H)
  BY <1>6 DEF Comes, Latest
<1> QED BY <1>7, DueNext

-----------------------------------------------------------------------------
(* What a step leaves as it was.                                           *)

(* What is on the way is posted, or it was there behind what is read.      *)
LEMMA MailMoved ==
  ASSUME NEW r, NEW W, NEW y, Movable(Net, r, W, y), Net' = Moved(Net, r, W, y),
         NEW p \in Places, NEW m, m \in Mail(p)'
  PROVE  \/ p \in W /\ m = y[p]
         \/ \E k \in 1 .. Len(Net[p]) : m = Net[p][k] /\ (p = r => k > 1)
<1>1. PICK k \in 1 .. Len(Net'[p]) : m = Net'[p][k]
  BY DEF Mail
<1>2. /\ Len(Net'[p]) \in Nat /\ Len(Net[p]) \in Nat
      /\ p = r => /\ Len(Net'[p]) = Len(Net[p]) - 1 /\ p \notin W
                  /\ \A n \in 1 .. Len(Net'[p]) : Net'[p][n] = Net[p][n + 1]
      /\ p \in W => /\ Len(Net'[p]) = Len(Net[p]) + 1
                    /\ \A n \in 1 .. Len(Net[p]) : Net'[p][n] = Net[p][n]
                    /\ Net'[p][Len(Net[p]) + 1] = y[p]
      /\ p # r /\ p \notin W => Net'[p] = Net[p]
  <2>1. p = r => p \notin W
    BY DEF Movable
  <2> QED BY <2>1, MovedAt, SMTT(20)
<1>3. CASE p = r
  <2>1. k + 1 \in 1 .. Len(Net[p]) /\ k + 1 > 1 /\ m = Net[p][k + 1]
    BY <1>1, <1>2, <1>3
  <2> QED BY <2>1
<1>4. CASE p # r /\ p \in W
  <2>1. k \in 1 .. Len(Net[p]) \/ k = Len(Net[p]) + 1
    BY <1>2, <1>4
  <2> QED BY <1>1, <1>2, <1>4, <2>1
<1>5. CASE p # r /\ p \notin W
  BY <1>1, <1>2, <1>5
<1> QED BY <1>3, <1>4, <1>5

LEMMA SettledStays ==
  ASSUME NEW j \in Dom, NEW g, Settled(j, g), Keeps(j, g), q'[j][g] = q[j][g],
         q[j][g].st = "RESV_CONFIRM" => app'[g].tag = app[g].tag
  PROVE  Settled(j, g)'
<1> DEFINE p == <<"toRce", j>>
<1>1. PICK t : t = q[j][g].tag
  OBVIOUS
<1>2. PICK u : u = app[g].tag
  OBVIOUS
<1>3. \A H : Loose(H) /\ Comes(Net[p], hold[j][g], g, H) => Comes(Net'[p], hold'[j][g], g, H)
  BY DueNext DEF Keeps, Due
<1>4. /\ Comes(Net[p], hold[j][g], g, {NoHold}) => Comes(Net'[p], hold'[j][g], g, {NoHold})
      /\ Comes(Net[p], hold[j][g], g, {NoHold, Held(t)}) => Comes(Net'[p], hold'[j][g], g, {NoHold, Held(t)})
      /\ Comes(Net[p], hold[j][g], g, {Reserved(u)}) => Comes(Net'[p], hold'[j][g], g, {Reserved(u)})
  BY <1>3, LooseSets
<1> HIDE DEF p
<1> QED BY <1>1, <1>2, <1>4 DEF Settled, Due, p

LEMMA TravelsStays ==
  ASSUME NEW p \in Places, NEW g, NEW m, Travels(g, p, m),
         p[1] \in {"toRce", "fromRce"} => Keeps(p[2], g),
         \A j \in Dom : q'[j][g] = q[j][g], app'[g].ero = app[g].ero, app'[g].tag = app[g].tag,
         app[g].st \in Leaving => app'[g].st \in Leaving
  PROVE  Travels(g, p, m)'
<1> DEFINE i == p[2]
<1>1. i \in Dom /\ 1 \in Dom
  BY PlaceIs, OneInDom
<1>2. (Ahead(i, g) => Ahead(i, g)') /\ (Beyond(i, g) => Beyond(i, g)')
  BY DEF Ahead, Beyond
<1>3. Keeps(i, g) => /\ Due(i, g, {NoHold}) => Due(i, g, {NoHold})'
                     /\ Due(i, g, {Asked}) => Due(i, g, {Asked})'
                     /\ Due(i, g, {NoHold, Held(m.tag)}) => Due(i, g, {NoHold, Held(m.tag)})'
  BY LooseSets DEF Keeps
<1> HIDE DEF i
<1>4. q'[i][g] = q[i][g] /\ q'[1][g] = q[1][g]
  BY <1>1
<1>5. CASE p[1] = "up"
  BY <1>2, <1>4, <1>5 DEF Travels, Descends, i
<1>6. CASE p[1] = "toRce"
  BY <1>2, <1>3, <1>4, <1>6 DEF Travels, Queries, i
<1>7. CASE p[1] = "fromRce"
  BY <1>2, <1>3, <1>4, <1>7 DEF Travels, Returns, i
<1>8. CASE p[1] = "dn"
  BY <1>2, <1>4, <1>8 DEF Travels, Ascends, i
<1> QED BY <1>5, <1>6, <1>7, <1>8 DEF Places

(* A step that goes on with a request, a confirmation or a release of g.   *)
LEMMA ChainedMoves ==
  ASSUME NEW r, NEW W, NEW y, Movable(Net, r, W, y), Net' = Moved(Net, r, W, y), NEW g,
         Standing(g)', \A j \in Dom : Settled(j, g)',
         \A p \in W : y[p].gri = g => Travels(g, p, y[p])',
         \A p \in Places : \A k \in 1 .. Len(Net[p]) : \A m :
           m = Net[p][k] /\ m.gri = g /\ (p = r => k > 1) => Travels(g, p, m)'
  PROVE  Chained(g)'
<1>1. ASSUME NEW p \in Places, NEW m, m \in Mail(p)', m.gri = g PROVE Travels(g, p, m)'
  BY <1>1, MailMoved
<1> QED BY <1>1 DEF Chained

(* A step that leaves g where it is.                                       *)
LEMMA ChainedStays ==
  ASSUME Typed, NEW r, NEW W, NEW y, Movable(Net, r, W, y), Net' = Moved(Net, r, W, y),
         NEW g \in Gri, Chained(g), \A p \in W : y[p].gri # g,
         \A j \in Dom : r = <<"up", j>> /\ Net[r][1].gri = g => Net[r][1].type # "REMOVE",
         \A j \in Dom : q'[j][g] = q[j][g] /\ Keeps(j, g), app'[g] = app[g]
  PROVE  Chained(g)'
<1>1. \A j \in Dom : Settled(j, g)'
  BY SettledStays DEF Chained
<1>2. ASSUME NEW p \in Places, NEW k \in 1 .. Len(Net[p]), NEW m, m = Net[p][k], m.gri = g
      PROVE  Travels(g, p, m)'
  <2>1. Travels(g, p, m)
    BY <1>2 DEF Chained, Mail
  <2>2. p[2] \in Dom
    BY PlaceIs
  <2> QED BY <2>1, <2>2, TravelsStays
<1>3. Standing(g)'
  <2>1. ASSUME NEW j \in Dom, q'[j][g].st \in Released, j < app'[g].ero
        PROVE  q'[j + 1][g].st \in Released \/ Has(Net'[<<"up", j + 1>>], g, "REMOVE")
    <3>1. j + 1 \in Dom
      <4>1. app[g].ero \in 0 .. N
        BY DEF Typed, TypeOK, AppView
      <4> QED BY <2>1, <4>1, BrokerAssumption DEF Dom, BrokerAssumption
    <3> DEFINE p == <<"up", j + 1>>
    <3>2. q[j + 1][g].st \in Released \/ Has(Net[p], g, "REMOVE")
      BY <2>1 DEF Chained, Standing
    <3>3. p \in Places /\ (p = r => ~(Net[p][1].gri = g /\ Net[p][1].type = "REMOVE"))
      BY <3>1, NetAt
    <3> HIDE DEF p
    <3>4. Has(Net[p], g, "REMOVE") => Has(Net'[p], g, "REMOVE")
      BY <3>3, HasMoved
    <3> QED BY <3>1, <3>2, <3>4 DEF p
  <2>2. Standing(g)
    BY DEF Chained
  <2>3. 1 \in Dom
    BY OneInDom
  <2> QED BY <2>1, <2>2, <2>3 DEF Standing
<1> QED BY <1>1, <1>2, <1>3, ChainedMoves

LEMMA MailTypes ==
  ASSUME Typed, NEW p \in Places, NEW k \in 1 .. Len(Net[p])
  PROVE  /\ p[1] = "up" => Net[p][k] \in UpMsg
         /\ p[1] = "dn" => Net[p][k] \in DnMsg
         /\ p[1] = "toRce" => Net[p][k] \in RceMsg
         /\ p[1] = "fromRce" => Net[p][k] \in RceReply
<1>1. PICK i \in Dom : p \in {<<"up", i>>, <<"dn", i>>, <<"toRce", i>>, <<"fromRce", i>>}
  BY PlaceIs
<1>2. up[i] \in Seq(UpMsg) /\ dn[i] \in Seq(DnMsg) /\ toRce[i] \in Seq(RceMsg)
      /\ fromRce[i] \in Seq(RceReply)
  BY DEF Typed
<1>3. CASE p = <<"up", i>>
  <2>1. Net[p] = up[i] /\ p[1] = "up"
    BY <1>3, NetAt
  <2> QED BY <1>2, <2>1
<1>4. CASE p = <<"dn", i>>
  <2>1. Net[p] = dn[i] /\ p[1] = "dn"
    BY <1>4, NetAt
  <2> QED BY <1>2, <2>1
<1>5. CASE p = <<"toRce", i>>
  <2>1. Net[p] = toRce[i] /\ p[1] = "toRce"
    BY <1>5, NetAt
  <2> QED BY <1>2, <2>1
<1>6. CASE p = <<"fromRce", i>>
  <2>1. Net[p] = fromRce[i] /\ p[1] = "fromRce"
    BY <1>6, NetAt
  <2> QED BY <1>2, <2>1
<1> QED BY <1>1, <1>3, <1>4, <1>5, <1>6

(* As long as the application waits nothing is closed, and a message that  *)
(* is not the token says nothing of the request.                           *)
LEMMA Aside ==
  ASSUME Typed, NEW g \in Gri, Phased(Net, g), app[g].st \notin Engaged, Chained(g),
         NEW p \in Places, NEW k \in 1 .. Len(Net[p]), NEW m, m = Net[p][k], m.gri = g,
         ~TokenAt(Net, g, p, k)
  PROVE  Travels(g, p, m)'
<1>1. /\ p[1] = "up" => m \in UpMsg
      /\ p[1] = "dn" => m \in DnMsg
      /\ p[1] = "toRce" => m \in RceMsg
      /\ p[1] = "fromRce" => m \in RceReply
  BY MailTypes
<1>2. m.type \notin Carried(p[1])
  BY DEF TokenAt
<1>3. CASE p[1] = "up"
  <2>1. m.type \in {"CONFIRM", "REMOVE"}
    BY <1>1, <1>2, <1>3 DEF UpMsg, Carried
  <2>2. p[2] \in Dom /\ p = <<"up", p[2]>>
    BY <1>3, PlaceIs
  <2>3. Has(Net[<<"up", p[2]>>], g, m.type)
    BY <2>2 DEF Has
  <2> QED BY <2>1, <2>2, <2>3 DEF Phased
<1>4. CASE p[1] = "toRce"
  BY <1>2, <1>4 DEF Travels, Queries, Carried
<1>5. CASE p[1] = "fromRce"
  BY <1>1, <1>2, <1>5 DEF RceReply, Carried
<1>6. CASE p[1] = "dn"
  <2>1. m.type = "RELEASED"
    BY <1>1, <1>2, <1>6 DEF DnMsg, Carried
  <2>2. Ascends(g, p[2], m)
    BY <1>6 DEF Chained, Mail, Travels
  <2>3. p[2] # 1
    <3>1. q[1][g].st \notin Released
      BY OneInDom DEF Phased, Closed, Released
    <3> QED BY <2>1, <2>2, <3>1 DEF Ascends
  <2>4. Ascends(g, p[2], m)'
    BY <2>1, <2>3 DEF Ascends
  <2> QED BY <1>6, <2>4 DEF Travels
<1> QED BY <1>3, <1>4, <1>5, <1>6 DEF Places

LEMMA RequestMoves ==
  ASSUME Typed, NEW r, NEW W, NEW y, Movable(Net, r, W, y), Net' = Moved(Net, r, W, y),
         NEW g \in Gri, Chained(g), Phased(Net, g), OnlyToken(Net, g, r),
         app[g].st = "asked", app'[g] = app[g], NEW i \in Dom,
         \A j \in Dom : j # i => q'[j][g] = q[j][g] /\ Keeps(j, g),
         q'[i][g].st \notin Closed, Settled(i, g)',
         \A p \in W : y[p].gri = g => Travels(g, p, y[p])'
  PROVE  Chained(g)'
<1>1. app[g].st \notin Engaged
  BY DEF Engaged
<1>2. \A j \in Dom : q'[j][g].st \notin Released
  BY <1>1 DEF Phased, Closed, Released
<1>3. Standing(g)'
  BY <1>1, <1>2 DEF Standing, Engaged
<1>4. \A j \in Dom : Settled(j, g)'
  BY SettledStays DEF Chained
<1>5. ASSUME NEW p \in Places, NEW k \in 1 .. Len(Net[p]), NEW m, m = Net[p][k], m.gri = g,
             p = r => k > 1
      PROVE  Travels(g, p, m)'
  <2>1. ~TokenAt(Net, g, p, k)
    BY <1>5 DEF OnlyToken
  <2> QED BY <1>1, <1>5, <2>1, Aside
<1> QED BY <1>3, <1>4, <1>5, ChainedMoves

(* What is known of an event besides: the RCEs take no part in it.         *)
Whole(i, g, r, f) ==
  /\ Event(i, g, r, f)
  /\ UNCHANGED <<hold, live>>
  /\ \A j \in Dom : rcli'[j] = IF j = i THEN f.rcli ELSE rcli[j]

LEMMA EventKeeps ==
  ASSUME NEW i, NEW g, NEW r, NEW f, Whole(i, g, r, f), NEW h \in Gri, NEW j \in Dom,
         h # g \/ j # i \/ f.rce = <<>>
  PROVE  Keeps(j, h)
<1> DEFINE W == OutBox(i, f)
           y == Posts(i, f)
           p == <<"toRce", j>>
<1>1. /\ Movable(Net, r, W, y) /\ Net' = Moved(Net, r, W, y) /\ i \in Dom
      /\ \A x \in W : y[x].gri = g
      /\ hold' = hold
  BY DEF Whole, Event
<1>2. p # r
  BY DEF Whole, Event, Inlets
<1>3. p \in W => j = i /\ f.rce # <<>>
  BY DEF OutBox, Outlet
<1>4. p \in W => y[p].gri # h
  BY <1>1, <1>3
<1> HIDE DEF W, y
<1> QED BY <1>1, <1>2, <1>4, KeepsMoved

LEMMA EventElsewhere ==
  ASSUME Typed, NEW i, NEW g, NEW r, NEW f, Whole(i, g, r, f), NEW h \in Gri, h # g, Chained(h)
  PROVE  Chained(h)'
<1> DEFINE W == OutBox(i, f)
           y == Posts(i, f)
<1>1. /\ Movable(Net, r, W, y) /\ Net' = Moved(Net, r, W, y) /\ Net[r][1].gri # h
      /\ \A x \in W : y[x].gri # h
      /\ \A j \in Dom : q'[j][h] = q[j][h]
      /\ app'[h] = app[h]
  BY DEF Whole, Event
<1>2. \A j \in Dom : Keeps(j, h)
  BY EventKeeps
<1> HIDE DEF W, y
<1> QED BY <1>1, <1>2, ChainedStays

(* A handler that ignores the message, which is not a release.             *)
LEMMA IgnoredEvent ==
  ASSUME Typed, \A h \in Gri : Chained(h), NEW i, NEW g, NEW r, NEW f, Whole(i, g, r, f),
         Blank(f), f.l = q[i][g],
         r = <<"up", i>> => Net[r][1].type # "REMOVE"
  PROVE  \A h \in Gri : Chained(h)'
<1> DEFINE W == OutBox(i, f)
           y == Posts(i, f)
<1>1. /\ Movable(Net, r, W, y) /\ Net' = Moved(Net, r, W, y) /\ g \in Gri
      /\ \A j \in Dom : q'[j][g] = q[j][g]
      /\ app'[g] = app[g]
  BY DEF Whole, Event
<1>2. W = {}
  BY DEF OutBox, Outlet, Blank
<1>3. \A j \in Dom : Keeps(j, g)
  BY <1>1, EventKeeps DEF Blank
<1>4. \A j \in Dom : r = <<"up", j>> => Net[r][1].type # "REMOVE"
  <2>1. \A j \in Dom : r = <<"up", j>> => j = i
    BY DEF Whole, Event, Inlets
  <2> QED BY <2>1
<1> HIDE DEF W, y
<1>5. Chained(g)'
  BY <1>1, <1>2, <1>3, <1>4, ChainedStays
<1> QED BY <1>5, EventElsewhere

LEMMA RequestEvent ==
  ASSUME Typed, Kept, \A h \in Gri : Chained(h), NEW i, NEW g, NEW r, NEW f, Whole(i, g, r, f),
         IsToken(g, r, Net[r][1]), Net[r][1].type # "CONFIRM",
         f.l.st \notin Closed, Settled(i, g)',
         f.peer # <<>> /\ i + 1 \in Dom => Descends(g, i + 1, f.peer[1])',
         f.client # <<>> => Ascends(g, i, f.client[1])',
         f.rce # <<>> => Queries(g, i, f.rce[1])'
  PROVE  \A h \in Gri : Chained(h)'
<1> DEFINE W == OutBox(i, f)
           y == Posts(i, f)
<1>1. /\ Event(i, g, r, f) /\ Movable(Net, r, W, y) /\ Net' = Moved(Net, r, W, y) /\ g \in Gri
      /\ \A j \in Dom : q'[j][g] = IF j = i THEN f.l ELSE q[j][g]
      /\ app'[g] = app[g] /\ i \in Dom
  BY DEF Whole, Event
<1>2. OnlyToken(Net, g, r) /\ app[g].st = "asked" /\ Phased(Net, g)
  BY <1>1, TokenAlone DEF Kept, Orderly
<1>3. ASSUME NEW p \in W PROVE Travels(g, p, y[p])'
  <2>1. /\ p \in Places
        /\ \/ p = <<"up", i + 1>> /\ p[1] = "up" /\ f.peer # <<>> /\ y[p] = f.peer[1]
           \/ p = <<"dn", i>> /\ p[1] = "dn" /\ f.client # <<>> /\ y[p] = f.client[1]
           \/ p = <<"toRce", i>> /\ p[1] = "toRce" /\ f.rce # <<>> /\ y[p] = f.rce[1]
    BY <1>1, <1>3, Outlets
  <2>2. PICK m : m = y[p]
    OBVIOUS
  <2> HIDE DEF W, y
  <2>3. CASE p = <<"up", i + 1>> /\ p[1] = "up" /\ f.peer # <<>> /\ y[p] = f.peer[1]
    <3>1. p[2] = i + 1 /\ i + 1 \in Dom
      BY <2>1, <2>3, PlaceIs
    <3> QED BY <2>3, <3>1 DEF Travels
  <2>4. CASE p = <<"dn", i>> /\ p[1] = "dn" /\ f.client # <<>> /\ y[p] = f.client[1]
    BY <2>4 DEF Travels
  <2>5. CASE p = <<"toRce", i>> /\ p[1] = "toRce" /\ f.rce # <<>> /\ y[p] = f.rce[1]
    BY <2>5 DEF Travels
  <2> QED BY <2>1, <2>3, <2>4, <2>5
<1>4. \A j \in Dom : j # i => q'[j][g] = q[j][g] /\ Keeps(j, g)
  BY <1>1, EventKeeps
<1>5. q'[i][g].st \notin Closed
  BY <1>1
<1> HIDE DEF W, y
<1>6. Chained(g)'
  BY <1>1, <1>2, <1>3, <1>4, <1>5, RequestMoves
<1> QED BY <1>6, EventElsewhere

-----------------------------------------------------------------------------
(* What becomes of a request when a NARB has dealt with its message.       *)

Aimed(i, l) == IF i = 1 THEN l.sug = AnyTag ELSE l.via # "app"

Request(i, g, r, f) ==
  /\ Whole(i, g, r, f)
  /\ IsToken(g, r, Net[r][1]) /\ Net[r][1].type # "CONFIRM"
  /\ f.l.st # "none" => Aimed(i, f.l)

LEMMA DueAfter ==
  ASSUME NEW i, NEW g, NEW r, NEW f, Whole(i, g, r, f), NEW H,
         \/ f.rce = <<>> /\ Loose(H) /\ Due(i, g, H)
         \/ f.rce # <<>> /\ Outcome(f.rce[1]) \in H
  PROVE  Due(i, g, H)'
<1> DEFINE W == OutBox(i, f)
           y == Posts(i, f)
           p == <<"toRce", i>>
<1>1. /\ Movable(Net, r, W, y) /\ Net' = Moved(Net, r, W, y) /\ i \in Dom /\ g \in Gri
      /\ \A x \in W : y[x].gri = g
  BY DEF Whole, Event
<1>2. CASE f.rce = <<>> /\ Loose(H) /\ Due(i, g, H)
  <2>1. Keeps(i, g)
    BY <1>1, <1>2, EventKeeps
  <2> QED BY <1>2, <2>1 DEF Keeps
<1>3. CASE f.rce # <<>> /\ Outcome(f.rce[1]) \in H
  <2>1. p \in Places /\ p[1] = "toRce"
    BY <1>1, NetAt
  <2>2. p \in W
    BY <1>3, <2>1 DEF OutBox, Outlet
  <2>3. y[p] = f.rce[1]
    BY <2>1 DEF Posts
  <2> HIDE DEF W, y
  <2> QED BY <1>1, <1>3, <2>2, <2>3, DuePosted
<1> QED BY <1>2, <1>3

LEMMA Waiting ==
  ASSUME NEW i, NEW g, NEW r, NEW f, Whole(i, g, r, f)
  PROVE  /\ Ahead(i, g) => Ahead(i, g)'
         /\ Beyond(i, g) => Beyond(i, g)'
         /\ i \in Dom /\ i \in Nat /\ g \in Gri /\ q'[i][g] = f.l
         /\ \A j \in Dom : j # i => q'[j][g] = q[j][g]
<1>1. /\ i \in Dom /\ g \in Gri
      /\ \A j \in Dom : q'[j][g] = IF j = i THEN f.l ELSE q[j][g]
  BY DEF Whole, Event
<1>2. i \in Nat /\ \A j \in Dom : j \in Nat
  BY <1>1 DEF Dom
<1> QED BY <1>1, <1>2 DEF Ahead, Beyond

(* It has failed.                                                          *)
LEMMA RequestFails ==
  ASSUME Typed, Kept, \A h \in Gri : Chained(h), NEW i, NEW g, NEW r, NEW f,
         Request(i, g, r, f), Ahead(i, g), Beyond(i, g), f.l.st \in Idle, f.peer = <<>>,
         f.client # <<>> => f.client[1].type = "ERROR",
         \/ f.rce = <<>> /\ Due(i, g, {NoHold})
         \/ f.rce # <<>> /\ f.rce[1].type = "DELETE"
  PROVE  \A h \in Gri : Chained(h)'
<1>1. Whole(i, g, r, f) /\ (f.l.st # "none" => Aimed(i, f.l))
  BY DEF Request
<1>2. Due(i, g, {NoHold})'
  <2>1. f.rce # <<>> => Outcome(f.rce[1]) \in {NoHold}
    BY DEF Outcome, RceNotified
  <2> QED BY <1>1, <2>1, LooseSets, DueAfter
<1>3. Ahead(i, g)' /\ Beyond(i, g)' /\ q'[i][g] = f.l
  BY <1>1, Waiting
<1>4. Settled(i, g)'
  BY <1>1, <1>2, <1>3 DEF Settled, Aimed, Idle, Asking, Granted, Released
<1>5. f.client # <<>> => Ascends(g, i, f.client[1])'
  BY <1>3 DEF Ascends
<1>6. f.l.st \notin Closed
  BY DEF Idle, Closed
<1>7. f.rce # <<>> => Queries(g, i, f.rce[1])'
  BY DEF Queries
<1> QED BY <1>1, <1>4, <1>5, <1>6, <1>7, RequestEvent DEF Request

(* Its RCE is asked.                                                       *)
LEMMA RequestAsks ==
  ASSUME Typed, Kept, \A h \in Gri : Chained(h), NEW i, NEW g, NEW r, NEW f,
         Request(i, g, r, f), Ahead(i, g), Beyond(i, g), f.l.st \in Asking, f.l.tag = AnyTag,
         f.l.sug = AnyTag \/ (f.l.mask # {} /\ f.l.sug = Min(f.l.mask)),
         f.peer = <<>>, f.client = <<>>, f.rce # <<>>, f.rce[1].type = "QUERY",
         f.rce[1].mask = f.l.mask
  PROVE  \A h \in Gri : Chained(h)'
<1>1. Whole(i, g, r, f) /\ (f.l.st # "none" => Aimed(i, f.l))
  BY DEF Request
<1>2. Due(i, g, {Asked})'
  <2>1. Outcome(f.rce[1]) \in {Asked}
    BY DEF Outcome
  <2> QED BY <1>1, <2>1, DueAfter
<1>3. Ahead(i, g)' /\ Beyond(i, g)' /\ q'[i][g] = f.l
  BY <1>1, Waiting
<1>4. Settled(i, g)'
  BY <1>1, <1>3 DEF Settled, Aimed, Idle, Asking, Granted, Released
<1>5. Queries(g, i, f.rce[1])'
  BY <1>2, <1>3 DEF Queries
<1>6. f.l.st \notin Closed
  BY DEF Asking, Closed
<1> QED BY <1>1, <1>4, <1>5, <1>6, RequestEvent DEF Request

(* It goes on to the next domain.                                          *)
Passed(i, h) ==
  /\ h.l.st = "ERO_PARTIAL" /\ h.l.ero = i /\ h.l.mask # {} /\ h.client = <<>> /\ h.rce = <<>>
  /\ h.rcli # "stale"
  /\ \E m : /\ h.peer = <<m>> /\ m.type = "PEER_REQUEST" /\ m.via # "app" /\ m.mask # {}
            /\ m.tag = Min(m.mask)

LEMMA RequestPasses ==
  ASSUME Typed, Kept, \A h \in Gri : Chained(h), NEW i, NEW g, NEW r, NEW f,
         Request(i, g, r, f), Ahead(i, g), Beyond(i, g), Passed(i, f)
  PROVE  \A h \in Gri : Chained(h)'
<1>0. PICK m : f.peer = <<m>> /\ m.type = "PEER_REQUEST" /\ m.via # "app" /\ m.mask # {}
               /\ m.tag = Min(m.mask)
  BY DEF Passed
<1>00. /\ f.l.st = "ERO_PARTIAL" /\ f.l.ero = i /\ f.l.mask # {} /\ f.client = <<>> /\ f.rce = <<>>
  BY DEF Passed
<1>1. Whole(i, g, r, f) /\ (f.l.st # "none" => Aimed(i, f.l))
  BY DEF Request
<1>2. /\ Ahead(i, g)' /\ Beyond(i, g)' /\ q'[i][g] = f.l /\ i \in Nat
      /\ \A j \in Dom : j # i => q'[j][g] = q[j][g]
  BY <1>1, Waiting
<1>3. Settled(i, g)'
  BY <1>00, <1>1, <1>2 DEF Settled, Aimed, Idle, Asking, Granted, Released
<1>4. ASSUME i + 1 \in Dom PROVE Descends(g, i + 1, m)'
  <2>1. \A j \in Dom : j \in Nat
    BY DEF Dom
  <2>2. Ahead(i + 1, g)'
    <3>1. \A j \in Dom : j < i + 1 => j < i \/ j = i
      BY <1>2, <2>1
    <3> QED BY <1>00, <1>2, <3>1 DEF Ahead
  <2>3. Beyond(i + 1, g)' /\ q'[i + 1][g].st \in Idle
    <3>1. \A j \in Dom : j > i + 1 => j > i
      BY <1>2, <2>1
    <3>2. i + 1 > i
      BY <1>2
    <3> QED BY <1>2, <1>4, <3>1, <3>2 DEF Beyond
  <2>4. i + 1 > 1
    BY <1>1, <1>2 DEF Whole, Event, Dom
  <2> QED BY <1>0, <2>2, <2>3, <2>4 DEF Descends
<1>5. f.l.st \notin Closed /\ f.peer[1] = m
  BY <1>0, <1>00 DEF Closed
<1> QED BY <1>00, <1>1, <1>3, <1>4, <1>5, RequestEvent DEF Request

(* Its path is granted, so far.                                            *)
Offers(i, g, f, m) ==
  /\ f.client = <<m>> /\ m.type \in {"ERO", "ID"} /\ m.tag = f.l.tag /\ m.ero >= i
  /\ g \in Qconf /\ i > 1 => m.type = "ID"
  /\ \A j \in Dom : j > i =>
       /\ q[j][g].st \in Idle \cup Granted
       /\ j <= m.ero => q[j][g].st \in Granted
       /\ g \in Qconf /\ q[j][g].st \in Granted => q[j][g].tag = m.tag
LEMMA RequestGrants ==
  ASSUME Typed, Kept, \A h \in Gri : Chained(h), NEW i, NEW g, NEW r, NEW f,
         Request(i, g, r, f), Ahead(i, g), f.l.st \in Granted, f.peer = <<>>,
         NEW m, Offers(i, g, f, m),
         g \in Qconf => \/ f.rce = <<>> /\ Due(i, g, {NoHold, Held(f.l.tag)})
                        \/ f.rce # <<>> /\ f.rce[1].tag = f.l.tag,
         f.rce # <<>> => f.rce[1].type = "UPDATE"
  PROVE  \A h \in Gri : Chained(h)'
<1>1. Whole(i, g, r, f) /\ (f.l.st # "none" => Aimed(i, f.l))
  BY DEF Request
<1>2. /\ Ahead(i, g)' /\ q'[i][g] = f.l /\ i \in Nat /\ i \in Dom
      /\ \A j \in Dom : j # i => q'[j][g] = q[j][g]
  BY <1>1, Waiting
<1>3. g \in Qconf => Due(i, g, {NoHold, Held(f.l.tag)})'
  <2>1. g \in Qconf /\ f.rce # <<>> => Outcome(f.rce[1]) \in {NoHold, Held(f.l.tag)}
    BY DEF Outcome, RceNotified, Held
  <2> QED BY <1>1, <2>1, LooseSets, DueAfter
<1>4. Settled(i, g)'
  BY <1>1, <1>2, <1>3 DEF Settled, Aimed, Idle, Asking, Granted, Released
<1>5. f.client[1] = m /\ f.client # <<>>
  BY DEF Offers
<1>6. Ascends(g, i, m)'
  <2>1. \A j \in Dom : j >= i => j = i \/ j > i
    BY <1>2 DEF Dom
  <2>2. \A j \in Dom : j > i => j # i
    BY <1>2 DEF Dom
  <2> QED BY <1>2, <2>1, <2>2 DEF Ascends, Offers
<1>7. f.l.st \notin Closed /\ (f.rce # <<>> => Queries(g, i, f.rce[1])')
  BY DEF Granted, Closed, Queries
<1> QED BY <1>1, <1>4, <1>5, <1>6, <1>7, RequestEvent DEF Request

-----------------------------------------------------------------------------
(* What the handlers make of a request.                                    *)

Queried(h) ==
  /\ h.l.st \in Asking /\ h.l.tag = AnyTag
  /\ h.l.sug = AnyTag \/ (h.l.mask # {} /\ h.l.sug = Min(h.l.mask))
  /\ h.peer = <<>> /\ h.client = <<>> /\ h.rcli # "stale"
  /\ h.rce # <<>> /\ h.rce[1].type = "QUERY" /\ h.rce[1].mask = h.l.mask
Failed(h) ==
  /\ h.l.st \in Idle /\ h.peer = <<>> /\ h.rcli # "stale"
  /\ h.client # <<>> => h.client[1].type = "ERROR"

LEMMA AsksQueried ==
  ASSUME NEW i \in Dom, NEW g \in Gri, NEW f \in Effects(g), f.l \in Lspq, Blank(f),
         lspb[i] \in Nat, NEW st \in {"APP_REQ", "REQ_RECURSIVE"}, Connected(i, f),
         f.l.tag = AnyTag, f.l.sug = AnyTag \/ (f.l.mask # {} /\ f.l.sug = Min(f.l.mask))
  PROVE  LET h == Asks(i, g, f, st)
         IN  h \in Effects(g) /\ Queried(h) /\ SameAims(f.l, h.l)
<1> DEFINE h == Asks(i, g, f, st)
           m == [type |-> "QUERY", gri |-> g, mask |-> f.l.mask, tag |-> AnyTag, lspb |-> lspb[i]]
<1>1. /\ h \in Effects(g) /\ SameAims(f.l, h.l) /\ h.l.st = st /\ h.peer = <<>>
      /\ h.client = <<>> /\ h.rcli # "stale" /\ h.rce = <<m>>
  BY AsksProceeds DEF Proceeds
<1>2. m.type = "QUERY" /\ m.mask = f.l.mask /\ <<m>>[1] = m /\ <<m>> # <<>>
  OBVIOUS
<1> HIDE DEF m, h
<1>3. h.rce # <<>> /\ h.rce[1] = m
  BY <1>1, <1>2
<1> QED BY <1>1, <1>2, <1>3 DEF Queried, SameAims, Asking, h

LEMMA AppRequestOutcome ==
  ASSUME NEW i \in Dom, NEW g \in Gri, NEW f \in Effects(g), Blank(f), lspb[i] \in Nat,
         Connected(i, f), f.l.st \in Idle, f.l.st # "none" => f.l.sug = AnyTag
  PROVE  LET h == AppRequest(i, g, f)
         IN  /\ h.l.sug = AnyTag
             /\ Queried(h) \/ (Failed(h) /\ h.rce = <<>>)
<1> DEFINE h == AppRequest(i, g, f)
           n == [f EXCEPT !.l = NewLspq]
           s == [f EXCEPT !.l.tag = AnyTag, !.l.mask = {}]
           t == [s EXCEPT !.l.retran = @ - 1]
<1>1. ASSUME NEW e \in Effects(g), e.l \in Lspq, Blank(e), e.rcli = f.rcli, e.l.tag = AnyTag,
             e.l.sug = AnyTag
      PROVE  /\ HandleLSPQRequest(i, g, e).l.sug = AnyTag /\ Queried(HandleLSPQRequest(i, g, e))
             /\ e.l.st = "ERROR" => /\ HandleErrorCode(i, g, e).l.sug = AnyTag
                                    /\ Failed(HandleErrorCode(i, g, e))
                                    /\ HandleErrorCode(i, g, e).rce = <<>>
  <2>1. HandleLSPQRequest(i, g, e) = Asks(i, g, e, "APP_REQ")
    BY DEF HandleLSPQRequest, Asks
  <2>2. Connected(i, e)
    BY <1>1 DEF Connected
  <2>3. Queried(HandleLSPQRequest(i, g, e)) /\ SameAims(e.l, HandleLSPQRequest(i, g, e).l)
    BY <1>1, <2>1, <2>2, AsksQueried
  <2>4. PICK x : x = HandleErrorCode(i, g, e)
    OBVIOUS
  <2>5. e.l.st = "ERROR" => SameAims(e.l, x.l) /\ Failed(x) /\ x.rce = <<>>
    BY <1>1, <2>2, <2>4, ErrorCode DEF Blank, Failed, Idle
  <2> QED BY <1>1, <2>3, <2>4, <2>5 DEF SameAims
<1>2. CASE f.l.st = "none"
  <2>1. h = HandleLSPQRequest(i, g, n)
    BY <1>2 DEF AppRequest, Granted
  <2>2. n \in Effects(g) /\ n.l \in Lspq /\ Blank(n) /\ n.rcli = f.rcli /\ n.l.tag = AnyTag
        /\ n.l.sug = AnyTag
    BY BrokerAssumption DEF Effects, NewLspq, Lspq, States, Blank, BrokerAssumption, AnyTag
  <2> QED BY <1>1, <2>1, <2>2
<1>3. CASE f.l.st = "ERROR"
  <2>1. f.l \in Lspq
    BY <1>3 DEF Effects, NoLspq
  <2>2. s \in Effects(g) /\ s.l \in Lspq /\ Blank(s) /\ s.rcli = f.rcli /\ s.l.st = f.l.st
        /\ s.l.retran = f.l.retran /\ s.l.tag = AnyTag /\ s.l.sug = AnyTag
    BY <1>3, <2>1 DEF Effects, Lspq, Blank, AnyTag
  <2>3. CASE f.l.retran > 0
    <3>1. f.l.retran - 1 \in 0 .. MaxRetran
      BY <2>1, <2>3, BrokerAssumption DEF Lspq, BrokerAssumption
    <3>2. t \in Effects(g) /\ t.l \in Lspq /\ Blank(t) /\ t.rcli = f.rcli /\ t.l.tag = AnyTag
          /\ t.l.sug = AnyTag
      BY <2>2, <3>1 DEF Effects, Lspq, Blank
    <3>3. h = HandleLSPQRequest(i, g, t)
      BY <1>3, <2>3 DEF AppRequest, Granted
    <3> QED BY <1>1, <3>2, <3>3
  <2>4. CASE ~(f.l.retran > 0)
    <3>1. h = HandleErrorCode(i, g, s)
      BY <1>3, <2>4 DEF AppRequest, Granted
    <3> QED BY <1>1, <1>3, <2>2, <3>1
  <2> QED BY <2>3, <2>4
<1> QED BY <1>2, <1>3 DEF Idle

LEMMA PeerRequestOutcome ==
  ASSUME NEW i \in Dom, NEW g \in Gri, NEW f \in Effects(g), Blank(f), lspb[i] \in Nat,
         Connected(i, f), f.l.st \in Idle, NEW m \in UpMsg, m.mask # {}, m.tag = Min(m.mask),
         m.via # "app"
  PROVE  LET h == PeerRequest(i, g, f, m)
         IN  \/ Queried(h) /\ h.l.via # "app"
             \/ Failed(h) /\ h.rce = <<>> /\ h.l = f.l
<1> DEFINE h == PeerRequest(i, g, f, m)
           old == IF f.l.st = "none" THEN NewLspq ELSE f.l
           l == [old EXCEPT !.tag = AnyTag, !.mask = m.mask, !.sug = m.tag,
                            !.via = m.via, !.prev = m.lspb]
           e == [f EXCEPT !.l = l]
           w == [NewLspq EXCEPT !.prev = m.lspb]
           a == Answer("ERROR", g, w)
<1>1. NewLspq \in Lspq /\ (f.l.st # "none" => f.l \in Lspq)
  BY BrokerAssumption DEF NewLspq, Lspq, States, BrokerAssumption, AnyTag, Effects, NoLspq
<1>2. CASE PingPong(f.l, m)
  <2>1. h = Reply(f, a)
    BY <1>2 DEF PeerRequest
  <2>2. w \in Lspq
    BY <1>1 DEF UpMsg, Lspq
  <2>3. a \in Of(DnMsg, g) /\ a.type = "ERROR"
    BY <2>2, AnswerType
  <2> HIDE DEF a
  <2>4. OnlyReply(f, h) /\ h.client = <<a>>
    BY <2>1, <2>3, ReplyEffect DEF Blank
  <2>5. h.client[1].type = "ERROR"
    BY <2>3, <2>4
  <2> HIDE DEF h
  <2>6. Failed(h) /\ h.rce = <<>> /\ h.l = f.l
    BY <2>4, <2>5 DEF OnlyReply, Blank, Failed, Connected
  <2> QED BY <2>6 DEF h
<1>3. CASE ~PingPong(f.l, m)
  <2>1. h = HandleRecursiveRequest(i, g, e)
    BY <1>3 DEF PeerRequest
  <2>2. old \in Lspq
    BY <1>1
  <2> HIDE DEF old
  <2>3. l \in Lspq /\ l.tag = AnyTag /\ l.mask = m.mask /\ l.sug = m.tag /\ l.via = m.via
    BY <2>2 DEF UpMsg, Lspq, AnyTag
  <2> HIDE DEF l
  <2>4. e \in Effects(g) /\ e.l = l /\ Blank(e) /\ e.rcli = f.rcli
    BY <2>3 DEF Effects, Blank
  <2> HIDE DEF e
  <2>5. Connected(i, e)
    BY <2>4 DEF Connected
  <2>6. h = Asks(i, g, e, "REQ_RECURSIVE")
    BY <2>1 DEF HandleRecursiveRequest, Asks
  <2>7. Queried(h) /\ SameAims(e.l, h.l)
    BY <2>3, <2>4, <2>5, <2>6, AsksQueried
  <2> QED BY <2>3, <2>4, <2>7 DEF SameAims
<1> QED BY <1>2, <1>3

(* The RCE has picked the least tag of a mask; so has the domain before.   *)
LEMMA ChosenIsLeast ==
  ASSUME NEW l \in Lspq, NEW r \in RceReply, r.mask # {}, r.tag = Min(r.mask), l.tag = AnyTag,
         l.mask = {} \/ r.mask \subseteq l.mask,
         l.sug = AnyTag \/ (l.mask # {} /\ l.sug = Min(l.mask))
  PROVE  Chosen(l, r) = r.tag
<1>1. /\ r.mask \in SUBSET Tags /\ l.mask \in SUBSET Tags /\ Tags \subseteq Nat \ {0}
  BY BrokerAssumption DEF RceReply, Lspq, BrokerAssumption
<1>2. CASE l.sug \in r.mask
  <2>1. l.sug # AnyTag
    BY <1>1, <1>2 DEF AnyTag
  <2>2. r.mask \subseteq l.mask /\ l.sug = Min(l.mask) /\ l.mask # {}
    BY <2>1
  <2>3. /\ Min(r.mask) \in r.mask /\ \A t \in r.mask : Min(r.mask) <= t
        /\ \A t \in l.mask : Min(l.mask) <= t
    BY <1>1, <2>2, MaskLeast
  <2>4. r.tag <= l.sug /\ l.sug <= r.tag /\ r.tag \in Nat /\ l.sug \in Nat
    BY <1>1, <1>2, <2>2, <2>3
  <2>5. l.sug = r.tag
    BY <2>4
  <2> QED BY <1>2, <2>5 DEF Chosen
<1>3. CASE l.sug \notin r.mask
  BY <1>3 DEF Chosen
<1> QED BY <1>2, <1>3

(* Its path is granted as far as e.                                        *)
Grants(i, g, h, e) ==
  /\ h.l.st \in Granted /\ h.peer = <<>> /\ h.rcli # "stale"
  /\ \E m : /\ h.client = <<m>> /\ m.type \in {"ERO", "ID"} /\ m.tag = h.l.tag /\ m.ero = e
            /\ g \in Qconf /\ h.l.via # "app" => m.type = "ID"

LEMMA CompleteGrants ==
  ASSUME NEW i, NEW g \in Gri, NEW f \in Effects(g), f.l \in Lspq, f.client = <<>>, f.peer = <<>>,
         f.rce # <<>> => f.rce[1].type # "QUERY", f.rcli # "stale",
         NEW h, \/ h = HandleCompleteERO(g, f) /\ g \notin Qconf
                \/ h = HandleCompleteEROWithConfirmationID(g, f)
  PROVE  Grants(i, g, h, f.l.ero) /\ SameAims(f.l, h.l) /\ h.rce = f.rce
<1>1. PICK st \in {"ERO_COMPLETE", "WITH_ID"}, type \in {"ERO", "ID"} :
                      /\ h = Reply(State(f, st), Answer(type, g, f.l))
                      /\ g \in Qconf /\ f.l.via # "app" => type = "ID"
  BY DEF HandleCompleteERO, HandleCompleteEROWithConfirmationID
<1>2. st \in States \ Closed
  BY <1>1 DEF States, Closed
<1> DEFINE a == Answer(type, g, f.l)
<1>3. /\ h.peer = <<>> /\ SameAims(f.l, h.l) /\ h.l.st = st /\ h.client = <<a>>
      /\ h.rce = f.rce /\ h.rcli = f.rcli
  <2>1. h = Reply(State(f, st), Answer(type, g, f.l))
    BY <1>1
  <2> QED BY <1>2, <2>1, EROAnswered
<1>4. a.type = type /\ a.tag = f.l.tag /\ a.ero = f.l.ero
  BY DEF Answer
<1> HIDE DEF a
<1> QED BY <1>1, <1>3, <1>4 DEF Grants, SameAims, Granted

LEMMA RceReplyOutcome ==
  ASSUME NEW i \in Dom, NEW g \in Gri, NEW f \in Effects(g), f.l \in Lspq, Blank(f),
         lspb[i] \in Nat, Connected(i, f), f.l.st \in Asking, f.l.tag = AnyTag,
         f.l.sug = AnyTag \/ (f.l.mask # {} /\ f.l.sug = Min(f.l.mask)),
         NEW r \in RceReply,
         r.type = "ERO" => /\ r.via # "app" /\ r.mask # {} /\ r.tag = Min(r.mask)
                           /\ f.l.mask = {} \/ r.mask \subseteq f.l.mask
  PROVE  LET h == HandleRCEReply(i, g, f, r, TRUE)
         IN  /\ h.l.sug = f.l.sug /\ h.l.via = f.l.via /\ h.rce = <<>>
             /\ r.type = "ERROR" => Failed(h)
             /\ r.type = "ERO" => \/ Passed(i, h)
                                  \/ Grants(i, g, h, i) /\ h.l.tag = r.tag
<1> DEFINE h == HandleRCEReply(i, g, f, r, TRUE)
           s == [State(f, "RCE_REPLY") EXCEPT !.l.mask = r.mask]
           e == [s EXCEPT !.l.tag = Chosen(f.l, r), !.l.ero = i]
           p == State(e, "ERO_PARTIAL")
<1>1. ~Dropped(f.l)
  BY DEF Dropped, Closed, Asking
<1>2. State(f, "RCE_REPLY") \in Effects(g) /\ OnlySt(f, State(f, "RCE_REPLY"))
      /\ State(f, "RCE_REPLY").l.st = "RCE_REPLY"
  BY StateEffect DEF States
<1>3. /\ s \in Effects(g) /\ s.l \in Lspq /\ Blank(s) /\ s.l.st = "RCE_REPLY" /\ s.rcli = f.rcli
      /\ s.l.sug = f.l.sug /\ s.l.via = f.l.via /\ s.l.mask = r.mask
  BY <1>2 DEF Effects, Lspq, OnlySt, OnlyLspq, SameAims, Blank, RceReply
<1>4. CASE r.type = "ERROR"
  <2>1. h = HandleErrorCode(i, g, s)
    BY <1>1, <1>4 DEF HandleRCEReply
  <2> HIDE DEF s, h
  <2>2. /\ h.peer = <<>> /\ h.l.st = "ERROR" /\ h.client[1].type = "ERROR" /\ h.rce = <<>>
        /\ SameAims(s.l, h.l) /\ h.rcli # "stale"
    BY <1>3, <2>1, ErrorCode DEF Blank, Connected
  <2> QED BY <1>3, <1>4, <2>2 DEF SameAims, Failed, Idle, h
<1>5. CASE r.type # "ERROR"
  <2>0. r.type = "ERO" /\ Chosen(f.l, r) = r.tag
    BY <1>5, ChosenIsLeast DEF RceReply
  <2>1. r.tag \in Tags \cup {AnyTag} /\ i \in 0 .. N
    BY BrokerAssumption DEF RceReply, Dom, BrokerAssumption
  <2>2. /\ e \in Effects(g) /\ e.l \in Lspq /\ Blank(e) /\ e.rcli = f.rcli /\ e.l.ero = i
        /\ e.l.sug = f.l.sug /\ e.l.via = f.l.via /\ e.l.mask = r.mask /\ e.l.tag = r.tag
    BY <1>3, <2>0, <2>1 DEF Effects, Lspq, Blank
  <2>3. CASE i < app[g].dest
    <3>1. h = HandlePartialERO(i, g, e, r.via, TRUE)
      BY <1>1, <1>5, <2>3 DEF HandleRCEReply
    <3> HIDE DEF e
    <3>2. p \in Effects(g) /\ OnlySt(e, p) /\ p.l.st = "ERO_PARTIAL" /\ Blank(p)
      BY <2>2, StateEffect DEF States, OnlySt, OnlyLspq, Blank
    <3> DEFINE m == [type |-> "PEER_REQUEST", gri |-> g, via |-> r.via, mask |-> p.l.mask,
                     tag |-> p.l.tag, lspb |-> lspb[i], ero |-> 0]
    <3>3. h = [p EXCEPT !.conn = TRUE, !.peer = Append(@, m)]
      BY <3>1 DEF HandlePartialERO
    <3>4. m.type = "PEER_REQUEST" /\ m.via = r.via /\ m.mask = p.l.mask /\ m.tag = p.l.tag
      OBVIOUS
    <3> HIDE DEF p, m, h
    <3>5. Append(p.peer, m) = <<m>>
      BY <3>2 DEF Blank
    <3>6. /\ h.l = p.l /\ h.client = <<>> /\ h.rce = <<>> /\ h.rcli = p.rcli /\ h.peer = <<m>>
      BY <3>2, <3>3, <3>5 DEF Effects, Blank
    <3>7. Passed(i, h)
      BY <2>0, <2>2, <3>2, <3>4, <3>6 DEF Passed, OnlySt, OnlyLspq, SameAims, Connected
    <3>8. h.l.sug = f.l.sug /\ h.l.via = f.l.via
      BY <2>2, <3>2, <3>6 DEF OnlySt, SameAims
    <3> QED BY <1>5, <3>6, <3>7, <3>8 DEF h
  <2>4. CASE ~(i < app[g].dest)
    <3>1. \/ h = HandleCompleteERO(g, e) /\ g \notin Qconf
          \/ h = HandleCompleteEROWithConfirmationID(g, e)
      BY <1>1, <1>5, <2>4 DEF HandleRCEReply
    <3> HIDE DEF e, h
    <3>2. e.rcli # "stale"
      BY <2>2 DEF Connected
    <3>3. Grants(i, g, h, e.l.ero) /\ SameAims(e.l, h.l) /\ h.rce = e.rce
      BY <2>2, <3>1, <3>2, CompleteGrants DEF Blank
    <3>4. Grants(i, g, h, i) /\ h.rce = <<>> /\ h.l.sug = f.l.sug /\ h.l.via = f.l.via
          /\ h.l.tag = r.tag
      BY <2>2, <3>3 DEF SameAims, Blank
    <3> QED BY <1>5, <3>4 DEF h
  <2> QED BY <2>3, <2>4
<1> QED BY <1>4, <1>5

LEMMA PeerReplyOutcome ==
  ASSUME NEW i \in Dom, NEW g \in Gri, NEW f \in Effects(g), f.l \in Lspq, Blank(f),
         Connected(i, f), f.l.st = "ERO_PARTIAL", f.l.ero = i, f.l.mask # {},
         NEW r \in DnMsg, r.type # "RELEASED", r.type = "ERO" => g \notin Qconf
  PROVE  LET h == HandleNextHopNARBReply(i, g, f, r, TRUE)
         IN  /\ h.l.sug = f.l.sug /\ h.l.via = f.l.via
             /\ r.type = "ERROR" =>
                  \/ Failed(h) /\ h.rce # <<>> /\ h.rce[1].type = "DELETE"
                  \/ Grants(i, g, h, i) /\ g \notin Qconf /\ h.rce = <<>>
             /\ r.type = "ERO" => Grants(i, g, h, r.ero) /\ h.l.tag = r.tag /\ h.rce = <<>>
             /\ r.type = "ID" => /\ Grants(i, g, h, i) /\ h.l.tag = r.tag
                                 /\ h.rce # <<>> /\ h.rce[1].type = "UPDATE"
                                 /\ h.rce[1].tag = r.tag
<1> DEFINE h == HandleNextHopNARBReply(i, g, f, r, TRUE)
           s == State(f, "NEXT_HOP_NARB_REPLY")
           m(x) == [x EXCEPT !.l.mask = r.mask]
           t == [m(s) EXCEPT !.l.tag = r.tag]
           e == [t EXCEPT !.l.ero = r.ero]
           u == Updated(i, g, s, r)
<1>1. /\ s \in Effects(g) /\ OnlySt(f, s) /\ s.l \in Lspq /\ Blank(s) /\ s.rcli = f.rcli
      /\ s.l.st = "NEXT_HOP_NARB_REPLY"
  BY StateEffect DEF States, OnlySt, OnlyLspq, Blank
<1>2. s.l.ero = i /\ s.l.mask # {} /\ s.l.sug = f.l.sug /\ s.l.via = f.l.via
  BY <1>1 DEF OnlySt, SameAims
<1>0. i # 0 /\ s.rcli # "stale" /\ Connected(i, s)
  BY <1>1 DEF Dom, Connected
<1> HIDE DEF s
<1>3. /\ m(s) \in Effects(g) /\ m(s).l \in Lspq /\ Blank(m(s)) /\ m(s).rcli = s.rcli
      /\ m(s).l.st = s.l.st /\ m(s).l.ero = i /\ m(s).l.sug = f.l.sug /\ m(s).l.via = f.l.via
  BY <1>1, <1>2 DEF Effects, Lspq, Blank, DnMsg
<1>4. CASE r.type = "ERROR"
  <2> DEFINE a == m(s)
  <2>1. h = CannotExpand(i, g, a)
    BY <1>4 DEF HandleNextHopNARBReply, s
  <2>2. a \in Effects(g) /\ a.l \in Lspq /\ Blank(a) /\ a.rcli # "stale" /\ Connected(i, a)
        /\ a.l.st = "NEXT_HOP_NARB_REPLY" /\ a.l.ero = i /\ a.l.sug = f.l.sug /\ a.l.via = f.l.via
    BY <1>0, <1>1, <1>3 DEF Connected
  <2> HIDE DEF a, h
  <2>3. CASE Fallback /\ g \notin Qconf
    <3>1. h = HandleCompleteERO(g, a)
      BY <2>1, <2>3 DEF CannotExpand
    <3>2. Grants(i, g, h, a.l.ero) /\ SameAims(a.l, h.l) /\ h.rce = a.rce
      BY <2>2, <2>3, <3>1, CompleteGrants DEF Blank
    <3>3. Grants(i, g, h, i) /\ h.rce = <<>> /\ h.l.sug = f.l.sug /\ h.l.via = f.l.via
      BY <2>2, <3>2 DEF SameAims, Blank
    <3> QED BY <1>4, <2>3, <3>3 DEF h
  <2>4. CASE ~(Fallback /\ g \notin Qconf)
    <3>1. h = HandleErrorCode(i, g, a)
      BY <2>1, <2>4 DEF CannotExpand
    <3>2. /\ h.peer = <<>> /\ SameAims(a.l, h.l) /\ h.l.st = "ERROR" /\ h.client[1].type = "ERROR"
          /\ h.rce # <<>> /\ h.rce[1].type = "DELETE" /\ h.rcli # "stale"
      BY <1>0, <2>2, <3>1, ErrorCode DEF Blank
    <3>3. Failed(h) /\ h.l.sug = f.l.sug /\ h.l.via = f.l.via
      BY <2>2, <3>2 DEF SameAims, Failed, Idle
    <3> QED BY <1>4, <3>2, <3>3 DEF h
  <2> QED BY <2>3, <2>4
<1>5. CASE r.type = "ERO"
  <2>1. h = HandleCompleteERO(g, e)
    BY <1>0, <1>5 DEF HandleNextHopNARBReply, s
  <2>2. /\ t \in Effects(g) /\ t.l \in Lspq /\ Blank(t) /\ t.rcli = s.rcli
        /\ t.l.tag = r.tag /\ t.l.sug = f.l.sug /\ t.l.via = f.l.via
    BY <1>1, <1>2 DEF Effects, Lspq, Blank, DnMsg
  <2> HIDE DEF t
  <2>3. /\ e \in Effects(g) /\ e.l \in Lspq /\ Blank(e) /\ e.rcli = s.rcli /\ e.l.ero = r.ero
        /\ e.l.tag = r.tag /\ e.l.sug = f.l.sug /\ e.l.via = f.l.via
    BY <2>2 DEF Effects, Lspq, Blank, DnMsg
  <2> HIDE DEF e, h
  <2>4. Grants(i, g, h, e.l.ero) /\ SameAims(e.l, h.l) /\ h.rce = e.rce
    BY <1>0, <1>5, <2>1, <2>3, CompleteGrants DEF Blank
  <2>5. Grants(i, g, h, r.ero) /\ h.l.tag = r.tag /\ h.rce = <<>> /\ h.l.sug = f.l.sug
        /\ h.l.via = f.l.via
    BY <2>3, <2>4 DEF SameAims, Blank
  <2> QED BY <1>5, <2>5 DEF h
<1>6. CASE r.type = "ID"
  <2> DEFINE n == [type |-> "UPDATE", gri |-> g, mask |-> {}, tag |-> r.tag, lspb |-> 0]
             a == m(u)
  <2>1. h = HandleCompleteEROWithConfirmationID(g, a)
    BY <1>6 DEF HandleNextHopNARBReply, s
  <2>2. n.type = "UPDATE" /\ n.tag = r.tag /\ <<n>>[1] = n /\ <<n>> # <<>>
    OBVIOUS
  <2>3. /\ u \in Effects(g) /\ u.l = [s.l EXCEPT !.tag = r.tag]
        /\ u.peer = <<>> /\ u.client = <<>> /\ u.rce = <<n>> /\ u.rcli # "stale"
    BY <1>0, <1>1, <1>2, UpdatedEffect
  <2> HIDE DEF u, n
  <2>4. u.l \in Lspq /\ u.l.tag = r.tag /\ u.l.ero = i /\ u.l.sug = f.l.sug /\ u.l.via = f.l.via
    BY <1>1, <1>2, <2>3 DEF Lspq, DnMsg
  <2>5. /\ a \in Effects(g) /\ a.l \in Lspq /\ a.peer = <<>> /\ a.client = <<>> /\ a.rce = <<n>>
        /\ a.rcli # "stale" /\ a.l.tag = r.tag /\ a.l.ero = i /\ a.l.sug = f.l.sug
        /\ a.l.via = f.l.via
    BY <2>3, <2>4 DEF Effects, Lspq, DnMsg
  <2> HIDE DEF a, h
  <2>6. a.rce # <<>> /\ a.rce[1].type = "UPDATE" /\ a.rce[1].tag = r.tag
    BY <2>2, <2>5
  <2>7. Grants(i, g, h, a.l.ero) /\ SameAims(a.l, h.l) /\ h.rce = a.rce
    BY <2>1, <2>5, <2>6, CompleteGrants
  <2>8. Grants(i, g, h, i) /\ h.l.tag = r.tag /\ h.l.sug = f.l.sug /\ h.l.via = f.l.via
    BY <2>5, <2>7 DEF SameAims
  <2> QED BY <1>6, <2>6, <2>7, <2>8 DEF h
<1> QED BY <1>4, <1>5, <1>6 DEF DnMsg

-----------------------------------------------------------------------------
(* A NARB reads a request, or an answer to one.                            *)

LEMMA HeadTravels ==
  ASSUME NEW r \in Places, Net[r] \in Seq(Msg), Net[r] # <<>>, NEW g, Chained(g), Net[r][1].gri = g
  PROVE  Travels(g, r, Net[r][1])
<1>1. 1 \in 1 .. Len(Net[r])
  BY EmptySeq, LenProperties
<1> QED BY <1>1 DEF Chained, Mail

LEMMA ReadRequestChained ==
  ASSUME Typed, Kept, Linked, \A h \in Gri : Chained(h), NEW i \in Dom, NEW g \in Gri,
         NEW m \in UpMsg, m = Net[<<"up", i>>][1], m.type \in {"REQUEST", "PEER_REQUEST"},
         NEW f, f = Handled(i, m, Stay(i, q[i][g]), TRUE), Whole(i, g, <<"up", i>>, f)
  PROVE  (\A h \in Gri : Chained(h)') /\ f.rcli # "stale"
<1> DEFINE r == <<"up", i>>
           s == Stay(i, q[i][g])
<1>1. /\ r \in Places /\ r[1] = "up" /\ r[2] = i /\ m.gri = g /\ Net[r] \in Seq(Msg)
      /\ Net[r] # <<>>
  BY DEF Whole, Event, Movable
<1>2. Descends(g, i, m)
  <2>1. Travels(g, r, m)
    BY <1>1, HeadTravels
  <2> HIDE DEF r
  <2> QED BY <1>1, <2>1 DEF Travels
<1>3. Ahead(i, g) /\ Beyond(i, g) /\ q[i][g].st \in Idle
  BY <1>2 DEF Descends
<1>4. /\ s \in Effects(g) /\ Blank(s) /\ s.l = q[i][g] /\ s.rcli = rcli[i] /\ lspb[i] \in Nat
  <2>1. s.rcli = rcli[i]
    BY DEF Stay
  <2> QED BY <2>1, StayEffect DEF Typed
<1>5. Connected(i, s)
  BY <1>4 DEF Connected, Linked
<1>6. /\ Due(i, g, {NoHold})
      /\ q[i][g].st # "none" => Aimed(i, q[i][g])
  BY <1>3 DEF Chained, Settled, Aimed
<1>7. f.l.st \in Idle /\ f.rcli # "stale" /\ Failed(f) => f.peer = <<>> /\ (f.client # <<>> => f.client[1].type = "ERROR")
  BY DEF Failed
<1>8. ASSUME f.l.st # "none" => Aimed(i, f.l), Queried(f) \/ (Failed(f) /\ f.rce = <<>>)
      PROVE  (\A h \in Gri : Chained(h)') /\ f.rcli # "stale"
  <2>1. Request(i, g, r, f)
    <3>1. IsToken(g, r, m) /\ m.type # "CONFIRM"
      BY <1>1 DEF IsToken, Carried
    <3> QED BY <1>8, <3>1 DEF Request
  <2> HIDE DEF r
  <2>2. CASE Queried(f)
    BY <1>3, <2>1, <2>2, RequestAsks DEF Queried
  <2>3. CASE Failed(f) /\ f.rce = <<>>
    BY <1>3, <1>6, <2>1, <2>3, RequestFails DEF Failed
  <2> QED BY <1>8, <2>2, <2>3
<1> HIDE DEF s, r
<1>9. CASE m.type = "REQUEST"
  <2>1. f = AppRequest(i, g, s)
    BY <1>1, <1>9 DEF Handled, s
  <2>2. i = 1
    BY <1>2, <1>9 DEF Descends
  <2>3. s.l.st \in Idle /\ (s.l.st # "none" => s.l.sug = AnyTag)
    BY <1>3, <1>4, <1>6, <2>2 DEF Aimed
  <2>4. f.l.sug = AnyTag /\ (Queried(f) \/ (Failed(f) /\ f.rce = <<>>))
    BY <1>4, <1>5, <2>1, <2>3, AppRequestOutcome
  <2> QED BY <1>8, <2>2, <2>4 DEF Aimed
<1>10. CASE m.type = "PEER_REQUEST"
  <2>1. f = PeerRequest(i, g, s, m)
    BY <1>1, <1>10 DEF Handled, s
  <2>2. i # 1 /\ m.via # "app" /\ m.mask # {} /\ m.tag = Min(m.mask)
    <3>1. i > 1 /\ i \in Nat
      BY <1>2, <1>10 DEF Descends, Dom
    <3> QED BY <1>2, <1>10, <3>1 DEF Descends
  <2>3. \/ Queried(f) /\ f.l.via # "app"
        \/ Failed(f) /\ f.rce = <<>> /\ f.l = s.l
    <3>1. /\ s \in Effects(g) /\ Blank(s) /\ lspb[i] \in Nat /\ Connected(i, s)
          /\ s.l.st \in Idle /\ m \in UpMsg /\ m.mask # {} /\ m.tag = Min(m.mask) /\ m.via # "app"
      BY <1>1, <1>3, <1>4, <1>5, <2>2
    <3>2. \/ Queried(PeerRequest(i, g, s, m)) /\ PeerRequest(i, g, s, m).l.via # "app"
          \/ /\ Failed(PeerRequest(i, g, s, m)) /\ PeerRequest(i, g, s, m).rce = <<>>
             /\ PeerRequest(i, g, s, m).l = s.l
      BY <3>1, PeerRequestOutcome
    <3> QED BY <2>1, <3>2
  <2> QED BY <1>4, <1>6, <1>8, <2>2, <2>3 DEF Aimed
<1> QED BY <1>9, <1>10

(* What is known of the LSPQ when an answer to its query is read.          *)
LEMMA RceReplyFinds ==
  ASSUME \A h \in Gri : Chained(h), NEW i \in Dom, NEW g \in Gri,
         NEW r, r = <<"fromRce", i>>, r \in Places, Net[r] \in Seq(Msg), Net[r] # <<>>,
         Net[r][1].gri = g
  PROVE  LET l == q[i][g]
         IN  /\ Returns(g, i, Net[r][1]) /\ l.st \in Asking /\ l.tag = AnyTag
             /\ l.sug = AnyTag \/ (l.mask # {} /\ l.sug = Min(l.mask))
             /\ Aimed(i, l) /\ Ahead(i, g) /\ Beyond(i, g)
<1>1. Travels(g, r, Net[r][1])
  BY HeadTravels
<1>2. Returns(g, i, Net[r][1])
  BY <1>1 DEF Travels
<1>3. Settled(i, g)
  BY DEF Chained
<1> QED BY <1>2, <1>3 DEF Returns, Settled, Aimed, Asking

LEMMA RceReplyChained ==
  ASSUME Typed, Kept, \A h \in Gri : Chained(h), NEW i \in Dom, NEW g \in Gri,
         NEW r, r = <<"fromRce", i>>, NEW m \in RceReply, m = Net[r][1],
         NEW f, Whole(i, g, r, f), f.l.sug = q[i][g].sug, f.l.via = q[i][g].via, f.rce = <<>>,
         m.type = "ERROR" => Failed(f),
         m.type = "ERO" => Passed(i, f) \/ (Grants(i, g, f, i) /\ f.l.tag = m.tag)
  PROVE  (\A h \in Gri : Chained(h)') /\ f.rcli # "stale"
<1>1. /\ r \in Places /\ r[1] = "fromRce" /\ m.gri = g /\ Net[r] \in Seq(Msg)
      /\ Net[r] # <<>>
  BY DEF Whole, Event, Movable
<1>2. /\ Returns(g, i, m) /\ Aimed(i, q[i][g]) /\ Ahead(i, g) /\ Beyond(i, g)
  BY <1>1, RceReplyFinds
<1>3. Aimed(i, f.l)
  BY <1>2 DEF Aimed
<1>4. Request(i, g, r, f)
  <2>1. IsToken(g, r, m) /\ m.type # "CONFIRM"
    BY <1>1 DEF IsToken, Carried, RceReply
  <2> QED BY <1>3, <2>1 DEF Request
<1>5. CASE m.type = "ERROR"
  <2>1. Due(i, g, {NoHold})
    BY <1>2, <1>5 DEF Returns
  <2> QED BY <1>4, <1>2, <1>5, <2>1, RequestFails DEF Failed
<1>6. CASE m.type = "ERO" /\ Passed(i, f)
  <2>1. f.rcli # "stale"
    BY <1>6 DEF Passed
  <2> QED BY <1>4, <1>2, <1>6, <2>1, RequestPasses
<1>7. CASE m.type = "ERO" /\ Grants(i, g, f, i) /\ f.l.tag = m.tag
  <2>1. PICK x : /\ f.client = <<x>> /\ x.type \in {"ERO", "ID"} /\ x.tag = f.l.tag /\ x.ero = i
                 /\ g \in Qconf /\ f.l.via # "app" => x.type = "ID"
    BY <1>7 DEF Grants
  <2>2. Due(i, g, {NoHold, Held(f.l.tag)})
    BY <1>2, <1>7 DEF Returns
  <2>3. i \in Nat /\ \A j \in Dom : j \in Nat
    BY DEF Dom
  <2>4. \A j \in Dom : j > i =>
          /\ q[j][g].st \in Idle \cup Granted
          /\ j <= x.ero => q[j][g].st \in Granted
          /\ g \in Qconf /\ q[j][g].st \in Granted => q[j][g].tag = x.tag
    <3>1. ASSUME NEW j \in Dom, j > i PROVE ~(j <= x.ero) /\ q[j][g].st \in Idle
      BY <1>2, <2>1, <2>3, <3>1 DEF Beyond
    <3>2. \A j \in Dom : q[j][g].st \in Idle => q[j][g].st \notin Granted
      BY DEF Idle, Granted
    <3> QED BY <3>1, <3>2
  <2>5. g \in Qconf /\ i > 1 => x.type = "ID"
    BY <1>3, <2>1, <2>3 DEF Aimed
  <2>6. f.l.st \in Granted /\ f.peer = <<>> /\ f.rce = <<>> /\ f.rcli # "stale" /\ x.ero >= i
    BY <1>7, <2>1, <2>3 DEF Grants
  <2>7. Offers(i, g, f, x)
    BY <2>1, <2>4, <2>5, <2>6 DEF Offers
  <2> QED BY <1>4, <1>2, <2>2, <2>6, <2>7, RequestGrants
<1> QED BY <1>5, <1>6, <1>7 DEF RceReply

(* And when an answer of the next domain is read.                          *)
LEMMA PeerReplyFinds ==
  ASSUME \A h \in Gri : Chained(h), NEW i \in Dom, i + 1 \in Dom, NEW g \in Gri,
         NEW r, r = <<"dn", i + 1>>, r \in Places, Net[r] \in Seq(Msg), Net[r] # <<>>,
         Net[r][1].gri = g, Net[r][1].type # "RELEASED"
  PROVE  LET l == q[i][g]
         IN  /\ Ascends(g, i + 1, Net[r][1]) /\ l.st = "ERO_PARTIAL" /\ l.ero = i /\ l.mask # {}
             /\ Aimed(i, l) /\ Ahead(i, g)
             /\ Net[r][1].type = "ERO" => g \notin Qconf
<1>0. i \in Nat /\ \A j \in Dom : j \in Nat
  BY DEF Dom
<1>1. Travels(g, r, Net[r][1])
  BY HeadTravels
<1>2. Ascends(g, i + 1, Net[r][1])
  BY <1>1 DEF Travels
<1>3. Ahead(i + 1, g)
  BY <1>2 DEF Ascends
<1>4. q[i][g].st = "ERO_PARTIAL" /\ Ahead(i, g)
  <2>1. i < i + 1 /\ \A j \in Dom : j < i => j < i + 1
    BY <1>0
  <2> QED BY <1>3, <2>1 DEF Ahead
<1>5. q[i][g].ero = i /\ q[i][g].mask # {} /\ Aimed(i, q[i][g])
  BY <1>4 DEF Chained, Settled, Aimed
<1>6. i + 1 > 1
  BY DEF Dom
<1>7. Net[r][1].type = "ERO" => g \notin Qconf
  BY <1>2, <1>6 DEF Ascends
<1> QED BY <1>2, <1>4, <1>5, <1>7

LEMMA PeerReplyChained ==
  ASSUME Typed, Kept, \A h \in Gri : Chained(h), NEW i \in Dom, i + 1 \in Dom, NEW g \in Gri,
         NEW r, r = <<"dn", i + 1>>, NEW m \in DnMsg, m = Net[r][1], m.type # "RELEASED",
         NEW f, Whole(i, g, r, f), f.l.sug = q[i][g].sug, f.l.via = q[i][g].via,
         m.type = "ERROR" =>
           \/ Failed(f) /\ f.rce # <<>> /\ f.rce[1].type = "DELETE"
           \/ Grants(i, g, f, i) /\ g \notin Qconf /\ f.rce = <<>>,
         m.type = "ERO" => Grants(i, g, f, m.ero) /\ f.l.tag = m.tag /\ f.rce = <<>>,
         m.type = "ID" => /\ Grants(i, g, f, i) /\ f.l.tag = m.tag
                          /\ f.rce # <<>> /\ f.rce[1].type = "UPDATE" /\ f.rce[1].tag = m.tag
  PROVE  (\A h \in Gri : Chained(h)') /\ f.rcli # "stale"
<1>0. i \in Nat /\ \A j \in Dom : j \in Nat
  BY DEF Dom
<1>1. /\ r \in Places /\ r[1] = "dn" /\ m.gri = g /\ Net[r] \in Seq(Msg)
      /\ Net[r] # <<>>
  BY DEF Whole, Event, Movable
<1>2. /\ Ascends(g, i + 1, m) /\ Aimed(i, q[i][g]) /\ Ahead(i, g)
      /\ m.type = "ERO" => g \notin Qconf
  BY <1>1, PeerReplyFinds
<1>3. Aimed(i, f.l)
  BY <1>2 DEF Aimed
<1>4. Request(i, g, r, f)
  <2>1. IsToken(g, r, m) /\ m.type # "CONFIRM"
    BY <1>1 DEF IsToken, Carried, DnMsg
  <2> QED BY <1>3, <2>1 DEF Request
<1>5. \A j \in Dom : /\ j > i <=> j >= i + 1
                     /\ j > i <=> j = i + 1 \/ j > i + 1
                     /\ j > i => ~(j <= i)
  BY <1>0
<1>6. m.type = "ERROR" => Beyond(i, g)
  BY <1>2, <1>5 DEF Ascends, Beyond
<1>7. CASE Failed(f) /\ f.rce # <<>> /\ f.rce[1].type = "DELETE" /\ m.type = "ERROR"
  BY <1>2, <1>4, <1>6, <1>7, RequestFails DEF Failed
<1>8. ASSUME NEW e, Grants(i, g, f, e), e >= i,
             \A j \in Dom : j > i =>
               /\ q[j][g].st \in Idle \cup Granted
               /\ j <= e => q[j][g].st \in Granted
               /\ g \in Qconf /\ q[j][g].st \in Granted => q[j][g].tag = f.l.tag,
             g \in Qconf => f.rce # <<>> /\ f.rce[1].tag = f.l.tag,
             f.rce # <<>> => f.rce[1].type = "UPDATE"
      PROVE  (\A h \in Gri : Chained(h)') /\ f.rcli # "stale"
  <2>1. PICK x : /\ f.client = <<x>> /\ x.type \in {"ERO", "ID"} /\ x.tag = f.l.tag /\ x.ero = e
                 /\ g \in Qconf /\ f.l.via # "app" => x.type = "ID"
    BY <1>8 DEF Grants
  <2>2. g \in Qconf /\ i > 1 => x.type = "ID"
    BY <1>0, <1>3, <2>1 DEF Aimed
  <2>3. f.l.st \in Granted /\ f.peer = <<>> /\ f.rcli # "stale"
    BY <1>8 DEF Grants
  <2>4. x.ero >= i /\ \A j \in Dom : j > i =>
          /\ q[j][g].st \in Idle \cup Granted
          /\ j <= x.ero => q[j][g].st \in Granted
          /\ g \in Qconf /\ q[j][g].st \in Granted => q[j][g].tag = x.tag
    BY <1>8, <2>1
  <2>5. /\ g \in Qconf => \/ f.rce = <<>> /\ Due(i, g, {NoHold, Held(f.l.tag)})
                          \/ f.rce # <<>> /\ f.rce[1].tag = f.l.tag
        /\ f.rce # <<>> => f.rce[1].type = "UPDATE"
    BY <1>8
  <2>6. Offers(i, g, f, x)
    BY <2>1, <2>2, <2>4 DEF Offers
  <2>7. Ahead(i, g) /\ Request(i, g, r, f)
    BY <1>2, <1>4
  <2>8. \A h \in Gri : Chained(h)'
    BY <2>3, <2>5, <2>6, <2>7, RequestGrants
  <2> QED BY <2>3, <2>8
<1>9. \A j \in Dom : q[j][g].st \in Idle => q[j][g].st \notin Granted
  BY DEF Idle, Granted
<1>10. i >= i
  BY <1>0
<1>11. CASE Grants(i, g, f, i) /\ g \notin Qconf /\ f.rce = <<>> /\ m.type = "ERROR"
  <2>1. \A j \in Dom : j > i => q[j][g].st \in Idle /\ ~(j <= i)
    BY <1>5, <1>6, <1>11 DEF Beyond
  <2> QED BY <1>8, <1>9, <1>10, <1>11, <2>1
<1>12. CASE m.type = "ERO"
  <2>1. m.ero \in Nat /\ m.ero >= i + 1
    BY <1>2, <1>12, BrokerAssumption DEF DnMsg, Ascends, BrokerAssumption
  <2>2. m.ero >= i
    BY <1>0, <2>1
  <2>3. \A j \in Dom : j > i => /\ q[j][g].st \in Idle \cup Granted
                                /\ j <= m.ero => q[j][g].st \in Granted
    BY <1>2, <1>5, <1>12 DEF Ascends
  <2> QED BY <1>2, <1>8, <1>12, <2>2, <2>3
<1>13. CASE m.type = "ID"
  <2>1. \A j \in Dom : j > i =>
          /\ q[j][g].st \in Idle \cup Granted /\ ~(j <= i)
          /\ g \in Qconf /\ q[j][g].st \in Granted => q[j][g].tag = f.l.tag
    BY <1>2, <1>5, <1>13 DEF Ascends
  <2> QED BY <1>8, <1>10, <1>13, <2>1
<1> QED BY <1>7, <1>11, <1>12, <1>13 DEF DnMsg


-----------------------------------------------------------------------------
(* A NARB reads a confirmation or a release.                               *)

(* What is on the way once the application has confirmed stays true.       *)
LEMMA Bystander ==
  ASSUME Typed, NEW g \in Gri, Phased(Net, g), app[g].st \in Engaged, Chained(g),
         app'[g].ero = app[g].ero, app'[g].tag = app[g].tag,
         app[g].st \in Leaving => app'[g].st \in Leaving,
         q[1][g].st \in Released => q'[1][g].st \in Released,
         NEW p \in Places, NEW k \in 1 .. Len(Net[p]), NEW m, m = Net[p][k], m.gri = g
  PROVE  Travels(g, p, m)'
<1>1. /\ p[1] = "up" => m \in UpMsg
      /\ p[1] = "dn" => m \in DnMsg
      /\ p[1] = "toRce" => m \in RceMsg
      /\ p[1] = "fromRce" => m \in RceReply
  BY MailTypes
<1>2. Travels(g, p, m)
  BY DEF Chained, Mail
<1>3. m.type \notin Carried(p[1])
  <2>1. m.type \in Carried(p[1]) => TokenAt(Net, g, p, k)
    BY DEF TokenAt
  <2> QED BY <2>1 DEF Phased, Engaged
<1>4. CASE p[1] = "up"
  <2>1. m.type \in {"CONFIRM", "REMOVE"}
    BY <1>1, <1>3, <1>4 DEF UpMsg, Carried
  <2>2. Descends(g, p[2], m)
    BY <1>2, <1>4 DEF Travels
  <2>3. Descends(g, p[2], m)'
    BY <2>1, <2>2 DEF Descends
  <2> QED BY <1>4, <2>3 DEF Travels
<1>5. CASE p[1] = "toRce"
  BY <1>3, <1>5 DEF Travels, Queries, Carried
<1>6. CASE p[1] = "fromRce"
  BY <1>1, <1>3, <1>6 DEF RceReply, Carried
<1>7. CASE p[1] = "dn"
  <2>1. m.type = "RELEASED"
    BY <1>1, <1>3, <1>7 DEF DnMsg, Carried
  <2>2. Ascends(g, p[2], m)
    BY <1>2, <1>7 DEF Travels
  <2>3. Ascends(g, p[2], m)'
    BY <2>1, <2>2 DEF Ascends
  <2> QED BY <1>7, <2>3 DEF Travels
<1> QED BY <1>4, <1>5, <1>6, <1>7 DEF Places

LEMMA EngagedEvent ==
  ASSUME Typed, Kept, \A h \in Gri : Chained(h), NEW i, NEW g, NEW r, NEW f, Whole(i, g, r, f),
         app[g].st \in Engaged, Settled(i, g)', Standing(g)',
         q[1][g].st \in Released => q'[1][g].st \in Released,
         f.peer # <<>> /\ i + 1 \in Dom => Descends(g, i + 1, f.peer[1])',
         f.client # <<>> => Ascends(g, i, f.client[1])',
         f.rce # <<>> => Queries(g, i, f.rce[1])'
  PROVE  \A h \in Gri : Chained(h)'
<1> DEFINE W == OutBox(i, f)
           y == Posts(i, f)
<1>1. /\ Movable(Net, r, W, y) /\ Net' = Moved(Net, r, W, y) /\ g \in Gri
      /\ \A j \in Dom : q'[j][g] = IF j = i THEN f.l ELSE q[j][g]
      /\ app'[g] = app[g] /\ i \in Dom
  BY DEF Whole, Event
<1>2. ASSUME NEW p \in W PROVE Travels(g, p, y[p])'
  <2>1. /\ p \in Places
        /\ \/ p = <<"up", i + 1>> /\ p[1] = "up" /\ f.peer # <<>> /\ y[p] = f.peer[1]
           \/ p = <<"dn", i>> /\ p[1] = "dn" /\ f.client # <<>> /\ y[p] = f.client[1]
           \/ p = <<"toRce", i>> /\ p[1] = "toRce" /\ f.rce # <<>> /\ y[p] = f.rce[1]
    BY <1>1, <1>2, Outlets
  <2> HIDE DEF W, y
  <2>2. CASE p = <<"up", i + 1>> /\ p[1] = "up" /\ f.peer # <<>> /\ y[p] = f.peer[1]
    <3>1. p[2] = i + 1 /\ i + 1 \in Dom
      BY <2>1, <2>2, PlaceIs
    <3> QED BY <2>2, <3>1 DEF Travels
  <2>3. CASE p = <<"dn", i>> /\ p[1] = "dn" /\ f.client # <<>> /\ y[p] = f.client[1]
    BY <2>3 DEF Travels
  <2>4. CASE p = <<"toRce", i>> /\ p[1] = "toRce" /\ f.rce # <<>> /\ y[p] = f.rce[1]
    BY <2>4 DEF Travels
  <2> QED BY <2>1, <2>2, <2>3, <2>4
<1>3. \A j \in Dom : Settled(j, g)'
  <2>1. \A j \in Dom : j # i => q'[j][g] = q[j][g] /\ Keeps(j, g)
    BY <1>1, EventKeeps
  <2> QED BY <1>1, <2>1, SettledStays DEF Chained
<1>4. Phased(Net, g) /\ Chained(g)
  BY <1>1 DEF Kept, Orderly
<1>5. ASSUME NEW p \in Places, NEW k \in 1 .. Len(Net[p]), NEW m, m = Net[p][k], m.gri = g
      PROVE  Travels(g, p, m)'
  BY <1>1, <1>4, <1>5, Bystander
<1> HIDE DEF W, y
<1>6. Chained(g)'
  BY <1>1, <1>2, <1>3, <1>5, ChainedMoves
<1> QED BY <1>6, EventElsewhere

(* Releases go on, as far as the ERO goes.                                 *)
LEMMA OnwardMoved ==
  ASSUME Typed, NEW r, NEW W, NEW y, Movable(Net, r, W, y), Net' = Moved(Net, r, W, y),
         NEW g \in Gri, Standing(g), NEW j \in Dom, q[j][g].st \in Released, j < app[g].ero,
         r = <<"up", j + 1>> /\ Net[r][1].gri = g /\ Net[r][1].type = "REMOVE"
           => q'[j + 1][g].st \in Released,
         q[j + 1][g].st \in Released => q'[j + 1][g].st \in Released
  PROVE  q'[j + 1][g].st \in Released \/ Has(Net'[<<"up", j + 1>>], g, "REMOVE")
<1> DEFINE p == <<"up", j + 1>>
<1>1. j + 1 \in Dom
  <2>1. app[g].ero \in 0 .. N
    BY DEF Typed, TypeOK, AppView
  <2> QED BY <2>1, BrokerAssumption DEF Dom, BrokerAssumption
<1>2. q[j + 1][g].st \in Released \/ Has(Net[p], g, "REMOVE")
  BY DEF Standing
<1>3. p \in Places
  BY <1>1, NetAt
<1> HIDE DEF p
<1>4. Has(Net[p], g, "REMOVE") /\ (p = r => ~(Net[p][1].gri = g /\ Net[p][1].type = "REMOVE"))
        => Has(Net'[p], g, "REMOVE")
  BY <1>3, HasMoved
<1> QED BY <1>2, <1>4 DEF p

LEMMA ConfirmChained ==
  ASSUME Typed, Kept, \A h \in Gri : Chained(h), NEW i, NEW g, NEW r, r = <<"up", i>>,
         NEW f, Whole(i, g, r, f), NEW m, m = Net[r][1], m.type = "CONFIRM",
         q[i][g].st \in Granted, f.l.st = "RESV_CONFIRM", SameAims(q[i][g], f.l),
         f.client = <<>>, f.rce # <<>>, f.rce[1].type = "CONFIRM", f.rce[1].tag = m.tag,
         f.peer = IF m.ero > i THEN <<m>> ELSE <<>>
  PROVE  \A h \in Gri : Chained(h)'
<1>1. /\ Event(i, g, r, f) /\ i \in Dom /\ g \in Gri /\ r \in Places /\ r[1] = "up" /\ r[2] = i
      /\ m.gri = g /\ app'[g] = app[g] /\ i \in Nat
  BY DEF Whole, Event, Dom
<1>2. /\ Movable(Net, r, OutBox(i, f), Posts(i, f))
      /\ Net' = Moved(Net, r, OutBox(i, f), Posts(i, f))
      /\ Net[r] \in Seq(Msg) /\ Net[r] # <<>>
      /\ q'[i][g] = f.l /\ \A j \in Dom : j # i => q'[j][g] = q[j][g]
  BY <1>1 DEF Event, Movable
<1>3. app[g].st \in Engaged
  BY <1>1, UpHead DEF Kept
<1>4. i <= app[g].ero /\ m.tag = app[g].tag
  <2>1. Travels(g, r, m)
    BY <1>1, <1>2, HeadTravels
  <2> QED BY <1>1, <2>1 DEF Travels, Descends
<1>5. m.ero = app[g].ero
  BY <1>1, UpHead DEF Kept
<1>6. Settled(i, g)'
  <2>1. Outcome(f.rce[1]) \in {Reserved(app'[g].tag)}
    BY <1>1, <1>4 DEF Outcome, RceNotified, Reserved
  <2>2. \A x : Outcome(f.rce[1]) \in {Reserved(x)} => Due(i, g, {Reserved(x)})'
    BY DueAfter
  <2>3. Due(i, g, {Reserved(app[g].tag)})'
    <3>1. PICK x : x = app'[g].tag
      OBVIOUS
    <3>2. Due(i, g, {Reserved(x)})'
      BY <2>1, <2>2, <3>1
    <3> QED BY <3>1, <3>2 DEF Due
  <2>4. Settled(i, g)
    BY <1>1 DEF Chained
  <2>5. f.l.sug = q[i][g].sug /\ f.l.via = q[i][g].via /\ q[i][g].st # "none"
    BY DEF SameAims, Granted
  <2> QED BY <1>2, <2>3, <2>4, <2>5 DEF Settled, Idle, Asking, Granted, Released
<1>7. Standing(g)'
  <2>1. Standing(g)
    BY <1>1 DEF Chained
  <2>2. q[i][g].st \notin Released /\ q'[i][g].st \notin Released /\ q'[i][g].st \in Closed
    BY <1>2 DEF Granted, Released, Closed
  <2>3. \A j \in Dom : q'[j][g].st \in Released <=> q[j][g].st \in Released
    BY <1>2, <2>2
  <2>4. ASSUME NEW j \in Dom, q'[j][g].st \in Released, j < app[g].ero
        PROVE  q'[j + 1][g].st \in Released \/ Has(Net'[<<"up", j + 1>>], g, "REMOVE")
    <3>1. j + 1 \in Dom
      <4>1. app[g].ero \in 0 .. N
        BY <1>1 DEF Typed, TypeOK, AppView
      <4> QED BY <2>4, <4>1, BrokerAssumption DEF Dom, BrokerAssumption
    <3> QED BY <1>1, <1>2, <2>1, <2>3, <2>4, <3>1, OnwardMoved
  <2>5. \A j \in Dom : q[j][g].st \in Granted \cup Closed => q'[j][g].st \in Granted \cup Closed
    BY <1>2, <2>2
  <2> QED BY <1>1, <1>3, <2>1, <2>3, <2>4, <2>5, OneInDom DEF Standing, Engaged
<1>8. q[1][g].st \in Released => q'[1][g].st \in Released
  BY <1>2, OneInDom DEF Granted, Released
<1>9. f.peer # <<>> => Descends(g, i + 1, f.peer[1])'
  <2>1. ASSUME m.ero > i PROVE i + 1 <= app[g].ero
    <3>1. app[g].ero \in Nat
      BY <1>1, BrokerAssumption DEF Typed, TypeOK, AppView, BrokerAssumption
    <3> QED BY <1>1, <1>5, <2>1, <3>1
  <2>2. f.peer # <<>> => m.ero > i /\ f.peer[1] = m
    OBVIOUS
  <2>3. m.ero > i => Descends(g, i + 1, m)'
    BY <1>1, <1>4, <2>1 DEF Descends
  <2> QED BY <2>2, <2>3
<1>10. f.rce # <<>> => Queries(g, i, f.rce[1])'
  BY DEF Queries
<1> QED BY <1>3, <1>6, <1>7, <1>8, <1>9, <1>10, EngagedEvent

LEMMA HasPosted ==
  ASSUME NEW r, NEW W, NEW y, Movable(Net, r, W, y), Net' = Moved(Net, r, W, y),
         NEW p \in Places, p \in W, NEW m, y[p] = m
  PROVE  Has(Net'[p], m.gri, m.type)
BY HasMoved

LEMMA ReleaseChained ==
  ASSUME Typed, Kept, \A h \in Gri : Chained(h), NEW i, NEW g, NEW r, r = <<"up", i>>,
         NEW f, Whole(i, g, r, f), NEW m, m = Net[r][1], m.type = "REMOVE",
         f.l.st \in Released, SameAims(q[i][g], f.l),
         f.client # <<>> => f.client[1].type = "RELEASED",
         f.rce # <<>> => f.rce[1].type = "DELETE",
         IF q[i][g].st = "RESV_CONFIRM"
         THEN f.rce # <<>> /\ f.peer = IF m.ero > i THEN <<m>> ELSE <<>>
         ELSE f.rce = <<>> /\ f.peer = <<>>
  PROVE  \A h \in Gri : Chained(h)'
<1>1. /\ Event(i, g, r, f) /\ i \in Dom /\ g \in Gri /\ r \in Places /\ r[1] = "up" /\ r[2] = i
      /\ m.gri = g /\ app'[g] = app[g] /\ i \in Nat
  BY DEF Whole, Event, Dom
<1>2. /\ Movable(Net, r, OutBox(i, f), Posts(i, f))
      /\ Net' = Moved(Net, r, OutBox(i, f), Posts(i, f))
      /\ Net[r] \in Seq(Msg) /\ Net[r] # <<>>
      /\ q'[i][g] = f.l /\ \A j \in Dom : j # i => q'[j][g] = q[j][g]
  BY <1>1 DEF Event, Movable
<1>3. app[g].st \in Engaged /\ q[i][g].st \notin Granted /\ m.ero = app[g].ero
  BY <1>1, UpHead DEF Kept
<1>4. i <= app[g].ero /\ app[g].st \in Leaving
  <2>1. Travels(g, r, m)
    BY <1>1, <1>2, HeadTravels
  <2> QED BY <1>1, <2>1 DEF Travels, Descends
<1>5. Standing(g) /\ Settled(i, g) /\ q[i][g].st \in {"RESV_CONFIRM"} \cup Released
  <2>1. Standing(g) /\ Settled(i, g)
    BY <1>1 DEF Chained
  <2>2. q[i][g].st \in Granted \cup Closed
    BY <1>1, <1>3, <1>4, <2>1 DEF Standing
  <2> QED BY <1>3, <2>1, <2>2 DEF Closed, Released
<1>6. Settled(i, g)'
  <2>1. Due(i, g, {NoHold})'
    <3>1. f.rce = <<>> => Due(i, g, {NoHold})
      BY <1>5 DEF Settled
    <3>2. f.rce # <<>> => Outcome(f.rce[1]) \in {NoHold}
      BY DEF Outcome, RceNotified
    <3> QED BY <3>1, <3>2, LooseSets, DueAfter
  <2>2. f.l.sug = q[i][g].sug /\ f.l.via = q[i][g].via /\ q[i][g].st # "none"
    BY <1>5 DEF SameAims, Released
  <2>3. f.l.st \notin Asking \cup Granted \cup {"ERO_PARTIAL", "RESV_CONFIRM"}
    BY DEF Released, Asking, Granted
  <2> QED BY <1>2, <1>5, <2>1, <2>2, <2>3 DEF Settled
<1>7. f.peer # <<>> => f.peer[1] = m /\ i + 1 <= app[g].ero
  <2>1. app[g].ero \in Nat
    BY <1>1, BrokerAssumption DEF Typed, TypeOK, AppView, BrokerAssumption
  <2>2. f.peer # <<>> => f.peer[1] = m /\ m.ero > i
    BY DEF Released
  <2> QED BY <1>1, <1>3, <2>1, <2>2
<1>8. \A j \in Dom : q[j][g].st \in Released => q'[j][g].st \in Released
  BY <1>2
<1>9. ASSUME i < app[g].ero
      PROVE  q'[i + 1][g].st \in Released \/ Has(Net'[<<"up", i + 1>>], g, "REMOVE")
  <2>1. i + 1 \in Dom /\ i + 1 # i
    <3>1. app[g].ero \in 0 .. N
      BY <1>1 DEF Typed, TypeOK, AppView
    <3> QED BY <1>1, <1>9, <3>1, BrokerAssumption DEF Dom, BrokerAssumption
  <2>2. CASE q[i][g].st = "RESV_CONFIRM"
    <3> DEFINE p == <<"up", i + 1>>
    <3>1. m.ero > i
      <4>1. app[g].ero \in Nat
        BY <1>1, BrokerAssumption DEF Typed, TypeOK, AppView, BrokerAssumption
      <4> QED BY <1>1, <1>3, <1>9, <4>1
    <3>2. f.peer # <<>> /\ f.peer[1] = m
      BY <2>2, <3>1
    <3>3. p \in OutBox(i, f) /\ p \in Places /\ p[1] = "up"
      BY <1>1, <2>1, <3>2, UpOutlet, NetAt
    <3>4. Posts(i, f)[p] = m
      BY <3>2, <3>3 DEF Posts
    <3> HIDE DEF p
    <3>5. Has(Net'[p], g, "REMOVE")
      BY <1>1, <1>2, <3>3, <3>4, HasPosted
    <3> QED BY <3>5 DEF p
  <2>3. CASE q[i][g].st \in Released
    <3>1. r # <<"up", i + 1>>
      BY <2>1
    <3> QED BY <1>1, <1>2, <1>5, <1>8, <1>9, <2>1, <2>3, <3>1, OnwardMoved, SMTT(20)
  <2> QED BY <1>5, <2>2, <2>3
<1>10. Standing(g)'
  <2>1. ASSUME NEW j \in Dom, q'[j][g].st \in Released, j < app[g].ero
        PROVE  q'[j + 1][g].st \in Released \/ Has(Net'[<<"up", j + 1>>], g, "REMOVE")
    <3>1. CASE j = i
      BY <1>9, <2>1, <3>1
    <3>2. CASE j # i
      <4>1. j + 1 \in Dom
        <5>1. app[g].ero \in 0 .. N
          BY <1>1 DEF Typed, TypeOK, AppView
        <5> QED BY <2>1, <5>1, BrokerAssumption DEF Dom, BrokerAssumption
      <4>2. q[j][g].st \in Released
        BY <1>2, <2>1, <3>2
      <4>3. r = <<"up", j + 1>> => q'[j + 1][g].st \in Released
        BY <1>2
      <4> QED BY <1>1, <1>2, <1>5, <1>8, <2>1, <4>1, <4>2, <4>3, OnwardMoved
    <3> QED BY <3>1, <3>2
  <2>2. \A j \in Dom : q[j][g].st \in Granted \cup Closed => q'[j][g].st \in Granted \cup Closed
    BY <1>2 DEF Released, Closed
  <2>3. app[g].st \notin {"idle", "failed", "granted"}
    BY <1>3 DEF Engaged
  <2> QED BY <1>1, <1>3, <1>4, <1>5, <1>8, <2>1, <2>2, <2>3, OneInDom DEF Standing
<1>11. f.peer # <<>> => Descends(g, i + 1, f.peer[1])'
  BY <1>1, <1>4, <1>7 DEF Descends
<1>12. f.client # <<>> => Ascends(g, i, f.client[1])'
  BY <1>2 DEF Ascends
<1>13. f.rce # <<>> => Queries(g, i, f.rce[1])'
  BY DEF Queries
<1> QED BY <1>3, <1>6, <1>8, <1>10, <1>11, <1>12, <1>13, OneInDom, EngagedEvent

-----------------------------------------------------------------------------
(* A NARB reads a message.                                                 *)

LEMMA CommitWhole ==
  ASSUME Typed, NEW i, NEW g, NEW r, NEW f, Event(i, g, r, f),
         rcli' = [rcli EXCEPT ![i] = f.rcli], UNCHANGED <<hold, live>>
  PROVE  Whole(i, g, r, f)
BY DEF Whole, Typed, TypeOK

LEMMA LinkedAfter ==
  ASSUME Linked, NEW i, NEW g, NEW r, NEW f, Whole(i, g, r, f), f.rcli # "stale"
  PROVE  Linked'
BY DEF Linked, Whole

LEMMA ReadMessageChained ==
  ASSUME "narb" \notin Faults, Typed, Kept, Linked, \A x \in Gri : Chained(x),
         NEW i \in Dom, ReadMessage(i)
  PROVE  Linked' /\ \A x \in Gri : Chained(x)'
<1> DEFINE m == Head(up[i])
           g == m.gri
           f == Stay(i, q[i][g])
           u == [up EXCEPT ![i] = Tail(@)]
           h(pok) == Handled(i, m, f, pok)
           r == <<"up", i>>
<1>1. up[i] # <<>> /\ u \in [Dom -> Seq(UpMsg)] /\ m \in UpMsg
  BY ReaderType DEF ReadMessage, Typed
<1>2. Commit(i, g, h(TRUE), u, dn, fromRce)
  BY DEF ReadMessage, PeerOk
<1>3. Net[r][1] = m /\ r[1] = "up"
  <2>1. Net[r] = up[i]
    BY NetAt
  <2> QED BY <2>1
<1>4. f.rcli = rcli[i] /\ f.rcli # "stale" /\ Connected(i, f)
  BY DEF Stay, Linked, Connected
<1> HIDE DEF m, h
<1>5. /\ g \in Gri /\ f \in Effects(g) /\ Blank(f) /\ f.l = q[i][g]
      /\ h(TRUE) \in Effects(g)
      /\ m.type \in {"CONFIRM", "REMOVE"} /\ f.l.st = "none" => h(TRUE) = f
      /\ m.type = "CONFIRM" /\ f.l.st # "none" => h(TRUE) = HandleResvConfirm(i, g, f, m, TRUE)
      /\ m.type = "REMOVE" /\ f.l.st # "none" => h(TRUE) = HandleResvRelease(i, g, f, m, TRUE)
      /\ f.l.st # "none" => f.l \in Lspq
  <2>1. PICK pok \in BOOLEAN : pok = TRUE
    OBVIOUS
  <2>2. /\ g \in Gri /\ f \in Effects(g) /\ Blank(f) /\ f.l = q[i][g]
        /\ h(pok) \in Effects(g)
        /\ m.type \in {"CONFIRM", "REMOVE"} /\ f.l.st = "none" => h(pok) = f
        /\ m.type = "CONFIRM" /\ f.l.st # "none" => h(pok) = HandleResvConfirm(i, g, f, m, pok)
        /\ m.type = "REMOVE" /\ f.l.st # "none" => h(pok) = HandleResvRelease(i, g, f, m, pok)
        /\ f.l.st # "none" => f.l \in Lspq
    BY <1>1, HandledEffect DEF h
  <2> QED BY <2>1, <2>2
<1>6. Whole(i, g, r, h(TRUE))
  <2>1. Event(i, g, r, h(TRUE))
    BY <1>1, <1>2, <1>5, UpEvent DEF m
  <2> QED BY <1>2, <2>1, CommitWhole DEF Commit
<1>7. PICK e : e = h(TRUE)
  OBVIOUS
<1>8. Whole(i, g, r, e)
  BY <1>6, <1>7
<1>9. SUFFICES e.rcli # "stale" /\ \A x \in Gri : Chained(x)'
  BY <1>8, LinkedAfter
<1>10. CASE m.type \in {"REQUEST", "PEER_REQUEST"}
  <2>1. e = Handled(i, m, Stay(i, q[i][g]), TRUE)
    BY <1>7 DEF h
  <2>2. m = Net[<<"up", i>>][1] /\ Whole(i, g, <<"up", i>>, e)
    BY <1>3, <1>8
  <2> HIDE DEF f, r
  <2> QED BY <1>1, <1>5, <1>10, <2>1, <2>2, ReadRequestChained
<1> HIDE DEF f
<1>11. CASE m.type = "CONFIRM" /\ q[i][g].st \notin Granted
  <2>1. e = f
    <3>1. f.l.st # "none" => h(TRUE) = f
      BY <1>5, <1>11 DEF HandleResvConfirm, Confirmable
    <3> QED BY <1>5, <1>7, <1>11, <3>1
  <2>2. Net[r][1].type # "REMOVE"
    BY <1>3, <1>11
  <2> HIDE DEF r
  <2> QED BY <1>4, <1>5, <1>8, <2>1, <2>2, IgnoredEvent
<1>12. CASE m.type = "CONFIRM" /\ q[i][g].st \in Granted
  <2>1. f.l.st # "none" /\ f.l.st \in Granted
    BY <1>5, <1>12 DEF Granted
  <2>2. e = HandleResvConfirm(i, g, f, m, TRUE) /\ f.l \in Lspq /\ m \in Of(UpMsg, g)
    BY <1>1, <1>5, <1>7, <1>12, <2>1 DEF Of
  <2>3. Confirms(i, g, f, m, TRUE, e)
    BY <1>5, <2>2, ConfirmEffect
  <2> DEFINE n == [type |-> "CONFIRM", gri |-> g, mask |-> {}, tag |-> m.tag, lspb |-> 0]
  <2>4. <<n>>[1].type = "CONFIRM" /\ <<n>>[1].tag = m.tag
    OBVIOUS
  <2>5. /\ e.l.st = "RESV_CONFIRM" /\ SameAims(f.l, e.l) /\ e.client = <<>>
        /\ e.rce # <<>> /\ e.rce = <<n>> /\ e.rcli # "stale"
        /\ e.peer = IF m.ero > i THEN <<m>> ELSE <<>>
    BY <1>4, <2>1, <2>3 DEF Confirms
  <2> HIDE DEF n
  <2>6. e.rce[1].type = "CONFIRM" /\ e.rce[1].tag = m.tag
    BY <2>4, <2>5
  <2>7. SameAims(q[i][g], e.l) /\ m = Net[r][1]
    BY <1>3, <1>5, <2>5
  <2>8. \A x \in Gri : Chained(x)'
    BY <1>8, <1>12, <2>5, <2>6, <2>7, ConfirmChained
  <2> QED BY <2>5, <2>8
<1>13. CASE m.type = "REMOVE"
  <2>1. Event(i, g, r, e) /\ Chained(g) /\ Orderly(g) /\ Net[r] \in Seq(Msg) /\ Net[r] # <<>>
        /\ r \in Places
    BY <1>5, <1>8 DEF Kept, Whole, Event, Movable
  <2>2. q[i][g].st \notin Granted /\ m.ero # 0
    BY <1>3, <1>13, <2>1, UpHead
  <2>3. q[i][g].st \in Closed
    <3>1. Travels(g, r, m)
      BY <1>3, <2>1, HeadTravels
    <3>2. i <= app[g].ero /\ app[g].st \in Leaving
      BY <1>3, <1>13, <3>1 DEF Travels, Descends
    <3> QED BY <2>1, <2>2, <3>2 DEF Chained, Standing, Leaving, Engaged
  <2>4. f.l.st # "none"
    BY <1>5, <2>3 DEF Closed
  <2>5. e = HandleResvRelease(i, g, f, m, TRUE) /\ f.l \in Lspq /\ m \in Of(UpMsg, g)
    BY <1>1, <1>5, <1>7, <1>13, <2>4 DEF Of
  <2>6. Releases(i, g, f, m, TRUE, e)
    BY <1>5, <2>5, ReleaseEffect
  <2>7. Releasable(f.l) <=> q[i][g].st = "RESV_CONFIRM"
    BY <1>5, <2>2 DEF Releasable
  <2> DEFINE n == [type |-> "DELETE", gri |-> g, mask |-> {}, tag |-> m.tag, lspb |-> 0]
  <2>8. <<n>>[1].type = "DELETE"
    OBVIOUS
  <2>9. /\ e.l.st \in Released /\ SameAims(f.l, e.l)
        /\ e.client # <<>> => e.client[1].type = "RELEASED"
        /\ Releasable(f.l) => /\ e.rce = <<n>> /\ e.rce # <<>>
                              /\ e.peer = IF m.ero > i THEN <<m>> ELSE <<>>
        /\ ~Releasable(f.l) => e.rce = <<>> /\ e.peer = <<>>
        /\ e.rcli # "stale"
    BY <1>4, <2>2, <2>6 DEF Releases
  <2> HIDE DEF n
  <2>10. e.rce # <<>> => e.rce[1].type = "DELETE"
    BY <2>8, <2>9
  <2>11. /\ SameAims(q[i][g], e.l) /\ m = Net[r][1]
         /\ IF q[i][g].st = "RESV_CONFIRM"
            THEN e.rce # <<>> /\ e.peer = IF m.ero > i THEN <<m>> ELSE <<>>
            ELSE e.rce = <<>> /\ e.peer = <<>>
    BY <1>3, <1>5, <2>7, <2>9
  <2>12. \A x \in Gri : Chained(x)'
    BY <1>8, <1>13, <2>9, <2>10, <2>11, ReleaseChained
  <2> QED BY <2>9, <2>12
<1> QED BY <1>1, <1>10, <1>11, <1>12, <1>13 DEF UpMsg

LEMMA ReadRCEReplyChained ==
  ASSUME "narb" \notin Faults, Typed, Kept, Linked, \A x \in Gri : Chained(x),
         NEW i \in Dom, ReadRCEReply(i)
  PROVE  Linked' /\ \A x \in Gri : Chained(x)'
<1> DEFINE m == Head(fromRce[i])
           g == m.gri
           f == Stay(i, q[i][g])
           skip == q[i][g].st = "none" \/ m.lspb # lspb[i]
           h == IF skip THEN f ELSE HandleRCEReply(i, g, f, m, TRUE)
           r == <<"fromRce", i>>
<1>1. fromRce[i] # <<>> /\ m \in RceReply /\ Net \in [Places -> Seq(Msg)]
  BY ReaderType, NetType DEF ReadRCEReply, Typed
<1>2. Commit(i, g, h, up, dn, [fromRce EXCEPT ![i] = Tail(@)])
  BY DEF ReadRCEReply, PeerOk
<1>3. /\ Net[r][1] = m /\ r[1] = "fromRce" /\ r \in Places /\ Net[r] \in Seq(Msg)
      /\ Net[r] # <<>>
  <2>1. Net[r] = fromRce[i] /\ r \in Places
    BY NetAt
  <2> QED BY <1>1, <2>1
<1>4. f.rcli # "stale" /\ Connected(i, f)
  BY DEF Stay, Linked, Connected
<1>5. Head(fromRce[i]).gri = g
  OBVIOUS
<1> HIDE DEF m, h
<1>6. g \in Gri
  BY <1>1 DEF RceReply
<1>7. f \in Effects(g) /\ Blank(f) /\ f.l = q[i][g] /\ lspb[i] \in Nat
  BY <1>6, StayEffect DEF Typed
<1>8. h \in Effects(g)
  <2>1. CASE skip
    BY <1>7, <2>1 DEF h
  <2>2. CASE ~skip
    BY <1>1, <2>2, RceReplyEffect DEF h, Proceeds
  <2> QED BY <2>1, <2>2
<1>9. Whole(i, g, r, h)
  <2>1. Event(i, g, r, h)
    BY <1>1, <1>2, <1>5, <1>6, <1>8, RceEvent
  <2> QED BY <1>2, <2>1, CommitWhole DEF Commit
<1>10. SUFFICES h.rcli # "stale" /\ \A x \in Gri : Chained(x)'
  BY <1>9, LinkedAfter
<1>11. CASE skip
  <2>1. h = f
    BY <1>11 DEF h
  <2>2. r # <<"up", i>>
    OBVIOUS
  <2> HIDE DEF r, f
  <2> QED BY <1>4, <1>7, <1>9, <2>1, <2>2, IgnoredEvent
<1>12. CASE ~skip
  <2>1. /\ Returns(g, i, m) /\ f.l.st \in Asking /\ f.l.tag = AnyTag
        /\ f.l.sug = AnyTag \/ (f.l.mask # {} /\ f.l.sug = Min(f.l.mask))
    <3> HIDE DEF f
    <3>1. m.gri = g /\ r = <<"fromRce", i>>
      BY <1>5 DEF m
    <3> HIDE DEF r
    <3> QED BY <1>3, <1>6, <1>7, <3>1, RceReplyFinds
  <2>2. m.type = "ERO" => /\ m.via # "app" /\ m.mask # {} /\ m.tag = Min(m.mask)
                          /\ f.l.mask = {} \/ m.mask \subseteq f.l.mask
    BY <1>7, <2>1 DEF Returns
  <2>3. f.l \in Lspq /\ h = HandleRCEReply(i, g, f, m, TRUE)
    BY <1>1, <1>7, <1>12, RceReplyEffect DEF h
  <2>4. /\ h.l.sug = f.l.sug /\ h.l.via = f.l.via /\ h.rce = <<>>
        /\ m.type = "ERROR" => Failed(h)
        /\ m.type = "ERO" => \/ Passed(i, h)
                             \/ Grants(i, g, h, i) /\ h.l.tag = m.tag
    <3> HIDE DEF f
    <3> QED BY <1>1, <1>4, <1>6, <1>7, <2>1, <2>2, <2>3, RceReplyOutcome
  <2>5. h.l.sug = q[i][g].sug /\ h.l.via = q[i][g].via /\ m = Net[r][1]
    BY <1>3, <1>7, <2>4
  <2> HIDE DEF f
  <2> QED BY <1>1, <1>6, <1>9, <2>4, <2>5, RceReplyChained
<1> QED BY <1>11, <1>12

LEMMA ReadPeerReplyChained ==
  ASSUME "nomerge" \notin Faults, Typed, Kept, Linked, \A x \in Gri : Chained(x),
         NEW i \in Dom, ReadPeerReply(i)
  PROVE  Linked' /\ \A x \in Gri : Chained(x)'
<1> DEFINE m == Head(dn[i + 1])
           g == m.gri
           f == Stay(i, q[i][g])
           skip == q[i][g].st = "none" \/ m.lspb # lspb[i] \/ m.type = "RELEASED"
           h == IF skip THEN f ELSE HandleNextHopNARBReply(i, g, f, m, TRUE)
           r == <<"dn", i + 1>>
<1>0. i + 1 \in Dom
  BY BrokerAssumption DEF ReadPeerReply, Dom, BrokerAssumption
<1>1. dn[i + 1] # <<>> /\ m \in DnMsg /\ Net \in [Places -> Seq(Msg)]
  BY <1>0, ReaderType, NetType DEF ReadPeerReply, Typed
<1>2. Commit(i, g, h, up, [dn EXCEPT ![i + 1] = Tail(@)], fromRce)
  BY DEF ReadPeerReply
<1>3. /\ Net[r][1] = m /\ r[1] = "dn" /\ r \in Places /\ Net[r] \in Seq(Msg)
      /\ Net[r] # <<>>
  <2>1. Net[r] = dn[i + 1] /\ r \in Places
    BY <1>0, NetAt
  <2> QED BY <1>1, <2>1
<1>4. f.rcli # "stale" /\ Connected(i, f)
  BY DEF Stay, Linked, Connected
<1>5. Head(dn[i + 1]).gri = g
  OBVIOUS
<1> HIDE DEF m, h
<1>6. g \in Gri
  BY <1>1 DEF DnMsg
<1>7. f \in Effects(g) /\ Blank(f) /\ f.l = q[i][g]
  BY <1>6, StayEffect
<1>8. h \in Effects(g)
  <2>1. CASE skip
    BY <1>7, <2>1 DEF h
  <2>2. CASE ~skip
    BY <1>1, <2>2, PeerReplyEffect DEF h, Proceeds
  <2> QED BY <2>1, <2>2
<1>9. Whole(i, g, r, h)
  <2>1. Event(i, g, r, h)
    BY <1>0, <1>1, <1>2, <1>5, <1>6, <1>8, DnEvent
  <2> QED BY <1>2, <2>1, CommitWhole DEF Commit
<1>10. SUFFICES h.rcli # "stale" /\ \A x \in Gri : Chained(x)'
  BY <1>9, LinkedAfter
<1>11. CASE skip
  <2>1. h = f
    BY <1>11 DEF h
  <2>2. r # <<"up", i>>
    OBVIOUS
  <2> HIDE DEF r, f
  <2> QED BY <1>4, <1>7, <1>9, <2>1, <2>2, IgnoredEvent
<1>12. CASE ~skip
  <2>1. /\ f.l.st = "ERO_PARTIAL" /\ f.l.ero = i /\ f.l.mask # {}
        /\ m.type = "ERO" => g \notin Qconf
    <3> HIDE DEF f
    <3>1. m.gri = g /\ r = <<"dn", i + 1>>
      BY <1>5 DEF m
    <3> HIDE DEF r
    <3> QED BY <1>0, <1>3, <1>6, <1>7, <1>12, <3>1, PeerReplyFinds
  <2>2. f.l \in Lspq /\ h = HandleNextHopNARBReply(i, g, f, m, TRUE)
    BY <1>1, <1>7, <1>12, PeerReplyEffect DEF h
  <2>3. /\ h.l.sug = f.l.sug /\ h.l.via = f.l.via
        /\ m.type = "ERROR" =>
             \/ Failed(h) /\ h.rce # <<>> /\ h.rce[1].type = "DELETE"
             \/ Grants(i, g, h, i) /\ g \notin Qconf /\ h.rce = <<>>
        /\ m.type = "ERO" => Grants(i, g, h, m.ero) /\ h.l.tag = m.tag /\ h.rce = <<>>
        /\ m.type = "ID" => /\ Grants(i, g, h, i) /\ h.l.tag = m.tag
                            /\ h.rce # <<>> /\ h.rce[1].type = "UPDATE"
                            /\ h.rce[1].tag = m.tag
    <3>1. m.type # "RELEASED"
      BY <1>12
    <3> HIDE DEF f
    <3>2. LET e == HandleNextHopNARBReply(i, g, f, m, TRUE)
          IN  /\ e.l.sug = f.l.sug /\ e.l.via = f.l.via
              /\ m.type = "ERROR" =>
                   \/ Failed(e) /\ e.rce # <<>> /\ e.rce[1].type = "DELETE"
                   \/ Grants(i, g, e, i) /\ g \notin Qconf /\ e.rce = <<>>
              /\ m.type = "ERO" => Grants(i, g, e, m.ero) /\ e.l.tag = m.tag /\ e.rce = <<>>
              /\ m.type = "ID" => /\ Grants(i, g, e, i) /\ e.l.tag = m.tag
                                  /\ e.rce # <<>> /\ e.rce[1].type = "UPDATE"
                                  /\ e.rce[1].tag = m.tag
      BY <1>1, <1>4, <1>6, <1>7, <2>1, <2>2, <3>1, PeerReplyOutcome
    <3> QED BY <2>2, <3>2
  <2>4. h.l.sug = q[i][g].sug /\ h.l.via = q[i][g].via /\ m = Net[r][1]
    BY <1>3, <1>7, <2>3
  <2> HIDE DEF f
  <2> QED BY <1>0, <1>1, <1>6, <1>9, <1>12, <2>3, <2>4, PeerReplyChained
<1> QED BY <1>11, <1>12

-----------------------------------------------------------------------------
(* The application sends a message, or reads one.                          *)

LEMMA AppKeeps ==
  ASSUME NEW r, NEW W, NEW y, Movable(Net, r, W, y), Net' = Moved(Net, r, W, y), hold' = hold,
         \A j \in Dom : <<"toRce", j>> # r /\ <<"toRce", j>> \notin W
  PROVE  \A j \in Dom : \A h : Keeps(j, h)
BY KeepsMoved

LEMMA SendChained ==
  ASSUME Typed, Kept, \A h \in Gri : Chained(h), NEW g \in Gri,
         NEW type \in {"REQUEST", "CONFIRM", "REMOVE"},
         NEW st \in {"asked", "confirmed", "leaving"}, Send(g, type, st),
         app[g].st = "confirmed" => st # "asked", app[g].st = "leaving" => st = "leaving",
         app[g].st \in {"idle", "failed", "granted", "confirmed", "leaving"},
         Standing(g)', NEW m, m = FromApp(g, type), Descends(g, 1, m)'
  PROVE  \A h \in Gri : Chained(h)'
<1> DEFINE y == Told1(m)
           W == {Entry}
<1>1. /\ Movable(Net, NoPlace, W, y) /\ Net' = Moved(Net, NoPlace, W, y)
      /\ y[Entry] = m /\ Entry \in Places /\ NoPlace \notin Places
      /\ app'[g].st = st /\ app'[g].ero = app[g].ero /\ \A h \in Gri : h # g => app'[h] = app[h]
      /\ q' = q /\ hold' = hold /\ app'[g].tag = app[g].tag
  <2>1. app'[g].tag = app[g].tag /\ hold' = hold
    BY DEF Send, Typed, TypeOK
  <2> QED BY <2>1, SendMoves
<1>2. \A j \in Dom : <<"toRce", j>> # NoPlace /\ <<"toRce", j>> \notin W
                     /\ NoPlace # <<"up", j>>
  BY DEF NoPlace, Entry
<1>3. m.gri = g
  BY DEF FromApp
<1>4. \A p \in W : p = Entry /\ y[p] = m /\ p[1] = "up" /\ p[2] = 1
  BY <1>1 DEF Entry
<1> HIDE DEF y, W
<1>5. \A j \in Dom : \A h : Keeps(j, h) /\ q'[j][h] = q[j][h]
  BY <1>1, <1>2, AppKeeps
<1>6. ASSUME NEW h \in Gri, h # g PROVE Chained(h)'
  <2>1. \A p \in W : y[p].gri # h
    BY <1>3, <1>4, <1>6
  <2>2. \A j \in Dom : q'[j][h] = q[j][h] /\ Keeps(j, h)
    BY <1>5
  <2>3. \A j \in Dom : NoPlace = <<"up", j>> /\ Net[NoPlace][1].gri = h
                        => Net[NoPlace][1].type # "REMOVE"
    BY <1>2
  <2>4. app'[h] = app[h]
    BY <1>1, <1>6
  <2> QED BY <1>1, <2>1, <2>2, <2>3, <2>4, ChainedStays
<1>7. \A j \in Dom : Settled(j, g)'
  BY <1>1, <1>5, SettledStays DEF Chained
<1>8. Phased(Net, g)
  BY DEF Kept, Orderly
<1>9. ASSUME NEW p \in Places, NEW k \in 1 .. Len(Net[p]), NEW n, n = Net[p][k], n.gri = g
      PROVE  Travels(g, p, n)'
  <2>1. CASE app[g].st \in {"idle", "failed", "granted"}
    <3>1. OnlyToken(Net, g, NoPlace) /\ app[g].st \notin Engaged
      BY <1>8, <2>1, Calm DEF Engaged
    <3>2. ~TokenAt(Net, g, p, k)
      BY <1>1, <3>1 DEF OnlyToken
    <3> QED BY <1>8, <1>9, <3>1, <3>2, Aside
  <2>2. CASE app[g].st \in {"confirmed", "leaving"}
    <3>1. app[g].st \in Engaged /\ (app[g].st \in Leaving => app'[g].st \in Leaving)
      BY <1>1, <2>2 DEF Engaged, Leaving
    <3>2. q[1][g].st \in Released => q'[1][g].st \in Released
      BY <1>1
    <3> QED BY <1>1, <1>8, <1>9, <3>1, <3>2, Bystander
  <2> QED BY <2>1, <2>2
<1>10. \A p \in W : Travels(g, p, y[p])'
  BY <1>4 DEF Travels
<1>11. Chained(g)'
  BY <1>1, <1>7, <1>9, <1>10, ChainedMoves
<1> QED BY <1>6, <1>11

LEMMA NoneReleased ==
  ASSUME NEW g \in Gri, Phased(Net, g), app[g].st \notin Engaged
  PROVE  \A j \in Dom : q[j][g].st \notin Closed /\ q[j][g].st \notin Released
BY DEF Phased, Closed, Released

LEMMA AskChained ==
  ASSUME Typed, Kept, \A h \in Gri : Chained(h), NEW g \in Gri,
         app[g].st \in {"idle", "failed"}, Send(g, "REQUEST", "asked")
  PROVE  \A h \in Gri : Chained(h)'
<1>1. app'[g].st = "asked" /\ q' = q
  BY SendMoves
<1>2. Phased(Net, g) /\ Standing(g) /\ app[g].st \notin Engaged
  BY DEF Kept, Orderly, Chained, Engaged
<1>3. Standing(g)'
  BY <1>1, <1>2, NoneReleased DEF Standing, Engaged
<1>0. PICK m : m = FromApp(g, "REQUEST")
  OBVIOUS
<1>4. Descends(g, 1, m)'
  <2>1. \A j \in Dom : q[j][g].st \in Idle /\ ~(j < 1)
    BY <1>2 DEF Standing, Dom
  <2>2. m.type = "REQUEST"
    BY <1>0 DEF FromApp
  <2> QED BY <1>1, <2>1, <2>2, OneInDom DEF Descends, Ahead, Beyond
<1> QED BY <1>0, <1>3, <1>4, SendChained

LEMMA ConfirmSentChained ==
  ASSUME Typed, Kept, \A h \in Gri : Chained(h), NEW g \in Gri,
         app[g].st = "granted", Send(g, "CONFIRM", "confirmed")
  PROVE  \A h \in Gri : Chained(h)'
<1>1. /\ app'[g].st = "confirmed" /\ q' = q /\ app'[g].ero = app[g].ero
      /\ app'[g].tag = app[g].tag
  <2>1. app'[g].tag = app[g].tag
    BY DEF Send, Typed, TypeOK
  <2> QED BY <2>1, SendMoves
<1>2. Phased(Net, g) /\ Standing(g) /\ app[g].st \notin Engaged
  BY DEF Kept, Orderly, Chained, Engaged
<1>3. Standing(g)'
  BY <1>1, <1>2, NoneReleased DEF Standing, Engaged
<1>0. PICK m : m = FromApp(g, "CONFIRM")
  OBVIOUS
<1>4. Descends(g, 1, m)'
  <2>2. m.type = "CONFIRM" /\ m.tag = app[g].tag /\ 1 <= app[g].ero
    <3>1. app[g].ero \in Nat
      BY BrokerAssumption DEF Typed, TypeOK, AppView, BrokerAssumption
    <3> QED BY <1>0, <1>2, <3>1 DEF FromApp, Standing
  <2> QED BY <1>1, <2>2 DEF Descends
<1> QED BY <1>0, <1>3, <1>4, SendChained

(* A confirmation that is sent again.                                      *)
LEMMA RepeatChained ==
  ASSUME Typed, Kept, \A h \in Gri : Chained(h), NEW g \in Gri,
         app[g].st = "confirmed", Send(g, "CONFIRM", "confirmed")
  PROVE  \A h \in Gri : Chained(h)'
<1>1. /\ app'[g].st = app[g].st /\ q' = q /\ app'[g].ero = app[g].ero
      /\ app'[g].tag = app[g].tag
  <2>1. app'[g].tag = app[g].tag
    BY DEF Send, Typed, TypeOK
  <2> QED BY <2>1, SendMoves
<1>2. Standing(g)
  BY DEF Chained
<1>3. Standing(g)'
  BY <1>1, <1>2 DEF Standing, Engaged, Leaving
<1>0. PICK m : m = FromApp(g, "CONFIRM")
  OBVIOUS
<1>4. Descends(g, 1, m)'
  <2>1. m.type = "CONFIRM" /\ m.tag = app[g].tag /\ 1 <= app[g].ero
    <3>1. app[g].ero \in Nat
      BY BrokerAssumption DEF Typed, TypeOK, AppView, BrokerAssumption
    <3> QED BY <1>0, <1>2, <3>1 DEF FromApp, Standing, Engaged
  <2> QED BY <1>1, <2>1 DEF Descends
<1> QED BY <1>0, <1>3, <1>4, SendChained

LEMMA LeaveChained ==
  ASSUME Typed, Kept, \A h \in Gri : Chained(h), NEW g \in Gri,
         app[g].st \in {"confirmed", "leaving"}, Send(g, "REMOVE", "leaving")
  PROVE  \A h \in Gri : Chained(h)'
<1> DEFINE y == Told1(FromApp(g, "REMOVE"))
           W == {Entry}
<1>1. /\ app'[g].st = "leaving" /\ q' = q /\ app'[g].ero = app[g].ero
      /\ Movable(Net, NoPlace, W, y) /\ Net' = Moved(Net, NoPlace, W, y)
      /\ \A j \in Dom : NoPlace # <<"up", j>>
  BY SendMoves
<1> HIDE DEF y, W
<1>2. Standing(g)
  BY DEF Chained
<1>3. Standing(g)'
  <2>1. ASSUME NEW j \in Dom, q'[j][g].st \in Released, j < app[g].ero
        PROVE  q'[j + 1][g].st \in Released \/ Has(Net'[<<"up", j + 1>>], g, "REMOVE")
    <3>1. q[j][g].st \in Released
      BY <1>1, <2>1
    <3>2. NoPlace # <<"up", j + 1>>
      BY DEF NoPlace
    <3>3. q[j + 1][g].st \in Released => q'[j + 1][g].st \in Released
      BY <1>1
    <3> QED BY <1>1, <1>2, <2>1, <3>1, <3>2, <3>3, OnwardMoved
  <2> QED BY <1>1, <1>2, <2>1 DEF Standing, Engaged, Leaving
<1>0. PICK m : m = FromApp(g, "REMOVE")
  OBVIOUS
<1>4. Descends(g, 1, m)'
  <2>2. m.type = "REMOVE" /\ 1 <= app[g].ero
    <3>1. app[g].ero \in Nat
      BY BrokerAssumption DEF Typed, TypeOK, AppView, BrokerAssumption
    <3> QED BY <1>0, <1>2, <3>1 DEF FromApp, Standing, Engaged
  <2> QED BY <1>1, <2>2 DEF Descends, Leaving
<1> QED BY <1>0, <1>3, <1>4, SendChained

LEMMA AppReadChained ==
  ASSUME Typed, Kept, \A x \in Gri : Chained(x), AppRead
  PROVE  \A x \in Gri : Chained(x)'
<1> DEFINE r == <<"dn", 1>>
           y == <<>>
<1>0. PICK m \in DnMsg : m = Head(dn[1])
  BY OneInDom, ReaderType DEF AppRead, Typed
<1>00. PICK g \in Gri : g = m.gri
  BY DEF DnMsg
<1>1. dn[1] # <<>> /\ m = dn[1][1]
  BY <1>0 DEF AppRead
<1>2. /\ dn' = [dn EXCEPT ![1] = Tail(@)] /\ UNCHANGED <<up, toRce, fromRce, q, hold>>
      /\ app' = [app EXCEPT ![g] = Told(@, m)]
  BY <1>0, <1>00 DEF AppRead, narbs
<1>3. m.gri = g /\ m.type \in {"ERO", "ID", "ERROR", "RELEASED"}
  BY <1>00 DEF DnMsg
<1>4. /\ r \in Places /\ Net[r] = dn[1] /\ r[1] = "dn" /\ r[2] = 1
      /\ \A j \in Dom : r # <<"up", j>> /\ r # <<"toRce", j>>
  BY OneInDom, NetAt
<1>5. Net[r][1] = m /\ Net[r] \in Seq(Msg) /\ Net[r] # <<>>
  BY <1>1, <1>4, NetType
<1>6. Net' = Moved(Net, r, {}, y)
  <2>1. ASSUME NEW j \in Dom
        PROVE  /\ up'[j] = up[j] /\ toRce'[j] = toRce[j] /\ fromRce'[j] = fromRce[j]
               /\ dn'[j] = IF j = 1 THEN Tail(dn[j]) ELSE dn[j]
    BY <1>2 DEF Typed
  <2>2. ASSUME NEW j \in Dom
        PROVE  /\ <<"up", j>> # r /\ <<"toRce", j>> # r /\ <<"fromRce", j>> # r
               /\ <<"dn", j>> = r <=> j = 1
    OBVIOUS
  <2> HIDE DEF r, y
  <2> QED BY <2>1, <2>2, NetMoves
<1> HIDE DEF r, y
<1>7. Movable(Net, r, {}, y)
  BY <1>1, <1>4, NetType DEF Movable
<1>8. /\ app'[g] = Told(app[g], m) /\ \A h \in Gri : h # g => app'[h] = app[h]
  BY <1>2, <1>3 DEF Typed, TypeOK
<1>9. app[g] \in AppView
  BY <1>3 DEF Typed, TypeOK
<1>10. \A j \in Dom : \A h : Keeps(j, h) /\ q'[j][h] = q[j][h]
  BY <1>2, <1>4, <1>6, <1>7, AppKeeps
<1>11. \A h \in Gri : app'[h] = app[h] => Chained(h)'
  BY <1>4, <1>6, <1>7, <1>10, ChainedStays
<1>12. Phased(Net, g) /\ Chained(g) /\ g \in Gri /\ q' = q /\ Standing(g) /\ Orderly(g)
  BY <1>2 DEF Kept, Orderly, Chained
<1>13. Ascends(g, 1, m)
  BY <1>3, <1>4, <1>5, <1>12, HeadTravels DEF Travels
<1>14. ASSUME Standing(g)', app[g].st = "leaving" \/ app[g].st = "asked",
              app[g].st = "leaving" => /\ app'[g].ero = app[g].ero /\ app'[g].tag = app[g].tag
                                       /\ app'[g].st \in Leaving,
              app[g].st = "asked" => OnlyToken(Net, g, r)
       PROVE  \A x \in Gri : Chained(x)'
  <2>1. ASSUME NEW j \in Dom PROVE Settled(j, g)'
    <3>1. q[j][g].st = "RESV_CONFIRM" => app'[g].tag = app[g].tag
      BY <1>12, <1>14, NoneReleased DEF Closed, Engaged
    <3> QED BY <1>10, <1>12, <3>1, SettledStays DEF Chained
  <2>2. ASSUME NEW p \in Places, NEW k \in 1 .. Len(Net[p]), NEW n, n = Net[p][k], n.gri = g,
               p = r => k > 1
        PROVE  Travels(g, p, n)'
    <3>1. CASE app[g].st = "asked"
      <4>1. app[g].st \notin Engaged /\ ~TokenAt(Net, g, p, k)
        BY <1>14, <2>2, <3>1 DEF Engaged, OnlyToken
      <4> QED BY <1>12, <2>2, <4>1, Aside
    <3>2. CASE app[g].st = "leaving"
      <4>1. app[g].st \in Engaged /\ (q[1][g].st \in Released => q'[1][g].st \in Released)
        BY <1>12, <3>2 DEF Engaged
      <4> QED BY <1>12, <1>14, <2>2, <3>2, <4>1, Bystander
    <3> QED BY <1>14, <3>1, <3>2
  <2>3. Chained(g)'
    BY <1>6, <1>7, <1>14, <2>1, <2>2, ChainedMoves
  <2> QED BY <1>8, <1>11, <2>3
<1>15. app[g].st = "asked" /\ m.type \in {"ERO", "ERROR"} => OnlyToken(Net, g, r)
  <2>1. m.type \in {"ERO", "ERROR"} => IsToken(g, r, Net[r][1])
    BY <1>3, <1>4, <1>5 DEF IsToken, Carried
  <2> QED BY <1>4, <1>5, <1>12, <2>1, TokenFirst
<1>16. app[g].st = "asked" => \A j \in Dom : q[j][g].st \notin Released
  BY <1>12, NoneReleased DEF Engaged
<1>17. \A j \in Dom : j >= 1 /\ (j = 1 \/ j > 1)
  BY DEF Dom
<1>18. CASE m.type = "ERO" /\ app[g].st = "asked"
  <2>1. app'[g].st = "granted" /\ app'[g].tag = m.tag /\ app'[g].ero = m.ero
    BY <1>8, <1>9, <1>18 DEF Told, AppView
  <2>2. /\ m.ero >= 1
        /\ \A j \in Dom : /\ q[j][g].st \in Idle \cup Granted
                          /\ j <= m.ero => q[j][g].st \in Granted
                          /\ g \in Qconf /\ q[j][g].st \in Granted => q[j][g].tag = m.tag
    BY <1>13, <1>17, <1>18 DEF Ascends
  <2>3. Standing(g)'
    BY <1>12, <1>16, <1>18, <2>1, <2>2 DEF Standing, Engaged
  <2> QED BY <1>14, <1>15, <1>18, <2>3
<1>19. CASE m.type = "ERROR" /\ app[g].st = "asked"
  <2>1. app'[g].st = "failed"
    BY <1>8, <1>9, <1>19 DEF Told, AppView
  <2>2. \A j \in Dom : q[j][g].st \in Idle
    BY <1>13, <1>17, <1>19 DEF Ascends, Beyond
  <2>3. Standing(g)'
    BY <1>12, <1>16, <1>19, <2>1, <2>2 DEF Standing, Engaged
  <2> QED BY <1>14, <1>15, <1>19, <2>3
<1>20. CASE m.type = "RELEASED" /\ app[g].st = "leaving"
  <2>1. app'[g].st = "done" /\ app'[g].ero = app[g].ero /\ app'[g].tag = app[g].tag
    BY <1>8, <1>9, <1>20 DEF Told, AppView
  <2>2. q[1][g].st \in Released
    BY <1>13, <1>20 DEF Ascends
  <2>3. ASSUME NEW j \in Dom, q'[j][g].st \in Released, j < app[g].ero
        PROVE  q'[j + 1][g].st \in Released \/ Has(Net'[<<"up", j + 1>>], g, "REMOVE")
    <3>1. q[j][g].st \in Released
      BY <1>12, <2>3
    <3>2. j + 1 \in Dom
      BY <1>9, <2>3, BrokerAssumption DEF Dom, BrokerAssumption, AppView
    <3>3. r # <<"up", j + 1>> /\ (q[j + 1][g].st \in Released => q'[j + 1][g].st \in Released)
      BY <1>4, <1>12, <3>2
    <3> QED BY <1>6, <1>7, <1>12, <2>3, <3>1, <3>3, OnwardMoved
  <2>4. Standing(g)'
    BY <1>12, <1>20, <2>1, <2>2, <2>3 DEF Standing, Engaged, Leaving
  <2> QED BY <1>14, <1>20, <2>1, <2>4 DEF Leaving
<1>21. CASE ~(m.type \in {"ERO", "ERROR"} /\ app[g].st = "asked")
            /\ ~(m.type = "RELEASED" /\ app[g].st = "leaving")
  <2>1. Told(app[g], m) = app[g]
    BY <1>3, <1>21 DEF Told
  <2> QED BY <1>8, <1>11, <2>1
<1> QED BY <1>18, <1>19, <1>20, <1>21

-----------------------------------------------------------------------------
(* An RCE answers a query, takes note of a message, or lets a hold expire. *)

(* What it holds is what it answers with.                                  *)
HeldFor(m, a, x) ==
  /\ a.type = "ERROR" => x = NoHold
  /\ a.type = "ERO" => /\ x = Held(a.tag) /\ a.via # "app" /\ a.mask # {} /\ a.tag = Min(a.mask)
                       /\ m.mask = {} \/ a.mask \subseteq m.mask

LEMMA RceAnswersChained ==
  ASSUME Typed, Kept, \A h \in Gri : Chained(h), NEW i \in Dom, NEW g \in Gri,
         NEW a \in RceReply, a.gri = g, toRce[i] # <<>>,
         NEW m, m = toRce[i][1], m.gri = g, m.type = "QUERY",
         toRce' = [toRce EXCEPT ![i] = Tail(@)], fromRce' = [fromRce EXCEPT ![i] = Append(@, a)],
         UNCHANGED <<up, dn, q, app>>, NEW x, hold' = [hold EXCEPT ![i][g] = x],
         HeldFor(m, a, x)
  PROVE  \A h \in Gri : Chained(h)'
<1> DEFINE r == <<"toRce", i>>
           w == <<"fromRce", i>>
           y == [p \in Places |-> a]
<1>1. /\ r \in Places /\ w \in Places /\ Net[r] = toRce[i] /\ y[w] = a
      /\ r[1] = "toRce" /\ w[1] = "fromRce" /\ r # w /\ r[2] = i /\ w[2] = i
  BY NetAt
<1>2. a.type \in {"ERO", "ERROR"} /\ a \in Msg
  BY DEF RceReply, Msg
<1>3. Net[r] \in Seq(Msg) /\ Net[r] # <<>> /\ Net[r][1] = m
  BY <1>1, NetType
<1>4. Net' = Moved(Net, r, {w}, y)
  <2>1. ASSUME NEW j \in Dom
        PROVE  /\ up'[j] = up[j] /\ dn'[j] = dn[j]
               /\ toRce'[j] = IF j = i THEN Tail(toRce[j]) ELSE toRce[j]
               /\ fromRce'[j] = IF j = i THEN Append(fromRce[j], a) ELSE fromRce[j]
    BY DEF Typed
  <2>2. ASSUME NEW j \in Dom
        PROVE  /\ <<"up", j>> # r /\ <<"up", j>> \notin {w} /\ <<"dn", j>> # r /\ <<"dn", j>> \notin {w}
               /\ <<"toRce", j>> = r <=> j = i
               /\ <<"toRce", j>> \notin {w} /\ <<"fromRce", j>> # r
               /\ <<"fromRce", j>> \in {w} <=> j = i
    OBVIOUS
  <2>3. \A j \in Dom : j = i => y[<<"fromRce", j>>] = a
    BY <1>1
  <2> HIDE DEF r, w, y
  <2>4. ASSUME NEW j \in Dom
        PROVE  /\ up'[j] = IF <<"up", j>> = r THEN Tail(up[j])
                           ELSE IF <<"up", j>> \in {w} THEN Append(up[j], y[<<"up", j>>]) ELSE up[j]
               /\ dn'[j] = IF <<"dn", j>> = r THEN Tail(dn[j])
                           ELSE IF <<"dn", j>> \in {w} THEN Append(dn[j], y[<<"dn", j>>]) ELSE dn[j]
    BY <2>1, <2>2
  <2>5. ASSUME NEW j \in Dom
        PROVE  /\ toRce'[j] = IF <<"toRce", j>> = r THEN Tail(toRce[j])
                              ELSE IF <<"toRce", j>> \in {w} THEN Append(toRce[j], y[<<"toRce", j>>])
                              ELSE toRce[j]
               /\ fromRce'[j] = IF <<"fromRce", j>> = r THEN Tail(fromRce[j])
                                ELSE IF <<"fromRce", j>> \in {w}
                                THEN Append(fromRce[j], y[<<"fromRce", j>>]) ELSE fromRce[j]
    BY <2>1, <2>2, <2>3
  <2> QED BY <2>4, <2>5, NetMoves
<1>5. \A j \in Dom : /\ r # <<"up", j>> /\ (r = <<"toRce", j>> <=> j = i)
                     /\ <<"toRce", j>> \notin {w}
  OBVIOUS
<1>6. /\ q' = q /\ app' = app
      /\ \A j \in Dom, h \in Gri : hold'[j][h] = IF j = i /\ h = g THEN x ELSE hold[j][h]
  <2>1. hold \in [Dom -> [Gri -> Hold]]
    BY DEF Typed, TypeOK
  <2> QED BY <2>1
<1> DEFINE W == {w}
<1>7. w \in W /\ \A p \in W : p = w
  OBVIOUS
<1> HIDE DEF r, w, y, W
<1>8. Movable(Net, r, W, y) /\ Net' = Moved(Net, r, W, y)
  BY <1>1, <1>2, <1>3, <1>4, NetType DEF Movable, W
<1>9. ASSUME NEW j \in Dom, NEW h \in Gri, j # i \/ h # g PROVE Keeps(j, h)
  <2>1. <<"toRce", j>> = r => Net[<<"toRce", j>>][1].gri # h
    BY <1>3, <1>5, <1>9
  <2>2. <<"toRce", j>> \notin W
    BY <1>5 DEF W
  <2>3. hold'[j][h] = hold[j][h]
    BY <1>6, <1>9
  <2> QED BY <1>8, <2>1, <2>2, <2>3, KeepsMoved
<1>10. ASSUME NEW h \in Gri, h # g PROVE Chained(h)'
  <2>1. \A p \in W : y[p].gri # h
    BY <1>1, <1>7, <1>10
  <2>2. \A j \in Dom : q'[j][h] = q[j][h] /\ Keeps(j, h)
    BY <1>6, <1>9, <1>10
  <2>3. \A j \in Dom : r = <<"up", j>> /\ Net[r][1].gri = h => Net[r][1].type # "REMOVE"
    BY <1>5
  <2>4. app'[h] = app[h]
    BY <1>6
  <2> QED BY <1>8, <2>1, <2>2, <2>3, <2>4, ChainedStays
<1>11. Queries(g, i, m)
  BY <1>1, <1>3, HeadTravels DEF Travels
<1>12. /\ Ahead(i, g) /\ Beyond(i, g) /\ q[i][g].st \in Asking /\ m.mask = q[i][g].mask
       /\ Due(i, g, {Asked})
  BY <1>11 DEF Queries
<1>13. OnlyToken(Net, g, r) /\ app[g].st = "asked" /\ Phased(Net, g)
  <2>1. IsToken(g, r, Net[r][1]) /\ Net[r][1].type # "CONFIRM" /\ Orderly(g)
    BY <1>1, <1>3 DEF IsToken, Carried, Kept
  <2> QED BY <1>1, <1>3, <2>1, TokenFirst DEF Orderly
<1>14. \A H : x \in H => Due(i, g, H)'
  <2>1. r = <<"toRce", i>>
    BY <1>5
  <2>2. \A k \in 1 .. Len(Net[r]) : Net[r][k].type \in {"QUERY", "UPDATE", "CONFIRM", "DELETE"}
    BY <1>1, MailTypes DEF RceMsg
  <2>3. hold'[i][g] = x
    BY <1>6
  <2> QED BY <1>8, <1>12, <1>13, <2>1, <2>2, <2>3, DueAnswered
<1>15. Settled(i, g)'
  <2>1. Settled(i, g)
    BY DEF Chained
  <2> QED BY <1>6, <1>12, <2>1 DEF Settled, Idle, Asking, Granted, Released
<1>16. Returns(g, i, a)'
  <2>1. Ahead(i, g)' /\ Beyond(i, g)' /\ q'[i][g].st \in Asking
    BY <1>6, <1>12 DEF Ahead, Beyond
  <2>2. a.type = "ERROR" => Due(i, g, {NoHold})'
    BY <1>14 DEF HeldFor
  <2>3. a.type = "ERO" => Due(i, g, {NoHold, Held(a.tag)})'
    BY <1>14 DEF HeldFor
  <2>4. a.type = "ERO" => q'[i][g].mask = {} \/ a.mask \subseteq q'[i][g].mask
    BY <1>6, <1>12 DEF HeldFor
  <2> QED BY <2>1, <2>2, <2>3, <2>4 DEF Returns, HeldFor
<1>17. \A p \in W : Travels(g, p, y[p])'
  <2>1. Travels(g, w, a)'
    BY <1>1, <1>16 DEF Travels
  <2> QED BY <1>1, <1>7, <2>1
<1>18. Chained(g)'
  <2>1. \A j \in Dom : j # i => q'[j][g] = q[j][g] /\ Keeps(j, g)
    BY <1>6, <1>9
  <2>2. q'[i][g].st \notin Closed
    BY <1>6, <1>12 DEF Asking, Closed
  <2>3. app'[g] = app[g]
    BY <1>6
  <2> QED BY <1>8, <1>13, <1>15, <1>17, <2>1, <2>2, <2>3, RequestMoves
<1> QED BY <1>10, <1>18

LEMMA RceServeChained ==
  ASSUME Typed, Kept, \A h \in Gri : Chained(h), NEW i \in Dom, RceServe(i)
  PROVE  \A h \in Gri : Chained(h)'
<1> DEFINE m == Head(toRce[i])
<1>1. toRce[i] # <<>> /\ m \in RceMsg /\ m = toRce[i][1]
  BY ReaderType DEF RceServe, Typed
<1>2. toRce' = [toRce EXCEPT ![i] = Tail(@)] /\ UNCHANGED <<up, dn, q, app>>
  BY DEF RceServe, narbs, apps
<1>3. PICK g \in Gri : g = m.gri
  BY <1>1 DEF RceMsg
<1>4. m.lspb \in Nat
  BY <1>1 DEF RceMsg
<1>5. CASE m.type = "QUERY"
  <2>1. RceQuery(i, m)
    BY <1>5 DEF RceServe
  <2>2. PICK n : n = m
    OBVIOUS
  <2>3. n = toRce[i][1] /\ n.gri = g /\ n.type = "QUERY" /\ n.lspb \in Nat
    BY <1>1, <1>3, <1>4, <1>5, <2>2
  <2>4. RceQuery(i, n)
    BY <2>1, <2>2
  <2> HIDE DEF m
  <2>5. CASE /\ fromRce' = [fromRce EXCEPT ![i] = Append(@,
                   [type |-> "ERROR", gri |-> n.gri, tag |-> AnyTag, mask |-> {},
                    via |-> "app", lspb |-> n.lspb])]
             /\ hold' = [hold EXCEPT ![i][n.gri] = NoHold]
    <3>1. PICK a : a = [type |-> "ERROR", gri |-> n.gri, tag |-> AnyTag, mask |-> {},
                        via |-> "app", lspb |-> n.lspb]
      OBVIOUS
    <3>2. a \in RceReply /\ a.gri = g /\ a.type = "ERROR"
      BY <2>3, <3>1 DEF RceReply
    <3>3. fromRce' = [fromRce EXCEPT ![i] = Append(@, a)] /\ hold' = [hold EXCEPT ![i][g] = NoHold]
      BY <2>3, <2>5, <3>1
    <3>4. HeldFor(n, a, NoHold)
      BY <3>2 DEF HeldFor
    <3> QED BY <1>1, <1>2, <2>3, <3>2, <3>3, <3>4, RceAnswersChained
  <2>6. ASSUME NEW mask \in SUBSET Tags, mask # {}, NEW via \in Borders,
               n.mask = {} \/ mask \subseteq n.mask,
               fromRce' = [fromRce EXCEPT ![i] = Append(@,
                 [type |-> "ERO", gri |-> n.gri, tag |-> Min(mask), mask |-> mask,
                  via |-> via, lspb |-> n.lspb])],
               hold' = [hold EXCEPT ![i][n.gri] = [kind |-> "held", tag |-> Min(mask)]]
        PROVE  \A h \in Gri : Chained(h)'
    <3>1. PICK a : a = [type |-> "ERO", gri |-> n.gri, tag |-> Min(mask), mask |-> mask,
                        via |-> via, lspb |-> n.lspb]
      OBVIOUS
    <3>2. Min(mask) \in Tags
      BY <2>6, MaskLeast
    <3>3. a \in RceReply
      BY <2>3, <3>1, <3>2 DEF RceReply
    <3>4. a.gri = g /\ a.type = "ERO" /\ a.via # "app" /\ a.mask = mask /\ a.tag = Min(mask)
      BY <2>3, <3>1, BrokerAssumption DEF BrokerAssumption
    <3>5. fromRce' = [fromRce EXCEPT ![i] = Append(@, a)]
          /\ hold' = [hold EXCEPT ![i][g] = Held(a.tag)]
      BY <2>3, <2>6, <3>1, <3>4 DEF Held
    <3>6. n.mask = {} \/ a.mask \subseteq n.mask
      BY <2>6, <3>4
    <3>7. a.mask # {}
      BY <2>6, <3>4
    <3>8. PICK x : x = Held(a.tag)
      OBVIOUS
    <3>9. HeldFor(n, a, x)
      BY <3>4, <3>6, <3>7, <3>8 DEF HeldFor
    <3>10. hold' = [hold EXCEPT ![i][g] = x] /\ fromRce' = [fromRce EXCEPT ![i] = Append(@, a)]
      BY <3>5, <3>8
    <3>11. a.gri = g
      BY <3>4
    <3> QED BY <1>1, <1>2, <2>3, <3>3, <3>9, <3>10, <3>11, RceAnswersChained
  <2>7. CASE \E free \in SUBSET Tags, via \in Borders :
               LET mask == IF n.mask = {} THEN free ELSE free \cap n.mask
               IN  /\ mask # {}
                   /\ fromRce' = [fromRce EXCEPT ![i] = Append(@,
                       [type |-> "ERO", gri |-> n.gri, tag |-> Min(mask), mask |-> mask,
                        via |-> via, lspb |-> n.lspb])]
                   /\ hold' = [hold EXCEPT ![i][n.gri] = [kind |-> "held", tag |-> Min(mask)]]
    <3>1. PICK free \in SUBSET Tags, via \in Borders :
               LET mask == IF n.mask = {} THEN free ELSE free \cap n.mask
               IN  /\ mask # {}
                   /\ fromRce' = [fromRce EXCEPT ![i] = Append(@,
                       [type |-> "ERO", gri |-> n.gri, tag |-> Min(mask), mask |-> mask,
                        via |-> via, lspb |-> n.lspb])]
                   /\ hold' = [hold EXCEPT ![i][n.gri] = [kind |-> "held", tag |-> Min(mask)]]
      BY <2>7
    <3> DEFINE mask == IF n.mask = {} THEN free ELSE free \cap n.mask
    <3>2. mask \in SUBSET Tags /\ (n.mask = {} \/ mask \subseteq n.mask)
      OBVIOUS
    <3>3. /\ mask # {}
          /\ fromRce' = [fromRce EXCEPT ![i] = Append(@,
                 [type |-> "ERO", gri |-> n.gri, tag |-> Min(mask), mask |-> mask,
                  via |-> via, lspb |-> n.lspb])]
          /\ hold' = [hold EXCEPT ![i][n.gri] = [kind |-> "held", tag |-> Min(mask)]]
      BY <3>1
    <3> HIDE DEF mask
    <3> QED BY <2>6, <3>2, <3>3
  <2> QED BY <2>4, <2>5, <2>7 DEF RceQuery
<1>6. CASE m.type # "QUERY"
  <2> DEFINE r == <<"toRce", i>>
             y == <<>>
  <2>1. /\ r \in Places /\ Net[r] = toRce[i]
        /\ \A j \in Dom : r # <<"up", j>> /\ (r = <<"toRce", j>> <=> j = i)
    BY NetAt
  <2>2. fromRce' = fromRce /\ hold' = [hold EXCEPT ![i][g] = Outcome(m)]
    BY <1>3, <1>6 DEF RceServe, Outcome
  <2>3. Net' = Moved(Net, r, {}, y)
    <3>1. ASSUME NEW j \in Dom
          PROVE  /\ up'[j] = up[j] /\ dn'[j] = dn[j] /\ fromRce'[j] = fromRce[j]
                 /\ toRce'[j] = IF j = i THEN Tail(toRce[j]) ELSE toRce[j]
      BY <1>2, <2>2 DEF Typed
    <3>2. ASSUME NEW j \in Dom
          PROVE  /\ <<"up", j>> # r /\ <<"dn", j>> # r /\ <<"fromRce", j>> # r
                 /\ <<"toRce", j>> = r <=> j = i
      OBVIOUS
    <3> HIDE DEF r, y
    <3> QED BY <3>1, <3>2, NetMoves
  <2> HIDE DEF r, y
  <2>4. Movable(Net, r, {}, y)
    BY <1>1, <2>1, NetType DEF Movable
  <2>5. Net[r][1] = m /\ m.gri = g
    BY <1>1, <1>3, <2>1
  <2> HIDE DEF m
  <2>6. \A j \in Dom, h \in Gri :
          hold'[j][h] = IF j = i /\ h = g THEN Outcome(m) ELSE hold[j][h]
    <3>1. hold \in [Dom -> [Gri -> Hold]]
      BY DEF Typed, TypeOK
    <3> QED BY <2>2, <3>1
  <2>7. ASSUME NEW j \in Dom, NEW h \in Gri PROVE Keeps(j, h)
    <3>1. CASE j = i /\ h = g
      <4>1. r = <<"toRce", j>> /\ hold'[j][h] = Outcome(Net[r][1]) /\ Net[r][1].gri = h
        BY <2>1, <2>5, <2>6, <3>1
      <4> QED BY <2>3, <2>4, <4>1, KeepsNotified
    <3>2. CASE ~(j = i /\ h = g)
      <4>1. <<"toRce", j>> = r => Net[<<"toRce", j>>][1].gri # h
        BY <2>1, <2>5, <3>2
      <4>2. hold'[j][h] = hold[j][h]
        BY <2>6, <3>2
      <4> QED BY <2>3, <2>4, <4>1, <4>2, KeepsMoved
    <3> QED BY <3>1, <3>2
  <2>8. q' = q /\ app' = app
    BY <1>2
  <2> QED BY <2>1, <2>3, <2>4, <2>7, <2>8, ChainedStays
<1> QED BY <1>5, <1>6

LEMMA ExpireChained ==
  ASSUME Typed, \A h \in Gri : Chained(h), NEW i \in Dom, NEW g \in Gri, Expire(i, g)
  PROVE  \A h \in Gri : Chained(h)'
<1> DEFINE y == <<>>
<1>1. /\ q' = q /\ app' = app /\ up' = up /\ dn' = dn /\ toRce' = toRce /\ fromRce' = fromRce
      /\ hold[i][g].kind = "held" /\ hold' = [hold EXCEPT ![i][g] = NoHold]
  BY DEF Expire, chans, narbs, apps
<1>2. \A p \in Places : p # NoPlace
  BY PlaceIs DEF Places, NoPlace
<1>3. Net' = Moved(Net, NoPlace, {}, y)
  BY <1>1, <1>2 DEF Net, Moved
<1> HIDE DEF y
<1>4. Movable(Net, NoPlace, {}, y)
  BY <1>2, NetType DEF Movable
<1>5. ASSUME NEW j \in Dom, NEW h \in Gri PROVE Keeps(j, h)
  <2>1. hold \in [Dom -> [Gri -> Hold]]
    BY DEF Typed, TypeOK
  <2>2. hold'[j][h] = hold[j][h] \/ (hold[j][h].kind = "held" /\ hold'[j][h] = NoHold)
    BY <1>1, <2>1
  <2>3. /\ <<"toRce", j>> = NoPlace => Net[<<"toRce", j>>][1].gri # h
        /\ <<"toRce", j>> \in {} => y[<<"toRce", j>>].gri # h
    BY DEF NoPlace
  <2> QED BY <1>3, <1>4, <2>2, <2>3, KeepsMoved
<1>6. \A j \in Dom : NoPlace # <<"up", j>>
  BY DEF NoPlace
<1> QED BY <1>1, <1>3, <1>4, <1>5, <1>6, ChainedStays

-----------------------------------------------------------------------------
(* What is held of a request that nothing is on the way of.                *)

LEMMA ChainedInit == Init => Linked /\ \A g \in Gri : Chained(g)
<1> SUFFICES ASSUME Init, NEW g \in Gri PROVE Linked /\ Chained(g)
  BY DEF Linked, Init
<1>0. \A p \in Places : Net[p] = <<>>
  <2>1. ASSUME NEW j \in Dom
        PROVE  /\ Net[<<"up", j>>] = <<>> /\ Net[<<"dn", j>>] = <<>>
               /\ Net[<<"toRce", j>>] = <<>> /\ Net[<<"fromRce", j>>] = <<>>
    BY NetAt DEF Init
  <2> QED BY <2>1, PlaceIs
<1>1. \A j \in Dom : q[j][g].st = "none" /\ hold[j][g] = NoHold /\ <<"toRce", j>> \in Places
  BY NetAt DEF Init, NoneOf, NoLspq
<1>11. \A p \in Places : \A k \in 1 .. Len(Net[p]) : FALSE
  BY <1>0
<1>2. \A j \in Dom : Due(j, g, {NoHold})
  BY <1>1, <1>11 DEF Due, Comes
<1>3. \A j \in Dom : Settled(j, g)
  BY <1>1, <1>2 DEF Settled, Asking, Granted
<1>4. \A p \in Places : Mail(p) = {}
  BY <1>11 DEF Mail
<1>5. Standing(g)
  <2>1. app[g].st = "idle"
    BY DEF Init
  <2> QED BY <1>1, <2>1 DEF Standing, Engaged, Idle, Released
<1>6. Linked
  BY DEF Linked, Init
<1> QED BY <1>3, <1>4, <1>5, <1>6 DEF Chained

LEMMA ChainedStep ==
  ASSUME Steady, Typed, Kept, Linked, \A g \in Gri : Chained(g), [Next]_vars
  PROVE  Linked' /\ \A g \in Gri : Chained(g)'
<1>1. ASSUME NEW i \in Dom, ReadMessage(i) \/ ReadRCEReply(i) \/ ReadPeerReply(i)
      PROVE  Linked' /\ \A g \in Gri : Chained(g)'
  BY <1>1, ReadMessageChained, ReadRCEReplyChained, ReadPeerReplyChained DEF Steady
<1>2. ASSUME UNCHANGED <<live, rcli>> PROVE Linked'
  BY <1>2 DEF Linked
<1>3. ASSUME NEW i \in Dom, RceServe(i) PROVE Linked' /\ \A g \in Gri : Chained(g)'
  BY <1>2, <1>3, RceServeChained DEF RceServe, narbs
<1>4. ASSUME NEW i \in Dom, NEW g \in Gri, Expire(i, g)
      PROVE  Linked' /\ \A h \in Gri : Chained(h)'
  BY <1>2, <1>4, ExpireChained DEF Expire, narbs
<1>5. ASSUME NEW g \in Gri,
             AppAsk(g) \/ AppConfirm(g) \/ AppRelease(g) \/ AppRepeat(g) \/ AppRetransmit(g)
      PROVE  Linked' /\ \A h \in Gri : Chained(h)'
  <2>1. \/ app[g].st \in {"idle", "failed"} /\ Send(g, "REQUEST", "asked")
        \/ app[g].st \in {"granted", "confirmed"} /\ Send(g, "CONFIRM", "confirmed")
        \/ app[g].st \in {"confirmed", "leaving"} /\ Send(g, "REMOVE", "leaving")
    BY <1>5 DEF Steady, AppAsk, AppConfirm, AppRelease, AppRepeat, AppRetransmit
  <2>2. UNCHANGED <<live, rcli>>
    BY <2>1 DEF Send, narbs
  <2> QED BY <1>2, <2>1, <2>2, AskChained, ConfirmSentChained, RepeatChained, LeaveChained
<1>6. CASE AppRead
  BY <1>2, <1>6, AppReadChained DEF AppRead, narbs
<1>7. \A i \in Dom : ~RceStop(i) /\ ~RceStart(i) /\ ~NarbRestart(i) /\ ~AppReconnect
  BY DEF Steady, RceStop, RceStart, NarbRestart, AppReconnect, Fault, Linked
<1>8. CASE Next
  BY <1>1, <1>3, <1>4, <1>5, <1>6, <1>7, <1>8, OneInDom DEF Next
<1>9. CASE UNCHANGED vars
  <2>1. Net' = Net /\ q' = q /\ app' = app /\ hold' = hold
    BY <1>9 DEF vars, Net
  <2>2. ASSUME NEW g \in Gri PROVE Chained(g)'
    <3>1. \A j, H : Due(j, g, H) => Due(j, g, H)'
      BY <2>1 DEF Due
    <3>2. \A j \in Dom : Settled(j, g) => Settled(j, g)'
      <4> SUFFICES ASSUME NEW j \in Dom, Settled(j, g) PROVE Settled(j, g)'
        OBVIOUS
      <4>1. Keeps(j, g)
        BY <3>1 DEF Keeps
      <4> QED BY <2>1, <4>1, SettledStays
    <3>3. ASSUME NEW p \in Places, NEW m, m \in Mail(p)', m.gri = g PROVE Travels(g, p, m)'
      <4>1. m \in Mail(p)
        BY <2>1, <3>3 DEF Mail
      <4>2. Travels(g, p, m) /\ \A j : Keeps(j, g)
        BY <3>1, <3>3, <4>1 DEF Chained, Keeps
      <4> QED BY <2>1, <4>2, TravelsStays
    <3>4. Standing(g)'
      BY <2>1 DEF Chained, Standing
    <3> QED BY <3>2, <3>3, <3>4 DEF Chained
  <2> QED BY <1>2, <1>9, <2>2 DEF vars
<1> QED BY <1>8, <1>9

LEMMA QuietDue ==
  ASSUME NEW g, Quiet(g), NEW i \in Dom, NEW H, Due(i, g, H)
  PROVE  hold[i][g] \in H
<1>1. Net[<<"toRce", i>>] = toRce[i]
  BY NetAt
<1> QED BY <1>1 DEF Quiet, Silent, Due, Comes

LEMMA QuietUp ==
  ASSUME NEW g, Quiet(g), NEW i \in Dom, NEW type
  PROVE  ~Has(Net[<<"up", i>>], g, type)
<1>1. Net[<<"up", i>>] = up[i]
  BY NetAt
<1> QED BY <1>1 DEF Quiet, Silent, Has

(* What is true of the first domain, and of the next one as long as the ERO*)
(* goes on, is true of every domain of the ERO.                            *)
LEMMA AlongEro ==
  ASSUME Typed, NEW g \in Gri, NEW S, app[g].ero >= 1 => 1 \in S,
         \A j \in Dom : j \in S /\ j < app[g].ero => j + 1 \in S
  PROVE  \A j \in 1 .. app[g].ero : j \in S /\ j \in Dom
<1>0. app[g].ero \in 0 .. N /\ N \in Nat
  BY BrokerAssumption DEF Typed, TypeOK, AppView, BrokerAssumption
<1> DEFINE T == {j \in 1 .. app[g].ero : j \notin S}
<1>1. ASSUME T # {} PROVE FALSE
  <2>1. T \subseteq Nat /\ IsFiniteSet(T)
    <3>1. IsFiniteSet(1 .. app[g].ero)
      BY <1>0, FS_Interval
    <3> QED BY <1>0, <3>1, FS_Subset
  <2>2. PICK x \in T : \A y \in T : x <= y
    BY <1>1, <2>1, LeastExists
  <2>3. x # 1
    BY <1>0, <2>2
  <2>4. x - 1 \in 1 .. app[g].ero /\ ~(x <= x - 1) /\ x - 1 < app[g].ero /\ (x - 1) + 1 = x
    BY <1>0, <2>2, <2>3
  <2>5. x - 1 \in S
    BY <2>2, <2>4
  <2>6. x - 1 \in Dom
    BY <1>0, <2>4 DEF Dom
  <2> QED BY <2>2, <2>4, <2>5, <2>6
<1>2. 1 .. app[g].ero \subseteq Dom
  BY <1>0 DEF Dom
<1> QED BY <1>1, <1>2

LEMMA ChainedConfirmed ==
  ASSUME Typed, Kept, \A g \in Gri : Chained(g)
  PROVE  ConfirmedEverywhere
<1> SUFFICES ASSUME NEW g \in Gri, app[g].st = "confirmed", Quiet(g)
             PROVE  \A i \in 1 .. app[g].ero :
                      /\ q[i][g].st = "RESV_CONFIRM"
                      /\ hold[i][g] = [kind |-> "reserved", tag |-> app[g].tag]
  BY DEF ConfirmedEverywhere
<1>1. Chained(g) /\ Standing(g) /\ Ordered(Net, g) /\ app[g].st \in Engaged
  BY DEF Chained, Kept, Orderly, Engaged
<1> DEFINE S == {j \in Dom : q[j][g].st = "RESV_CONFIRM"}
<1>2. \A j \in Dom : j <= app[g].ero => q[j][g].st \in Granted \cup {"RESV_CONFIRM"}
  BY <1>1 DEF Standing, Leaving, Closed, Released, Engaged
<1>3. app[g].ero >= 1 => 1 \in S
  <2>1. q[1][g].st \notin Granted
    BY <1>1, OneInDom, QuietUp DEF Ordered
  <2> QED BY <1>2, <2>1, OneInDom
<1>4. ASSUME NEW j \in Dom, j \in S, j < app[g].ero PROVE j + 1 \in S
  <2>1. /\ j + 1 \in Dom /\ j + 1 # 1 /\ (j + 1) - 1 = j
        /\ app[g].ero >= j + 1 /\ j + 1 <= app[g].ero
    <3>1. app[g].ero \in 0 .. N
      BY DEF Typed, TypeOK, AppView
    <3> QED BY <1>4, <3>1, BrokerAssumption DEF Dom, BrokerAssumption
  <2>2. q[j + 1][g].st \notin Granted
    BY <1>1, <1>4, <2>1, QuietUp DEF Ordered
  <2> QED BY <1>2, <2>1, <2>2
<1>5. \A j \in 1 .. app[g].ero : j \in S /\ j \in Dom
  <2> HIDE DEF S
  <2> QED BY <1>3, <1>4, AlongEro
<1>6. ASSUME NEW i \in 1 .. app[g].ero PROVE hold[i][g] = Reserved(app[g].tag)
  <2>1. i \in Dom /\ Due(i, g, {Reserved(app[g].tag)})
    BY <1>1, <1>5, <1>6 DEF Chained, Settled
  <2> QED BY <2>1, QuietDue
<1> QED BY <1>5, <1>6 DEF Reserved

LEMMA ChainedReleased ==
  ASSUME Typed, Kept, \A g \in Gri : Chained(g)
  PROVE  ReleasedEverywhere
<1> SUFFICES ASSUME NEW g \in Gri, app[g].st = "done", Quiet(g)
             PROVE  \A i \in 1 .. app[g].ero : hold[i][g] = NoHold /\ q[i][g].st # "RESV_CONFIRM"
  BY DEF ReleasedEverywhere
<1>1. Chained(g) /\ Standing(g)
  BY DEF Chained
<1> DEFINE S == {j \in Dom : q[j][g].st \in Released}
<1>2. 1 \in S
  BY <1>1, OneInDom DEF Standing
<1>3. ASSUME NEW j \in Dom, j \in S, j < app[g].ero PROVE j + 1 \in S
  <2>1. j + 1 \in Dom
    <3>1. app[g].ero \in 0 .. N
      BY DEF Typed, TypeOK, AppView
    <3> QED BY <1>3, <3>1, BrokerAssumption DEF Dom, BrokerAssumption
  <2> QED BY <1>1, <1>3, <2>1, QuietUp DEF Standing
<1>4. \A j \in 1 .. app[g].ero : j \in S /\ j \in Dom
  <2> HIDE DEF S
  <2> QED BY <1>2, <1>3, AlongEro
<1>5. ASSUME NEW i \in 1 .. app[g].ero PROVE hold[i][g] = NoHold /\ q[i][g].st # "RESV_CONFIRM"
  <2>1. i \in Dom /\ Due(i, g, {NoHold}) /\ q[i][g].st # "RESV_CONFIRM"
    BY <1>1, <1>4, <1>5 DEF Chained, Settled, Released
  <2> QED BY <2>1, QuietDue
<1> QED BY <1>5

LEMMA ChainedHolds ==
  ASSUME \A g \in Gri : Chained(g)
  PROVE  TagHeldEverywhere /\ FailureLeavesNoHold
<1>1. ASSUME NEW g \in Gri, g \in Qconf, app[g].st = "granted", Quiet(g), NEW i \in Dom,
             hold[i][g].kind = "held"
      PROVE  hold[i][g].tag = app[g].tag
  <2>1. Settled(i, g) /\ Standing(g)
    BY DEF Chained
  <2>2. CASE q[i][g].st \in Idle
    <3>1. hold[i][g] \in {NoHold}
      BY <1>1, <2>1, <2>2, QuietDue DEF Settled
    <3> QED BY <1>1, <3>1 DEF NoHold
  <2>3. CASE q[i][g].st \in Granted
    <3>1. hold[i][g] \in {NoHold, Held(q[i][g].tag)} /\ q[i][g].tag = app[g].tag
      BY <1>1, <2>1, <2>3, QuietDue DEF Settled, Standing
    <3> QED BY <1>1, <3>1 DEF NoHold, Held
  <2> QED BY <1>1, <2>1, <2>2, <2>3 DEF Standing
<1>2. ASSUME NEW g \in Gri, app[g].st = "failed", Quiet(g), NEW i \in Dom
      PROVE  hold[i][g] = NoHold
  <2>1. Due(i, g, {NoHold})
    BY <1>2 DEF Chained, Settled, Standing
  <2> QED BY <1>2, <2>1, QuietDue
<1> QED BY <1>1, <1>2, BrokerAssumption DEF TagHeldEverywhere, FailureLeavesNoHold, BrokerAssumption

LEMMA ChainedPromises ==
  ASSUME Typed, Kept, \A g \in Gri : Chained(g)
  PROVE  ConfirmedEverywhere /\ TagHeldEverywhere /\ ReleasedEverywhere /\ FailureLeavesNoHold
BY ChainedConfirmed, ChainedReleased, ChainedHolds

(* In a chain of any length, for any set of requests no larger than the     *)
(* bandwidth, however messages of the domains interleave, whichever RCEs    *)
(* find no path, whichever holds expire and however often a failed request  *)
(* and a release are repeated: what the application has confirmed is        *)
(* confirmed, and its tag reserved, in every domain of its ERO, and with a  *)
(* confirmation ID the tag it was granted is the one held in all of them    *)
(* (HandleResvConfirm, HandleNextHopNARBReply); what it has released, and a *)
(* path that failed, is held in none (HandleResvRelease, HandleErrorCode).  *)
THEOREM DomainsAgree ==
  ASSUME Steady, Cardinality(Gri) <= MaxBw
  PROVE  Spec => [](ConfirmedEverywhere /\ TagHeldEverywhere
                      /\ ReleasedEverywhere /\ FailureLeavesNoHold)
<1> DEFINE IInv == Typed /\ Kept /\ Linked /\ \A g \in Gri : Chained(g)
<1>0. Patient
  BY DEF Patient, Steady
<1>1. Init => IInv
  BY KeptInit, ChainedInit
<1>2. IInv /\ [Next]_vars => IInv'
  BY <1>0, KeptStep, ChainedStep
<1>3. IInv => ConfirmedEverywhere /\ TagHeldEverywhere /\ ReleasedEverywhere /\ FailureLeavesNoHold
  BY ChainedPromises
<1> QED BY <1>1, <1>2, <1>3, PTL DEF Spec

(* What the chain of domains among the scenes keeps.                        *)
ChainHolds == scene = "chain" => Typed /\ Kept /\ Linked /\ \A g \in Gri : Chained(g)

LEMMA ChainHoldsAlways ==
  ASSUME Steady, Cardinality(Gri) <= MaxBw
  PROVE  SceneSpec => []ChainHolds
<1>0. Patient
  BY DEF Patient, Steady
<1>1. SceneInit => ChainHolds
  BY KeptInit, ChainedInit DEF SceneInit, ChainHolds
<1>2. ChainHolds /\ [SceneNext]_<<vars, scene>> => ChainHolds'
  <2> SUFFICES ASSUME ChainHolds, [SceneNext]_<<vars, scene>>, scene' = "chain"
               PROVE  (Typed /\ Kept /\ Linked /\ \A g \in Gri : Chained(g))'
    BY DEF ChainHolds
  <2>1. scene = "chain" /\ [Next]_vars
    BY DEF SceneNext
  <2>2. Typed /\ Kept /\ Linked /\ \A g \in Gri : Chained(g)
    BY <2>1 DEF ChainHolds
  <2>3. (Typed /\ Kept)'
    BY <1>0, <2>1, <2>2, KeptStep
  <2>4. (Linked /\ \A g \in Gri : Chained(g))'
    BY <2>1, <2>2, ChainedStep
  <2> QED BY <2>3, <2>4
<1> QED BY <1>1, <1>2, PTL DEF SceneSpec

(* In the chain among the scenes, what the application has confirmed is     *)
(* confirmed, and its tag reserved, in every domain of its ERO, on the tag  *)
(* it was granted (HandleResvConfirm, HandleNextHopNARBReply).              *)
THEOREM ChainIsConfirmed ==
  ASSUME Steady, Cardinality(Gri) <= MaxBw
  PROVE  SceneSpec => []ChainConfirmed
<1>1. ChainHolds => ChainConfirmed
  BY ChainedPromises DEF ChainHolds, ChainConfirmed
<1> QED BY <1>1, ChainHoldsAlways, PTL

(* In the chain among the scenes, nothing stays held or confirmed of what   *)
(* was released or could not be completed (HandleResvRelease,               *)
(* HandleErrorCode).                                                        *)
THEOREM ChainLeavesNothing ==
  ASSUME Steady, Cardinality(Gri) <= MaxBw
  PROVE  SceneSpec => []ChainNothingLeft
<1>1. ChainHolds => ChainNothingLeft
  BY ChainedPromises DEF ChainHolds, ChainNothingLeft
<1> QED BY <1>1, ChainHoldsAlways, PTL

=============================================================================

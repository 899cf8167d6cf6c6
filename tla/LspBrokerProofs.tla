--------------------------- MODULE LspBrokerProofs ---------------------------
(***************************************************************************)
(* Theorems about the LSP brokers, for every number of domains, every set  *)
(* of requests and tags, and every bound of the model.                     *)
(***************************************************************************)
EXTENDS MCLspBroker, TLAPS, FiniteSetTheorems, SequenceTheorems

(* What travels on each kind of connection.                                *)
UpMsg    == [type : {"REQUEST", "PEER_REQUEST", "CONFIRM", "REMOVE"}, gri : Gri,
             via : Borders \cup {"app"}, mask : SUBSET Tags, tag : Tags \cup {AnyTag},
             lspb : Nat, ero : 0 .. N]
DnMsg    == [type : {"ERO", "ID", "ERROR", "RELEASED"}, gri : Gri,
             tag : Tags \cup {AnyTag}, lspb : Nat, ero : 0 .. N, mask : SUBSET Tags]
RceMsg   == [type : {"QUERY", "UPDATE", "CONFIRM", "DELETE"}, gri : Gri,
             mask : SUBSET Tags, tag : Tags \cup {AnyTag}, lspb : Nat]
RceReply == [type : {"ERO", "ERROR"}, gri : Gri, tag : Tags \cup {AnyTag},
             mask : SUBSET Tags, via : Borders \cup {"app"}, lspb : Nat]
Msg      == UpMsg \cup DnMsg \cup RceMsg \cup RceReply

Typed ==
  /\ TypeOK
  /\ q \in [Dom -> [Gri -> Lspq \cup {NoLspq}]]
  /\ up \in [Dom -> Seq(UpMsg)] /\ dn \in [Dom -> Seq(DnMsg)]
  /\ toRce \in [Dom -> Seq(RceMsg)] /\ fromRce \in [Dom -> Seq(RceReply)]
  /\ lspb \in [Dom -> Nat] /\ sends \in [Gri -> Nat] /\ faults \in Nat

(* The channels as one function.  A place is a kind of channel and the     *)
(* domain whose NARB is at its upper or only end.                          *)
Places == {"up", "dn", "toRce", "fromRce"} \X Dom
Net == [p \in Places |-> CASE p[1] = "up"    -> up[p[2]]
                           [] p[1] = "dn"    -> dn[p[2]]
                           [] p[1] = "toRce" -> toRce[p[2]]
                           [] OTHER          -> fromRce[p[2]]]

(* The messages of which there is one at a time for a GRI: what a request  *)
(* turns into on its way to the last domain and back.                      *)
Carried(kind) == CASE kind = "up"    -> {"REQUEST", "PEER_REQUEST"}
                   [] kind = "toRce" -> {"QUERY"}
                   [] OTHER          -> {"ERO", "ID", "ERROR"}

TokenAt(C, g, p, k) ==
  /\ p \in Places /\ k \in 1 .. Len(C[p])
  /\ C[p][k].gri = g /\ C[p][k].type \in Carried(p[1])

OneToken(C, g) ==
  \A p1, p2 \in Places : \A k1 \in 1 .. Len(C[p1]), k2 \in 1 .. Len(C[p2]) :
    TokenAt(C, g, p1, k1) /\ TokenAt(C, g, p2, k2) => p1 = p2 /\ k1 = k2

Has(s, g, type) == \E k \in 1 .. Len(s) : s[k].gri = g /\ s[k].type = type

Engaged == {"confirmed", "leaving", "done"}

(* A request is under way only as long as the application waits for it; a  *)
(* confirmation, any number of times, and what follows it only after.      *)
Phased(C, g) ==
  /\ OneToken(C, g)
  /\ \A p \in Places : \A k \in 1 .. Len(C[p]) :
       TokenAt(C, g, p, k) => app[g].st = "asked"
  /\ \A i \in Dom : \/ q[i][g].st \in Closed
                     \/ \E type \in {"CONFIRM", "REMOVE"} : Has(C[<<"up", i>>], g, type)
                    => app[g].st \in Engaged

(* A path is confirmed, never an empty ERO.  A release does not overtake   *)
(* the confirmation before it, and what was granted is confirmed in each   *)
(* domain as far as the confirmation has come.                             *)
Ordered(C, g) ==
  /\ app[g].st \in Engaged => app[g].ero >= 1
  /\ \A i \in Dom : \A k \in 1 .. Len(C[<<"up", i>>]) :
       C[<<"up", i>>][k].gri = g =>
         /\ C[<<"up", i>>][k].type \in {"CONFIRM", "REMOVE"} =>
              C[<<"up", i>>][k].ero = app[g].ero
         /\ C[<<"up", i>>][k].type = "REMOVE" /\ q[i][g].st \in Granted =>
              \E j \in 1 .. k - 1 : C[<<"up", i>>][j].gri = g
                                    /\ C[<<"up", i>>][j].type = "CONFIRM"
  /\ \A i \in Dom : q[i][g].st \in Granted =>
       IF i = 1 THEN app[g].st \in Engaged => Has(C[<<"up", 1>>], g, "CONFIRM")
       ELSE q[i - 1][g].st = "RESV_CONFIRM" /\ app[g].ero >= i
              => Has(C[<<"up", i>>], g, "CONFIRM")

-----------------------------------------------------------------------------
(* The least tag of a mask.                                                *)

LEMMA LeastExists ==
  ASSUME NEW S, S \subseteq Nat, S # {}, IsFiniteSet(S)
  PROVE  \E x \in S : \A y \in S : x <= y
<1> DEFINE R == StrictSubsetOrdering(S)
           Below(x) == {y \in S : y < x}
           T == {Below(x) : x \in S}
<1>1. IsWellFoundedOn(R, FiniteSubsetsOf(S))
  BY FS_StrictSubsetOrderingWellFounded
<1>2. T # {} /\ \A X \in T : \E x \in S : X = Below(x)
  OBVIOUS
<1>3. \A x \in S : Below(x) \in FiniteSubsetsOf(S) /\ Below(x) \in T
  BY FS_Subset DEF FiniteSubsetsOf
<1>4. ASSUME NEW x \in S, NEW y \in S, y < x PROVE <<Below(y), Below(x)>> \in R
  <2> HIDE DEF T
  <2>1. x \in Nat /\ y \in Nat
    OBVIOUS
  <2>2. \A z \in Nat : z < y => z < x
    BY <1>4, <2>1
  <2>3. Below(y) \subseteq Below(x)
    BY <2>2
  <2>4. y \in Below(x) /\ y \notin Below(y)
    BY <1>4, <2>1
  <2> QED BY <2>3, <2>4 DEF StrictSubsetOrdering
<1> HIDE DEF T, R, Below
<1>5. PICK X \in T : \A Y \in T : ~(<<Y, X>> \in R)
  <2>1. T \subseteq FiniteSubsetsOf(S) /\ T # {}
    BY <1>2, <1>3
  <2> QED BY <1>1, <2>1, WFMin
<1>6. PICK x \in S : X = Below(x)
  BY <1>2
<1>7. \A y \in S : ~(y < x)
  BY <1>3, <1>4, <1>5, <1>6
<1> QED BY <1>7

LEMMA MinLeast ==
  ASSUME NEW S, S \subseteq Nat, S # {}, IsFiniteSet(S)
  PROVE  Min(S) \in S /\ \A y \in S : Min(S) <= y
BY LeastExists DEF Min

LEMMA MaskLeast ==
  ASSUME NEW mask \in SUBSET Tags, mask # {}
  PROVE  Min(mask) \in mask /\ \A t \in mask : Min(mask) <= t
<1>1. IsFiniteSet(mask)
  BY BrokerAssumption, FS_Subset DEF BrokerAssumption
<1>2. mask \subseteq Nat
  BY BrokerAssumption DEF BrokerAssumption
<1> QED BY <1>1, <1>2, MinLeast

-----------------------------------------------------------------------------
(* What a handler leaves behind for the messages of one GRI: the LSPQ, and *)
(* at most one message on each channel.                                    *)

UpTo1(S)   == {<<>>} \cup {<<m>> : m \in S}
Of(S, g)   == {m \in S : m.gri = g}
Clients    == {"none", "up", "stale"}
Effects(g) == [l : Lspq \cup {NoLspq}, rce : UpTo1(Of(RceMsg, g)), rcli : Clients,
               peer : UpTo1(Of(UpMsg, g)), conn : BOOLEAN,
               client : UpTo1(Of(DnMsg, g)), bw : 0 .. MaxBw]
Blank(f)   == f.rce = <<>> /\ f.peer = <<>> /\ f.client = <<>>

(* At most one of the messages is a token, and it is not a confirmation.   *)
YieldsOne(f) ==
  \/ f.peer = <<>> /\ f.client = <<>>
  \/ /\ f.peer = <<>> /\ f.client # <<>> /\ f.client[1].type # "RELEASED"
     /\ f.rce # <<>> => f.rce[1].type # "QUERY"
  \/ f.client = <<>> /\ f.rce = <<>> /\ f.peer # <<>> /\ f.peer[1].type = "PEER_REQUEST"

(* The outcome of a handler that a token has called.                       *)
Proceeds(g, f, h) ==
  /\ h \in Effects(g) /\ h.l \in Lspq /\ h.bw = f.bw /\ YieldsOne(h)
  /\ h.l.st \in Closed => h.l.st = f.l.st

LEMMA StayEffect ==
  ASSUME Typed, NEW i \in Dom, NEW g \in Gri
  PROVE  /\ Stay(i, q[i][g]) \in Effects(g) /\ Blank(Stay(i, q[i][g]))
         /\ Stay(i, q[i][g]).bw = bw[i] /\ Stay(i, q[i][g]).l = q[i][g]
BY DEF Stay, Typed, TypeOK, Effects, UpTo1, Blank, Clients

(* h is f but for its LSPQ; but for the state of it; but for the client    *)
(* and the messages on each of the channels.                               *)
OnlyLspq(f, h)  == /\ h.rce = f.rce /\ h.rcli = f.rcli /\ h.peer = f.peer
                   /\ h.conn = f.conn /\ h.client = f.client /\ h.bw = f.bw
SameAims(l, m)  == /\ m.tag = l.tag /\ m.mask = l.mask /\ m.sug = l.sug /\ m.via = l.via
                   /\ m.prev = l.prev /\ m.retran = l.retran /\ m.ero = l.ero
OnlySt(f, h)    == OnlyLspq(f, h) /\ h.l \in Lspq /\ SameAims(f.l, h.l)
OnlyRce(f, h)   == /\ h.l = f.l /\ h.peer = f.peer /\ h.conn = f.conn
                   /\ h.client = f.client /\ h.bw = f.bw
OnlyReply(f, h) == /\ h.l = f.l /\ h.rce = f.rce /\ h.rcli = f.rcli /\ h.peer = f.peer
                   /\ h.conn = f.conn /\ h.bw = f.bw

LEMMA StateEffect ==
  ASSUME NEW g \in Gri, NEW f \in Effects(g), f.l \in Lspq, NEW st \in States
  PROVE  State(f, st) \in Effects(g) /\ OnlySt(f, State(f, st)) /\ State(f, st).l.st = st
BY DEF State, Effects, Lspq, OnlySt, OnlyLspq, SameAims

LEMMA AnswerType ==
  ASSUME NEW g \in Gri, NEW l \in Lspq, NEW type \in {"ERO", "ID", "ERROR", "RELEASED"}
  PROVE  Answer(type, g, l) \in Of(DnMsg, g) /\ Answer(type, g, l).type = type
BY DEF Answer, Lspq, DnMsg, Of

LEMMA ReplyEffect ==
  ASSUME NEW g \in Gri, NEW f \in Effects(g), f.client = <<>>, NEW m \in Of(DnMsg, g)
  PROVE  Reply(f, m) \in Effects(g) /\ OnlyReply(f, Reply(f, m)) /\ Reply(f, m).client = <<m>>
<1>1. Append(<<>>, m) = <<m>>
  OBVIOUS
<1> QED BY <1>1 DEF Reply, Effects, UpTo1, OnlyReply

LEMMA PostedEffect ==
  ASSUME NEW g \in Gri, NEW f \in Effects(g), f.rce = <<>>, NEW c \in Clients,
         NEW m \in Of(RceMsg, g)
  PROVE  /\ Posted(f, c, m) \in Effects(g) /\ OnlyRce(f, Posted(f, c, m))
         /\ Posted(f, c, m).rcli = c
         /\ Posted(f, c, m).rce = IF c = "up" THEN <<m>> ELSE <<>>
<1>1. Append(<<>>, m) = <<m>>
  OBVIOUS
<1> QED BY <1>1 DEF Posted, Effects, UpTo1, OnlyRce

LEMMA QueryEffect ==
  ASSUME NEW g \in Gri, NEW f \in Effects(g), f.rce = <<>>, NEW mask \in SUBSET Tags,
         NEW id \in Nat
  PROVE  /\ Query(f, g, mask, id) \in Effects(g) /\ OnlyRce(f, Query(f, g, mask, id))
         /\ Query(f, g, mask, id).rce # <<>> =>
              Query(f, g, mask, id).rce = <<[type |-> "QUERY", gri |-> g, mask |-> mask,
                                             tag |-> AnyTag, lspb |-> id]>>
         /\ f.rcli # "stale" => /\ Query(f, g, mask, id).rce # <<>>
                                /\ Query(f, g, mask, id).rcli = "up"
<1> DEFINE m == [type |-> "QUERY", gri |-> g, mask |-> mask, tag |-> AnyTag, lspb |-> id]
           c == IF f.rcli = "none" THEN "up" ELSE f.rcli
<1>1. m \in Of(RceMsg, g)
  BY DEF RceMsg, Of
<1>2. c \in Clients /\ (f.rcli # "stale" => c = "up")
  BY DEF Effects, Clients
<1>3. Query(f, g, mask, id) = Posted(f, c, m)
  BY DEF Query
<1> HIDE DEF m, c
<1>4. /\ Posted(f, c, m) \in Effects(g) /\ OnlyRce(f, Posted(f, c, m))
      /\ Posted(f, c, m).rcli = c
      /\ Posted(f, c, m).rce = IF c = "up" THEN <<m>> ELSE <<>>
  BY <1>1, <1>2, PostedEffect
<1>5. <<m>> # <<>>
  OBVIOUS
<1> QED BY <1>2, <1>3, <1>4, <1>5 DEF m

LEMMA NotifyEffect ==
  ASSUME NEW i \in Dom, NEW g \in Gri, NEW f \in Effects(g), f.rce = <<>>,
         NEW type \in {"UPDATE", "CONFIRM", "DELETE"}, NEW tag \in Tags \cup {AnyTag}
  PROVE  /\ Notify(i, f, type, g, tag) \in Effects(g)
         /\ OnlyRce(f, Notify(i, f, type, g, tag))
         /\ Notify(i, f, type, g, tag).rce # <<>> =>
              Notify(i, f, type, g, tag).rce = <<[type |-> type, gri |-> g, mask |-> {},
                                                  tag |-> tag, lspb |-> 0]>>
         /\ f.rcli # "stale" /\ i \in live => /\ Notify(i, f, type, g, tag).rce # <<>>
                                              /\ Notify(i, f, type, g, tag).rcli = "up"
<1> DEFINE m == [type |-> type, gri |-> g, mask |-> {}, tag |-> tag, lspb |-> 0]
           c == IF f.rcli # "none" THEN f.rcli ELSE IF i \in live THEN "up" ELSE "stale"
<1>1. m \in Of(RceMsg, g)
  BY DEF RceMsg, Of
<1>2. c \in Clients /\ (f.rcli # "stale" /\ i \in live => c = "up")
  BY DEF Effects, Clients
<1>3. Notify(i, f, type, g, tag) = Posted(f, c, m)
  BY DEF Notify
<1> HIDE DEF m, c
<1>4. /\ Posted(f, c, m) \in Effects(g) /\ OnlyRce(f, Posted(f, c, m))
      /\ Posted(f, c, m).rcli = c
      /\ Posted(f, c, m).rce = IF c = "up" THEN <<m>> ELSE <<>>
  BY <1>1, <1>2, PostedEffect
<1>5. <<m>> # <<>>
  OBVIOUS
<1> QED BY <1>2, <1>3, <1>4, <1>5 DEF m

-----------------------------------------------------------------------------
(* The handlers of a path request.                                         *)

(* Nothing but the RCE client stands between a NARB and its RCE.           *)
Connected(i, f) == f.rcli # "stale" /\ i \in live

LEMMA ErrorCode ==
  ASSUME NEW i \in Dom, NEW g \in Gri, NEW f \in Effects(g), f.l \in Lspq,
         f.rce = <<>>, f.client = <<>>, NEW h, h = HandleErrorCode(i, g, f)
  PROVE  /\ h \in Effects(g) /\ h.bw = f.bw /\ h.peer = f.peer
         /\ h.l \in Lspq /\ SameAims(f.l, h.l) /\ h.l.st = "ERROR"
         /\ h.client # <<>> /\ h.client[1].type = "ERROR"
         /\ h.rce # <<>> => h.rce[1].type = "DELETE" /\ h.rce[1].gri = g
         /\ IF f.l.st = "NEXT_HOP_NARB_REPLY" /\ f.l.ero # 0
            THEN Connected(i, f) => h.rce # <<>> ELSE h.rce = <<>>
         /\ Connected(i, f) => h.rcli # "stale"
<1> DEFINE post == f.l.st = "NEXT_HOP_NARB_REPLY" /\ f.l.ero # 0
           d == IF post THEN Notify(i, f, "DELETE", g, AnyTag) ELSE f
           e == State(d, "ERROR")
           a == Answer("ERROR", g, f.l)
<1>0. h = Reply(e, a)
  BY DEF HandleErrorCode
<1>1. /\ d \in Effects(g) /\ OnlyRce(f, d)
      /\ d.rce # <<>> => d.rce[1].type = "DELETE" /\ d.rce[1].gri = g
      /\ IF post THEN Connected(i, f) => d.rce # <<>> ELSE d.rce = <<>>
      /\ Connected(i, f) => d.rcli # "stale"
  <2>1. CASE post
    <3> DEFINE n == [type |-> "DELETE", gri |-> g, mask |-> {}, tag |-> AnyTag, lspb |-> 0]
    <3>1. <<n>>[1].type = "DELETE" /\ <<n>>[1].gri = g
      OBVIOUS
    <3>2. /\ d \in Effects(g) /\ OnlyRce(f, d)
          /\ d.rce # <<>> => d.rce = <<n>>
          /\ Connected(i, f) => d.rce # <<>> /\ d.rcli = "up"
      BY <2>1, NotifyEffect DEF Connected
    <3> QED BY <2>1, <3>1, <3>2
  <2>2. CASE ~post
    BY <2>2 DEF OnlyRce, Connected
  <2> QED BY <2>1, <2>2
<1> HIDE DEF post, d
<1>2. e \in Effects(g) /\ OnlySt(d, e) /\ e.l.st = "ERROR"
  BY <1>1, StateEffect DEF OnlyRce, States
<1>3. a \in Of(DnMsg, g) /\ a.type = "ERROR"
  BY AnswerType
<1> HIDE DEF e, a
<1>4. h \in Effects(g) /\ OnlyReply(e, h) /\ h.client = <<a>>
  BY <1>0, <1>1, <1>2, <1>3, ReplyEffect DEF OnlyRce, OnlySt, OnlyLspq
<1>5. h.client # <<>> /\ h.client[1].type = "ERROR"
  BY <1>3, <1>4
<1>6. h.l = e.l /\ h.rce = d.rce /\ h.bw = f.bw /\ h.peer = f.peer /\ h.rcli = d.rcli
  BY <1>1, <1>2, <1>4 DEF OnlyRce, OnlySt, OnlyLspq, OnlyReply
<1>7. h.l \in Lspq /\ SameAims(f.l, h.l) /\ h.l.st = "ERROR"
  BY <1>1, <1>2, <1>6 DEF OnlyRce, OnlySt
<1> QED BY <1>1, <1>4, <1>5, <1>6, <1>7 DEF post

LEMMA ErrorProceeds ==
  ASSUME NEW i \in Dom, NEW g \in Gri, NEW f \in Effects(g), f.l \in Lspq, Blank(f)
  PROVE  Proceeds(g, f, HandleErrorCode(i, g, f))
BY ErrorCode DEF Blank, Proceeds, YieldsOne, Closed

(* HandleLSPQRequest and HandleRecursiveRequest: the RCE is asked.         *)
Asks(i, g, f, st) == LET s == State(f, st)
                     IN  IF Reaches(i, s) THEN Query(s, g, s.l.mask, lspb[i])
                                          ELSE HandleErrorCode(i, g, s)

LEMMA AsksProceeds ==
  ASSUME NEW i \in Dom, NEW g \in Gri, NEW f \in Effects(g), f.l \in Lspq, Blank(f),
         lspb[i] \in Nat, NEW st \in {"APP_REQ", "REQ_RECURSIVE"},
         NEW h, h = Asks(i, g, f, st)
  PROVE  /\ Proceeds(g, f, h) /\ SameAims(f.l, h.l)
         /\ Connected(i, f) =>
              /\ h.l.st = st /\ h.peer = <<>> /\ h.client = <<>> /\ h.rcli # "stale"
              /\ h.rce = <<[type |-> "QUERY", gri |-> g, mask |-> f.l.mask,
                            tag |-> AnyTag, lspb |-> lspb[i]]>>
<1> DEFINE s == State(f, st)
<1>1. s \in Effects(g) /\ OnlySt(f, s) /\ s.l.st = st /\ st \in States
  BY StateEffect DEF States
<1>2. s.l \in Lspq /\ s.l.mask \in SUBSET Tags /\ s.l.mask = f.l.mask /\ Blank(s)
  BY <1>1 DEF Lspq, OnlySt, OnlyLspq, SameAims, Blank
<1> HIDE DEF s
<1>3. CASE Reaches(i, s)
  <2>1. h = Query(s, g, s.l.mask, lspb[i])
    BY <1>3 DEF Asks, s
  <2>2. /\ h \in Effects(g) /\ OnlyRce(s, h)
        /\ h.rce # <<>> => h.rce = <<[type |-> "QUERY", gri |-> g, mask |-> s.l.mask,
                                      tag |-> AnyTag, lspb |-> lspb[i]]>>
        /\ s.rcli # "stale" => h.rce # <<>> /\ h.rcli = "up"
    BY <1>1, <1>2, <2>1, QueryEffect DEF Blank
  <2>3. Proceeds(g, f, h)
    BY <1>1, <1>2, <2>2 DEF Proceeds, YieldsOne, OnlyRce, OnlySt, OnlyLspq, Blank, Closed
  <2>4. SameAims(f.l, h.l)
    BY <1>1, <2>2 DEF OnlyRce, OnlySt
  <2> QED BY <1>1, <1>2, <2>2, <2>3, <2>4 DEF OnlyRce, OnlySt, OnlyLspq, Blank, Connected
<1>4. CASE ~Reaches(i, s)
  <2>1. h = HandleErrorCode(i, g, s)
    BY <1>4 DEF Asks, s
  <2>2. Proceeds(g, s, h) /\ SameAims(s.l, h.l)
    BY <1>1, <1>2, <2>1, ErrorProceeds, ErrorCode DEF Blank
  <2>3. ~Connected(i, f)
    BY <1>1, <1>4 DEF Reaches, Connected, OnlySt, OnlyLspq
  <2> QED BY <1>1, <2>2, <2>3 DEF Proceeds, OnlySt, OnlyLspq, SameAims, Closed
<1> QED BY <1>3, <1>4

LEMMA AsksState ==
  ASSUME NEW i \in Dom, NEW g \in Gri, NEW f \in Effects(g), f.l \in Lspq, Blank(f),
         lspb[i] \in Nat, NEW st \in {"APP_REQ", "REQ_RECURSIVE"}
  PROVE  Asks(i, g, f, st).l.st \in {st, "ERROR"}
<1> DEFINE s == State(f, st)
<1>1. s \in Effects(g) /\ OnlySt(f, s) /\ s.l.st = st /\ s.l \in Lspq /\ Blank(s)
  BY StateEffect DEF States, OnlySt, OnlyLspq, Blank
<1>2. s.l.mask \in SUBSET Tags
  BY <1>1 DEF Lspq
<1> HIDE DEF s
<1>3. OnlyRce(s, Query(s, g, s.l.mask, lspb[i]))
  BY <1>1, <1>2, QueryEffect DEF Blank
<1>4. HandleErrorCode(i, g, s).l.st = "ERROR"
  BY <1>1, ErrorCode DEF Blank
<1> QED BY <1>1, <1>3, <1>4 DEF Asks, OnlyRce, s

LEMMA AppRequestProceeds ==
  ASSUME NEW i \in Dom, NEW g \in Gri, NEW f \in Effects(g), Blank(f), lspb[i] \in Nat
  PROVE  Proceeds(g, f, AppRequest(i, g, f))
<1> DEFINE h == AppRequest(i, g, f)
           n == [f EXCEPT !.l = NewLspq]
           s == [f EXCEPT !.l.tag = AnyTag, !.l.mask = {}]
           t == [s EXCEPT !.l.retran = @ - 1]
<1>1. ASSUME NEW e \in Effects(g), e.l \in Lspq, Blank(e), e.bw = f.bw
      PROVE  Proceeds(g, f, HandleLSPQRequest(i, g, e)) /\ Proceeds(g, f, HandleErrorCode(i, g, e))
  <2>1. HandleLSPQRequest(i, g, e) = Asks(i, g, e, "APP_REQ")
    BY DEF HandleLSPQRequest, Asks
  <2>2. Proceeds(g, e, HandleLSPQRequest(i, g, e)) /\ Proceeds(g, e, HandleErrorCode(i, g, e))
    BY <1>1, <2>1, AsksProceeds, ErrorProceeds
  <2>3. HandleLSPQRequest(i, g, e).l.st \notin Closed
    <3>1. HandleLSPQRequest(i, g, e).l.st \in {"APP_REQ", "ERROR"}
      BY <1>1, <2>1, AsksState
    <3> QED BY <3>1 DEF Closed
  <2>4. HandleErrorCode(i, g, e).l.st = "ERROR"
    BY <1>1, ErrorCode DEF Blank
  <2> QED BY <1>1, <2>2, <2>3, <2>4 DEF Proceeds, Closed
<1>2. CASE f.l.st = "none"
  <2>1. h = HandleLSPQRequest(i, g, n)
    BY <1>2 DEF AppRequest, Granted
  <2>2. n \in Effects(g) /\ n.l \in Lspq /\ Blank(n) /\ n.bw = f.bw
    BY BrokerAssumption DEF Effects, NewLspq, Lspq, States, Blank, BrokerAssumption, AnyTag
  <2> QED BY <1>1, <2>1, <2>2
<1>3. CASE f.l.st # "none"
  <2>1. f.l \in Lspq
    BY <1>3 DEF Effects, NoLspq
  <2>2. s \in Effects(g) /\ s.l \in Lspq /\ Blank(s) /\ s.bw = f.bw /\ s.l.st = f.l.st
        /\ s.l.retran = f.l.retran
    BY <2>1 DEF Effects, Lspq, Blank, AnyTag
  <2>3. CASE f.l.st = "ERROR"
    <3>1. CASE f.l.retran > 0
      <4>1. f.l.retran - 1 \in 0 .. MaxRetran
        BY <2>1, <3>1, BrokerAssumption DEF Lspq, BrokerAssumption
      <4>2. t \in Effects(g) /\ t.l \in Lspq /\ Blank(t) /\ t.bw = f.bw
        BY <2>2, <4>1 DEF Effects, Lspq, Blank
      <4>3. h = HandleLSPQRequest(i, g, t)
        BY <2>3, <3>1 DEF AppRequest, Granted
      <4> QED BY <1>1, <4>2, <4>3
    <3>2. CASE ~(f.l.retran > 0)
      <4>1. h = HandleErrorCode(i, g, s)
        BY <2>3, <3>2 DEF AppRequest, Granted
      <4> QED BY <1>1, <2>2, <4>1
    <3> QED BY <3>1, <3>2
  <2>4. CASE f.l.st \in Granted
    <3>1. h = HandleLSPQRequest(i, g, s)
      BY <2>4 DEF AppRequest, Granted
    <3> QED BY <1>1, <2>2, <3>1
  <2>5. CASE f.l.st # "ERROR" /\ f.l.st \notin Granted
    <3>1. h = s
      BY <1>3, <2>5 DEF AppRequest
    <3> QED BY <2>2, <3>1 DEF Proceeds, YieldsOne, Blank
  <2> QED BY <2>3, <2>4, <2>5
<1> QED BY <1>2, <1>3

LEMMA PeerRequestProceeds ==
  ASSUME NEW i \in Dom, NEW g \in Gri, NEW f \in Effects(g), Blank(f), lspb[i] \in Nat,
         NEW m \in UpMsg
  PROVE  Proceeds(g, f, PeerRequest(i, g, f, m))
<1> DEFINE h == PeerRequest(i, g, f, m)
           old == IF f.l.st = "none" THEN NewLspq ELSE f.l
           l == [old EXCEPT !.tag = AnyTag, !.mask = m.mask, !.sug = m.tag,
                            !.via = m.via, !.prev = m.lspb]
           e == [f EXCEPT !.l = l]
           a == Answer("ERROR", g, [NewLspq EXCEPT !.prev = m.lspb])
<1>1. NewLspq \in Lspq
  BY BrokerAssumption DEF NewLspq, Lspq, States, BrokerAssumption, AnyTag
<1>2. old \in Lspq
  BY <1>1 DEF Effects, NoLspq
<1>3. CASE PingPong(f.l, m)
  <2>1. h = Reply(f, a)
    BY <1>3 DEF PeerRequest
  <2>2. [NewLspq EXCEPT !.prev = m.lspb] \in Lspq
    BY <1>1 DEF Lspq, UpMsg
  <2>3. a \in Of(DnMsg, g) /\ a.type = "ERROR"
    BY <2>2, AnswerType
  <2> HIDE DEF a
  <2>4. h \in Effects(g) /\ OnlyReply(f, h) /\ h.client = <<a>>
    BY <2>1, <2>3, ReplyEffect DEF Blank
  <2>5. f.l \in Lspq
    BY <1>3 DEF PingPong, Effects, NoLspq
  <2>6. h.client # <<>> /\ h.client[1].type = "ERROR"
    BY <2>3, <2>4
  <2> QED BY <2>4, <2>5, <2>6 DEF OnlyReply, Proceeds, YieldsOne, Blank
<1>4. CASE ~PingPong(f.l, m)
  <2>1. h = Asks(i, g, e, "REQ_RECURSIVE")
    BY <1>4 DEF PeerRequest, HandleRecursiveRequest, Asks
  <2>2. l \in Lspq
    BY <1>2 DEF Lspq, UpMsg, AnyTag
  <2>3. e \in Effects(g) /\ e.l \in Lspq /\ Blank(e) /\ e.bw = f.bw
    BY <2>2 DEF Effects, Blank
  <2> HIDE DEF e
  <2>4. Proceeds(g, e, h)
    BY <2>1, <2>3, AsksProceeds
  <2>5. h.l.st \in {"REQ_RECURSIVE", "ERROR"}
    BY <2>1, <2>3, AsksState
  <2> QED BY <2>3, <2>4, <2>5 DEF Proceeds, Closed
<1> QED BY <1>3, <1>4

(* The ERO is complete: it is answered with.                               *)
CompleteERO(g, f) == IF g \in Qconf THEN HandleCompleteEROWithConfirmationID(g, f)
                                    ELSE HandleCompleteERO(g, f)

LEMMA EROAnswered ==
  ASSUME NEW g \in Gri, NEW f \in Effects(g), f.l \in Lspq, f.client = <<>>, f.peer = <<>>,
         f.rce # <<>> => f.rce[1].type # "QUERY",
         NEW st \in States \ Closed, NEW type \in {"ERO", "ID"},
         NEW h, h = Reply(State(f, st), Answer(type, g, f.l))
  PROVE  /\ h \in Effects(g) /\ h.l \in Lspq /\ h.bw = f.bw /\ h.peer = <<>>
         /\ SameAims(f.l, h.l) /\ h.l.st = st
         /\ h.client = <<Answer(type, g, f.l)>> /\ h.rce = f.rce /\ h.rcli = f.rcli
         /\ YieldsOne(h)
<1> DEFINE s == State(f, st)
           a == Answer(type, g, f.l)
<1>1. s \in Effects(g) /\ OnlySt(f, s) /\ s.l.st = st
  BY StateEffect
<1>2. a \in Of(DnMsg, g) /\ a.type = type
  BY AnswerType
<1> HIDE DEF s, a
<1>3. h \in Effects(g) /\ OnlyReply(s, h) /\ h.client = <<a>>
  BY <1>1, <1>2, ReplyEffect DEF OnlySt, OnlyLspq, s, a
<1>4. h.client # <<>> /\ h.client[1].type # "RELEASED"
  BY <1>2, <1>3
<1>5. YieldsOne(h)
  BY <1>1, <1>3, <1>4 DEF OnlyReply, OnlySt, OnlyLspq, YieldsOne
<1> QED BY <1>1, <1>3, <1>5 DEF OnlyReply, OnlySt, OnlyLspq, a

LEMMA CompleteProceeds ==
  ASSUME NEW g \in Gri, NEW f \in Effects(g), f.l \in Lspq, f.client = <<>>, f.peer = <<>>,
         f.rce # <<>> => f.rce[1].type # "QUERY"
  PROVE  /\ Proceeds(g, f, HandleCompleteERO(g, f))
         /\ Proceeds(g, f, HandleCompleteEROWithConfirmationID(g, f))
         /\ Proceeds(g, f, CompleteERO(g, f))
<1>1. {"ERO_COMPLETE", "WITH_ID"} \subseteq States \ Closed
  BY DEF States, Closed
<1>2. Proceeds(g, f, HandleCompleteERO(g, f))
  BY <1>1, EROAnswered DEF HandleCompleteERO, Proceeds
<1>3. Proceeds(g, f, HandleCompleteEROWithConfirmationID(g, f))
  BY <1>1, EROAnswered DEF HandleCompleteEROWithConfirmationID, Proceeds
<1> QED BY <1>2, <1>3 DEF CompleteERO

LEMMA RceReplyProceeds ==
  ASSUME NEW i \in Dom, NEW g \in Gri, NEW f \in Effects(g), f.l \in Lspq, Blank(f),
         lspb[i] \in Nat, NEW r \in RceReply, NEW pok \in BOOLEAN
  PROVE  Proceeds(g, f, HandleRCEReply(i, g, f, r, pok))
<1> DEFINE h == HandleRCEReply(i, g, f, r, pok)
           s == [State(f, "RCE_REPLY") EXCEPT !.l.mask = r.mask]
           e == [s EXCEPT !.l.tag = Chosen(f.l, r), !.l.ero = i]
           p == State(e, "ERO_PARTIAL")
           c == State(e, "ERO_COMPLETE")
           w == State(e, "WITH_ID")
<1>1. CASE Dropped(f.l)
  BY <1>1 DEF HandleRCEReply, Proceeds, YieldsOne, Blank
<1>2. CASE ~Dropped(f.l)
  <2>1. State(f, "RCE_REPLY") \in Effects(g) /\ OnlySt(f, State(f, "RCE_REPLY"))
        /\ State(f, "RCE_REPLY").l.st = "RCE_REPLY"
    BY StateEffect DEF States
  <2>2. s \in Effects(g) /\ s.l \in Lspq /\ Blank(s) /\ s.bw = f.bw /\ s.l.st = "RCE_REPLY"
    BY <2>1 DEF Effects, Lspq, OnlySt, OnlyLspq, Blank, RceReply
  <2>3. CASE r.type = "ERROR"
    <3>1. h = HandleErrorCode(i, g, s)
      BY <1>2, <2>3 DEF HandleRCEReply
    <3> HIDE DEF s
    <3>2. h.l.st = "ERROR"
      BY <2>2, <3>1, ErrorCode DEF Blank
    <3> QED BY <2>2, <3>1, <3>2, ErrorProceeds DEF Proceeds, Closed
  <2>4. CASE r.type # "ERROR"
    <3>1. Chosen(f.l, r) \in Tags \cup {AnyTag}
      BY DEF Chosen, Lspq, RceReply
    <3>2. i \in 0 .. N
      BY BrokerAssumption DEF Dom, BrokerAssumption
    <3>3. e \in Effects(g) /\ e.l \in Lspq /\ Blank(e) /\ e.bw = f.bw /\ e.l.st = "RCE_REPLY"
      BY <2>2, <3>1, <3>2 DEF Effects, Lspq, Blank
    <3> HIDE DEF e
    <3>4. CASE i < app[g].dest
      <4>1. h = HandlePartialERO(i, g, e, r.via, pok)
        BY <1>2, <2>4, <3>4 DEF HandleRCEReply, e, s
      <4>2. p \in Effects(g) /\ OnlySt(e, p) /\ p.l.st = "ERO_PARTIAL" /\ p.l \in Lspq /\ Blank(p)
        BY <3>3, StateEffect DEF States, OnlySt, OnlyLspq, Blank
      <4> HIDE DEF p
      <4>3. CASE pok
        <5> DEFINE m == [type |-> "PEER_REQUEST", gri |-> g, via |-> r.via, mask |-> p.l.mask,
                         tag |-> p.l.tag, lspb |-> lspb[i], ero |-> 0]
        <5>1. m \in Of(UpMsg, g) /\ m.type = "PEER_REQUEST"
          BY <4>2, BrokerAssumption DEF UpMsg, Of, Lspq, RceReply, BrokerAssumption
        <5>2. h = [p EXCEPT !.conn = TRUE, !.peer = Append(@, m)]
          BY <4>1, <4>3 DEF HandlePartialERO, p
        <5> HIDE DEF m
        <5>3. Append(p.peer, m) = <<m>>
          BY <4>2 DEF Blank
        <5>7. <<m>> \in UpTo1(Of(UpMsg, g))
          BY <5>1 DEF UpTo1
        <5>6. h = [p EXCEPT !.conn = TRUE, !.peer = <<m>>]
          BY <5>2, <5>3
        <5>4. /\ h \in Effects(g) /\ h.l = p.l /\ h.bw = p.bw /\ h.peer = <<m>>
              /\ h.client = <<>> /\ h.rce = <<>>
          BY <4>2, <5>6, <5>7 DEF Effects, Blank
        <5>5. h.peer # <<>> /\ h.peer[1].type = "PEER_REQUEST"
          BY <5>1, <5>4
        <5> QED BY <3>3, <4>2, <5>4, <5>5 DEF Proceeds, YieldsOne, Closed, OnlySt, OnlyLspq
      <4>4. CASE ~pok
        <5>1. h = HandleErrorCode(i, g, p)
          BY <4>1, <4>4 DEF HandlePartialERO, p
        <5>2. h.l.st = "ERROR"
          BY <4>2, <5>1, ErrorCode DEF Blank
        <5>3. Proceeds(g, p, h)
          BY <4>2, <5>1, ErrorProceeds
        <5> QED BY <3>3, <4>2, <5>2, <5>3 DEF Proceeds, Closed, OnlySt, OnlyLspq
      <4> QED BY <4>3, <4>4
    <3>5. CASE ~(i < app[g].dest)
      <4>1. h = CompleteERO(g, e) 
        BY <1>2, <2>4, <3>5 DEF HandleRCEReply, CompleteERO, e, s
      <4> QED BY <3>3, <4>1, CompleteProceeds DEF Proceeds, Blank, Closed
    <3> QED BY <3>4, <3>5
  <2> QED BY <2>3, <2>4
<1> QED BY <1>1, <1>2

LEMMA UpdatedEffect ==
  ASSUME NEW i \in Dom, NEW g \in Gri, NEW f \in Effects(g), f.l \in Lspq, Blank(f),
         NEW r \in DnMsg, NEW h, h = Updated(i, g, f, r)
  PROVE  /\ h \in Effects(g) /\ h.l = [f.l EXCEPT !.tag = r.tag] /\ h.bw = f.bw
         /\ h.peer = <<>> /\ h.client = <<>>
         /\ h.rce # <<>> => h.rce = <<[type |-> "UPDATE", gri |-> g, mask |-> {},
                                       tag |-> r.tag, lspb |-> 0]>>
         /\ f.l.mask # {} /\ Connected(i, f) => h.rce # <<>>
         /\ Connected(i, f) => h.rcli # "stale"
<1> DEFINE t == [f EXCEPT !.l.tag = r.tag]
<1>1. /\ t \in Effects(g) /\ t.l = [f.l EXCEPT !.tag = r.tag] /\ t.l.mask = f.l.mask
      /\ Blank(t) /\ t.bw = f.bw /\ t.rcli = f.rcli
  BY DEF Effects, Lspq, Blank, DnMsg
<1>2. h = IF t.l.mask # {} THEN Notify(i, t, "UPDATE", g, r.tag) ELSE t
  BY DEF Updated
<1> HIDE DEF t
<1>3. CASE t.l.mask # {}
  <2>1. r.tag \in Tags \cup {AnyTag}
    BY DEF DnMsg
  <2>2. /\ h \in Effects(g) /\ OnlyRce(t, h)
        /\ h.rce # <<>> => h.rce = <<[type |-> "UPDATE", gri |-> g, mask |-> {},
                                      tag |-> r.tag, lspb |-> 0]>>
        /\ Connected(i, t) => h.rce # <<>> /\ h.rcli = "up"
    BY <1>1, <1>2, <1>3, <2>1, NotifyEffect DEF Blank, Connected
  <2> QED BY <1>1, <2>2 DEF OnlyRce, Blank, Connected
<1>4. CASE t.l.mask = {}
  BY <1>1, <1>2, <1>4 DEF Blank, Connected
<1> QED BY <1>3, <1>4

LEMMA CannotExpandProceeds ==
  ASSUME NEW i \in Dom, NEW g \in Gri, NEW f \in Effects(g), f.l \in Lspq, Blank(f),
         f.l.st \notin Closed
  PROVE  Proceeds(g, f, CannotExpand(i, g, f))
BY ErrorProceeds, CompleteProceeds DEF CannotExpand, Blank

LEMMA PeerReplyProceeds ==
  ASSUME NEW i \in Dom, NEW g \in Gri, NEW f \in Effects(g), f.l \in Lspq, Blank(f),
         NEW r \in DnMsg, r.type # "RELEASED", NEW merged \in BOOLEAN
  PROVE  /\ Proceeds(g, f, HandleNextHopNARBReply(i, g, f, r, merged))
         /\ HandleNextHopNARBReply(i, g, f, r, merged).l.st \notin Closed
<1> DEFINE h == HandleNextHopNARBReply(i, g, f, r, merged)
           s == State(f, "NEXT_HOP_NARB_REPLY")
           m(x) == [x EXCEPT !.l.mask = r.mask]
           t == [m(s) EXCEPT !.l.tag = r.tag]
           e == [t EXCEPT !.l.ero = r.ero]
           u == Updated(i, g, s, r)
<1>1. /\ s \in Effects(g) /\ s.l \in Lspq /\ Blank(s) /\ s.bw = f.bw
      /\ s.l.st = "NEXT_HOP_NARB_REPLY"
  BY StateEffect DEF States, OnlySt, OnlyLspq, Blank
<1> HIDE DEF s
<1>2. /\ m(s) \in Effects(g) /\ m(s).l \in Lspq /\ Blank(m(s)) /\ m(s).bw = f.bw
      /\ m(s).l.st = "NEXT_HOP_NARB_REPLY"
  BY <1>1 DEF Effects, Lspq, Blank, DnMsg
<1>3. /\ t \in Effects(g) /\ t.l \in Lspq /\ Blank(t) /\ t.bw = f.bw
      /\ t.l.st = "NEXT_HOP_NARB_REPLY"
  BY <1>1 DEF Effects, Lspq, Blank, DnMsg
<1>4. /\ e \in Effects(g) /\ e.l \in Lspq /\ Blank(e) /\ e.bw = f.bw
      /\ e.l.st = "NEXT_HOP_NARB_REPLY"
  BY <1>1 DEF Effects, Lspq, Blank, DnMsg
<1>5. /\ u \in Effects(g) /\ u.l = [s.l EXCEPT !.tag = r.tag] /\ u.bw = f.bw
      /\ u.peer = <<>> /\ u.client = <<>>
      /\ u.rce # <<>> => u.rce[1].type # "QUERY"
  <2> DEFINE n == [type |-> "UPDATE", gri |-> g, mask |-> {}, tag |-> r.tag, lspb |-> 0]
  <2>1. <<n>>[1].type # "QUERY"
    OBVIOUS
  <2>2. /\ u \in Effects(g) /\ u.l = [s.l EXCEPT !.tag = r.tag] /\ u.bw = f.bw
        /\ u.peer = <<>> /\ u.client = <<>>
        /\ u.rce # <<>> => u.rce = <<n>>
    BY <1>1, UpdatedEffect
  <2> QED BY <2>1, <2>2
<1> HIDE DEF u
<1>6. u.l \in Lspq /\ u.l.st = "NEXT_HOP_NARB_REPLY"
  BY <1>1, <1>5 DEF Lspq, DnMsg
<1>7. /\ m(u) \in Effects(g) /\ m(u).l \in Lspq /\ m(u).bw = f.bw
      /\ m(u).l.st = "NEXT_HOP_NARB_REPLY" /\ m(u).peer = <<>> /\ m(u).client = <<>>
      /\ m(u).rce # <<>> => m(u).rce[1].type # "QUERY"
  <2> DEFINE v == m(u)
  <2>0. r.mask \in SUBSET Tags
    BY DEF DnMsg
  <2>1. u.l \in Lspq /\ u \in Effects(g)
    BY <1>5, <1>6
  <2>2. v = [u EXCEPT !.l = [u.l EXCEPT !.mask = r.mask]]
    OBVIOUS
  <2> HIDE DEF v
  <2>3. /\ v.l = [u.l EXCEPT !.mask = r.mask] /\ v.bw = u.bw /\ v.peer = u.peer
        /\ v.client = u.client /\ v.rce = u.rce
    BY <2>1, <2>2 DEF Effects
  <2>4. [u.l EXCEPT !.mask = r.mask] \in Lspq /\ [u.l EXCEPT !.mask = r.mask].st = u.l.st
    BY <2>0, <2>1 DEF Lspq
  <2>5. v \in Effects(g)
    BY <2>1, <2>2, <2>4 DEF Effects
  <2> QED BY <1>5, <1>6, <2>3, <2>4, <2>5 DEF v
<1>8. ASSUME NEW x, Proceeds(g, x, h), x.bw = f.bw, x.l.st = "NEXT_HOP_NARB_REPLY"
      PROVE  Proceeds(g, f, h) /\ h.l.st \notin Closed
  BY <1>8 DEF Proceeds, Closed
<1>9. CASE r.type = "ERROR"
  <2>1. h = CannotExpand(i, g, m(s))
    BY <1>9 DEF HandleNextHopNARBReply, s
  <2>2. Proceeds(g, m(s), h)
    BY <1>2, <2>1, CannotExpandProceeds DEF Closed
  <2> QED BY <1>2, <1>8, <2>2
<1>10. CASE r.type = "ERO" /\ f.l.ero = 0
  <2>1. h = HandleErrorCode(i, g, t)
    BY <1>10 DEF HandleNextHopNARBReply, s
  <2>2. Proceeds(g, t, h)
    BY <1>3, <2>1, ErrorProceeds
  <2> QED BY <1>3, <1>8, <2>2
<1>11. CASE r.type = "ERO" /\ f.l.ero # 0 /\ merged
  <2>1. h = HandleCompleteERO(g, e)
    BY <1>11 DEF HandleNextHopNARBReply, s
  <2>2. Proceeds(g, e, h)
    BY <1>4, <2>1, CompleteProceeds DEF Blank
  <2> QED BY <1>4, <1>8, <2>2
<1>12. CASE r.type = "ERO" /\ f.l.ero # 0 /\ ~merged
  <2>1. h = CannotExpand(i, g, t)
    BY <1>12 DEF HandleNextHopNARBReply, s
  <2>2. Proceeds(g, t, h)
    BY <1>3, <2>1, CannotExpandProceeds DEF Closed
  <2> QED BY <1>3, <1>8, <2>2
<1>13. CASE r.type = "ID"
  <2>1. h = HandleCompleteEROWithConfirmationID(g, m(u))
    BY <1>13 DEF HandleNextHopNARBReply, s, u
  <2>2. Proceeds(g, m(u), h)
    BY <1>7, <2>1, CompleteProceeds
  <2> QED BY <1>7, <1>8, <2>2
<1> QED BY <1>9, <1>10, <1>11, <1>12, <1>13 DEF DnMsg

-----------------------------------------------------------------------------
(* The handlers of a confirmation and a release.                           *)

LEMMA Bandwidths ==
  ASSUME NEW b \in 0 .. MaxBw
  PROVE  Taken(b) \in 0 .. MaxBw /\ Freed(b) \in 0 .. MaxBw
BY BrokerAssumption DEF Taken, Freed, BrokerAssumption

(* What comes of a confirmation: nothing, or the LSPQ is confirmed, the    *)
(* bandwidth taken, and the RCE and the next domain are told.              *)
Confirms(i, g, f, m, pok, h) ==
  /\ h \in Effects(g)
  /\ f.l.st \notin Granted => h = f
  /\ f.l.st \in Granted =>
       /\ h.l \in Lspq /\ SameAims(f.l, h.l) /\ h.l.st = "RESV_CONFIRM"
       /\ h.bw = Taken(f.bw)
       /\ h.rce # <<>> => h.rce = <<[type |-> "CONFIRM", gri |-> g, mask |-> {},
                                     tag |-> m.tag, lspb |-> 0]>>
       /\ Connected(i, f) => h.rce # <<>> /\ h.rcli # "stale"
       /\ pok = TRUE => h.client = <<>> /\ h.peer = IF m.ero > i THEN <<m>> ELSE <<>>

LEMMA ConfirmEffect ==
  ASSUME NEW i \in Dom, NEW g \in Gri, NEW f \in Effects(g), f.l \in Lspq, Blank(f),
         NEW m \in Of(UpMsg, g), NEW pok, pok \in BOOLEAN
  PROVE  Confirms(i, g, f, m, pok, HandleResvConfirm(i, g, f, m, pok))
<1> DEFINE h == HandleResvConfirm(i, g, f, m, pok)
<1> SUFFICES Confirms(i, g, f, m, pok, h)
  OBVIOUS
<1>1. CASE f.l.st \notin Granted
  BY <1>1 DEF HandleResvConfirm, Confirmable, Confirms
<1>2. CASE f.l.st \in Granted
  <2> DEFINE c == State(f, "RESV_CONFIRM")
             s == [c EXCEPT !.bw = Taken(@)]
             n == Notify(i, s, "CONFIRM", g, m.tag)
             x == HandleErrorCode(i, g, n)
  <2>1. c \in Effects(g) /\ OnlySt(f, c) /\ c.l.st = "RESV_CONFIRM"
    BY StateEffect DEF States
  <2> HIDE DEF c
  <2>2. Taken(c.bw) \in 0 .. MaxBw
    BY <2>1, Bandwidths DEF Effects
  <2>3. s \in Effects(g) /\ s.l = c.l /\ s.bw = Taken(f.bw) /\ Blank(s) /\ s.rcli = f.rcli
    BY <2>1, <2>2 DEF Effects, OnlySt, OnlyLspq, Blank
  <2> HIDE DEF s
  <2>4. m.tag \in Tags \cup {AnyTag}
    BY DEF Of, UpMsg
  <2>5. /\ n \in Effects(g) /\ OnlyRce(s, n)
        /\ n.rce # <<>> => n.rce = <<[type |-> "CONFIRM", gri |-> g, mask |-> {},
                                      tag |-> m.tag, lspb |-> 0]>>
        /\ Connected(i, s) => n.rce # <<>> /\ n.rcli = "up"
    BY <2>3, <2>4, NotifyEffect DEF Blank, Connected
  <2>6. /\ n.l \in Lspq /\ SameAims(f.l, n.l) /\ n.l.st = "RESV_CONFIRM" /\ n.bw = Taken(f.bw)
        /\ n.client = <<>> /\ n.peer = <<>>
        /\ Connected(i, f) => n.rce # <<>> /\ n.rcli # "stale"
    BY <2>1, <2>3, <2>5 DEF OnlyRce, OnlySt, Blank, Connected
  <2> HIDE DEF n
  <2>7. CASE ~(m.ero > i)
    <3>1. h = n
      BY <1>2, <2>7 DEF HandleResvConfirm, Confirmable, Relayed, n, s, c
    <3> HIDE DEF h
    <3> QED BY <1>2, <2>5, <2>6, <2>7, <3>1 DEF Confirms
  <2>8. CASE m.ero > i /\ pok
    <3>1. h = Relay(n, m)
      BY <1>2, <2>8 DEF HandleResvConfirm, Confirmable, Relayed, n, s, c
    <3>2. h = [n EXCEPT !.conn = TRUE, !.peer = <<m>>]
      BY <2>6, <3>1 DEF Relay
    <3>3. <<m>> \in UpTo1(Of(UpMsg, g))
      BY DEF UpTo1
    <3>4. /\ h \in Effects(g) /\ h.l = n.l /\ h.bw = n.bw /\ h.peer = <<m>>
          /\ h.client = <<>> /\ h.rce = n.rce /\ h.rcli = n.rcli
      BY <2>5, <2>6, <3>2, <3>3 DEF Effects
    <3> HIDE DEF h
    <3> QED BY <1>2, <2>5, <2>6, <2>8, <3>4 DEF Confirms
  <2>9. CASE m.ero > i /\ ~pok
    <3>1. h = State(x, "RESV_CONFIRM")
      BY <1>2, <2>9 DEF HandleResvConfirm, Confirmable, Relayed, n, s, c
    <3>2. x = Reply(State(n, "ERROR"), Answer("ERROR", g, n.l))
      BY <2>6 DEF HandleErrorCode
    <3>3. State(n, "ERROR") \in Effects(g) /\ OnlySt(n, State(n, "ERROR"))
      BY <2>5, <2>6, StateEffect DEF States
    <3>4. Answer("ERROR", g, n.l) \in Of(DnMsg, g)
      BY <2>6, AnswerType
    <3>5. x \in Effects(g) /\ OnlyReply(State(n, "ERROR"), x)
      BY <2>6, <3>2, <3>3, <3>4, ReplyEffect DEF OnlySt, OnlyLspq
    <3> HIDE DEF x
    <3>6. x.l \in Lspq /\ SameAims(n.l, x.l) /\ x.rce = n.rce /\ x.bw = n.bw /\ x.rcli = n.rcli
      BY <3>3, <3>5 DEF OnlySt, OnlyLspq, OnlyReply
    <3>7. h \in Effects(g) /\ OnlySt(x, h) /\ h.l.st = "RESV_CONFIRM"
      BY <3>1, <3>5, <3>6, StateEffect DEF States
    <3>8. SameAims(f.l, h.l)
      BY <2>6, <3>6, <3>7 DEF SameAims, OnlySt
    <3> HIDE DEF h
    <3> QED BY <1>2, <2>5, <2>6, <2>9, <3>6, <3>7, <3>8 DEF OnlySt, OnlyLspq, Confirms
  <2> QED BY <2>7, <2>8, <2>9
<1> QED BY <1>1, <1>2

(* And of a release: the LSPQ is closed; one that had a path gives back    *)
(* the bandwidth and tells the RCE and the next domain.                    *)
Released == {"RESV_RELEASE", "RELEASE_CONFIRM"}

LEMMA ReleaseConfirmEffect ==
  ASSUME NEW g \in Gri, NEW f \in Effects(g), f.l \in Lspq, f.client = <<>>,
         NEW h, h = HandleResvReleaseConfirm(g, f)
  PROVE  /\ h \in Effects(g) /\ h.l \in Lspq /\ SameAims(f.l, h.l)
         /\ h.l.st = "RELEASE_CONFIRM" /\ h.bw = f.bw /\ h.rce = f.rce /\ h.peer = f.peer
         /\ h.rcli = f.rcli /\ h.client # <<>> /\ h.client[1].type = "RELEASED"
<1> DEFINE s == State(f, "RELEASE_CONFIRM")
           a == Answer("RELEASED", g, f.l)
<1>1. s \in Effects(g) /\ OnlySt(f, s) /\ s.l.st = "RELEASE_CONFIRM"
  BY StateEffect DEF States
<1>2. a \in Of(DnMsg, g) /\ a.type = "RELEASED"
  BY AnswerType
<1>3. h = Reply(s, a)
  BY DEF HandleResvReleaseConfirm
<1> HIDE DEF s, a
<1>4. h \in Effects(g) /\ OnlyReply(s, h) /\ h.client = <<a>>
  BY <1>1, <1>2, <1>3, ReplyEffect DEF OnlySt, OnlyLspq
<1>5. h.client # <<>> /\ h.client[1].type = "RELEASED"
  BY <1>2, <1>4
<1> QED BY <1>1, <1>4, <1>5 DEF OnlyReply, OnlySt, OnlyLspq

Releases(i, g, f, m, pok, h) ==
  /\ h \in Effects(g) /\ h.l \in Lspq /\ SameAims(f.l, h.l)
  /\ pok = TRUE => /\ h.l.st \in Released
                   /\ h.client # <<>> => h.client[1].type = "RELEASED"
  /\ ~Releasable(f.l) => h.bw = f.bw /\ h.rce = <<>> /\ h.peer = <<>>
  /\ Releasable(f.l) /\ m.ero # 0 =>
       /\ h.bw = Freed(f.bw)
       /\ h.rce # <<>> => h.rce = <<[type |-> "DELETE", gri |-> g, mask |-> {},
                                     tag |-> m.tag, lspb |-> 0]>>
       /\ Connected(i, f) => h.rce # <<>>
       /\ pok = TRUE => h.peer = IF m.ero > i THEN <<m>> ELSE <<>>
  /\ h.l.st \notin {"RESV_CONFIRM"} \cup Granted
  /\ Connected(i, f) => h.rcli # "stale"

LEMMA ReleaseEffect ==
  ASSUME NEW i \in Dom, NEW g \in Gri, NEW f \in Effects(g), f.l \in Lspq, Blank(f),
         NEW m \in Of(UpMsg, g), NEW pok, pok \in BOOLEAN
  PROVE  Releases(i, g, f, m, pok, HandleResvRelease(i, g, f, m, pok))
<1> DEFINE h == HandleResvRelease(i, g, f, m, pok)
<1> SUFFICES Releases(i, g, f, m, pok, h)
  OBVIOUS
<1>1. CASE ~Releasable(f.l)
  <2>1. h = HandleResvReleaseConfirm(g, f)
    BY <1>1 DEF HandleResvRelease
  <2>2. /\ h \in Effects(g) /\ h.l \in Lspq /\ SameAims(f.l, h.l)
        /\ h.l.st = "RELEASE_CONFIRM" /\ h.bw = f.bw /\ h.rce = f.rce /\ h.peer = f.peer
        /\ h.rcli = f.rcli /\ h.client # <<>> /\ h.client[1].type = "RELEASED"
    BY <2>1, ReleaseConfirmEffect DEF Blank
  <2> HIDE DEF h
  <2> QED BY <1>1, <2>2 DEF Blank, Released, Granted, Releases, Connected
<1>2. CASE Releasable(f.l) /\ m.ero = 0
  <2>1. h = State(f, "RESV_RELEASE")
    BY <1>2 DEF HandleResvRelease
  <2>2. h \in Effects(g) /\ OnlySt(f, h) /\ h.l.st = "RESV_RELEASE"
    BY <2>1, StateEffect DEF States
  <2> HIDE DEF h
  <2> QED BY <1>2, <2>2 DEF Blank, Connected, OnlySt, OnlyLspq, Released, Granted, Releases
<1>3. CASE Releasable(f.l) /\ m.ero # 0
  <2> DEFINE c == State(f, "RESV_RELEASE")
             s == [c EXCEPT !.bw = Freed(@)]
             n == Notify(i, s, "DELETE", g, m.tag)
             o == IF Relayed(i, m) THEN Relay(n, m) ELSE n
  <2>1. c \in Effects(g) /\ OnlySt(f, c) /\ c.l.st = "RESV_RELEASE"
    BY StateEffect DEF States
  <2> HIDE DEF c
  <2>2. Freed(c.bw) \in 0 .. MaxBw
    BY <2>1, Bandwidths DEF Effects
  <2>3. s \in Effects(g) /\ s.l = c.l /\ s.bw = Freed(f.bw) /\ Blank(s) /\ s.rcli = f.rcli
    BY <2>1, <2>2 DEF Effects, OnlySt, OnlyLspq, Blank
  <2> HIDE DEF s
  <2>4. m.tag \in Tags \cup {AnyTag}
    BY DEF Of, UpMsg
  <2>5. /\ n \in Effects(g) /\ OnlyRce(s, n)
        /\ n.rce # <<>> => n.rce = <<[type |-> "DELETE", gri |-> g, mask |-> {},
                                      tag |-> m.tag, lspb |-> 0]>>
        /\ Connected(i, s) => n.rce # <<>> /\ n.rcli = "up"
    BY <2>3, <2>4, NotifyEffect DEF Blank, Connected
  <2>6. /\ n.l \in Lspq /\ SameAims(f.l, n.l) /\ n.l.st = "RESV_RELEASE" /\ n.bw = Freed(f.bw)
        /\ n.client = <<>> /\ n.peer = <<>>
        /\ Connected(i, f) => n.rce # <<>> /\ n.rcli # "stale"
    BY <2>1, <2>3, <2>5 DEF OnlyRce, OnlySt, Blank, Connected
  <2> HIDE DEF n
  <2>7. /\ o \in Effects(g) /\ o.l = n.l /\ o.bw = n.bw /\ o.rce = n.rce /\ o.client = <<>>
        /\ o.rcli = n.rcli
        /\ o.peer = IF m.ero > i THEN <<m>> ELSE <<>>
    <3>1. <<m>> \in UpTo1(Of(UpMsg, g))
      BY DEF UpTo1
    <3>2. Append(<<>>, m) = <<m>>
      OBVIOUS
    <3>3. CASE Relayed(i, m)
      <4>1. o = [n EXCEPT !.conn = TRUE, !.peer = <<m>>]
        BY <2>6, <3>2, <3>3 DEF Relay
      <4> QED BY <2>5, <2>6, <3>1, <3>3, <4>1 DEF Effects, Relayed
    <3>4. CASE ~Relayed(i, m)
      BY <2>5, <2>6, <3>4 DEF Relayed
    <3> QED BY <3>3, <3>4
  <2> HIDE DEF o
  <2>8. \/ Relayed(i, m) /\ ~pok /\ h = HandleErrorCode(i, g, n)
        \/ pok \/ ~Relayed(i, m)
    BY <1>3 DEF HandleResvRelease, n, s, c
  <2>9. ~Relayed(i, m) \/ pok => h = HandleResvReleaseConfirm(g, o) \/ h = o
    BY <1>3 DEF HandleResvRelease, o, n, s, c
  <2>10. CASE ~Relayed(i, m) \/ pok
    <3>1. CASE h = o
      <4>1. h.l.st \in Released /\ h.l.st \notin {"RESV_CONFIRM"} \cup Granted
        BY <2>6, <2>7, <3>1 DEF Released, Granted
      <4> HIDE DEF h
      <4> QED BY <1>3, <2>5, <2>6, <2>7, <2>10, <3>1, <4>1 DEF Releases
    <3>2. CASE h = HandleResvReleaseConfirm(g, o)
      <4>1. /\ h \in Effects(g) /\ h.l \in Lspq /\ SameAims(o.l, h.l)
            /\ h.l.st = "RELEASE_CONFIRM" /\ h.bw = o.bw /\ h.rce = o.rce /\ h.peer = o.peer
            /\ h.rcli = o.rcli /\ h.client[1].type = "RELEASED"
        BY <2>6, <2>7, <3>2, ReleaseConfirmEffect
      <4>2. SameAims(f.l, h.l)
        BY <2>6, <2>7, <4>1 DEF SameAims
      <4>3. h.l.st \in Released /\ h.l.st \notin {"RESV_CONFIRM"} \cup Granted
        BY <4>1 DEF Released, Granted
      <4> HIDE DEF h
      <4> QED BY <1>3, <2>5, <2>6, <2>7, <2>10, <4>1, <4>2, <4>3 DEF Releases
    <3> QED BY <2>9, <2>10, <3>1, <3>2
  <2>11. CASE ~(~Relayed(i, m) \/ pok)
    <3> DEFINE e == State(n, "ERROR")
               a == Answer("ERROR", g, n.l)
    <3>1. h = Reply(e, a)
      BY <2>6, <2>8, <2>11 DEF HandleErrorCode
    <3>2. e \in Effects(g) /\ OnlySt(n, e) /\ e.l.st = "ERROR"
      BY <2>5, <2>6, StateEffect DEF States
    <3>3. a \in Of(DnMsg, g)
      BY <2>6, AnswerType
    <3> HIDE DEF e, a
    <3>4. h \in Effects(g) /\ OnlyReply(e, h)
      BY <2>6, <3>1, <3>2, <3>3, ReplyEffect DEF OnlySt, OnlyLspq
    <3>5. h.l.st \notin {"RESV_CONFIRM"} \cup Granted
      BY <3>2, <3>4 DEF OnlyReply, Granted
    <3>6. SameAims(f.l, h.l) /\ h.l \in Lspq /\ h.bw = n.bw /\ h.rce = n.rce
         /\ h.rcli = n.rcli
      BY <2>6, <3>2, <3>4 DEF SameAims, OnlySt, OnlyLspq, OnlyReply
    <3> HIDE DEF h
    <3> QED BY <1>3, <2>5, <2>6, <2>11, <3>4, <3>5, <3>6 DEF Releases
  <2> QED BY <2>10, <2>11
<1> QED BY <1>1, <1>2, <1>3

-----------------------------------------------------------------------------
(* Type correctness.                                                       *)

LEMMA UpTo1Seq ==
  ASSUME NEW S, NEW g, NEW x \in UpTo1(Of(S, g))
  PROVE  x \in Seq(S)
<1>1. CASE x = <<>>
  BY <1>1
<1>2. ASSUME NEW m \in Of(S, g), x = <<m>> PROVE x \in Seq(S)
  BY <1>2 DEF Of
<1> QED BY <1>1, <1>2 DEF UpTo1

LEMMA PosterType ==
  ASSUME NEW S, NEW c \in [Dom -> Seq(S)], NEW i \in Dom, NEW g, NEW x \in UpTo1(Of(S, g))
  PROVE  [c EXCEPT ![i] = @ \o x] \in [Dom -> Seq(S)]
<1>1. x \in Seq(S)
  BY UpTo1Seq
<1>2. c[i] \o x \in Seq(S)
  BY <1>1, ConcatProperties
<1> QED BY <1>2

LEMMA ReaderType ==
  ASSUME NEW S, NEW c \in [Dom -> Seq(S)], NEW i \in Dom, c[i] # <<>>
  PROVE  [c EXCEPT ![i] = Tail(@)] \in [Dom -> Seq(S)] /\ Head(c[i]) \in S
BY HeadTailProperties

LEMMA CommitTyped ==
  ASSUME Typed, NEW i \in Dom, NEW g \in Gri, NEW f \in Effects(g),
         NEW u \in [Dom -> Seq(UpMsg)], NEW d \in [Dom -> Seq(DnMsg)],
         NEW r \in [Dom -> Seq(RceReply)], Commit(i, g, f, u, d, r)
  PROVE  Typed'
<1>1. q' \in [Dom -> [Gri -> Lspq \cup {NoLspq}]]
  BY DEF Commit, Typed, Effects
<1>2. up' \in [Dom -> Seq(UpMsg)]
  <2>1. CASE i < N
    <3>1. i + 1 \in Dom
      BY <2>1, BrokerAssumption DEF Dom, BrokerAssumption
    <3> QED BY <2>1, <3>1, PosterType DEF Commit, Effects
  <2>2. CASE ~(i < N)
    BY <2>2 DEF Commit
  <2> QED BY <2>1, <2>2
<1>3. dn' \in [Dom -> Seq(DnMsg)]
  BY PosterType DEF Commit, Effects
<1>4. toRce' \in [Dom -> Seq(RceMsg)]
  BY PosterType DEF Commit, Effects, Typed
<1>5. fromRce' \in [Dom -> Seq(RceReply)]
  BY DEF Commit
<1>6. rcli' \in [Dom -> {"none", "up", "stale"}] /\ bw' \in [Dom -> 0 .. MaxBw] /\ conn' \subseteq Dom
  BY DEF Commit, Typed, TypeOK, Effects, Clients
<1>7. UNCHANGED <<hold, live, lspb, app, sends, faults>>
  BY DEF Commit
<1>8. TypeOK'
  BY <1>1, <1>6, <1>7 DEF Typed, TypeOK
<1> QED BY <1>1, <1>2, <1>3, <1>4, <1>5, <1>7, <1>8 DEF Typed

LEMMA HandledEffect ==
  ASSUME Typed, NEW i \in Dom, NEW m \in UpMsg, NEW pok, pok \in BOOLEAN,
         NEW f, f = Stay(i, q[i][m.gri]), NEW h, h = Handled(i, m, f, pok)
  PROVE  /\ m.gri \in Gri /\ f \in Effects(m.gri) /\ Blank(f) /\ f.bw = bw[i] /\ f.l = q[i][m.gri]
         /\ h \in Effects(m.gri)
         /\ m.type \in {"REQUEST", "PEER_REQUEST"} => Proceeds(m.gri, f, h)
         /\ m.type \in {"CONFIRM", "REMOVE"} /\ f.l.st = "none" => h = f
         /\ m.type = "CONFIRM" /\ f.l.st # "none" => h = HandleResvConfirm(i, m.gri, f, m, pok)
         /\ m.type = "REMOVE" /\ f.l.st # "none" => h = HandleResvRelease(i, m.gri, f, m, pok)
         /\ f.l.st # "none" => f.l \in Lspq
<1>1. m.gri \in Gri /\ m \in Of(UpMsg, m.gri) /\ lspb[i] \in Nat
  BY DEF UpMsg, Of, Typed
<1>2. f \in Effects(m.gri) /\ Blank(f) /\ f.bw = bw[i] /\ f.l = q[i][m.gri]
  BY <1>1, StayEffect
<1>3. f.l.st # "none" => f.l \in Lspq
  BY <1>2 DEF Effects, NoLspq
<1>4. CASE m.type = "REQUEST"
  BY <1>1, <1>2, <1>3, <1>4, AppRequestProceeds DEF Handled, Proceeds
<1>5. CASE m.type = "PEER_REQUEST"
  BY <1>1, <1>2, <1>3, <1>5, PeerRequestProceeds DEF Handled, Proceeds
<1>6. CASE m.type = "CONFIRM"
  <2>1. f.l.st # "none" => h = HandleResvConfirm(i, m.gri, f, m, pok)
    BY <1>6 DEF Handled
  <2>2. f.l.st = "none" => h = f
    BY <1>6 DEF Handled
  <2>3. ASSUME f.l.st # "none" PROVE h \in Effects(m.gri)
    <3>1. h = HandleResvConfirm(i, m.gri, f, m, pok) /\ f.l \in Lspq
      BY <1>3, <2>1, <2>3
    <3>2. i \in Dom /\ pok \in BOOLEAN
      OBVIOUS
    <3> QED BY ONLY <1>1, <1>2, <3>1, <3>2, ConfirmEffect DEF Confirms
  <2> QED BY <1>1, <1>2, <1>3, <1>6, <2>1, <2>2, <2>3
<1>7. CASE m.type = "REMOVE"
  <2>1. f.l.st # "none" => h = HandleResvRelease(i, m.gri, f, m, pok)
    BY <1>7 DEF Handled
  <2>2. f.l.st = "none" => h = f
    BY <1>7 DEF Handled
  <2>3. ASSUME f.l.st # "none" PROVE h \in Effects(m.gri)
    <3>1. h = HandleResvRelease(i, m.gri, f, m, pok) /\ f.l \in Lspq
      BY <1>3, <2>1, <2>3
    <3>2. i \in Dom /\ pok \in BOOLEAN
      OBVIOUS
    <3> QED BY ONLY <1>1, <1>2, <3>1, <3>2, ReleaseEffect DEF Releases
  <2> QED BY <1>1, <1>2, <1>3, <1>7, <2>1, <2>2, <2>3
<1> QED BY <1>4, <1>5, <1>6, <1>7 DEF UpMsg

LEMMA PeerOkBoolean == ASSUME NEW i, NEW pok \in PeerOk(i) PROVE pok \in BOOLEAN
BY DEF PeerOk

LEMMA RceReplyEffect ==
  ASSUME Typed, NEW i \in Dom, NEW r \in RceReply, NEW pok \in BOOLEAN, q[i][r.gri].st # "none"
  PROVE  /\ q[i][r.gri] \in Lspq
         /\ Proceeds(r.gri, Stay(i, q[i][r.gri]),
                     HandleRCEReply(i, r.gri, Stay(i, q[i][r.gri]), r, pok))
<1>1. r.gri \in Gri /\ lspb[i] \in Nat
  BY DEF RceReply, Typed
<1>2. /\ Stay(i, q[i][r.gri]) \in Effects(r.gri) /\ Blank(Stay(i, q[i][r.gri]))
      /\ Stay(i, q[i][r.gri]).l = q[i][r.gri]
  BY <1>1, StayEffect
<1>3. q[i][r.gri] \in Lspq
  BY <1>1 DEF Typed, NoLspq
<1> QED BY <1>1, <1>2, <1>3, RceReplyProceeds

LEMMA PeerReplyEffect ==
  ASSUME Typed, NEW i \in Dom, NEW r \in DnMsg, r.type # "RELEASED", NEW merged \in BOOLEAN,
         q[i][r.gri].st # "none"
  PROVE  /\ q[i][r.gri] \in Lspq
         /\ Proceeds(r.gri, Stay(i, q[i][r.gri]),
                     HandleNextHopNARBReply(i, r.gri, Stay(i, q[i][r.gri]), r, merged))
<1>1. r.gri \in Gri /\ lspb[i] \in Nat
  BY DEF DnMsg, Typed
<1>2. /\ Stay(i, q[i][r.gri]) \in Effects(r.gri) /\ Blank(Stay(i, q[i][r.gri]))
      /\ Stay(i, q[i][r.gri]).l = q[i][r.gri]
  BY <1>1, StayEffect
<1>3. q[i][r.gri] \in Lspq
  BY <1>1 DEF Typed, NoLspq
<1> QED BY <1>1, <1>2, <1>3, PeerReplyProceeds

LEMMA ReadMessageTyped == ASSUME Typed, NEW i \in Dom, ReadMessage(i) PROVE Typed'
<1> DEFINE m == Head(up[i])
           u == [up EXCEPT ![i] = Tail(@)]
<1>1. u \in [Dom -> Seq(UpMsg)] /\ m \in UpMsg
  BY ReaderType DEF ReadMessage, Typed
<1>2. PICK pok \in PeerOk(i) : Commit(i, m.gri, Handled(i, m, Stay(i, q[i][m.gri]), pok), u, dn, fromRce)
  BY DEF ReadMessage
<1> HIDE DEF m, u
<1>3. Handled(i, m, Stay(i, q[i][m.gri]), pok) \in Effects(m.gri) /\ m.gri \in Gri
  BY <1>1, PeerOkBoolean, HandledEffect
<1> QED BY <1>1, <1>2, <1>3, CommitTyped DEF Typed

LEMMA ReadRCEReplyTyped == ASSUME Typed, NEW i \in Dom, ReadRCEReply(i) PROVE Typed'
<1> DEFINE r == Head(fromRce[i])
           v == [fromRce EXCEPT ![i] = Tail(@)]
           f == Stay(i, q[i][r.gri])
           h(pok) == IF q[i][r.gri].st = "none" \/ r.lspb # lspb[i] THEN f
                     ELSE HandleRCEReply(i, r.gri, f, r, pok)
<1>1. v \in [Dom -> Seq(RceReply)] /\ r \in RceReply
  BY ReaderType DEF ReadRCEReply, Typed
<1>2. PICK pok \in PeerOk(i) : Commit(i, r.gri, h(pok), up, dn, v)
  BY DEF ReadRCEReply
<1> HIDE DEF r, v
<1>3. r.gri \in Gri
  BY <1>1 DEF RceReply
<1>4. f \in Effects(r.gri)
  BY <1>3, StayEffect
<1>5. h(pok) \in Effects(r.gri)
  BY <1>1, <1>4, PeerOkBoolean, RceReplyEffect DEF Proceeds
<1> HIDE DEF h
<1> QED BY <1>1, <1>2, <1>3, <1>5, CommitTyped DEF Typed

LEMMA ReadPeerReplyTyped == ASSUME Typed, NEW i \in Dom, ReadPeerReply(i) PROVE Typed'
<1> DEFINE r == Head(dn[i + 1])
           d == [dn EXCEPT ![i + 1] = Tail(@)]
           f == Stay(i, q[i][r.gri])
           h(merged) == IF q[i][r.gri].st = "none" \/ r.lspb # lspb[i] \/ r.type = "RELEASED" THEN f
                        ELSE HandleNextHopNARBReply(i, r.gri, f, r, merged)
<1>0. i + 1 \in Dom
  BY BrokerAssumption DEF ReadPeerReply, Dom, BrokerAssumption
<1>1. d \in [Dom -> Seq(DnMsg)] /\ r \in DnMsg
  BY <1>0, ReaderType DEF ReadPeerReply, Typed
<1>2. PICK merged \in BOOLEAN : Commit(i, r.gri, h(merged), up, d, fromRce)
  BY DEF ReadPeerReply
<1> HIDE DEF r, d
<1>3. r.gri \in Gri
  BY <1>1 DEF DnMsg
<1>4. f \in Effects(r.gri)
  BY <1>3, StayEffect
<1>5. h(merged) \in Effects(r.gri)
  BY <1>1, <1>4, PeerReplyEffect DEF Proceeds
<1> HIDE DEF h
<1> QED BY <1>1, <1>2, <1>3, <1>5, CommitTyped DEF Typed

LEMMA RceServeTyped == ASSUME Typed, NEW i \in Dom, RceServe(i) PROVE Typed'
<1> DEFINE m == Head(toRce[i])
<1>1. toRce' \in [Dom -> Seq(RceMsg)] /\ m \in RceMsg
  BY ReaderType DEF RceServe, Typed
<1>2. m.gri \in Gri /\ m.tag \in Tags \cup {AnyTag} /\ m.lspb \in Nat /\ m.mask \in SUBSET Tags
  BY <1>1 DEF RceMsg
<1>3. ASSUME NEW r \in RceReply, fromRce' = [fromRce EXCEPT ![i] = Append(@, r)]
      PROVE  fromRce' \in [Dom -> Seq(RceReply)]
  BY <1>3, AppendProperties DEF Typed
<1>4. ASSUME NEW x \in Hold, hold' = [hold EXCEPT ![i][m.gri] = x]
      PROVE  hold' \in [Dom -> [Gri -> Hold]]
  BY <1>2, <1>4 DEF Typed, TypeOK
<1>5. fromRce' \in [Dom -> Seq(RceReply)] /\ hold' \in [Dom -> [Gri -> Hold]]
  <2>1. CASE m.type = "QUERY"
    <3>1. RceQuery(i, m)
      BY <2>1 DEF RceServe
    <3> HIDE DEF m
    <3>2. CASE /\ fromRce' = [fromRce EXCEPT ![i] = Append(@,
                   [type |-> "ERROR", gri |-> m.gri, tag |-> AnyTag, mask |-> {},
                    via |-> "app", lspb |-> m.lspb])]
               /\ hold' = [hold EXCEPT ![i][m.gri] = NoHold]
      <4>1. [type |-> "ERROR", gri |-> m.gri, tag |-> AnyTag, mask |-> {},
             via |-> "app", lspb |-> m.lspb] \in RceReply
        BY <1>2 DEF RceReply
      <4>2. NoHold \in Hold
        BY DEF NoHold, Hold, AnyTag
      <4> QED BY <1>3, <1>4, <3>2, <4>1, <4>2
    <3>3. ASSUME NEW mask \in SUBSET Tags, mask # {}, NEW via \in Borders,
                 fromRce' = [fromRce EXCEPT ![i] = Append(@,
                   [type |-> "ERO", gri |-> m.gri, tag |-> Min(mask), mask |-> mask,
                    via |-> via, lspb |-> m.lspb])],
                 hold' = [hold EXCEPT ![i][m.gri] = [kind |-> "held", tag |-> Min(mask)]]
          PROVE  fromRce' \in [Dom -> Seq(RceReply)] /\ hold' \in [Dom -> [Gri -> Hold]]
      <4>1. Min(mask) \in Tags
        BY <3>3, MaskLeast
      <4>2. [type |-> "ERO", gri |-> m.gri, tag |-> Min(mask), mask |-> mask,
             via |-> via, lspb |-> m.lspb] \in RceReply
        BY <1>2, <4>1 DEF RceReply
      <4>3. [kind |-> "held", tag |-> Min(mask)] \in Hold
        BY <4>1 DEF Hold
      <4> QED BY <1>3, <1>4, <3>3, <4>2, <4>3
    <3>4. PICK free \in SUBSET Tags, via \in Borders :
            \/ /\ fromRce' = [fromRce EXCEPT ![i] = Append(@,
                   [type |-> "ERROR", gri |-> m.gri, tag |-> AnyTag, mask |-> {},
                    via |-> "app", lspb |-> m.lspb])]
               /\ hold' = [hold EXCEPT ![i][m.gri] = NoHold]
            \/ LET mask == IF m.mask = {} THEN free ELSE free \cap m.mask
               IN /\ mask # {}
                  /\ fromRce' = [fromRce EXCEPT ![i] = Append(@,
                      [type |-> "ERO", gri |-> m.gri, tag |-> Min(mask), mask |-> mask,
                       via |-> via, lspb |-> m.lspb])]
                  /\ hold' = [hold EXCEPT ![i][m.gri] = [kind |-> "held", tag |-> Min(mask)]]
      BY <3>1, BrokerAssumption DEF RceQuery, BrokerAssumption
    <3> QED BY <3>2, <3>3, <3>4
  <2>2. CASE m.type # "QUERY"
    <3>1. hold' = [hold EXCEPT ![i][m.gri] = RceNotified(m)] /\ fromRce' = fromRce
      BY <2>2 DEF RceServe
    <3>2. RceNotified(m) \in Hold
      BY <1>1, <1>2, <2>2 DEF RceNotified, RceMsg, Hold, NoHold, AnyTag
    <3> HIDE DEF m
    <3> QED BY <1>4, <3>1, <3>2 DEF Typed
  <2> QED BY <2>1, <2>2
<1> QED BY <1>1, <1>5 DEF RceServe, Typed, TypeOK, narbs, apps

LEMMA SendTyped ==
  ASSUME Typed, NEW g \in Gri, NEW type \in {"REQUEST", "CONFIRM", "REMOVE"},
         NEW st \in {"asked", "confirmed", "leaving"}, Send(g, type, st), sends' \in [Gri -> Nat]
  PROVE  Typed'
<1> DEFINE m == [type |-> type, gri |-> g, via |-> "app", mask |-> {}, tag |-> app[g].tag,
                 lspb |-> 0, ero |-> app[g].ero]
<1>1. m \in UpMsg
  BY DEF UpMsg, Typed, TypeOK, AppView
<1>2. up' = [up EXCEPT ![1] = Append(@, m)]
  BY DEF Send
<1> HIDE DEF m
<1>3. up' \in [Dom -> Seq(UpMsg)]
  <2>1. \A i \in Dom : Append(up[i], m) \in Seq(UpMsg)
    BY <1>1, AppendProperties DEF Typed
  <2> QED BY <1>2, <2>1 DEF Typed
<1>4. app' \in [Gri -> AppView]
  <2>1. app \in [Gri -> AppView] /\ app' = [app EXCEPT ![g] = [app[g] EXCEPT !.st = st]]
    BY DEF Send, Typed, TypeOK
  <2>2. app[g] \in AppView
    BY <2>1
  <2>3. [app[g] EXCEPT !.st = st] \in AppView
    BY <2>2 DEF AppView
  <2> QED BY <2>1, <2>3
<1> QED BY <1>3, <1>4 DEF Send, Typed, TypeOK, narbs

LEMMA CountedType == ASSUME Typed, NEW g \in Gri, Counted(g) PROVE sends' \in [Gri -> Nat]
BY DEF Counted, Typed

LEMMA AppTyped ==
  ASSUME Typed, NEW g \in Gri,
         AppAsk(g) \/ AppConfirm(g) \/ AppRelease(g) \/ AppRepeat(g) \/ AppRetransmit(g)
  PROVE  Typed'
<1>1. CASE AppAsk(g)
  BY <1>1, CountedType, SendTyped DEF AppAsk
<1>2. CASE AppConfirm(g)
  BY <1>2, CountedType, SendTyped DEF AppConfirm
<1>3. CASE AppRelease(g)
  BY <1>3, CountedType, SendTyped DEF AppRelease
<1>4. CASE AppRepeat(g)
  BY <1>4, CountedType, SendTyped DEF AppRepeat
<1>5. CASE AppRetransmit(g)
  BY <1>5, SendTyped DEF AppRetransmit, Typed
<1> QED BY <1>1, <1>2, <1>3, <1>4, <1>5

LEMMA OneInDom == 1 \in Dom
BY BrokerAssumption DEF Dom, BrokerAssumption

LEMMA AppReadTyped == ASSUME Typed, AppRead PROVE Typed'
<1> DEFINE m == Head(dn[1])
<1>1. dn' \in [Dom -> Seq(DnMsg)] /\ m \in DnMsg
  BY OneInDom, ReaderType DEF AppRead, Typed
<1>2. app' = [app EXCEPT ![m.gri] = Told(@, m)]
  BY DEF AppRead
<1> HIDE DEF m
<1>3. m.gri \in Gri /\ m.tag \in Tags \cup {AnyTag} /\ m.ero \in 0 .. N
  BY <1>1 DEF DnMsg
<1>4. Told(app[m.gri], m) \in AppView
  BY <1>3 DEF Told, Typed, TypeOK, AppView
<1>5. app' \in [Gri -> AppView]
  BY <1>2, <1>3, <1>4 DEF Typed, TypeOK
<1> QED BY <1>1, <1>5 DEF AppRead, Typed, TypeOK, narbs

LEMMA Emptied ==
  ASSUME NEW S, NEW c \in [Dom -> Seq(S)]
  PROVE  /\ \A i : [c EXCEPT ![i] = <<>>] \in [Dom -> Seq(S)]
         /\ \A D : [j \in Dom |-> IF j \in D THEN <<>> ELSE c[j]] \in [Dom -> Seq(S)]
<1>1. <<>> \in Seq(S) /\ \A j \in Dom : c[j] \in Seq(S)
  OBVIOUS
<1> QED BY <1>1

LEMMA DisconnectedType == ASSUME Typed PROVE Disconnected \in [Gri -> AppView]
<1>1. ASSUME NEW g \in Gri PROVE Disconnected[g] \in AppView
  <2>1. app[g] \in AppView
    BY DEF Typed, TypeOK
  <2> QED BY <2>1 DEF Disconnected, AppView
<1> QED BY <1>1 DEF Disconnected

LEMMA FailureTyped ==
  ASSUME Typed,
         \/ \E i \in Dom, g \in Gri : Expire(i, g)
         \/ \E i \in Dom : RceStop(i) \/ RceStart(i) \/ NarbRestart(i)
         \/ AppReconnect
  PROVE  Typed'
<1>1. NoneOf \in [Gri -> Lspq \cup {NoLspq}] /\ NoHold \in Hold
  BY DEF NoneOf, NoHold, Hold, AnyTag
<1>2. ASSUME NEW i \in Dom, NEW g \in Gri, Expire(i, g) PROVE Typed'
  BY <1>1, <1>2 DEF Expire, Typed, TypeOK, chans, narbs, apps
<1>3. ASSUME NEW i \in Dom, RceStop(i) PROVE Typed'
  <2>1. toRce' \in [Dom -> Seq(RceMsg)] /\ fromRce' \in [Dom -> Seq(RceReply)]
    BY <1>3, Emptied DEF RceStop, Typed
  <2>2. hold' \in [Dom -> [Gri -> Hold]] /\ live' \subseteq Dom
        /\ rcli' \in [Dom -> {"none", "up", "stale"}] /\ faults' \in Nat
    BY <1>1, <1>3 DEF RceStop, Typed, TypeOK, Fault
  <2> QED BY <1>3, <2>1, <2>2 DEF RceStop, Typed, TypeOK, apps
<1>4. ASSUME NEW i \in Dom, RceStart(i) PROVE Typed'
  BY <1>4 DEF RceStart, Typed, TypeOK, chans, narbs, apps
<1>5. ASSUME NEW i \in Dom, NarbRestart(i) PROVE Typed'
  <2>1. toRce' \in [Dom -> Seq(RceMsg)] /\ fromRce' \in [Dom -> Seq(RceReply)]
    BY <1>5, Emptied DEF NarbRestart, Typed
  <2>2. up' \in [Dom -> Seq(UpMsg)] /\ dn' \in [Dom -> Seq(DnMsg)]
    BY <1>5, Emptied DEF NarbRestart, Typed
  <2>3. rcli' \in [Dom -> {"none", "up", "stale"}] /\ conn' \subseteq Dom
        /\ bw' \in [Dom -> 0 .. MaxBw] /\ faults' \in Nat
    BY <1>5, BrokerAssumption DEF NarbRestart, Typed, TypeOK, Fault, BrokerAssumption
  <2>4. q' \in [Dom -> [Gri -> Lspq \cup {NoLspq}]]
    BY <1>1, <1>5 DEF NarbRestart, Typed
  <2>5. app' \in [Gri -> AppView]
    BY <1>5, DisconnectedType DEF NarbRestart, Typed, TypeOK
  <2>6. UNCHANGED <<hold, live, sends>>
    BY <1>5 DEF NarbRestart
  <2>7. lspb' \in [Dom -> Nat]
    BY <1>5 DEF NarbRestart, Typed, Dom
  <2>8. TypeOK'
    BY <2>3, <2>4, <2>5, <2>6 DEF Typed, TypeOK
  <2> QED BY <2>1, <2>2, <2>4, <2>6, <2>7, <2>3, <2>8 DEF Typed
<1>6. ASSUME AppReconnect PROVE Typed'
  <2>1. up' \in [Dom -> Seq(UpMsg)] /\ dn' \in [Dom -> Seq(DnMsg)]
    BY <1>6, Emptied DEF AppReconnect, Typed
  <2>2. q' \in [Dom -> [Gri -> Lspq \cup {NoLspq}]] /\ lspb' \in [Dom -> Nat] /\ faults' \in Nat
    BY <1>1, <1>6, OneInDom DEF AppReconnect, Typed, Fault
  <2>3. app' \in [Gri -> AppView]
    BY <1>6, DisconnectedType DEF AppReconnect
  <2> QED BY <1>6, <2>1, <2>2, <2>3 DEF AppReconnect, Typed, TypeOK
<1> QED BY <1>2, <1>3, <1>4, <1>5, <1>6

LEMMA TypedInit == Init => Typed
<1> SUFFICES ASSUME Init PROVE Typed
  OBVIOUS
<1>1. NoneOf \in [Gri -> Lspq \cup {NoLspq}] /\ NoHold \in Hold
  BY DEF NoneOf, NoHold, Hold, AnyTag
<1>2. MaxBw \in 0 .. MaxBw
  BY BrokerAssumption DEF BrokerAssumption
<1>3. \A d \in Dests : [st |-> "idle", tag |-> AnyTag, ero |-> 0, dest |-> d] \in AppView
  BY BrokerAssumption DEF AppView, AnyTag, BrokerAssumption
<1>4. app \in [Gri -> AppView]
  BY <1>3 DEF Init
<1>5. up \in [Dom -> Seq(UpMsg)] /\ dn \in [Dom -> Seq(DnMsg)]
      /\ toRce \in [Dom -> Seq(RceMsg)] /\ fromRce \in [Dom -> Seq(RceReply)]
  BY DEF Init
<1> QED BY <1>1, <1>2, <1>4, <1>5 DEF Init, Typed, TypeOK, Dom

LEMMA TypedStep == Typed /\ [Next]_vars => Typed'
<1> SUFFICES ASSUME Typed, [Next]_vars PROVE Typed'
  OBVIOUS
<1>1. CASE UNCHANGED vars
  BY <1>1 DEF vars, Typed, TypeOK
<1>2. CASE Next
  BY <1>2, ReadMessageTyped, ReadRCEReplyTyped, ReadPeerReplyTyped, RceServeTyped, AppTyped,
     AppReadTyped, FailureTyped DEF Next
<1> QED BY <1>1, <1>2

(* Every record that a handler leaves behind, every message and the        *)
(* application's view of its LSPs have their types, whatever breaks.       *)
THEOREM TypeCorrect == Spec => []TypeOK
<1>1. Spec => []Typed
  BY TypedInit, TypedStep, PTL DEF Spec
<1>2. Typed => TypeOK
  BY DEF Typed
<1> QED BY <1>1, <1>2, PTL

-----------------------------------------------------------------------------
(* One step of the network: a message is read at r and messages are posted *)
(* at W.                                                                   *)

NoPlace == <<"none", 0>>
Moved(C, r, W, y) ==
  [p \in Places |-> IF p = r THEN Tail(C[p])
                    ELSE IF p \in W THEN Append(C[p], y[p]) ELSE C[p]]
Movable(C, r, W, y) ==
  /\ C \in [Places -> Seq(Msg)] /\ W \subseteq Places /\ r \notin W
  /\ r \in Places => C[r] # <<>>
  /\ \A p \in W : y[p] \in Msg

LEMMA MovedAt ==
  ASSUME NEW C, NEW r, NEW W, NEW y, Movable(C, r, W, y), NEW p \in Places
  PROVE  LET D == Moved(C, r, W, y)
         IN  /\ D[p] \in Seq(Msg) /\ Len(D[p]) \in Nat /\ Len(C[p]) \in Nat
             /\ p = r => /\ Len(D[p]) = Len(C[p]) - 1 /\ Len(C[p]) > 0
                         /\ \A k \in 1 .. Len(D[p]) : D[p][k] = C[p][k + 1]
             /\ p \in W => /\ Len(D[p]) = Len(C[p]) + 1
                           /\ \A k \in 1 .. Len(C[p]) : D[p][k] = C[p][k]
                           /\ D[p][Len(C[p]) + 1] = y[p]
             /\ p # r /\ p \notin W => D[p] = C[p]
<1> DEFINE D == Moved(C, r, W, y)
<1>1. C[p] \in Seq(Msg)
  BY DEF Movable
<1>2. CASE p = r
  <2>1. D[p] = Tail(C[p]) /\ C[p] # <<>>
    BY <1>2 DEF Moved, Movable
  <2>2. /\ D[p] \in Seq(Msg) /\ Len(D[p]) = Len(C[p]) - 1
        /\ \A k \in 1 .. Len(D[p]) : D[p][k] = C[p][k + 1]
    BY <1>1, <2>1, HeadTailProperties
  <2>3. Len(C[p]) \in Nat /\ Len(C[p]) > 0 /\ Len(D[p]) \in Nat
    BY <1>1, <2>1, <2>2, EmptySeq, LenProperties
  <2> QED BY <1>2, <2>2, <2>3 DEF Movable
<1>3. CASE p # r /\ p \in W
  <2>1. D[p] = Append(C[p], y[p]) /\ y[p] \in Msg
    BY <1>3 DEF Moved, Movable
  <2> QED BY <1>1, <1>3, <2>1, AppendProperties, LenProperties
<1>4. CASE p # r /\ p \notin W
  BY <1>1, <1>4, LenProperties DEF Moved
<1> QED BY <1>2, <1>3, <1>4

IsToken(g, p, m) == m.gri = g /\ m.type \in Carried(p[1])

LEMMA TokensMoved ==
  ASSUME NEW C, NEW r, NEW W, NEW y, Movable(C, r, W, y), NEW g, OneToken(C, g),
         \A p1, p2 \in W : IsToken(g, p1, y[p1]) /\ IsToken(g, p2, y[p2]) => p1 = p2,
         \A p \in W : IsToken(g, p, y[p]) =>
           \A t \in Places : \A k \in 1 .. Len(C[t]) : TokenAt(C, g, t, k) => t = r /\ k = 1
  PROVE  LET D == Moved(C, r, W, y)
         IN  /\ OneToken(D, g)
             /\ \A p \in Places : \A k \in 1 .. Len(D[p]) : TokenAt(D, g, p, k) =>
                  \/ p \in W /\ D[p][k] = y[p] /\ IsToken(g, p, y[p])
                  \/ \E j \in 1 .. Len(C[p]) : /\ TokenAt(C, g, p, j) /\ C[p][j] = D[p][k]
                                               /\ p = r => j > 1
<1> DEFINE D == Moved(C, r, W, y)
           at(p, k) == IF p = r THEN k + 1 ELSE k
<1>1. ASSUME NEW p \in Places, NEW k \in 1 .. Len(D[p]), TokenAt(D, g, p, k)
      PROVE  \/ p \in W /\ k = Len(C[p]) + 1 /\ D[p][k] = y[p] /\ IsToken(g, p, y[p])
             \/ at(p, k) \in 1 .. Len(C[p]) /\ TokenAt(C, g, p, at(p, k)) /\ C[p][at(p, k)] = D[p][k]
  <2> HIDE DEF D
  <2>1. D[p][k].gri = g /\ D[p][k].type \in Carried(p[1]) /\ k \in Nat \ {0}
    BY <1>1 DEF TokenAt
  <2>2. CASE p = r
    <3>1. Len(C[p]) \in Nat /\ Len(D[p]) = Len(C[p]) - 1 /\ D[p][k] = C[p][k + 1]
      BY <2>2, MovedAt DEF D
    <3> QED BY <2>1, <2>2, <3>1 DEF TokenAt
  <2>3. CASE p # r /\ p \in W
    <3>1. /\ Len(C[p]) \in Nat /\ Len(D[p]) = Len(C[p]) + 1
          /\ \A j \in 1 .. Len(C[p]) : D[p][j] = C[p][j]
          /\ D[p][Len(C[p]) + 1] = y[p]
      BY <2>3, MovedAt DEF D
    <3>2. CASE k = Len(C[p]) + 1
      BY <2>1, <2>3, <3>1, <3>2 DEF IsToken
    <3>3. CASE k # Len(C[p]) + 1
      <4>1. k \in 1 .. Len(C[p])
        BY <2>1, <3>1, <3>3
      <4> QED BY <2>1, <2>3, <3>1, <4>1 DEF TokenAt
    <3> QED BY <3>2, <3>3
  <2>4. CASE p # r /\ p \notin W
    <3>1. D[p] = C[p]
      BY <2>4, MovedAt DEF D
    <3> QED BY <2>1, <2>4, <3>1 DEF TokenAt
  <2> QED BY <2>2, <2>3, <2>4
<1> HIDE DEF D
<1>2. ASSUME NEW p1 \in Places, NEW p2 \in Places, NEW k1 \in 1 .. Len(D[p1]),
             NEW k2 \in 1 .. Len(D[p2]), TokenAt(D, g, p1, k1), TokenAt(D, g, p2, k2)
      PROVE  p1 = p2 /\ k1 = k2
  <2>1. Len(C[p1]) \in Nat /\ Len(C[p2]) \in Nat /\ k1 \in Nat \ {0} /\ k2 \in Nat \ {0}
        /\ r \notin W
    BY MovedAt DEF Movable, D
  <2>2. CASE p1 \in W /\ k1 = Len(C[p1]) + 1 /\ IsToken(g, p1, y[p1])
    <3>1. ~(at(p2, k2) \in 1 .. Len(C[p2]) /\ TokenAt(C, g, p2, at(p2, k2)))
      BY <2>1, <2>2
    <3>2. p2 \in W /\ k2 = Len(C[p2]) + 1 /\ IsToken(g, p2, y[p2])
      BY <1>1, <1>2, <3>1
    <3> QED BY <2>2, <3>2
  <2>3. CASE p2 \in W /\ k2 = Len(C[p2]) + 1 /\ IsToken(g, p2, y[p2])
    <3>1. ~(at(p1, k1) \in 1 .. Len(C[p1]) /\ TokenAt(C, g, p1, at(p1, k1)))
      BY <2>1, <2>3
    <3>2. p1 \in W /\ k1 = Len(C[p1]) + 1 /\ IsToken(g, p1, y[p1])
      BY <1>1, <1>2, <3>1
    <3> QED BY <2>3, <3>2
  <2>4. CASE /\ at(p1, k1) \in 1 .. Len(C[p1]) /\ TokenAt(C, g, p1, at(p1, k1))
             /\ at(p2, k2) \in 1 .. Len(C[p2]) /\ TokenAt(C, g, p2, at(p2, k2))
    <3>1. p1 = p2 /\ at(p1, k1) = at(p2, k2)
      BY <2>4 DEF OneToken
    <3> QED BY <2>1, <3>1
  <2> QED BY <1>1, <1>2, <2>2, <2>3, <2>4
<1>3. ASSUME NEW p \in Places, NEW k \in 1 .. Len(D[p]), TokenAt(D, g, p, k)
      PROVE  \/ p \in W /\ D[p][k] = y[p] /\ IsToken(g, p, y[p])
             \/ \E j \in 1 .. Len(C[p]) : /\ TokenAt(C, g, p, j) /\ C[p][j] = D[p][k]
                                          /\ p = r => j > 1
  <2>1. k \in Nat \ {0}
    BY MovedAt DEF D
  <2> QED BY <1>1, <1>3, <2>1
<1> QED BY <1>2, <1>3 DEF OneToken, D

LEMMA HasMoved ==
  ASSUME NEW C, NEW r, NEW W, NEW y, Movable(C, r, W, y), NEW p \in Places, NEW g, NEW type
  PROVE  LET D == Moved(C, r, W, y)
         IN  /\ p \in W /\ y[p].gri = g /\ y[p].type = type => Has(D[p], g, type)
             /\ Has(C[p], g, type) /\ (p = r => ~(C[p][1].gri = g /\ C[p][1].type = type))
                  => Has(D[p], g, type)
             /\ Has(D[p], g, type)
                  => Has(C[p], g, type) \/ (p \in W /\ y[p].gri = g /\ y[p].type = type)
<1> DEFINE D == Moved(C, r, W, y)
<1> HIDE DEF D
<1>1. Len(C[p]) \in Nat /\ Len(D[p]) \in Nat
  BY MovedAt DEF D
<1>2. CASE p = r
  <2>1. /\ Len(D[p]) = Len(C[p]) - 1 /\ p \notin W
        /\ \A k \in 1 .. Len(D[p]) : D[p][k] = C[p][k + 1]
    <3>1. p \notin W
      BY <1>2 DEF Movable
    <3> QED BY <1>2, <3>1, MovedAt DEF D
  <2>2. ASSUME NEW k \in 1 .. Len(C[p]), C[p][k].gri = g, C[p][k].type = type, k # 1
        PROVE  Has(D[p], g, type)
    <3>1. k - 1 \in 1 .. Len(D[p]) /\ D[p][k - 1] = C[p][k]
      BY <1>1, <2>1, <2>2
    <3> QED BY <2>2, <3>1 DEF Has
  <2>3. ASSUME NEW k \in 1 .. Len(D[p]), D[p][k].gri = g, D[p][k].type = type
        PROVE  Has(C[p], g, type)
    <3>1. k + 1 \in 1 .. Len(C[p]) /\ D[p][k] = C[p][k + 1]
      BY <1>1, <2>1
    <3> QED BY <2>3, <3>1 DEF Has
  <2> QED BY <1>2, <2>1, <2>2, <2>3 DEF Has, D
<1>3. CASE p # r /\ p \in W
  <2>1. /\ Len(D[p]) = Len(C[p]) + 1
        /\ \A k \in 1 .. Len(C[p]) : D[p][k] = C[p][k]
        /\ D[p][Len(C[p]) + 1] = y[p]
    BY <1>3, MovedAt DEF D
  <2>2. Len(C[p]) + 1 \in 1 .. Len(D[p]) /\ \A k \in 1 .. Len(C[p]) : k \in 1 .. Len(D[p])
    BY <1>1, <2>1
  <2>3. \A k \in 1 .. Len(D[p]) : k \in 1 .. Len(C[p]) \/ k = Len(C[p]) + 1
    BY <1>1, <2>1
  <2> QED BY <1>3, <2>1, <2>2, <2>3 DEF Has, D
<1>4. CASE p # r /\ p \notin W
  BY <1>4, MovedAt DEF D, Has
<1> QED BY <1>2, <1>3, <1>4

(* The channels of the model, as the function Net.                         *)
LEMMA NetAt ==
  ASSUME NEW i \in Dom
  PROVE  /\ <<"up", i>> \in Places /\ Net[<<"up", i>>] = up[i]
         /\ <<"dn", i>> \in Places /\ Net[<<"dn", i>>] = dn[i]
         /\ <<"toRce", i>> \in Places /\ Net[<<"toRce", i>>] = toRce[i]
         /\ <<"fromRce", i>> \in Places /\ Net[<<"fromRce", i>>] = fromRce[i]
<1>1. \A k \in {"up", "dn", "toRce", "fromRce"} : <<k, i>> \in Places
  BY DEF Places
<1> QED BY <1>1 DEF Net

LEMMA PlaceIs ==
  ASSUME NEW p \in Places
  PROVE  /\ p[2] \in Dom /\ p = <<p[1], p[2]>>
         /\ p \in {<<"up", p[2]>>, <<"dn", p[2]>>, <<"toRce", p[2]>>, <<"fromRce", p[2]>>}
BY DEF Places

LEMMA NetType == Typed => Net \in [Places -> Seq(Msg)]
<1> SUFFICES ASSUME Typed, NEW p \in Places PROVE Net[p] \in Seq(Msg)
  BY DEF Net
<1>1. Seq(UpMsg) \subseteq Seq(Msg) /\ Seq(DnMsg) \subseteq Seq(Msg)
      /\ Seq(RceMsg) \subseteq Seq(Msg) /\ Seq(RceReply) \subseteq Seq(Msg)
  BY SeqMonotonic DEF Msg
<1>2. PICK i \in Dom : p \in {<<"up", i>>, <<"dn", i>>, <<"toRce", i>>, <<"fromRce", i>>}
  BY PlaceIs
<1>3. up[i] \in Seq(Msg) /\ dn[i] \in Seq(Msg) /\ toRce[i] \in Seq(Msg) /\ fromRce[i] \in Seq(Msg)
  BY <1>1 DEF Typed
<1> QED BY <1>2, <1>3, NetAt

(* Where the messages of an effect go, unless there is no next domain.     *)
Outlet(i, f, p) == \/ p = <<"up", i + 1>> /\ f.peer # <<>>
                   \/ p = <<"dn", i>> /\ f.client # <<>>
                   \/ p = <<"toRce", i>> /\ f.rce # <<>>
OutBox(i, f) == {p \in Places : Outlet(i, f, p)}
Posts(i, f) == [p \in Places |-> IF p[1] = "up" THEN f.peer[1]
                                 ELSE IF p[1] = "dn" THEN f.client[1] ELSE f.rce[1]]
Inlets(i) == {<<"up", i>>, <<"fromRce", i>>, <<"dn", i + 1>>}

Longer(s, x) == IF x = <<>> THEN s ELSE Append(s, x[1])

LEMMA Posting ==
  ASSUME NEW S, NEW g, NEW s \in Seq(S), NEW x \in UpTo1(Of(S, g))
  PROVE  s \o x = Longer(s, x)
<1>1. CASE x = <<>>
  BY <1>1, ConcatEmptySeq DEF Longer
<1>2. ASSUME NEW m \in Of(S, g), x = <<m>> PROVE x # <<>> /\ s \o x = Append(s, x[1])
  <2>1. m \in S
    BY DEF Of
  <2>2. x[1] = m /\ x # <<>> /\ x \in Seq(S) /\ Len(x) = 1
    BY <1>2, <2>1
  <2>3. s \o <<m>> = Append(s, m)
    BY <2>1
  <2> QED BY <1>2, <2>2, <2>3
<1> QED BY <1>1, <1>2 DEF UpTo1, Longer

LEMMA CommitMoves ==
  ASSUME Typed, NEW i \in Dom, NEW g \in Gri, NEW f \in Effects(g), NEW r \in Inlets(i),
         r \in Places, Net[r] # <<>>, NEW u, NEW d, NEW v,
         u = IF r = <<"up", i>> THEN [up EXCEPT ![i] = Tail(@)] ELSE up,
         d = IF r = <<"dn", i + 1>> THEN [dn EXCEPT ![i + 1] = Tail(@)] ELSE dn,
         v = IF r = <<"fromRce", i>> THEN [fromRce EXCEPT ![i] = Tail(@)] ELSE fromRce,
         Commit(i, g, f, u, d, v)
  PROVE  /\ Movable(Net, r, OutBox(i, f), Posts(i, f))
         /\ Net' = Moved(Net, r, OutBox(i, f), Posts(i, f))
         /\ \A p \in OutBox(i, f) : Posts(i, f)[p].gri = g
<1> DEFINE W == OutBox(i, f)
           y == Posts(i, f)
           D == Moved(Net, r, W, y)
<1>1. i \in Nat /\ N \in Nat
  BY BrokerAssumption DEF Dom, BrokerAssumption
<1>2. /\ f.peer \in UpTo1(Of(UpMsg, g)) /\ f.client \in UpTo1(Of(DnMsg, g))
      /\ f.rce \in UpTo1(Of(RceMsg, g))
  BY DEF Effects
<1>3. /\ f.peer # <<>> => f.peer[1] \in Of(UpMsg, g)
      /\ f.client # <<>> => f.client[1] \in Of(DnMsg, g)
      /\ f.rce # <<>> => f.rce[1] \in Of(RceMsg, g)
  BY <1>2 DEF UpTo1
<1>4. r \notin W
  BY <1>1 DEF OutBox, Outlet, Inlets
<1>5. \A p \in W : y[p] \in Msg /\ y[p].gri = g
  BY <1>3 DEF OutBox, Outlet, Posts, Of, Msg
<1>6. Movable(Net, r, W, y)
  BY <1>4, <1>5, NetType DEF Movable, OutBox
<1>7. \A j \in Dom : Net'[<<"up", j>>] = D[<<"up", j>>]
  <2> SUFFICES ASSUME NEW j \in Dom PROVE up'[j] = D[<<"up", j>>]
    BY DEF Net, Places
  <2>1. u \in [Dom -> Seq(UpMsg)] /\ u[j] = IF r = <<"up", j>> THEN Tail(up[j]) ELSE up[j]
    <3>1. r = <<"up", i>> => up[i] # <<>>
      BY NetAt
    <3>2. r = <<"up", j>> => i = j
      BY <1>1 DEF Inlets
    <3> QED BY <3>1, <3>2, ReaderType DEF Typed
  <2>2. CASE j = i + 1
    <3>1. up'[j] = up[j] \o f.peer
      <4>1. u[j] = up[j] /\ i < N
        BY <1>1, <2>1, <2>2 DEF Inlets, Dom
      <4>2. up' = IF i < N THEN [u EXCEPT ![i + 1] = @ \o f.peer] ELSE u
        BY DEF Commit
      <4> HIDE DEF W, y, D
      <4> QED BY ONLY <2>1, <2>2, <4>1, <4>2
    <3>2. up'[j] = Longer(up[j], f.peer)
      <4>1. up[j] \in Seq(UpMsg)
        BY DEF Typed
      <4>2. f.peer \in UpTo1(Of(UpMsg, g))
        BY ONLY <1>2
      <4>3. up[j] \o f.peer = Longer(up[j], f.peer)
        BY ONLY <4>1, <4>2, Posting
      <4> QED BY ONLY <3>1, <4>3
    <3>3. <<"up", j>> \in Places
      BY NetAt
    <3>4. r # <<"up", j>>
      BY <1>1, <2>2 DEF Inlets
    <3>5. <<"up", j>> \in W <=> f.peer # <<>>
      <4> DEFINE p == <<"up", j>>
      <4>1. p = <<"up", i + 1>>
        BY <1>1, <2>2
      <4> HIDE DEF p
      <4>2. Outlet(i, f, p) <=> f.peer # <<>>
        BY ONLY <1>1, <4>1 DEF Outlet
      <4> QED BY <3>3, <4>2 DEF p, OutBox
    <3>6. y[<<"up", j>>] = f.peer[1]
      BY <3>3 DEF Posts
    <3> QED BY <3>2, <3>3, <3>4, <3>5, <3>6, NetAt DEF Moved, Longer
  <2>3. CASE j # i + 1
    <3>1. up'[j] = u[j]
      BY <1>1, <2>1, <2>3 DEF Commit, Dom
    <3>2. <<"up", j>> \notin W
      BY <1>1, <2>3 DEF OutBox, Outlet
    <3> QED BY <2>1, <3>1, <3>2, NetAt DEF Moved
  <2> QED BY <2>2, <2>3
<1>8. \A j \in Dom : Net'[<<"dn", j>>] = D[<<"dn", j>>]
  <2> SUFFICES ASSUME NEW j \in Dom PROVE dn'[j] = D[<<"dn", j>>]
    BY DEF Net, Places
  <2>1. d \in [Dom -> Seq(DnMsg)] /\ d[j] = IF r = <<"dn", j>> THEN Tail(dn[j]) ELSE dn[j]
    <3>1. ASSUME r = <<"dn", i + 1>> PROVE i + 1 \in Dom /\ dn[i + 1] # <<>>
      <4>1. i + 1 \in Dom
        BY <3>1 DEF Places
      <4> QED BY <3>1, <4>1, NetAt
    <3>2. r = <<"dn", j>> => i + 1 = j
      BY <1>1 DEF Inlets
    <3> QED BY <3>1, <3>2, ReaderType DEF Typed
  <2>2. CASE j = i
    <3>1. dn'[j] = dn[j] \o f.client
      <4>1. d[j] = dn[j]
        BY <1>1, <2>1, <2>2 DEF Inlets
      <4>2. dn' = [d EXCEPT ![i] = @ \o f.client]
        BY DEF Commit
      <4> QED BY ONLY <2>1, <2>2, <4>1, <4>2
    <3>2. dn'[j] = Longer(dn[j], f.client)
      <4>1. dn[j] \in Seq(DnMsg)
        BY DEF Typed
      <4>2. f.client \in UpTo1(Of(DnMsg, g))
        BY ONLY <1>2
      <4>3. dn[j] \o f.client = Longer(dn[j], f.client)
        BY ONLY <4>1, <4>2, Posting
      <4> QED BY ONLY <3>1, <4>3
    <3>3. <<"dn", j>> \in Places
      BY NetAt
    <3>4. r # <<"dn", j>>
      BY <1>1, <2>2 DEF Inlets
    <3>5. <<"dn", j>> \in W <=> f.client # <<>>
      <4> DEFINE p == <<"dn", j>>
      <4>1. p = <<"dn", i>>
        BY <1>1, <2>2
      <4> HIDE DEF p
      <4>2. Outlet(i, f, p) <=> f.client # <<>>
        BY ONLY <1>1, <4>1 DEF Outlet
      <4> QED BY <3>3, <4>2 DEF p, OutBox
    <3>6. y[<<"dn", j>>] = f.client[1]
      BY <3>3 DEF Posts
    <3> QED BY <3>2, <3>3, <3>4, <3>5, <3>6, NetAt DEF Moved, Longer
  <2>3. CASE j # i
    <3>1. dn'[j] = d[j]
      BY <2>1, <2>3 DEF Commit
    <3>2. <<"dn", j>> \notin W
      BY <1>1, <2>3 DEF OutBox, Outlet
    <3> QED BY <2>1, <3>1, <3>2, NetAt DEF Moved
  <2> QED BY <2>2, <2>3
<1>9. \A j \in Dom : Net'[<<"toRce", j>>] = D[<<"toRce", j>>]
  <2> SUFFICES ASSUME NEW j \in Dom PROVE toRce'[j] = D[<<"toRce", j>>]
    BY DEF Net, Places
  <2>1. r # <<"toRce", j>>
    BY DEF Inlets
  <2>4. <<"toRce", j>> \in Places
    BY NetAt
  <2>2. CASE j = i
    <3>1. toRce'[j] = toRce[j] \o f.rce
      BY <2>2 DEF Commit, Typed
    <3>2. toRce'[j] = Longer(toRce[j], f.rce)
      <4>1. toRce[j] \in Seq(RceMsg)
        BY DEF Typed
      <4>2. f.rce \in UpTo1(Of(RceMsg, g))
        BY ONLY <1>2
      <4>3. toRce[j] \o f.rce = Longer(toRce[j], f.rce)
        BY ONLY <4>1, <4>2, Posting
      <4> QED BY ONLY <3>1, <4>3
    <3>3. <<"toRce", j>> \in W <=> f.rce # <<>>
      BY <1>1, <2>2, <2>4 DEF OutBox, Outlet
    <3>4. y[<<"toRce", j>>] = f.rce[1]
      BY <2>4 DEF Posts
    <3> QED BY <2>1, <2>4, <3>2, <3>3, <3>4, NetAt DEF Moved, Longer
  <2>3. CASE j # i
    <3>1. toRce'[j] = toRce[j]
      BY <2>3 DEF Commit, Typed
    <3>2. <<"toRce", j>> \notin W
      BY <1>1, <2>3 DEF OutBox, Outlet
    <3> QED BY <2>1, <3>1, <3>2, NetAt DEF Moved
  <2> QED BY <2>2, <2>3
<1>10. \A j \in Dom : Net'[<<"fromRce", j>>] = D[<<"fromRce", j>>]
  <2> SUFFICES ASSUME NEW j \in Dom PROVE fromRce'[j] = D[<<"fromRce", j>>]
    BY DEF Net, Places
  <2>1. fromRce'[j] = IF r = <<"fromRce", j>> THEN Tail(fromRce[j]) ELSE fromRce[j]
    <3>1. r = <<"fromRce", j>> => i = j
      BY <1>1 DEF Inlets
    <3> QED BY <3>1 DEF Commit, Typed
  <2>2. <<"fromRce", j>> \notin W
    BY DEF OutBox, Outlet
  <2> QED BY <2>1, <2>2, NetAt DEF Moved
<1>11. Net' = D
  <2>1. \A p \in Places : Net'[p] = D[p]
    BY <1>7, <1>8, <1>9, <1>10, PlaceIs
  <2> HIDE DEF D
  <2>2. Net' = [p \in Places |-> Net'[p]]
    BY DEF Net
  <2>3. D = [p \in Places |-> D[p]]
    BY DEF D, Moved
  <2> QED BY <2>1, <2>2, <2>3
<1> QED BY <1>5, <1>6, <1>11

-----------------------------------------------------------------------------
(* Requests, confirmations and releases of one GRI, step by step.          *)

OnlyToken(C, g, r) == \A p \in Places : \A k \in 1 .. Len(C[p]) :
                        TokenAt(C, g, p, k) => p = r /\ k = 1

(* What a step posts for g goes with where the application then is.        *)
Posted1(g, r, W, y) ==
  /\ \A p1, p2 \in W : IsToken(g, p1, y[p1]) /\ IsToken(g, p2, y[p2]) => p1 = p2
  /\ \A p \in W : IsToken(g, p, y[p]) =>
       OnlyToken(Net, g, r) /\ app'[g].st = "asked"
  /\ \A p \in W : p[1] = "up" /\ y[p].gri = g /\ y[p].type \in {"CONFIRM", "REMOVE"}
                  => app'[g].st \in Engaged

(* The application is where it was, or has gone on after the last token.   *)
AppMoves(g, r) ==
  \/ app'[g].st = app[g].st
  \/ app[g].st \in Engaged /\ app'[g].st \in Engaged
  \/ app[g].st \notin Engaged /\ OnlyToken(Net, g, r)

LEMMA PhasedMoves ==
  ASSUME NEW r, NEW W, NEW y, Movable(Net, r, W, y), Net' = Moved(Net, r, W, y),
         NEW g \in Gri, Phased(Net, g), Posted1(g, r, W, y), AppMoves(g, r),
         \A j \in Dom : q'[j][g].st \in Closed => q[j][g].st \in Closed \/ app'[g].st \in Engaged
  PROVE  Phased(Net, g)'
<1> DEFINE D == Moved(Net, r, W, y)
<1>1. OneToken(Net, g)
  BY DEF Phased
<1>2. /\ OneToken(D, g)
      /\ \A p \in Places : \A k \in 1 .. Len(D[p]) : TokenAt(D, g, p, k) =>
           \/ p \in W /\ D[p][k] = y[p] /\ IsToken(g, p, y[p])
           \/ \E j \in 1 .. Len(Net[p]) : /\ TokenAt(Net, g, p, j) /\ Net[p][j] = D[p][k]
                                          /\ p = r => j > 1
  <2>1. \A p1, p2 \in W : IsToken(g, p1, y[p1]) /\ IsToken(g, p2, y[p2]) => p1 = p2
    BY DEF Posted1
  <2>2. \A p \in W : IsToken(g, p, y[p]) =>
           \A t \in Places : \A k \in 1 .. Len(Net[t]) : TokenAt(Net, g, t, k) => t = r /\ k = 1
    BY DEF Posted1, OnlyToken
  <2> QED BY <1>1, <2>1, <2>2, TokensMoved
<1>3. ASSUME NEW p \in Places, NEW k \in 1 .. Len(D[p]), TokenAt(D, g, p, k)
      PROVE  app'[g].st = "asked"
  <2> HIDE DEF D
  <2>1. CASE p \in W /\ D[p][k] = y[p] /\ IsToken(g, p, y[p])
    BY <2>1 DEF Posted1
  <2>2. ASSUME NEW j \in 1 .. Len(Net[p]), TokenAt(Net, g, p, j), Net[p][j] = D[p][k],
               p = r => j > 1
        PROVE  app'[g].st = "asked"
    <3>1. app[g].st = "asked"
      BY <2>2 DEF Phased
    <3>2. ~OnlyToken(Net, g, r)
      BY <2>2 DEF OnlyToken
    <3> QED BY <3>1, <3>2 DEF AppMoves, Engaged
  <2> QED BY <1>2, <1>3, <2>1, <2>2
<1>4. ASSUME NEW j \in Dom,
             \/ q'[j][g].st \in Closed
             \/ \E type \in {"CONFIRM", "REMOVE"} : Has(D[<<"up", j>>], g, type)
      PROVE  app'[g].st \in Engaged
  <2> DEFINE p == <<"up", j>>
  <2>1. p \in Places /\ p[1] = "up"
    BY NetAt
  <2> HIDE DEF p
  <2>2. app[g].st \in Engaged => app'[g].st \in Engaged
    BY DEF AppMoves
  <2>3. \/ q[j][g].st \in Closed
        \/ \E type \in {"CONFIRM", "REMOVE"} : Has(Net[p], g, type)
        => app[g].st \in Engaged
    BY DEF Phased, p
  <2>4. CASE q'[j][g].st \in Closed
    BY <2>2, <2>3, <2>4
  <2>5. ASSUME NEW type \in {"CONFIRM", "REMOVE"}, Has(D[p], g, type) PROVE app'[g].st \in Engaged
    <3>1. Has(Net[p], g, type) \/ (p \in W /\ y[p].gri = g /\ y[p].type = type)
      BY <2>1, <2>5, HasMoved
    <3> QED BY <2>1, <2>2, <2>3, <3>1 DEF Posted1
  <2> QED BY <1>4, <2>4, <2>5 DEF p
<1> HIDE DEF D
<1>5. Net' = D
  BY DEF D
<1> QED BY <1>2, <1>3, <1>4, <1>5 DEF Phased

(* As long as the application has confirmed nothing there is nothing to    *)
(* be in order.                                                            *)
LEMMA CalmOrdered ==
  ASSUME NEW g \in Gri, Phased(Net, g)', app'[g].st \notin Engaged
  PROVE  Ordered(Net, g)'
<1>1. ASSUME NEW i \in Dom, NEW k \in 1 .. Len(Net'[<<"up", i>>]), Net'[<<"up", i>>][k].gri = g
      PROVE  Net'[<<"up", i>>][k].type \notin {"CONFIRM", "REMOVE"}
  <2> DEFINE p == <<"up", i>>
  <2>1. p \in Places /\ p[1] = "up"
    BY NetAt
  <2> HIDE DEF p
  <2>2. k \in 1 .. Len(Net'[p]) /\ Net'[p][k].gri = g
    BY <1>1 DEF p
  <2>3. Net'[p][k].type \notin {"CONFIRM", "REMOVE"}
    BY <2>2 DEF Phased, Has, p
  <2> QED BY <2>3 DEF p
<1>2. ASSUME NEW i \in Dom, i # 1 PROVE q'[i - 1][g].st # "RESV_CONFIRM"
  <2>1. i - 1 \in Dom
    BY <1>2, BrokerAssumption DEF Dom, BrokerAssumption
  <2> QED BY <2>1 DEF Phased, Closed
<1> QED BY <1>1, <1>2 DEF Ordered

(* What a step does when the application has confirmed: releases keep      *)
(* behind confirmations, and a NARB that confirms tells the next one.      *)
Follows(g, r, W, y) ==
  /\ app[g].st \in Engaged /\ app'[g].ero = app[g].ero
  /\ \A j \in Dom :
       LET p == <<"up", j>>
       IN  /\ q'[j][g].st \in Granted => q[j][g].st \in Granted
           /\ p = r /\ Net[p][1].gri = g /\ Net[p][1].type = "CONFIRM"
                => q'[j][g].st \notin Granted
           /\ p \in W /\ y[p].gri = g /\ y[p].type \in {"CONFIRM", "REMOVE"}
                => y[p].ero = app[g].ero
           /\ p \in W /\ y[p].gri = g /\ y[p].type = "REMOVE" /\ q'[j][g].st \in Granted
                => Has(Net[p], g, "CONFIRM")
           /\ j # 1 /\ q'[j - 1][g].st = "RESV_CONFIRM" /\ app[g].ero >= j
                => \/ q[j - 1][g].st = "RESV_CONFIRM"
                   \/ p \in W /\ y[p].gri = g /\ y[p].type = "CONFIRM"

LEMMA OrderedMoves ==
  ASSUME NEW r, NEW W, NEW y, Movable(Net, r, W, y), Net' = Moved(Net, r, W, y),
         NEW g \in Gri, Ordered(Net, g), Follows(g, r, W, y)
  PROVE  Ordered(Net, g)'
<1> DEFINE D == Moved(Net, r, W, y)
<1>1. ASSUME NEW i \in Dom, NEW k \in 1 .. Len(D[<<"up", i>>]), D[<<"up", i>>][k].gri = g
      PROVE  /\ D[<<"up", i>>][k].type \in {"CONFIRM", "REMOVE"} =>
                  D[<<"up", i>>][k].ero = app[g].ero
             /\ D[<<"up", i>>][k].type = "REMOVE" /\ q'[i][g].st \in Granted =>
                  \E j \in 1 .. k - 1 : D[<<"up", i>>][j].gri = g
                                        /\ D[<<"up", i>>][j].type = "CONFIRM"
  <2> DEFINE p == <<"up", i>>
  <2>1. p \in Places
    BY NetAt
  <2>2. \A n \in 1 .. Len(Net[p]) : Net[p][n].gri = g =>
          /\ Net[p][n].type \in {"CONFIRM", "REMOVE"} => Net[p][n].ero = app[g].ero
          /\ Net[p][n].type = "REMOVE" /\ q[i][g].st \in Granted =>
               \E j \in 1 .. n - 1 : Net[p][j].gri = g /\ Net[p][j].type = "CONFIRM"
    BY DEF Ordered
  <2>3. /\ q'[i][g].st \in Granted => q[i][g].st \in Granted
        /\ p = r /\ Net[p][1].gri = g /\ Net[p][1].type = "CONFIRM" => q'[i][g].st \notin Granted
        /\ p \in W /\ y[p].gri = g /\ y[p].type \in {"CONFIRM", "REMOVE"}
             => y[p].ero = app[g].ero
        /\ p \in W /\ y[p].gri = g /\ y[p].type = "REMOVE" /\ q'[i][g].st \in Granted
             => Has(Net[p], g, "CONFIRM")
    BY DEF Follows
  <2>4. k \in 1 .. Len(D[p]) /\ D[p][k].gri = g
    BY <1>1
  <2> HIDE DEF p, D
  <2>5. /\ Len(Net[p]) \in Nat /\ Len(D[p]) \in Nat
        /\ p = r => /\ Len(D[p]) = Len(Net[p]) - 1
                    /\ \A n \in 1 .. Len(D[p]) : D[p][n] = Net[p][n + 1]
        /\ p \in W => /\ Len(D[p]) = Len(Net[p]) + 1
                      /\ \A n \in 1 .. Len(Net[p]) : D[p][n] = Net[p][n]
                      /\ D[p][Len(Net[p]) + 1] = y[p]
    BY <2>1, MovedAt DEF D
  <2>6. CASE p = r
    <3>1. Len(D[p]) = Len(Net[p]) - 1 /\ \A n \in 1 .. Len(D[p]) : D[p][n] = Net[p][n + 1]
      BY <2>5, <2>6
    <3>2. k + 1 \in 1 .. Len(Net[p]) /\ D[p][k] = Net[p][k + 1]
      BY <2>4, <2>5, <3>1
    <3>3. D[p][k].type \in {"CONFIRM", "REMOVE"} => D[p][k].ero = app[g].ero
      BY <2>2, <2>4, <3>2
    <3>4. ASSUME D[p][k].type = "REMOVE", q'[i][g].st \in Granted
          PROVE  \E j \in 1 .. k - 1 : D[p][j].gri = g /\ D[p][j].type = "CONFIRM"
      <4>1. PICK n \in 1 .. (k + 1) - 1 : Net[p][n].gri = g /\ Net[p][n].type = "CONFIRM"
        BY <2>2, <2>3, <2>4, <3>2, <3>4
      <4>2. n # 1
        BY <2>3, <2>6, <3>4, <4>1
      <4>3. n - 1 \in 1 .. k - 1 /\ n - 1 \in 1 .. Len(D[p])
        BY <2>4, <2>5, <4>2
      <4>4. D[p][n - 1] = Net[p][n]
        BY <3>1, <4>3
      <4> QED BY <4>1, <4>3, <4>4
    <3> QED BY <3>3, <3>4 DEF p
  <2>7. CASE p # r /\ p \in W
    <3>1. /\ Len(D[p]) = Len(Net[p]) + 1
          /\ \A n \in 1 .. Len(Net[p]) : D[p][n] = Net[p][n]
          /\ D[p][Len(Net[p]) + 1] = y[p]
      BY <2>5, <2>7
    <3>2. CASE k = Len(Net[p]) + 1
      <4>1. D[p][k] = y[p] /\ y[p].gri = g
        BY <2>4, <3>1, <3>2
      <4>2. ASSUME y[p].type = "REMOVE", q'[i][g].st \in Granted
            PROVE  \E j \in 1 .. k - 1 : D[p][j].gri = g /\ D[p][j].type = "CONFIRM"
        <5>1. PICK j \in 1 .. Len(Net[p]) : Net[p][j].gri = g /\ Net[p][j].type = "CONFIRM"
          BY <2>3, <2>7, <4>1, <4>2 DEF Has
        <5>2. j \in 1 .. k - 1 /\ D[p][j] = Net[p][j]
          BY <2>5, <3>1, <3>2
        <5> QED BY <5>1, <5>2
      <4> QED BY <2>3, <2>7, <4>1, <4>2 DEF p
    <3>3. CASE k # Len(Net[p]) + 1
      <4>1. k \in 1 .. Len(Net[p]) /\ D[p][k] = Net[p][k]
        BY <2>4, <2>5, <3>1, <3>3
      <4>2. ASSUME D[p][k].type = "REMOVE", q'[i][g].st \in Granted
            PROVE  \E j \in 1 .. k - 1 : D[p][j].gri = g /\ D[p][j].type = "CONFIRM"
        <5>1. PICK j \in 1 .. k - 1 : Net[p][j].gri = g /\ Net[p][j].type = "CONFIRM"
          BY <2>2, <2>3, <2>4, <4>1, <4>2
        <5>2. D[p][j] = Net[p][j]
          BY <2>5, <3>1, <4>1
        <5> QED BY <5>1, <5>2
      <4> QED BY <2>2, <2>4, <4>1, <4>2 DEF p
    <3> QED BY <3>2, <3>3
  <2>8. CASE p # r /\ p \notin W
    <3>1. D[p] = Net[p]
      BY <2>1, <2>8, MovedAt DEF D
    <3> QED BY <2>2, <2>3, <2>4, <3>1 DEF p
  <2> QED BY <2>6, <2>7, <2>8
<1>2. ASSUME NEW i \in Dom, q'[i][g].st \in Granted, Has(Net[<<"up", i>>], g, "CONFIRM")
      PROVE  Has(D[<<"up", i>>], g, "CONFIRM")
  <2> DEFINE p == <<"up", i>>
  <2>1. p \in Places /\ Has(Net[p], g, "CONFIRM")
    BY <1>2, NetAt
  <2>2. p = r => ~(Net[p][1].gri = g /\ Net[p][1].type = "CONFIRM")
    BY <1>2 DEF Follows
  <2> HIDE DEF p
  <2>3. Has(D[p], g, "CONFIRM")
    BY <2>1, <2>2, HasMoved
  <2> QED BY <2>3 DEF p
<1>3. ASSUME NEW i \in Dom, q'[i][g].st \in Granted
      PROVE  IF i = 1 THEN app'[g].st \in Engaged => Has(D[<<"up", 1>>], g, "CONFIRM")
             ELSE q'[i - 1][g].st = "RESV_CONFIRM" /\ app[g].ero >= i
                    => Has(D[<<"up", i>>], g, "CONFIRM")
  <2>1. q[i][g].st \in Granted /\ app[g].st \in Engaged
    BY <1>3 DEF Follows
  <2>2. CASE i = 1
    <3>1. Has(Net[<<"up", 1>>], g, "CONFIRM")
      BY <2>1, <2>2 DEF Ordered
    <3> QED BY <1>2, <1>3, <2>2, <3>1
  <2>3. ASSUME i # 1, q'[i - 1][g].st = "RESV_CONFIRM", app[g].ero >= i
        PROVE  Has(D[<<"up", i>>], g, "CONFIRM")
    <3>1. CASE q[i - 1][g].st = "RESV_CONFIRM"
      <4>1. Has(Net[<<"up", i>>], g, "CONFIRM")
        BY <2>1, <2>3, <3>1 DEF Ordered
      <4> QED BY <1>2, <1>3, <4>1
    <3>2. CASE q[i - 1][g].st # "RESV_CONFIRM"
      <4> DEFINE p == <<"up", i>>
      <4>1. p \in Places /\ p \in W /\ y[p].gri = g /\ y[p].type = "CONFIRM"
        BY <2>3, <3>2, NetAt DEF Follows
      <4> HIDE DEF p
      <4>2. Has(D[p], g, "CONFIRM")
        BY <4>1, HasMoved
      <4> QED BY <4>2 DEF p
    <3> QED BY <3>1, <3>2
  <2> QED BY <2>2, <2>3
<1> HIDE DEF D
<1>4. Net' = D /\ app'[g].ero = app[g].ero /\ app[g].ero >= 1
  BY DEF D, Follows, Ordered
<1> QED BY <1>1, <1>3, <1>4 DEF Ordered

(* What is known of a step in which NARB i reads at r a message of g, and  *)
(* the handler leaves the effect f.                                        *)
Event(i, g, r, f) ==
  /\ i \in Dom /\ g \in Gri /\ f \in Effects(g) /\ r \in Inlets(i) /\ r \in Places
  /\ Movable(Net, r, OutBox(i, f), Posts(i, f))
  /\ Net' = Moved(Net, r, OutBox(i, f), Posts(i, f))
  /\ Net[r][1].gri = g
  /\ \A p \in OutBox(i, f) : Posts(i, f)[p].gri = g
  /\ \A j \in Dom, h \in Gri : q'[j][h] = IF j = i /\ h = g THEN f.l ELSE q[j][h]
  /\ \A j \in Dom : bw'[j] = IF j = i THEN f.bw ELSE bw[j]
  /\ app' = app

Orderly(g) == Phased(Net, g) /\ Ordered(Net, g)

(* What is in order stays so as long as nothing is posted for h, no         *)
(* message of h reaches a NARB from its client, and h stays where it is.   *)
LEMMA Elsewhere ==
  ASSUME NEW r, NEW W, NEW y, Movable(Net, r, W, y), Net' = Moved(Net, r, W, y),
         NEW h \in Gri, Orderly(h), \A p \in W : y[p].gri # h,
         \A j \in Dom : r = <<"up", j>> => Net[r][1].gri # h,
         \A j \in Dom : q'[j][h] = q[j][h], app'[h] = app[h]
  PROVE  Orderly(h)'
<1>1. Phased(Net, h)'
  <2>1. Posted1(h, r, W, y) /\ AppMoves(h, r)
    BY DEF Posted1, AppMoves, IsToken
  <2>2. \A j \in Dom : q'[j][h].st \in Closed => q[j][h].st \in Closed \/ app'[h].st \in Engaged
    OBVIOUS
  <2> QED BY <2>1, <2>2, PhasedMoves DEF Orderly
<1>2. CASE app[h].st \in Engaged
  <2>1. \A j \in Dom : j # 1 => q'[j - 1][h] = q[j - 1][h]
    <3>1. \A j \in Dom : j # 1 => j - 1 \in Dom
      BY BrokerAssumption DEF Dom, BrokerAssumption
    <3> QED BY <3>1
  <2>2. ASSUME NEW j \in Dom, r = <<"up", j>>, Net[<<"up", j>>][1].gri = h PROVE FALSE
    BY <2>2
  <2>3. Follows(h, r, W, y)
    BY <1>2, <2>1, <2>2 DEF Follows
  <2> QED BY <1>1, <2>3, OrderedMoves DEF Orderly
<1>3. CASE app[h].st \notin Engaged
  BY <1>1, <1>3, CalmOrdered DEF Orderly
<1> QED BY <1>2, <1>3

LEMMA Untouched ==
  ASSUME NEW i, NEW g, NEW r, NEW f, Event(i, g, r, f), NEW h \in Gri, h # g, Orderly(h)
  PROVE  Orderly(h)'
<1> DEFINE W == OutBox(i, f)
           y == Posts(i, f)
<1>1. /\ Movable(Net, r, W, y) /\ Net' = Moved(Net, r, W, y) /\ Net[r][1].gri # h
      /\ \A p \in W : y[p].gri # h
      /\ \A j \in Dom : q'[j][h] = q[j][h]
      /\ app'[h] = app[h]
  BY DEF Event
<1> HIDE DEF W, y
<1> QED BY <1>1, Elsewhere

Confirmed(i) == {g \in Gri : q[i][g].st = "RESV_CONFIRM"}

LEMMA BandwidthMoves ==
  ASSUME Cardinality(Gri) <= MaxBw, Typed, BandwidthAccounted,
         NEW i, NEW g, NEW r, NEW f, Event(i, g, r, f),
         \/ (f.l.st = "RESV_CONFIRM" <=> q[i][g].st = "RESV_CONFIRM") /\ f.bw = bw[i]
         \/ q[i][g].st # "RESV_CONFIRM" /\ f.l.st = "RESV_CONFIRM" /\ f.bw = Taken(bw[i])
         \/ q[i][g].st = "RESV_CONFIRM" /\ f.l.st # "RESV_CONFIRM" /\ f.bw = Freed(bw[i])
  PROVE  BandwidthAccounted'
<1> SUFFICES ASSUME NEW j \in Dom PROVE bw'[j] = MaxBw - Cardinality(Confirmed(j)')
  BY DEF BandwidthAccounted, Confirmed
<1> USE DEF Event
<1>1. bw[j] = MaxBw - Cardinality(Confirmed(j))
  BY DEF BandwidthAccounted, Confirmed
<1>2. CASE j # i
  <2>1. Confirmed(j)' = Confirmed(j)
    BY <1>2 DEF Confirmed
  <2> QED BY <1>1, <1>2, <2>1
<1>3. CASE j = i
  <2>1. IsFiniteSet(Confirmed(i)) /\ Cardinality(Confirmed(i)) \in Nat /\ MaxBw \in Nat
    <3>1. IsFiniteSet(Gri) /\ MaxBw \in Nat /\ Confirmed(i) \subseteq Gri
      BY BrokerAssumption DEF BrokerAssumption, Confirmed
    <3> QED BY <3>1, FS_Subset, FS_CardinalityType
  <2>2. bw[i] = MaxBw - Cardinality(Confirmed(i)) /\ bw'[i] = f.bw
    BY <1>1, <1>3
  <2>3. CASE (f.l.st = "RESV_CONFIRM" <=> q[i][g].st = "RESV_CONFIRM") /\ f.bw = bw[i]
    <3>1. Confirmed(i)' = Confirmed(i)
      BY <2>3 DEF Confirmed
    <3> QED BY <1>3, <2>2, <2>3, <3>1
  <2>4. CASE q[i][g].st # "RESV_CONFIRM" /\ f.l.st = "RESV_CONFIRM" /\ f.bw = Taken(bw[i])
    <3>1. Confirmed(i)' = Confirmed(i) \cup {g} /\ g \notin Confirmed(i)
      BY <2>4 DEF Confirmed
    <3>2. Cardinality(Confirmed(i)') = Cardinality(Confirmed(i)) + 1
      <4> DEFINE C == Confirmed(i)
      <4>1. IsFiniteSet(C) /\ g \notin C /\ Confirmed(i)' = C \cup {g}
        BY <2>1, <3>1
      <4> HIDE DEF C
      <4>2. Cardinality(C \cup {g}) = Cardinality(C) + 1
        BY <4>1, FS_AddElement
      <4> QED BY <4>1, <4>2 DEF C
    <3>3. Cardinality(Confirmed(i)') <= Cardinality(Gri)
      <4>1. Confirmed(i)' \subseteq Gri
        BY DEF Confirmed
      <4> QED BY <4>1, BrokerAssumption, FS_Subset DEF BrokerAssumption
    <3>4. Cardinality(Gri) \in Nat
      BY BrokerAssumption, FS_CardinalityType DEF BrokerAssumption
    <3>5. bw[i] # 0
      BY <2>1, <2>2, <3>2, <3>3, <3>4
    <3>6. f.bw = bw[i] - 1
      BY <2>4, <3>5 DEF Taken
    <3> QED BY <1>3, <2>1, <2>2, <3>2, <3>6
  <2>5. CASE q[i][g].st = "RESV_CONFIRM" /\ f.l.st # "RESV_CONFIRM" /\ f.bw = Freed(bw[i])
    <3>1. Confirmed(i)' = Confirmed(i) \ {g} /\ g \in Confirmed(i)
      BY <2>5 DEF Confirmed
    <3>2. Cardinality(Confirmed(i)') = Cardinality(Confirmed(i)) - 1
      <4>1. Cardinality(Confirmed(i) \ {g}) = Cardinality(Confirmed(i)) - 1
        BY <2>1, <3>1, FS_RemoveElement
      <4> QED BY ONLY <3>1, <4>1
    <3>3. Cardinality(Confirmed(i)) # 0
      BY <2>1, <3>1, FS_EmptySet
    <3>4. f.bw = bw[i] + 1
      BY <2>1, <2>2, <2>5, <3>3 DEF Freed
    <3> QED BY <1>3, <2>1, <2>2, <3>2, <3>4
  <2> QED BY <2>3, <2>4, <2>5
<1> QED BY <1>2, <1>3

LEMMA Outlets ==
  ASSUME NEW i \in Dom, NEW f, NEW p \in OutBox(i, f)
  PROVE  /\ p \in Places
         /\ \/ p = <<"up", i + 1>> /\ p[1] = "up" /\ f.peer # <<>> /\ Posts(i, f)[p] = f.peer[1]
            \/ p = <<"dn", i>> /\ p[1] = "dn" /\ f.client # <<>> /\ Posts(i, f)[p] = f.client[1]
            \/ p = <<"toRce", i>> /\ p[1] = "toRce" /\ f.rce # <<>> /\ Posts(i, f)[p] = f.rce[1]
<1>1. p \in Places /\ Outlet(i, f, p)
  BY DEF OutBox
<1>2. CASE p = <<"up", i + 1>> /\ f.peer # <<>>
  <2>1. p[1] = "up"
    BY <1>2
  <2> QED BY <1>1, <1>2, <2>1 DEF Posts
<1>3. CASE p = <<"dn", i>> /\ f.client # <<>>
  <2>1. p[1] = "dn"
    BY <1>3
  <2> QED BY <1>1, <1>3, <2>1 DEF Posts
<1>4. CASE p = <<"toRce", i>> /\ f.rce # <<>>
  <2>1. p[1] = "toRce"
    BY <1>4
  <2> QED BY <1>1, <1>4, <2>1 DEF Posts
<1> QED BY <1>1, <1>2, <1>3, <1>4 DEF Outlet

LEMMA UpOutlet ==
  ASSUME NEW i \in Dom, NEW f, NEW j \in Dom
  PROVE  <<"up", j>> \in OutBox(i, f) <=> j = i + 1 /\ f.peer # <<>>
<1>1. i \in Nat /\ j \in Nat
  BY DEF Dom
<1> DEFINE p == <<"up", j>>
<1>2. p \in Places /\ p[1] = "up" /\ p[2] = j
  BY NetAt
<1> HIDE DEF p
<1>3. Outlet(i, f, p) <=> j = i + 1 /\ f.peer # <<>>
  BY <1>1 DEF Outlet, p
<1>4. p \in OutBox(i, f) <=> j = i + 1 /\ f.peer # <<>>
  BY <1>2, <1>3 DEF OutBox
<1> QED BY <1>4 DEF p

(* The token that is read is the only one.                                 *)
LEMMA TokenFirst ==
  ASSUME NEW g, NEW r \in Places, Net[r] \in Seq(Msg), Net[r] # <<>>, Orderly(g),
         IsToken(g, r, Net[r][1])
  PROVE  OnlyToken(Net, g, r) /\ app[g].st = "asked"
<1>1. 1 \in 1 .. Len(Net[r])
  BY EmptySeq, LenProperties
<1>2. TokenAt(Net, g, r, 1)
  BY <1>1 DEF TokenAt, IsToken
<1> QED BY <1>1, <1>2 DEF Orderly, Phased, OneToken, OnlyToken

LEMMA TokenAlone ==
  ASSUME NEW i, NEW g, NEW r, NEW f, Event(i, g, r, f), Orderly(g),
         IsToken(g, r, Net[r][1])
  PROVE  OnlyToken(Net, g, r) /\ app[g].st = "asked"
<1>1. r \in Places /\ Net[r] \in Seq(Msg) /\ Net[r] # <<>>
  BY DEF Event, Movable
<1> QED BY <1>1, TokenFirst

Kept == (\A h \in Gri : Orderly(h)) /\ BandwidthAccounted

(* A handler that ignores the message.                                     *)
LEMMA BlankEvent ==
  ASSUME Cardinality(Gri) <= MaxBw, Typed, Kept, NEW i, NEW g, NEW r, NEW f, Event(i, g, r, f),
         Blank(f), f.l = q[i][g], f.bw = bw[i],
         r = <<"up", i>> /\ Net[r][1].type = "CONFIRM" => q[i][g].st \notin Granted
  PROVE  Kept'
<1> DEFINE W == OutBox(i, f)
           y == Posts(i, f)
<1>1. /\ Movable(Net, r, W, y) /\ Net' = Moved(Net, r, W, y) /\ Net[r][1].gri = g
      /\ \A j \in Dom : q'[j][g] = q[j][g]
      /\ app' = app /\ g \in Gri /\ i \in Dom
  BY DEF Event
<1>2. W = {}
  BY DEF OutBox, Outlet, Blank
<1> HIDE DEF W, y
<1>3. Phased(Net, g)'
  <2>1. Posted1(g, r, W, y) /\ AppMoves(g, r)
    BY <1>1, <1>2 DEF Posted1, AppMoves
  <2>2. \A j \in Dom : q'[j][g].st \in Closed => q[j][g].st \in Closed \/ app'[g].st \in Engaged
    BY <1>1
  <2> QED BY <1>1, <2>1, <2>2, PhasedMoves DEF Orderly, Kept
<1>4. Ordered(Net, g)'
  <2>1. CASE app[g].st \in Engaged
    <3>1. \A j \in Dom : j # 1 => q'[j - 1][g] = q[j - 1][g]
      <4>1. \A j \in Dom : j # 1 => j - 1 \in Dom
        BY BrokerAssumption DEF Dom, BrokerAssumption
      <4> QED BY <1>1, <4>1
    <3>2. ASSUME NEW j \in Dom, <<"up", j>> = r PROVE j = i
      <4>1. r \in Inlets(i)
        BY DEF Event
      <4> QED BY <3>2, <4>1 DEF Inlets
    <3>3. Follows(g, r, W, y)
      BY <1>1, <1>2, <2>1, <3>1, <3>2 DEF Follows
    <3> QED BY <1>1, <3>3, OrderedMoves DEF Orderly, Kept
  <2>2. CASE app[g].st \notin Engaged
    BY <1>1, <1>3, <2>2, CalmOrdered
  <2> QED BY <2>1, <2>2
<1>5. \A h \in Gri : Orderly(h)'
  BY <1>3, <1>4, Untouched DEF Kept, Orderly
<1>6. BandwidthAccounted'
  BY BandwidthMoves DEF Kept
<1> QED BY <1>5, <1>6 DEF Kept

(* A handler that goes on with a request.                                  *)
LEMMA TokenEvent ==
  ASSUME Cardinality(Gri) <= MaxBw, Typed, Kept, NEW i, NEW g, NEW r, NEW f, Event(i, g, r, f),
         IsToken(g, r, Net[r][1]), YieldsOne(f), f.bw = bw[i], f.l.st \in Closed => f.l.st = q[i][g].st
  PROVE  Kept'
<1> DEFINE W == OutBox(i, f)
           y == Posts(i, f)
<1>1. /\ Movable(Net, r, W, y) /\ Net' = Moved(Net, r, W, y) /\ Net[r][1].gri = g
      /\ \A j \in Dom : q'[j][g] = IF j = i THEN f.l ELSE q[j][g]
      /\ app' = app /\ g \in Gri /\ i \in Dom
  BY DEF Event
<1>2. OnlyToken(Net, g, r) /\ app[g].st = "asked" /\ app[g].st \notin Engaged
  BY <1>1, TokenAlone DEF Kept, Engaged
<1>3. \A j \in Dom : q[j][g].st \notin Closed
  BY <1>1, <1>2 DEF Kept, Orderly, Phased
<1>4. f.l.st \notin Closed
  BY <1>1, <1>3
<1>5. ASSUME NEW p \in W, IsToken(g, p, y[p])
      PROVE  /\ y[p].type \notin {"CONFIRM", "REMOVE"}
             /\ \/ p = <<"up", i + 1>> /\ f.peer # <<>>
                \/ p = <<"dn", i>> /\ f.client # <<>> /\ f.peer = <<>>
                \/ /\ p = <<"toRce", i>> /\ f.peer = <<>>
                   /\ f.client # <<>> => f.rce[1].type # "QUERY"
                   /\ f.rce[1].type = "QUERY"
  <2>1. \/ p = <<"up", i + 1>> /\ p[1] = "up" /\ f.peer # <<>> /\ y[p] = f.peer[1]
        \/ p = <<"dn", i>> /\ p[1] = "dn" /\ f.client # <<>> /\ y[p] = f.client[1]
        \/ p = <<"toRce", i>> /\ p[1] = "toRce" /\ f.rce # <<>> /\ y[p] = f.rce[1]
    BY <1>1, Outlets
  <2> HIDE DEF W, y
  <2> QED BY <1>5, <2>1 DEF IsToken, Carried, YieldsOne
<1>6. ASSUME NEW p \in W, p[1] = "up" PROVE y[p].type \notin {"CONFIRM", "REMOVE"}
  <2>1. \/ p = <<"up", i + 1>> /\ p[1] = "up" /\ f.peer # <<>> /\ y[p] = f.peer[1]
        \/ p = <<"dn", i>> /\ p[1] = "dn" /\ f.client # <<>> /\ y[p] = f.client[1]
        \/ p = <<"toRce", i>> /\ p[1] = "toRce" /\ f.rce # <<>> /\ y[p] = f.rce[1]
    BY <1>1, Outlets
  <2> HIDE DEF W, y
  <2> QED BY <1>6, <2>1 DEF YieldsOne
<1> HIDE DEF W, y
<1>7. Phased(Net, g)'
  <2>1. ASSUME NEW p1 \in W, NEW p2 \in W, IsToken(g, p1, y[p1]), IsToken(g, p2, y[p2])
        PROVE  p1 = p2
    BY <1>5, <2>1 DEF YieldsOne
  <2>2. Posted1(g, r, W, y) /\ AppMoves(g, r)
    BY <1>1, <1>2, <1>5, <1>6, <2>1 DEF Posted1, AppMoves
  <2>3. \A j \in Dom : q'[j][g].st \in Closed => q[j][g].st \in Closed \/ app'[g].st \in Engaged
    BY <1>1, <1>4
  <2> QED BY <1>1, <2>2, <2>3, PhasedMoves DEF Orderly, Kept
<1>8. Ordered(Net, g)'
  BY <1>1, <1>2, <1>7, CalmOrdered
<1>9. \A h \in Gri : Orderly(h)'
  BY <1>7, <1>8, Untouched DEF Kept, Orderly
<1>10. BandwidthAccounted'
  BY <1>1, <1>3, <1>4, BandwidthMoves DEF Kept, Closed
<1> QED BY <1>9, <1>10 DEF Kept

(* What is read at the head of up[i] is confirmed to go with the ERO of    *)
(* the application.                                                        *)
LEMMA UpHead ==
  ASSUME NEW i, NEW g, NEW f, Event(i, g, <<"up", i>>, f), Orderly(g)
  PROVE  LET m == Net[<<"up", i>>][1]
         IN  /\ m.type \in {"CONFIRM", "REMOVE"}
                  => m.ero = app[g].ero /\ m.ero >= 1 /\ app[g].st \in Engaged
             /\ m.type = "REMOVE" => q[i][g].st \notin Granted
<1> DEFINE r == <<"up", i>>
           m == Net[r][1]
<1>1. r \in Places /\ Net[r] \in Seq(Msg) /\ Net[r] # <<>> /\ m.gri = g /\ i \in Dom
  BY DEF Event, Movable
<1>2. 1 \in 1 .. Len(Net[r]) /\ ~(\E j \in 1 .. 1 - 1 : TRUE)
  BY <1>1, EmptySeq, LenProperties
<1>3. \A k \in 1 .. Len(Net[r]) : Net[r][k].gri = g =>
        /\ Net[r][k].type \in {"CONFIRM", "REMOVE"} => Net[r][k].ero = app[g].ero
        /\ Net[r][k].type = "REMOVE" /\ q[i][g].st \in Granted =>
             \E j \in 1 .. k - 1 : Net[r][j].gri = g /\ Net[r][j].type = "CONFIRM"
  BY <1>1 DEF Orderly, Ordered
<1>4. /\ \A type \in {"CONFIRM", "REMOVE"} : Has(Net[r], g, type) => app[g].st \in Engaged
      /\ app[g].st \in Engaged => app[g].ero >= 1
  BY <1>1 DEF Orderly, Phased, Ordered
<1> HIDE DEF r
<1>5. Has(Net[r], g, m.type)
  BY <1>1, <1>2 DEF Has
<1>6. m.type = "REMOVE" => q[i][g].st \notin Granted
  BY <1>1, <1>2, <1>3
<1>7. m.type \in {"CONFIRM", "REMOVE"} => m.ero = app[g].ero
  BY <1>1, <1>2, <1>3
<1> QED BY <1>4, <1>5, <1>6, <1>7 DEF r

LEMMA ConfirmEvent ==
  ASSUME Cardinality(Gri) <= MaxBw, Typed, Kept, NEW i, NEW g, NEW f,
         Event(i, g, <<"up", i>>, f), Net[<<"up", i>>][1].type = "CONFIRM",
         q[i][g].st \in Granted, f.l.st = "RESV_CONFIRM", f.bw = Taken(bw[i]),
         f.client = <<>>, f.rce # <<>> => f.rce[1].type = "CONFIRM",
         f.peer = IF Net[<<"up", i>>][1].ero > i THEN <<Net[<<"up", i>>][1]>> ELSE <<>>
  PROVE  Kept'
<1> DEFINE r == <<"up", i>>
           m == Net[r][1]
           W == OutBox(i, f)
           y == Posts(i, f)
<1>1. /\ Movable(Net, r, W, y) /\ Net' = Moved(Net, r, W, y) /\ m.gri = g
      /\ \A j \in Dom : q'[j][g] = IF j = i THEN f.l ELSE q[j][g]
      /\ app' = app /\ g \in Gri /\ i \in Dom
  BY DEF Event
<1>2. m.ero = app[g].ero /\ m.type = "CONFIRM"
  BY <1>1, UpHead DEF Kept
<1>3. app[g].st \in Engaged
  BY <1>1, UpHead DEF Kept
<1>4. /\ f.peer # <<>> => app[g].ero > i /\ f.peer[1] = m
      /\ app[g].ero > i => f.peer # <<>>
  BY <1>2
<1>5. \A p \in W : (p[1] = "up" /\ y[p] = m) \/ (p[1] = "toRce" /\ y[p].type = "CONFIRM")
  <2> SUFFICES ASSUME NEW p \in W
               PROVE (p[1] = "up" /\ y[p] = m) \/ (p[1] = "toRce" /\ y[p].type = "CONFIRM")
    OBVIOUS
  <2>1. \/ p[1] = "up" /\ f.peer # <<>> /\ y[p] = f.peer[1]
        \/ p[1] = "dn" /\ f.client # <<>> /\ y[p] = f.client[1]
        \/ p[1] = "toRce" /\ f.rce # <<>> /\ y[p] = f.rce[1]
    BY <1>1, Outlets
  <2> HIDE DEF W, y, m
  <2> QED BY <1>4, <2>1
<1>6. \A j \in Dom : <<"up", j>> \in W <=> j = i + 1 /\ app[g].ero > i
  BY <1>1, <1>4, UpOutlet
<1> HIDE DEF W, y
<1>7. Phased(Net, g)'
  <2>1. \A p \in W : ~IsToken(g, p, y[p])
    BY <1>2, <1>5 DEF IsToken, Carried
  <2>2. Posted1(g, r, W, y)
    BY <1>1, <1>3, <2>1 DEF Posted1
  <2>3. AppMoves(g, r)
    BY <1>1 DEF AppMoves
  <2>4. \A j \in Dom : q'[j][g].st \in Closed => q[j][g].st \in Closed \/ app'[g].st \in Engaged
    BY <1>1, <1>3
  <2> HIDE DEF r
  <2> QED BY <1>1, <2>2, <2>3, <2>4, PhasedMoves DEF Orderly, Kept
<1>8. Ordered(Net, g)'
  <2>1. ASSUME NEW j \in Dom
        PROVE  /\ q'[j][g].st \in Granted => q[j][g].st \in Granted /\ j # i
               /\ <<"up", j>> \in W => y[<<"up", j>>] = m
               /\ j # 1 /\ q'[j - 1][g].st = "RESV_CONFIRM" /\ app[g].ero >= j
                    => q[j - 1][g].st = "RESV_CONFIRM" \/ <<"up", j>> \in W
    <3>1. q'[j][g].st \in Granted => q[j][g].st \in Granted /\ j # i
      BY <1>1 DEF Granted
    <3>2. <<"up", j>> \in W => y[<<"up", j>>] = m
      BY <1>5
    <3>3. ASSUME j # 1, q'[j - 1][g].st = "RESV_CONFIRM", app[g].ero >= j
          PROVE  q[j - 1][g].st = "RESV_CONFIRM" \/ <<"up", j>> \in W
      <4>1. j - 1 \in Dom /\ j \in Nat /\ i \in Nat
        BY <1>1, <3>3, BrokerAssumption DEF Dom, BrokerAssumption
      <4>2. CASE j - 1 = i
        <5>1. app[g].ero \in Nat
          BY <1>1, BrokerAssumption DEF Typed, TypeOK, AppView, BrokerAssumption
        <5> QED BY <1>6, <3>3, <4>1, <4>2, <5>1
      <4> QED BY <1>1, <3>3, <4>1, <4>2
    <3> QED BY <3>1, <3>2, <3>3
  <2>2. \A j \in Dom : <<"up", j>> = r => j = i
    OBVIOUS
  <2> HIDE DEF r, m
  <2>3. Follows(g, r, W, y)
    BY <1>1, <1>2, <1>3, <2>1, <2>2 DEF Follows
  <2> QED BY <1>1, <2>3, OrderedMoves DEF Orderly, Kept
<1>9. \A h \in Gri : Orderly(h)'
  BY <1>7, <1>8, Untouched DEF Kept, Orderly
<1>10. BandwidthAccounted'
  BY BandwidthMoves DEF Kept, Granted
<1> QED BY <1>9, <1>10 DEF Kept

LEMMA ReleaseEvent ==
  ASSUME Cardinality(Gri) <= MaxBw, Typed, Kept, NEW i, NEW g, NEW f,
         Event(i, g, <<"up", i>>, f), Net[<<"up", i>>][1].type = "REMOVE",
         f.l.st \in Released, f.client # <<>> => f.client[1].type = "RELEASED",
         f.rce # <<>> => f.rce[1].type = "DELETE",
         IF q[i][g].st = "RESV_CONFIRM"
         THEN /\ f.bw = Freed(bw[i])
              /\ f.peer = IF Net[<<"up", i>>][1].ero > i THEN <<Net[<<"up", i>>][1]>> ELSE <<>>
         ELSE f.bw = bw[i] /\ f.peer = <<>>
  PROVE  Kept'
<1> DEFINE r == <<"up", i>>
           m == Net[r][1]
           W == OutBox(i, f)
           y == Posts(i, f)
<1>1. /\ Movable(Net, r, W, y) /\ Net' = Moved(Net, r, W, y) /\ m.gri = g
      /\ \A j \in Dom : q'[j][g] = IF j = i THEN f.l ELSE q[j][g]
      /\ app' = app /\ g \in Gri /\ i \in Dom
  BY DEF Event
<1>2. m.ero = app[g].ero /\ m.type = "REMOVE" /\ app[g].st \in Engaged
  BY <1>1, UpHead DEF Kept
<1>3. f.peer # <<>> => app[g].ero > i /\ f.peer[1] = m /\ q[i][g].st = "RESV_CONFIRM"
  BY <1>2
<1>4. \A p \in W : \/ p[1] = "up" /\ y[p] = m
                   \/ p[1] = "dn" /\ y[p].type = "RELEASED"
                   \/ p[1] = "toRce" /\ y[p].type = "DELETE"
  <2> SUFFICES ASSUME NEW p \in W
               PROVE \/ p[1] = "up" /\ y[p] = m
                     \/ p[1] = "dn" /\ y[p].type = "RELEASED"
                     \/ p[1] = "toRce" /\ y[p].type = "DELETE"
    OBVIOUS
  <2>1. \/ p[1] = "up" /\ f.peer # <<>> /\ y[p] = f.peer[1]
        \/ p[1] = "dn" /\ f.client # <<>> /\ y[p] = f.client[1]
        \/ p[1] = "toRce" /\ f.rce # <<>> /\ y[p] = f.rce[1]
    BY <1>1, Outlets
  <2> HIDE DEF W, y, m
  <2> QED BY <1>3, <2>1
<1>5. \A j \in Dom : <<"up", j>> \in W => j = i + 1 /\ app[g].ero > i
                                          /\ q[i][g].st = "RESV_CONFIRM"
  BY <1>1, <1>3, UpOutlet
<1> HIDE DEF W, y
<1>6. Phased(Net, g)'
  <2>1. \A p \in W : ~IsToken(g, p, y[p])
    BY <1>2, <1>4 DEF IsToken, Carried
  <2>2. Posted1(g, r, W, y)
    BY <1>1, <1>2, <2>1 DEF Posted1
  <2>3. AppMoves(g, r)
    BY <1>1 DEF AppMoves
  <2>4. \A j \in Dom : q'[j][g].st \in Closed => q[j][g].st \in Closed \/ app'[g].st \in Engaged
    BY <1>1, <1>2
  <2> HIDE DEF r
  <2> QED BY <1>1, <2>2, <2>3, <2>4, PhasedMoves DEF Orderly, Kept
<1>7. Ordered(Net, g)'
  <2>1. ASSUME NEW j \in Dom
        PROVE  /\ q'[j][g].st \in Granted => q[j][g].st \in Granted
               /\ <<"up", j>> \in W => y[<<"up", j>>] = m
               /\ <<"up", j>> \in W /\ q'[j][g].st \in Granted
                    => Has(Net[<<"up", j>>], g, "CONFIRM")
               /\ j # 1 /\ q'[j - 1][g].st = "RESV_CONFIRM" => q[j - 1][g].st = "RESV_CONFIRM"
    <3>1. q'[j][g].st \in Granted => q[j][g].st \in Granted
      BY <1>1 DEF Granted, Released
    <3>2. <<"up", j>> \in W => y[<<"up", j>>] = m
      BY <1>4
    <3>3. ASSUME j # 1, q'[j - 1][g].st = "RESV_CONFIRM" PROVE q[j - 1][g].st = "RESV_CONFIRM"
      <4>1. j - 1 \in Dom
        BY <3>3, BrokerAssumption DEF Dom, BrokerAssumption
      <4> QED BY <1>1, <3>3, <4>1 DEF Released
    <3>4. ASSUME <<"up", j>> \in W, q'[j][g].st \in Granted
          PROVE  Has(Net[<<"up", j>>], g, "CONFIRM")
      <4>1. j = i + 1 /\ app[g].ero > i /\ q[i][g].st = "RESV_CONFIRM" /\ q[j][g].st \in Granted
        BY <1>5, <3>1, <3>4
      <4>2. i \in Nat /\ j \in Nat /\ app[g].ero \in Nat
        <5>1. app[g].ero \in 0 .. N
          BY <1>1 DEF Typed, TypeOK, AppView
        <5> QED BY <1>1, <5>1, BrokerAssumption DEF Dom, BrokerAssumption
      <4>3. j # 1 /\ j - 1 = i /\ app[g].ero >= j
        BY <1>1, <4>1, <4>2 DEF Dom
      <4> QED BY <1>1, <4>1, <4>3 DEF Kept, Orderly, Ordered
    <3> QED BY <3>1, <3>2, <3>3, <3>4
  <2> HIDE DEF r, m
  <2>2. \A j \in Dom : <<"up", j>> = r => j = i
    BY DEF r
  <2>3. Follows(g, r, W, y)
    BY <1>1, <1>2, <2>1, <2>2 DEF Follows, m
  <2> QED BY <1>1, <2>3, OrderedMoves DEF Orderly, Kept
<1>8. \A h \in Gri : Orderly(h)'
  BY <1>6, <1>7, Untouched DEF Kept, Orderly
<1>9. BandwidthAccounted'
  BY BandwidthMoves DEF Kept, Released
<1> QED BY <1>8, <1>9 DEF Kept

(* The three kinds of messages that a NARB reads.                          *)
LEMMA CommitEvent ==
  ASSUME Typed, NEW i \in Dom, NEW g \in Gri, NEW f \in Effects(g), NEW r \in Inlets(i),
         r \in Places, Net[r] # <<>>, Net[r][1].gri = g, NEW u, NEW d, NEW v,
         u = IF r = <<"up", i>> THEN [up EXCEPT ![i] = Tail(@)] ELSE up,
         d = IF r = <<"dn", i + 1>> THEN [dn EXCEPT ![i + 1] = Tail(@)] ELSE dn,
         v = IF r = <<"fromRce", i>> THEN [fromRce EXCEPT ![i] = Tail(@)] ELSE fromRce,
         Commit(i, g, f, u, d, v)
  PROVE  Event(i, g, r, f)
<1>1. /\ Movable(Net, r, OutBox(i, f), Posts(i, f))
      /\ Net' = Moved(Net, r, OutBox(i, f), Posts(i, f))
      /\ \A p \in OutBox(i, f) : Posts(i, f)[p].gri = g
  BY CommitMoves
<1>2. /\ \A j \in Dom, h \in Gri : q'[j][h] = IF j = i /\ h = g THEN f.l ELSE q[j][h]
      /\ \A j \in Dom : bw'[j] = IF j = i THEN f.bw ELSE bw[j]
      /\ app' = app
  BY DEF Commit, Typed, TypeOK
<1> QED BY <1>1, <1>2 DEF Event

LEMMA UpEvent ==
  ASSUME Typed, NEW i \in Dom, up[i] # <<>>, NEW g \in Gri, Head(up[i]).gri = g,
         NEW f \in Effects(g), Commit(i, g, f, [up EXCEPT ![i] = Tail(@)], dn, fromRce)
  PROVE  Event(i, g, <<"up", i>>, f)
<1> DEFINE r == <<"up", i>>
<1>0. r \in Places /\ Net[r] = up[i]
  BY NetAt
<1>1. r \in Inlets(i) /\ r \in Places /\ Net[r] # <<>> /\ Net[r][1].gri = g
  BY <1>0 DEF Inlets
<1>2. r = <<"up", i>> /\ r # <<"dn", i + 1>> /\ r # <<"fromRce", i>>
  OBVIOUS
<1> HIDE DEF r
<1>3. [up EXCEPT ![i] = Tail(@)] = IF r = <<"up", i>> THEN [up EXCEPT ![i] = Tail(@)] ELSE up
  BY <1>2
<1>4. dn = IF r = <<"dn", i + 1>> THEN [dn EXCEPT ![i + 1] = Tail(@)] ELSE dn
  BY <1>2
<1>5. fromRce = IF r = <<"fromRce", i>> THEN [fromRce EXCEPT ![i] = Tail(@)] ELSE fromRce
  BY <1>2
<1>6. Event(i, g, r, f)
  BY <1>1, <1>3, <1>4, <1>5, CommitEvent
<1> QED BY <1>6 DEF r

LEMMA DnEvent ==
  ASSUME Typed, NEW i \in Dom, i + 1 \in Dom, dn[i + 1] # <<>>, NEW g \in Gri,
         Head(dn[i + 1]).gri = g,
         NEW f \in Effects(g), Commit(i, g, f, up, [dn EXCEPT ![i + 1] = Tail(@)], fromRce)
  PROVE  Event(i, g, <<"dn", i + 1>>, f)
<1> DEFINE r == <<"dn", i + 1>>
<1>0. r \in Places /\ Net[r] = dn[i + 1]
  BY NetAt
<1>1. r \in Inlets(i) /\ r \in Places /\ Net[r] # <<>> /\ Net[r][1].gri = g
  BY <1>0 DEF Inlets
<1>2. r # <<"up", i>> /\ r = <<"dn", i + 1>> /\ r # <<"fromRce", i>>
  OBVIOUS
<1> HIDE DEF r
<1>3. up = IF r = <<"up", i>> THEN [up EXCEPT ![i] = Tail(@)] ELSE up
  BY <1>2
<1>4. [dn EXCEPT ![i + 1] = Tail(@)] = IF r = <<"dn", i + 1>> THEN [dn EXCEPT ![i + 1] = Tail(@)] ELSE dn
  BY <1>2
<1>5. fromRce = IF r = <<"fromRce", i>> THEN [fromRce EXCEPT ![i] = Tail(@)] ELSE fromRce
  BY <1>2
<1>6. Event(i, g, r, f)
  BY <1>1, <1>3, <1>4, <1>5, CommitEvent
<1> QED BY <1>6 DEF r

LEMMA RceEvent ==
  ASSUME Typed, NEW i \in Dom, fromRce[i] # <<>>, NEW g \in Gri, Head(fromRce[i]).gri = g,
         NEW f \in Effects(g), Commit(i, g, f, up, dn, [fromRce EXCEPT ![i] = Tail(@)])
  PROVE  Event(i, g, <<"fromRce", i>>, f)
<1> DEFINE r == <<"fromRce", i>>
<1>0. r \in Places /\ Net[r] = fromRce[i]
  BY NetAt
<1>1. r \in Inlets(i) /\ r \in Places /\ Net[r] # <<>> /\ Net[r][1].gri = g
  BY <1>0 DEF Inlets
<1>2. r # <<"up", i>> /\ r # <<"dn", i + 1>> /\ r = <<"fromRce", i>>
  OBVIOUS
<1> HIDE DEF r
<1>3. up = IF r = <<"up", i>> THEN [up EXCEPT ![i] = Tail(@)] ELSE up
  BY <1>2
<1>4. dn = IF r = <<"dn", i + 1>> THEN [dn EXCEPT ![i + 1] = Tail(@)] ELSE dn
  BY <1>2
<1>5. [fromRce EXCEPT ![i] = Tail(@)] = IF r = <<"fromRce", i>> THEN [fromRce EXCEPT ![i] = Tail(@)] ELSE fromRce
  BY <1>2
<1>6. Event(i, g, r, f)
  BY <1>1, <1>3, <1>4, <1>5, CommitEvent
<1> QED BY <1>6 DEF r

LEMMA ReadMessageKept ==
  ASSUME Cardinality(Gri) <= MaxBw, "narb" \notin Faults, Typed, Kept,
         NEW i \in Dom, ReadMessage(i)
  PROVE  Kept'
<1> DEFINE m == Head(up[i])
           g == m.gri
           f == Stay(i, q[i][g])
           u == [up EXCEPT ![i] = Tail(@)]
           h(pok) == Handled(i, m, f, pok)
           r == <<"up", i>>
<1>1. up[i] # <<>> /\ u \in [Dom -> Seq(UpMsg)] /\ m \in UpMsg
  BY ReaderType DEF ReadMessage, Typed
<1>2. PICK pok \in BOOLEAN : pok = TRUE /\ Commit(i, g, h(pok), u, dn, fromRce)
  BY DEF ReadMessage, PeerOk
<1>3. Net[r][1] = m /\ r[1] = "up"
  <2>1. Net[r] = up[i]
    BY NetAt
  <2> QED BY <2>1
<1> HIDE DEF m, h
<1>4. /\ g \in Gri /\ f \in Effects(g) /\ Blank(f) /\ f.bw = bw[i] /\ f.l = q[i][g]
      /\ h(pok) \in Effects(g)
      /\ m.type \in {"REQUEST", "PEER_REQUEST"} => Proceeds(g, f, h(pok))
      /\ m.type \in {"CONFIRM", "REMOVE"} /\ f.l.st = "none" => h(pok) = f
      /\ m.type = "CONFIRM" /\ f.l.st # "none" => h(pok) = HandleResvConfirm(i, g, f, m, pok)
      /\ m.type = "REMOVE" /\ f.l.st # "none" => h(pok) = HandleResvRelease(i, g, f, m, pok)
      /\ f.l.st # "none" => f.l \in Lspq
  BY <1>1, HandledEffect DEF h
<1>5. Event(i, g, r, h(pok))
  BY <1>1, <1>2, <1>4, UpEvent DEF m
<1> HIDE DEF f
<1>6. CASE m.type \in {"REQUEST", "PEER_REQUEST"}
  <2>1. IsToken(g, r, Net[r][1])
    BY <1>3, <1>6 DEF IsToken, Carried
  <2>2. YieldsOne(h(pok)) /\ h(pok).bw = bw[i] /\ (h(pok).l.st \in Closed => h(pok).l.st = q[i][g].st)
    BY <1>4, <1>6 DEF Proceeds
  <2> HIDE DEF r
  <2> QED BY <1>5, <2>1, <2>2, TokenEvent
<1>7. CASE m.type \in {"CONFIRM", "REMOVE"} /\ h(pok) = f /\ f.l.st \notin Granted
  <2> HIDE DEF r
  <2> QED BY <1>4, <1>5, <1>7, BlankEvent
<1>8. CASE m.type = "CONFIRM" /\ f.l.st # "none"
  <2>1. h(pok) = HandleResvConfirm(i, g, f, m, pok) /\ f.l \in Lspq /\ m \in Of(UpMsg, g)
        /\ pok \in BOOLEAN /\ i \in Dom /\ pok = TRUE
    BY <1>1, <1>2, <1>4, <1>8 DEF Of
  <2>2. /\ h(pok) \in Effects(g)
        /\ f.l.st \notin Granted => h(pok) = f
        /\ f.l.st \in Granted =>
             /\ h(pok).l \in Lspq /\ SameAims(f.l, h(pok).l) /\ h(pok).l.st = "RESV_CONFIRM"
             /\ h(pok).bw = Taken(f.bw)
             /\ h(pok).rce # <<>> => h(pok).rce = <<[type |-> "CONFIRM", gri |-> g, mask |-> {},
                                                   tag |-> m.tag, lspb |-> 0]>>
             /\ Connected(i, f) => h(pok).rce # <<>> /\ h(pok).rcli # "stale"
             /\ pok = TRUE => /\ h(pok).client = <<>>
                              /\ h(pok).peer = IF m.ero > i THEN <<m>> ELSE <<>>
    <3>1. Confirms(i, g, f, m, pok, HandleResvConfirm(i, g, f, m, pok))
      BY <1>4, <2>1, ConfirmEffect
    <3> QED BY ONLY <2>1, <3>1 DEF Confirms
  <2> DEFINE n == [type |-> "CONFIRM", gri |-> g, mask |-> {}, tag |-> m.tag, lspb |-> 0]
  <2>3. <<n>>[1].type = "CONFIRM"
    OBVIOUS
  <2>4. f.l.st \in Granted => (h(pok).rce # <<>> => h(pok).rce[1].type = "CONFIRM")
    BY <2>2, <2>3
  <2> HIDE DEF n
  <2>5. CASE f.l.st \in Granted
    BY <1>2, <1>3, <1>4, <1>5, <1>8, <2>2, <2>4, <2>5, ConfirmEvent
  <2> QED BY <1>7, <1>8, <2>2, <2>5
<1>9. CASE m.type = "REMOVE" /\ f.l.st # "none"
  <2>1. h(pok) = HandleResvRelease(i, g, f, m, pok) /\ f.l \in Lspq /\ m \in Of(UpMsg, g)
        /\ pok \in BOOLEAN /\ i \in Dom /\ pok = TRUE
    BY <1>1, <1>2, <1>4, <1>9 DEF Of
  <2>2. q[i][g].st \notin Granted /\ m.ero # 0
    BY <1>3, <1>4, <1>5, <1>9, UpHead DEF Kept
  <2>3. /\ h(pok) \in Effects(g) /\ h(pok).l \in Lspq /\ SameAims(f.l, h(pok).l)
        /\ pok = TRUE => /\ h(pok).l.st \in Released
                         /\ h(pok).client # <<>> => h(pok).client[1].type = "RELEASED"
        /\ ~Releasable(f.l) => h(pok).bw = f.bw /\ h(pok).rce = <<>> /\ h(pok).peer = <<>>
        /\ Releasable(f.l) /\ m.ero # 0 =>
             /\ h(pok).bw = Freed(f.bw)
             /\ h(pok).rce # <<>> => h(pok).rce = <<[type |-> "DELETE", gri |-> g, mask |-> {},
                                                   tag |-> m.tag, lspb |-> 0]>>
             /\ Connected(i, f) => h(pok).rce # <<>>
             /\ pok = TRUE => h(pok).peer = IF m.ero > i THEN <<m>> ELSE <<>>
        /\ h(pok).l.st \notin {"RESV_CONFIRM"} \cup Granted
        /\ Connected(i, f) => h(pok).rcli # "stale"
    <3>1. Releases(i, g, f, m, pok, HandleResvRelease(i, g, f, m, pok))
      BY <1>4, <2>1, ReleaseEffect
    <3> QED BY ONLY <2>1, <3>1 DEF Releases
  <2> DEFINE n == [type |-> "DELETE", gri |-> g, mask |-> {}, tag |-> m.tag, lspb |-> 0]
  <2>4. <<n>>[1].type = "DELETE"
    OBVIOUS
  <2>5. h(pok).rce # <<>> => h(pok).rce[1].type = "DELETE"
    BY <2>2, <2>3, <2>4
  <2> HIDE DEF n
  <2>6. Releasable(f.l) <=> q[i][g].st = "RESV_CONFIRM"
    BY <1>4, <2>2 DEF Releasable
  <2>7. /\ h(pok).l.st \in Released
        /\ h(pok).client # <<>> => h(pok).client[1].type = "RELEASED"
        /\ IF q[i][g].st = "RESV_CONFIRM"
           THEN h(pok).bw = Freed(bw[i]) /\ h(pok).peer = IF m.ero > i THEN <<m>> ELSE <<>>
           ELSE h(pok).bw = bw[i] /\ h(pok).peer = <<>>
    <3>1. pok = TRUE /\ f.bw = bw[i]
      BY <1>2, <1>4
    <3>2. h(pok).l.st \in Released /\ (h(pok).client # <<>> => h(pok).client[1].type = "RELEASED")
      BY ONLY <2>3, <3>1
    <3>3. CASE q[i][g].st = "RESV_CONFIRM"
      BY ONLY <2>2, <2>3, <2>6, <3>1, <3>2, <3>3
    <3>4. CASE q[i][g].st # "RESV_CONFIRM"
      BY ONLY <2>3, <2>6, <3>1, <3>2, <3>4
    <3> QED BY <3>3, <3>4
  <2>8. Net[<<"up", i>>][1] = m
    BY <1>3
  <2>9. /\ Net[<<"up", i>>][1].type = "REMOVE"
        /\ IF q[i][g].st = "RESV_CONFIRM"
           THEN /\ h(pok).bw = Freed(bw[i])
                /\ h(pok).peer = IF Net[<<"up", i>>][1].ero > i THEN <<Net[<<"up", i>>][1]>> ELSE <<>>
           ELSE h(pok).bw = bw[i] /\ h(pok).peer = <<>>
    BY ONLY <1>9, <2>7, <2>8
  <2>10. Event(i, g, <<"up", i>>, h(pok))
    BY <1>5
  <2> QED BY <2>5, <2>7, <2>9, <2>10, ReleaseEvent
<1>10. f.l.st = "none" => f.l.st \notin Granted
  BY DEF Granted
<1> QED BY <1>1, <1>4, <1>6, <1>7, <1>8, <1>9, <1>10 DEF UpMsg

LEMMA ReadRCEReplyKept ==
  ASSUME Cardinality(Gri) <= MaxBw, Typed, Kept, NEW i \in Dom, ReadRCEReply(i)
  PROVE  Kept'
<1> DEFINE m == Head(fromRce[i])
           g == m.gri
           f == Stay(i, q[i][g])
           h(pok) == IF q[i][g].st = "none" \/ m.lspb # lspb[i] THEN f
                     ELSE HandleRCEReply(i, g, f, m, pok)
           r == <<"fromRce", i>>
<1>1. fromRce[i] # <<>> /\ m \in RceReply
  BY ReaderType DEF ReadRCEReply, Typed
<1>2. PICK pok \in PeerOk(i) :
        Commit(i, g, h(pok), up, dn, [fromRce EXCEPT ![i] = Tail(@)])
  BY DEF ReadRCEReply
<1>3. Net[r][1] = m /\ r[1] = "fromRce"
  <2>1. Net[r] = fromRce[i]
    BY NetAt
  <2> QED BY <2>1
<1>4. pok \in BOOLEAN
  BY PeerOkBoolean
<1>5. Head(fromRce[i]).gri = g
  OBVIOUS
<1> HIDE DEF m, h
<1>6. g \in Gri /\ m.type \in {"ERO", "ERROR"}
  BY <1>1 DEF RceReply
<1>7. f \in Effects(g) /\ Blank(f) /\ f.bw = bw[i] /\ f.l = q[i][g]
  BY <1>6, StayEffect
<1> HIDE DEF f
<1>8. CASE q[i][g].st = "none" \/ m.lspb # lspb[i]
  <2>1. h(pok) = f
    BY <1>8 DEF h
  <2>2. Event(i, g, r, f)
    BY <1>1, <1>2, <1>5, <1>6, <1>7, <2>1, RceEvent
  <2>3. r # <<"up", i>>
    OBVIOUS
  <2> HIDE DEF r
  <2> QED BY <1>7, <2>2, <2>3, BlankEvent
<1>9. CASE ~(q[i][g].st = "none" \/ m.lspb # lspb[i])
  <2>1. Proceeds(g, f, h(pok))
    BY <1>1, <1>4, <1>9, RceReplyEffect DEF h, f
  <2>2. Event(i, g, r, h(pok))
    BY <1>1, <1>2, <1>5, <1>6, <2>1, RceEvent DEF Proceeds
  <2>3. IsToken(g, r, Net[r][1])
    BY <1>3, <1>6 DEF IsToken, Carried
  <2>4. YieldsOne(h(pok)) /\ h(pok).bw = bw[i] /\ (h(pok).l.st \in Closed => h(pok).l.st = q[i][g].st)
    BY <1>7, <2>1 DEF Proceeds
  <2> HIDE DEF r
  <2> QED BY <2>2, <2>3, <2>4, TokenEvent
<1> QED BY <1>8, <1>9

LEMMA ReadPeerReplyKept ==
  ASSUME Cardinality(Gri) <= MaxBw, Typed, Kept, NEW i \in Dom, ReadPeerReply(i)
  PROVE  Kept'
<1> DEFINE m == Head(dn[i + 1])
           g == m.gri
           f == Stay(i, q[i][g])
           skip == q[i][g].st = "none" \/ m.lspb # lspb[i] \/ m.type = "RELEASED"
           h(merged) == IF skip THEN f ELSE HandleNextHopNARBReply(i, g, f, m, merged)
           r == <<"dn", i + 1>>
<1>0. i + 1 \in Dom
  BY BrokerAssumption DEF ReadPeerReply, Dom, BrokerAssumption
<1>1. dn[i + 1] # <<>> /\ m \in DnMsg
  BY <1>0, ReaderType DEF ReadPeerReply, Typed
<1>2. PICK merged \in BOOLEAN :
        Commit(i, g, h(merged), up, [dn EXCEPT ![i + 1] = Tail(@)], fromRce)
  BY DEF ReadPeerReply
<1>3. Net[r][1] = m /\ r[1] = "dn"
  <2>1. Net[r] = dn[i + 1]
    BY <1>0, NetAt
  <2> QED BY <2>1
<1>5. Head(dn[i + 1]).gri = g
  OBVIOUS
<1> HIDE DEF m, h
<1>6. g \in Gri /\ m.type \in {"ERO", "ID", "ERROR", "RELEASED"}
  BY <1>1 DEF DnMsg
<1>7. f \in Effects(g) /\ Blank(f) /\ f.bw = bw[i] /\ f.l = q[i][g]
  BY <1>6, StayEffect
<1> HIDE DEF f
<1>8. CASE skip
  <2>1. h(merged) = f
    BY <1>8 DEF h
  <2>2. Event(i, g, r, f)
    BY <1>0, <1>1, <1>2, <1>5, <1>6, <1>7, <2>1, DnEvent
  <2>3. r # <<"up", i>>
    OBVIOUS
  <2> HIDE DEF r
  <2> QED BY <1>7, <2>2, <2>3, BlankEvent
<1>9. CASE ~skip
  <2>1. Proceeds(g, f, h(merged))
    BY <1>1, <1>9, PeerReplyEffect DEF h, f
  <2>2. Event(i, g, r, h(merged))
    BY <1>0, <1>1, <1>2, <1>5, <1>6, <2>1, DnEvent DEF Proceeds
  <2>3. IsToken(g, r, Net[r][1])
    BY <1>3, <1>6, <1>9 DEF IsToken, Carried
  <2>4. /\ YieldsOne(h(merged)) /\ h(merged).bw = bw[i]
        /\ h(merged).l.st \in Closed => h(merged).l.st = q[i][g].st
    BY <1>7, <2>1 DEF Proceeds
  <2> HIDE DEF r
  <2> QED BY <2>2, <2>3, <2>4, TokenEvent
<1> QED BY <1>8, <1>9

-----------------------------------------------------------------------------
(* The steps of the RCEs and of the application.                           *)

LEMMA NetMoves ==
  ASSUME NEW r, NEW W, NEW y,
         \A j \in Dom :
           /\ up'[j] = IF <<"up", j>> = r THEN Tail(up[j])
                       ELSE IF <<"up", j>> \in W THEN Append(up[j], y[<<"up", j>>]) ELSE up[j]
           /\ dn'[j] = IF <<"dn", j>> = r THEN Tail(dn[j])
                       ELSE IF <<"dn", j>> \in W THEN Append(dn[j], y[<<"dn", j>>]) ELSE dn[j]
           /\ toRce'[j] = IF <<"toRce", j>> = r THEN Tail(toRce[j])
                          ELSE IF <<"toRce", j>> \in W THEN Append(toRce[j], y[<<"toRce", j>>])
                          ELSE toRce[j]
           /\ fromRce'[j] = IF <<"fromRce", j>> = r THEN Tail(fromRce[j])
                            ELSE IF <<"fromRce", j>> \in W
                            THEN Append(fromRce[j], y[<<"fromRce", j>>]) ELSE fromRce[j]
  PROVE  Net' = Moved(Net, r, W, y)
<1> DEFINE D == Moved(Net, r, W, y)
<1>1. ASSUME NEW j \in Dom
      PROVE  /\ Net'[<<"up", j>>] = up'[j] /\ Net'[<<"dn", j>>] = dn'[j]
             /\ Net'[<<"toRce", j>>] = toRce'[j] /\ Net'[<<"fromRce", j>>] = fromRce'[j]
  <2>1. \A k \in {"up", "dn", "toRce", "fromRce"} : <<k, j>> \in Places
    BY DEF Places
  <2> QED BY <2>1 DEF Net
<1>2. \A j \in Dom : Net'[<<"up", j>>] = D[<<"up", j>>]
  BY <1>1, NetAt DEF Moved
<1>3. \A j \in Dom : Net'[<<"dn", j>>] = D[<<"dn", j>>]
  BY <1>1, NetAt DEF Moved
<1>4. \A j \in Dom : Net'[<<"toRce", j>>] = D[<<"toRce", j>>]
  BY <1>1, NetAt DEF Moved
<1>5. \A j \in Dom : Net'[<<"fromRce", j>>] = D[<<"fromRce", j>>]
  BY <1>1, NetAt DEF Moved
<1>6. \A p \in Places : Net'[p] = D[p]
  BY <1>2, <1>3, <1>4, <1>5, PlaceIs
<1> HIDE DEF D
<1>7. Net' = [p \in Places |-> Net'[p]]
  BY DEF Net
<1>8. D = [p \in Places |-> D[p]]
  BY DEF D, Moved
<1>9. Net' = D
  BY <1>6, <1>7, <1>8
<1> QED BY <1>9 DEF D

(* Bandwidth only changes hands where an LSPQ is handled.                  *)
LEMMA BandwidthStays ==
  ASSUME UNCHANGED <<q, bw>>, BandwidthAccounted PROVE BandwidthAccounted'
BY DEF BandwidthAccounted

(* A query that an RCE answers is the only one of its GRI.                 *)
LEMMA RceAnswers ==
  ASSUME Typed, NEW i \in Dom, NEW g \in Gri, NEW a \in RceReply, a.gri = g, toRce[i] # <<>>,
         toRce[i][1].gri = g, toRce[i][1].type = "QUERY", \A h \in Gri : Orderly(h),
         toRce' = [toRce EXCEPT ![i] = Tail(@)], fromRce' = [fromRce EXCEPT ![i] = Append(@, a)],
         UNCHANGED <<up, dn, q, app>>
  PROVE  \A h \in Gri : Orderly(h)'
<1> DEFINE r == <<"toRce", i>>
           w == <<"fromRce", i>>
           y == [p \in Places |-> a]
<1>1. /\ r \in Places /\ w \in Places /\ Net[r] = toRce[i] /\ y[w] = a
      /\ r[1] = "toRce" /\ w[1] = "fromRce" /\ r # w
  BY NetAt
<1>2. a.type \in {"ERO", "ERROR"} /\ a \in Msg
  BY DEF RceReply, Msg
<1>3. Net[r] \in Seq(Msg)
  BY <1>1, NetType
<1>4. Net' = Moved(Net, r, {w}, y)
  <2>1. ASSUME NEW j \in Dom
        PROVE  /\ up'[j] = up[j] /\ dn'[j] = dn[j]
               /\ toRce'[j] = IF j = i THEN Tail(toRce[j]) ELSE toRce[j]
               /\ fromRce'[j] = IF j = i THEN Append(fromRce[j], a) ELSE fromRce[j]
    BY DEF Typed
  <2>2. ASSUME NEW j \in Dom
        PROVE  /\ <<"up", j>> # r /\ <<"up", j>> \notin {w} /\ <<"dn", j>> # r /\ <<"dn", j>> \notin {w}
               /\ <<"toRce", j>> = r <=> j = i
               /\ <<"toRce", j>> \notin {w} /\ <<"fromRce", j>> # r
               /\ <<"fromRce", j>> \in {w} <=> j = i
    OBVIOUS
  <2>3. \A j \in Dom : j = i => y[<<"fromRce", j>>] = a
    BY <1>1
  <2> HIDE DEF r, w, y
  <2> QED BY <2>1, <2>2, <2>3, NetMoves
<1>5. \A j \in Dom : r # <<"up", j>>
  OBVIOUS
<1> HIDE DEF r, w, y
<1>6. Movable(Net, r, {w}, y)
  BY <1>1, <1>2, NetType DEF Movable
<1>7. ASSUME NEW h \in Gri, h # g PROVE Orderly(h)'
  <2>1. \A p \in {w} : y[p].gri # h
    BY <1>1, <1>7
  <2>2. q' = q /\ app' = app
    OBVIOUS
  <2>3. /\ \A j \in Dom : q'[j][h] = q[j][h]
        /\ app'[h] = app[h]
    BY ONLY <2>2
  <2>4. Orderly(h) /\ \A j \in Dom : r = <<"up", j>> => Net[r][1].gri # h
    BY <1>5
  <2> QED BY ONLY <1>4, <1>6, <2>1, <2>3, <2>4, Elsewhere
<1>8. OnlyToken(Net, g, r) /\ app[g].st = "asked"
  <2>1. IsToken(g, r, Net[r][1])
    BY <1>1 DEF IsToken, Carried
  <2> QED BY <1>1, <1>3, <2>1, TokenFirst
<1>9. Phased(Net, g)'
  <2>1. Posted1(g, r, {w}, y) /\ AppMoves(g, r)
    BY <1>1, <1>2, <1>8 DEF Posted1, AppMoves
  <2>2. \A j \in Dom : q'[j][g].st \in Closed => q[j][g].st \in Closed \/ app'[g].st \in Engaged
    OBVIOUS
  <2> QED BY <1>4, <1>6, <2>1, <2>2, PhasedMoves DEF Orderly
<1>10. Ordered(Net, g)'
  BY <1>8, <1>9, CalmOrdered DEF Engaged
<1> QED BY <1>7, <1>9, <1>10 DEF Orderly

LEMMA RceServeKept ==
  ASSUME Typed, Kept, NEW i \in Dom, RceServe(i)
  PROVE  Kept'
<1> DEFINE m == Head(toRce[i])
           g == m.gri
<1>1. toRce[i] # <<>> /\ m \in RceMsg /\ m = toRce[i][1]
  BY ReaderType DEF RceServe, Typed
<1>2. toRce' = [toRce EXCEPT ![i] = Tail(@)] /\ UNCHANGED <<up, dn, q, bw, app>>
  BY DEF RceServe, narbs, apps
<1>3. g \in Gri /\ m.lspb \in Nat
  BY <1>1 DEF RceMsg
<1>4. \A h \in Gri : Orderly(h)
  BY DEF Kept
<1>5. BandwidthAccounted'
  BY <1>2, BandwidthStays DEF Kept
<1>6. ASSUME NEW a \in RceReply, a.gri = g, m.type = "QUERY",
             fromRce' = [fromRce EXCEPT ![i] = Append(@, a)]
      PROVE  \A h \in Gri : Orderly(h)'
  <2>1. toRce[i][1].gri = g /\ toRce[i][1].type = "QUERY"
    BY <1>1, <1>6
  <2> HIDE DEF m
  <2> QED BY <1>1, <1>2, <1>3, <1>4, <1>6, <2>1, RceAnswers
<1>7. CASE m.type = "QUERY"
  <2>1. RceQuery(i, m)
    BY <1>7 DEF RceServe
  <2> HIDE DEF m
  <2>2. ASSUME NEW a \in RceReply, a.gri = g, fromRce' = [fromRce EXCEPT ![i] = Append(@, a)]
        PROVE  \A h \in Gri : Orderly(h)'
    BY <1>6, <1>7, <2>2
  <2>3. CASE fromRce' = [fromRce EXCEPT ![i] = Append(@,
                   [type |-> "ERROR", gri |-> m.gri, tag |-> AnyTag, mask |-> {},
                    via |-> "app", lspb |-> m.lspb])]
    <3> DEFINE a == [type |-> "ERROR", gri |-> m.gri, tag |-> AnyTag, mask |-> {},
                     via |-> "app", lspb |-> m.lspb]
    <3>1. a \in RceReply /\ a.gri = g
      BY <1>3 DEF RceReply
    <3>2. fromRce' = [fromRce EXCEPT ![i] = Append(@, a)]
      BY <2>3
    <3> HIDE DEF a
    <3>3. \A h \in Gri : Orderly(h)'
      BY <2>2, <3>1, <3>2
    <3> QED BY <1>5, <3>3 DEF Kept
  <2>4. ASSUME NEW mask \in SUBSET Tags, mask # {}, NEW via \in Borders,
               fromRce' = [fromRce EXCEPT ![i] = Append(@,
                 [type |-> "ERO", gri |-> m.gri, tag |-> Min(mask), mask |-> mask,
                  via |-> via, lspb |-> m.lspb])]
        PROVE  Kept'
    <3> DEFINE a == [type |-> "ERO", gri |-> m.gri, tag |-> Min(mask), mask |-> mask,
                     via |-> via, lspb |-> m.lspb]
    <3>1. Min(mask) \in Tags
      BY <2>4, MaskLeast
    <3>2. a \in RceReply /\ a.gri = g
      BY <1>3, <3>1 DEF RceReply
    <3>3. fromRce' = [fromRce EXCEPT ![i] = Append(@, a)]
      BY <2>4
    <3> HIDE DEF a
    <3>4. \A h \in Gri : Orderly(h)'
      BY <2>2, <3>2, <3>3
    <3> QED BY <1>5, <3>4 DEF Kept
  <2>5. CASE \E free \in SUBSET Tags, via \in Borders :
               LET mask == IF m.mask = {} THEN free ELSE free \cap m.mask
               IN  /\ mask # {}
                   /\ fromRce' = [fromRce EXCEPT ![i] = Append(@,
                       [type |-> "ERO", gri |-> m.gri, tag |-> Min(mask), mask |-> mask,
                        via |-> via, lspb |-> m.lspb])]
    BY <2>4, <2>5
  <2> QED BY <2>1, <2>3, <2>5 DEF RceQuery
<1>8. CASE m.type # "QUERY"
  <2> DEFINE r == <<"toRce", i>>
             y == <<>>
  <2>1. r \in Places /\ Net[r] = toRce[i] /\ \A j \in Dom : r # <<"up", j>>
    BY NetAt
  <2>2. fromRce' = fromRce
    BY <1>8 DEF RceServe
  <2>3. Net' = Moved(Net, r, {}, y)
    <3>1. ASSUME NEW j \in Dom
          PROVE  /\ up'[j] = up[j] /\ dn'[j] = dn[j] /\ fromRce'[j] = fromRce[j]
                 /\ toRce'[j] = IF j = i THEN Tail(toRce[j]) ELSE toRce[j]
      BY <1>2, <2>2 DEF Typed
    <3>2. ASSUME NEW j \in Dom
          PROVE  /\ <<"up", j>> # r /\ <<"dn", j>> # r /\ <<"fromRce", j>> # r
                 /\ <<"toRce", j>> = r <=> j = i
      OBVIOUS
    <3> HIDE DEF r, y
    <3> QED BY <3>1, <3>2, NetMoves
  <2> HIDE DEF r, y
  <2>4. Movable(Net, r, {}, y)
    BY <1>1, <2>1, NetType DEF Movable
  <2>5. \A h \in Gri : Orderly(h)'
    BY <1>2, <1>4, <2>1, <2>3, <2>4, Elsewhere
  <2> QED BY <1>5, <2>5 DEF Kept
<1> QED BY <1>7, <1>8

(* A message from the application.                                         *)
FromApp(g, type) == [type |-> type, gri |-> g, via |-> "app", mask |-> {}, tag |-> app[g].tag,
                     lspb |-> 0, ero |-> app[g].ero]
Entry == <<"up", 1>>
Told1(m) == [p \in {Entry} |-> m]

LEMMA SendMoves ==
  ASSUME Typed, NEW g \in Gri, NEW type \in {"REQUEST", "CONFIRM", "REMOVE"},
         NEW st \in {"asked", "confirmed", "leaving"}, Send(g, type, st)
  PROVE  /\ Movable(Net, NoPlace, {Entry}, Told1(FromApp(g, type)))
         /\ Net' = Moved(Net, NoPlace, {Entry}, Told1(FromApp(g, type)))
         /\ Told1(FromApp(g, type))[Entry] = FromApp(g, type)
         /\ Entry \in Places /\ Entry[1] = "up" /\ NoPlace \notin Places
         /\ \A j \in Dom : NoPlace # <<"up", j>> /\ (<<"up", j>> = Entry <=> j = 1)
         /\ UNCHANGED <<q, bw>>
         /\ app'[g].st = st /\ app'[g].ero = app[g].ero /\ \A h \in Gri : h # g => app'[h] = app[h]
<1> DEFINE m == FromApp(g, type)
           y == Told1(m)
<1>1. m \in UpMsg /\ m \in Msg
  BY DEF FromApp, UpMsg, Msg, Typed, TypeOK, AppView
<1>2. up' = [up EXCEPT ![1] = Append(@, m)] /\ UNCHANGED <<dn, toRce, fromRce, q, bw>>
  BY DEF Send, FromApp, narbs
<1>3. app' = [app EXCEPT ![g].st = st]
  BY DEF Send
<1>4. app'[g].st = st /\ app'[g].ero = app[g].ero /\ \A h \in Gri : h # g => app'[h] = app[h]
  BY <1>3 DEF Typed, TypeOK, AppView
<1> HIDE DEF m
<1>5. y[Entry] = m
  BY DEF Told1
<1>6. Entry \in Places /\ Entry[1] = "up" /\ NoPlace \notin Places /\ NoPlace \notin {Entry}
  BY OneInDom DEF Entry, NoPlace, Places
<1>7. Movable(Net, NoPlace, {Entry}, y)
  BY <1>1, <1>5, <1>6, NetType DEF Movable
<1>8. \A j \in Dom : /\ <<"up", j>> # NoPlace /\ <<"dn", j>> # NoPlace
                     /\ <<"toRce", j>> # NoPlace /\ <<"fromRce", j>> # NoPlace
                     /\ <<"up", j>> = Entry <=> j = 1
                     /\ <<"dn", j>> # Entry /\ <<"toRce", j>> # Entry /\ <<"fromRce", j>> # Entry
  BY DEF NoPlace, Entry
<1>9. Net' = Moved(Net, NoPlace, {Entry}, y)
  <2>1. \A j \in Dom : /\ up'[j] = IF j = 1 THEN Append(up[j], m) ELSE up[j]
                       /\ dn'[j] = dn[j] /\ toRce'[j] = toRce[j] /\ fromRce'[j] = fromRce[j]
    BY <1>2 DEF Typed
  <2>2. \A j \in Dom : j = 1 => y[<<"up", j>>] = m
    BY <1>5 DEF Entry
  <2> HIDE DEF y
  <2> QED BY <1>8, <2>1, <2>2, NetMoves
<1> QED BY <1>2, <1>4, <1>5, <1>6, <1>7, <1>8, <1>9 DEF m

LEMMA SendElsewhere ==
  ASSUME Typed, \A h \in Gri : Orderly(h), NEW g \in Gri,
         NEW type \in {"REQUEST", "CONFIRM", "REMOVE"},
         NEW st \in {"asked", "confirmed", "leaving"}, Send(g, type, st)
  PROVE  \A h \in Gri : h # g => Orderly(h)'
<1> DEFINE y == Told1(FromApp(g, type))
<1> SUFFICES ASSUME NEW h \in Gri, h # g PROVE Orderly(h)'
  OBVIOUS
<1>1. /\ Movable(Net, NoPlace, {Entry}, y) /\ Net' = Moved(Net, NoPlace, {Entry}, y)
      /\ y[Entry].gri = g /\ \A j \in Dom : NoPlace # <<"up", j>>
      /\ \A j \in Dom : q'[j][h] = q[j][h]
      /\ app'[h] = app[h]
  <2>1. FromApp(g, type).gri = g
    BY DEF FromApp
  <2> QED BY <2>1, SendMoves
<1> HIDE DEF y
<1>2. \A p \in {Entry} : y[p].gri # h
  BY <1>1
<1> QED BY <1>1, <1>2, Elsewhere

(* An application that has asked for nothing, or been given a path, has    *)
(* nothing under way.                                                      *)
LEMMA Calm ==
  ASSUME NEW g \in Gri, Phased(Net, g), app[g].st \notin {"asked"} \cup Engaged
  PROVE  OnlyToken(Net, g, NoPlace)
BY DEF Phased, OnlyToken

LEMMA AskKept ==
  ASSUME Typed, Kept, NEW g \in Gri, app[g].st \in {"idle", "failed", "granted"},
         Send(g, "REQUEST", "asked")
  PROVE  Kept'
<1> DEFINE y == Told1(FromApp(g, "REQUEST"))
<1>1. /\ Movable(Net, NoPlace, {Entry}, y) /\ Net' = Moved(Net, NoPlace, {Entry}, y)
      /\ y[Entry].gri = g /\ y[Entry].type = "REQUEST" /\ Entry[1] = "up"
      /\ UNCHANGED <<q, bw>> /\ app'[g].st = "asked"
  <2>1. FromApp(g, "REQUEST").gri = g /\ FromApp(g, "REQUEST").type = "REQUEST"
    BY DEF FromApp
  <2> QED BY <2>1, SendMoves
<1> HIDE DEF y
<1>2. Phased(Net, g)'
  <2>1. OnlyToken(Net, g, NoPlace)
    BY Calm DEF Kept, Orderly, Engaged
  <2>2. Posted1(g, NoPlace, {Entry}, y) /\ AppMoves(g, NoPlace)
    BY <1>1, <2>1 DEF Posted1, AppMoves, Engaged
  <2>3. \A j \in Dom : q'[j][g].st \in Closed => q[j][g].st \in Closed \/ app'[g].st \in Engaged
    BY <1>1
  <2> QED BY <1>1, <2>2, <2>3, PhasedMoves DEF Kept, Orderly
<1>3. Ordered(Net, g)'
  BY <1>1, <1>2, CalmOrdered DEF Engaged
<1>4. \A h \in Gri : Orderly(h)'
  BY <1>2, <1>3, SendElsewhere DEF Kept, Orderly
<1> QED BY <1>1, <1>4, BandwidthStays DEF Kept

LEMMA ConfirmKept ==
  ASSUME Typed, Kept, NEW g \in Gri, app[g].st = "granted", app[g].ero # 0,
         Send(g, "CONFIRM", "confirmed")
  PROVE  Kept'
<1> DEFINE m == FromApp(g, "CONFIRM")
           y == Told1(m)
           D == Moved(Net, NoPlace, {Entry}, y)
<1>1. /\ Movable(Net, NoPlace, {Entry}, y) /\ Net' = D /\ y[Entry] = m
      /\ Entry \in Places /\ Entry[1] = "up" /\ \A j \in Dom : <<"up", j>> = Entry <=> j = 1
      /\ UNCHANGED <<q, bw>> /\ app'[g].st = "confirmed" /\ app'[g].ero = app[g].ero
  BY SendMoves
<1>2. m.gri = g /\ m.type = "CONFIRM" /\ m.ero = app[g].ero
  BY DEF FromApp
<1> HIDE DEF m, y, D
<1>3. OnlyToken(Net, g, NoPlace) /\ app[g].st \notin Engaged
  BY Calm DEF Kept, Orderly, Engaged
<1>4. Phased(Net, g)'
  <2>1. Posted1(g, NoPlace, {Entry}, y) /\ AppMoves(g, NoPlace)
    BY <1>1, <1>2, <1>3 DEF Posted1, AppMoves, Engaged, IsToken, Carried
  <2>2. \A j \in Dom : q'[j][g].st \in Closed => q[j][g].st \in Closed \/ app'[g].st \in Engaged
    BY <1>1
  <2> QED BY <1>1, <2>1, <2>2, PhasedMoves DEF Kept, Orderly, D
<1>5. ASSUME NEW j \in Dom, NEW k \in 1 .. Len(D[<<"up", j>>]), D[<<"up", j>>][k].gri = g
      PROVE  /\ D[<<"up", j>>][k].type \in {"CONFIRM", "REMOVE"} => D[<<"up", j>>][k].ero = app'[g].ero
             /\ D[<<"up", j>>][k].type # "REMOVE"
  <2> DEFINE p == <<"up", j>>
  <2>1. p \in Places /\ p[1] = "up" /\ p # NoPlace
    BY NetAt DEF NoPlace
  <2>2. k \in 1 .. Len(D[p]) /\ D[p][k].gri = g
    BY <1>5
  <2>3. ~Has(Net[p], g, "REMOVE") /\ ~Has(Net[p], g, "CONFIRM")
    BY <1>3 DEF Kept, Orderly, Phased
  <2> HIDE DEF p
  <2>4. ~Has(D[p], g, "REMOVE")
    <3>1. \A t \in {Entry} : y[t].type # "REMOVE"
      BY <1>1, <1>2
    <3>2. Has(D[p], g, "REMOVE")
            => Has(Net[p], g, "REMOVE") \/ (p \in {Entry} /\ y[p].gri = g /\ y[p].type = "REMOVE")
      BY <1>1, <2>1, HasMoved DEF D
    <3> QED BY <2>3, <3>1, <3>2
  <2>5. D[p][k].type # "REMOVE"
    BY <2>2, <2>4 DEF Has
  <2>6. ASSUME D[p][k].type = "CONFIRM" PROVE D[p][k] = m
    <3>1. Len(Net[p]) \in Nat
      BY <1>1, <2>1, MovedAt
    <3>2. \A n \in 1 .. Len(Net[p]) : Net[p][n].gri = g => Net[p][n].type # "CONFIRM"
      BY <2>3 DEF Has
    <3>3. CASE p = Entry
      <4>1. /\ Len(D[p]) = Len(Net[p]) + 1
            /\ \A n \in 1 .. Len(Net[p]) : D[p][n] = Net[p][n]
            /\ D[p][Len(Net[p]) + 1] = m
        <5> DEFINE W == {Entry}
        <5>1. p \in W /\ y[p] = m
          BY <1>1, <3>3
        <5>2. Movable(Net, NoPlace, W, y) /\ D = Moved(Net, NoPlace, W, y)
          BY <1>1 DEF D
        <5> HIDE DEF W
        <5>3. /\ Len(D[p]) = Len(Net[p]) + 1
              /\ \A n \in 1 .. Len(Net[p]) : D[p][n] = Net[p][n]
              /\ D[p][Len(Net[p]) + 1] = y[p]
          BY ONLY <2>1, <5>1, <5>2, MovedAt
        <5> QED BY <5>1, <5>3
      <4>2. k \notin 1 .. Len(Net[p])
        BY <2>2, <2>6, <3>2, <4>1
      <4>3. k = Len(Net[p]) + 1
        BY <2>2, <3>1, <4>1, <4>2
      <4> QED BY <4>1, <4>3
    <3>4. CASE p # Entry
      <4>1. D[p] = Net[p]
        BY <1>1, <2>1, <3>4, MovedAt DEF D
      <4> QED BY <2>2, <2>6, <3>2, <4>1
    <3> QED BY <3>3, <3>4
  <2> QED BY <1>1, <1>2, <2>5, <2>6 DEF p
<1>6. Has(D[<<"up", 1>>], g, "CONFIRM")
  <2>1. Has(D[Entry], g, "CONFIRM")
    BY <1>1, <1>2, HasMoved DEF D
  <2> QED BY <2>1 DEF Entry
<1>7. ASSUME NEW j \in Dom, j # 1 PROVE q'[j - 1][g].st # "RESV_CONFIRM"
  <2>1. j - 1 \in Dom
    BY <1>7, BrokerAssumption DEF Dom, BrokerAssumption
  <2> QED BY <1>1, <1>3, <2>1 DEF Kept, Orderly, Phased, Closed
<1>8. Ordered(Net, g)'
  <2>1. app'[g].ero >= 1
    BY <1>1, BrokerAssumption DEF Typed, TypeOK, AppView, BrokerAssumption
  <2> QED BY <1>1, <1>5, <1>6, <1>7, <2>1 DEF Ordered
<1>9. \A h \in Gri : Orderly(h)'
  BY <1>4, <1>8, SendElsewhere DEF Kept, Orderly
<1> QED BY <1>1, <1>9, BandwidthStays DEF Kept

LEMMA LeaveKept ==
  ASSUME Typed, Kept, NEW g \in Gri, app[g].st \in {"confirmed", "leaving"},
         Send(g, "REMOVE", "leaving")
  PROVE  Kept'
<1> DEFINE m == FromApp(g, "REMOVE")
           y == Told1(m)
<1>1. /\ Movable(Net, NoPlace, {Entry}, y) /\ Net' = Moved(Net, NoPlace, {Entry}, y) /\ y[Entry] = m
      /\ \A j \in Dom : NoPlace # <<"up", j>> /\ (<<"up", j>> = Entry <=> j = 1)
      /\ Entry[1] = "up" /\ UNCHANGED <<q, bw>> /\ app'[g].st = "leaving" /\ app'[g].ero = app[g].ero
  BY SendMoves
<1>2. m.gri = g /\ m.type = "REMOVE" /\ m.ero = app[g].ero
  BY DEF FromApp
<1> HIDE DEF m, y
<1>3. app[g].st \in Engaged /\ app'[g].st \in Engaged
  BY <1>1 DEF Engaged
<1>4. Phased(Net, g)'
  <2>1. ~IsToken(g, Entry, y[Entry])
    BY <1>1, <1>2 DEF IsToken, Carried
  <2>2. Posted1(g, NoPlace, {Entry}, y) /\ AppMoves(g, NoPlace)
    BY <1>3, <2>1 DEF Posted1, AppMoves
  <2>3. \A j \in Dom : q'[j][g].st \in Closed => q[j][g].st \in Closed \/ app'[g].st \in Engaged
    BY <1>1
  <2> QED BY <1>1, <2>2, <2>3, PhasedMoves DEF Kept, Orderly
<1>5. Follows(g, NoPlace, {Entry}, y)
  <2>1. q[1][g].st \in Granted => Has(Net[<<"up", 1>>], g, "CONFIRM")
    BY <1>3, OneInDom DEF Kept, Orderly, Ordered
  <2> QED BY <1>1, <1>2, <1>3, <2>1 DEF Follows
<1>6. Ordered(Net, g)'
  BY <1>1, <1>5, OrderedMoves DEF Kept, Orderly
<1>7. \A h \in Gri : Orderly(h)'
  BY <1>4, <1>6, SendElsewhere DEF Kept, Orderly
<1> QED BY <1>1, <1>7, BandwidthStays DEF Kept

(* A confirmation that is sent again follows the first one.                *)
LEMMA RepeatKept ==
  ASSUME Typed, Kept, NEW g \in Gri, app[g].st = "confirmed", Send(g, "CONFIRM", "confirmed")
  PROVE  Kept'
<1> DEFINE m == FromApp(g, "CONFIRM")
           y == Told1(m)
<1>1. /\ Movable(Net, NoPlace, {Entry}, y) /\ Net' = Moved(Net, NoPlace, {Entry}, y) /\ y[Entry] = m
      /\ \A j \in Dom : NoPlace # <<"up", j>> /\ (<<"up", j>> = Entry <=> j = 1)
      /\ Entry[1] = "up" /\ UNCHANGED <<q, bw>> /\ app'[g].st = "confirmed" /\ app'[g].ero = app[g].ero
  BY SendMoves
<1>2. m.gri = g /\ m.type = "CONFIRM" /\ m.ero = app[g].ero
  BY DEF FromApp
<1> HIDE DEF m, y
<1>3. app[g].st \in Engaged /\ app'[g].st \in Engaged
  BY <1>1 DEF Engaged
<1>4. Phased(Net, g)'
  <2>1. ~IsToken(g, Entry, y[Entry])
    BY <1>1, <1>2 DEF IsToken, Carried
  <2>2. Posted1(g, NoPlace, {Entry}, y) /\ AppMoves(g, NoPlace)
    BY <1>3, <2>1 DEF Posted1, AppMoves
  <2>3. \A j \in Dom : q'[j][g].st \in Closed => q[j][g].st \in Closed \/ app'[g].st \in Engaged
    BY <1>1
  <2> QED BY <1>1, <2>2, <2>3, PhasedMoves DEF Kept, Orderly
<1>5. Follows(g, NoPlace, {Entry}, y)
  BY <1>1, <1>2, <1>3 DEF Follows
<1>6. Ordered(Net, g)'
  BY <1>1, <1>5, OrderedMoves DEF Kept, Orderly
<1>7. \A h \in Gri : Orderly(h)'
  BY <1>4, <1>6, SendElsewhere DEF Kept, Orderly
<1> QED BY <1>1, <1>7, BandwidthStays DEF Kept

LEMMA AppReadKept ==
  ASSUME Typed, Kept, AppRead PROVE Kept'
<1> DEFINE r == <<"dn", 1>>
           y == <<>>
<1>0. PICK m \in DnMsg : m = Head(dn[1])
  BY OneInDom, ReaderType DEF AppRead, Typed
<1>00. PICK g \in Gri : g = m.gri
  BY DEF DnMsg
<1>1. dn[1] # <<>> /\ m = dn[1][1]
  BY <1>0 DEF AppRead
<1>2. /\ dn' = [dn EXCEPT ![1] = Tail(@)] /\ UNCHANGED <<up, toRce, fromRce, q, bw>>
      /\ app' = [app EXCEPT ![g] = Told(@, m)]
  BY <1>0, <1>00 DEF AppRead, narbs
<1>3. m.gri = g /\ m.type \in {"ERO", "ID", "ERROR", "RELEASED"}
  BY <1>00 DEF DnMsg
<1>4. /\ r \in Places /\ Net[r] = dn[1] /\ r[1] = "dn" /\ \A j \in Dom : r # <<"up", j>>
  BY OneInDom, NetAt
<1>5. Net[r][1] = m
  BY <1>1, <1>4
<1>6. Net' = Moved(Net, r, {}, y)
  <2>1. ASSUME NEW j \in Dom
        PROVE  /\ up'[j] = up[j] /\ toRce'[j] = toRce[j] /\ fromRce'[j] = fromRce[j]
               /\ dn'[j] = IF j = 1 THEN Tail(dn[j]) ELSE dn[j]
    BY <1>2 DEF Typed
  <2>2. ASSUME NEW j \in Dom
        PROVE  /\ <<"up", j>> # r /\ <<"toRce", j>> # r /\ <<"fromRce", j>> # r
               /\ <<"dn", j>> = r <=> j = 1
    OBVIOUS
  <2> HIDE DEF r, y
  <2> QED BY <2>1, <2>2, NetMoves
<1> HIDE DEF r, y
<1>7. Movable(Net, r, {}, y)
  BY <1>1, <1>4, NetType DEF Movable
<1>8. /\ app'[g] = Told(app[g], m) /\ \A h \in Gri : h # g => app'[h] = app[h]
  BY <1>2, <1>3 DEF Typed, TypeOK
<1>9. app[g] \in AppView
  BY <1>3 DEF Typed, TypeOK
<1>10. \A h \in Gri : Orderly(h)
  BY DEF Kept
<1>11. \A h \in Gri : app'[h] = app[h] => Orderly(h)'
  BY <1>2, <1>4, <1>6, <1>7, <1>10, Elsewhere
<1>12. CASE m.type \in {"ERO", "ERROR"} /\ app[g].st = "asked"
  <2>1. app'[g].st \in {"granted", "failed"}
    BY <1>8, <1>9, <1>12 DEF Told, AppView
  <2>2. OnlyToken(Net, g, r)
    <3>1. IsToken(g, r, Net[r][1]) /\ Net[r] \in Seq(Msg)
      BY <1>3, <1>4, <1>5, <1>12, NetType DEF IsToken, Carried
    <3> QED BY <1>1, <1>4, <1>10, <1>3, <3>1, TokenFirst
  <2>3. Phased(Net, g)'
    <3>1. Posted1(g, r, {}, y) /\ AppMoves(g, r)
      BY <1>12, <2>2 DEF Posted1, AppMoves, Engaged
    <3>2. \A j \in Dom : q'[j][g].st \in Closed => q[j][g].st \in Closed \/ app'[g].st \in Engaged
      BY <1>2
    <3>3. Phased(Net, g)
      BY <1>3, <1>10 DEF Orderly
    <3> QED BY <1>3, <1>6, <1>7, <3>1, <3>2, <3>3, PhasedMoves
  <2>4. Ordered(Net, g)'
    BY <1>3, <2>1, <2>3, CalmOrdered DEF Engaged
  <2>5. \A h \in Gri : Orderly(h)'
    BY <1>8, <1>11, <2>3, <2>4 DEF Orderly
  <2> QED BY <1>2, <2>5, BandwidthStays DEF Kept
<1>13. CASE m.type = "RELEASED" /\ app[g].st = "leaving"
  <2>1. app'[g].st = "done" /\ app'[g].ero = app[g].ero
    BY <1>8, <1>9, <1>13 DEF Told, AppView
  <2>2. app[g].st \in Engaged /\ app'[g].st \in Engaged
    BY <1>13, <2>1 DEF Engaged
  <2>3. Phased(Net, g) /\ Ordered(Net, g)
    BY <1>3, <1>10 DEF Orderly
  <2>4. Phased(Net, g)'
    <3>1. Posted1(g, r, {}, y) /\ AppMoves(g, r)
      BY <2>2 DEF Posted1, AppMoves
    <3>2. \A j \in Dom : q'[j][g].st \in Closed => q[j][g].st \in Closed \/ app'[g].st \in Engaged
      BY <1>2
    <3> QED BY <1>3, <1>6, <1>7, <2>3, <3>1, <3>2, PhasedMoves
  <2>5. Follows(g, r, {}, y)
    BY <1>2, <1>4, <2>1, <2>2 DEF Follows
  <2>6. Ordered(Net, g)'
    BY <1>3, <1>6, <1>7, <2>3, <2>5, OrderedMoves
  <2>7. \A h \in Gri : Orderly(h)'
    BY <1>8, <1>11, <2>4, <2>6 DEF Orderly
  <2> QED BY <1>2, <2>7, BandwidthStays DEF Kept
<1>14. CASE ~(m.type \in {"ERO", "ERROR"} /\ app[g].st = "asked")
            /\ ~(m.type = "RELEASED" /\ app[g].st = "leaving")
  <2>1. Told(app[g], m) = app[g]
    BY <1>3, <1>14 DEF Told
  <2>2. \A h \in Gri : Orderly(h)'
    BY <1>8, <1>11, <2>1
  <2> QED BY <1>2, <2>2, BandwidthStays DEF Kept
<1> QED BY <1>12, <1>13, <1>14

(* The messages between NARB i and its RCE are lost.                       *)
LEMMA Lost ==
  ASSUME Typed, Kept, NEW i \in Dom, UNCHANGED <<up, dn, q, bw, app>>,
         toRce' = [toRce EXCEPT ![i] = <<>>], fromRce' = [fromRce EXCEPT ![i] = <<>>]
  PROVE  Kept'
<1>1. \A p \in Places : Net'[p] = Net[p] \/ Net'[p] = <<>>
  <2> SUFFICES ASSUME NEW j \in Dom
               PROVE  /\ Net'[<<"up", j>>] = Net[<<"up", j>>]
                      /\ Net'[<<"dn", j>>] = Net[<<"dn", j>>]
                      /\ Net'[<<"toRce", j>>] \in {Net[<<"toRce", j>>], <<>>}
                      /\ Net'[<<"fromRce", j>>] \in {Net[<<"fromRce", j>>], <<>>}
    BY PlaceIs
  <2>1. /\ Net'[<<"up", j>>] = up'[j] /\ Net'[<<"dn", j>>] = dn'[j]
        /\ Net'[<<"toRce", j>>] = toRce'[j] /\ Net'[<<"fromRce", j>>] = fromRce'[j]
    <3>1. \A k \in {"up", "dn", "toRce", "fromRce"} : <<k, j>> \in Places
      BY DEF Places
    <3> QED BY <3>1 DEF Net
  <2> QED BY <2>1, NetAt DEF Typed
<1>2. \A j \in Dom : Net'[<<"up", j>>] = Net[<<"up", j>>]
  <2> SUFFICES ASSUME NEW j \in Dom PROVE Net'[<<"up", j>>] = Net[<<"up", j>>]
    OBVIOUS
  <2>1. <<"up", j>> \in Places /\ Net'[<<"up", j>>] = up'[j]
    BY NetAt DEF Net
  <2> QED BY <2>1, NetAt
<1>3. q' = q /\ bw' = bw /\ app' = app
  OBVIOUS
<1> SUFFICES ASSUME NEW g \in Gri PROVE Phased(Net, g)' /\ Ordered(Net, g)'
  BY BandwidthStays DEF Kept, Orderly
<1>4. Phased(Net, g) /\ Ordered(Net, g)
  BY DEF Kept, Orderly
<1>5. ASSUME NEW p \in Places, NEW k \in 1 .. Len(Net'[p])
      PROVE  Net'[p] = Net[p] /\ k \in 1 .. Len(Net[p])
  <2>1. Net'[p] # <<>>
    BY <1>5
  <2> QED BY <1>1, <2>1
<1>6. ASSUME NEW p \in Places, NEW k \in 1 .. Len(Net'[p]), TokenAt(Net, g, p, k)'
      PROVE  TokenAt(Net, g, p, k) /\ k \in 1 .. Len(Net[p]) /\ Net'[p] = Net[p]
  BY <1>5, <1>6 DEF TokenAt
<1>7. OneToken(Net, g)'
  BY <1>4, <1>6 DEF OneToken, Phased
<1>8. \A p \in Places : \A k \in 1 .. Len(Net'[p]) :
        TokenAt(Net, g, p, k)' => app'[g].st = "asked"
  BY <1>3, <1>4, <1>6 DEF Phased
<1>9. \A j \in Dom : \/ q'[j][g].st \in Closed
                     \/ \E type \in {"CONFIRM", "REMOVE"} : Has(Net'[<<"up", j>>], g, type)
                    => app'[g].st \in Engaged
  BY <1>2, <1>3, <1>4 DEF Phased
<1>10. Phased(Net, g)'
  BY <1>7, <1>8, <1>9 DEF Phased
<1>11. Ordered(Net, g)'
  BY <1>2, <1>3, <1>4, OneInDom DEF Ordered
<1> QED BY <1>10, <1>11

(* The application waits for the answer to a request, releases only what it*)
(* has confirmed and keeps its connection, and no NARB stops.              *)
Patient == Faults \cap {"retry", "early", "narb", "app"} = {}

LEMMA KeptInit == Init => Typed /\ Kept
<1> SUFFICES ASSUME Init PROVE Kept
  BY TypedInit
<1>1. \A p \in Places : Net[p] = <<>>
  <2>1. \A j \in Dom : up[j] = <<>> /\ dn[j] = <<>> /\ toRce[j] = <<>> /\ fromRce[j] = <<>>
    BY DEF Init
  <2>2. ASSUME NEW j \in Dom
        PROVE  /\ Net[<<"up", j>>] = <<>> /\ Net[<<"dn", j>>] = <<>>
               /\ Net[<<"toRce", j>>] = <<>> /\ Net[<<"fromRce", j>>] = <<>>
    BY <2>1, NetAt
  <2> QED BY <2>2, PlaceIs
<1>2. \A j \in Dom, g \in Gri : q[j][g].st = "none"
  BY DEF Init, NoneOf, NoLspq
<1>3. ASSUME NEW g \in Gri PROVE Orderly(g)
  <2>1. \A p \in Places : \A k \in 1 .. Len(Net[p]) : FALSE
    BY <1>1
  <2>2. \A j \in Dom : <<"up", j>> \in Places
    BY NetAt
  <2>3. Phased(Net, g)
    BY <1>2, <2>1, <2>2 DEF Phased, OneToken, Has, Closed
  <2>4. app[g].st = "idle"
    BY DEF Init
  <2>5. Ordered(Net, g)
    BY <1>2, <2>1, <2>2, <2>4 DEF Ordered, Granted, Engaged
  <2> QED BY <2>3, <2>5 DEF Orderly
<1>4. BandwidthAccounted
  <2> SUFFICES ASSUME NEW i \in Dom PROVE bw[i] = MaxBw - Cardinality(Confirmed(i))
    BY DEF BandwidthAccounted, Confirmed
  <2>1. Confirmed(i) = {}
    BY <1>2 DEF Confirmed
  <2>2. bw[i] = MaxBw /\ MaxBw \in Nat
    BY BrokerAssumption DEF Init, BrokerAssumption
  <2>3. Cardinality({}) = 0
    BY FS_EmptySet
  <2> QED BY <2>1, <2>2, <2>3
<1> QED BY <1>3, <1>4 DEF Kept

LEMMA KeptStep ==
  ASSUME Patient, Cardinality(Gri) <= MaxBw, Typed, Kept, [Next]_vars
  PROVE  Typed' /\ Kept'
<1> SUFFICES Kept'
  BY TypedStep
<1>1. ASSUME NEW i \in Dom, ReadMessage(i) \/ ReadRCEReply(i) \/ ReadPeerReply(i) PROVE Kept'
  BY <1>1, ReadMessageKept, ReadRCEReplyKept, ReadPeerReplyKept DEF Patient
<1>2. ASSUME NEW i \in Dom, RceServe(i) PROVE Kept'
  BY <1>2, RceServeKept
<1>3. ASSUME NEW g \in Gri,
             AppAsk(g) \/ AppConfirm(g) \/ AppRelease(g) \/ AppRepeat(g) \/ AppRetransmit(g)
      PROVE  Kept'
  BY <1>3, AskKept, ConfirmKept, RepeatKept, LeaveKept
     DEF Patient, AppAsk, AppConfirm, AppRelease, AppRepeat, AppRetransmit
<1>4. CASE AppRead
  BY <1>4, AppReadKept
<1>5. ASSUME NEW i \in Dom, RceStop(i) PROVE Kept'
  BY <1>5, Lost DEF RceStop, apps
<1>6. ASSUME UNCHANGED <<up, dn, toRce, fromRce, q, bw, app>> PROVE Kept'
  <2>1. Net' = Net
    BY <1>6 DEF Net
  <2>2. q' = q /\ app' = app
    BY <1>6
  <2>3. \A g \in Gri : Orderly(g)'
    <3> SUFFICES ASSUME NEW g \in Gri PROVE Phased(Net, g)' /\ Ordered(Net, g)'
      BY DEF Orderly
    <3>1. Phased(Net, g) /\ Ordered(Net, g)
      BY DEF Kept, Orderly
    <3>2. Phased(Net, g)'
      BY <2>1, <2>2, <3>1 DEF Phased, OneToken, TokenAt, Has
    <3>3. Ordered(Net, g)'
      BY <2>1, <2>2, <3>1 DEF Ordered, Has
    <3> QED BY <3>2, <3>3
  <2> QED BY <1>6, <2>3, BandwidthStays DEF Kept
<1>7. ASSUME NEW i \in Dom, RceStart(i) \/ \E g \in Gri : Expire(i, g) PROVE Kept'
  BY <1>6, <1>7 DEF RceStart, Expire, chans, narbs, apps
<1>8. \A i \in Dom : ~NarbRestart(i) /\ ~AppReconnect
  BY DEF Patient, NarbRestart, AppReconnect, Fault
<1>9. CASE Next
  BY <1>1, <1>2, <1>3, <1>4, <1>5, <1>7, <1>8, <1>9, OneInDom DEF Next
<1>10. CASE UNCHANGED vars
  BY <1>6, <1>10 DEF vars
<1> QED BY <1>9, <1>10

(* However often confirmations and releases are repeated and requests asked*)
(* anew, whatever routes and query holds are lost and whichever RCEs stop, *)
(* the bandwidth that a NARB has on record for its links is what the LSPs  *)
(* confirmed and not released leave (HandleResvConfirm, HandleResvRelease),*)
(* as long as the links have room for the LSPs and the application releases*)
(* only what it has confirmed.                                             *)
THEOREM BandwidthIsAccounted ==
  ASSUME Patient, Cardinality(Gri) <= MaxBw
  PROVE  Spec => []BandwidthAccounted
<1>1. Init => Typed /\ Kept
  BY KeptInit
<1>2. Typed /\ Kept /\ [Next]_vars => (Typed /\ Kept)'
  BY KeptStep
<1>3. Typed /\ Kept => BandwidthAccounted
  BY DEF Kept
<1> QED BY <1>1, <1>2, <1>3, PTL DEF Spec

=============================================================================

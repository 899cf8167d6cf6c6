------------------------------ MODULE RceProofs ------------------------------
(***************************************************************************)
(* What holds of the clients that the RCE has of an OSPF daemon and of a   *)
(* TERCE, however many LSAs and sockets there are and whatever the bounds. *)
(***************************************************************************)
EXTENDS MCRce, TLAPS, FiniteSetTheorems, SequenceTheorems, WellFoundedInduction

-----------------------------------------------------------------------------
(* The client of the OSPF daemon.                                          *)

Notices == [act : {"update", "delete"}, lsa : OspfLsas]

(* The types of the fields that matter here.                               *)
OspfClient(c) ==
  /\ {"timer", "commands", "attempt", "fd", "reader", "writer", "queue", "aborted"} \subseteq DOMAIN c
  /\ c.fd \in BOOLEAN /\ c.reader \in {"null", "reads", "ready"}
OspfDaemon(d) ==
  /\ {"up", "conn", "lsdb", "asked", "sent", "stops", "changes", "refusals"} \subseteq DOMAIN d
  /\ d.conn \in BOOLEAN /\ d.lsdb \subseteq OspfLsas /\ d.asked \in Nat /\ d.sent \in Seq(Notices)

(* Without a socket nothing is under way, and a reader that select() has   *)
(* found has something to read unless the connection has broken.           *)
OspfInv ==
  /\ OspfClient(client) /\ OspfDaemon(daemon) /\ rdb \subseteq OspfLsas
  /\ ~client.fd => client.reader = "null" /\ ~daemon.conn /\ daemon.sent = <<>>
  /\ ~daemon.conn => daemon.asked = 0
  /\ client.reader = "ready" /\ daemon.conn => daemon.sent # <<>>
  /\ Ospf!NothingLeftOver

(* The next notice is taken over.                                          *)
LEMMA TakenOver ==
  ASSUME NEW db \in SUBSET OspfLsas, NEW ms \in Seq(Notices), ms # <<>>
  PROVE  Ospf!Applied(Ospf!Handled(db, Head(ms)), Tail(ms)) \subseteq Ospf!Applied(db, ms)
<1>1. /\ Tail(ms) \in Seq(Notices) /\ Len(Tail(ms)) = Len(ms) - 1 /\ Len(ms) \in Nat \ {0}
      /\ \A i \in 1 .. Len(Tail(ms)) : Tail(ms)[i] = ms[i + 1]
      /\ Head(ms) = ms[1] /\ ms[1] \in Notices
  OBVIOUS
<1> SUFFICES ASSUME NEW l \in Ospf!Applied(Ospf!Handled(db, Head(ms)), Tail(ms))
             PROVE  l \in Ospf!Applied(db, ms)
  OBVIOUS
<1>2. CASE \E i \in 1 .. Len(Tail(ms)) :
             /\ Tail(ms)[i] = Ospf!Notice("update", l)
             /\ ~\E j \in i .. Len(Tail(ms)) : Tail(ms)[j] = Ospf!Notice("delete", l)
  <2>1. PICK i \in 1 .. Len(Tail(ms)) :
             /\ Tail(ms)[i] = Ospf!Notice("update", l)
             /\ ~\E j \in i .. Len(Tail(ms)) : Tail(ms)[j] = Ospf!Notice("delete", l)
    BY <1>2
  <2>2. i + 1 \in 1 .. Len(ms) /\ ms[i + 1] = Ospf!Notice("update", l) BY <1>1, <2>1
  <2>3. \A j \in i + 1 .. Len(ms) : ms[j] # Ospf!Notice("delete", l)
    <3> SUFFICES ASSUME NEW j \in i + 1 .. Len(ms) PROVE ms[j] # Ospf!Notice("delete", l)
      OBVIOUS
    <3>1. j - 1 \in i .. Len(Tail(ms)) /\ (j - 1) + 1 = j BY <1>1
    <3>2. QED BY <1>1, <2>1, <3>1
  <2>4. QED BY <2>2, <2>3 DEF Ospf!Applied
<1>3. CASE /\ l \in Ospf!Handled(db, Head(ms))
           /\ ~\E j \in 1 .. Len(Tail(ms)) : Tail(ms)[j] = Ospf!Notice("delete", l)
  <2>1. \A j \in 2 .. Len(ms) : ms[j] # Ospf!Notice("delete", l)
    <3> SUFFICES ASSUME NEW j \in 2 .. Len(ms) PROVE ms[j] # Ospf!Notice("delete", l)
      OBVIOUS
    <3>1. j - 1 \in 1 .. Len(Tail(ms)) /\ (j - 1) + 1 = j BY <1>1
    <3>2. QED BY <1>1, <1>3, <3>1
  <2>2. CASE ms[1] = Ospf!Notice("update", l)
    <3>1. ms[1] # Ospf!Notice("delete", l) BY <2>2 DEF Ospf!Notice
    <3>2. QED BY <1>1, <2>1, <2>2, <3>1 DEF Ospf!Applied
  <2>3. CASE ms[1] # Ospf!Notice("update", l)
    <3>1. l \in db /\ ms[1] # Ospf!Notice("delete", l)
      BY <1>1, <1>3, <2>3 DEF Ospf!Handled, Ospf!Notice, Notices
    <3>2. QED BY <1>1, <2>1, <3>1 DEF Ospf!Applied
  <2>4. QED BY <2>2, <2>3
<1>4. QED BY <1>2, <1>3 DEF Ospf!Applied

(* The notices of the daemon are of what it has, or has no more.           *)
LEMMA Announced ==
  ASSUME NEW db \in SUBSET OspfLsas, NEW ms \in Seq(Notices), NEW new \in Seq(Notices)
  PROVE  /\ Ospf!Applied(db, ms \o new) \subseteq
              Ospf!Applied(db, ms) \cup {new[i].lsa : i \in {j \in 1 .. Len(new) : new[j].act = "update"}}
         /\ \A l \in OspfLsas : Len(new) > 0 /\ new[Len(new)] = Ospf!Notice("delete", l)
                                  => l \notin Ospf!Applied(db, ms \o new)
<1>1. /\ ms \o new \in Seq(Notices) /\ Len(ms \o new) = Len(ms) + Len(new)
      /\ Len(ms) \in Nat /\ Len(new) \in Nat
      /\ \A i \in 1 .. Len(ms) : (ms \o new)[i] = ms[i]
      /\ \A i \in 1 .. Len(new) : (ms \o new)[Len(ms) + i] = new[i]
  OBVIOUS
<1>2. ASSUME NEW l \in Ospf!Applied(db, ms \o new), l \notin Ospf!Applied(db, ms)
      PROVE  \E i \in 1 .. Len(new) : new[i].act = "update" /\ new[i].lsa = l
  <2>1. ~(l \in db /\ ~\E j \in 1 .. Len(ms \o new) : (ms \o new)[j] = Ospf!Notice("delete", l))
    BY <1>1, <1>2 DEF Ospf!Applied
  <2>2. PICK i \in 1 .. Len(ms \o new) :
             /\ (ms \o new)[i] = Ospf!Notice("update", l)
             /\ ~\E j \in i .. Len(ms \o new) : (ms \o new)[j] = Ospf!Notice("delete", l)
    BY <1>2, <2>1 DEF Ospf!Applied
  <2>3. ~(i \in 1 .. Len(ms))
    BY <1>1, <1>2, <2>2 DEF Ospf!Applied
  <2>4. i - Len(ms) \in 1 .. Len(new) /\ i = Len(ms) + (i - Len(ms)) BY <1>1, <2>3
  <2>5. new[i - Len(ms)] = Ospf!Notice("update", l) BY <1>1, <2>2, <2>4
  <2>6. QED BY <2>4, <2>5 DEF Ospf!Notice
<1>3. ASSUME NEW l \in OspfLsas, Len(new) > 0, new[Len(new)] = Ospf!Notice("delete", l)
      PROVE  l \notin Ospf!Applied(db, ms \o new)
  <2>1. Len(ms \o new) = Len(ms) + Len(new) /\ Len(new) \in 1 .. Len(new) BY <1>1, <1>3
  <2>2. (ms \o new)[Len(ms \o new)] = Ospf!Notice("delete", l) BY <1>1, <1>3, <2>1
  <2>3. \A i \in 1 .. Len(ms \o new) : Len(ms \o new) \in i .. Len(ms \o new) BY <1>1
  <2>4. 1 \in 1 .. Len(ms \o new) BY <1>1, <1>3
  <2>5. QED BY <2>2, <2>3, <2>4 DEF Ospf!Applied
<1>4. QED BY <1>2, <1>3

(* What is lost on the way was withdrawn.                                  *)
LEMMA LostOnTheWay ==
  ASSUME NEW db \in SUBSET OspfLsas, NEW d, OspfDaemon(d)
  PROVE  /\ Ospf!Applied(db, <<>>) = db
         /\ db \subseteq Ospf!Applied(db, d.sent) \cup Ospf!Under(d)
<1>1. Ospf!Applied(db, <<>>) = db BY DEF Ospf!Applied
<1>2. d.sent \in Seq(Notices) /\ DOMAIN d.sent = 1 .. Len(d.sent) BY DEF OspfDaemon
<1>3. QED BY <1>1, <1>2 DEF Ospf!Applied, Ospf!Under, Ospf!Notice

-----------------------------------------------------------------------------
LEMMA OspfBegins == Ospf!Init \/ Ospf!GaveUp => OspfInv
<1> SUFFICES ASSUME Ospf!Init \/ Ospf!GaveUp PROVE OspfInv
  OBVIOUS
<1>1. OspfClient(client) /\ OspfDaemon(daemon) /\ rdb = {} /\ daemon.sent = <<>>
  <2>1. CASE Ospf!Init
    BY <2>1 DEF Ospf!Init, Ospf!NewClient, Ospf!NewDaemon, OspfClient, OspfDaemon
  <2>2. CASE Ospf!GaveUp
    BY <2>2 DEF Ospf!GaveUp, Ospf!NewClient, Ospf!NewDaemon, OspfClient, OspfDaemon
  <2>3. QED BY <2>1, <2>2
<1>2. /\ ~client.fd /\ client.reader = "null" /\ ~daemon.conn /\ daemon.asked = 0
  BY DEF Ospf!Init, Ospf!GaveUp, Ospf!NewClient, Ospf!NewDaemon
<1>3. Ospf!Applied(rdb, daemon.sent) = {} BY <1>1, LostOnTheWay
<1>4. QED BY <1>1, <1>2, <1>3 DEF OspfInv, Ospf!NothingLeftOver

(* A step that changes neither what is known nor what is under way.         *)
LEMMA OspfQuiet ==
  ASSUME OspfInv, OspfClient(client'), OspfDaemon(daemon'), rdb' = rdb, missed \subseteq missed',
         daemon'.sent = daemon.sent, daemon'.lsdb = daemon.lsdb, daemon'.conn = daemon.conn,
         ~daemon.conn => daemon'.asked = 0,
         client'.fd = client.fd, ~client.fd => client'.reader = "null",
         client'.reader = "ready" => client.reader = "ready" \/ daemon.sent # <<>> \/ ~daemon.conn
  PROVE  OspfInv'
BY DEF OspfInv, Ospf!NothingLeftOver

LEMMA OspfSyncs == OspfInv /\ Ospf!Sync => OspfInv'
<1> SUFFICES ASSUME OspfInv, Ospf!Sync PROVE OspfInv'
  OBVIOUS
<1> USE DEF Ospf!Cycled, Ospf!PostMessage, Ospf!Linked, Ospf!Attempted, OspfClient, OspfDaemon
<1>1. /\ OspfClient(client) /\ OspfDaemon(daemon)
      /\ ~client.fd => client.reader = "null" /\ ~daemon.conn /\ daemon.sent = <<>>
      /\ ~daemon.conn => daemon.asked = 0
      /\ rdb' = rdb /\ missed' = missed
  BY DEF OspfInv, Ospf!Sync
<1>2. CASE client.fd /\ client' = Ospf!Cycled(Ospf!PostMessage(client)) /\ UNCHANGED daemon
  <2>1. /\ OspfClient(client') /\ client'.fd = client.fd /\ client'.reader = client.reader
    BY <1>1, <1>2
  <2>2. QED BY <1>1, <1>2, <2>1, OspfQuiet
<1>3. CASE ~client.fd /\ client' = Ospf!Cycled(client) /\ UNCHANGED daemon
  <2>1. /\ OspfClient(client') /\ client'.fd = client.fd /\ client'.reader = client.reader
    BY <1>1, <1>3
  <2>2. QED BY <1>1, <1>3, <2>1, OspfQuiet
<1>4. CASE /\ ~client.fd
           /\ client' = Ospf!Cycled(Ospf!PostMessage(Ospf!Linked(Ospf!Attempted(client))))
           /\ daemon' = [daemon EXCEPT !.conn = TRUE, !.sent = <<>>, !.asked = 0]
  <2>1. /\ OspfClient(client') /\ client'.fd /\ client'.reader = "reads"
    BY <1>1, <1>4
  <2>2. /\ OspfDaemon(daemon') /\ daemon'.conn /\ daemon'.sent = daemon.sent
        /\ daemon'.lsdb = daemon.lsdb
    BY <1>1, <1>4
  <2>3. QED BY <1>1, <2>1, <2>2 DEF OspfInv, Ospf!NothingLeftOver
<1>5. CASE /\ ~client.fd /\ client' = Ospf!Cycled(Ospf!Attempted(client))
           /\ daemon' = [daemon EXCEPT !.refusals = @ + 1]
  <2>1. /\ OspfClient(client') /\ client'.fd = client.fd /\ client'.reader = client.reader
    BY <1>1, <1>5
  <2>2. /\ OspfDaemon(daemon') /\ daemon'.conn = daemon.conn /\ daemon'.sent = daemon.sent
        /\ daemon'.lsdb = daemon.lsdb /\ daemon'.asked = daemon.asked
    BY <1>1, <1>5
  <2>3. QED BY <1>1, <1>5, <2>1, <2>2, OspfQuiet
<1>6. QED BY <1>2, <1>3, <1>4, <1>5 DEF Ospf!Sync

LEMMA OspfReads == OspfInv /\ Ospf!RunReader => OspfInv'
<1> SUFFICES ASSUME OspfInv, Ospf!RunReader PROVE OspfInv'
  OBVIOUS
<1> USE DEF OspfClient, OspfDaemon
<1>1. /\ OspfClient(client) /\ OspfDaemon(daemon) /\ rdb \subseteq OspfLsas
      /\ ~client.fd => client.reader = "null"
      /\ client.reader = "ready" /\ daemon.conn => daemon.sent # <<>>
      /\ ~daemon.conn => daemon.asked = 0
      /\ missed' = missed
  BY DEF OspfInv, Ospf!RunReader
<1>2. CASE client.reader # "ready"
  <2>1. client' = [client EXCEPT !.aborted = TRUE] /\ UNCHANGED <<daemon, rdb>>
    BY <1>2 DEF Ospf!RunReader
  <2>2. QED BY <1>1, <1>2, <2>1, OspfQuiet
<1>3. CASE client.reader = "ready" /\ daemon.sent # <<>>
  <2>1. /\ rdb' = Ospf!Handled(rdb, Head(daemon.sent))
        /\ client' = [client EXCEPT !.reader = "reads"]
        /\ daemon' = [daemon EXCEPT !.sent = Tail(@)]
    BY <1>3 DEF Ospf!RunReader
  <2>2. Head(daemon.sent) \in Notices /\ Tail(daemon.sent) \in Seq(Notices)
    BY <1>1, <1>3
  <2>3. /\ OspfDaemon(daemon') /\ daemon'.sent = Tail(daemon.sent)
        /\ daemon'.lsdb = daemon.lsdb /\ daemon'.conn = daemon.conn /\ daemon'.asked = daemon.asked
    BY <1>1, <2>1, <2>2
  <2>4. OspfClient(client') /\ client'.reader = "reads" /\ client'.fd
    BY <1>1, <1>3, <2>1
  <2>5. rdb' \subseteq OspfLsas BY <1>1, <2>1, <2>2 DEF Ospf!Handled, Notices
  <2>6. Ospf!Applied(rdb', daemon'.sent) \subseteq Ospf!Applied(rdb, daemon.sent)
    BY <1>1, <1>3, <2>1, <2>3, TakenOver
  <2>7. QED BY <1>1, <2>3, <2>4, <2>5, <2>6 DEF OspfInv, Ospf!NothingLeftOver
<1>4. CASE client.reader = "ready" /\ daemon.sent = <<>>
  <2>1. client' = Ospf!Forgotten(client) /\ UNCHANGED <<daemon, rdb>>
    BY <1>4 DEF Ospf!RunReader
  <2>2. OspfClient(client') /\ ~client'.fd /\ client'.reader = "null"
    BY <1>1, <2>1 DEF Ospf!Forgotten
  <2>3. QED BY <1>1, <1>4, <2>1, <2>2 DEF OspfInv, Ospf!NothingLeftOver
<1>5. QED BY <1>2, <1>3, <1>4

LEMMA OspfWrites == ASSUME NEW fails \in BOOLEAN, OspfInv, Ospf!RunWriter(fails) PROVE OspfInv'
<1> USE DEF OspfClient, OspfDaemon
<1>1. /\ OspfClient(client) /\ OspfDaemon(daemon) /\ rdb \in SUBSET OspfLsas
      /\ ~client.fd => client.reader = "null"
      /\ ~daemon.conn => daemon.asked = 0
      /\ rdb' = rdb /\ fails => ~daemon.conn
  BY DEF OspfInv, Ospf!RunWriter
<1>2. CASE client.writer # "ready"
  <2>1. client' = [client EXCEPT !.aborted = TRUE] /\ UNCHANGED <<daemon, missed>>
    BY <1>2 DEF Ospf!RunWriter
  <2>2. rdb' = rdb /\ OspfClient(client') BY <1>1, <2>1 DEF Ospf!RunWriter
  <2>3. QED BY <1>1, <1>2, <2>1, <2>2, OspfQuiet
<1>3. CASE client.writer = "ready" /\ fails
  <2>1. /\ client' = Ospf!Forgotten(client)
        /\ daemon' = [daemon EXCEPT !.sent = <<>>] /\ missed' = missed \cup Ospf!Under(daemon)
        /\ rdb' = rdb /\ ~daemon.conn
    BY <1>3 DEF Ospf!RunWriter
  <2>2. OspfClient(client') /\ ~client'.fd /\ client'.reader = "null"
    BY <1>1, <2>1 DEF Ospf!Forgotten
  <2>3. /\ OspfDaemon(daemon') /\ daemon'.sent = <<>> /\ daemon'.lsdb = daemon.lsdb
        /\ ~daemon'.conn /\ daemon'.asked = 0
    BY <1>1, <2>1
  <2>4. Ospf!Applied(rdb', daemon'.sent) \subseteq daemon'.lsdb \cup missed'
    BY <1>1, <2>1, <2>3, LostOnTheWay DEF OspfInv, Ospf!NothingLeftOver
  <2>5. QED BY <1>1, <2>1, <2>2, <2>3, <2>4 DEF OspfInv, Ospf!NothingLeftOver
<1>4. CASE client.writer = "ready" /\ ~fails
  <2>1. /\ missed' = missed /\ rdb' = rdb
        /\ client' = [client EXCEPT !.queue = @ - 1,
                        !.writer = IF client.queue > 1 THEN "writes" ELSE "none"]
        /\ daemon' = [daemon EXCEPT !.asked = IF daemon.conn THEN @ + 1 ELSE @]
    BY <1>4 DEF Ospf!RunWriter
  <2>2. QED BY <1>1, <2>1, OspfQuiet
<1>5. QED BY <1>2, <1>3, <1>4

LEMMA OspfSelects == OspfInv /\ (Ospf!Select \/ Ospf!ConnectCmd) => OspfInv'
<1> SUFFICES ASSUME OspfInv, Ospf!Select \/ Ospf!ConnectCmd PROVE OspfInv'
  OBVIOUS
<1>1. /\ OspfClient(client) /\ OspfDaemon(daemon)
      /\ ~client.fd => client.reader = "null"
      /\ ~daemon.conn => daemon.asked = 0
      /\ daemon' = daemon /\ rdb' = rdb /\ missed' = missed
  BY DEF OspfInv, Ospf!Select, Ospf!ConnectCmd
<1>2. CASE Ospf!Select
  <2>1. /\ OspfClient(client') /\ client'.fd = client.fd
        /\ client'.reader = IF Ospf!Readable THEN "ready" ELSE client.reader
    BY <1>1, <1>2 DEF Ospf!Select, OspfClient
  <2>2. QED BY <1>1, <2>1, OspfQuiet DEF Ospf!Readable
<1>3. CASE Ospf!ConnectCmd
  <2>1. /\ OspfClient(client') /\ client'.fd = client.fd /\ client'.reader = client.reader
    BY <1>1, <1>3 DEF Ospf!ConnectCmd, OspfClient
  <2>2. QED BY <1>1, <2>1, OspfQuiet
<1>4. QED BY <1>2, <1>3

(* A finite set in some order.                                             *)
LEMMA InOrderOf ==
  ASSUME NEW S, IsFiniteSet(S)
  PROVE  Ospf!SetToSeq(S) \in Seq(S)
<1>1. Cardinality(S) \in Nat /\ ExistsBijection(1 .. Cardinality(S), S)
  BY FS_CardinalityType
<1>2. PICK f \in [1 .. Cardinality(S) -> S] : Ospf!IsInjective(f)
  BY <1>1 DEF ExistsBijection, Bijection, Injection, IsInjective, Ospf!IsInjective
<1>3. Ospf!SetToSeq(S) \in [1 .. Cardinality(S) -> S]
  <2>1. Ospf!Cardinality(S) = Cardinality(S) BY DEF Ospf!Cardinality, Cardinality
  <2>2. QED BY <1>2, <2>1 DEF Ospf!SetToSeq
<1>4. QED BY <1>1, <1>3

LEMMA UpdatesOf ==
  ASSUME NEW D, D \subseteq OspfLsas
  PROVE  /\ Ospf!Updates(D) \in Seq(Notices)
         /\ \A i \in 1 .. Len(Ospf!Updates(D)) : Ospf!Updates(D)[i].lsa \in D
<1>1. PICK S : S = Ospf!SetToSeq(D) OBVIOUS
<1>2. S \in Seq(D) BY <1>1, OspfAssumption, FS_Subset, InOrderOf
<1>3. /\ Len(S) \in Nat /\ DOMAIN S = 1 .. Len(S)
      /\ \A i \in 1 .. Len(S) : S[i] \in D /\ S[i] \in OspfLsas
  BY <1>2
<1>4. \A i \in 1 .. Len(S) : /\ Ospf!Notice("update", S[i]) \in Notices
                             /\ Ospf!Notice("update", S[i]).lsa = S[i]
  BY <1>3 DEF Ospf!Notice, Notices
<1>5. PICK s : s = [i \in DOMAIN S |-> Ospf!Notice("update", S[i])] OBVIOUS
<1>6. s \in [1 .. Len(S) -> Notices] BY <1>3, <1>4, <1>5
<1>7. s \in Seq(Notices) /\ Len(s) = Len(S) BY <1>3, <1>6
<1>8. Ospf!Updates(D) = s BY <1>1, <1>5 DEF Ospf!Updates
<1>9. QED BY <1>3, <1>4, <1>5, <1>7, <1>8

LEMMA OspfAnswers == OspfInv /\ Ospf!Answer => OspfInv'
<1> SUFFICES ASSUME OspfInv, Ospf!Answer PROVE OspfInv'
  OBVIOUS
<1>1. /\ OspfClient(client) /\ OspfDaemon(daemon) /\ rdb \in SUBSET OspfLsas
      /\ daemon.asked > 0 /\ daemon.conn
      /\ client' = client /\ rdb' = rdb /\ missed' = missed
  BY DEF OspfInv, OspfDaemon, Ospf!Answer
<1>2. PICK new : new = Ospf!Updates(daemon.lsdb) OBVIOUS
<1>3. /\ new \in Seq(Notices)
      /\ \A i \in 1 .. Len(new) : new[i].lsa \in daemon.lsdb
  <2>1. daemon.lsdb \subseteq OspfLsas BY <1>1 DEF OspfDaemon
  <2>2. QED BY <1>2, <2>1, UpdatesOf
<1>4. daemon' = [daemon EXCEPT !.asked = @ - 1, !.sent = @ \o new]
  BY <1>2 DEF Ospf!Answer
<1>6. /\ OspfDaemon(daemon') /\ daemon'.conn = daemon.conn /\ daemon'.lsdb = daemon.lsdb
      /\ daemon'.sent = daemon.sent \o new
  <2>1. daemon.sent \o new \in Seq(Notices) BY <1>1, <1>3 DEF OspfDaemon
  <2>2. daemon.asked - 1 \in Nat BY <1>1 DEF OspfDaemon
  <2>3. PICK n \in Nat : daemon' = [daemon EXCEPT !.asked = n, !.sent = daemon.sent \o new]
    BY <1>4, <2>2
  <2>4. QED BY <1>1, <2>1, <2>3 DEF OspfDaemon
<1>7. Ospf!Applied(rdb, daemon'.sent) \subseteq daemon.lsdb \cup missed
  <2>1. Ospf!Applied(rdb, daemon.sent) \subseteq daemon.lsdb \cup missed
    BY DEF OspfInv, Ospf!NothingLeftOver
  <2>2. daemon.sent \in Seq(Notices) BY <1>1 DEF OspfDaemon
  <2>3. Ospf!Applied(rdb, daemon.sent \o new) \subseteq
          Ospf!Applied(rdb, daemon.sent) \cup {new[i].lsa : i \in {j \in 1 .. Len(new) : new[j].act = "update"}}
    BY <1>1, <1>3, <2>2, Announced
  <2>4. QED BY <1>3, <1>6, <2>1, <2>3
<1>8. daemon.sent # <<>> => daemon'.sent # <<>>
  <2>1. daemon.sent \in Seq(Notices) BY <1>1 DEF OspfDaemon
  <2>2. QED BY <1>3, <1>6, <2>1
<1>9. client.fd /\ (client.reader = "ready" => daemon.sent # <<>>) BY <1>1 DEF OspfInv
<1>10. QED BY <1>1, <1>6, <1>7, <1>8, <1>9 DEF OspfInv, Ospf!NothingLeftOver

LEMMA OspfTells == ASSUME NEW l \in OspfLsas, OspfInv, Ospf!Change(l) PROVE OspfInv'
<1>1. /\ OspfClient(client) /\ OspfDaemon(daemon) /\ rdb \in SUBSET OspfLsas
      /\ ~daemon.conn => daemon.asked = 0
      /\ client' = client /\ rdb' = rdb
  BY DEF OspfInv, Ospf!Change
<1> DEFINE add == l \notin daemon.lsdb
           new == <<Ospf!Notice(IF add THEN "update" ELSE "delete", l)>>
<1>2. /\ OspfDaemon(daemon') /\ daemon'.conn = daemon.conn /\ daemon'.asked = daemon.asked
      /\ daemon'.lsdb = IF add THEN daemon.lsdb \cup {l} ELSE daemon.lsdb \ {l}
      /\ daemon'.sent = IF daemon.conn THEN daemon.sent \o new ELSE daemon.sent
  <2>1. PICK d : /\ d = [daemon EXCEPT !.changes = @ + 1,
                           !.lsdb = IF add THEN @ \cup {l} ELSE @ \ {l}]
                 /\ daemon' = Ospf!Told(d, IF add THEN "update" ELSE "delete", l)
    BY DEF Ospf!Change
  <2>2. /\ OspfDaemon(d) /\ d.conn = daemon.conn /\ d.asked = daemon.asked /\ d.sent = daemon.sent
        /\ d.lsdb = IF add THEN daemon.lsdb \cup {l} ELSE daemon.lsdb \ {l}
    BY <1>1, <2>1 DEF OspfDaemon
  <2>3. CASE ~daemon.conn BY <2>1, <2>2, <2>3 DEF Ospf!Told
  <2>4. CASE daemon.conn
    <3>1. daemon' = [d EXCEPT !.sent = Append(@, Ospf!Notice(IF add THEN "update" ELSE "delete", l))]
      BY <2>1, <2>2, <2>4 DEF Ospf!Told
    <3>2. Ospf!Notice(IF add THEN "update" ELSE "delete", l) \in Notices
      BY DEF Ospf!Notice, Notices
    <3>3. /\ daemon.sent \in Seq(Notices)
          /\ Append(daemon.sent, Ospf!Notice(IF add THEN "update" ELSE "delete", l)) = daemon.sent \o new
          /\ daemon.sent \o new \in Seq(Notices)
      BY <1>1, <3>2 DEF OspfDaemon
    <3>4. QED BY <2>2, <2>4, <3>1, <3>3 DEF OspfDaemon
  <2>5. QED BY <2>3, <2>4
<1>3. missed' = IF add THEN missed \ {l} ELSE IF daemon.conn THEN missed ELSE missed \cup {l}
  BY DEF Ospf!Change
<1>4. Ospf!Applied(rdb, daemon'.sent) \subseteq daemon'.lsdb \cup missed'
  <2>1. Ospf!Applied(rdb, daemon.sent) \subseteq daemon.lsdb \cup missed
    BY DEF OspfInv, Ospf!NothingLeftOver
  <2>2. CASE ~daemon.conn BY <1>2, <1>3, <2>1, <2>2
  <2>3. CASE daemon.conn
    <3>1. /\ daemon.sent \in Seq(Notices) /\ new \in Seq(Notices) /\ Len(new) = 1
          /\ new[1] = Ospf!Notice(IF add THEN "update" ELSE "delete", l)
      BY <1>1 DEF OspfDaemon, Notices, Ospf!Notice
    <3>2. /\ \A i \in 1 .. Len(new) : i = 1
          /\ new[1].lsa = l /\ new[1].act = IF add THEN "update" ELSE "delete"
      BY <3>1 DEF Ospf!Notice
    <3> HIDE DEF new
    <3>3. Ospf!Applied(rdb, daemon.sent \o new) \subseteq
            Ospf!Applied(rdb, daemon.sent) \cup {new[i].lsa : i \in {j \in 1 .. Len(new) : new[j].act = "update"}}
      BY <1>1, <3>1, Announced
    <3>4. CASE add BY <1>2, <1>3, <2>1, <2>3, <3>2, <3>3, <3>4
    <3>5. CASE ~add
      <4>1. new[Len(new)] = Ospf!Notice("delete", l) BY <3>1, <3>5
      <4>2. l \notin Ospf!Applied(rdb, daemon.sent \o new)
        <5>1. Len(new) > 0 BY <3>1
        <5>2. QED BY <1>1, <3>1, <4>1, <5>1, Announced, Zenon
      <4>3. Ospf!Applied(rdb, daemon.sent \o new) \subseteq Ospf!Applied(rdb, daemon.sent)
        BY <3>2, <3>3, <3>5
      <4>4. QED BY <1>2, <1>3, <2>1, <2>3, <3>5, <4>2, <4>3
    <3>6. QED BY <3>4, <3>5
  <2>4. QED BY <2>2, <2>3
<1>5. client.reader = "ready" /\ daemon.conn => daemon'.sent # <<>>
  <2>1. daemon.sent \in Seq(Notices) BY <1>1 DEF OspfDaemon
  <2>2. daemon.sent \o new # <<>> BY <2>1
  <2>3. QED BY <1>2, <2>2
<1>6. ~client.fd => client.reader = "null" /\ ~daemon.conn /\ daemon.sent = <<>>
  BY DEF OspfInv
<1>7. QED BY <1>1, <1>2, <1>4, <1>5, <1>6 DEF OspfInv, Ospf!NothingLeftOver

LEMMA OspfBreaks == ASSUME NEW lost \in BOOLEAN, OspfInv, Ospf!Stop(lost) PROVE OspfInv'
<1>1. /\ OspfClient(client) /\ OspfDaemon(daemon) /\ rdb \in SUBSET OspfLsas
      /\ client' = client /\ rdb' = rdb
      /\ missed' = missed \cup daemon.lsdb \cup (IF lost THEN Ospf!Under(daemon) ELSE {})
  BY DEF OspfInv, Ospf!Stop
<1>2. /\ OspfDaemon(daemon') /\ ~daemon'.conn /\ daemon'.asked = 0 /\ daemon'.lsdb = {}
      /\ daemon'.sent = IF lost THEN <<>> ELSE daemon.sent
  <2>1. daemon' = [daemon EXCEPT !.up = FALSE, !.conn = FALSE, !.asked = 0, !.stops = @ + 1,
                  !.lsdb = {}, !.sent = IF lost THEN <<>> ELSE @]
    BY DEF Ospf!Stop
  <2>2. (IF lost THEN <<>> ELSE daemon.sent) \in Seq(Notices) BY <1>1 DEF OspfDaemon
  <2>3. QED BY <1>1, <2>1, <2>2 DEF OspfDaemon
<1>3. Ospf!Applied(rdb, daemon'.sent) \subseteq missed'
  <2>1. Ospf!Applied(rdb, daemon.sent) \subseteq daemon.lsdb \cup missed
    BY DEF OspfInv, Ospf!NothingLeftOver
  <2>2. QED BY <1>1, <1>2, <2>1, LostOnTheWay
<1>4. ~client.fd => client.reader = "null" /\ ~daemon.conn /\ daemon.sent = <<>>
  BY DEF OspfInv
<1>5. QED BY <1>1, <1>2, <1>3, <1>4 DEF OspfInv, Ospf!NothingLeftOver

LEMMA OspfStarts == OspfInv /\ Ospf!Start => OspfInv'
<1> SUFFICES ASSUME OspfInv, Ospf!Start PROVE OspfInv'
  OBVIOUS
<1>1. /\ OspfDaemon(daemon') /\ daemon'.conn = daemon.conn /\ daemon'.sent = daemon.sent
      /\ daemon'.lsdb = daemon.lsdb /\ daemon'.asked = daemon.asked
  BY DEF OspfInv, Ospf!Start, OspfDaemon
<1>2. UNCHANGED <<client, rdb, missed>> BY DEF Ospf!Start
<1>3. QED BY <1>1, <1>2 DEF OspfInv, Ospf!NothingLeftOver

LEMMA OspfStep == OspfInv /\ Ospf!Next => OspfInv'
<1> SUFFICES ASSUME OspfInv, Ospf!Next PROVE OspfInv'
  OBVIOUS
<1>1. CASE Ospf!Sync BY <1>1, OspfSyncs
<1>2. CASE Ospf!ConnectCmd \/ Ospf!Select BY <1>2, OspfSelects
<1>3. CASE Ospf!RunReader BY <1>3, OspfReads
<1>4. CASE \E fails \in BOOLEAN : Ospf!RunWriter(fails) BY <1>4, OspfWrites
<1>5. CASE Ospf!Answer BY <1>5, OspfAnswers
<1>6. CASE \E l \in OspfLsas : Ospf!Change(l) BY <1>6, OspfTells
<1>7. CASE \E lost \in BOOLEAN : Ospf!Stop(lost) BY <1>7, OspfBreaks
<1>8. CASE Ospf!Start BY <1>8, OspfStarts
<1>9. QED BY <1>1, <1>2, <1>3, <1>4, <1>5, <1>6, <1>7, <1>8 DEF Ospf!Next

LEMMA OspfBeginning == PartsInit => OspfInv
BY OspfBegins DEF PartsInit

LEMMA OspfInvariant == PartsSpec => []OspfInv
<1>1. OspfInv /\ [PartsNext]_partsVars => OspfInv'
  <2> SUFFICES ASSUME OspfInv, [PartsNext]_partsVars PROVE OspfInv'
    OBVIOUS
  <2>1. CASE Ospf!Next BY <2>1, OspfStep
  <2>2. CASE UNCHANGED ospfVars
    BY <2>2 DEF ospfVars, OspfInv, Ospf!NothingLeftOver
  <2>3. QED
    BY <2>1, <2>2 DEF PartsNext, OnlyRdb, OnlyTerce, OnlyTimers, partsVars
<1>2. QED BY <1>1, OspfBeginning, PTL DEF PartsSpec

(* The RCE keeps no LSA that was withdrawn while it was connected, however  *)
(* requests, notices, breaks and reconnections interleave (LSAHandler::Run, *)
(* ZebraOspfReader::Run, ZebraOspfSync::Run).                               *)
THEOREM NothingIsLeftOver == PartsSpec => []NothingLeftOver
<1>1. OspfInv => NothingLeftOver BY DEF OspfInv, NothingLeftOver
<1>2. QED BY <1>1, OspfInvariant, PTL

-----------------------------------------------------------------------------
(* The client of the TERCE.                                                 *)

TerceFields == {"who", "phase", "sync", "async", "reader", "writer", "ready", "broker", "orphan",
                "fds", "up", "mail", "held", "lsas", "off", "failed", "stops", "faults", "others",
                "changes"}
Kinds == {"free", "terce", "back", "gone", "other"}
Numbers(t) ==
  /\ TerceFields \subseteq DOMAIN t
  /\ t.fds \in [1 .. MaxFd -> Kinds]
  /\ {t.sync, t.async, t.writer, t.broker} \subseteq 0 .. MaxFd
  /\ t.reader \in [fd : 0 .. MaxFd, sync : 0 .. MaxFd, at : {"none", "reads", "ready"}]
  /\ t.ready \in BOOLEAN

(* The numbers that the client itself holds are those of its connection,    *)
(* and a number that its reader or its writer has kept is that of no other  *)
(* connection for requests; so a client is ready on one connection only.    *)
Attached(t) ==
  /\ Numbers(t)
  /\ t.sync # 0 => t.fds[t.sync] \in {"terce", "gone"}
  /\ \A n \in {t.async, t.reader.fd, t.broker} : n # 0 => t.fds[n] \in {"back", "gone"} /\ n # t.sync
  /\ \A n \in {t.writer, t.reader.sync} : n # 0 /\ t.fds[n] = "terce" => n = t.sync
  /\ t.reader.fd = 0 => t.reader = Terce!NoReader
  /\ t.ready => /\ t.sync # 0 /\ t.writer = t.sync /\ t.reader.sync = t.sync
                /\ t.reader.fd # 0

Same(t, u) ==
  /\ u.sync = t.sync /\ u.async = t.async /\ u.reader = t.reader /\ u.writer = t.writer
  /\ u.ready = t.ready /\ u.broker = t.broker /\ u.fds = t.fds

LEMMA StaysAttached ==
  ASSUME NEW t, Attached(t), NEW u, TerceFields \subseteq DOMAIN u, Same(t, u)
  PROVE  Attached(u)
BY DEF Attached, Numbers, Same

LEMMA DeadAttached ==
  ASSUME NEW t, Attached(t)
  PROVE  Attached(Terce!Dead(t))
<1>1. PICK u : u = Terce!Dead(t) OBVIOUS
<1>2. /\ TerceFields \subseteq DOMAIN u /\ u.sync = t.sync /\ u.async = t.async
      /\ u.reader = t.reader /\ u.writer = t.writer /\ u.ready = t.ready /\ u.broker = t.broker
      /\ u.fds = [n \in 1 .. MaxFd |-> IF t.fds[n] \in {"terce", "back"} THEN "gone" ELSE t.fds[n]]
  BY <1>1 DEF Terce!Dead, Attached, Numbers, TerceFields
<1>3. Numbers(u)
  <2>1. t.fds \in [1 .. MaxFd -> Kinds] BY DEF Attached, Numbers
  <2>2. u.fds \in [1 .. MaxFd -> Kinds]
    <3>1. ASSUME NEW n \in 1 .. MaxFd
          PROVE  (IF t.fds[n] \in {"terce", "back"} THEN "gone" ELSE t.fds[n]) \in Kinds
      BY <2>1 DEF Kinds
    <3>2. QED BY <1>2, <3>1
  <2>3. {u.sync, u.async, u.writer, u.broker} \subseteq 0 .. MaxFd
    BY <1>2, SocketAssumption DEF Attached, Numbers
  <2>4. QED BY <1>2, <2>2, <2>3 DEF Attached, Numbers
<1>4. QED BY <1>1, <1>2, <1>3 DEF Attached, Numbers

LEMMA StopAttached ==
  ASSUME NEW t, Attached(t)
  PROVE  Attached(Terce!Stop(t)) /\ ~Terce!Stop(t).ready
<1>1. PICK u : u = Terce!Stop(t) OBVIOUS
<1>2. /\ TerceFields \subseteq DOMAIN u /\ u.sync = 0 /\ u.async = 0
      /\ u.reader = Terce!NoReader /\ u.writer = 0 /\ u.ready = FALSE /\ u.broker = 0
      /\ \E S : u.fds = [n \in 1 .. MaxFd |-> IF n \in S THEN "free" ELSE t.fds[n]]
  BY <1>1 DEF Terce!Stop, Terce!Closed, Terce!Shut, Attached, Numbers, TerceFields
<1>3. Numbers(u)
  <2>1. t.fds \in [1 .. MaxFd -> Kinds] BY DEF Attached, Numbers
  <2>2. u.fds \in [1 .. MaxFd -> Kinds] BY <1>2, <2>1 DEF Kinds
  <2>3. 0 \in 0 .. MaxFd BY SocketAssumption
  <2>4. u.reader \in [fd : 0 .. MaxFd, sync : 0 .. MaxFd, at : {"none", "reads", "ready"}]
    BY <1>2, <2>3 DEF Terce!NoReader
  <2>5. QED BY <1>2, <2>2, <2>3, <2>4 DEF Numbers
<1>4. QED BY <1>1, <1>2, <1>3 DEF Attached, Terce!NoReader

LEMMA NotAcceptedAttached ==
  ASSUME NEW t, Attached(t), ~t.ready
  PROVE  Attached(Terce!NotAccepted(t)) /\ ~Terce!NotAccepted(t).ready
<1>1. PICK u : u = Terce!NotAccepted(t) OBVIOUS
<1>2. /\ TerceFields \subseteq DOMAIN u /\ u.sync = 0 /\ u.async = 0
      /\ u.reader = t.reader /\ u.writer = t.writer /\ u.ready = FALSE /\ u.broker = t.broker
      /\ u.fds = [n \in 1 .. MaxFd |-> IF n \in {t.sync} THEN "free" ELSE t.fds[n]]
  BY <1>1 DEF Terce!NotAccepted, Terce!Shut, Attached, Numbers, TerceFields
<1>3. Numbers(u)
  <2>1. t.fds \in [1 .. MaxFd -> Kinds] BY DEF Attached, Numbers
  <2>2. u.fds \in [1 .. MaxFd -> Kinds] BY <1>2, <2>1 DEF Kinds
  <2>3. {u.sync, u.async, u.writer, u.broker} \subseteq 0 .. MaxFd
    BY <1>2, SocketAssumption DEF Attached, Numbers
  <2>4. QED BY <1>2, <2>2, <2>3 DEF Attached, Numbers
<1>4. QED BY <1>1, <1>2, <1>3 DEF Attached, Numbers

LEMMA Sockets == IsFiniteSet(1 .. MaxFd)
BY SocketAssumption, FS_Interval

(* A finite set of numbers has a least one.                                 *)
LEMMA LeastExists ==
  ASSUME NEW S, S \subseteq Nat, S # {}, IsFiniteSet(S)
  PROVE  \E x \in S : \A y \in S : x <= y
<1> DEFINE R == StrictSubsetOrdering(S)
           Below(x) == {y \in S : y < x}
           T == {Below(x) : x \in S}
<1>1. IsWellFoundedOn(R, FiniteSubsetsOf(S))
  BY FS_StrictSubsetOrderingWellFounded
<1>2. T # {} /\ \A X \in T : \E x \in S : X = Below(x)
  OBVIOUS
<1>3. \A x \in S : Below(x) \in FiniteSubsetsOf(S) /\ Below(x) \in T
  BY FS_Subset DEF FiniteSubsetsOf
<1>4. ASSUME NEW x \in S, NEW y \in S, y < x PROVE <<Below(y), Below(x)>> \in R
  <2> HIDE DEF T
  <2>1. x \in Nat /\ y \in Nat
    OBVIOUS
  <2>2. \A z \in Nat : z < y => z < x
    BY <1>4, <2>1
  <2>3. Below(y) \subseteq Below(x)
    BY <2>2
  <2>4. y \in Below(x) /\ y \notin Below(y)
    BY <1>4, <2>1
  <2> QED BY <2>3, <2>4 DEF StrictSubsetOrdering
<1> HIDE DEF T, R, Below
<1>5. PICK X \in T : \A Y \in T : ~(<<Y, X>> \in R)
  <2>1. T \subseteq FiniteSubsetsOf(S) /\ T # {}
    BY <1>2, <1>3
  <2> QED BY <1>1, <2>1, WFMin
<1>6. PICK x \in S : X = Below(x)
  BY <1>2
<1>7. \A y \in S : ~(y < x)
  BY <1>3, <1>4, <1>5, <1>6
<1> QED BY <1>7

(* A new socket has a number that is free.                                  *)
LEMMA LeastNumber ==
  ASSUME NEW S, S \subseteq 1 .. MaxFd, S # {}
  PROVE  Terce!Min(S) \in S
<1>1. S \subseteq Nat BY SocketAssumption
<1>2. IsFiniteSet(S) BY Sockets, FS_Subset
<1>3. QED BY <1>1, <1>2, LeastExists DEF Terce!Min

(* So many sockets are free.                                                *)
Two(t)   == \E a, b \in Terce!Free(t) : a # b
Three(t) == \E a, b, c \in Terce!Free(t) : a # b /\ a # c /\ b # c

LEMMA RoomForThree ==
  ASSUME NEW t, Terce!Room(t)
  PROVE  Three(t)
<1>1. PICK F : F = Terce!Free(t) OBVIOUS
<1>2. F \subseteq 1 .. MaxFd /\ IsFiniteSet(F)
  <2>1. F \subseteq 1 .. MaxFd BY <1>1 DEF Terce!Free
  <2>2. QED BY <2>1, Sockets, FS_Subset
<1>3. Cardinality(F) >= 3 /\ Cardinality(F) \in Nat
  BY <1>1, <1>2, FS_CardinalityType DEF Terce!Room, Terce!Cardinality, Cardinality
<1>4. Cardinality({}) = 0 BY FS_EmptySet
<1>5. PICK a \in F : TRUE BY <1>3, <1>4
<1>6. IsFiniteSet(F \ {a}) /\ Cardinality(F \ {a}) = Cardinality(F) - 1
  BY <1>2, <1>5, FS_RemoveElement
<1>7. PICK b \in F \ {a} : TRUE
  <2>1. Cardinality(F \ {a}) # 0 BY <1>3, <1>6
  <2>2. F \ {a} # {} BY <1>4, <2>1
  <2>3. QED BY <2>2
<1>8. Cardinality((F \ {a}) \ {b}) = Cardinality(F) - 2
  BY <1>3, <1>6, <1>7, FS_RemoveElement
<1>9. PICK c \in (F \ {a}) \ {b} : TRUE BY <1>3, <1>4, <1>8
<1>10. QED BY <1>1, <1>5, <1>7, <1>9 DEF Three

LEMMA ConnectAttached ==
  ASSUME NEW t, NEW o, Attached(t), t.sync = 0, Three(t)
  PROVE  /\ Attached(Terce!Connect(t, o)) /\ Two(Terce!Connect(t, o))
         /\ ~Terce!Connect(t, o).ready
<1> DEFINE n == Terce!Min(Terce!Free(t))
           u == [t EXCEPT !.sync = n, !.fds[n] = "terce"]
<1>1. n \in Terce!Free(t) /\ n \in 1 .. MaxFd /\ t.fds[n] = "free"
  BY LeastNumber DEF Three, Terce!Free
<1> HIDE DEF n
<1>2. /\ TerceFields \subseteq DOMAIN u /\ u.sync = n /\ u.async = t.async
      /\ u.reader = t.reader /\ u.writer = t.writer /\ u.ready = t.ready /\ u.broker = t.broker
      /\ u.fds = [t.fds EXCEPT ![n] = "terce"]
  BY <1>1 DEF Attached, Numbers, TerceFields
<1>3. ~t.ready BY DEF Attached
<1>4. CASE Terce!Connect(t, o) = t
  BY <1>3, <1>4 DEF Two, Three
<1>5. CASE Terce!Connect(t, o) = Terce!Fault(t)
  <2>1. PICK v : v = Terce!Fault(t) OBVIOUS
  <2>2. TerceFields \subseteq DOMAIN v /\ Same(t, v)
    BY <2>1 DEF Terce!Fault, Attached, Numbers, TerceFields, Same
  <2>3. Attached(v) BY <2>2, StaysAttached
  <2>4. QED BY <1>3, <1>5, <2>1, <2>2, <2>3 DEF Two, Three, Same, Terce!Free
<1>6. CASE Terce!Connect(t, o) = u
  <2> HIDE DEF u
  <2>1. Numbers(u)
    <3>1. t.fds \in [1 .. MaxFd -> Kinds] BY DEF Attached, Numbers
    <3>2. u.fds \in [1 .. MaxFd -> Kinds] BY <1>1, <1>2, <3>1 DEF Kinds
    <3>3. n \in 0 .. MaxFd BY <1>1, SocketAssumption
    <3>4. {u.sync, u.async, u.writer, u.broker} \subseteq 0 .. MaxFd
      BY <1>2, <3>3 DEF Attached, Numbers
    <3>5. QED BY <1>2, <3>2, <3>4 DEF Attached, Numbers
  <2>2. t.fds \in [1 .. MaxFd -> Kinds] BY DEF Attached, Numbers
  <2>3. \A m \in 1 .. MaxFd : m # n => u.fds[m] = t.fds[m] BY <1>1, <1>2, <2>2
  <2>4. u.fds[n] = "terce" BY <1>1, <1>2, <2>2
  <2>5. n # 0 BY <1>1
  <2>6. Attached(u)
    <3>1. \A m \in {u.async, u.reader.fd, u.broker} :
            m # 0 => u.fds[m] \in {"back", "gone"} /\ m # u.sync
      <4> SUFFICES ASSUME NEW m \in {t.async, t.reader.fd, t.broker}, m # 0
                   PROVE  u.fds[m] \in {"back", "gone"} /\ m # n
        BY <1>2
      <4>1. m \in 1 .. MaxFd BY SocketAssumption DEF Attached, Numbers
      <4>2. t.fds[m] \in {"back", "gone"} BY DEF Attached
      <4>3. QED BY <1>1, <2>3, <4>1, <4>2
    <3>2. \A m \in {u.writer, u.reader.sync} : m # 0 /\ u.fds[m] = "terce" => m = u.sync
      <4> SUFFICES ASSUME NEW m \in {t.writer, t.reader.sync}, m # 0, u.fds[m] = "terce"
                   PROVE  m = n
        BY <1>2
      <4>1. m \in 1 .. MaxFd BY SocketAssumption DEF Attached, Numbers
      <4>2. t.fds[m] # "terce" BY DEF Attached
      <4>3. QED BY <2>3, <4>1, <4>2
    <3>3. QED BY <1>2, <1>3, <2>1, <2>4, <3>1, <3>2 DEF Attached
  <2>7. Two(u)
    <3>1. PICK a, b, c \in Terce!Free(t) : a # b /\ a # c /\ b # c BY DEF Three
    <3>2. \A m \in Terce!Free(t) : m # n => m \in Terce!Free(u) BY <2>3 DEF Terce!Free
    <3>3. QED BY <3>1, <3>2 DEF Two
  <2>8. QED BY <1>2, <1>3, <1>6, <2>6, <2>7
<1>7. QED BY <1>4, <1>5, <1>6 DEF Terce!Connect, n

LEMMA AcceptedAttached ==
  ASSUME NEW t, Attached(t), t.sync # 0, ~t.ready, Two(t)
  PROVE  /\ Attached(Terce!Accepted(t)) /\ Terce!Accepted(t).async # 0
         /\ Terce!Accepted(t).sync = t.sync /\ Terce!Accepted(t).writer = t.writer
         /\ ~Terce!Accepted(t).ready
         /\ (t.fds[t.sync] = "terce" => Terce!Accepted(t).fds[t.sync] = "terce")
<1> DEFINE least == Terce!Min(Terce!Free(t))
           n == Terce!Min(Terce!Free(t) \ {least})
           u == [t EXCEPT !.async = n, !.fds[n] = "back"]
<1>1. n \in 1 .. MaxFd /\ t.fds[n] = "free"
  <2>1. Terce!Free(t) \ {least} # {} BY DEF Two
  <2>2. n \in Terce!Free(t) \ {least} BY <2>1, LeastNumber DEF Terce!Free
  <2>3. QED BY <2>2 DEF Terce!Free
<1>2. Terce!Accepted(t) = u BY DEF Terce!Accepted
<1> HIDE DEF n
<1>3. /\ TerceFields \subseteq DOMAIN u /\ u.sync = t.sync /\ u.async = n
      /\ u.reader = t.reader /\ u.writer = t.writer /\ u.ready = t.ready /\ u.broker = t.broker
      /\ u.fds = [t.fds EXCEPT ![n] = "back"]
  BY <1>1 DEF Attached, Numbers, TerceFields
<1> HIDE DEF u
<1>4. t.fds \in [1 .. MaxFd -> Kinds] BY DEF Attached, Numbers
<1>5. (\A m \in 1 .. MaxFd : m # n => u.fds[m] = t.fds[m]) /\ u.fds[n] = "back"
  BY <1>1, <1>3, <1>4
<1>6. Numbers(u)
  <2>1. u.fds \in [1 .. MaxFd -> Kinds] BY <1>1, <1>3, <1>4 DEF Kinds
  <2>2. n \in 0 .. MaxFd BY <1>1, SocketAssumption
  <2>3. {u.sync, u.async, u.writer, u.broker} \subseteq 0 .. MaxFd
    BY <1>3, <2>2 DEF Attached, Numbers
  <2>4. QED BY <1>3, <2>1, <2>3 DEF Attached, Numbers
<1>7. t.sync \in 1 .. MaxFd /\ t.fds[t.sync] \in {"terce", "gone"} /\ t.sync # n
  BY <1>1, SocketAssumption DEF Attached, Numbers
<1>8. \A m \in {u.reader.fd, u.broker} : m # 0 => u.fds[m] \in {"back", "gone"} /\ m # u.sync
  <2> SUFFICES ASSUME NEW m \in {t.reader.fd, t.broker}, m # 0
               PROVE  u.fds[m] \in {"back", "gone"} /\ m # t.sync
    BY <1>3
  <2>1. m \in 1 .. MaxFd BY SocketAssumption DEF Attached, Numbers
  <2>2. t.fds[m] \in {"back", "gone"} /\ m # t.sync BY DEF Attached
  <2>3. QED BY <1>1, <1>5, <2>1, <2>2
<1>9. \A m \in {u.writer, u.reader.sync} : m # 0 /\ u.fds[m] = "terce" => m = u.sync
  <2> SUFFICES ASSUME NEW m \in {t.writer, t.reader.sync}, m # 0, u.fds[m] = "terce"
               PROVE  m = t.sync
    BY <1>3
  <2>1. m \in 1 .. MaxFd BY SocketAssumption DEF Attached, Numbers
  <2>2. t.fds[m] = "terce" BY <1>5, <2>1
  <2>3. QED BY <2>2 DEF Attached
<1>10. Attached(u)
  BY <1>1, <1>3, <1>5, <1>6, <1>7, <1>8, <1>9 DEF Attached
<1>11. QED BY <1>1, <1>2, <1>3, <1>5, <1>7, <1>10

(* The client reads on the sockets that it has, and the answer to ACT_INIT  *)
(* makes it ready only if they are those of one connection.                 *)
LEMMA InitiatedAttached ==
  ASSUME NEW t, NEW o, Attached(t), t.sync # 0, t.async # 0, ~t.ready, t.writer = t.sync
  PROVE  Attached(Terce!Initiated(Terce!Read(t), o))
<1>1. PICK u : u = Terce!Read(t) OBVIOUS
<1>2. /\ Attached(u) /\ ~u.ready /\ u.sync = t.sync /\ u.writer = t.sync
      /\ u.reader.fd # 0
  <2>1. CASE t.reader # Terce!NoReader
    BY <1>1, <2>1 DEF Terce!Read, Attached
  <2>2. CASE t.reader = Terce!NoReader
    <3>1. u = [t EXCEPT !.reader = [fd |-> t.async, sync |-> t.sync, at |-> "reads"]]
      BY <1>1, <2>2 DEF Terce!Read
    <3>2. /\ TerceFields \subseteq DOMAIN u /\ u.sync = t.sync /\ u.async = t.async
          /\ u.writer = t.writer /\ u.ready = t.ready /\ u.broker = t.broker /\ u.fds = t.fds
          /\ u.reader = [fd |-> t.async, sync |-> t.sync, at |-> "reads"]
      BY <3>1 DEF Attached, Numbers, TerceFields
    <3>3. /\ u.reader.fd = t.async /\ u.reader.sync = t.sync
          /\ u.reader \in [fd : 0 .. MaxFd, sync : 0 .. MaxFd, at : {"none", "reads", "ready"}]
      BY <3>2 DEF Attached, Numbers
    <3>4. QED BY <3>2, <3>3 DEF Attached, Numbers
  <2>3. QED BY <2>1, <2>2
<1>3. CASE Terce!Kind(u, u.reader.sync) = "terce" /\ o.answer = "ACK"
  <2>1. PICK v : v = [u EXCEPT !.ready = TRUE] OBVIOUS
  <2>2. /\ TerceFields \subseteq DOMAIN v /\ v.sync = u.sync /\ v.async = u.async
        /\ v.reader = u.reader /\ v.writer = u.writer /\ v.ready = TRUE /\ v.broker = u.broker
        /\ v.fds = u.fds
    BY <1>2, <2>1 DEF Attached, Numbers, TerceFields
  <2>3. u.reader.sync = u.sync /\ u.sync # 0
    BY <1>2, <1>3 DEF Attached, Terce!Kind
  <2>4. Attached(v)
    <3>0. Numbers(u) BY <1>2 DEF Attached
    <3>1. Numbers(v)
      <4>1. TerceFields \subseteq DOMAIN v /\ v.fds \in [1 .. MaxFd -> Kinds]
        BY <2>2, <3>0 DEF Numbers
      <4>2. {v.sync, v.async, v.writer, v.broker} \subseteq 0 .. MaxFd
        BY <2>2, <3>0 DEF Numbers
      <4>3. v.reader \in [fd : 0 .. MaxFd, sync : 0 .. MaxFd, at : {"none", "reads", "ready"}]
        BY <2>2, <3>0 DEF Numbers
      <4>4. v.ready \in BOOLEAN BY <2>2
      <4>5. QED BY <4>1, <4>2, <4>3, <4>4 DEF Numbers
    <3>2. /\ v.sync # 0 => v.fds[v.sync] \in {"terce", "gone"}
          /\ \A n \in {v.async, v.reader.fd, v.broker} :
               n # 0 => v.fds[n] \in {"back", "gone"} /\ n # v.sync
      BY <1>2, <2>2 DEF Attached
    <3>3. \A n \in {v.writer, v.reader.sync} : n # 0 /\ v.fds[n] = "terce" => n = v.sync
      BY <1>2, <2>2 DEF Attached
    <3>4. /\ v.reader.fd = 0 => v.reader = Terce!NoReader
          /\ v.sync # 0 /\ v.writer = v.sync /\ v.reader.sync = v.sync /\ v.reader.fd # 0
      BY <1>2, <2>2, <2>3
    <3>5. QED BY <3>1, <3>2, <3>3, <3>4 DEF Attached
  <2>5. Terce!Initiated(u, o) = v BY <1>3, <2>1 DEF Terce!Initiated
  <2>6. QED BY <1>1, <2>4, <2>5
<1>4. CASE Terce!Kind(u, u.reader.sync) = "terce" /\ o.answer # "ACK"
  <2>1. PICK v : v = Terce!Fault(u) OBVIOUS
  <2>2. TerceFields \subseteq DOMAIN v /\ Same(u, v)
    BY <1>2, <2>1 DEF Terce!Fault, Attached, Numbers, TerceFields, Same
  <2>3. Terce!Initiated(u, o) = v BY <1>4, <2>1 DEF Terce!Initiated
  <2>4. QED BY <1>1, <1>2, <2>2, <2>3, StaysAttached
<1>5. CASE Terce!Kind(u, u.reader.sync) = "other"
  <2>1. PICK v : v = [u EXCEPT !.failed = TRUE] OBVIOUS
  <2>2. TerceFields \subseteq DOMAIN v /\ Same(u, v)
    BY <1>2, <2>1 DEF Attached, Numbers, TerceFields, Same
  <2>3. Terce!Initiated(u, o) = v BY <1>5, <2>1 DEF Terce!Initiated
  <2>4. QED BY <1>1, <1>2, <2>2, <2>3, StaysAttached
<1>6. CASE Terce!Kind(u, u.reader.sync) \notin {"terce", "other"}
  <2>1. Terce!Initiated(u, o) = Terce!Stop(u) BY <1>6 DEF Terce!Initiated
  <2>2. QED BY <1>1, <1>2, <2>1, StopAttached
<1>7. QED BY <1>3, <1>4, <1>5, <1>6

LEMMA FaultAttached ==
  ASSUME NEW t, Attached(t)
  PROVE  /\ Attached(Terce!Fault(t)) /\ Same(t, Terce!Fault(t))
         /\ Two(t) => Two(Terce!Fault(t))
<1>1. PICK v : v = Terce!Fault(t) OBVIOUS
<1>2. TerceFields \subseteq DOMAIN v /\ Same(t, v)
  BY <1>1 DEF Terce!Fault, Attached, Numbers, TerceFields, Same
<1>3. Attached(v) BY <1>2, StaysAttached
<1>4. Two(t) => Two(v) BY <1>2 DEF Two, Same, Terce!Free
<1>5. QED BY <1>1, <1>2, <1>3, <1>4

LEMMA InitAttached ==
  ASSUME NEW t, NEW o, Attached(t), t.sync # 0, ~t.ready, Two(t)
  PROVE  Attached(Terce!InitTerceComm(t, o))
<1> DEFINE Answer(a) == IF a.async = 0 THEN a ELSE Terce!Initiated(Terce!Read(a), o)
           to == Terce!Kind(t, t.writer)
<1>1. CASE Terce!InitTerceComm(t, o) = t BY <1>1
<1>2. CASE to = "terce" /\ Terce!InitTerceComm(t, o) = Answer(Terce!Accepted(t))
  <2>1. t.writer = t.sync /\ t.fds[t.sync] = "terce"
    BY <1>2 DEF Attached, Terce!Kind
  <2>2. /\ Attached(Terce!Accepted(t)) /\ Terce!Accepted(t).async # 0
        /\ Terce!Accepted(t).sync = t.sync /\ Terce!Accepted(t).writer = t.writer
        /\ ~Terce!Accepted(t).ready
    BY AcceptedAttached
  <2>3. Attached(Terce!Initiated(Terce!Read(Terce!Accepted(t)), o))
    BY <2>1, <2>2, InitiatedAttached
  <2>4. QED BY <1>2, <2>2, <2>3
<1>3. CASE Terce!InitTerceComm(t, o) = Terce!NotAccepted(t) BY <1>3, NotAcceptedAttached
<1>4. CASE Terce!InitTerceComm(t, o) = Terce!NotAccepted(Terce!Fault(t))
  BY <1>4, NotAcceptedAttached, FaultAttached DEF Same
<1>5. Terce!After(Terce!Accepted(t), Answer) = Answer(Terce!Accepted(t))
  BY DEF Terce!After
<1>6. \/ Terce!InitTerceComm(t, o) = t
      \/ to = "terce" /\ Terce!InitTerceComm(t, o) = Terce!After(Terce!Accepted(t), Answer)
      \/ Terce!InitTerceComm(t, o) = Terce!NotAccepted(t)
      \/ Terce!InitTerceComm(t, o) = Terce!NotAccepted(Terce!Fault(t))
  BY DEF Terce!InitTerceComm
<1>7. QED BY <1>1, <1>2, <1>3, <1>4, <1>5, <1>6

LEMMA RunAttached ==
  ASSUME NEW t, NEW o, Attached(t), Three(t)
  PROVE  Attached(Terce!RunWithoutSyncTopology(t, o))
<1> DEFINE Wires(c) ==
             IF c.sync = 0 THEN c
             ELSE IF c.ready THEN c
             ELSE Terce!InitTerceComm(IF c.writer = 0 THEN [c EXCEPT !.writer = c.sync] ELSE c, o)
           s == IF t.sync # 0 THEN t ELSE Terce!Connect(t, o)
<1>1. Attached(s) /\ Two(s)
  <2>1. Two(t) BY DEF Two, Three
  <2>2. QED BY <2>1, ConnectAttached
<1>2. Attached(Wires(s))
  <2>1. PICK c : c = s OBVIOUS
  <2>2. CASE c.sync # 0 /\ ~c.ready
    <3>1. PICK u : u = IF c.writer = 0 THEN [c EXCEPT !.writer = c.sync] ELSE c OBVIOUS
    <3>2. Attached(u) /\ u.sync = c.sync /\ ~u.ready /\ Two(u)
      <4>1. CASE c.writer # 0 BY <1>1, <2>1, <2>2, <3>1, <4>1
      <4>2. CASE c.writer = 0
        <5>1. /\ TerceFields \subseteq DOMAIN u /\ u.sync = c.sync /\ u.async = c.async
              /\ u.reader = c.reader /\ u.writer = c.sync /\ u.ready = c.ready
              /\ u.broker = c.broker /\ u.fds = c.fds
          BY <1>1, <2>1, <3>1, <4>2 DEF Attached, Numbers, TerceFields
        <5>2. Attached(u) BY <1>1, <2>1, <2>2, <5>1 DEF Attached, Numbers
        <5>3. Two(u) BY <1>1, <2>1, <5>1 DEF Two, Terce!Free
        <5>4. QED BY <2>2, <5>1, <5>2, <5>3
      <4>3. QED BY <4>1, <4>2
    <3>3. Attached(Terce!InitTerceComm(u, o)) BY <2>2, <3>2, InitAttached
    <3>4. QED BY <2>1, <2>2, <3>1, <3>3
  <2>3. CASE ~(c.sync # 0 /\ ~c.ready) BY <1>1, <2>1, <2>3
  <2>4. QED BY <2>2, <2>3
<1>3. Terce!After(s, Wires) = Wires(s)
  BY DEF Terce!After
<1>4. \/ Terce!RunWithoutSyncTopology(t, o) = t
      \/ Terce!RunWithoutSyncTopology(t, o) = Terce!After(s, Wires)
  BY DEF Terce!RunWithoutSyncTopology
<1>5. QED BY <1>2, <1>3, <1>4

(* Requests, whether or not they succeed, leave a client attached.          *)
LEMMA BrokenAttached ==
  ASSUME NEW t, NEW how, Attached(t)
  PROVE  Attached(Terce!Broken(t, how))
<1>1. PICK d : d = IF Terce!Kind(t, t.writer) = "gone" THEN t ELSE Terce!Dead(t) OBVIOUS
<1>2. Attached(d) BY <1>1, DeadAttached
<1>3. \/ Terce!Broken(t, how) = Terce!Stop(d)
      \/ Terce!Broken(t, how) = d
      \/ Terce!Broken(t, how) = Terce!Fault(t)
  <2> DEFINE e == IF Terce!Kind(t, t.writer) = "gone" THEN t ELSE Terce!Dead(t)
  <2>1. Terce!Broken(t, how) = IF how = "read" THEN Terce!Stop(e)
                               ELSE IF how = "write" THEN e ELSE Terce!Fault(t)
    BY DEF Terce!Broken
  <2>2. d = e BY <1>1
  <2> HIDE DEF e
  <2>3. QED BY <2>1, <2>2
<1>4. QED BY <1>2, <1>3, StopAttached, FaultAttached

LEMMA HeldAttached ==
  ASSUME NEW t, NEW S, Attached(t)
  PROVE  Attached(Terce!OriginateLsa(t, S)) /\ Attached(Terce!DeleteLsa(t, S))
<1>1. ASSUME NEW H PROVE Attached([t EXCEPT !.held = H])
  <2>1. PICK u : u = [t EXCEPT !.held = H] OBVIOUS
  <2>2. TerceFields \subseteq DOMAIN u /\ Same(t, u)
    BY <2>1 DEF Attached, Numbers, TerceFields, Same
  <2>3. QED BY <2>1, <2>2, StaysAttached
<1>2. QED BY <1>1 DEF Terce!OriginateLsa, Terce!DeleteLsa

LEMMA DeleteAttached ==
  ASSUME NEW t, NEW s, NEW k, NEW how, Attached(t)
  PROVE  Attached(Terce!DeleteTopology(t, s, k, how))
<1>1. PICK S : \/ Terce!DeleteTopology(t, s, k, how) = Terce!DeleteLsa(t, S)
               \/ Terce!DeleteTopology(t, s, k, how) = Terce!Broken(Terce!DeleteLsa(t, S), how)
  BY DEF Terce!DeleteTopology
<1>2. QED BY <1>1, HeldAttached, BrokenAttached

LEMMA OriginateAttached ==
  ASSUME NEW t, NEW s, NEW k, NEW how, Attached(t)
  PROVE  Attached(Terce!OriginateTopology(t, s, k, how))
<1>1. PICK v : v = [t EXCEPT !.failed = @ \/ t.who = "narb"] OBVIOUS
<1>2. TerceFields \subseteq DOMAIN v /\ Same(t, v)
  BY <1>1 DEF Attached, Numbers, TerceFields, Same
<1>3. Attached(v) BY <1>2, StaysAttached
<1>4. PICK S : \/ Terce!OriginateTopology(t, s, k, how) = v
               \/ Terce!OriginateTopology(t, s, k, how) = Terce!OriginateLsa(t, S)
               \/ Terce!OriginateTopology(t, s, k, how) = Terce!Broken(Terce!OriginateLsa(t, S), how)
  BY <1>1 DEF Terce!OriginateTopology
<1>5. QED BY <1>3, <1>4, HeldAttached, BrokenAttached

LEMMA RefreshedAttached ==
  ASSUME NEW t, NEW o, Attached(t), Three(t)
  PROVE  Attached(Terce!Refreshed(t, o))
<1> DEFINE n == Terce!Cardinality(t.lsas)
           Sends(d) == Terce!OriginateTopology(d, Terce!Originated(d), o.requests - n, o.how)
           Finishes(d)  == Terce!OriginateTopology(d, Terce!Originated(d),
                                               Len(Terce!Originated(d)), "write")
           Renews(r) == IF ~r.ready \/ r.failed THEN r
                   ELSE IF o.requests < n
                   THEN Terce!After(Terce!DeleteTopology(r, Terce!Topology(r), o.requests, o.how),
                              LAMBDA d : Terce!OriginateTopology(d, Terce!Originated(d),
                                            Len(Terce!Originated(d)), "write"))
                   ELSE Terce!After(Terce!DeleteTopology(r, Terce!Topology(r), n, o.how), Sends)
           s == IF t.ready THEN t ELSE Terce!RunWithoutSyncTopology(t, o)
<1>1. Attached(s) BY RunAttached
<1>2. ASSUME NEW r, Attached(r) PROVE Attached(Renews(r))
  <2>1. ASSUME NEW d
        PROVE  /\ Terce!After(d, Sends) = Sends(d)
               /\ Terce!After(d, LAMBDA e : Terce!OriginateTopology(e, Terce!Originated(e),
                                               Len(Terce!Originated(e)), "write")) = Finishes(d)
    BY DEF Terce!After
  <2>2. ASSUME NEW d, Attached(d) PROVE Attached(Sends(d)) /\ Attached(Finishes(d))
    BY <2>2, OriginateAttached
  <2>3. ASSUME NEW k PROVE Attached(Terce!DeleteTopology(r, Terce!Topology(r), k, o.how))
    BY <1>2, DeleteAttached
  <2> HIDE DEF Sends, Finishes, n
  <2>4. QED BY <1>2, <2>1, <2>2, <2>3
<1>3. Terce!After(s, Renews) = Renews(s)
  BY DEF Terce!After
<1>4. \/ Terce!Refreshed(t, o) = t
      \/ Terce!Refreshed(t, o) = Terce!After(s, Renews)
  BY DEF Terce!Refreshed
<1>5. QED BY <1>1, <1>2, <1>3, <1>4

-----------------------------------------------------------------------------
(* The steps of the client of the TERCE, and of those around it.            *)

LEMMA TerceBegins == Terce!Init \/ terce = Terce!Off => Attached(terce)
<1> SUFFICES ASSUME Terce!Init \/ terce = Terce!Off PROVE Attached(terce)
  OBVIOUS
<1>1. ASSUME NEW who PROVE Attached(Terce!Fresh(who)) /\ TerceFields \subseteq DOMAIN Terce!Fresh(who)
  <2>1. PICK u : u = Terce!Fresh(who) OBVIOUS
  <2>2. /\ TerceFields \subseteq DOMAIN u /\ u.sync = 0 /\ u.async = 0
        /\ u.reader = Terce!NoReader /\ u.writer = 0 /\ u.ready = FALSE /\ u.broker = 0
        /\ u.fds = [n \in 1 .. MaxFd |-> "free"]
    BY <2>1 DEF Terce!Fresh, TerceFields
  <2>3. u.fds \in [1 .. MaxFd -> Kinds] BY <2>2 DEF Kinds
  <2>4. 0 \in 0 .. MaxFd BY SocketAssumption
  <2>5. u.reader \in [fd : 0 .. MaxFd, sync : 0 .. MaxFd, at : {"none", "reads", "ready"}]
    BY <2>2, <2>4 DEF Terce!NoReader
  <2>6. Numbers(u) BY <2>2, <2>3, <2>4, <2>5 DEF Numbers
  <2>7. Attached(u) BY <2>2, <2>6 DEF Attached, Terce!NoReader
  <2>8. QED BY <2>1, <2>2, <2>7
<1>2. CASE Terce!Init BY <1>1, <1>2 DEF Terce!Init
<1>3. CASE terce = Terce!Off
  <2>1. PICK t : t = Terce!Fresh("rce") OBVIOUS
  <2>2. Attached(t) BY <1>1, <2>1
  <2>3. TerceFields \subseteq DOMAIN terce /\ Same(t, terce)
    BY <1>3, <2>1, <2>2 DEF Terce!Off, Attached, Numbers, TerceFields, Same
  <2>4. QED BY <2>2, <2>3, StaysAttached
<1>4. QED BY <1>2, <1>3

LEMMA BootAttached == ASSUME NEW o, Attached(terce), Terce!Boot(o) PROVE Attached(terce')
<1> DEFINE Then(r) == IF ~r.ready \/ r.failed THEN r
                      ELSE [Terce!OriginateTopology(r, Terce!Originated(r), o.requests, o.how)
                              EXCEPT !.phase = "loop"]
           r0 == Terce!RunWithoutSyncTopology(terce, o)
<1>1. Attached(r0) BY RoomForThree, RunAttached DEF Terce!Boot
<1>2. Attached(Then(r0))
  <2>1. PICK r : r = r0 OBVIOUS
  <2>2. PICK u : u = Terce!OriginateTopology(r, Terce!Originated(r), o.requests, o.how) OBVIOUS
  <2>3. Attached(u) BY <1>1, <2>1, <2>2, OriginateAttached
  <2>4. PICK v : v = [u EXCEPT !.phase = "loop"] OBVIOUS
  <2>5. TerceFields \subseteq DOMAIN v /\ Same(u, v)
    BY <2>3, <2>4 DEF Attached, Numbers, TerceFields, Same
  <2>6. Attached(v) BY <2>3, <2>5, StaysAttached
  <2>7. QED BY <1>1, <2>1, <2>2, <2>4, <2>6
<1>3. Terce!After(r0, Then) = Then(r0) BY DEF Terce!After
<1>4. terce' = Terce!After(r0, Then) BY DEF Terce!Boot, Terce!Boots
<1>5. QED BY <1>2, <1>3, <1>4

LEMMA PeriodAttached == ASSUME NEW o, Attached(terce), Terce!Period(o) PROVE Attached(terce')
BY RoomForThree, RefreshedAttached DEF Terce!Period

LEMMA SelectAttached == Attached(terce) /\ Terce!Select => Attached(terce')
<1> SUFFICES ASSUME Attached(terce), Terce!Select PROVE Attached(terce')
  OBVIOUS
<1>1. terce' = [terce EXCEPT !.reader.at = "ready"] /\ terce.reader.fd # 0
  BY DEF Terce!Select, Terce!Readable
<1>2. PICK t, u : t = terce /\ u = terce' OBVIOUS
<1>3. /\ TerceFields \subseteq DOMAIN u /\ u.sync = t.sync /\ u.async = t.async
      /\ u.reader = [t.reader EXCEPT !.at = "ready"] /\ u.writer = t.writer
      /\ u.ready = t.ready /\ u.broker = t.broker /\ u.fds = t.fds
  BY <1>1, <1>2 DEF Attached, Numbers, TerceFields
<1>4. /\ u.reader.fd = t.reader.fd /\ u.reader.sync = t.reader.sync
      /\ u.reader \in [fd : 0 .. MaxFd, sync : 0 .. MaxFd, at : {"none", "reads", "ready"}]
  BY <1>2, <1>3 DEF Attached, Numbers
<1>5. Attached(u) BY <1>1, <1>2, <1>3, <1>4 DEF Attached, Numbers
<1>6. QED BY <1>2, <1>5

LEMMA ReaderAttached == Attached(terce) /\ Terce!RunReader => Attached(terce')
<1> SUFFICES ASSUME Attached(terce), Terce!RunReader PROVE Attached(terce')
  OBVIOUS
<1>1. PICK t : t = terce OBVIOUS
<1>2. CASE terce.orphan
  <2>1. PICK u : u = [t EXCEPT !.failed = TRUE] OBVIOUS
  <2>2. TerceFields \subseteq DOMAIN u /\ Same(t, u)
    BY <1>1, <2>1 DEF Attached, Numbers, TerceFields, Same
  <2>3. Attached(u) BY <1>1, <2>2, StaysAttached
  <2>4. QED BY <1>1, <1>2, <2>1, <2>3 DEF Terce!RunReader
<1>3. CASE ~terce.orphan
  <2>1. PICK u : u = [t EXCEPT !.reader.at = "reads"] OBVIOUS
  <2>2. /\ TerceFields \subseteq DOMAIN u /\ u.sync = t.sync /\ u.async = t.async
        /\ u.reader = [t.reader EXCEPT !.at = "reads"] /\ u.writer = t.writer
        /\ u.ready = t.ready /\ u.broker = t.broker /\ u.fds = t.fds
    BY <1>1, <2>1 DEF Attached, Numbers, TerceFields
  <2>3. /\ u.reader.fd = t.reader.fd /\ u.reader.sync = t.reader.sync
        /\ u.reader \in [fd : 0 .. MaxFd, sync : 0 .. MaxFd, at : {"none", "reads", "ready"}]
    BY <1>1, <2>2 DEF Attached, Numbers
  <2>4. t.reader # Terce!NoReader
    BY <1>1, <1>3 DEF Terce!RunReader, Terce!NoReader
  <2>5. Attached(u) BY <1>1, <2>2, <2>3, <2>4 DEF Attached, Numbers
  <2>6. CASE terce' = Terce!HandleMessage(u)
    <3>1. PICK v : v = Terce!HandleMessage(u) OBVIOUS
    <3>2. /\ TerceFields \subseteq DOMAIN v /\ v.sync = u.sync /\ v.async = u.async
          /\ v.reader = u.reader /\ v.writer = u.writer
          /\ v.ready = u.ready /\ v.broker \in {u.broker, u.async} /\ v.fds = u.fds
      BY <2>5, <3>1 DEF Terce!HandleMessage, Attached, Numbers, TerceFields
    <3>3. Attached(v) BY <2>5, <3>2 DEF Attached, Numbers
    <3>4. QED BY <2>6, <3>1, <3>3
  <2>7. CASE terce' = Terce!Stop(u) BY <2>5, <2>7, StopAttached
  <2>8. QED BY <1>1, <1>3, <2>1, <2>6, <2>7 DEF Terce!RunReader
<1>4. QED BY <1>2, <1>3

(* What others do with their sockets does not touch those of the client.    *)
LEMMA OthersAttached ==
  ASSUME Attached(terce),
         Terce!OtherOpens \/ \E n \in 1 .. MaxFd : Terce!OtherCloses(n)
  PROVE  Attached(terce')
<1>1. PICK t, u : t = terce /\ u = terce' OBVIOUS
<1>2. PICK n \in 1 .. MaxFd, k \in {"free", "other"} :
        /\ t.fds[n] \in {"free", "other"} /\ u.fds = [t.fds EXCEPT ![n] = k]
        /\ TerceFields \subseteq DOMAIN u /\ u.sync = t.sync /\ u.async = t.async
        /\ u.reader = t.reader /\ u.writer = t.writer /\ u.ready = t.ready /\ u.broker = t.broker
  <2>1. CASE Terce!OtherOpens
    <3>1. PICK n : n = Terce!Min(Terce!Free(t)) OBVIOUS
    <3>2. n \in Terce!Free(t)
      <4>1. Three(t) BY <1>1, <2>1, RoomForThree DEF Terce!OtherOpens
      <4>2. QED BY <3>1, <4>1, LeastNumber DEF Three, Terce!Free
    <3>3. u = [t EXCEPT !.others = @ + 1, !.fds[n] = "other"]
      BY <1>1, <2>1, <3>1 DEF Terce!OtherOpens
    <3>4. n \in 1 .. MaxFd /\ t.fds[n] = "free" BY <3>2 DEF Terce!Free
    <3>5. QED BY <1>1, <3>3, <3>4 DEF Attached, Numbers, TerceFields
  <2>2. CASE \E n \in 1 .. MaxFd : Terce!OtherCloses(n)
    <3>1. PICK n \in 1 .. MaxFd : t.fds[n] = "other" /\ u = Terce!Shut(t, {n})
      BY <1>1, <2>2 DEF Terce!OtherCloses
    <3>2. /\ u.fds = [m \in 1 .. MaxFd |-> IF m \in {n} THEN "free" ELSE t.fds[m]]
          /\ TerceFields \subseteq DOMAIN u /\ u.sync = t.sync /\ u.async = t.async
          /\ u.reader = t.reader /\ u.writer = t.writer /\ u.ready = t.ready /\ u.broker = t.broker
      BY <1>1, <3>1 DEF Terce!Shut, Attached, Numbers, TerceFields
    <3>3. t.fds \in [1 .. MaxFd -> Kinds] BY <1>1 DEF Attached, Numbers
    <3>4. u.fds = [t.fds EXCEPT ![n] = "free"] BY <3>2, <3>3
    <3>5. QED BY <3>1, <3>2, <3>4
  <2>3. QED BY <2>1, <2>2
<1>3. t.fds \in [1 .. MaxFd -> Kinds] BY <1>1 DEF Attached, Numbers
<1>4. Numbers(u)
  <2>1. u.fds \in [1 .. MaxFd -> Kinds] BY <1>2, <1>3 DEF Kinds
  <2>2. QED BY <1>1, <1>2, <2>1 DEF Attached, Numbers
<1>5. \A m \in 1 .. MaxFd : t.fds[m] \in {"terce", "back", "gone"} \/ u.fds[m] = "terce"
        => u.fds[m] = t.fds[m]
  BY <1>2, <1>3
<1>6. \A m \in {t.sync, t.async, t.reader.fd, t.broker, t.writer, t.reader.sync} :
        m # 0 => m \in 1 .. MaxFd
  BY <1>1, SocketAssumption DEF Attached, Numbers
<1>7. Attached(u)
  <2>1. t.sync # 0 => u.fds[t.sync] \in {"terce", "gone"}
    BY <1>1, <1>5, <1>6 DEF Attached
  <2>2. \A m \in {t.async, t.reader.fd, t.broker} :
          m # 0 => u.fds[m] \in {"back", "gone"} /\ m # t.sync
    BY <1>1, <1>5, <1>6 DEF Attached
  <2>3. \A m \in {t.writer, t.reader.sync} : m # 0 /\ u.fds[m] = "terce" => m = t.sync
    BY <1>1, <1>5, <1>6 DEF Attached
  <2>4. QED BY <1>1, <1>2, <1>4, <2>1, <2>2, <2>3 DEF Attached
<1>8. QED BY <1>1, <1>7

LEMMA AroundAttached ==
  ASSUME Attached(terce),
         \/ Terce!TerceStop \/ Terce!TerceStart
         \/ \E m \in {"LSA", "MSG_APP_REQUEST"} : Terce!TerceTells(m)
         \/ (\E l \in TerceLsas : Terce!Change(l)) \/ Terce!SetTerceSync
  PROVE  Attached(terce')
<1>1. PICK t, u : t = terce /\ u = terce' OBVIOUS
<1>2. CASE Terce!TerceStop BY <1>2, DeadAttached DEF Terce!TerceStop
<1>3. CASE ~Terce!TerceStop
  <2>0. TerceFields \subseteq DOMAIN t BY <1>1 DEF Attached, Numbers
  <2>1. TerceFields \subseteq DOMAIN u /\ Same(t, u)
    <3>1. CASE Terce!TerceStart
      BY <1>1, <2>0, <3>1 DEF Terce!TerceStart, TerceFields, Same
    <3>2. CASE \E m \in {"LSA", "MSG_APP_REQUEST"} : Terce!TerceTells(m)
      BY <1>1, <2>0, <3>2 DEF Terce!TerceTells, TerceFields, Same
    <3>3. CASE \E l \in TerceLsas : Terce!Change(l)
      BY <1>1, <2>0, <3>3 DEF Terce!Change, TerceFields, Same
    <3>4. CASE Terce!SetTerceSync
      BY <1>1, <2>0, <3>4 DEF Terce!SetTerceSync, TerceFields, Same
    <3>5. QED BY <1>3, <3>1, <3>2, <3>3, <3>4
  <2>2. QED BY <1>1, <2>1, StaysAttached
<1>4. QED BY <1>2, <1>3

LEMMA TerceStep == Attached(terce) /\ Terce!Next => Attached(terce')
<1> SUFFICES ASSUME Attached(terce), Terce!Next PROVE Attached(terce')
  OBVIOUS
<1>1. CASE Terce!Main BY <1>1, BootAttached DEF Terce!Main
<1>2. CASE Terce!Timers BY <1>2, PeriodAttached DEF Terce!Timers
<1>3. CASE Terce!Select BY <1>3, SelectAttached
<1>4. CASE Terce!RunReader BY <1>4, ReaderAttached
<1>5. CASE Terce!OtherOpens \/ \E n \in 1 .. MaxFd : Terce!OtherCloses(n)
  BY <1>5, OthersAttached
<1>6. CASE \/ Terce!TerceStop \/ Terce!TerceStart
           \/ \E m \in {"LSA", "MSG_APP_REQUEST"} : Terce!TerceTells(m)
           \/ (\E l \in TerceLsas : Terce!Change(l)) \/ Terce!SetTerceSync
  BY <1>6, AroundAttached
<1>7. QED BY <1>1, <1>2, <1>3, <1>4, <1>5, <1>6 DEF Terce!Next

LEMMA TerceInvariant == PartsSpec => []Attached(terce)
<1>1. PartsInit => Attached(terce) BY TerceBegins DEF PartsInit
<1>2. Attached(terce) /\ [PartsNext]_partsVars => Attached(terce)'
  <2> SUFFICES ASSUME Attached(terce), [PartsNext]_partsVars PROVE Attached(terce)'
    OBVIOUS
  <2>1. CASE Terce!Next BY <2>1, TerceStep
  <2>2. CASE UNCHANGED terce BY <2>2
  <2>3. QED
    BY <2>1, <2>2 DEF PartsNext, OnlyRdb, OnlyOspf, OnlyTimers, partsVars
<1>3. QED BY <1>1, <1>2, PTL DEF PartsSpec

(* A client of a TERCE that is ready uses the two sockets of one connection *)
(* in all its objects, and its broker none of another client, though        *)
(* connections break, numbers are used again and objects keep old ones      *)
(* (TerceApiTopoSync::Stop, Accept, RunWithoutSyncTopology).                *)
THEOREM ClientIsWired == PartsSpec => []Wired
<1>1. Attached(terce) => Wired
  <2> SUFFICES ASSUME Attached(terce) PROVE Terce!Wired
    BY DEF Wired
  <2>1. QED BY DEF Attached, Terce!Wired, Terce!Kind
<1>2. QED BY <1>1, TerceInvariant, PTL

=============================================================================

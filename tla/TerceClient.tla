----------------------------- MODULE TerceClient -----------------------------
(***************************************************************************)
(* The client that NARB and the RCE have of a TERCE (terce_apiclient.cc of *)
(* both, the same class twice): a connection for requests and their        *)
(* answers, another one, opened by the TERCE, for what it tells of its     *)
(* own, and a timer that connects again when the connection has died and   *)
(* sends the topology, deleting it first.  What NARB sends is the subject  *)
(* of module DomainTopology; here its requests are those of the RCE.       *)
(*                                                                         *)
(* A socket is a number, and a new one has the lowest number that is free: *)
(* the reader and the writer have copies of the numbers.                   *)
(***************************************************************************)
EXTENDS Integers, Sequences, SequencesExt, FiniteSets, FiniteSetsExt

CONSTANTS
  Lsas,        (* router ids and TE links of the resource database         *)
  Jumps,       (* those that are jump links: they are not originated       *)
  MaxFd,       (* bound: socket numbers                                    *)
  MaxStops,    (* bound: how often the TERCE stops                         *)
  MaxFaults,   (* bound: failures of a TERCE that is up                    *)
  MaxOthers,   (* bound: sockets that others open (API and CLI clients)    *)
  MaxChanges   (* bound: changes of the database, and of terce_sync        *)

VARIABLE terce

(* who: the daemon; sync, async, ready: sync_fd, async_fd, api_ready, 0    *)
(* being "no socket"; reader, writer: NULL is NoReader and 0; broker: the  *)
(* socket of the LSP broker that NARB makes for the TERCE; orphan: the     *)
(* loop has a reader that Stop() has closed among its ready events; fds:   *)
(* whose each socket number is; mail: what the TERCE tells of its own;     *)
(* held: the LSAs that the TERCE has got; failed: the daemon has died.     *)
NoReader == [fd |-> 0, sync |-> 0, at |-> "none"]
Fresh(who) ==
  [who |-> who, phase |-> "boot", sync |-> 0, async |-> 0, reader |-> NoReader, writer |-> 0,
   ready |-> FALSE, broker |-> 0, orphan |-> FALSE, fds |-> [n \in 1 .. MaxFd |-> "free"],
   up |-> FALSE, mail |-> "none", held |-> {}, lsas |-> Lsas, off |-> FALSE, failed |-> FALSE,
   stops |-> 0, faults |-> 0, others |-> 0, changes |-> 0]

Init == terce \in {Fresh("narb"), Fresh("rce")}
Off == [Fresh("rce") EXCEPT !.failed = TRUE]   (* a daemon that has died    *)

Alive == ~terce.failed

-----------------------------------------------------------------------------
(* Sockets.                                                                *)

Free(t) == {n \in 1 .. MaxFd : t.fds[n] = "free"}
Kind(t, n) == IF n = 0 THEN "none" ELSE t.fds[n]
Shut(t, S) == [t EXCEPT !.fds = [n \in 1 .. MaxFd |-> IF n \in S THEN "free" ELSE @[n]]]
Dead(t) == [t EXCEPT !.up = FALSE, !.held = {}, !.stops = @ + 1, !.mail = "none",
              !.fds = [n \in 1 .. MaxFd |-> IF @[n] \in {"terce", "back"} THEN "gone" ELSE @[n]]]

(* TerceApiTopoSync::Stop, with Close() of the reader and the writer: it   *)
(* does not take the reader from the events that are ready.                *)
Closed(t) ==
  [Shut(t, {t.reader.fd, t.reader.sync, t.writer}) EXCEPT
     !.reader = NoReader, !.writer = 0, !.broker = 0, !.orphan = @ \/ t.reader.at = "ready"]
(* Mutant: api_ready stays.                                                *)
Stop_Ready(t) == [Closed(t) EXCEPT !.sync = 0, !.async = 0]
Stop(t) == [Closed(t) EXCEPT !.sync = 0, !.async = 0, !.ready = FALSE]

-----------------------------------------------------------------------------
(* RunWithoutSyncTopology.  o is what happens outside: whether connecting, *)
(* writing and accepting succeed, the answer, and then how many requests   *)
(* succeed and how the next one fails.  A handler meets one failure, or    *)
(* none; whatever a TERCE that is up refuses is a fault.                   *)

Hows == {"error", "write", "read"}
Calm == [connect |-> TRUE, writes |-> TRUE, accept |-> TRUE, answer |-> "ACK",
         requests |-> 2 * Cardinality(Lsas), how |-> "error"]
Outcomes ==
  {Calm, [Calm EXCEPT !.connect = FALSE], [Calm EXCEPT !.writes = FALSE],
   [Calm EXCEPT !.accept = FALSE], [Calm EXCEPT !.answer = "ERROR"]}
  \cup {[Calm EXCEPT !.requests = k, !.how = h] : k \in 0 .. 2 * Cardinality(Lsas) - 1, h \in Hows}

(* Do(t), evaluated once.                                                  *)
After(t, Do(_)) == CHOOSE v \in {Do(u) : u \in {t}} : TRUE

Fault(t) == [t EXCEPT !.faults = @ + 1]

Connect(t, o) ==
  IF ~t.up THEN t
  ELSE IF ~o.connect THEN Fault(t)
  ELSE LET n == Min(Free(t)) IN [t EXCEPT !.sync = n, !.fds[n] = "terce"]

(* The listening socket has the lowest number while the TERCE's is         *)
(* accepted.  If none comes, sync_fd is closed; the writer has it still.   *)
(* Mutant: the socket for requests stays.                                  *)
NotAccepted_Open(t) == [t EXCEPT !.async = 0]
NotAccepted(t) == [Shut(t, {t.sync}) EXCEPT !.sync = 0, !.async = 0]
Accepted(t) == LET n == Min(Free(t) \ {Min(Free(t))})
               IN  [t EXCEPT !.async = n, !.fds[n] = "back"]

(* ReadSyncMessage of the answer to ACT_INIT: the reader's own number.     *)
(* The read of a socket that is not the TERCE's does not end.              *)
Initiated(t, o) ==
  CASE Kind(t, t.reader.sync) = "terce" ->
         IF o.answer = "ACK" THEN [t EXCEPT !.ready = TRUE] ELSE Fault(t)
    [] Kind(t, t.reader.sync) = "other" -> [t EXCEPT !.failed = TRUE]
    [] OTHER -> Stop(t)

(* InitNarbTerceComm and InitRceTerceComm.                                 *)
Read(t) == IF t.reader # NoReader THEN t
           ELSE [t EXCEPT !.reader = [fd |-> t.async, sync |-> t.sync, at |-> "reads"]]
InitTerceComm(t, o) ==
  LET to == Kind(t, t.writer)
      Answer(a) == IF a.async = 0 THEN a ELSE Initiated(Read(a), o)
  IN  IF to = "free" \/ (to = "gone" /\ ~o.writes) THEN t
      ELSE IF to = "terce" /\ o.accept THEN After(Accepted(t), Answer)
      ELSE NotAccepted(IF to = "terce" THEN Fault(t) ELSE t)

RunWithoutSyncTopology(t, o) ==
  LET Linked(c) == IF c.sync = 0 THEN c
                   ELSE IF c.ready THEN c
                   ELSE InitTerceComm(IF c.writer = 0 THEN [c EXCEPT !.writer = c.sync] ELSE c, o)
  IN  IF t.who = "narb" /\ t.off THEN t
      ELSE After(IF t.sync # 0 THEN t ELSE Connect(t, o), Linked)

-----------------------------------------------------------------------------
(* DeleteTopology and OriginateTopology: requests for the LSAs of a        *)
(* sequence; if not all succeed, the next has an answer that is an error,  *)
(* or the TERCE has died: the write fails, or the read of the answer does, *)
(* and then all is closed.                                                 *)

(* Opaque ids are no matter to the TERCE, which knows an LSA by what it is.*)
OriginateLsa(t, S) == [t EXCEPT !.held = @ \cup S]
DeleteLsa(t, S) == [t EXCEPT !.held = @ \ S]

(* WriteMessage, or ReadSyncMessage, fails.                                *)
Broken(t, how) ==
  LET d == IF Kind(t, t.writer) = "gone" THEN t ELSE Dead(t)
  IN  IF how = "read" THEN Stop(d) ELSE IF how = "write" THEN d ELSE Fault(t)
Succeed(t, s, k) == IF Kind(t, t.writer) = "gone" THEN 0 ELSE IF k > Len(s) THEN Len(s) ELSE k
FirstOf(s, k) == {s[i] : i \in 1 .. k}

(* The RCE goes on after an error in a deletion of a link.                 *)
DeleteTopology(t, s, k, how) ==
  LET n == Succeed(t, s, k)
      done == IF n < Len(s) /\ how = "error" /\ t.who = "rce" THEN ToSet(s) \ {s[n + 1]}
              ELSE FirstOf(s, n)
      d == DeleteLsa(t, done)
  IN  IF n = Len(s) THEN d ELSE Broken(d, how)

(* NARB calls a writer that is not there any more.                         *)
OriginateTopology(t, s, k, how) ==
  LET n == Succeed(t, s, k)
      o == OriginateLsa(t, FirstOf(s, n))
  IN  IF t.writer = 0 THEN [t EXCEPT !.failed = @ \/ t.who = "narb"]
      ELSE IF n = Len(s) THEN o ELSE Broken(o, how)

(* A socket that is gone breaks the first request.                         *)
Possible(t, o) == Kind(t, t.writer) = "gone" => o.how # "error" /\ o.requests = 0

Topology(t) == SetToSeq(t.lsas)
Originated(t) == SetToSeq(t.lsas \ Jumps)

(* TerceApiTopoOriginator::Run, and the part of DomainTopologyOriginator:: *)
(* Run that is about the TERCE.                                            *)
Refreshed(t, o) ==
  LET n == Cardinality(t.lsas)
      Sends(d) == OriginateTopology(d, Originated(d), o.requests - n, o.how)
      Renews(r) == IF ~r.ready \/ r.failed THEN r
                   ELSE IF o.requests < n
                   THEN After(DeleteTopology(r, Topology(r), o.requests, o.how),
                              LAMBDA d : OriginateTopology(d, Originated(d), Len(Originated(d)), "write"))
                   ELSE After(DeleteTopology(r, Topology(r), n, o.how), Sends)
  IN  IF t.who = "rce" /\ t.off THEN t
      ELSE After(IF t.ready THEN t ELSE RunWithoutSyncTopology(t, o), Renews)

-----------------------------------------------------------------------------

Bounded(t) == t.faults <= MaxFaults /\ t.stops <= MaxStops
Room(t) == Cardinality(Free(t)) >= 3

(* main: until the TERCE is ready there is nothing else, not even the loop.*)
Boots(t, o) ==
  LET Then(r) == IF ~r.ready \/ r.failed THEN r
                 ELSE [OriginateTopology(r, Originated(r), o.requests, o.how) EXCEPT !.phase = "loop"]
  IN  After(RunWithoutSyncTopology(t, o), Then)

Boot(o) ==
  /\ Alive /\ terce.phase = "boot" /\ Room(terce) /\ Possible(terce, o)
  /\ terce' = Boots(terce, o)
  /\ Bounded(terce')

Period(o) ==
  /\ Alive /\ terce.phase = "loop" /\ Room(terce) /\ Possible(terce, o)
  /\ terce' = Refreshed(terce, o)
  /\ Bounded(terce')

Readable(t) == t.reader.fd # 0 /\ (Kind(t, t.reader.fd) = "gone" \/ t.mail # "none")
Select ==
  /\ Alive /\ terce.phase = "loop" /\ ~terce.orphan
  /\ terce.reader.at = "reads" /\ Readable(terce)
  /\ terce' = [terce EXCEPT !.reader.at = "ready"]

(* HandleMessage.                                                          *)
HandleMessage(t) ==
  [t EXCEPT !.mail = "none",
     !.broker = IF t.mail = "MSG_APP_REQUEST" /\ t.who = "narb" /\ @ = 0 THEN t.async ELSE @]

(* TerceApiTopoReader::Run and ReadMessage.                                *)
RunReader ==
  /\ Alive /\ terce.phase = "loop" /\ (terce.orphan \/ terce.reader.at = "ready")
  /\ terce' = IF terce.orphan THEN [terce EXCEPT !.failed = TRUE]
              ELSE LET t == [terce EXCEPT !.reader.at = "reads"]
                   IN  IF Kind(t, t.reader.fd) = "back" THEN HandleMessage(t) ELSE Stop(t)

-----------------------------------------------------------------------------
(* The others.                                                             *)

TerceStop  == terce.up /\ terce.stops < MaxStops /\ terce' = Dead(terce)
TerceStart == ~terce.up /\ terce' = [terce EXCEPT !.up = TRUE]
TerceTells(m) == /\ terce.up /\ terce.mail = "none" /\ Kind(terce, terce.reader.fd) = "back"
                 /\ terce.changes < MaxChanges
                 /\ terce' = [terce EXCEPT !.mail = m, !.changes = @ + 1]

OtherOpens == /\ terce.phase = "loop" /\ terce.others < MaxOthers /\ Room(terce)
              /\ terce' = [terce EXCEPT !.others = @ + 1, !.fds[Min(Free(terce))] = "other"]
OtherCloses(n) == terce.fds[n] = "other" /\ terce' = Shut(terce, {n})

Change(l) == /\ terce.phase = "loop" /\ terce.changes < MaxChanges
             /\ terce' = [terce EXCEPT !.changes = @ + 1,
                            !.lsas = IF l \in @ THEN @ \ {l} ELSE @ \cup {l}]
(* The command "set terce_sync".                                           *)
SetTerceSync == /\ terce.phase = "loop" /\ terce.changes < MaxChanges
                /\ terce' = [terce EXCEPT !.changes = @ + 1, !.off = ~@]

Main   == \E o \in Outcomes : Boot(o)
Timers == \E o \in Outcomes : Period(o)
Next ==
  \/ Main \/ Timers \/ Select \/ RunReader
  \/ TerceStop \/ TerceStart \/ (\E m \in {"LSA", "MSG_APP_REQUEST"} : TerceTells(m))
  \/ OtherOpens \/ (\E n \in 1 .. MaxFd : OtherCloses(n))
  \/ (\E l \in Lsas : Change(l)) \/ SetTerceSync

Spec == Init /\ [][Next]_terce
Fairness == WF_terce(Main) /\ WF_terce(Timers) /\ WF_terce(Select) /\ WF_terce(RunReader)
LiveSpec == Spec /\ Fairness

-----------------------------------------------------------------------------
(* Properties.                                                             *)

(* A client that is ready sends its requests, takes its answers and hears  *)
(* the TERCE on the sockets of one connection, though each of its objects  *)
(* has its own copy of their numbers; and the broker that serves the TERCE *)
(* has no socket of another client.                                        *)
Wired ==
  /\ terce.ready => /\ terce.writer = terce.sync /\ terce.reader.sync = terce.sync
                    /\ Kind(terce, terce.sync) \in {"terce", "gone"}
                    /\ Kind(terce, terce.reader.fd) \in {"back", "gone"}
  /\ terce.broker # 0 => Kind(terce, terce.broker) \in {"back", "gone"}

(* A connection that has died is made again while the TERCE is up, and the *)
(* TERCE gets the whole topology, unless the writer keeps a number that is *)
(* not its connection's any more, or the daemon has died.                  *)
Estranged == \/ Kind(terce, terce.writer) = "other"
             \/ terce.sync # 0 /\ terce.writer \notin {0, terce.sync}
Settled == terce.up /\ ~terce.off
Resurrected ==
  <>[]Settled => <>[](terce.ready /\ terce.lsas \ Jumps \subseteq terce.held)
                 \/ []<>(Estranged \/ terce.failed)

(* The comment at terce_apiclient.cc:908 of the RCE: "if TERCE client is   *)
(* enabled and the API died, resurrect RceTerceComm".                      *)
Resurrects == <>[]Settled /\ []~terce.failed => []<>terce.ready
=============================================================================

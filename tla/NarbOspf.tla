------------------------------ MODULE NarbOspf -------------------------------
(***************************************************************************)
(* The OSPF client of NARB (class ZebraOspfSync with its reader and        *)
(* writer) and the requests that NARB makes of an OSPF daemon, and of a    *)
(* TERCE, for the LSAs of its abstract topology.                           *)
(*                                                                         *)
(* The operators work on a state s of the program and its servers; module  *)
(* DomainTopology has it as a variable.  A connection to the daemon has a  *)
(* synchronous and a reverse, asynchronous socket; they are numbered by    *)
(* the connection, a number is used once.                                  *)
(*                                                                         *)
(*   s.z       the client: reader and writer exist (rd, wr), their sockets *)
(*             (rfd, wfd), and the socket of the client itself (sfd)       *)
(*   s.where   where the reader waits: "reads", "ready" or "none"          *)
(*   s.watched sockets whose bit is set in the loop's fd_set               *)
(*   s.open    sockets that NARB has not closed                            *)
(*   s.peer    connections that the daemon has not closed                  *)
(*   s.reg     those on which the opaque type is registered                *)
(*   s.lsdb    the LSAs of NARB that each server has                       *)
(*   s.crash   what NARB has died of, or "none"                            *)
(***************************************************************************)
EXTENDS Integers, FiniteSets, Sequences, SequencesExt

CONSTANTS
  MaxConns   (* bound: connections to the OSPF daemon                      *)

None == 0                        (* no socket: fd = -1                     *)
Conns == 1 .. MaxConns

NoClient  == [rd |-> FALSE, rfd |-> None, wr |-> FALSE, wfd |-> None, sfd |-> None]
Client    == [rd : BOOLEAN, rfd : {None} \cup Conns, wr : BOOLEAN,
              wfd : {None} \cup Conns, sfd : {None} \cup Conns]

Crashed(s, why) == IF s.crash = "none" THEN [s EXCEPT !.crash = why] ELSE s

(* A socket in the fd_set that is closed makes select() fail for ever:     *)
(* from then on the loop runs nothing but its timers.                      *)
Deaf(s) == s.watched \ s.open # {}

-----------------------------------------------------------------------------
(* The OSPF daemon and its API.                                            *)

Up(s) == s.up["ospf"]

(* What the daemon does with a request on a registered connection.  An LSA *)
(* is named by its opaque ID.                                              *)
Lsa(op) == [item |-> op.item, id |-> op.id, ver |-> op.ver]
Known(db, op) == {l \in db : l.id = op.id}
Served(db, op) ==
  CASE op.kind = "originate" -> db \cup {Lsa(op)}
    [] op.kind = "delete"    -> db \ Known(db, op)
    [] op.kind = "update"    -> IF Known(db, op) = {} THEN db
                                ELSE (db \ Known(db, op)) \cup {Lsa(op)}

(* The daemon stops: its connections break and its database is lost.       *)
OspfStopped(s) ==
  [s EXCEPT !.up["ospf"] = FALSE, !.peer = {}, !.reg = {}, !.lsdb["ospf"] = {}]

-----------------------------------------------------------------------------
(* class ZebraOspfSync.                                                    *)

(* Connect makes the sockets of the client; the reader and the writer keep *)
(* those that they have.                                                   *)
Connect(s) ==
  LET n == s.conns + 1
  IN  IF Up(s) THEN [s EXCEPT !.conns = n, !.open = @ \cup {n}, !.peer = @ \cup {n},
                              !.z.sfd = n]
      ELSE s

(* EventMaster::Schedule of the new reader.                                *)
Watch(s) == [s EXCEPT !.watched = @ \cup {s.z.rfd}, !.where = "reads"]

(* RunWithoutSyncLsdb: connects unless there is a socket, and makes the    *)
(* reader and the writer unless there are some.  It has failed when the    *)
(* client has no socket.                                                   *)
RunWithoutSyncLsdb(s) ==
  LET c == IF s.z.sfd = None THEN Connect(s) ELSE s
      r == IF c.z.rd THEN c ELSE Watch([c EXCEPT !.z.rd = TRUE, !.z.rfd = c.z.sfd])
  IN  IF c.z.sfd = None THEN s
      ELSE IF r.z.wr THEN r ELSE [r EXCEPT !.z.wr = TRUE, !.z.wfd = r.z.sfd]

(* Selector::Close of the reader and of the writer.                        *)
CloseReader(s) ==
  [s EXCEPT !.watched = @ \ {s.z.rfd}, !.open = @ \ {s.z.rfd}, !.z.rfd = None,
            !.where = IF @ = "reads" THEN "none" ELSE @]
CloseWriter(s) == [s EXCEPT !.open = @ \ {s.z.wfd}, !.z.wfd = None]

(* ZebraOspfSync::~ZebraOspfSync.                                          *)
Destroyed(s) ==
  LET c == CloseWriter(CloseReader(s))
  IN  [c EXCEPT !.open = @ \ {s.z.sfd}, !.z = NoClient, !.where = "none"]

(* ZebraOspfReader::Run on a connection that the daemon has closed: both   *)
(* sockets are closed and the client forgets its reader and its writer.    *)
ReaderRuns(s) ==
  IF s.z.rfd = None THEN Crashed(s, "reader without socket")
  ELSE [s EXCEPT !.open = @ \ {s.z.rfd}, !.where = "none", !.z = NoClient]

(* A synchronous exchange: WriteMessage, then ReadSyncMessage.  On a       *)
(* connection that has broken the write or the read fails ("lost"), or the *)
(* read finds the end of the stream ("eof"), and then ReadSyncMessage      *)
(* closes the sockets: the reader stays where it is in the loop.           *)
Usable(s) == s.z.wfd \in s.open /\ s.z.wfd \in s.peer
BrokenEof(s) == [s EXCEPT !.open = @ \ {s.z.rfd, s.z.wfd}, !.z.rfd = None]
Broken(s, how) == IF how = "eof" /\ s.z.wfd \in s.open THEN BrokenEof(s) ELSE s

OspfRequest(s, op, how) ==
  IF ~s.z.wr THEN Crashed(s, "no writer")
  ELSE IF ~Usable(s) THEN Broken(s, how)
  ELSE IF s.z.wfd \in s.reg THEN [s EXCEPT !.lsdb["ospf"] = Served(@, op)]
  ELSE s

(* RegisterOpqaueType(10, 1).                                              *)
RegisterOpqaueType(s, how) ==
  IF ~Usable(s) THEN Broken(s, how) ELSE [s EXCEPT !.reg = @ \cup {s.z.wfd}]

(* Close and SetSocket(-1) of both, by "delete ospfd": the client keeps    *)
(* the number of its socket.                                               *)
Disconnected(s) == CloseReader(CloseWriter(s))
=============================================================================

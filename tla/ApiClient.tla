----------------------------- MODULE ApiClient ------------------------------
(***************************************************************************)
(* The event loop of a NARB (class EventMaster) and its connection to an   *)
(* RCE: an API client is a reader with a writer (classes APIClient,        *)
(* APIReader, APIWriter), which the factory of the clients makes anew when *)
(* it finds the old one without a connection.                              *)
(*                                                                         *)
(* The events are the reader and the writer of a client, <<"R", c>> and    *)
(* <<"W", c>>, and the reader of a broker, <<"X", 0>>, whose handler sends *)
(* queries and notifications.  Every other component that talks over a     *)
(* socket uses the loop the same way.  Sockets are numbered by connection, *)
(* a number is used once.                                                  *)
(***************************************************************************)
EXTENDS Integers, Sequences, FiniteSets, Functions

CONSTANTS
  MaxClients,  (* bound: client objects that are made                      *)
  MaxConns,    (* bound: connections that are made                         *)
  MaxPosts     (* bound: messages that are posted                          *)

Clients == 1 .. MaxClients
Conns   == 1 .. MaxConns
None    == 0                        (* no socket: fd = -1                  *)
Closed  == -1                       (* a closed socket, with fd > 0        *)

Reader(c) == <<"R", c>>
Writer(c) == <<"W", c>>
Broker    == <<"X", 0>>
Events == {Reader(c) : c \in Clients} \cup {Writer(c) : c \in Clients} \cup {Broker}

(* A message: the connection it was posted for, and its number there.      *)
Msg == [conn : Conns \cup {Closed}, num : 1 .. MaxPosts]

(* A client: the sockets of its reader and its writer, and msgQueue.       *)
NewClient == [rfd |-> None, wfd |-> None, queue |-> <<>>]

VARIABLES
  reads, writes,    (* the lists of events that wait for select()          *)
  ready,            (* those that select() has found                       *)
  readfd, writefd,  (* the sockets whose bits are set in the fd_sets       *)
  cl,               (* the clients                                         *)
  cur,              (* the client in the list of the factory, or 0         *)
  made,             (* clients made so far                                 *)
  deleted,          (* clients that were deleted                           *)
  reused,           (* a deleted writer's memory went to a new one         *)
  conns,            (* connections made so far                             *)
  open,             (* those that the RCE has not closed                   *)
  up,               (* the RCE accepts connections                         *)
  inbox,            (* messages from the RCE that are not read             *)
  rcvd,             (* messages that arrived at the RCE                    *)
  posted            (* messages posted, by the socket of the reader        *)

lists == <<reads, writes, ready, readfd, writefd>>
objs  == <<cl, cur, made, deleted, reused>>
vars  == <<lists, objs, conns, open, up, inbox, rcvd, posted>>

In(e, l) == \E i \in 1 .. Len(l) : l[i] = e
Posts == FoldFunction(+, 0, posted)
ListedOnce(l) == \A e \in Events : Cardinality({i \in 1 .. Len(l) : l[i] = e}) <= 1

-----------------------------------------------------------------------------
(* The loop state that a handler works on.                                 *)

Loop == [reads |-> reads, writes |-> writes, readfd |-> readfd, writefd |-> writefd,
         cl |-> cl, cur |-> cur, made |-> made, deleted |-> deleted, conns |-> conns,
         open |-> open, posted |-> posted]

(* What is left of a list of the events in S, in the order of the list.    *)
Only(l, S) ==
  LET at == {i \in 1 .. Len(l) : l[i] \in S}
  IN  [n \in 1 .. Cardinality(at) |->
         l[CHOOSE i \in at : Cardinality({j \in at : j <= i}) = n]]
Without(l, e) == Only(l, Events \ {e})

(* EventMaster::Schedule: an event without a socket is not queued, nor one *)
(* whose socket is watched.                                                *)
ScheduleReader(s, c) ==
  IF s.cl[c].rfd = None \/ s.cl[c].rfd \in s.readfd THEN s
  ELSE [s EXCEPT !.reads = Append(@, Reader(c)), !.readfd = @ \cup {s.cl[c].rfd}]
ScheduleWriter(s, c) ==
  IF s.cl[c].wfd = None \/ s.cl[c].wfd \in s.writefd THEN s
  ELSE [s EXCEPT !.writes = Append(@, Writer(c)), !.writefd = @ \cup {s.cl[c].wfd}]

(* Selector::Close with EventMaster::Remove, which does not look at ready. *)
CloseReader(s, c) ==
  [s EXCEPT !.reads = Without(@, Reader(c)), !.readfd = @ \ {s.cl[c].rfd},
            !.open = @ \ {s.cl[c].rfd}, !.cl[c].rfd = None]
CloseWriter(s, c) ==
  [s EXCEPT !.writes = Without(@, Writer(c)), !.writefd = @ \ {s.cl[c].wfd},
            !.open = @ \ {s.cl[c].wfd}, !.cl[c].wfd = None]
CloseBoth(s, c) == CloseReader(CloseWriter(s, c), c)

(* Mutants: the new message overtakes; the writer is scheduled each time.  *)
PostMessage_Front(s, c, m) ==
  LET t == [s EXCEPT !.cl[c].queue = <<m>> \o @]
  IN  IF Len(t.cl[c].queue) = 1 THEN ScheduleWriter(t, c) ELSE t
PostMessage_EachTime(s, c, m) ==
  LET t == [s EXCEPT !.cl[c].queue = Append(@, m)]
  IN  IF s.cl[c].wfd = None THEN t
      ELSE [t EXCEPT !.writes = Append(@, Writer(c)), !.writefd = @ \cup {s.cl[c].wfd}]

(* APIWriter::PostMessage schedules the writer for the first message.      *)
PostMessage(s, c, m) ==
  LET t == [s EXCEPT !.cl[c].queue = Append(@, m)]
  IN  IF Len(t.cl[c].queue) = 1 THEN ScheduleWriter(t, c) ELSE t

Send(s, c) ==
  LET n == s.cl[c].rfd
      t == [s EXCEPT !.posted[n] = @ + 1]
  IN  PostMessage(t, c, [conn |-> n, num |-> t.posted[n]])

(* RCE_APIClient_Factory::GetClient: the client in the list if IsAlive(),  *)
(* else that one is deleted and a new one put in its place.                *)
Alive(s, c)  == c # 0 /\ s.cl[c].rfd # None
GetClient(s) ==
  IF Alive(s, s.cur) THEN s
  ELSE [s EXCEPT !.deleted = @ \cup ({s.cur} \ {0}), !.made = @ + 1, !.cur = s.made + 1]

(* APIClient::Connect on a new client.                                     *)
Connected(s) ==
  LET n == s.conns + 1
  IN  ScheduleReader([s EXCEPT !.conns = n, !.open = @ \cup {n},
                               !.cl[s.cur].rfd = n, !.cl[s.cur].wfd = n], s.cur)
NotConnected(s) == [s EXCEPT !.cl[s.cur].rfd = Closed]

(* A handler of the broker's reader: a query takes a client that cannot    *)
(* connect off the list (RemoveClient), a notification leaves it there.    *)
Handler(kind) ==
  LET s == GetClient(Loop)
  IN  IF Alive(s, s.cur) THEN Send(s, s.cur)
      ELSE IF up THEN LET t == Connected(s) IN Send(t, t.cur)
      ELSE IF kind = "query" THEN [NotConnected(s) EXCEPT !.cur = 0]
      ELSE NotConnected(s)

(* What a handler may need is within the bounds.                           *)
Bounded == /\ Posts < MaxPosts
           /\ Alive(Loop, cur) \/ (made < MaxClients /\ conns < MaxConns)

-----------------------------------------------------------------------------
(* EventMaster::Run: the next ready event.                                 *)

Commit(s, rest) ==
  /\ reads' = s.reads /\ writes' = s.writes /\ ready' = rest
  /\ readfd' = s.readfd /\ writefd' = s.writefd
  /\ cl' = s.cl /\ cur' = s.cur /\ made' = s.made /\ deleted' = s.deleted
  /\ conns' = s.conns /\ open' = s.open /\ posted' = s.posted

(* APIReader::Run, with Cycle and Schedule by the loop: the reader stays   *)
(* for ever, unless the connection is closed.                              *)
RunReader(c) ==
  /\ ready # <<>> /\ Head(ready) = Reader(c)
  /\ LET n == cl[c].rfd
     IN  IF n = None THEN Commit(Loop, Tail(ready)) /\ UNCHANGED <<inbox, rcvd, up>>
         ELSE IF inbox[n] > 0
         THEN /\ inbox' = [inbox EXCEPT ![n] = @ - 1]
              /\ Commit(ScheduleReader(Loop, c), Tail(ready))
              /\ UNCHANGED <<rcvd, up>>
         ELSE Commit(CloseBoth(Loop, c), Tail(ready)) /\ UNCHANGED <<inbox, rcvd, up>>
  /\ UNCHANGED reused

(* Mutant: the writer is not scheduled for what is left in the queue.      *)
Again_Never(s, c) == s

(* The writer is scheduled again for what is left in the queue.            *)
Again(s, c) == IF s.cl[c].queue = <<>> THEN s ELSE ScheduleWriter(s, c)

(* APIWriter::Run: one message is written.  It is lost if the RCE has      *)
(* closed the connection, and the writer may or may not be told.           *)
RunWriter(c) ==
  /\ ready # <<>> /\ Head(ready) = Writer(c)
  /\ LET n == cl[c].wfd
         s == [Loop EXCEPT !.cl[c].queue = Tail(@)]
     IN  IF n = None THEN Commit(Loop, Tail(ready)) /\ UNCHANGED rcvd
         ELSE IF cl[c].queue = <<>> THEN Commit(Loop, Tail(ready)) /\ UNCHANGED rcvd
         ELSE IF n \in open
         THEN /\ rcvd' = [rcvd EXCEPT ![n] = Append(@, Head(cl[c].queue))]
              /\ Commit(Again(s, c), Tail(ready))
         ELSE /\ UNCHANGED rcvd
              /\ \/ Commit(Again(s, c), Tail(ready))
                 \/ Commit(CloseBoth(s, c), Tail(ready))
  /\ UNCHANGED <<inbox, up, reused>>

(* The list when the memory of the event old is that of new.               *)
Renamed(l, old, new) == [i \in 1 .. Len(l) |-> IF l[i] = old THEN new ELSE l[i]]

(* The broker's reader.  A client is deleted although its writer may still *)
(* be in ready: the event is a dead one then, or, when the memory is used  *)
(* again, the writer of the new client.                                    *)
RunBroker ==
  /\ ready # <<>> /\ Head(ready) = Broker /\ Bounded
  /\ \E kind \in {"query", "notify"}, again \in BOOLEAN :
       LET s == Handler(kind)
           moved == again /\ cur \in s.deleted /\ In(Writer(cur), ready)
       IN  /\ Commit([s EXCEPT !.reads = Append(@, Broker)],
                     IF moved THEN Renamed(Tail(ready), Writer(cur), Writer(s.made))
                     ELSE Tail(ready))
           /\ reused' = (reused \/ moved)
  /\ UNCHANGED <<inbox, rcvd, up>>

(* At the bounds the broker has nothing more to send.                      *)
SkipBroker ==
  /\ ready # <<>> /\ Head(ready) = Broker /\ ~Bounded
  /\ ready' = Tail(ready) /\ reads' = Append(reads, Broker)
  /\ UNCHANGED <<writes, readfd, writefd, objs, conns, open, up, inbox, rcvd, posted>>

(* Mutant: the bits of the sockets stay set.                               *)
Watched_Kept(fds, got) == fds

(* ModifyFDSets takes the bits of what is ready out of the fd_set.         *)
Watched(fds, got) == fds \ got

(* Fetch: with nothing ready, select(), and the events it finds, readers   *)
(* first.  A socket can be read when there is a message or it was closed;  *)
(* one that is full cannot be written.                                     *)
Readable == {Reader(c) : c \in {d \in Clients : cl[d].rfd \in Conns
                                  /\ (inbox[cl[d].rfd] > 0 \/ cl[d].rfd \notin open)}}

Select(W) ==
  /\ ready = <<>>
  /\ \E B \in SUBSET {Broker} :
       LET S == Readable \cup B
       IN  /\ ready' = Only(reads, S) \o Only(writes, W)
           /\ reads' = Only(reads, Events \ S)
           /\ writes' = Only(writes, Events \ W)
           /\ readfd' = Watched(readfd, {cl[c].rfd : c \in {d \in Clients : Reader(d) \in S}})
           /\ writefd' = Watched(writefd, {cl[c].wfd : c \in {d \in Clients : Writer(d) \in W}})
  /\ ready' # <<>>
  /\ UNCHANGED <<objs, conns, open, up, inbox, rcvd, posted>>

-----------------------------------------------------------------------------
(* The RCE: it answers, it closes a connection, it stops and starts.       *)

RceSend(n) ==
  /\ n \in open /\ inbox[n] = 0
  /\ inbox' = [inbox EXCEPT ![n] = 1]
  /\ UNCHANGED <<lists, objs, conns, open, up, rcvd, posted>>

RceStop ==
  /\ up
  /\ up' = FALSE /\ open' = {} /\ inbox' = [n \in Conns |-> 0]
  /\ UNCHANGED <<lists, objs, conns, rcvd, posted>>

RceStart ==
  /\ ~up /\ up' = TRUE
  /\ UNCHANGED <<lists, objs, conns, open, inbox, rcvd, posted>>

Init ==
  /\ reads = <<Broker>> /\ writes = <<>> /\ ready = <<>>
  /\ readfd = {} /\ writefd = {}
  /\ cl = [c \in Clients |-> NewClient] /\ cur = 0 /\ made = 0 /\ deleted = {}
  /\ reused = FALSE
  /\ conns = 0 /\ open = {} /\ up = TRUE
  /\ inbox = [n \in Conns |-> 0] /\ rcvd = [n \in Conns |-> <<>>]
  /\ posted = [n \in Conns \cup {Closed} |-> 0]

Next ==
  \/ \E c \in Clients : RunReader(c)
  \/ \E c \in Clients : RunWriter(c)
  \/ RunBroker
  \/ SkipBroker
  \/ \E W \in SUBSET {Writer(c) : c \in Clients} : Select(W)
  \/ \E n \in Conns : RceSend(n)
  \/ RceStop
  \/ RceStart

Spec == Init /\ [][Next]_vars

(* The loop goes on.                                                       *)
Step == RunBroker \/ SkipBroker \/ \E c \in Clients : RunReader(c) \/ RunWriter(c)
Fairness == WF_vars(Step)
LiveSpec == Spec /\ Fairness

-----------------------------------------------------------------------------
(* Properties.                                                             *)

All == reads \o writes \o ready

TypeOK ==
  /\ \A i \in 1 .. Len(All) : All[i] \in Events
  /\ readfd \subseteq Conns /\ writefd \subseteq Conns
  /\ \A c \in Clients :
       /\ cl[c].rfd \in Conns \cup {None, Closed} /\ cl[c].wfd \in Conns \cup {None}
       /\ \A i \in 1 .. Len(cl[c].queue) : cl[c].queue[i] \in Msg
  /\ cur \in {0} \cup Clients /\ made \in 0 .. MaxClients /\ deleted \subseteq Clients
  /\ reused \in BOOLEAN
  /\ conns \in 0 .. MaxConns /\ open \subseteq 1 .. conns /\ up \in BOOLEAN

(* An event waits in one list at most, and once: the loop never runs one   *)
(* twice for one cause (PostMessage schedules for the first message only), *)
(* unless a writer got the memory of one that was deleted while ready.     *)
OneList == ~reused => ListedOnce(All)

(* A connection that is up is watched for input, and for output as long as *)
(* there is something to send: nothing that Schedule drops is missed.      *)
NothingMissed ==
  \A c \in Clients :
    /\ cl[c].rfd \in Conns => In(Reader(c), reads \o ready)
    /\ cl[c].wfd \in Conns /\ cl[c].queue # <<>> => In(Writer(c), writes \o ready)

(* What an RCE gets over a connection is what was posted for it, in order  *)
(* and without a gap.                                                      *)
InOrder ==
  \A n \in Conns : \A i \in 1 .. Len(rcvd[n]) : rcvd[n][i] = [conn |-> n, num |-> i]

(* What is posted for a connection is sent, unless the connection breaks    *)
(* or a socket stays full for ever.                                         *)
Writable(n) == \E W \in SUBSET {Writer(c) : c \in Clients} :
                 /\ \E c \in Clients : Writer(c) \in W /\ cl[c].wfd = n
                 /\ Select(W)
AllSent == <>[](\A n \in open : Len(rcvd[n]) = posted[n])
Sent == (\A n \in Conns : SF_vars(Writable(n))) => AllSent
=============================================================================

-------------------------- MODULE CliSessionProofs --------------------------
(***************************************************************************)
(* What the sessions of a command line share does not mix them up, for     *)
(* any number of sessions, lines and arguments.  The invariant: what       *)
(* select() has found names each event once, a reader among it is on no    *)
(* list besides, and the commands that wait are those of one batch.        *)
(***************************************************************************)
EXTENDS CliSession, TLAPS, FiniteSetTheorems, SequenceTheorems

Session == [peer : {"none", "up", "gone"}, reads : Nat, rfd : BOOLEAN, wfd : BOOLEAN,
            r : {"none", "reads", "ready"}, w : {"none", "writes", "ready"},
            out : 0 .. 2, status : {"normal", "close"}, timer : BOOLEAN,
            level : 0 .. 1, freed : BOOLEAN]
Event   == [kind : {"reader", "writer"}, of : Sessions]
Waiting == [cmd : Commands, by : Sessions]

CType ==
  /\ sess \in [Sessions -> Session]
  /\ loop \in [ready : Seq(Event), prio : Seq(Waiting)]
  /\ DOMAIN inst = Commands

(* An event that is ready is so once, and its object says so.              *)
ReadyOnce == \A i, j \in DOMAIN loop.ready : loop.ready[i] = loop.ready[j] => i = j
ReadyReader == \A c \in Sessions, i \in DOMAIN loop.ready :
                 loop.ready[i] = Reader(c) => sess[c].r = "ready"

(* Of one session: what it has to write is written, and nothing of it is   *)
(* in use once it has been deleted.                                        *)
Fine(p) == /\ p.out > 0 /\ p.wfd => p.w # "none"
           /\ p.freed => p.r = "none" /\ ~p.timer /\ ~p.rfd

Commanded == \A i \in DOMAIN loop.prio :
               LET by == loop.prio[i].by
               IN  inst[loop.prio[i].cmd].node = by /\ ~sess[by].freed

CInv == CType /\ ReadyOnce /\ ReadyReader /\ (\A c \in Sessions : Fine(sess[c])) /\ Commanded

-----------------------------------------------------------------------------
(* The set of what select() has found, in an order.                        *)
LEMMA Ordered ==
  ASSUME NEW S, IsFiniteSet(S)
  PROVE  /\ Cardinality(S) \in Nat
         /\ SetToSeq(S) \in [1 .. Cardinality(S) -> S]
         /\ \A i, j \in 1 .. Cardinality(S) : SetToSeq(S)[i] = SetToSeq(S)[j] => i = j
<1>1. Cardinality(S) \in Nat /\ ExistsBijection(1 .. Cardinality(S), S)
  BY FS_CardinalityType
<1>2. PICK f \in [1 .. Cardinality(S) -> S] : IsInjective(f)
  BY <1>1 DEF ExistsBijection, Bijection, Injection, IsInjective
<1>3. SetToSeq(S) \in [1 .. Cardinality(S) -> S] /\ IsInjective(SetToSeq(S))
  BY <1>2 DEF SetToSeq
<1>4. QED BY <1>1, <1>3 DEF IsInjective

-----------------------------------------------------------------------------
(* A session to which a line is written stays fine: WriteBuffer schedules  *)
(* the writer with the first line.                                         *)
LEMMA Written ==
  ASSUME NEW p \in Session, Fine(p)
  PROVE  /\ WriteBuffer(p) \in Session /\ Fine(WriteBuffer(p))
         /\ WriteBuffer(p).r = p.r /\ WriteBuffer(p).freed = p.freed
<1>1. p.out \in 0 .. 2 /\ p.w \in {"none", "writes", "ready"} /\ More(p.out) \in 0 .. 2
  BY DEF Session, More
<1>2. CASE ~p.wfd BY <1>2 DEF WriteBuffer
<1>3. CASE p.wfd
  <2>1. PICK n \in 0 .. 2, l \in {"writes", "ready"}, q \in {WriteBuffer(p)} :
          q = [p EXCEPT !.out = n, !.w = l]
    <3>1. CASE p.out = 0
      <4>1. WriteBuffer(p) = [p EXCEPT !.out = More(p.out), !.w = "writes"]
        BY <1>3, <3>1 DEF WriteBuffer
      <4>2. QED BY <1>1, <4>1
    <3>2. CASE p.out # 0
      <4>1. WriteBuffer(p) = [p EXCEPT !.out = More(p.out), !.w = p.w]
        BY <1>3, <3>2 DEF WriteBuffer
      <4>2. p.w \in {"writes", "ready"} BY <1>1, <1>3, <3>2 DEF Fine
      <4>3. QED BY <1>1, <4>1, <4>2
    <3>3. QED BY <3>1, <3>2
  <2>2. q = [p EXCEPT !.out = n, !.w = l] BY <2>1
  <2>3. q \in Session BY <2>2 DEF Session
  <2>4. /\ q.w = l /\ q.r = p.r /\ q.freed = p.freed
        /\ q.timer = p.timer /\ q.rfd = p.rfd
    BY <2>2 DEF Session
  <2>5. Fine(q) BY <2>4 DEF Fine
  <2>6. WriteBuffer(p) = q BY <2>1
  <2>7. QED BY <2>3, <2>4, <2>5, <2>6
<1>4. QED BY <1>2, <1>3

(* So does one that is closed, by its writer or by Exit.                   *)
LEMMA Ended ==
  ASSUME NEW p \in Session, Fine(p)
  PROVE  /\ CloseWriter(CloseReader(p)) \in Session /\ Fine(CloseWriter(CloseReader(p)))
         /\ (p.r = "ready" => CloseWriter(CloseReader(p)).r = "ready")
         /\ CloseWriter(CloseReader(p)).freed = p.freed
         /\ Exit(p) \in Session /\ Fine(Exit(p)) /\ ~Exit(p).rfd
         /\ (p.r = "ready" => Exit(p).r = "ready") /\ Exit(p).freed = p.freed
<1>1. PICK a : a = CloseWriter(CloseReader(p)) OBVIOUS
<1>2. PICK b : b = Exit(p) OBVIOUS
<1>3. a \in Session /\ a.freed = p.freed /\ a.timer = p.timer /\ ~a.rfd /\ ~a.wfd
      /\ a.r = IF p.r = "ready" THEN "ready" ELSE "none"
  BY <1>1 DEF Session, CloseReader, CloseWriter
<1>4. b \in Session /\ b.freed = p.freed /\ b.timer = p.timer /\ ~b.rfd
      /\ b.r = (IF p.rfd /\ p.r # "ready" THEN "none" ELSE p.r)
  BY <1>2 DEF Session, CloseReader, CloseWriter, Exit
<1>5. (b.wfd /\ b.out > 0 => b.w # "none")
  BY <1>2 DEF Session, Fine, CloseReader, CloseWriter, Exit
<1>6. Fine(a) /\ Fine(b) BY <1>3, <1>4, <1>5 DEF Fine
<1>7. QED BY <1>1, <1>2, <1>3, <1>4, <1>6

(* A step that changes one session, and takes the first event or the first *)
(* command, if any.                                                        *)
LEMMA Touched ==
  ASSUME CInv, NEW c \in Sessions, NEW q \in Session, Fine(q),
         sess[c].r = "ready" => q.r = "ready", q.freed = sess[c].freed,
         sess' = [sess EXCEPT ![c] = q], inst' = inst, loop' \in [ready : Seq(Event), prio : Seq(Waiting)],
         loop'.ready = loop.ready \/ (loop.ready # <<>> /\ loop'.ready = Tail(loop.ready)),
         loop'.prio = loop.prio \/ (loop.prio # <<>> /\ loop'.prio = Tail(loop.prio))
  PROVE  CInv'
<1>1. CType' BY DEF CInv, CType
<1>2. \A i \in DOMAIN loop'.ready : \E d \in {0, 1} :
        /\ i + d \in DOMAIN loop.ready /\ loop'.ready[i] = loop.ready[i + d]
        /\ \A j \in DOMAIN loop'.ready : j + d \in DOMAIN loop.ready /\ loop'.ready[j] = loop.ready[j + d]
  <2>1. CASE loop'.ready = loop.ready BY <2>1 DEF CInv, CType
  <2>2. CASE loop.ready # <<>> /\ loop'.ready = Tail(loop.ready)
    BY <2>2, HeadTailProperties DEF CInv, CType
  <2>3. QED BY <2>1, <2>2
<1>3. ReadyOnce' BY <1>1, <1>2 DEF CInv, CType, ReadyOnce
<1>4. ReadyReader' BY <1>1, <1>2 DEF CInv, CType, ReadyReader, Session
<1>5. \A e \in Sessions : Fine(sess'[e]) BY DEF CInv, CType
<1>6. \A i \in DOMAIN loop'.prio : \E j \in DOMAIN loop.prio : loop'.prio[i] = loop.prio[j]
  <2>1. CASE loop'.prio = loop.prio BY <2>1
  <2>2. CASE loop.prio # <<>> /\ loop'.prio = Tail(loop.prio)
    BY <2>2, HeadTailProperties DEF CInv, CType
  <2>3. QED BY <2>1, <2>2
<1>7. \A e \in Sessions : sess'[e].freed = sess[e].freed BY DEF CInv, CType
<1>8. \A i \in DOMAIN loop.prio : loop.prio[i].by \in Sessions
  <2>1. \A i \in DOMAIN loop.prio : loop.prio[i] \in Waiting BY DEF CInv, CType
  <2>2. QED BY <2>1 DEF Waiting
<1>9. Commanded' BY <1>6, <1>7, <1>8 DEF CInv, Commanded
<1>10. QED BY <1>1, <1>3, <1>4, <1>5, <1>9 DEF CInv

-----------------------------------------------------------------------------
(* The steps that leave the lists of the loop alone, or shorten one.       *)
LEMMA AcceptStep ==
  ASSUME CInv, NEW c \in Sessions, Accept(c) PROVE CInv'
<1> DEFINE p == [Unborn EXCEPT !.peer = "up", !.rfd = TRUE, !.wfd = TRUE, !.r = "reads",
                               !.timer = TRUE]
<1>1. p \in Session /\ Fine(p) /\ ~p.freed
  <2> DEFINE born == [Unborn EXCEPT !.peer = "up", !.rfd = TRUE]
             heard == [born EXCEPT !.wfd = TRUE, !.r = "reads"]
  <2> Unborn \in Session /\ Unborn.out = 0 /\ Unborn.freed = FALSE BY DEF Unborn, Session
  <2>1. born \in Session /\ born.out = 0 /\ born.freed = FALSE BY DEF Session
  <2>2. p = [heard EXCEPT !.timer = TRUE] OBVIOUS
  <2> HIDE DEF born, p
  <2>3. heard \in Session /\ heard.out = 0 /\ heard.freed = FALSE BY <2>1 DEF Session
  <2> HIDE DEF heard
  <2>4. p \in Session /\ p.out = 0 /\ p.freed = FALSE BY <2>2, <2>3 DEF Session
  <2>5. QED BY <2>4 DEF Fine
<1>2. sess' = [sess EXCEPT ![c] = WriteBuffer(p)] BY DEF Accept
<1>3. sess[c].r # "ready" /\ ~sess[c].freed BY DEF Accept, Unborn
<1>4. inst' = inst /\ loop' = loop /\ loop \in [ready : Seq(Event), prio : Seq(Waiting)]
  BY DEF Accept, CInv, CType
<1> HIDE DEF p
<1>5. sess[c] \in Session BY DEF CInv, CType
<1>6. WriteBuffer(p) \in Session /\ Fine(WriteBuffer(p)) /\ WriteBuffer(p).freed = p.freed
  BY <1>1, Written
<1>7. WriteBuffer(p).freed = sess[c].freed BY <1>1, <1>3, <1>5, <1>6 DEF Session
<1>8. QED BY <1>2, <1>3, <1>4, <1>6, <1>7, Touched

(* The client of a session goes.                                           *)
LEMMA HangupStep ==
  ASSUME CInv, NEW c \in Sessions, Hangup(c) PROVE CInv'
<1> DEFINE q == [sess[c] EXCEPT !.peer = "gone"]
<1>1. sess[c] \in Session /\ Fine(sess[c]) BY DEF CInv, CType
<1>2. q \in Session /\ Fine(q) /\ q.r = sess[c].r /\ q.freed = sess[c].freed
  BY <1>1 DEF Session, Fine
<1>3. sess' = [sess EXCEPT ![c] = q] BY DEF Hangup
<1>4. inst' = inst /\ loop' = loop /\ loop \in [ready : Seq(Event), prio : Seq(Waiting)]
  BY DEF Hangup, CInv, CType
<1> HIDE DEF q
<1>5. QED BY <1>2, <1>3, <1>4, Touched

(* The timer of a session ends it.                                         *)
LEMMA TimerStep ==
  ASSUME CInv, NEW c \in Sessions, RunTimer(c) PROVE CInv'
<1> DEFINE q == [Exit(sess[c]) EXCEPT !.timer = FALSE]
<1>1. sess[c] \in Session /\ Fine(sess[c]) BY DEF CInv, CType
<1>2. /\ Exit(sess[c]) \in Session /\ Fine(Exit(sess[c]))
      /\ (sess[c].r = "ready" => Exit(sess[c]).r = "ready") /\ Exit(sess[c]).freed = sess[c].freed
  BY <1>1, Ended
<1>3. q \in Session /\ Fine(q) /\ q.r = Exit(sess[c]).r /\ q.freed = Exit(sess[c]).freed
  BY <1>2 DEF Session, Fine
<1>4. sess' = [sess EXCEPT ![c] = q] BY DEF RunTimer
<1>5. inst' = inst /\ loop' = loop /\ loop \in [ready : Seq(Event), prio : Seq(Waiting)]
  BY DEF RunTimer, CInv, CType
<1> HIDE DEF q
<1>6. QED BY <1>2, <1>3, <1>4, <1>5, Touched

(* The first of the commands that wait runs.                               *)
LEMMA CommandStep ==
  ASSUME CInv, RunCommand PROVE CInv'
<1> DEFINE x == Head(loop.prio).cmd
           c == inst[x].node
<1>1. loop.prio # <<>> /\ loop.prio \in Seq(Waiting) /\ loop \in [ready : Seq(Event), prio : Seq(Waiting)]
  BY DEF RunCommand, CInv, CType
<1>2. Head(loop.prio) = loop.prio[1] /\ 1 \in DOMAIN loop.prio /\ loop.prio[1] \in Waiting
      /\ Tail(loop.prio) \in Seq(Waiting)
  BY <1>1, HeadTailProperties
<1>3. c \in Sessions /\ x \in Commands BY <1>2 DEF CInv, Commanded, Waiting
<1>4. sess[c] \in Session /\ Fine(sess[c]) BY <1>3 DEF CInv, CType
<1>5. loop' = [loop EXCEPT !.prio = Tail(@)] /\ inst' = inst BY DEF RunCommand
<1>6. PICK q : /\ q \in {WriteBuffer(sess[c]), WriteBuffer([sess[c] EXCEPT !.level = 1]),
                         WriteBuffer([sess[c] EXCEPT !.level = 0]), Exit(sess[c])}
              /\ sess' = [sess EXCEPT ![c] = q]
  BY <1>3 DEF RunCommand, Commands
<1>7. ASSUME NEW n \in 0 .. 1, NEW p, p = [sess[c] EXCEPT !.level = n], q = WriteBuffer(p)
      PROVE  q \in Session /\ Fine(q) /\ q.r = sess[c].r /\ q.freed = sess[c].freed
  <2>1. p \in Session /\ Fine(p) /\ p.r = sess[c].r /\ p.freed = sess[c].freed
    BY <1>4, <1>7 DEF Session, Fine
  <2>2. QED BY <1>7, <2>1, Written
<1>8. q \in Session /\ Fine(q) /\ (sess[c].r = "ready" => q.r = "ready") /\ q.freed = sess[c].freed
  <2>1. CASE q = WriteBuffer(sess[c]) BY <1>4, <2>1, Written
  <2>2. CASE q = Exit(sess[c]) BY <1>4, <2>2, Ended
  <2>3. CASE q = WriteBuffer([sess[c] EXCEPT !.level = 1])
    <3>1. PICK p : p = [sess[c] EXCEPT !.level = 1] OBVIOUS
    <3> HIDE DEF c
    <3>2. QED BY <1>7, <2>3, <3>1
  <2>4. CASE q = WriteBuffer([sess[c] EXCEPT !.level = 0])
    <3>1. PICK p : p = [sess[c] EXCEPT !.level = 0] OBVIOUS
    <3> HIDE DEF c
    <3>2. QED BY <1>7, <2>4, <3>1
  <2> HIDE DEF x, c
  <2>5. QED BY <1>6, <2>1, <2>2, <2>3, <2>4
<1>9. loop' \in [ready : Seq(Event), prio : Seq(Waiting)] BY <1>1, <1>2, <1>5
<1>10. loop'.ready = loop.ready /\ loop'.prio = Tail(loop.prio) BY <1>1, <1>5
<1> HIDE DEF x, c
<1>11. QED BY <1>1, <1>3, <1>5, <1>6, <1>8, <1>9, <1>10, Touched

(* The first of the ready events is a writer.                              *)
LEMMA WriterStep ==
  ASSUME CInv, NEW c \in Sessions, NEW fails, RunWriter(c, fails) PROVE CInv'
<1> DEFINE p == [sess[c] EXCEPT !.w = "none"]
           q == IF ~p.wfd THEN p
                ELSE IF fails THEN CloseWriter(CloseReader(p)) ELSE [p EXCEPT !.out = 0]
<1>1. sess[c] \in Session /\ Fine(sess[c]) BY DEF CInv, CType
<1>2. loop \in [ready : Seq(Event), prio : Seq(Waiting)] /\ loop.ready # <<>>
  BY DEF RunWriter, IsNext, CInv, CType
<1>3. Tail(loop.ready) \in Seq(Event) BY <1>2, HeadTailProperties
<1>4. sess' = [sess EXCEPT ![c] = q] /\ loop' = [loop EXCEPT !.ready = Tail(@)] /\ inst' = inst
  BY DEF RunWriter
<1>5. loop' \in [ready : Seq(Event), prio : Seq(Waiting)] /\ loop'.ready = Tail(loop.ready)
      /\ loop'.prio = loop.prio
  BY <1>2, <1>3, <1>4
<1>6. q \in Session /\ Fine(q) /\ (sess[c].r = "ready" => q.r = "ready") /\ q.freed = sess[c].freed
  <2>1. /\ p \in Session /\ p.wfd = sess[c].wfd /\ p.r = sess[c].r /\ p.freed = sess[c].freed
        /\ p.timer = sess[c].timer /\ p.rfd = sess[c].rfd /\ p.out = sess[c].out
    BY <1>1 DEF Session
  <2> HIDE DEF p
  <2>2. CASE ~p.wfd BY <1>1, <2>1, <2>2 DEF Fine
  <2>3. CASE p.wfd /\ fails
    <3>1. q = CloseWriter(CloseReader(p)) BY <2>3
    <3>2. q \in Session
      <4>1. CloseReader(p) \in Session BY <2>1 DEF Session, CloseReader
      <4>2. QED BY <3>1, <4>1 DEF Session, CloseWriter
    <3>3. /\ ~q.wfd /\ ~q.rfd /\ q.freed = p.freed /\ q.timer = p.timer
          /\ q.r = IF p.r = "ready" THEN "ready" ELSE "none"
      BY <2>1, <3>1 DEF Session, CloseReader, CloseWriter
    <3>4. QED BY <1>1, <2>1, <3>2, <3>3 DEF Fine
  <2>4. CASE p.wfd /\ ~fails
    <3>1. q = [p EXCEPT !.out = 0] BY <2>4
    <3>2. QED BY <1>1, <2>1, <3>1 DEF Session, Fine
  <2>5. QED BY <2>2, <2>3, <2>4
<1> HIDE DEF q
<1>7. QED BY <1>2, <1>4, <1>5, <1>6, Touched

-----------------------------------------------------------------------------
(* The first of the ready events is a reader.  It runs when no command     *)
(* waits, and it is not in what is left of the ready events.               *)
LEMMA ReaderTaken ==
  ASSUME CInv, NEW c \in Sessions, IsNext(Reader(c)), NEW q \in Session, Fine(q),
         sess' = [sess EXCEPT ![c] = q], DOMAIN inst' = Commands,
         loop' \in [ready : Seq(Event), prio : Seq(Waiting)], loop'.ready = Tail(loop.ready)
  PROVE  CType' /\ ReadyOnce' /\ ReadyReader' /\ \A d \in Sessions : Fine(sess'[d])
<1>1. loop.ready \in Seq(Event) /\ loop.ready # <<>> /\ loop.ready[1] = Reader(c)
  BY HeadTailProperties DEF CInv, CType, IsNext
<1>2. \A i \in DOMAIN loop'.ready : /\ i \in Nat \ {0} /\ i + 1 \in DOMAIN loop.ready
                                    /\ loop'.ready[i] = loop.ready[i + 1]
  BY <1>1, HeadTailProperties
<1>3. 1 \in DOMAIN loop.ready BY <1>1
<1>4. CType'
  <2>1. sess \in [Sessions -> Session] BY DEF CInv, CType
  <2>2. sess' \in [Sessions -> Session] BY <2>1
  <2>3. QED BY <2>2, Zenon DEF CType
<1>5. ReadyOnce'
  <2> SUFFICES ASSUME NEW i \in DOMAIN loop'.ready, NEW j \in DOMAIN loop'.ready,
                      loop'.ready[i] = loop'.ready[j]
               PROVE  i = j
    BY Zenon DEF ReadyOnce
  <2>1. loop.ready[i + 1] = loop.ready[j + 1] /\ i + 1 \in DOMAIN loop.ready
        /\ j + 1 \in DOMAIN loop.ready /\ i \in Nat /\ j \in Nat
    BY <1>2
  <2>2. i + 1 = j + 1 BY <2>1, Zenon DEF CInv, ReadyOnce
  <2>3. QED BY <2>1, <2>2
<1>6. ReadyReader'
  <2> SUFFICES ASSUME NEW d \in Sessions, NEW i \in DOMAIN loop'.ready, loop'.ready[i] = Reader(d)
               PROVE  sess'[d].r = "ready"
    BY DEF ReadyReader
  <2>1. loop.ready[i + 1] = Reader(d) /\ i + 1 \in DOMAIN loop.ready BY <1>2
  <2>2. d # c
    <3>1. i + 1 # 1 BY <1>2
    <3>2. QED BY <1>1, <1>3, <2>1, <3>1 DEF CInv, ReadyOnce
  <2>3. sess'[d] = sess[d] BY <2>2 DEF CInv, CType
  <2>4. QED BY <2>1, <2>3 DEF CInv, ReadyReader
<1>7. \A d \in Sessions : Fine(sess'[d]) BY DEF CInv, CType
<1>8. QED BY <1>4, <1>5, <1>6, <1>7

(* The commands of a batch are those of the session that has sent it.      *)
LEMMA Batch ==
  ASSUME CInv, MaxBatch \in Nat, NEW c \in Sessions, NEW lines \in Batches(c),
         ~sess'[c].freed, PrioritiesDone, Queued(c, lines)
  PROVE  Commanded' /\ loop'.prio \in Seq(Waiting) /\ DOMAIN inst' = Commands
<1>1. PICK n \in Nat : lines \in [1 .. n -> Found(sess[c].level)] BY DEF Batches
<1> DEFINE cmd(i) == Command(sess[c].level, lines[i])
           added == [i \in 1 .. n |-> [cmd |-> cmd(i), by |-> c]]
<1>2. \A i \in 1 .. n : cmd(i) \in Commands
  <2> SUFFICES ASSUME NEW i \in 1 .. n PROVE cmd(i) \in Commands OBVIOUS
  <2>1. lines[i] \in Line BY <1>1 DEF Found
  <2>2. lines[i][1] \in {"show", "configure", "exit"} BY <2>1 DEF Line
  <2>3. QED BY <2>2 DEF Command, Commands
<1>3. loop.prio = <<>> BY DEF PrioritiesDone
<1>4. loop'.prio = <<>> \o added BY <1>1, <1>3 DEF Queued, CInv, CType
<1>5. added \in Seq(Waiting) BY <1>2 DEF Waiting
<1>6. loop'.prio = added BY <1>4, <1>5, ConcatEmptySeq
<1>7. \A i \in 1 .. n : inst'[cmd(i)].node = c
  <2> SUFFICES ASSUME NEW i \in 1 .. n PROVE inst'[cmd(i)].node = c OBVIOUS
  <2>1. i \in Named(c, lines, cmd(i)) BY <1>1 DEF Named
  <2>2. inst'[cmd(i)] = [node |-> c, arg |-> lines[Max(Named(c, lines, cmd(i)))][2]]
    BY <1>2, <2>1 DEF Queued
  <2>3. QED BY <2>2
<1>8. Commanded' BY <1>6, <1>7 DEF Commanded
<1>9. QED BY <1>5, <1>6, <1>8 DEF Queued

(* A reader runs: it ends, or it queues what it has read.                  *)
LEMMA ReaderStep ==
  ASSUME CInv, MaxBatch \in Nat, NEW c \in Sessions, NEW lines \in Batches(c), RunReader(c, lines)
  PROVE  CInv'
<1>1. sess[c] \in Session /\ Fine(sess[c]) BY DEF CInv, CType
<1>2. IsNext(Reader(c)) /\ PrioritiesDone BY DEF RunReader
<1>3. loop \in [ready : Seq(Event), prio : Seq(Waiting)] /\ Tail(loop.ready) \in Seq(Event)
  BY <1>2, HeadTailProperties DEF IsNext, CInv, CType
<1>4. CASE NoInput(c)
  <2>1. /\ Exit(sess[c]) \in Session /\ Fine(Exit(sess[c])) /\ ~Exit(sess[c]).rfd
    BY <1>1, Ended
  <2>2. PICK p : p = Exit(sess[c]) OBVIOUS
  <2>3. PICK q : q = [Freed(p) EXCEPT !.r = "none"] OBVIOUS
  <2>4. PICK f : f = Freed(p) OBVIOUS
  <2>5. f \in Session /\ ~f.timer /\ ~f.rfd /\ f.out = p.out /\ f.wfd = p.wfd /\ f.w = p.w
    BY <2>1, <2>2, <2>4 DEF Session, Freed
  <2>6. q \in Session /\ ~q.timer /\ ~q.rfd /\ q.r = "none"
        /\ q.out = f.out /\ q.wfd = f.wfd /\ q.w = f.w
    BY <2>3, <2>4, <2>5 DEF Session
  <2>7. Fine(q) BY <2>1, <2>2, <2>5, <2>6 DEF Fine
  <2>8. sess' = [sess EXCEPT ![c] = q] /\ inst' = inst /\ loop' = [loop EXCEPT !.ready = Tail(@)]
    BY <1>4, <2>2, <2>3 DEF RunReader
  <2>9. /\ loop' \in [ready : Seq(Event), prio : Seq(Waiting)] /\ loop'.ready = Tail(loop.ready)
        /\ loop'.prio = <<>>
    BY <1>2, <1>3, <2>8 DEF PrioritiesDone
  <2>10. DOMAIN inst' = Commands BY <2>8 DEF CInv, CType
  <2>11. Commanded' BY <2>9 DEF Commanded
  <2>12. QED BY <1>2, <2>6, <2>7, <2>8, <2>9, <2>10, <2>11, ReaderTaken DEF CInv
<1>5. CASE ~NoInput(c)
  <2>1. ~sess[c].freed /\ sess[c].rfd BY <1>1, <1>5 DEF NoInput, Fine, Session
  <2>2. PICK p : p = [sess[c] EXCEPT !.r = "reads", !.reads = @ + 1] OBVIOUS
  <2>3. p \in Session /\ ~p.freed
    <3>1. sess[c].reads + 1 \in Nat BY <1>1 DEF Session
    <3>2. PICK k \in Nat : p = [sess[c] EXCEPT !.r = "reads", !.reads = k] BY <2>2, <3>1
    <3>3. p \in Session BY <1>1, <3>2 DEF Session
    <3>4. p.freed = sess[c].freed BY <1>1, <3>2 DEF Session
    <3>5. QED BY <2>1, <3>3, <3>4
  <2>4. p.out = sess[c].out /\ p.wfd = sess[c].wfd /\ p.w = sess[c].w BY <1>1, <2>2 DEF Session
  <2>5. Fine(p) BY <1>1, <2>3, <2>4 DEF Fine
  <2>6. PICK q : q = WriteBuffer(p) OBVIOUS
  <2>7. q \in Session /\ Fine(q) /\ q.freed = p.freed BY <2>3, <2>5, <2>6, Written
  <2>8. sess' = [sess EXCEPT ![c] = q] /\ Queued(c, lines) BY <1>5, <2>2, <2>6 DEF RunReader
  <2>9. ~sess'[c].freed BY <2>3, <2>7, <2>8 DEF CInv, CType
  <2>10. Commanded' /\ loop'.prio \in Seq(Waiting) /\ DOMAIN inst' = Commands
    BY <1>2, <2>8, <2>9, Batch
  <2>11. loop' \in [ready : Seq(Event), prio : Seq(Waiting)] /\ loop'.ready = Tail(loop.ready)
    BY <1>3, <2>8, <2>10 DEF Queued
  <2>12. QED BY <1>2, <2>7, <2>8, <2>10, <2>11, ReaderTaken DEF CInv
<1>6. QED BY <1>4, <1>5

-----------------------------------------------------------------------------
(* What select() finds is each event once, the readers before the writers. *)
LEMMA SelectStep ==
  ASSUME CInv, IsFiniteSet(Sessions), NEW R \in SUBSET Sessions, NEW W \in SUBSET Sessions,
         Select(R, W)
  PROVE  CInv'
<1> DEFINE m == Cardinality(R)
           n == Cardinality(W)
           reads  == [i \in 1 .. m |-> Reader(SetToSeq(R)[i])]
           writes == [i \in 1 .. n |-> Writer(SetToSeq(W)[i])]
<1>1. IsFiniteSet(R) /\ IsFiniteSet(W) BY FS_Subset
<1>2. m \in Nat /\ n \in Nat BY <1>1, FS_CardinalityType
<1>3. /\ SetToSeq(R) \in [1 .. m -> R]
      /\ \A i, j \in 1 .. m : SetToSeq(R)[i] = SetToSeq(R)[j] => i = j
  BY <1>1, Ordered
<1>4. /\ SetToSeq(W) \in [1 .. n -> W]
      /\ \A i, j \in 1 .. n : SetToSeq(W)[i] = SetToSeq(W)[j] => i = j
  BY <1>1, Ordered
<1>5. reads \in Seq(Event) /\ Len(reads) = m
  <2>1. \A c \in R : Reader(c) \in Event BY DEF Event, Reader
  <2>2. reads \in [1 .. m -> Event] BY <1>3, <2>1
  <2> HIDE DEF reads, m
  <2>3. QED BY <1>2, <2>2
<1>6. writes \in Seq(Event) /\ Len(writes) = n
  <2>1. \A c \in W : Writer(c) \in Event BY DEF Event, Writer
  <2>2. writes \in [1 .. n -> Event] BY <1>4, <2>1
  <2> HIDE DEF writes, n
  <2>3. QED BY <1>2, <2>2
<1>7. /\ loop' = [loop EXCEPT !.ready = reads \o writes] /\ loop.prio = <<>> /\ inst' = inst
      /\ loop \in [ready : Seq(Event), prio : Seq(Waiting)]
  BY DEF Select, PrioritiesDone, CInv, CType
<1> HIDE DEF m, n
<1>8. \A i \in 1 .. m : reads[i].kind = "reader" /\ reads[i].of = SetToSeq(R)[i] BY DEF Reader
<1>9. \A i \in 1 .. n : writes[i].kind = "writer" /\ writes[i].of = SetToSeq(W)[i] BY DEF Writer
<1> HIDE DEF reads, writes
<1>10. /\ loop'.ready \in Seq(Event) /\ DOMAIN loop'.ready = 1 .. (m + n)
       /\ \A i \in 1 .. (m + n) : loop'.ready[i] = IF i <= m THEN reads[i] ELSE writes[i - m]
  BY <1>2, <1>5, <1>6, <1>7, ConcatProperties
<1>11. \A i \in 1 .. (m + n) :
         \/ i \in 1 .. m /\ loop'.ready[i].kind = "reader" /\ loop'.ready[i].of = SetToSeq(R)[i]
         \/ i - m \in 1 .. n /\ loop'.ready[i].kind = "writer"
            /\ loop'.ready[i].of = SetToSeq(W)[i - m]
  BY <1>2, <1>8, <1>9, <1>10
<1>12. ReadyOnce'
  <2> SUFFICES ASSUME NEW i \in 1 .. (m + n), NEW j \in 1 .. (m + n), loop'.ready[i] = loop'.ready[j]
               PROVE  i = j
    BY <1>10 DEF ReadyOnce
  <2>1. CASE i \in 1 .. m /\ loop'.ready[i].kind = "reader" /\ loop'.ready[i].of = SetToSeq(R)[i]
    BY <1>3, <1>11, <2>1
  <2>2. CASE i - m \in 1 .. n /\ loop'.ready[i].kind = "writer"
             /\ loop'.ready[i].of = SetToSeq(W)[i - m]
    <3>1. j - m \in 1 .. n /\ loop'.ready[j].of = SetToSeq(W)[j - m] BY <1>11, <2>2
    <3>2. i - m = j - m BY <1>4, <2>2, <3>1
    <3>3. QED BY <1>2, <3>2
  <2>3. QED BY <1>11, <2>1, <2>2
<1>13. \A c \in Sessions : sess'[c] = [sess[c] EXCEPT !.r = IF c \in R THEN "ready" ELSE @,
                                                     !.w = IF c \in W THEN "ready" ELSE @]
  BY DEF Select
<1>14. ASSUME NEW c \in Sessions
       PROVE  /\ sess'[c] \in Session /\ Fine(sess'[c])
              /\ c \in R => sess'[c].r = "ready"
  <2>1. sess[c] \in Session /\ Fine(sess[c]) BY DEF CInv, CType
  <2>2. c \in R => sess[c].r = "reads" BY DEF Select
  <2>3. PICK p : p = sess[c] OBVIOUS
  <2>4. PICK r, w : /\ r = IF c \in R THEN "ready" ELSE p.r
                    /\ w = IF c \in W THEN "ready" ELSE p.w
    OBVIOUS
  <2>5. PICK q : q = [p EXCEPT !.r = r, !.w = w] OBVIOUS
  <2>6. sess'[c] = q BY <1>13, <2>3, <2>4, <2>5
  <2>7. r \in {"none", "reads", "ready"} /\ w \in {"none", "writes", "ready"}
    BY <2>1, <2>3, <2>4 DEF Session
  <2>8. /\ q \in Session /\ q.r = r /\ q.w = w /\ q.out = p.out /\ q.wfd = p.wfd
        /\ q.freed = p.freed /\ q.timer = p.timer /\ q.rfd = p.rfd
    BY <2>1, <2>3, <2>5, <2>7 DEF Session
  <2>9. Fine(q) BY <2>1, <2>2, <2>3, <2>4, <2>8 DEF Fine
  <2>10. QED BY <2>3, <2>4, <2>6, <2>8, <2>9
<1>15. ReadyReader'
  <2> SUFFICES ASSUME NEW c \in Sessions, NEW i \in 1 .. (m + n), loop'.ready[i] = Reader(c)
               PROVE  sess'[c].r = "ready"
    BY <1>10 DEF ReadyReader
  <2>1. loop'.ready[i].kind = "reader" /\ loop'.ready[i].of = c BY DEF Reader
  <2>2. c \in R BY <1>3, <1>11, <2>1
  <2>3. c \in R => sess'[c].r = "ready" BY <1>14
  <2>4. QED BY <2>2, <2>3
<1>16. loop' \in [ready : Seq(Event), prio : Seq(Waiting)] /\ loop'.prio = <<>>
  <2>1. reads \o writes \in Seq(Event) BY <1>5, <1>6, ConcatProperties
  <2>2. QED BY <1>7, <2>1
<1>17. CType'
  <2>1. PICK s : s = sess' /\ s = [c \in Sessions |-> s[c]] BY DEF Select
  <2>2. \A c \in Sessions : s[c] \in Session BY <1>14, <2>1
  <2>3. sess' \in [Sessions -> Session] BY <2>1, <2>2
  <2>4. QED BY <1>7, <1>16, <2>3 DEF CInv, CType
<1>18. Commanded' BY <1>16 DEF Commanded
<1>19. \A c \in Sessions : Fine(sess'[c]) BY <1>14
<1>20. QED BY <1>12, <1>19, <1>15, <1>17, <1>18 DEF CInv

(* No session has begun, and nothing waits.                                *)
LEMMA InitStep == Init => CInv
<1> SUFFICES ASSUME Init PROVE CInv OBVIOUS
<1>1. Unborn \in Session /\ Fine(Unborn) BY DEF Unborn, Session, Fine
<1>2. sess = [c \in Sessions |-> Unborn] /\ loop = [ready |-> <<>>, prio |-> <<>>]
      /\ DOMAIN inst = Commands
  BY DEF Init
<1>3. CType BY <1>1, <1>2 DEF CType
<1>4. loop.ready = <<>> /\ loop.prio = <<>> BY <1>2
<1>5. ReadyOnce /\ ReadyReader /\ Commanded BY <1>4 DEF ReadyOnce, ReadyReader, Commanded
<1>6. QED BY <1>1, <1>2, <1>3, <1>5 DEF CInv

-----------------------------------------------------------------------------
(* What sessions share does not mix them up: a writer with something to    *)
(* write is in the loop, a reader that has been deleted is not in use, and *)
(* no command that waits runs for another session than the one that has    *)
(* queued it (CLIWriter::WriteBuffer, ~CLIReader, CLICommand::Execute).    *)
THEOREM SessionsStayApart ==
  ASSUME IsFiniteSet(Sessions), MaxBatch \in Nat
  PROVE  Spec => []SessionsApart
<1>1. CInv /\ [Next]_cliVars => CInv'
  <2> SUFFICES ASSUME CInv, [Next]_cliVars PROVE CInv' OBVIOUS
  <2>1. CASE \E R, W \in SUBSET Sessions : Select(R, W) BY <2>1, SelectStep
  <2>2. CASE \E c \in Sessions : \E lines \in Batches(c) : RunReader(c, lines) BY <2>2, ReaderStep
  <2>3. CASE \E c \in Sessions : \E fails \in BOOLEAN : RunWriter(c, fails) BY <2>3, WriterStep
  <2>4. CASE RunCommand BY <2>4, CommandStep
  <2>5. CASE \E c \in Sessions : Accept(c) \/ Hangup(c) \/ RunTimer(c)
    BY <2>5, AcceptStep, HangupStep, TimerStep
  <2>6. CASE UNCHANGED cliVars
    BY <2>6 DEF cliVars, CInv, CType, ReadyOnce, ReadyReader, Commanded
  <2>7. QED BY <2>1, <2>2, <2>3, <2>4, <2>5, <2>6 DEF Next, LoopNext
<1>2. CInv => SessionsApart
  <2> SUFFICES ASSUME CInv PROVE SessionsApart OBVIOUS
  <2>1. OutputIsWritten BY DEF CInv, Fine, OutputIsWritten
  <2>2. \A i \in DOMAIN loop.prio : /\ inst[loop.prio[i].cmd].node = loop.prio[i].by
                                    /\ ~sess[loop.prio[i].by].freed
    BY DEF CInv, Commanded
  <2>3. NoMixing BY <2>2 DEF NoMixing
  <2>4. FreedIsUnused BY <2>2 DEF CInv, Fine, FreedIsUnused
  <2>5. QED BY <2>1, <2>3, <2>4 DEF SessionsApart
<1>3. QED BY <1>1, <1>2, InitStep, PTL DEF Spec
=============================================================================

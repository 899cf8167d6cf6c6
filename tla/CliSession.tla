----------------------------- MODULE CliSession ------------------------------
(***************************************************************************)
(* The sessions of a command line (narb/cli.cc, rce/rce_cli.cc) on the     *)
(* event loop (event.cc): a session has a reader, a writer that is in the  *)
(* loop only while it has something to write, and a timer.  The command    *)
(* objects are shared by all sessions: a line that names one leaves its    *)
(* session and its arguments in it and puts it on the list of priority     *)
(* events.                                                                 *)
(*                                                                         *)
(* How a line comes about is the subject of module LineEditor.             *)
(***************************************************************************)
EXTENDS Integers, Sequences, SequencesExt, FiniteSets, FiniteSetsExt

CONSTANTS
  Sessions,    (* CLI sessions: a session is used once                     *)
  Args,        (* arguments of the command "show"                          *)
  MaxReads,    (* bound: how often there is input                          *)
  MaxBatch     (* bound: lines that one read returns                       *)

(* Lines: what a client may type.  "configure" enters a command level,     *)
(* "exit" leaves it ("up") or, at the root, the session.                   *)
Line == {<<"show", a>> : a \in Args} \cup {<<"configure", 0>>, <<"exit", 0>>}
Commands == {"show", "configure", "exit", "up"}

VARIABLES
  sess,     (* of each session, see Unborn                                 *)
  loop,     (* the loop: ready, the events that select() has found, and    *)
            (* prio, the priority events                                   *)
  inst,     (* the command objects: cli_node (its session), argv           *)
  aborted   (* an assertion has failed                                     *)

cliVars == <<sess, loop, inst, aborted>>

(* peer: the client; rfd, wfd: there is a socket; r, w: the list that the  *)
(* reader and the writer are on; out: length of buf_queue, 2 being  *)
(* "more than 1"; timer: on the list; freed: the reader has been deleted,  *)
(* with its timer and its nodes.                                           *)
Unborn == [peer |-> "none", reads |-> 0, rfd |-> FALSE, wfd |-> FALSE, r |-> "none",
           w |-> "none", out |-> 0, status |-> "normal", timer |-> FALSE, level |-> 0,
           freed |-> FALSE]

Init ==
  /\ sess = [c \in Sessions |-> Unborn]
  /\ loop = [ready |-> <<>>, prio |-> <<>>]
  /\ inst = [x \in Commands |-> [node |-> "none", arg |-> 0]]
  /\ aborted = FALSE

Reader(c) == [kind |-> "reader", of |-> c]
Writer(c) == [kind |-> "writer", of |-> c]

-----------------------------------------------------------------------------
(* Operators on the state p of a session.                                  *)

More(n) == IF n = 2 THEN 2 ELSE n + 1

(* Mutant: a writer is scheduled with the second line.                     *)
WriteBuffer_Late(p) ==
  IF ~p.wfd THEN p
  ELSE [p EXCEPT !.out = More(@), !.w = IF p.out = 1 /\ @ = "none" THEN "writes" ELSE @]
WriteBuffer(p) ==
  IF ~p.wfd THEN p
  ELSE [p EXCEPT !.out = More(@), !.w = IF p.out = 0 THEN "writes" ELSE @]

(* Selector::Close takes an event from the lists of sockets, not from that *)
(* of ready events.                                                        *)
CloseReader(p) == [p EXCEPT !.rfd = FALSE, !.r = IF @ = "ready" THEN @ ELSE "none"]
CloseWriter(p) == [p EXCEPT !.wfd = FALSE, !.w = IF @ = "ready" THEN @ ELSE "none"]

(* Mutant: the reader is left alone.                                       *)
Exit_WriterOnly(p) == CloseWriter([p EXCEPT !.status = "close"])
Exit(p) == LET q == [p EXCEPT !.status = "close"]
           IN  IF p.rfd THEN CloseReader(CloseWriter(q)) ELSE q

(* CLIReader::~CLIReader.                                                  *)
Freed_TimerLeft(p) == [p EXCEPT !.freed = TRUE]   (* mutant                *)
Freed(p) == [p EXCEPT !.freed = TRUE, !.timer = FALSE]

-----------------------------------------------------------------------------

Alive == ~aborted

(* EventMaster::Fetch has no priority event left.  Mutant: it does not     *)
(* look for one first.                                                     *)
PrioritiesDone_Not == TRUE
PrioritiesDone == loop.prio = <<>>

(* CLIServer::Run, with InitSession and InitTerminal.                      *)
Accept(c) ==
  /\ Alive /\ loop.ready = <<>> /\ PrioritiesDone /\ sess[c] = Unborn
  /\ sess' = [sess EXCEPT ![c] = WriteBuffer([Unborn EXCEPT !.peer = "up", !.rfd = TRUE,
                !.wfd = TRUE, !.r = "reads", !.timer = TRUE])]
  /\ UNCHANGED <<loop, inst, aborted>>

Hangup(c) ==
  /\ sess[c].peer = "up"
  /\ sess' = [sess EXCEPT ![c].peer = "gone"]
  /\ UNCHANGED <<loop, inst, aborted>>

Reads == MapThenSumSet(LAMBDA c : sess[c].reads, Sessions)

(* EventMaster::Fetch has nothing to do but select(): R have input, and W  *)
(* room for output.  Readers come first.                                   *)
Select(R, W) ==
  /\ Alive /\ loop.ready = <<>> /\ PrioritiesDone /\ R \cup W # {}
  /\ \A c \in R : sess[c].r = "reads" /\ (sess[c].peer = "up" => Reads < MaxReads)
  /\ \A c \in W : sess[c].w = "writes"
  /\ loop' = [loop EXCEPT !.ready = [i \in 1 .. Cardinality(R) |-> Reader(SetToSeq(R)[i])]
                                    \o [i \in 1 .. Cardinality(W) |-> Writer(SetToSeq(W)[i])]]
  /\ sess' = [c \in Sessions |-> [sess[c] EXCEPT !.r = IF c \in R THEN "ready" ELSE @,
                                                 !.w = IF c \in W THEN "ready" ELSE @]]
  /\ UNCHANGED <<inst, aborted>>

(* The lines of a read, at the level that the session has then: the        *)
(* commands are found and queued, but none has run yet.  A line that names *)
(* no command of that level leaves nothing behind but a message.  The      *)
(* object of a command has the session and the arguments of the last line. *)
Command(level, ln) == IF level = 1 /\ ln[1] = "exit" THEN "up" ELSE ln[1]
Found(level) == {ln \in Line : level = 0 \/ ln[1] = "exit"}
Batches(c) == UNION {[1 .. n -> Found(sess[c].level)] : n \in 0 .. MaxBatch}
Named(c, lines, x) == {i \in DOMAIN lines : Command(sess[c].level, lines[i]) = x}
Queued(c, lines) ==
  /\ inst' = [x \in Commands |->
       IF Named(c, lines, x) = {} THEN inst[x]
       ELSE [node |-> c, arg |-> lines[Max(Named(c, lines, x))][2]]]
  /\ loop' = [loop EXCEPT !.ready = Tail(@),
       !.prio = @ \o [i \in DOMAIN lines |-> [cmd |-> Command(sess[c].level, lines[i]), by |-> c]]]

(* CLIReader::Run, and what the loop does with the reader after it.        *)
NoInput(c) == ~sess[c].rfd \/ sess[c].status = "close" \/ sess[c].peer = "gone"
IsNext(e) == loop.ready # <<>> /\ Head(loop.ready) = e

RunReader(c, lines) ==
  /\ Alive /\ PrioritiesDone /\ IsNext(Reader(c))
  /\ IF NoInput(c)
     THEN /\ sess' = [sess EXCEPT ![c] = [Freed(Exit(sess[c])) EXCEPT !.r = "none"]]
          /\ loop' = [loop EXCEPT !.ready = Tail(@)] /\ inst' = inst
     ELSE /\ sess' = [sess EXCEPT ![c] = WriteBuffer([sess[c] EXCEPT !.r = "reads", !.reads = @ + 1])]
          /\ Queued(c, lines)
  /\ UNCHANGED aborted

(* CLIWriter::Run: all of the queue is written, or the writing fails.      *)
RunWriter(c, fails) ==
  /\ Alive /\ PrioritiesDone /\ IsNext(Writer(c))
  /\ fails => sess[c].peer = "gone"
  /\ loop' = [loop EXCEPT !.ready = Tail(@)]
  /\ aborted' = ~sess[c].wfd
  /\ LET p == [sess[c] EXCEPT !.w = "none"]
     IN  sess' = [sess EXCEPT ![c] =
           IF ~p.wfd THEN p
           ELSE IF fails THEN CloseWriter(CloseReader(p))
           ELSE [p EXCEPT !.out = 0]]
  /\ inst' = inst

(* A command runs: it writes to its session, and may change its level.     *)
RunCommand ==
  /\ Alive /\ loop.prio # <<>>
  /\ LET x == Head(loop.prio).cmd
         c == inst[x].node
         p == sess[c]
     IN  /\ loop' = [loop EXCEPT !.prio = Tail(@)]
         /\ sess' = [sess EXCEPT ![c] =
              CASE x = "show"      -> WriteBuffer(p)
                [] x = "configure" -> WriteBuffer([p EXCEPT !.level = 1])
                [] x = "up"        -> WriteBuffer([p EXCEPT !.level = 0])
                [] x = "exit"      -> Exit(p)]
  /\ UNCHANGED <<inst, aborted>>

(* CLITimer::Run: the client is told, and the session ends.                *)
RunTimer(c) ==
  /\ Alive /\ PrioritiesDone /\ sess[c].timer
  /\ sess' = [sess EXCEPT ![c] = [Exit(sess[c]) EXCEPT !.timer = FALSE]]
  /\ UNCHANGED <<loop, inst, aborted>>

LoopNext ==
  \/ \E R, W \in SUBSET Sessions : Select(R, W)
  \/ \E c \in Sessions : (\E lines \in Batches(c) : RunReader(c, lines))
                         \/ (\E fails \in BOOLEAN : RunWriter(c, fails))
  \/ RunCommand
Next == LoopNext \/ \E c \in Sessions : Accept(c) \/ Hangup(c) \/ RunTimer(c)

Spec == Init /\ [][Next]_cliVars

(* The loop goes on, select() finds every socket that has something in the *)
(* end, and a timer runs once it is due.                                   *)
SelectAll ==
  \E R, W \in SUBSET Sessions :
    /\ Select(R, W)
    /\ \A c \in Sessions : /\ sess[c].r = "reads" /\ sess[c].peer = "gone" => c \in R
                           /\ sess[c].w = "writes" => c \in W
RunEvent(c) == (\E lines \in Batches(c) : RunReader(c, lines)) \/ \E f \in BOOLEAN : RunWriter(c, f)
Fairness ==
  /\ WF_cliVars(SelectAll) /\ WF_cliVars(RunCommand)
  /\ \A c \in Sessions : WF_cliVars(RunEvent(c)) /\ WF_cliVars(RunTimer(c))
LiveSpec == Spec /\ Fairness

-----------------------------------------------------------------------------
(* Properties.                                                             *)

(* A writer with something to write is in the loop: WriteBuffer schedules  *)
(* it only for the first line of the queue.                                *)
OutputIsWritten ==
  \A c \in Sessions : sess[c].out > 0 /\ sess[c].wfd => sess[c].w # "none"

(* A reader is deleted when nothing refers to it any more, neither a list  *)
(* of the loop nor its timer nor a command that waits to run on its nodes. *)
FreedIsUnused ==
  \A c \in Sessions : sess[c].freed =>
    /\ sess[c].r = "none" /\ ~sess[c].timer /\ ~sess[c].rfd
    /\ \A i \in DOMAIN loop.prio : inst[loop.prio[i].cmd].node # c

(* The command objects are shared, but a command never runs for another    *)
(* session than the one whose line has queued it.                          *)
NoMixing == \A i \in DOMAIN loop.prio : inst[loop.prio[i].cmd].node = loop.prio[i].by

(* The three together: what sessions share does not mix them up            *)
(* (CLIWriter::WriteBuffer, ~CLIReader, CLICommand::Execute).              *)
SessionsApart == OutputIsWritten /\ FreedIsUnused /\ NoMixing

(* The writer runs with a socket: assert (fd > 0), CLIWriter::Run.  A       *)
(* session that ends, by a hangup, its timer or "exit", when select() has  *)
(* found its writer ready leaves it on the list of ready events.           *)
WriterHasSocket == ~aborted

(* As long as no assertion fails (WriterHasSocket: then the daemon is      *)
(* gone), a session whose client has gone, or is idle, is closed in the    *)
(* end: of the sessions that there ever were none is left.                 *)
Closed(c) == ~sess[c].rfd /\ ~sess[c].wfd
SessionEnds ==
  []WriterHasSocket => <>[](\A c \in Sessions : sess[c].peer # "none" => Closed(c))
=============================================================================

------------------------------ MODULE MCNarb ------------------------------
(* Components of NARB that keep to themselves, each on its own: the store   *)
(* of confirmation IDs, the clients of RCEs, the sessions of the command    *)
(* line, and its line editor. Only the part that was chosen at the start    *)
(* moves, the others stay as they are.                                      *)
EXTENDS QconfStore, Sequences, TLC

CONSTANTS
  k1, k2,
  Sessions, Args, MaxReads, MaxBatch,                  \* CliSession
  Chars, Password, Prompt, Columns, Depth, MaxLine,    \* LineEditor
  MaxClients, MaxConns, MaxPosts                       \* ApiClient

ASSUME SessionAssumption == IsFiniteSet(Sessions) /\ MaxBatch \in Nat
ASSUME ClientAssumption == MaxClients \in Nat /\ MaxConns \in Nat
(* A line and its prompt fit into one row.                                  *)
ASSUME RowAssumption ==
  /\ Prompt \in Nat /\ MaxLine \in Nat /\ Columns \in Nat /\ Depth \in Nat \ {0}
  /\ Prompt + MaxLine < Columns % 256

VARIABLES
  part,
  sess, loop, inst, aborted,                     \* CliSession
  ed,                                            \* LineEditor
  reads, writes, ready, readfd, writefd, cl, cur, clients, deleted, reused,
  conns, open, up, inbox, rcvd, posted           \* ApiClient

(* Two confirmation IDs, one of an ERO that goes on into a next domain.     *)
MCKey     == {k1, k2}
MCTransit == {k1}

MCPassword == <<"a">>

Cli == INSTANCE CliSession
Editor == INSTANCE LineEditor
Api == INSTANCE ApiClient WITH made <- clients

-----------------------------------------------------------------------------
Parts == {"qconf", "cli", "editor", "api"}

qconfVars == vars
cliVars   == <<sess, loop, inst, aborted>>
apiVars   == <<reads, writes, ready, readfd, writefd, cl, cur, clients, deleted, reused,
               conns, open, up, inbox, rcvd, posted>>

PartsInit ==
  /\ part \in Parts
  /\ Init /\ (part # "qconf" => ent = [e \in Ids |-> Blank(k1)])
  /\ Cli!Init /\ Editor!Init /\ Api!Init

OnlyQconf  == part = "qconf"  /\ UNCHANGED <<part, cliVars, ed, apiVars>>
OnlyCli    == part = "cli"    /\ UNCHANGED <<part, qconfVars, ed, apiVars>>
OnlyEditor == part = "editor" /\ UNCHANGED <<part, qconfVars, cliVars, apiVars>>
OnlyApi    == part = "api"    /\ UNCHANGED <<part, qconfVars, cliVars, ed>>

PartsNext ==
  \/ OnlyQconf /\ Next
  \/ OnlyCli /\ Cli!Next
  \/ OnlyEditor /\ Editor!Next
  \/ OnlyApi /\ Api!Next

partsVars == <<part, qconfVars, cliVars, ed, apiVars>>

(* The fairness of each part, where it moves: time passes, and the event    *)
(* loop goes on, with what select() has found and with the timers.          *)
Fairness ==
  /\ WF_partsVars(OnlyQconf /\ Tick)
  /\ \A e \in Ids : WF_partsVars(OnlyQconf /\ RunTimer(e))
  /\ WF_partsVars(OnlyApi /\ Api!Step)
  /\ WF_partsVars(OnlyCli /\ Cli!SelectAll) /\ WF_partsVars(OnlyCli /\ Cli!RunCommand)
  /\ \A c \in Sessions : /\ WF_partsVars(OnlyCli /\ Cli!RunEvent(c))
                        /\ WF_partsVars(OnlyCli /\ Cli!RunTimer(c))

PartsSpec == PartsInit /\ [][PartsNext]_partsVars /\ Fairness

-----------------------------------------------------------------------------
(* A session of the command line that has something to write is in the      *)
(* event loop, a reader that was deleted is in no list and has no timer,    *)
(* and a command runs for the session that typed it, though the objects of  *)
(* the commands are shared (CLIWriter::WriteBuffer, CLIReader::~CLIReader,  *)
(* CLIReader::ExecuteCommand).                                              *)
SessionsApart == part = "cli" => Cli!SessionsApart

(* A session whose client has gone, or is idle, is closed in the end, if no *)
(* assertion fails before (CLITimer::Run, CLIReader::Run, CLIWriter::Run).  *)
SessionEnds == Cli!SessionEnds

(* The terminal shows the line that is edited, the cursor where the next    *)
(* key acts (CLIReader::InsertChar, DeleteChar, PreviousLine, ...).         *)
ScreenShowsLine == part = "editor" => Editor!ScreenShowsLine

(* A client of an RCE that is connected is in the loop, and once, for what  *)
(* it has to read and to write, and what the RCE gets over a connection is  *)
(* what was posted for it, in order (EventMaster::Schedule, APIWriter).     *)
InOrder == part = "api" => Api!OneList /\ Api!NothingMissed /\ Api!InOrder

(* It gets all of it, unless the connection breaks or its socket stays full for *)
(* ever (APIWriter::Run).                                                   *)
Sent ==
  (\A n \in Api!Conns : SF_partsVars(OnlyApi /\ Api!Writable(n))) => Api!AllSent
=============================================================================

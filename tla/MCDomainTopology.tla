-------------------------- MODULE MCDomainTopology ---------------------------
(* What a NARB originates, in eight cases, and beside it the commands that  *)
(* its operators give: a level of the command line, into which its commands *)
(* are put in every order. Only the part that was chosen at the start moves.*)
EXTENDS DomainTopology, TLC

NoCase == [servers |-> {"ospf"}, sessions |-> {}, cmds |-> {}, dynamic |-> TRUE,
           stops |-> 0, midway |-> FALSE, lsps |-> TRUE]

(* An operator and LSPs, in dynamic mode.                                  *)
Edited == [NoCase EXCEPT !.sessions = {"c1"},
             !.cmds = {"add", "delete", "edit", "interval", "delete topology"}]
(* LSPs only, in static mode.                                              *)
Static == [NoCase EXCEPT !.dynamic = FALSE]
(* The daemon stops, at any message.                                       *)
Failing == [NoCase EXCEPT !.stops = 2, !.midway = TRUE]
(* What an operator may do to the topology and to the client.              *)
Commanded == [NoCase EXCEPT !.sessions = {"c1"}, !.lsps = FALSE, !.stops = 1,
                !.cmds = {"originate", "delete topology", "connect", "disconnect", "set topology"}]
(* The addresses of a copy are changed as well.                            *)
Readdressed == [NoCase EXCEPT !.sessions = {"c1"}, !.cmds = {"edit", "set if"}]
(* Two servers.                                                            *)
Both == [NoCase EXCEPT !.servers = {"ospf", "terce"}, !.stops = 1]

(* A TERCE in place of the daemon.                                         *)
Terce == [Commanded EXCEPT !.servers = {"terce"}, !.cmds = {"originate", "delete topology"}]
TerceLsps == [NoCase EXCEPT !.servers = {"terce"}, !.stops = 1]

AllCases == {Edited, Static, Failing, Commanded, Readdressed, Both, Terce, TerceLsps}

-----------------------------------------------------------------------------
(* Commands of NARB and RCE with common beginnings, in every order.         *)
Keyword(t) == [kind |-> "CMD", words |-> <<t>>]
Choice(ts) == [kind |-> "ARG_M", words |-> ts]
Argument   == [kind |-> "ARG_S", words |-> <<>>]

Topology == <<Keyword("show"), Keyword("topology")>>
Lsps == << <<Keyword("show"), Keyword("lsp"), Choice(<<"deleted", "all">>)>>,
           <<Keyword("show"), Keyword("lsp")>>,
           <<Keyword("show"), Keyword("lsp"), Keyword("detail"), Argument>> >>
Eros == <<  <<Keyword("show"), Keyword("static_ero"), Argument>>,
            <<Keyword("show"), Keyword("static_ero")>> >>
Sets == << <<Keyword("set"), Choice(<<"metric", "lcl_if">>), Argument>>,
           <<Keyword("set"), Keyword("vlan"), Choice(<<"add", "delete">>), Argument>>,
           <<Keyword("set"), Keyword("vlan-range"), Choice(<<"add", "delete">>), Argument>> >>

Orders(cs) ==
  {[i \in DOMAIN cs |-> cs[p[i]]] : p \in {f \in [DOMAIN cs -> DOMAIN cs] : IsInjective(f)}}
CommandLevels ==
  Orders(Sets) \cup {<<Topology>> \o o : o \in Orders(Lsps)} \cup {<<Topology>> \o Lsps \o Eros}

TypedAt(l) == IF Sets[1] \in ToSet(l) THEN {"set", "l", "vlan", "vlan-", "vlan-range", "a", "de", "1"}
              ELSE {"s", "show", "lsp", "de", "det", "detail", "deleted", "1"}
BeginningOf ==
  ("s" :> {"show", "set", "static_ero"}) @@ ("l" :> {"lsp", "lcl_if"})
  @@ ("de" :> {"deleted", "detail", "delete"}) @@ ("vlan" :> {"vlan", "vlan-range"})
  @@ ("vlan-" :> {"vlan-range"}) @@ ("det" :> {"detail"})
  @@ ("a" :> {"add", "all"}) @@ ("1" :> {}) @@ ("lsp" :> {"lsp"}) @@ ("detail" :> {"detail"})
  @@ ("set" :> {"set"}) @@ ("show" :> {"show"})
  @@ ("vlan-range" :> {"vlan-range"}) @@ ("topology" :> {"topology"})
  @@ ("static_ero" :> {"static_ero"}) @@ ("metric" :> {"metric"}) @@ ("lcl_if" :> {"lcl_if"})
  @@ ("all" :> {"all"}) @@ ("add" :> {"add"}) @@ ("delete" :> {"delete", "deleted"})
  @@ ("deleted" :> {"deleted"})

VARIABLES part, level, tree, added, line, found, completed

Tree == INSTANCE CmdTree WITH
  Levels <- CommandLevels, Typed <- TypedAt, Begins <- BeginningOf, MaxWords <- 4

-----------------------------------------------------------------------------
treeVars  == <<level, tree, added, line, found, completed>>
partsVars == <<part, vars, treeVars>>

PartsInit ==
  /\ part \in {"topology", "tree"}
  /\ Init /\ (part = "tree" => case = Edited)
  /\ IF part = "tree" THEN Tree!Init ELSE Tree!Start(Sets)

OnlyTopology == part = "topology" /\ UNCHANGED <<part, treeVars>>
OnlyTree     == part = "tree" /\ UNCHANGED <<part, vars>>

PartsNext ==
  \/ OnlyTopology /\ Next
  \/ OnlyTree /\ Tree!Next

(* The loop runs its timers in every pass and serves the sockets that      *)
(* select() finds; main waits for the interface as long as it takes.  No   *)
(* fairness of commands, of LSPs, or of the servers.                       *)
PartsFairness ==
  /\ WF_partsVars(OnlyTopology /\ Main) /\ WF_partsVars(OnlyTopology /\ Timers)
  /\ WF_partsVars(OnlyTopology /\ (RunReader \/ RunTerceReader))
  /\ WF_partsVars(OnlyTopology /\ \E B \in SUBSET Inputs : Select(B))
  /\ \A l \in Links, how \in Hows : WF_partsVars(OnlyTopology /\ Broker(l, how))

PartsSpec == PartsInit /\ [][PartsNext]_partsVars /\ PartsFairness

(* A line finds the command that it can mean, and no other, and completion  *)
(* does not change what it means, in every order of the commands that has   *)
(* its choices first (CmdTree: Insert, Search, Complete).                   *)
FindsWhatIsMeant == part = "tree" => Tree!FindsWhatIsMeant
=============================================================================


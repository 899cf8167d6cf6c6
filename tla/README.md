# Verification of the DRAGON NARB and RCE

This directory holds TLA+ models of the two daemons under `src/narb-sw`:

* **NARB** (`narb/`), the Network Aware Resource Broker of an administrative
  domain. It answers path requests of applications (and of the NARBs of other
  domains), asks its RCE for routes, asks the NARB of the next domain for the
  rest of a route, and relays reservations and releases.
* **RCE** (`rce/`), the Resource Computation Engine. It keeps the traffic
  engineering database that OSPF-TE floods, computes paths on it, and keeps on
  every TE link a list of *link state deltas*: the resources promised to path
  requests which the network does not advertise as taken yet.

Both are single threaded programs around the same event loop.

## Inventory

| Component | State it keeps | Operations | Interacts with | Hard behaviour |
|---|---|---|---|---|
| Link state deltas (`rce/resource.cc`, `rce_lsp.cc`) | TE values of a link, its delta list, the GRIs of the last LSA | query hold, confirm, update, delete, sweep, merge with an LSA | path computation, LSA handler, NARB | holds expire while a client is about to confirm; LSAs older than the holds; nobody sweeps but path queries |
| Resource database (`rce/resource.cc`, `rce_lsa.cc`, `radixtree.hh`) | radix trees of routers and links, bookmarks of incomplete links | update, delete, bookmark, remove | OSPF client, path computation, link state deltas | links advertised before their TE information is complete |
| Path computation (`rce/rce_pcen.cc`, `pcen_*.cc`) | one computation at a time | build topology, search, reply, hold | API server, resource database, schema and subnet | size of the search space |
| RCE API server (`rce/rce_api.cc`, `rce_apiserver.cc`) | one reader and writer per NARB | read, dispatch, write queue | event loop | broken connections with a queue of replies |
| LSP broker of NARB (`narb/lsp_broker.cc`) | one LSPQ per path request: state, ERO, peer, options | request, reply, recursive request, confirm, release, errors | RCE client, NARB client, applications | retransmissions, releases that overtake replies, dead peers |
| Confirmation ID store (`narb/lsp_broker.cc`) | stored EROs by confirmation ID, each with a timer | store, look up, remove, time out | LSP broker, event loop | timers of entries that were replaced |
| NARB clients of RCE and of peer NARBs (`narb/apiclient.cc`, `rce_apiclient.cc`, `narb_apiclient.cc`) | socket, reader, writer | connect, query, notify | event loop, LSP broker | reconnection, liveness tests that lie |
| API reader and writer (`narb/apiserver.cc`) | write queue | post, write, close | event loop | an event that is not scheduled |
| Event loop (`event.cc` of both) | lists of events by type, ready list, file descriptor sets | schedule, remove, fetch, run, cycle, delete | everything | events removed while ready, descriptors closed while watched |
| Domain topology summary (`narb/dts.cc`, `lsa.cc`, `resource.cc`) | abstract routers and links of the domain | originate, refresh, update, delete | OSPF client, LSP broker | LSAs refreshed while the configuration changes |
| OSPF clients (`zebra_ospfclient.cc` of both) | synchronisation state of the OSPF API | connect, sync LSDB, register, originate | event loop, domain summary, resource database | the daemon restarts during a synchronisation |
| TERCE clients (`terce_apiclient.cc` of both) | connection to the Open TE resource engine | exchange topology | event loop, resource database | the same |
| Command lines and XML server (`cli.cc`, `rce_cli.cc`, `cmdtree.cc`, `narb_xmlserver.cc`) | sessions and command trees | show, set, edit | everything | text input and output |
| Configuration (`narb_config.cc`, `rce_config.cc`, `rce_schema.cc`, `rce_subnet.cc`) | tables read at start | read | everything | parsing |

What makes each part correct:

* *Link state deltas*: no tag and no bandwidth is promised twice, nothing that a
  client gave up or let expire stays away for ever, the TE values stay within the
  link whatever order holds, releases and LSAs come in.
* *Resource database*: the radix trees are a map; no pointer dangles, whichever of
  LSA, bookmark, jump link and operator touches an object; walks pass every link
  once; deltas follow their link.
* *Path computation*: a path that is returned is connected, has no loop, and every
  link of it admits the request; the best one is found.
* *LSP broker*: what an application confirmed is confirmed and held in every domain,
  what it released is held in none, a failure leaves nothing behind, bandwidth on
  record agrees with the LSPs, every request and release is answered.
* *Confirmation ID store*: an ID leads to the last ERO stored for it and not to an
  expired one; every entry is deleted once.
* *API clients, event loop*: an event waits once, no event that has something to do
  is dropped, messages arrive in order and without a gap.
* *Domain topology summary, OSPF and TERCE clients*: what is originated is what the
  tables say, and after a restart of the daemon it is originated again; what is
  learnt is what the daemon has.
* *Command line*: a session's output reaches it, its commands run for it alone, its
  end leaves nothing in the loop; the screen shows the line; a line runs the command
  that it names, and none if it names several.

## Modules

| Module | Models | Extends / instantiates |
|---|---|---|
| `LinkDelta` | one TE link, its delta list, its clients and the network | |
| `LinkDeltaProofs` | theorems about it | `LinkDelta` |
| `TeLinks` | what a physical link is in the database | |
| `LinkTable` | abstract specification: the database as a table | `TeLinks` |
| `LinkTableProofs` | a theorem about it | `LinkTable` |
| `RadixTree` | `rce/radixtree.hh` as operators on tree values | |
| `ResourceDB` | trees, pointers and objects; implements `LinkTable` | `TeLinks`, `RadixTree`, `LinkTable` |
| `PathTopology` | the graph of a path computation: capabilities, tags, regions | |
| `SpfSearch` | `PCEN`, the base search over a matrix of costs | `PathTopology` |
| `MrnSearch` | `PCEN_MRN`, the search through regions | `PathTopology` |
| `KspSearch` | `PCEN_KSP`, the k shortest paths | `PathTopology` |
| `ChannelSearch` | `PCEN_MRN_CG`, paths over a graph of channels | `PathTopology` |
| `DcnSearch` | `PCEN_DCN`, a path that is given, or alternatives | `MrnSearch` |
| `PathSearch` | a request from its check to its answer by any of the five | all searches |
| `LspBroker` | the NARBs and RCEs of a chain of domains | |
| `LspBrokerProofs`, `LspChainProofs` | theorems about it | `MCLspBroker`, the former |
| `QconfStore` | the confirmation ID store with its timers | |
| `ApiClient` | the event loop with the RCE clients of a NARB | |
| `ApiClientProofs` | a theorem about it | `ApiClient` |
| `EventTimers` | the timers of the event loop, of either daemon | |
| `NarbOspf` | NARB's client of an OSPF daemon, as operators on a state | |
| `DomainTopology` | what a NARB originates, from start to end | `NarbOspf` |
| `RceOspf` | the RCE's client of an OSPF daemon, with the daemon | |
| `TerceClient` | the client that either daemon has of a TERCE | |
| `RceProofs` | theorems about both clients | `MCRce` |
| `CliSession` | the sessions of a command line on the event loop | |
| `CliSessionProofs` | a theorem about it | `CliSession` |
| `NarbProofs` | theorems about the store, the line editor, the sessions and the clients of RCEs | `MCNarb`, `CliSessionProofs`, `ApiClientProofs` |
| `LineEditor` | the editing of a line, and the terminal that shows it | |
| `CmdTree` | the tree of commands: insertion, search, completion | |
| `MCLinkDelta`, `MCPathSearch`, `MCEventTimers` | constants for TLC | the module of the name |
| `MCDomainTopology` | the cases of a topology, and beside it the commands of an operator, one part at a time | `DomainTopology`, `CmdTree` |
| `MCLspBroker` | four scenes of the brokers in one run: the chain, which the constants of the run are those of, and three with constants of their own | `LspBroker` four times |
| `MCNarb` | parts of NARB, one at a time | `QconfStore`, `ApiClient`, `CliSession`, `LineEditor` |
| `MCRce` | parts of the RCE, one at a time | `ResourceDB`, `RceOspf`, `TerceClient`, `EventTimers` |

`MCNarb`, `MCRce` and `MCDomainTopology` put parts side by side that share no state in the code but the
event loop: a variable `part` is chosen at the start, and only that part moves. A
property is one of a part, or a conjunction of those of a part (`SessionsApart`,
`InOrder`, `ListWhole`, `FindsWhatIsMeant`, `TreesIntact`, `TimersRun`).

### `LinkDelta`: one TE link and its delta list

The state of class `Link` that deltas touch: `te` (unreserved bandwidth, the
masks of available and allocated VLAN tags), `deltas` (`pDeltaList`), `gris`
(the `DRAGON_GRI` attribute of the LSA in force). The expiration of a delta is a
countdown `ttl`; `period` keeps the expiration it was inserted with, which
`deleteExpiredDeltas` compares with the configured values. Beside the link
there are its users: `status` and `grant` say how far the client of a GRI is
and what it was promised, `net` is what the network has set up, `lsa` the LSA
in flight.

| Action | Code |
|---|---|
| `QueryHold`, `QueryNoHold` | `PCEN::BuildLinkVector` (sweep), `PCEN::ReplyERO`, `HoldLinkStatesUponQuery`, `Link::insertDelta` |
| `QueryShadow` | `LSPHandler::HandleLinkStateDelta`, `ACT_QUERY`, for a link that the search has not swept |
| `Confirm`, `Replace` in `Update`, `Delete` | the other actions of `HandleLinkStateDelta` |
| `Deliver`, `Withdraw` | `ResourceDB::Update` with `Link::hook_PreUpdate`, `LSAHandler::Run` |
| `CliDeleteDeltas` | `edit link`, `delete delta`, `commit` |
| `Vanish`, `SetUp`, `TearDown`, `Originate`, `Tick` | clients, signalling, OSPF-TE, time |

Bandwidth is counted in units, the eight priorities are one, and the tag masks
are sets. A request asks for a bandwidth and one tag or none. The disturbances
of the constant `Faults` separate what holds of disciplined clients from what
holds always; the header of the module lists them.

### `LinkTable`, `RadixTree` and `ResourceDB`: the resource database

`LinkTable` says what the database promises: `links`, from an index (advertising
router, link ID, local and remote address) to a link, and `marks`, from an
interface to the index of the link that was last advertised on it before its
information was complete. Its actions are those who write to the database: the
LSA handler, holds and releases, the path computation that makes a 'jump' link of
a link into a subnet (both directions are taken out and planted again under
another index), and an operator who edits a copy of a link and commits it.

`ResourceDB` is the same with the data structures of the code: `heap` are the
`Link` objects, `tree` and `book` the radix trees of links and of bookmarks, the
data of whose nodes are addresses. Objects are made by LSAs and deleted by
`ResourceDB::Update` and `Delete`. `ImplementsTable` is the refinement: a link of
the table is the object in the node with the bits of its index, a mark the index
of the node whose object is the one that the bookmark points to.

`RadixTree` is state-free: the operations of `radixtree.hh` on a value with a root
and nodes. A node is named by its bits. Branching nodes, nodes that deletions
leave behind, and the loops of the lookups and of the two walks are those of the
code. Locks are off, which is the default of RCE (`SystemConfig::radix_lock_on`).

There is one end to what the table promises. A link that has jumped and is then
overwritten by a commit with a copy made before is under an index that is not its own,
the one it jumps to. If it jumps again, `RDB.Remove` takes nothing out, and
`ResourceDB::Update` deletes the very object that it goes on to store
(`resource.cc:777`). `Jump` does as the code does; it sets the history variable `astray`
when a link that jumps is not under its index, and nothing is followed beyond that step
(`LinkTable!JumpAstray`). `Replanted` states what the step should do, and
TLC refutes it; the theorem `NeverAstray` shows that it takes an operator who edits.

Abstractions: only physical links; deltas are the set of their owners and do not
expire here; a link has at most one subnet interface; operators change no address;
a session that ends without `cancel` or `commit` is not modelled; a commit that
reads a null pointer is a restart of the RCE with an empty database.

### `PathSearch`: one path computation

`PathTopology` is state-free: a link with its capabilities (`iscds`) and adaptations
(`iacds`), `ConstraintTagSet` with the two ways in which it is not a set (the flag
for "any tag" outlives `Clear`; the loop of `DeleteTags` leaves out the tags 1 to
8), whether a link carries a traffic specification, which tags are left behind a
link and what a region boundary makes of the specification.

`SpfSearch` is `PCEN::PerformComputation`: `SwitchingTypeFilter`, the transit nodes
which `HandleOverlappingLinks` puts between two routers with more than one link, the
matrix of `BuildGraph` and Dijkstra's algorithm over it, one action per router that
joins the set, and the ERO that skips the transit nodes again. With the option for
regions this engine reads a graph that was not made: the answer is "crashed".

`MrnSearch` is `PCEN_MRN::PerformComputation`, one action per turn of its loops:
`Pop` takes a router and its scene off the stacks, `Skip`, `Drop` and `Extend` are
the three ways the code treats one link of it (a check fails; the checks hold but
the path is not worth keeping, when the router behind already has its new
specification; the path is kept), `Finish` picks the tag. `node` holds what
`PCENNode` does, `stack` is `PStack` with the eight stacks of scenes, `seenLinks`
the flag `visited` of links, `via` is `path_visited`.

`KspSearch` is `PCEN_KSP`: `First` and `Spur` each compute one shortest path with
Dijkstra's algorithm as the code has it (a list of routers in reach that may hold
one twice; the links of the source apart), `Take` picks a candidate (any of them,
since the code compares pointers), `Round` ends its deviations, `Verify` checks one
path and `Answer` makes the ERO from what the last path left at the routers.

`ChannelSearch` is `PCEN_MRN_CG`. A channel is a link with one of its switching
types; `CreateNetLinks` drops copies of a link, `CreateCGNodes` and `CreateCGLinks`
make the graph, and the paths are found by deviations as in `KspSearch`, over edges
between channels, with the masks that stay from one deviation to the next.

`DcnSearch` is `PCEN_DCN`. `VerifyEro` looks a given path up link by link. Otherwise
the search through regions runs twice: `SecondSearch` masks the links of the first
path and makes their reverses cheap, `Trim` is the loop of `CreateMaxDisjointPaths`
that cuts out what both paths use in opposite directions and swaps their tails.

`PathSearch` adds the request and its check; `alg` is the algorithm that is
configured. What the searches should find is stated by enumeration: `Routes` are all
loopless paths, `Feasible` those that keep the constraints.

Abstractions: an encoding goes with its switching type; no wavelengths, time slots,
hop-backs, local IDs and subnet links, so that the topology is the database's; a
link and its reverse have the same interface number; PSC and FSC are not among the
switching types. What the request finds in the database is `ResourceDB`, what it
holds there `LinkDelta`.

### `LspBroker`: a chain of domains

An application asks the NARB of domain 1 for a path to a domain of the chain.
`q[i][g]` is the LSPQ of request `g` at NARB `i`; `up`, `dn`, `toRce` and `fromRce`
are the connections, in order; `hold[i][g]` is all that is left of the RCE of `i`
(its detail is `LinkDelta`). The handlers of class `LSPQ` are operators on an
effect, the LSPQ and what has been posted, under the names they have in the code;
one action is one message read by one process. `AppAsk`, `AppConfirm`,
`AppRelease`, `AppRepeat`, `AppRetransmit` and `AppRead` are the application, `RceStop`,
`RceStart`, `NarbRestart` and `AppReconnect` the failures. A NARB that is started again
counts its brokers anew (`lspb`), the neighbour that served it makes another one, so
that answers of an RCE to a deleted broker find none, or the wrong one.

Abstractions: one connection per neighbour; the tag asked for is always "any";
`ero` is the last domain in which the ERO has strict hops; whether the ERO of the
next domain merges is nondeterministic where the run admits that; an application
confirms only a path that it has got; an RCE client
without a connection that is taken to be alive swallows what is posted to it.

### `QconfStore`: confirmation IDs

An entry is its own timer: it runs when the ERO expires, schedules itself again,
and a second time to be deleted. `due` counts down to the next run; the loop may
be late by `MaxLag`. `StoreERO` replaces an entry of the same ID, whose timer
stays. `Request`, `RceReply` and `PeerReply` are the LSPQs that ask for an ID. The
second delay is `TrashSecs + ExpireSecs` since `SetInterval` leaves the interval as
it was and `Cycle` adds it again.

### `ApiClient`: the event loop and the RCE clients

The lists `reads`, `writes` and `ready` of `EventMaster`, the descriptor sets, and
the readers and writers of the clients that the factory makes and deletes. The
reader of a broker stands for everything that posts messages. Running an event
that was deleted while it was ready is undefined behaviour: the model takes either
outcome, the event is dead, or its memory already is the writer of the next client.

### `EventTimers`: the timers of the event loop

The list `timers` holds the timers by name, `tm` their fields: `left` is the due time
less the time now, `interval` and `repeats` are the members. `period` is the daemon,
by its timers that run for ever; `open` are the sessions.

| Action | Code |
|---|---|
| `RunTimer` | `EventMaster::Fetch` (the first timer on the list that is due), `Run`, `Timer::Cycle`, `Schedule` |
| `Sleep`, `WakeUp` | `WaitLimit` and `select()` |
| `Open`, `Input`, `Hangup`, `Quit` | `CLIReader::InitSession`, `Timer::Restart` in `CLIReader::Run`, `~CLIReader`, `Exit` |
| `SetRefresh` | the command `set refresh-interval` with `Timer::SetInterval` |

`Schedule` inserts before the first timer that is later, which keeps a sorted list
sorted; `Input` moves a timer back without moving it on the list. `Sleep` then finds
the soonest timer and copies it over the first one, as `WaitLimit` does: due time,
interval and repetitions, while the object stays the session's or the topology's.

### `NarbOspf` and `DomainTopology`: what a NARB originates

`s` is the state of the program with its servers: the client of the OSPF daemon with
the copies that reader and writer have of its sockets, the descriptor set of the
loop, the items of the topology (`in`, `hide`, opaque ID, content), what each server
has of them, and what the program has died of. `NarbOspf` has the exchanges of the
client as operators, each of which may find that the daemon has gone.

| Action of `DomainTopology` | Code |
|---|---|
| `Main` | `narb_main.cc` from the first connection to the loop: the poll for the interface, the first topology, the TERCE |
| `Timers` | `DomainTopologyOriginator::Run` |
| `Select`, `RunReader`, `RunTerceReader` | the loop, `ZebraOspfReader::Run`, `TerceApiTopoReader::Run` |
| `Broker` | `UpdateTeLink` after an LSP has taken or returned resources of a link |
| `LinkEdits`, `EditLevel`, `TopologyCmds` | the commands that add, delete and edit links, originate and delete the topology, connect and disconnect |
| `ServerStops`, `ServerStarts` | OSPF daemon and TERCE |

A request to the TERCE names its LSA by an LS ID (`LsId`). An origination and an update
send it with the opaque type and in network order, a deletion sends the opaque ID as the
host has it, taken to be little-endian, so that the two are never the same number for an
ID below 2^24 (the model goes up to 127): `Withdrawn` fails, and LSAs stay at a TERCE.

One event of the loop is one action, so an action takes the index `d` of the message
at which the server is gone: a refresh that breaks in the middle leaves behind what
the code leaves behind.

### `RceOspf`: the RCE learns the topology

`client` is `ZebraOspfSync` with its timer (on the list for ever, once, or off),
reader and writer; `daemon` the OSPF daemon, what it was asked and what it has sent.
`Sync` is the timer, `Select`, `RunReader` and `RunWriter` the loop, `ConnectCmd` the
command `connect ospfd`. `missed` records withdrawals that nobody could have heard
of: the code has no means to find out, so `NothingLeftOver` allows these only.

### `TerceClient`: both daemons and their TERCE

The class exists twice, almost word for word; `who` says which daemon it is where
they differ. A socket is a *number*, and a new socket gets the lowest free one, since
the hazard is that reader, writer and broker have copies of numbers. `fds` says whose
a number is at the moment. `Boot` is the wait in `main`, `Period` the timer, which
runs with an outcome from `Outcomes`: connecting, accepting, writing and answering
fail at any of the messages.

### `CliSession`, `LineEditor`, `CmdTree`: the command line

`CliSession` is about lifetimes: a session's reader, writer and timer are events of
the loop, its commands are priority events of shared command objects. `RunReader`
runs a batch of lines, each of which leaves the session and its arguments in a
command object; `RunCommand` runs the first that waits.

`LineEditor` has one action per key. The buffer and the length that is kept beside
it are the code's; `screen` and `cur` are what the terminal makes of the characters,
backspaces and blanks that are sent.

`CmdTree` adds the commands of a level one by one (`Insert` with its sharing of
nodes), then asks for every line of up to four words. What a line *means* is stated
from the list of commands, without the tree. `ChoicesFirst` restricts the order: where a
choice is added after a keyword of the same place, `Search` goes on from the choice even
if only the keyword fits (`cmdtree.cc:116` to 144), and finds another node than the one
meant, or none. The commands of NARB and RCE are added choices first.

## Runs

| Run | Question | Distinct states |
|---|---|---|
| `timely` | Clients that confirm, signal and release in time: is a tag or bandwidth ever promised twice, up to the LSPs in the network? No. | 352,000 |
| `unruly` | The same with late, repeated and reordered calls, a flapping LSA, an operator: types, and no owner holds twice. | 632,000 |
| `abandon` | A client that vanishes: does what it held come back? Yes, as long as path queries keep coming. | 328,000 |
| `subnet` | Violation: an expired *reservation* with the expiration of subnet links is added back by the next query. | 5,000 (to the violation) |
| `broker` | Four scenes. "chain": three domains, two requests, one with a confirmation ID, confirmations, releases, tags and failures end to end, each message sent once. "crash": two domains, one process or connection breaks, bandwidth on record never overstated. "answer": retransmissions of everything, each request and release is answered, a released LSP of one domain stays released. "repeat": two domains, two LSPs, confirmations and releases sent again while the first ones are under way; the bandwidth of an LSP is taken once and put back once. | 1.6 million |
| `broker_reask` | Violation: a request that is repeated after its path was found is answered with an error. | 161 (to the violation) |
| `paths` | All five searches on four routers: answers are routes, carried by every link, on a tag that is free; the cheapest; "no route" means none; alternatives share no connection where they need not. | 127,000 |
| `topology` | An OSPF daemon or a TERCE that stops at any message, LSPs, operators: the server has what is on record, the OSPF daemon nothing else; what is lost is originated again. NARB uses nothing that is not there, but for an assertion after the daemon has stopped. A line finds the command it means, in every order of commands that has choices before keywords of the same place. | 85,000 |
| `narb` | Stored EROs: one per ID, the answer current, every entry collected. Sessions: output is written, nothing deleted is used, commands run for their session, sessions end unless an assertion ends NARB. The line on the screen is the line that is edited. RCE clients: no event lost or doubled, messages in order, everything sent. | 455,000 |
| `rce` | Trees, pointers and objects implement the table of links. No LSA is left over, all are learnt. The sockets of a TERCE client belong together, and its connection comes back. The loop sleeps past no timer; with one session what is to run for ever does, and idle sessions end. | 88,000 |
| `terce` | Violation: after a TERCE that was late to open its connection the client is never ready again. | 2,600 (to the violation) |
| `timers` | Violation: with two sessions the timer of the topology runs once more and never again. | 1,200 (to the violation) |

Each property of a passing run has a mutant of the code that violates it; a property
that joins several has a mutant for each of them where the parts are independent.

### Bounds, and why they are enough

* `LinkDelta`: two GRIs are the least that contend for a tag, three let one vanish,
  one sweep and one hold; two tags let a request find the other one; expirations of
  1 to 3 ticks put every order of query, reservation and subnet expiration within
  reach of LSAs and confirmations. `MaxDeltas = 2` numbers the deltas of one owner;
  `OneDeltaPerOwner` shows that a third number is never needed without "shadow".
* `ResourceDB`: one link in both directions with its incomplete versions makes every
  pair of writers meet on one index or one interface; words of three bits tell the
  routers, the subnet's router and the interfaces apart and make them share
  prefixes, so that branching nodes of every kind occur. `FewLinks` allows three
  links, two while an operator edits: both ends of a jump and one that stays behind.
* `PathSearch`: a diamond of four routers with a link across is the least graph where
  a router is reached by two paths and left by two, and where a deviation deviates
  again; it has four routes, hence `K = 4`. `Tagging` puts each of three tag sets on
  each link under two cost vectors; `Layered` puts boundaries, trunks and adaptations
  on them; `Broken` makes two links thin, used, one-way or of another type;
  `Parallel` adds a second link beside the first, `Copied` a second entry of one
  link. A path that is given is right, elsewhere, disconnected or of odd length.
* `LspBroker`: three domains have a first, a middle and a last NARB; `MaxSends = 3`
  is a request, its confirmation or repetition, and a release; one fault at a time. In
  "repeat" four messages are a request, a confirmation and a release with one of the two
  sent twice, and two domains one NARB that is asked by an application and one that is
  asked by a peer; five were tried once and give 836,000 states and the same result.
* `QconfStore`: three entries for two IDs: a replacement, and another ID beside it.
* `ApiClient`: three clients, two connections: one that is replaced after a
  connection was lost, one after a connect failed. The socket of a connection has
  a number of its own: numbers are not reused.
* `EventTimers`: NARB has one timer that runs for ever, the RCE two of different
  intervals; one is longer than the timeout of a session, one shorter. A session is
  opened again after it has ended. The passing run, `rce`, has one session, because
  with a second one `RunsForever` fails (`timers`). The loop is late by one unit.
* `DomainTopology`: eight cases (`AllCases`), each with the disturbances that can meet.
  One router and two links, one of them added later, are enough for an LSA that
  is deleted while another stays. Two stops of a daemon make it break while it is
  read anew; three connections are one more. An opaque ID that no LSA has may be
  taken again, so that `MaxIds` bounds the LSAs that pile up.
* `RceOspf`: two attempts are the least with a last one that differs; two stops, two
  refusals and one command reach it in each way; two LSAs let one stay and one go.
* `TerceClient`: one stop and one fault, one socket of somebody else; seven numbers
  are two for each of two connections, the listening one, the other's, and one spare.
* `CliSession`: two sessions contend for a command object; a batch of two lines lets
  the first change what the second means; two reads let one follow a command.
* `LineEditor`: three characters put the cursor before, within and behind the line
  with something on either side; a history of one line is dropped by the second.
* `CmdTree`: three commands "set" and three "show lsp", each in every order, and a level
  of six, taken from the daemons' own commands, in which one word is a whole keyword and
  the beginning of another, a choice stands beside a keyword, and commands are prefixes
  of others. Orders that have a choice behind a keyword of its
  place are generated and left out by the property.

### Fairness

* `abandon`: time passes; some client keeps querying paths across the link (nothing
  else sweeps the list, and the property fails without it); LSAs that are due are
  originated and delivered. No client has to act.
* `broker`: the event loops read what has arrived and an RCE answers what it reads,
  for both are loops that never wait on one peer; an application without an answer
  repeats its request; no process stops in the scene that `Answered` is about.
* `paths`: a search is one call and goes on while it can. `Answered` is stated for the
  searches whose loops have no counter: through regions, and the trimming of two paths.
* `narb`: time passes and the loop runs the timers that are due (`Collected`); the loop
  goes on, and `select()` finds a socket writable again and again as long as its
  connection lasts, hence strong fairness for it, as a hypothesis of `Sent`; the loop
  serves the sockets that are ready, runs the commands that wait and the timers of
  idle sessions (`SessionEnds`, which is about runs in which no assertion fails). Clients of the command line need do nothing.
* `topology`, `rce`, `terce`: `main` goes on, the timers run in every pass of the loop,
  the loop serves what `select()` finds, and an OSPF daemon answers what it was asked
  as long as it is there. Time passes, `select()` returns in time, and the loop goes on
  with a timer that is due; whoever types may do so for ever. No fairness of operators, of LSPs or of a server's return:
  the properties say "if it stays up from some time on".

## Theorems

TLAPS proves these for all values of the constants that satisfy the modules'
assumptions.

* `TypeCorrect` (`LinkDeltaProofs`): `TypeOK`, whatever the faults. The invariant
  `TInv` adds that the delta list and the network are finite sets, without which
  the sums of bandwidth are not numbers; the heart of it is that `operator+=` and
  `operator-=` clamp.
* `OneHold`: no owner is twice on the list, unless an LSA brings the GRI of another's
  delta ("shadow").
* `HeldIsWithheld` and `Reservation`: tags that are held are not offered, and no
  two owners hold one tag, under `Disciplined` (no faults "late", "reuse",
  "retag", "shadow"; flaps and operators are allowed). The two statements
  need each other: a delta that goes gives its tags back, and these must not
  be another delta's. `RInv` adds that a delta's tags are those granted, and that
  who is in an LSA has signalled.
* `NetworkSafe` and `OfferedIsFree`: undisturbed
  (`Faults = {}`), the network never has two LSPs on a tag nor more bandwidth than
  the link, and what is offered is never more than LSPs and holds leave. `NInv`
  says that an LSP is covered, by an LSA that is in force or by a delta that has
  not expired, and that an LSA in flight was true of the network when it left.
* `TypeCorrect` (`LspBrokerProofs`): `TypeOK` of a chain of any length, whatever breaks.
  `Typed` adds what travels on the connections. Every handler leaves at most one
  message on each of them (`Effects`), which the lemmas about the handlers show.
* `BandwidthIsAccounted`: the bandwidth on record is what the confirmed LSPs leave,
  however often confirmations and releases are sent again. The counter changes where an LSPQ is confirmed or
  released, and goes wrong if a confirmed LSPQ changes its state in any other way, or
  if a release frees what was never taken. Neither can be seen from one NARB, so the
  invariant `Kept` is about the messages of a request in the whole chain, wherever
  they are (`Net`): a request that waits is at any time *one* message on its way down or up
  (`OneToken`; confirmations and releases may be several), there
  only while the application waits for it (`Phased`), so that no late answer finds a
  confirmed LSPQ; and a release never finds an LSPQ that is granted but not confirmed,
  because on each connection the confirmation is in front of it, and where the
  confirmation has passed, the NARB has confirmed (`Ordered`). The hypotheses:
  the links have room for the LSPs (no subtraction is cut off at 0), and `Patient`: no
  fault "early", "narb" or "app", under which TLC finds the property violated with two
  domains, and no "retry", under which a request may be two messages; TLC finds no
  violation there. RCEs may stop, holds expire, routes and merges fail, confirmations and
  releases be repeated, requests be asked anew. So the theorem is about applications that release
  what they have confirmed; the release of an LSP that is granted only puts back what was
  never taken (below).
* `DomainsAgree`, `ChainIsConfirmed`, `ChainLeavesNothing` (`LspChainProofs`): once nothing
  of a request is under way, what the application has confirmed is confirmed and its tag
  reserved in every domain of the ERO, what it has released or could not get is held
  nowhere, and with a confirmation ID no domain holds another tag than the granted one.
  `Kept` does not see what the RCEs hold, which a NARB changes by messages it does not wait
  for. So `Chained` says of each request three things more: in each domain what the LSPQ's
  state makes of the hold *once the RCE has read its messages* (`Due`, in `Settled`); of
  each message what the domains above and below must be while it is there (`Travels`); and
  of the application's view what every LSPQ may be (`Standing`: a released LSPQ has a
  released one behind it or its REMOVE on the way there). When nothing travels, what is due
  is what is held (`QuietDue`), and the promise of the first domain goes on along the ERO
  (`AlongEro`). The hypotheses: `Steady`, only the faults "again", "repeat", "twice",
  "noroute" and "expire" (no process stops, and the application waits for an answer), which
  the scene of the run satisfies, and links with room for the LSPs as above.
* `ListIntact`, `ServedCurrent`, `StoreTypes` (`NarbProofs`): the list of the
  confirmation IDs (`ListWhole`), and that the answer to an ID is its last ERO and not an expired
  one. `SInv` relates list and timers: the entries that live are those with a
  timer, and a listed entry is the latest of its ID.
* `LoopServesAll` (`ApiClientProofs`): `OneList`, `NothingMissed` and `InOrder` of `ApiClient`, for
  any numbers of clients, connections and messages. A handler calls operators that leave
  the loop between two states, so the invariant `AInv(s, r, X, u, g)` is stated of a loop
  state `s`, the rest `r` of the ready list and the events `X` that the handler has in its
  hands, and each operator has a lemma of its own (`SchedulesReader`, `ClosesBoth`,
  `Writes`, ...). It adds that the sockets of a reader and its writer are the same and no
  other client's (`Sockets`), that a listed event is that of a client that was made
  (`Known`), that a bit in an `fd_set` has its event on the list, which is why `Schedule`
  drops nothing that is needed (`Bits`), and that the queue of an open connection goes on
  where what has arrived ends and ends where what was posted does (`Queues`). The
  part `Single`, that an event is in one list at most, and a writer in one only while
  its queue has something, is kept until the memory of a deleted writer is used again; the others are
  kept even then.
* `ClientsOfNarbServed` (`NarbProofs`): the same in the module that the run checks; the
  hypothesis of both is that the bounds are numbers (`ClientAssumption`).
* `BookmarksSafe` and `NeverAstray` (`LinkTableProofs`): what a bookmark points to is a
  link of the table on the address of the interface, up to the first jump of a link that is
  not under its index; and without operators (`Sessions = {}`) every link is under its
  index, so that there is no such jump. A commit may put another link's values
  under an index, and the handler of a complete LSA deletes by the values, so the
  invariant says what of them is always the index's: the local address, and the
  router where there is no address. It rests on `SubnetAssumption`: an address is
  that of one router.
* `NothingIsLeftOver` (`RceProofs`): `NothingLeftOver`, for any finite set of LSAs
  (`OspfAssumption`) and any bounds. `OspfInv` adds that without a socket nothing is under way
  (no reader, no connection at the daemon, no notice), and that without a connection
  the daemon has nothing to answer; what must be shown of the operators is how `Applied`
  goes on when a notice is appended or the first one is taken over.
* `ClientIsWired` (`RceProofs`): `Wired`, for any number of sockets (`SocketAssumption`),
  stops, faults and other clients. `Wired` is about a client that is ready; the
  invariant `Attached` is about the numbers at any time: those that the client itself
  holds are its connection's, and a number that its reader or its writer has kept from a
  connection before may by now be anybody's, but never that of another connection for
  requests. So a client that becomes ready has all its numbers from one connection. That
  kept numbers can be strangers' is the divergence which the run `terce` shows.
* `SessionsStayApart` (`CliSessionProofs`): `SessionsApart`, for any finite set of
  sessions and batches of any length. `CInv` adds that `select()` has found each event
  once, so that a reader which deletes itself is not in what is left of the ready
  list, and that the commands that wait are of a session that has not been deleted. A
  reader runs only when no command waits; this is why the shared command objects
  are safe although each holds one session only.
* `ScreenShowsTheLine` (`NarbProofs`): `ScreenShowsLine`, for any characters, password,
  history and length of lines, as long as a line with its prompt fits into a row
  (`RowAssumption`; in a longer one the keys that go back stop at the edge, and the
  terminal no longer shows the line). `EdInv` adds that the lines of the history fit, and that
  the screen is blank behind the line: a key is right if what it writes is the new
  line from the cursor on, as far as the new line differs from the old one (`Covers`).
* `SessionsOfNarbApart` (`NarbProofs`): the same as `SessionsStayApart` in the module that
  the run checks, where the other parts of NARB stand beside the sessions.

Only model-checked: everything about liveness (`AbandonedHoldReturns`, `Collected`,
`Sent`, `SessionEnds`, `Answered`, `Refreshed`, `Reconnects`, `Synced`,
`Resurrected`, `EveryTimerRuns`: liveness under fairness is out of the prover's reach),
`ReservedNotImplicitlyAddedBack`, the other properties of `LspBroker`, and those of
`ResourceDB`, `DomainTopology`, `CmdTree`
and the searches. `TimersRun` is true of the intervals that the daemons have, not of
any: it stays with TLC. That
`RadixTree` is right for every tree, or that an enumeration of deviations is complete
for every graph, would need an induction over data, which the installed provers
cannot do; `ImplementsTable` and `AnswerIsCheapest` show it on the trees and graphs
of their runs.

## Where the code and its words disagree

Four runs end in a violation, on purpose:

* `subnet`: `resource.cc:651` against the comment above it.
* `broker_reask`: a repeated request is taken for a loop (`lsp_broker.cc:1831`).
* `terce`: the writer keeps the number of a closed socket after an `Accept` that failed
  (`rce/terce_apiclient.cc:306`, `narb/terce_apiclient.cc:312`).
* `timers`: `WaitLimit` copies the soonest timer over the first one (`event.cc:203`),
  which happens when a session that was used has a timer at the wrong place. With one
  session, only the session suffers: it may end with another timer although it was
  used a moment ago, and its timeout has the other's interval from then on. With a
  second session that is left alone, the first timer may be the topology's, which
  becomes one that runs once.

Four properties are stated in the modules and fail, without a run of their own. TLC refutes
each of them when it is added to the configuration of the run named (`WriterHasSocket`
under `CliSession!Spec` with one session, one argument, two reads and batches of one):

* `Replanted` (`rce`): a link that has jumped, was overwritten by a commit
  (`rce_cli.cc:1779`) and jumps again is deleted by `ResourceDB::Update`, which then
  stores it (`resource.cc:777`); the comment at `pcen_mrn.cc:752` is "re-plant the links
  into RDB". The sequence is edit, jump, commit, jump.
* `Withdrawn` (`topology`): `TerceApiTopoWriter::DeleteLsa` sends the raw opaque ID
  (`narb/terce_apiclient.cc:853`), originations and updates
  `htonl(SET_OPAQUE_LSID(...))` (800, 903). Deletions at a TERCE fail, of a topology or
  of a link, and the LSAs stay there, although `cli.cc:1661` logs that they are deleted.
* `ReaderHasSocket` (`topology`): `assert(fd > 0)` of `ZebraOspfReader::Run`
  (`narb/zebra_ospfclient.cc:328`) ends NARB when the OSPF daemon closes its connections
  and a refresh, a broker or a command finds that out (450 to 461) while the reader waits
  in the list of ready events. `Survives` allows this end, once a daemon has stopped.
* `WriterHasSocket`: `assert (fd > 0)` of `CLIWriter::Run` (`cli.cc:1021`) ends NARB, with
  all its sessions and clients, when a session ends by a hangup, its timer or "exit" while
  its writer waits in the list of ready events. `SessionEnds` is about runs without that.

Met while modelling, and part of the models, but without a property of their own:

Deltas and brokers

* A GRI that is queried again while the LSA in force lists it gets a hold that takes
  nothing off the link (`resource.cc:586`).
* The timer of a stored ERO that was replaced takes the new one off the list before
  it expires (`lsp_broker.hh:467`, although `lsp_broker.cc:2155` says that the old
  one was removed).
* `ACT_UPDATE` holds the tag of the next domain without asking whether it is free
  (`lsp_broker.cc:938`, `961`).
* After two failures more bandwidth can be on record than there is
  (`CrashBandwidthNotOverstated` is about one). An LSPQ that asks the next domain again
  on another link is answered twice; the second answer revives one that is released and
  whose confirmation of release was lost, and its next release is counted again
  (`lsp_broker.cc:853`, `1467`). TLC finds it with two borders, a connection of the
  application that breaks and an RCE that stops.
* A request that is retransmitted in state `STATE_ERO_COMPLETE` restarts the query
  (`lsp_broker.cc:1252`), and a confirmation that arrives meanwhile is dropped
  (`1794`).
* Without a confirmation ID the tag that the next domain picked is not held here
  (`lsp_broker.cc:882`).
* The release of an LSP that was not confirmed adds bandwidth (`lsp_broker.cc:1467`),
  up to the maximum: `BandwidthAccounted` and `RepeatBandwidthAccounted` leave it out. One with an empty ERO, of an
  application that has not got a path yet, is not answered (`lsp_broker.cc:1485`).
* `HandleNextHopNARBReply` has no guard against a released LSP (`lsp_broker.cc:853`).
* The RCE stops while a query waits for it: the LSPQ ignores retransmissions
  (`lsp_broker.cc:1780`) and is never answered.
* An event is run that `GetClient` has deleted (`rce_apiclient.cc:287`), and a connect
  that fails leaves a closed number in `fd`, by which the client counts as alive.

Path computation

* Tags 1 to 8 that are in use are offered (`rce_pcen.hh:295`), and a request for any
  tag can be answered with a tag that is not free on all links, or with tag 0
  (`rce_pcen.hh:401`): `TagIsFree` leaves both out.
* The k shortest paths are not the shortest (`pcen_ksp.cc:375`, pointers are
  compared), and a path through regions may be answered that cannot be adapted
  (`pcen_ksp.cc:683`, although the comment at 606 promises "cross-layer adaptation
  constraints"): `AnswerCarries` and `AnswerIsCheapest` hold it to one region.
* A link without a link back makes `PCEN_KSP` follow the end of a list
  (`pcen_ksp.cc:546`), and one without a remote end would keep it in a loop (533).
* `PCEN_MRN` searches on beyond the destination with the specification of some other
  path; no answer comes of it.
* The base search with the option for regions has no graph and crashes
  (`rce_lsp.cc:156`). On networks with two links between two routers it answers with
  another link than it has paid for (`rce_pcen.cc:1767`).
* `PCEN_MRN_CG`: what is masked for one deviation is masked for the next
  (`pcen_mrn_cg.cc:761`), so that `AnswerIsCheapest` holds it to graphs in which a
  router has two ways on. A link without a channel of its own switching type is
  followed as a null pointer (1792), and the loop over the capabilities of the
  reverse link stops at the end of another list (1116) if none of them has VLANs.
* `PCEN_DCN` takes a path that the request brings without comparing its ends with
  source and destination (`pcen_dcn.cc:123`), and makes the answer of a vector that was
  not filled if the second search fails (736).
* `PCEN_DCN` does not relax the bandwidth, as its comment says ("using max
  bandwidth"): the loop over the priorities at `pcen_dcn.cc:84` leaves out the only one
  that the search reads.
* `PCEN_MRN_CG` passes to `AddTags` the number of bytes for that of tags
  (`pcen_mrn_cg.cc:1184`): of the tags that go along to the next link those above 512 are
  lost. The model does the same; its tags are small, so no property tells.
* The path computation misses a link that is alone in the tree
  (`radixtree.hh:634`: the walk starts after the root).

Database and topology

* A refresh interval that an operator sets is used once: `SetInterval` sets a local
  variable with the name of the member (`event.hh:150`).
* The first of two incomplete links of one interface stays when the complete one
  arrives; a link whose LSA is flushed after it has jumped stays.
* An operator's commit overwrites the holds made since `edit link`, and reads a null
  pointer if the link is gone or another session has committed (`rce_cli.cc:1779`).
* `LSARetriever` passes over a link of another domain, or without capabilities, but
  does not go to the next node of the tree, and stays there (`rce_lsa.cc:470` to 528).
* NARB's `main` waits for its OSPF interface in a loop that nothing interrupts
  (`narb_main.cc:201`), and so does the RCE for its TERCE (`rce_main.cc:171`).
* A daemon whose end a request finds before the reader does leaves a closed socket in
  the descriptor set: `select` fails for ever, and the loop is deaf
  (`narb/zebra_ospfclient.cc:263`). `Reconnects` leaves this out.
* The writer of a TERCE may be null when it is called (`dts.cc:502`): NARB dies of it,
  which `Resurrected` allows.
* The last attempt of the RCE's client stops it although it succeeds
  (`rce/zebra_ospfclient.cc:235`), which `Synced` allows.

Command line

* Until the terminal has told its width, moving back divides by zero (`cli.cc:795`);
  the model says `trapped`, and the properties are about what happens short of it.
* `Insert` does not add a command that has one choice where the tree has another
  (`cmdtree.cc:81`): the commands of the daemons do not meet it.
* A choice that is added after a keyword of the same place is taken where the keyword is
  typed (`cmdtree.cc:116` to 144): the commands of the daemons have choices first.
* "add link" goes down to a level `update-link-node` (`cli.cc:1986`) that no session
  has: the link is added, and the session stays where it is.

## Not modelled

`PROJECT.json` lists every component with its status.

* Wavelengths, time slots, hop-backs and subnet EROs in the searches, and
  `UpdateLinkStatesByERO` over several links with the time slots of TDM: data of the
  links and tables read at start rather than order of events.
* The locks of NARB's radix tree, whose counters are never given back.
* In the modules other than `EventTimers`, the order of the timers: they run any timer
  that is due, in any order, and none is ever a copy of another.
* The probing of links at NARB's start (`ProbeSingleAutoLink`), a blocking call.
* Contents of LSAs and messages, partial reads and writes, keep-alives, telnet options
  but the window size, commands that print or set one value.
* Routing modes of the brokers with loose replies, static EROs and EROs of users.
* Configuration parsing, schemas, logging, the XML server's text, test programs. The
  `Subnet` operations `HideTopology`, `ExposeTopology` and `ClearTopology` are never
  called.

## Plan

Done: the delta list, the brokers, the store, the event loop with the RCE clients, the
resource database, all five searches, the OSPF and TERCE clients with the topology
that they carry, the command line. Next, in this order:

1. Proofs: the routes of `MrnSearch` in any topology, and the steps of
   `ResourceDB` over an abstract map in place of the trees.
2. `EroHolds`: `UpdateLinkStatesByERO` on several links, time slots; composed with
   `LinkDelta` into a path of links.
3. NARB's `radixtree.hh`: `RadixTree` with locks, walks that delete nodes.
4. Hop-backs, wavelengths and subnet EROs in `MrnSearch`.
5. `NarbRce`: `LspBroker` with `LinkDelta` in place of `hold`; an abstract
   specification of a reservation with a lease that both implement.

Parts share a run where they share an instance, so that the number of runs stays small.

----------------------------- MODULE QconfStore -----------------------------
(***************************************************************************)
(* The confirmation ID store of a NARB (class                              *)
(* ConfirmationIDIndxedEROWithTimer and the static list                    *)
(* LSP_Broker::qconf_id_indexed_ero_list).  In confirmation ID mode a NARB *)
(* answers the recursive request of the previous domain with the ID alone, *)
(* (ucid, seqnum, source), and stores its part of the ERO.  Signalling that*)
(* enters the domain asks for the ERO of the ID.                           *)
(*                                                                         *)
(* An entry is its own timer.  It runs once when the ERO expires, when it  *)
(* schedules itself again, and a second time to be deleted; the destructor *)
(* takes the entry of its ID off the list.  An entry that is replaced goes *)
(* off the list at once, its timer stays.                                  *)
(***************************************************************************)
EXTENDS Integers, FiniteSets

CONSTANTS
  Key,         (* confirmation IDs                                         *)
  Transit,     (* the IDs whose ERO goes on into a next domain             *)
  ExpireSecs,  (* SystemConfig::confirmed_ero_expire_secs                  *)
  TrashSecs,   (* SystemConfig::confirmed_ero_trash_secs                   *)
  MaxLag,      (* bound: how late the event loop may run a timer           *)
  MaxEntries   (* bound: entries that are ever made                        *)

ASSUME StoreAssumption ==
  /\ Transit \subseteq Key
  /\ ExpireSecs \in Nat \ {0} /\ TrashSecs \in Nat
  /\ MaxLag \in Nat /\ MaxEntries \in Nat

Ids == 1 .. MaxEntries

(* key: the ID; trash: trash_seconds; expired; border: link_border_egress  *)
(* is set; due: when the timer runs, from now; age: since the entry was    *)
(* made.                                                                   *)
Entry == [key : Key, trash : Nat, expired : BOOLEAN, border : BOOLEAN,
          due : Int, age : Nat]

(* An LSPQ with LSP_OPT_QUERY_CONFIRM: whether it waits for the RCE, the   *)
(* destination it asked the RCE for, and the ERO it answered with: a stored*)
(* one, one to the destination, or one to the border of the domain.        *)
LspqStates == {"idle", "stored", "partial", "error", "complete"}
Lspq == [st : LspqStates, dest : {"global", "border"},
         ero : {"none", "stored", "full", "local"}]
NewLspq == [st |-> "idle", dest |-> "global", ero |-> "none"]

(* What is not in use: not made yet, or deleted.                           *)
Blank(k) == [key |-> k, trash |-> 0, expired |-> FALSE, border |-> FALSE, due |-> 0,
             age |-> 0]

VARIABLES
  made,    (* entries made so far; a later entry has a larger number       *)
  ent,     (* the entries                                                  *)
  live,    (* those that exist                                             *)
  listed,  (* those in qconf_id_indexed_ero_list, the latest first         *)
  timers,  (* those that the event loop will run                           *)
  lspq     (* the LSPQs that ask for a stored ERO                          *)

vars == <<made, ent, live, listed, timers, lspq>>

-----------------------------------------------------------------------------
(* The list.                                                               *)

(* LookupEROWithConfirmationID: the first match, or none.                  *)
Lookup(k) == {e \in listed : /\ ent[e].key = k
                             /\ \A d \in listed : ent[d].key = k => d <= e}

Remove_Nothing(k) == listed  (* a mutant *)

(* RemoveEROWithConfirmationID takes off the first match.                  *)
Remove(k) == listed \ Lookup(k)

(* Mutants: the old entry stays; the new one is not scheduled.             *)
Store_KeepsOld(k, e)     == [listed |-> listed \cup {e}, timers |-> timers \cup {e}]
Store_NotScheduled(k, e) == [listed |-> Remove(k) \cup {e}, timers |-> timers]

(* StoreEROWithConfirmationID: what was stored is taken off the list, the  *)
(* new entry is put in front and scheduled.                                *)
Store(k, e) == [listed |-> Remove(k) \cup {e}, timers |-> timers \cup {e}]

-----------------------------------------------------------------------------
(* HandleCompleteEROWithConfirmationID for a recursive request, or for one *)
(* that is repeated.                                                       *)
StoreERO(k) ==
  /\ made < MaxEntries
  /\ made' = made + 1
  /\ ent' = [ent EXCEPT ![made + 1] =
       [key |-> k, trash |-> TrashSecs, expired |-> FALSE, border |-> FALSE,
        due |-> ExpireSecs, age |-> 0]]
  /\ live' = live \cup {made + 1}
  /\ listed' = Store(k, made + 1).listed
  /\ timers' = Store(k, made + 1).timers
  /\ UNCHANGED lspq

(* HandleLSPQRequest with HandleStoredEROWithConfirmationID, for a request *)
(* or one that is repeated: a valid ERO is the answer; that of an expired  *)
(* one is computed anew up to the border of the domain, or, if it has none *)
(* or nothing is stored, up to the destination.                            *)
Valid(k)    == {e \in Lookup(k) : ~ent[e].expired}
Outdated(k) == {e \in Lookup(k) : ent[e].expired /\ k \in Transit}

HandleStoredERO(k) ==
  /\ lspq' = [lspq EXCEPT ![k] =
       IF Valid(k) # {} THEN [st |-> "complete", dest |-> "global", ero |-> "stored"]
       ELSE [st |-> "stored", ero |-> "none",
             dest |-> IF Outdated(k) # {} THEN "border" ELSE "global"]]
  /\ ent' = [e \in Ids |-> IF e \in Outdated(k) THEN [ent[e] EXCEPT !.border = TRUE]
                                                ELSE ent[e]]
  /\ UNCHANGED <<made, live, listed, timers>>

Request(k) == lspq[k].st \in {"idle", "error", "complete"} /\ HandleStoredERO(k)

(* HandleRCEReply.  A route that is strict up to the destination asked for *)
(* is the answer; one with loose hops goes on to the next domain, unless   *)
(* it should only have led to the border.                                  *)
MustBeLocal(k) == \E e \in Lookup(k) : ent[e].border

RceReply(k) ==
  /\ lspq[k].st = "stored"
  /\ \/ lspq' = [lspq EXCEPT ![k].st = "error"]
     \/ /\ k \notin Transit \/ lspq[k].dest = "border"
        /\ lspq' = [lspq EXCEPT ![k].st = "complete",
                               ![k].ero = IF lspq[k].dest = "border" THEN "local" ELSE "full"]
     \/ /\ k \in Transit /\ lspq[k].dest = "global"
        /\ lspq' = [lspq EXCEPT ![k].st = IF MustBeLocal(k) THEN "error" ELSE "partial"]
  /\ UNCHANGED <<made, ent, live, listed, timers>>

(* HandleNextHopNARBReply for the LSPQ that went on.                       *)
PeerReply(k) ==
  /\ lspq[k].st = "partial"
  /\ \/ lspq' = [lspq EXCEPT ![k].st = "complete", ![k].ero = "full"]
     \/ lspq' = [lspq EXCEPT ![k].st = "error"]
  /\ UNCHANGED <<made, ent, live, listed, timers>>

-----------------------------------------------------------------------------
(* The event loop.                                                         *)

(* A mutant: the entry is not marked.                                      *)
Expired_Unmarked(e) == [ent[e] EXCEPT !.trash = 0, !.due = ent[e].trash + ExpireSecs]

(* Run for the first time, with Cycle by the event loop: SetInterval sets  *)
(* the time of the next run but not the interval, which Cycle adds.        *)
Expired(e) == [ent[e] EXCEPT !.expired = TRUE, !.trash = 0,
                             !.due = ent[e].trash + ExpireSecs]

Kept(e) == ~ent[e].expired /\ ent[e].trash > 0

(* The timers that the loop would run next: due, and due first.            *)
Due == {e \in timers : ent[e].due <= 0 /\ \A d \in timers : ent[e].due <= ent[d].due}

RunTimer(e) ==
  /\ e \in Due
  /\ \/ /\ Kept(e)
        /\ ent' = [ent EXCEPT ![e] = Expired(e)]
        /\ UNCHANGED <<live, listed, timers>>
     \/ /\ ~Kept(e)
        /\ live' = live \ {e}
        /\ timers' = timers \ {e}
        /\ listed' = Remove(ent[e].key)
        /\ ent' = [ent EXCEPT ![e] = Blank(ent[e].key)]
  /\ UNCHANGED <<made, lspq>>

Tick ==
  /\ \A e \in timers : ent[e].due > -MaxLag
  /\ timers # {}
  /\ ent' = [e \in Ids |-> IF e \in timers
                           THEN [ent[e] EXCEPT !.due = @ - 1, !.age = @ + 1] ELSE ent[e]]
  /\ UNCHANGED <<made, live, listed, timers, lspq>>

Init ==
  /\ made = 0
  /\ \E k \in Key : ent = [e \in Ids |-> Blank(k)]
  /\ live = {} /\ listed = {} /\ timers = {}
  /\ lspq = [k \in Key |-> NewLspq]

Next ==
  \/ \E k \in Key : StoreERO(k)
  \/ \E k \in Key : Request(k)
  \/ \E k \in Key : RceReply(k)
  \/ \E k \in Key : PeerReply(k)
  \/ \E e \in Ids : RunTimer(e)
  \/ Tick

Spec == Init /\ [][Next]_vars

(* Time passes, and the event loop runs the timers that are due.           *)
LiveSpec == Spec /\ WF_vars(Tick) /\ \A e \in Ids : WF_vars(RunTimer(e))

-----------------------------------------------------------------------------
(* Properties.                                                             *)

(* Types, and what a timer may still wait: a second run comes no later     *)
(* than TrashSecs + ExpireSecs after the first.                            *)
TypeOK ==
  /\ made \in 0 .. MaxEntries
  /\ ent \in [Ids -> Entry]
  /\ \A e \in live : ent[e].due \in -MaxLag .. TrashSecs + ExpireSecs
  /\ live \subseteq 1 .. made /\ listed \subseteq Ids /\ timers \subseteq Ids
  /\ lspq \in [Key -> Lspq]

(* The list has no entry that was deleted, although the destructor of an   *)
(* entry takes off whatever has its ID, and entries that were replaced     *)
(* are deleted after their successors were made.                           *)
ListedExists == listed \subseteq live

(* There is one entry for an ID at most.                                   *)
OnePerId == \A d, e \in listed : ent[d].key = ent[e].key => d = e

(* Both of them, the two ways in which the list could go wrong when the    *)
(* destructor of an entry takes off another one than its own.              *)
ListWhole == ListedExists /\ OnePerId

(* A stored ERO that is the answer has not expired (up to the delay of the *)
(* loop) and is the last one stored for its ID.                            *)
ServedIsCurrent ==
  [][\A k \in Key : Request(k) /\ lspq'[k].ero = "stored" =>
       \A e \in Lookup(k) :
         /\ ent[e].age <= ExpireSecs + MaxLag
         /\ \A d \in 1 .. made : ent[d].key = k => d <= e]_vars

(* Every entry is deleted in the end, one that was replaced included: none *)
(* of the MaxEntries that are ever made is left without a timer.           *)
Collected == <>[](live = {})
=============================================================================

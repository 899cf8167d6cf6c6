---------------------------- MODULE MCLspBroker ----------------------------
(* Four scenes of the same handlers: two domains with an application that   *)
(* repeats everything ("answer"), three domains that two LSPs go through    *)
(* ("chain"), two domains in which anything may stop ("crash"), and two     *)
(* LSPs whose confirmations and releases are sent again while the first     *)
(* ones are under way ("repeat").                                           *)
EXTENDS LspBroker

CONSTANTS g1
VARIABLE scene

Asker == INSTANCE LspBroker WITH
  N <- 2, Dests <- {1, 2}, Gri <- {g1}, Qconf <- {}, Borders <- {"b", "c"}, MaxSends <- 3,
  Faults <- {"retry", "again", "reask", "early", "repeat", "noroute", "expire"}
Crash == INSTANCE LspBroker WITH
  N <- 2, Dests <- {2}, Qconf <- {}, Tags <- {1}, Fallback <- TRUE,
  MaxSends <- 3, MaxFaults <- 1, Faults <- {"repeat", "rce", "narb", "app", "nomerge"}
Repeat == INSTANCE LspBroker WITH
  N <- 2, Dests <- {1, 2}, Tags <- {1}, MaxSends <- 4,
  Faults <- {"repeat", "twice", "noroute"}

SceneInit ==
  \/ scene = "answer" /\ Asker!Init
  \/ scene = "chain" /\ Init
  \/ scene = "crash" /\ Crash!Init
  \/ scene = "repeat" /\ Repeat!Init

SceneNext ==
  /\ UNCHANGED scene
  /\ \/ scene = "answer" /\ Asker!Next
     \/ scene = "chain" /\ Next
     \/ scene = "crash" /\ Crash!Next
     \/ scene = "repeat" /\ Repeat!Next

(* Every event loop goes on reading what has arrived, and an RCE answers    *)
(* every query: both are loops without blocking waits. An application       *)
(* without an answer goes on asking.                                        *)
Fairness ==
  /\ \A i \in Asker!Dom : /\ WF_vars(scene = "answer" /\ Asker!ReadMessage(i))
                          /\ WF_vars(scene = "answer" /\ Asker!ReadRCEReply(i))
                          /\ WF_vars(scene = "answer" /\ Asker!ReadPeerReply(i))
                          /\ WF_vars(scene = "answer" /\ Asker!RceServe(i))
  /\ WF_vars(scene = "answer" /\ Asker!AppRead)
  /\ \A g \in {g1} : WF_vars(scene = "answer" /\ Asker!AppRetransmit(g))

SceneSpec == SceneInit /\ [][SceneNext]_<<vars, scene>> /\ Fairness

-----------------------------------------------------------------------------
(* The two LSPs through three domains: what the application has confirmed   *)
(* is confirmed and reserved in every domain of its ERO, and with a         *)
(* confirmation ID on the tag that was granted (HandleResvConfirm;          *)
(* HandleNextHopNARBReply tells a domain that held another one).            *)
ChainConfirmed == scene = "chain" => ConfirmedEverywhere /\ TagHeldEverywhere

(* What it has released, and a path that could not be completed, is held    *)
(* and confirmed in none (HandleResvRelease, HandleErrorCode).              *)
ChainNothingLeft == scene = "chain" => ReleasedEverywhere /\ FailureLeavesNoHold

(* Whichever one process or connection breaks, a NARB never has more        *)
(* bandwidth on record than the confirmed LSPs leave (HandleResvRelease, the*)
(* end of a broker).                                                        *)
CrashBandwidthNotOverstated == scene = "crash" => Crash!BandwidthNotOverstated

(* However the copies of confirmations and releases overtake what the first *)
(* ones do, the bandwidth on record is what the LSPs confirmed and not      *)
(* released leave: each is taken once and put back once (HandleResvConfirm, *)
(* HandleResvRelease).                                                      *)
RepeatBandwidthAccounted == scene = "repeat" => Repeat!BandwidthAccounted

(* Once its release is confirmed an LSP within one domain stays closed      *)
(* (HandleRCEReply drops a late reply).                                     *)
AnswerReleaseIsFinal == scene = "answer" => Asker!ReleaseIsFinal

(* An application gets an answer to its request, retransmitted or not, and  *)
(* a confirmation of its release (HandleRCEReply, HandleErrorCode,          *)
(* HandleResvReleaseConfirm).                                               *)
Answered == scene = "answer" => Asker!RequestAnswered /\ Asker!ReleaseAnswered
=============================================================================

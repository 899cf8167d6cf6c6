------------------------------ MODULE TeLinks ------------------------------
(***************************************************************************)
(* The physical TE links of the RCE as its resource database tells them    *)
(* apart: by the advertising router, the link ID and the addresses of the  *)
(* local and the remote interface. Of what an LSA says beside these only   *)
(* two things matter here: whether one of the two local identifiers is     *)
(* missing (part), and whether the link leads into a subnet whose router   *)
(* is known (uni, None if it does not).                                    *)
(***************************************************************************)
EXTENDS Naturals

CONSTANTS
  None,      \* the null pointer
  Ads,       \* the links that LSAs may advertise
  Gri        \* the owners of link state deltas

(* Link::Index and Link::IncompleteIndex.                                   *)
KeyOf(l)   == <<l.adv, l.id, l.lcl, l.rmt>>
Iface(l) == <<l.adv, l.lcl>>

(* A link whose remote address or remote identifier is missing, or whose    *)
(* link ID is still an address of the /30 between the two interfaces.       *)
IsIncomplete(l) ==
  \/ l.lcl # 0 /\ l.rmt = 0
  \/ l.id \div 4 = l.lcl \div 4
  \/ l.part

(* A link as an LSA describes it, without a list of link state deltas.      *)
Advertised(a) == [adv |-> a.adv, id |-> a.id, lcl |-> a.lcl, rmt |-> a.rmt,
                  part |-> a.part, uni |-> a.uni, holds |-> None]

(* Two links that are one link in its two directions.                       *)
Opposite(l, r) == r.adv = l.id /\ r.id = l.adv /\ r.rmt = l.lcl

Deltas(l) == IF l.holds = None THEN {} ELSE l.holds

LinkSet == [adv : Nat, id : Nat, lcl : Nat, rmt : Nat, part : BOOLEAN,
            uni : Nat \cup {None}, holds : (SUBSET Gri) \cup {None}]

ASSUME AdsAssumption == \A a \in Ads : Advertised(a) \in LinkSet

(* The router of a subnet advertises nothing, links without an address do   *)
(* not lead into a subnet, and an address is that of one router.            *)
ASSUME SubnetAssumption ==
  \A a, b \in Ads :
    /\ a.uni # None => b.adv # a.uni /\ a.lcl # 0
    /\ a.lcl = b.lcl /\ a.lcl # 0 => a.adv = b.adv
=============================================================================

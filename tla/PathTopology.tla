---------------------------- MODULE PathTopology ----------------------------
(***************************************************************************)
(* The graph a path computation of the RCE works on: links that carry some *)
(* switching capabilities, the sets of VLAN tags that are free on them and *)
(* the traffic specification that a path has at a node.                    *)
(*                                                                         *)
(* Abstracted: the encoding of a switching type (there is one per type),   *)
(* wavelengths, time slots and the special cases of Movaz and Ciena links. *)
(***************************************************************************)
LOCAL INSTANCE Naturals
LOCAL INSTANCE SequencesExt

CONSTANTS None, Node

ANY_VTAG           == 65535
PCEN_INFINITE_COST == 200 * 200 * 1000

L2SC == "l2sc"
TDM  == "tdm"
LSC  == "lsc"

-----------------------------------------------------------------------------
(* ConstraintTagSet: a bitmask and a flag for "any tag". Clear leaves the   *)
(* flag as it is.                                                           *)
NoTags      == [bits |-> {}, any |-> FALSE]
Clear(s)    == [s EXCEPT !.bits = {}]
IsEmpty(s)  == ~s.any /\ s.bits = {}
AddTag(s, tag) == IF tag = ANY_VTAG THEN [s EXCEPT !.any = TRUE]
                                    ELSE [s EXCEPT !.bits = @ \cup {tag}]

(* AddTags of a bitmask copies its first bytes, up to that of max_num.      *)
MAX_VLAN_NUM == 4096
AddTags(s, mask, max_num) ==
  [s EXCEPT !.bits = @ \cup {t \in mask : t <= 8 * ((max_num - 1) \div 8 + 1)}]

(* DeleteTags of a bitmask: the loop over the bytes starts with the second, *)
(* so that the tags of the first, 1 to 8, stay. (Mutant first: two bytes.)  *)
DeleteTags_SkipTwo(s, mask) == [s EXCEPT !.bits = @ \ {t \in mask : t > 16}]
DeleteTags(s, mask)         == [s EXCEPT !.bits = @ \ {t \in mask : t > 8}]

Intersect(s, o) == IF o.any THEN s ELSE [bits |-> s.bits \cap o.bits, any |-> FALSE]

LowestTag(s) == IF s.bits = {} THEN 0 ELSE CHOOSE t \in s.bits : \A u \in s.bits : t <= u

-----------------------------------------------------------------------------
(* A topology is a sequence of directed links. Two links in opposite        *)
(* directions with the same interfaces are each other's reverse.            *)
Links(T)       == DOMAIN T
InLinks(T, n)  == {l \in Links(T) : T[l].to = n}
OutLinks(T, n) == SelectSeq([i \in Links(T) |-> i], LAMBDA l : T[l].from = n)

(* BuildLinkVector leaves out links to or from routers that are not known.  *)
BuildLinkVector(ads) == SelectSeq(ads, LAMBDA l : {l.from, l.to} \subseteq Node)

ReverseLink(T, l) ==
  LET back == {m \in Links(T) : /\ T[m].from = T[l].to /\ T[m].to = T[l].from
                                /\ T[m].ifs = T[l].ifs}
  IN IF back = {} THEN None ELSE CHOOSE m \in back : \A k \in back : m <= k

-----------------------------------------------------------------------------
(* Whether a capability of a link carries a traffic specification.          *)
Divides(min, bw) == min = 0 \/ bw % min = 0
Serves(iscd, t) ==
  /\ iscd.sw = t.sw
  /\ \/ iscd.bw = t.bw
     \/ t.bw <= iscd.bw /\ t.sw = L2SC
     \/ t.bw <= iscd.bw /\ t.sw = TDM /\ Divides(iscd.min, t.bw)

Capabilities(link) == {link.iscds[i] : i \in DOMAIN link.iscds}

(* Optical links carry whatever has their switching type.                   *)
IsAvailableForTspec(link, t) ==
  \E iscd \in Capabilities(link) : Serves(iscd, t) \/ (t.sw = LSC /\ iscd.sw = LSC)

(* The last link of a path: the reverse link must carry the egress.         *)
CanBeEgressLink(T, l, t) ==
  ReverseLink(T, l) # None /\ \E iscd \in Capabilities(T[ReverseLink(T, l)]) : Serves(iscd, t)

(* Tags that some LSP uses on a link are taken from the set.                *)
Allocated(link) == UNION {iscd.alloc : iscd \in {c \in Capabilities(link) : c.sw = L2SC}}
ExcludeAllocatedVtags(link, tags) == DeleteTags(tags, Allocated(link))

(* The tags that are used on one of the other links of the two ends.        *)
Neighbours(T, l) ==
  (InLinks(T, T[l].from) \cup InLinks(T, T[l].to) \cup
     {m \in Links(T) : T[m].from \in {T[l].from, T[l].to}}) \ {l}
UsedAround(T, l) == UNION {Allocated(T[m]) : m \in Neighbours(T, l)}

(* ProceedByUpdatingVtags: from the tags at the head of the link l to those *)
(* behind it. "next" is the set the caller passes, with its old flag.       *)
Tagged(link) == {iscd \in Capabilities(link) : iscd.vlan /\ iscd.sw # TDM}

ProceedByUpdatingVtags(T, l, head, next) ==
  LET offered == AddTags(Clear(next), UNION {iscd.free : iscd \in Tagged(T[l])}, MAX_VLAN_NUM)
      free    == DeleteTags(offered, UsedAround(T, l))
  IN IF Tagged(T[l]) = {} THEN head
     ELSE IF head.any THEN free ELSE Intersect(free, head)

-----------------------------------------------------------------------------
(* A path crosses a boundary where the switching type is adapted: by an     *)
(* adaptation of the link, or because its two directions differ.            *)
Adaptations(link, t) ==
  SelectSeq(link.iacds, LAMBDA a : t.sw \in {a.lower, a.upper})

Differing(T, l) ==
  LET r == ReverseLink(T, l)
  IN IF r = None THEN FALSE
     ELSE LET one == T[l].iscds  two == T[r].iscds
          IN \/ Len(one) * Len(two) > 1
             \/ Len(one) = 1 /\ Len(two) = 1 /\ one[1].sw # two[1].sw

CrossingRegionBoundary(T, l, t) == Adaptations(T[l], t) # <<>> \/ Differing(T, l)

(* GetNextRegionTspec: the bandwidth stays as it is.                        *)
Adapted(T, l, t) ==
  IF ~Differing(T, l) THEN <<>>
  ELSE LET two == T[ReverseLink(T, l)].iscds
       IN IF Len(T[l].iscds) = 1 /\ Len(two) = 1 THEN two
          ELSE SelectSeq(two, LAMBDA iscd : iscd.sw # t.sw)

GetNextRegionTspec(T, l, t) ==
  LET explicit == Adaptations(T[l], t)
  IN IF explicit # <<>>
     THEN [t EXCEPT !.sw = IF Head(explicit).lower = t.sw THEN Head(explicit).upper
                                                          ELSE Head(explicit).lower]
     ELSE IF Adapted(T, l, t) = <<>> THEN t
     ELSE [t EXCEPT !.sw = Head(Adapted(T, l, t)).sw]

NextTspec(T, l, t) ==
  IF CrossingRegionBoundary(T, l, t) THEN GetNextRegionTspec(T, l, t) ELSE t

-----------------------------------------------------------------------------
(* VerifyPathConstraints, from what the routers (at) and the tag are: what  *)
(* is left at them after the path. The specification behind a boundary is   *)
(* derived from what the node has had until then.                           *)
Follow(T, v, l) ==
  LET t    == v.at[T[l].from]
      tags == IF IsEmpty(v.head) THEN v.next ELSE ProceedByUpdatingVtags(T, l, v.head, v.next)
      ok   == /\ v.ok /\ T[l].iscds # <<>> /\ IsAvailableForTspec(T[l], t)
              /\ IsEmpty(v.head) \/ ~IsEmpty(tags)
  IN IF ~ok THEN [v EXCEPT !.ok = FALSE]
     ELSE [ok |-> TRUE, next |-> tags, head |-> IF IsEmpty(v.head) THEN v.head ELSE tags,
           at |-> [v.at EXCEPT ![T[l].to] = IF CrossingRegionBoundary(T, l, t)
                                            THEN GetNextRegionTspec(T, l, @) ELSE t]]

VerifyPathConstraints(T, at, tag, path) ==
  FoldLeft(LAMBDA v, l : Follow(T, v, l),
           [ok |-> TRUE, head |-> IF tag = 0 THEN NoTags ELSE AddTag(NoTags, tag),
            next |-> NoTags, at |-> at], path)

(* AddLinkToEROTrack, from what is left at the routers. A hop has the tag   *)
(* where it is on a link with VLANs.                                        *)
HasVlans(T, l)  == l # None /\ \E iscd \in Capabilities(T[l]) : iscd.sw = L2SC /\ iscd.vlan
HopAt(T, at, l, tag) ==
  LET in == at[T[l].from].sw  out == at[T[l].to].sw
  IN [link |-> l, swIn |-> in, swOut |-> out,
      tagIn |-> IF in = L2SC /\ HasVlans(T, l) THEN tag ELSE 0,
      tagOut |-> IF out = L2SC /\ HasVlans(T, ReverseLink(T, l)) THEN tag ELSE 0]

-----------------------------------------------------------------------------
(* Notions the properties use: what a path should be.                       *)
Ends(T, path)  == [i \in DOMAIN path |-> T[path[i]].to]
Joined(T, path, src) ==
  /\ path # <<>> => T[path[1]].from = src
  /\ \A i \in 1 .. Len(path) - 1 : T[path[i]].to = T[path[i + 1]].from
Loopless(T, path, src) ==
  \A i, j \in DOMAIN path : /\ T[path[i]].to # src
                            /\ i # j => T[path[i]].to # T[path[j]].to
IsRoute(T, path, src, dest) ==
  /\ path # <<>> /\ Joined(T, path, src) /\ Loopless(T, path, src)
  /\ T[path[Len(path)]].to = dest

Cost(T, path) == LET c[i \in 0 .. Len(path)] == IF i = 0 THEN 0 ELSE c[i - 1] + T[path[i]].metric
                 IN c[Len(path)]

(* The traffic specification before each link of a path, and after it.      *)
TspecAlong(T, path, t) ==
  LET s[i \in 0 .. Len(path)] == IF i = 0 THEN t ELSE NextTspec(T, path[i], s[i - 1])
  IN s
=============================================================================

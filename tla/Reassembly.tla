----------------------------- MODULE Reassembly -----------------------------
(***************************************************************************)
(* ReassemblyBuffer (internal/ip/reassembly.go) behind a network that      *)
(* fragments packets with Fragment, possibly more than once, and loses,    *)
(* reorders and duplicates the fragments.  A behaviour is on one network:  *)
(* network.mtus are those of the links behind the sender's, where routers  *)
(* fragment again, and network.duplicates says whether it may duplicate    *)
(* what it carries.  Add is given fragments without padding: what is       *)
(* behind their TotalLen it would count as payload.                        *)
(*                                                                         *)
(* Add and cleanup hold b.mu to their end and are one step each; Add hands *)
(* the packet it completed to onComplete after the unlock, and the order   *)
(* in which concurrent calls do so is not observed here.                   *)
(***************************************************************************)
EXTENDS Fragmentation, FiniteSets

CONSTANTS
  Packets,       \* packets the sender builds, each with a key of its own
  SenderMTUs,    \* MTUs of the sender's link
  Networks,      \* networks [mtus, duplicates] behind that link
  MaxAge         \* cleanups a group survives: 30 s at one every 10 s

ASSUME PacketsAssumption ==
  /\ \A p \in Packets :
       /\ p = [key |-> p.key, df |-> p.df, off |-> 0, mf |-> FALSE, data |-> p.data]
       /\ p.data \in Seq(Nat) /\ Len(p.data) > 0
  /\ \A p, q \in Packets : p.key = q.key => p = q
ASSUME NetworksAssumption ==
  /\ SenderMTUs \subseteq Nat
  /\ \A n \in Networks : n.mtus \subseteq Nat /\ n.duplicates \in BOOLEAN
ASSUME AgeAssumption == MaxAge \in Nat

VARIABLES
  network,       \* the network of this behaviour
  unsent,        \* packets not sent yet
  wire,          \* what the network carries
  groups,        \* the fragment groups, by key
  groupsActive,  \* stats.GroupsActive
  delivered      \* packets given to onComplete

vars == <<network, unsent, wire, groups, groupsActive, delivered>>

-----------------------------------------------------------------------------
(* The network.                                                            *)

\* The network after it carried f somewhere: it may hold a copy of f.
Carried(f) ==
  IF network.duplicates THEN {wire, wire \ {f}} ELSE {wire \ {f}}

Send(p) ==
  /\ p \in unsent
  /\ \E mtu \in SenderMTUs :
       CanSend(p, mtu) /\ wire' = wire \cup Fragment(p, mtu)
  /\ unsent' = unsent \ {p}
  /\ UNCHANGED <<network, groups, groupsActive, delivered>>

Forward(f) ==
  /\ \E mtu \in network.mtus, rest \in Carried(f) :
       /\ NeedsFragmentation(f, mtu) /\ CanSend(f, mtu)
       /\ wire' = rest \cup Fragment(f, mtu)
  /\ UNCHANGED <<network, unsent, groups, groupsActive, delivered>>

-----------------------------------------------------------------------------
(* The buffer.                                                             *)

Active == DOMAIN groups

NewGroup == [fragments |-> [o \in {} |-> 0], totalLen |-> -1, received |-> 0,
             age |-> 0]

\* A fragment with the offset of a stored one is taken for a duplicate of it.
StoreAgain(g, f) ==
  [g EXCEPT !.fragments = [o \in DOMAIN g.fragments \cup {f.off} |->
                             IF o = f.off THEN f ELSE g.fragments[o]],
            !.received = g.received + Len(f.data)]
StoreAndRenew(g, f) ==
  IF f.off \in DOMAIN g.fragments THEN [g EXCEPT !.age = 0]
                                  ELSE [StoreAgain(g, f) EXCEPT !.age = 0]
Store(g, f) ==
  IF f.off \in DOMAIN g.fragments THEN g ELSE StoreAgain(g, f)

\* Only the last fragment tells the length of the packet.
NoteLength(g, f) ==
  IF f.mf THEN g ELSE [g EXCEPT !.totalLen = f.off + Len(f.data)]

SeenLast(g) == g.totalLen > 0
IsComplete(g) == g.totalLen > 0 /\ g.received = g.totalLen

\* The blocks, counted from 1, of the packet that a fragment carries.
Blocks(f) == f.off + 1 .. f.off + Len(f.data)

\* reassemble: copies every payload to its place in a zeroed packet, under the
\* first fragment's header; ErrInvalidFragment when there is no first one.
Reassembled(g) ==
  IF 0 \notin DOMAIN g.fragments THEN {}
  ELSE {Under(g.fragments[0], 0, FALSE,
           [i \in 1 .. g.totalLen |->
             IF \E o \in DOMAIN g.fragments : i \in Blocks(g.fragments[o])
               THEN LET o == CHOOSE o \in DOMAIN g.fragments :
                                      i \in Blocks(g.fragments[o])
                    IN g.fragments[o].data[i - o]
               ELSE 0])}

IsFragment(f) == f.mf \/ f.off > 0

Without(k) == [j \in Active \ {k} |-> groups[j]]
With(k, g) == [j \in Active \cup {k} |-> IF j = k THEN g ELSE groups[j]]

Add(f) ==
  LET exists == f.key \in Active
      active == IF exists THEN groupsActive ELSE groupsActive + 1
      g == NoteLength(Store(IF exists THEN groups[f.key] ELSE NewGroup, f), f)
  IN IF ~IsFragment(f)
       THEN /\ delivered' = delivered \cup {f}
            /\ UNCHANGED <<groups, groupsActive>>
     ELSE IF IsComplete(g)
       THEN /\ delivered' = delivered \cup Reassembled(g)
            /\ groups' = Without(f.key)
            /\ groupsActive' = active - 1
     ELSE /\ groups' = With(f.key, g)
          /\ groupsActive' = active
          /\ UNCHANGED delivered

Receive(f) ==
  /\ wire' \in Carried(f)
  /\ Add(f)
  /\ UNCHANGED <<network, unsent>>

\* A tick of the ticker that Start creates.
StaleLate(g) == g.age > MaxAge
IsStale(g) == g.age >= MaxAge
cleanup ==
  LET stale == {k \in Active : IsStale(groups[k])}
  IN /\ groups' = [k \in Active \ stale |->
                     [groups[k] EXCEPT !.age = groups[k].age + 1]]
     /\ groupsActive' = groupsActive - Cardinality(stale)
     /\ UNCHANGED <<network, unsent, wire, delivered>>

-----------------------------------------------------------------------------

Init ==
  /\ network \in Networks
  /\ unsent = Packets
  /\ wire = {}
  /\ groups = [k \in {} |-> NewGroup]
  /\ groupsActive = 0
  /\ delivered = {}

Next ==
  \/ \E p \in Packets : Send(p)
  \/ \E f \in wire : Forward(f) \/ Receive(f)
  \/ cleanup

Spec == Init /\ [][Next]_vars

\* The ticker runs until the stack is stopped.
FairSpec == Spec /\ WF_vars(cleanup)

-----------------------------------------------------------------------------
(* Properties.                                                             *)

TypeOK ==
  /\ network \in Networks
  /\ unsent \subseteq Packets
  /\ \A f \in wire : f.off \in Nat /\ Len(f.data) > 0
  /\ \A k \in Active :
       /\ groups[k].age \in 0 .. MaxAge
       /\ groups[k].totalLen = -1 \/ groups[k].totalLen > 0
       /\ groups[k].received > 0
  /\ groupsActive = Cardinality(Active)

(* Whatever Fragment cut and the network did, Add delivers only packets    *)
(* that were sent, byte for byte (reassembly_test.go:33-35, 63-65).        *)
DeliveredIntact == delivered \subseteq Packets

Covered(g) == UNION {Blocks(g.fragments[o]) : o \in DOMAIN g.fragments}

(* Add recognises completion: no group waits for its eviction with the     *)
(* whole packet in it.                                                     *)
NoCompleteGroupWaits ==
  \A p \in Packets : p.key \in Active =>
    ~(1 .. Len(p.data) \subseteq Covered(groups[p.key]))

(* cleanup leaves no group for ever, however many duplicates arrive.       *)
GroupsExpire ==
  \A p \in Packets : p.key \in Active ~> p.key \notin Active
=============================================================================

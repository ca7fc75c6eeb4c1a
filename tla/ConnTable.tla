----------------------------- MODULE ConnTable ------------------------------
(***************************************************************************)
(* ConnectionTable (internal/tcp/conn_table.go): the connections by        *)
(* 4-tuple, the listeners by port, and the ephemeral port counter.         *)
(*                                                                         *)
(* Every method that takes ct.mu is one step: the lock is held to its end. *)
(* EphemeralPort is several: it adds to the atomic counter, resets it with *)
(* a CompareAndSwap, and takes the read lock for one port at a time, with  *)
(* the other callers in between.  A caller that is given a port goes on to *)
(* register a connection from it, and later removes that connection.       *)
(***************************************************************************)
EXTENDS Integers

CONSTANTS
  Callers,            \* goroutines that open connections
  MinPort, MaxPort,   \* the ephemeral range, 49152 .. 65535 in the code
  ListenPorts,        \* ports that listeners are registered on
  LocalIP,            \* the address of this host
  Remotes,            \* endpoints [ip, port] of other hosts
  CounterBound        \* the counter is not followed beyond (2^32 - 1 at most)

ASSUME PortsAssumption ==
  MinPort \in Nat /\ MaxPort \in Nat /\ MinPort < MaxPort
ASSUME BoundAssumption == CounterBound \in Nat /\ CounterBound > MaxPort
ASSUME RemotesAssumption == \A r \in Remotes : r.ip # LocalIP

VARIABLES
  conns,          \* the caller that registered each connection, by ConnKey
  listeners,      \* the ports with a listener
  ephemeralPort,  \* the counter: the next port to try
  pc, port, key   \* of each caller: where it is, the port it holds, its ConnKey

tableVars == <<conns, listeners>>
callerVars == <<pc, port, key>>
vars == <<tableVars, ephemeralPort, callerVars>>

-----------------------------------------------------------------------------

EphemeralPorts == MinPort .. MaxPort

ConnKey(localPort, remote) ==
  [SrcIP |-> LocalIP, SrcPort |-> localPort,
   DstIP |-> remote.ip, DstPort |-> remote.port]

\* The keys of the registered connections.
Keys == DOMAIN conns

IsFree(p) == p \notin listeners /\ \A k \in Keys : k.SrcPort # p

\* LookupOrListener: the connection of the 4-tuple, else a listener.
LookupOrListener(src, dst) ==
  LET k == [SrcIP |-> src.ip, SrcPort |-> src.port,
            DstIP |-> dst.ip, DstPort |-> dst.port]
  IN CASE k \in Keys             -> <<"conn", k>>
       [] k \notin Keys /\ dst.port \in listeners -> <<"listener", dst.port>>
       [] OTHER                  -> <<"none">>

Goto(c, label) == pc' = [pc EXCEPT ![c] = label]

-----------------------------------------------------------------------------
(* EphemeralPort.                                                          *)

Call(c) ==
  /\ pc[c] = "idle"
  /\ Goto(c, "add")
  /\ UNCHANGED <<tableVars, ephemeralPort, port, key>>

\* port := ephemeralPort.Add(1) - 1, and the comparison with 65535.
PastEndByOne(p) == p > MaxPort + 1
PastEnd(p) == p > MaxPort

Add(c) ==
  /\ pc[c] = "add"
  /\ ephemeralPort < CounterBound
  /\ ephemeralPort' = ephemeralPort + 1
  /\ port' = [port EXCEPT ![c] = ephemeralPort]
  /\ Goto(c, IF PastEnd(ephemeralPort) THEN "wrap" ELSE "scan")
  /\ UNCHANGED <<tableVars, key>>

\* CompareAndSwap: resets the counter only if no one has added since.
StoreFirst(counter, expected) == MinPort + 1
ExpectUnadded(counter, expected) ==
  IF counter = expected - 1 THEN MinPort + 1 ELSE counter
CompareAndSwap(counter, expected) ==
  IF counter = expected THEN MinPort + 1 ELSE counter

Wrap(c) ==
  /\ pc[c] = "wrap"
  /\ ephemeralPort' = CompareAndSwap(ephemeralPort, port[c] + 1)
  /\ Goto(c, "add")
  /\ UNCHANGED <<tableVars, port, key>>

\* Under the read lock: the port is returned if nothing uses it.
Scan(c) ==
  /\ pc[c] = "scan"
  /\ Goto(c, IF IsFree(port[c]) THEN "got" ELSE "add")
  /\ UNCHANGED <<tableVars, ephemeralPort, port, key>>

-----------------------------------------------------------------------------
(* The table.                                                              *)

\* Register: ErrConnExists when the key is taken, whoever took it.
KeyIgnored(k) == FALSE
KeyTaken(k) == k \in Keys

Register(c) ==
  /\ pc[c] = "got"
  /\ \E r \in Remotes :
       LET k == ConnKey(port[c], r)
       IN IF KeyTaken(k)
            THEN Goto(c, "idle") /\ UNCHANGED <<conns, key>>
            ELSE /\ conns' = [x \in Keys \cup {k} |->
                                IF x = k THEN c ELSE conns[x]]
                 /\ key' = [key EXCEPT ![c] = k]
                 /\ Goto(c, "open")
  /\ UNCHANGED <<listeners, ephemeralPort, port>>

\* Remove, by key.
Remove(c) ==
  /\ pc[c] = "open"
  /\ conns' = [x \in Keys \ {key[c]} |-> conns[x]]
  /\ Goto(c, "idle")
  /\ UNCHANGED <<listeners, ephemeralPort, port, key>>

RegisterListener(p) ==
  /\ p \notin listeners
  /\ listeners' = listeners \cup {p}
  /\ UNCHANGED <<conns, ephemeralPort, callerVars>>

RemoveListener(p) ==
  /\ listeners' = listeners \ {p}
  /\ UNCHANGED <<conns, ephemeralPort, callerVars>>

-----------------------------------------------------------------------------

NoKey == [SrcIP |-> LocalIP, SrcPort |-> 0, DstIP |-> LocalIP, DstPort |-> 0]

Init ==
  /\ conns = [k \in {} |-> k]
  /\ listeners = {}
  /\ ephemeralPort = MinPort
  /\ pc = [c \in Callers |-> "idle"]
  /\ port = [c \in Callers |-> 0]
  /\ key = [c \in Callers |-> NoKey]

EphemeralPort(c) == Add(c) \/ Wrap(c) \/ Scan(c)

Next ==
  \/ \E c \in Callers : Call(c) \/ EphemeralPort(c) \/ Register(c) \/ Remove(c)
  \/ \E p \in ListenPorts : RegisterListener(p) \/ RemoveListener(p)

Spec == Init /\ [][Next]_vars

\* A goroutine inside EphemeralPort runs on; nothing else has to happen.
Fairness == \A c \in Callers : WF_vars(EphemeralPort(c))
FairSpec == Spec /\ Fairness

-----------------------------------------------------------------------------
(* Properties.                                                             *)

TypeOK ==
  /\ \A k \in Keys : k.SrcIP = LocalIP /\ k.SrcPort \in EphemeralPorts
  /\ \A k \in Keys : conns[k] \in Callers
  /\ listeners \subseteq ListenPorts
  /\ ephemeralPort \in MinPort .. CounterBound
  /\ pc \in [Callers -> {"idle", "add", "wrap", "scan", "got", "open"}]
  /\ port \in [Callers -> Nat] /\ DOMAIN key = Callers
  /\ \A c \in Callers :
       /\ pc[c] \in {"scan", "got", "open"} => port[c] \in EphemeralPorts
       /\ pc[c] = "wrap" => port[c] \in MaxPort + 1 .. CounterBound - 1

(* Register and Remove: the table holds exactly the connections that were  *)
(* registered and not removed, each under the caller that registered it,   *)
(* although two callers may have been given the same port.                 *)
TableOwnership ==
  /\ \A c \in Callers : pc[c] = "open" =>
       key[c] \in Keys /\ conns[key[c]] = c /\ key[c].SrcPort = port[c]
  /\ \A k \in Keys : pc[conns[k]] = "open" /\ key[conns[k]] = k

(* EphemeralPort returns as long as the first port of the range is free:   *)
(* "EphemeralPort returns a free ephemeral port (49152-65535)"             *)
(* (conn_table.go:132).                                                    *)
ReturnsFirstPort ==
  \A c \in Callers : pc[c] = "add" ~> pc[c] = "got" \/ ~IsFree(MinPort)

(* A segment from remote for the local port p is looked up as the 4-tuple  *)
(* of the local host, or as the packet has it.                             *)
Demultiplexes(asLocal) ==
  \A p \in ListenPorts \cup EphemeralPorts, remote \in Remotes :
    LET local == [ip |-> LocalIP, port |-> p]
        found == IF asLocal THEN LookupOrListener(local, remote)
                            ELSE LookupOrListener(remote, local)
        k == ConnKey(p, remote)
    IN /\ k \in Keys => found = <<"conn", k>>
       /\ k \notin Keys /\ p \in listeners => found = <<"listener", p>>

(* LookupOrListener demultiplexes inbound segments in one of the           *)
(* orientations of its comment (conn_table.go:80-81): one of them finds    *)
(* the registered connections, keyed by their local source port, and the   *)
(* listeners.                                                              *)
OneOrientationDemultiplexes == Demultiplexes(TRUE) \/ Demultiplexes(FALSE)
=============================================================================

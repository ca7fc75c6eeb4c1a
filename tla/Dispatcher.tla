----------------------------- MODULE Dispatcher -----------------------------
(***************************************************************************)
(* Dispatcher (internal/ip/dispatcher.go): every packet is dispatched by a *)
(* goroutine of its own, while handlers are registered and Stats is read.  *)
(*                                                                         *)
(* A call of Dispatch is "called", "counted" as received, "found" once it  *)
(* has looked for a handler, "handling" inside HandleIPPayload, and at     *)
(* last "invalid", "dropped" or "returned".  Each counter is atomic, but   *)
(* Stats loads them one after another.                                     *)
(***************************************************************************)
EXTENDS IpHeader, FiniteSets

CONSTANTS
  Packets,
  Raw,            \* the bytes of each
  Handlers,
  Protocol,       \* the protocol of each handler
  NoHandler

VARIABLES
  handlers,       \* the handler of each protocol
  dispatch,       \* where the call of Dispatch for each packet is
  handler,        \* the handler that call found
  count,          \* the four counters
  snapshot,       \* the values a call of Stats has loaded so far
  settled,        \* how many packets had an outcome when that call began
  registered,     \* the handlers in the order of their registration, and
  eligible        \* for each call, the last one before it and those during it

counterVars == <<count, snapshot, settled>>
registerVars == <<handlers, registered, eligible>>
vars == <<dispatch, handler, counterVars, registerVars>>

Protocols == {Protocol[h] : h \in Handlers}

\* In the order in which Stats loads them.
Counters == <<"received", "invalid", "dropped", "dispatched">>

Bump(name) == count' = [count EXCEPT ![name] = @ + 1]

-----------------------------------------------------------------------------
(* What Dispatch reads from a packet.                                      *)

AcceptsUnpadded(raw) ==
  /\ Len(raw) >= 20
  /\ raw[1] \div 16 = 4
  /\ LET headerLen == (raw[1] % 16) * 4
         totalLen == Uint16(raw, 3)
     IN  headerLen >= 20 /\ totalLen = Len(raw) /\ totalLen >= headerLen
Accepts(raw) ==
  /\ Len(raw) >= 20
  /\ raw[1] \div 16 = 4
  /\ LET headerLen == (raw[1] % 16) * 4
         totalLen == Uint16(raw, 3)
     IN  /\ headerLen >= 20 /\ headerLen <= Len(raw)
         /\ totalLen <= Len(raw) /\ totalLen >= headerLen

ProtocolOf(raw) == raw[10]
SrcIP(raw) == SubSeq(raw, 13, 16)
DstIP(raw) == SubSeq(raw, 17, 20)

PayloadWithPadding(raw) == SubSeq(raw, (raw[1] % 16) * 4 + 1, Len(raw))
PayloadOf(raw) == SubSeq(raw, (raw[1] % 16) * 4 + 1, Uint16(raw, 3))

HandlerFor(raw) ==
  IF ProtocolOf(raw) \in Protocols THEN handlers[ProtocolOf(raw)] ELSE NoHandler

-----------------------------------------------------------------------------
(* Dispatch.                                                               *)

Move(p, from, to) ==
  /\ dispatch[p] = from
  /\ dispatch' = [dispatch EXCEPT ![p] = to]

\* The last handler registered for the protocol of a packet.
LatestFor(raw) ==
  LET those == {i \in DOMAIN registered : Protocol[registered[i]] = ProtocolOf(raw)}
  IN  IF those = {} THEN NoHandler
      ELSE registered[CHOOSE i \in those : \A j \in those : j <= i]

Call(p) ==
  /\ Move(p, "none", "called")
  /\ eligible' = [eligible EXCEPT ![p] = {LatestFor(Raw[p])}]
  /\ UNCHANGED <<handler, counterVars, handlers, registered>>

CountNothing(p) ==
  /\ Move(p, "called", "counted")
  /\ UNCHANGED <<handler, counterVars, registerVars>>
Count(p) ==
  /\ Move(p, "called", "counted")
  /\ Bump("received")
  /\ UNCHANGED <<handler, snapshot, settled, registerVars>>

RejectAsDropped(p) ==
  /\ ~ Accepts(Raw[p])
  /\ Move(p, "counted", "invalid")
  /\ Bump("dropped")
  /\ UNCHANGED <<handler, snapshot, settled, registerVars>>
Reject(p) ==
  /\ ~ Accepts(Raw[p])
  /\ Move(p, "counted", "invalid")
  /\ Bump("invalid")
  /\ UNCHANGED <<handler, snapshot, settled, registerVars>>

\* Under the read lock.
Find(p) ==
  /\ Accepts(Raw[p])
  /\ Move(p, "counted", "found")
  /\ handler' = [handler EXCEPT ![p] = HandlerFor(Raw[p])]
  /\ UNCHANGED <<counterVars, registerVars>>

Drop(p) ==
  /\ handler[p] = NoHandler
  /\ Move(p, "found", "dropped")
  /\ Bump("dropped")
  /\ UNCHANGED <<handler, snapshot, settled, registerVars>>

Dispatch(p) ==
  /\ handler[p] # NoHandler
  /\ Move(p, "found", "handling")
  /\ Bump("dispatched")
  /\ UNCHANGED <<handler, snapshot, settled, registerVars>>

Return(p) ==
  /\ Move(p, "handling", "returned")
  /\ UNCHANGED <<handler, counterVars, registerVars>>

-----------------------------------------------------------------------------

\* Under the lock.
PutIfAbsent(h) ==
  IF handlers[Protocol[h]] = NoHandler
  THEN [handlers EXCEPT ![Protocol[h]] = h] ELSE handlers
Put(h) == [handlers EXCEPT ![Protocol[h]] = h]

Pending(p) == dispatch[p] \in {"called", "counted"}

Register(h) ==
  /\ \A i \in DOMAIN registered : registered[i] # h
  /\ registered' = Append(registered, h)
  /\ handlers' = Put(h)
  /\ eligible' = [p \in Packets |->
       IF Pending(p) /\ Protocol[h] = ProtocolOf(Raw[p])
       THEN eligible[p] \cup {h} ELSE eligible[p]]
  /\ UNCHANGED <<dispatch, handler, counterVars>>

Settled == count["invalid"] + count["dropped"] + count["dispatched"]

\* One of the four loads of a call of Stats.
Load ==
  /\ Len(snapshot) < Len(Counters)
  /\ snapshot' = Append(snapshot, count[Counters[Len(snapshot) + 1]])
  /\ settled' = IF snapshot = <<>> THEN Settled ELSE settled
  /\ UNCHANGED <<dispatch, handler, count, registerVars>>

Init ==
  /\ handlers = [protocol \in Protocols |-> NoHandler]
  /\ dispatch = [p \in Packets |-> "none"]
  /\ handler = [p \in Packets |-> NoHandler]
  /\ count = [name \in {"received", "invalid", "dropped", "dispatched"} |-> 0]
  /\ snapshot = <<>> /\ settled = 0
  /\ registered = <<>>
  /\ eligible = [p \in Packets |-> {}]

Next ==
  \/ \E p \in Packets :
       Call(p) \/ Count(p) \/ Reject(p) \/ Find(p) \/ Drop(p) \/ Dispatch(p) \/ Return(p)
  \/ \E h \in Handlers : Register(h)
  \/ Load

Spec == Init /\ [][Next]_vars

-----------------------------------------------------------------------------
(* Properties.                                                             *)

In(states) == Cardinality({p \in Packets : dispatch[p] \in states})

(* At every moment each counter is the number of packets that met its      *)
(* outcome, so that every packet received has exactly one outcome or is    *)
(* still on its way: the atomic additions of concurrent calls of Dispatch  *)
(* and its early returns (dispatcher.go:62-117).                           *)
CountersBalance ==
  /\ count["received"] = In({"counted", "found", "handling", "invalid", "dropped", "returned"})
  /\ count["invalid"] = In({"invalid"})
  /\ count["dropped"] = In({"dropped"})
  /\ count["dispatched"] = In({"handling", "returned"})

(* Stats may mix moments (dispatcher.go:124-127), and may even show more   *)
(* outcomes than packets received; but never fewer outcomes than there     *)
(* were when it began, nor more than packets received when it ends.        *)
SnapshotWithinCall ==
  Len(snapshot) = 4 =>
    /\ snapshot[2] + snapshot[3] + snapshot[4] >= settled
    /\ snapshot[2] + snapshot[3] + snapshot[4] <= count["received"]

(* A packet goes to a handler that was registered last at some moment of   *)
(* its Dispatch, and is dropped only if there was none: a Register that    *)
(* returned before the packet came is never missed (dispatcher.go:107).    *)
HandlerInForce ==
  \A p \in Packets : dispatch[p] \in {"found", "handling", "dropped", "returned"} =>
                        handler[p] \in eligible[p]
=============================================================================

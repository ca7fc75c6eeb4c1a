------------------------------- MODULE Stack -------------------------------
(***************************************************************************)
(* The parts that carry a packet, put together: an interface is opened     *)
(* (Devices), the read loop reads packets from it (ReadLoop) and hands     *)
(* each to the dispatcher in a goroutine of its own (Dispatcher), which    *)
(* calls the handler registered for its protocol (Icmp), and that writes   *)
(* its reply to the interface.  Meanwhile the owner registers handlers,    *)
(* reads the statistics, stops and closes.                                 *)
(*                                                                         *)
(* The code has the parts and no function that starts them (the command's  *)
(* start ends with "TODO: Initialize and start the networking stack").     *)
(***************************************************************************)
EXTENDS ReadLoop, Bytes

CONSTANTS
  BufSize,        \* bytes the loop reads of a packet; the device cuts the rest
  Offered,        \* the bytes of each packet as the interface offers it
  Asked,          \* the echo requests among them, as their senders meant them
  Handlers, Protocol, NoHandler

\* The handlers are those that icmp.Handler registers.
ASSUME HandlerAssumption ==
  NoHandler \notin Handlers /\ \A h \in Handlers : Protocol[h] = I!ProtoICMP
ASSUME OfferedAssumption == \A p \in Packets : Offered[p] \in Seq(Byte)
ASSUME SizeAssumption == MaxPacket = 65535 /\ BufSize \in Nat

VARIABLES
  calls, opened, descriptors,                             \* Devices
  handlers, dispatch, handler, count, snapshot, settled,  \* Dispatcher
  registered, eligible,
  idGen, id, reply                                        \* Icmp

deviceVars == <<calls, opened, descriptors>>
dispatchVars == <<handlers, dispatch, handler, count, snapshot, settled, registered, eligible>>
icmpVars == <<idGen, id, reply>>
stackVars == <<vars, deviceVars, dispatchVars, icmpVars>>

\* What Read returns and the loop copies for the handler.
Raw == [p \in Packets |->
          SubSeq(Offered[p], 1, IF Len(Offered[p]) < BufSize THEN Len(Offered[p]) ELSE BufSize)]

Device == INSTANCE Devices
D == INSTANCE Dispatcher
Echo == INSTANCE Icmp WITH
          SrcIP <- [p \in Packets |-> D!SrcIP(Raw[p])],
          DstIP <- [p \in Packets |-> D!DstIP(Raw[p])],
          PayloadOf <- [p \in Packets |-> D!PayloadOf(Raw[p])]

-----------------------------------------------------------------------------
(* What the peers send.                                                    *)

\* A packet of RFC 791 with an echo request of RFC 792 in it: so many words of
\* options, so many bytes of data.  There may be padding behind.  MF and the
\* fragment offset are not looked at, as Dispatch does not: a fragment would count
\* as a packet.
Carries(packet, options, size) ==
  LET header == 20 + 4 * options
  IN  /\ header + 8 + size <= Len(packet)
      /\ packet[1] = 69 + options /\ I!Uint16(packet, 3) = header + 8 + size
      /\ packet[10] = I!ProtoICMP /\ packet[header + 1] = Echo!TypeEchoRequest

\* Who asks whom for what in such a packet.
Meant(packet, options, size) ==
  LET header == 20 + 4 * options
  IN  [src |-> SubSeq(packet, 13, 16), dst |-> SubSeq(packet, 17, 20),
       id |-> I!Uint16(packet, header + 5), seq |-> I!Uint16(packet, header + 7),
       data |-> SubSeq(packet, header + 9, header + 8 + size)]

\* All the requests, and nothing else, have been asked.
ASSUME AskedAssumption ==
  \A p \in Packets :
    IF p \in DOMAIN Asked
    THEN \E options \in 0 .. 10, size \in 0 .. Len(Offered[p]) :
           /\ Carries(Offered[p], options, size)
           /\ Asked[p] = Meant(Offered[p], options, size)
    ELSE ~ \E options \in 0 .. 10, size \in 0 .. Len(Offered[p]) :
             Carries(Offered[p], options, size)

-----------------------------------------------------------------------------

Open ==
  /\ Device!OpenCall \/ Device!OpenFails \/ Device!OpenReturns
  /\ UNCHANGED <<vars, dispatchVars, icmpVars>>

\* Steps of the loops and of their owner.
Loop(l) ==
  /\ LoopStep(l) \/ Read(l) \/ Interrupted(l)
  /\ UNCHANGED <<deviceVars, dispatchVars, icmpVars>>

Own ==
  /\ opened = "open"
  /\ \/ \E l \in Loops : Start(l)
     \/ Stop \/ StopReturns \/ StopTimesOut \/ CancelParent
  /\ UNCHANGED <<deviceVars, dispatchVars, icmpVars>>

CloseDevice ==
  /\ Close /\ Device!Close
  /\ UNCHANGED <<dispatchVars, icmpVars>>

Configure ==
  /\ (\E h \in Handlers : D!Register(h)) \/ D!Load
  /\ UNCHANGED <<vars, deviceVars, icmpVars>>

\* The goroutine of a packet: HandlePacket calls Dispatch ...
Dispatching(p) ==
  /\ p \in handling
  /\ D!Call(p) \/ D!Count(p) \/ D!Find(p) \/ D!Dispatch(p)
  /\ UNCHANGED <<vars, deviceVars, icmpVars>>

\* ... and ends when that returns ...
NotHandled(p) ==
  /\ Handle(p)
  /\ D!Reject(p) \/ D!Drop(p)
  /\ UNCHANGED <<deviceVars, icmpVars>>

\* ... or, within HandleIPPayload, builds the reply and writes it, which fails
\* when the interface is closed.
Replying(p) ==
  /\ dispatch[p] = "handling"
  /\ Echo!BuildReply(p)
  /\ UNCHANGED <<vars, deviceVars, dispatchVars>>

Handled(p) ==
  /\ Handle(p)
  /\ D!Return(p)
  /\ Echo!Ignore(p) \/ (~closed /\ Echo!Write(p)) \/ Echo!WriteFails(p)
  /\ UNCHANGED deviceVars

Goroutine(p) == Dispatching(p) \/ NotHandled(p) \/ Replying(p) \/ Handled(p)

InitStack == Init /\ Device!Init /\ D!Init /\ Echo!Init

NextStack ==
  \/ Open \/ Own \/ CloseDevice \/ Configure
  \/ \E l \in Loops : Loop(l)
  \/ \E p \in Packets : Goroutine(p)

\* Goroutines that can run do.
FairnessStack ==
  /\ LoopFairness
  /\ \A p \in Packets : WF_stackVars(Goroutine(p))

SpecStack == InitStack /\ [][NextStack]_stackVars /\ FairnessStack

-----------------------------------------------------------------------------
(* Properties.                                                             *)

CountersBalance == D!CountersBalance
SnapshotWithinCall == D!SnapshotWithinCall
HandlerInForce == D!HandlerInForce
NoDescriptorLeak == Device!NoDescriptorLeak

(* The counters of the two parts agree: the dispatcher receives no packet  *)
(* that the loop did not count as read, and when no goroutine of a packet  *)
(* is left each packet read has its outcome; a read that was interrupted   *)
(* or failed is no packet (loop.go:79-106, dispatcher.go:62-117).          *)
PacketsAccounted ==
  /\ count["received"] <= packetsRead
  /\ handling = {} => packetsRead = D!Settled

\* packet answers the request asked.
Answers(packet, asked) ==
  LET payload == D!PayloadOf(packet)
      m == Echo!ParseEcho(payload)
  IN  /\ D!Accepts(packet)
      /\ D!SrcIP(packet) = asked.dst /\ D!DstIP(packet) = asked.src
      /\ D!VerifyChecksum(SubSeq(packet, 1, 20)) /\ D!VerifyChecksum(payload)
      /\ m.ok /\ m.Type = Echo!TypeEchoReply
      /\ m.ID = asked.id /\ m.Seq = asked.seq /\ m.Data = asked.data

(* A packet written answers a request that was asked: it goes back to who  *)
(* asked, with the data of the request and neither its options nor its     *)
(* padding, is itself a packet that the dispatcher would accept, with      *)
(* checksums that are right, and no two of the replies of concurrent       *)
(* handlers share an identification (icmp/handler.go:48-60).               *)
RepliesAnswer ==
  [][\A p \in Packets :
       reply[p] # "written" /\ reply'[p] = "written" =>
         /\ p \in DOMAIN Asked
         /\ Answers(Echo!EchoReply(p), Asked[p])
         /\ \A q \in Packets \ {p} : reply[q] # "none" => id[q] # id[p]]_stackVars

(* A request that was read whole after a handler was registered is         *)
(* answered, unless the Write fails: no step between the read loop and the *)
(* reply loses it, also when the loop was stopped meanwhile.               *)
EveryRequestAnswered ==
  \A p \in DOMAIN Asked :
    (/\ p \in handling /\ dispatch[p] = "none"
     /\ Len(Offered[p]) <= BufSize
     /\ handlers[D!ProtoICMP] # NoHandler)
      ~> reply[p] \in {"written", "failed"}
=============================================================================

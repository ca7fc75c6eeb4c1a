----------------------------- MODULE Handshake ------------------------------
(***************************************************************************)
(* The three-way handshake of internal/tcp/handshake.go between the        *)
(* TCPConn of an active opener (client) and of a passive opener (server),  *)
(* over a wire that loses, duplicates and reorders segments, with output   *)
(* functions that may fail and hosts that restart and leave their old      *)
(* segments on the wire.                                                   *)
(*                                                                         *)
(* One handler call is one step: the callers of the handlers of a TCPConn  *)
(* run one of them at a time.  The wire is the set of all segments ever    *)
(* sent; a lost segment is one that is never delivered again, a duplicated *)
(* one is delivered twice.                                                 *)
(***************************************************************************)
EXTENDS Integers, TcpState

CONSTANTS
  SeqMod,       \* size of the sequence number space, 2^32 in the code
  ClientMSS,    \* DefaultMSS and DefaultWindow of the two hosts
  ServerMSS,
  ClientWindow,
  ServerWindow,
  MayFail,      \* whether an output function may return an error
  MayRestart    \* whether a host may replace its connection by a new one

ASSUME SeqModAssumption == SeqMod \in Nat \ {0}
ASSUME SizesAssumption ==
  /\ ClientMSS \in Nat \ {0} /\ ServerMSS \in Nat \ {0}
  /\ ClientWindow \in Nat /\ ServerWindow \in Nat
ASSUME FaultsAssumption == MayFail \in BOOLEAN /\ MayRestart \in BOOLEAN

VARIABLES
  client, server,   \* the two TCPConn
  wire,             \* every segment sent so far
  clientISNs,       \* the initial sequence numbers drawn by each host
  serverISNs

vars == <<client, server, wire, clientISNs, serverISNs>>

-----------------------------------------------------------------------------
(* Sequence numbers, connections and segments.                             *)

Seqs == 0 .. SeqMod - 1

\* uint32 arithmetic: a SYN consumes one sequence number.
SuccUnwrapped(n) == n + 1
Succ(n) == (n + 1) % SeqMod

Conns == [state : States, sndISN : Seqs, sndNXT : Seqs, sndUNA : Seqs,
          sndWND : Nat, rcvNXT : Seqs, rcvWND : Nat, mss : Nat]

NewTCPConn(window, mss) ==
  [state |-> "CLOSED", sndISN |-> 0, sndNXT |-> 0, sndUNA |-> 0,
   sndWND |-> window, rcvNXT |-> 0, rcvWND |-> window, mss |-> mss]

Segments == [src : {"client", "server"}, flags : SUBSET {"SYN", "ACK"},
             seq : Seqs, ack : Seqs, window : Nat, mss : Nat]

\* A segment of connection c; mss = 0 stands for a segment without the option.
Segment(src, c, flags, seq, ack, mss) ==
  [src |-> src, flags |-> flags, seq |-> seq, ack |-> ack,
   window |-> c.rcvWND, mss |-> mss]

\* StateMachine.Transition: an invalid transition is refused.
Transition(c, to) ==
  IF IsValid(c.state, to) THEN [c EXCEPT !.state = to] ELSE c

\* GenerateISN: random plus clock, here a number this host has not drawn before.
FreshISN(isn, drawn) == isn \in Seqs \ drawn

WithISN(c, isn) ==
  [c EXCEPT !.sndISN = isn, !.sndUNA = isn, !.sndNXT = Succ(isn)]

\* negotiateMSS: lower our MSS to the one advertised, if any.
NegotiateLatest(c, seg) ==
  IF seg.mss > 0 THEN [c EXCEPT !.mss = seg.mss] ELSE c
negotiateMSS(c, seg) ==
  IF seg.mss > 0 /\ seg.mss < c.mss THEN [c EXCEPT !.mss = seg.mss] ELSE c

\* What a handler takes from an acceptable segment of the peer.
KeepWindow(c, seg) == c
TakeWindow(c, seg) == [c EXCEPT !.sndWND = seg.window]

AcksAnything(c, seg) == TRUE
AcksOurISN(c, seg) == seg.ack = c.sndISN
AcksOurSYN(c, seg) == seg.ack = c.sndNXT

\* TCPConn.send: the output function takes the segment or returns an error.
Emit(seg) == wire' = wire \cup {seg}
OutputFails == MayFail /\ UNCHANGED wire

SYN(c)    == Segment("client", c, {"SYN"}, c.sndISN, 0, c.mss)
SYNACK(c) == Segment("server", c, {"SYN", "ACK"}, c.sndISN, c.rcvNXT, c.mss)
ACK(c)    == Segment("client", c, {"ACK"}, c.sndNXT, c.rcvNXT, 0)

-----------------------------------------------------------------------------
(* The handlers, as the code has them: no handler looks at the state       *)
(* before it changes the sequence variables.                               *)

sendSYN ==
  \E isn \in Seqs :
    /\ FreshISN(isn, clientISNs)
    /\ clientISNs' = clientISNs \cup {isn}
    /\ LET c == WithISN(client, isn)
       IN \/ Emit(SYN(c)) /\ client' = Transition(c, "SYN_SENT")
          \/ OutputFails  /\ client' = c
    /\ UNCHANGED <<server, serverISNs>>

handleSYN(seg) ==
  \E isn \in Seqs :
    /\ "SYN" \in seg.flags
    /\ FreshISN(isn, serverISNs)
    /\ serverISNs' = serverISNs \cup {isn}
    /\ LET l == IF server.state = "CLOSED" THEN Transition(server, "LISTEN")
                                           ELSE server
           r == [TakeWindow(l, seg) EXCEPT !.rcvNXT = Succ(seg.seq)]
           c == WithISN(negotiateMSS(r, seg), isn)
       IN \/ Emit(SYNACK(c)) /\ server' = Transition(c, "SYN_RECEIVED")
          \/ OutputFails     /\ server' = c
    /\ UNCHANGED <<client, clientISNs>>

handleSYNACK(seg) ==
  /\ {"SYN", "ACK"} \subseteq seg.flags
  /\ AcksOurSYN(client, seg)
  /\ LET r == [TakeWindow(client, seg) EXCEPT !.sndUNA = seg.ack,
                                              !.rcvNXT = Succ(seg.seq)]
         c == negotiateMSS(r, seg)
     IN \/ Emit(ACK(c)) /\ client' = Transition(c, "ESTABLISHED")
        \/ OutputFails  /\ client' = c
  /\ UNCHANGED <<server, clientISNs, serverISNs>>

handleACKInSynReceived(seg) ==
  /\ "ACK" \in seg.flags
  /\ AcksOurSYN(server, seg)
  /\ LET c == [TakeWindow(server, seg) EXCEPT !.sndUNA = seg.ack]
     IN server' = Transition(c, "ESTABLISHED")
  /\ UNCHANGED <<client, wire, clientISNs, serverISNs>>

-----------------------------------------------------------------------------
(* The callers.  No code of the repository calls the handlers yet; their   *)
(* comments name the state each one is for, and ActiveOpen and Deliver     *)
(* call them there.  A segment a handler refuses (ErrUnexpectedSegment,    *)
(* ErrBadAck) changes nothing and is no step.                              *)

ActiveOpen == client.state = "CLOSED" /\ sendSYN

From(host) == {seg \in wire : seg.src = host}

DeliverToListener ==
  /\ server.state \in {"CLOSED", "LISTEN"}
  /\ \E seg \in From("client") : handleSYN(seg)

DeliverToSynSent ==
  /\ client.state = "SYN_SENT"
  /\ \E seg \in From("server") : handleSYNACK(seg)

DeliverToSynReceived ==
  /\ server.state = "SYN_RECEIVED"
  /\ \E seg \in From("client") : handleACKInSynReceived(seg)

\* A host restarts, or drops the connection and opens another one for the key.
RestartClient ==
  /\ MayRestart
  /\ client' = NewTCPConn(ClientWindow, ClientMSS)
  /\ UNCHANGED <<server, wire, clientISNs, serverISNs>>

RestartServer ==
  /\ MayRestart
  /\ server' = NewTCPConn(ServerWindow, ServerMSS)
  /\ UNCHANGED <<client, wire, clientISNs, serverISNs>>

Init ==
  /\ client = NewTCPConn(ClientWindow, ClientMSS)
  /\ server = NewTCPConn(ServerWindow, ServerMSS)
  /\ wire = {}
  /\ clientISNs = {}
  /\ serverISNs = {}

Next ==
  \/ ActiveOpen
  \/ DeliverToListener
  \/ DeliverToSynSent
  \/ DeliverToSynReceived
  \/ RestartClient
  \/ RestartServer

Spec == Init /\ [][Next]_vars

\* Each delivery that stays possible is made: the wire eventually delivers.
Fairness ==
  /\ WF_vars(DeliverToListener)
  /\ WF_vars(DeliverToSynSent)
  /\ WF_vars(DeliverToSynReceived)

-----------------------------------------------------------------------------
(* Properties.                                                             *)

TypeOK ==
  /\ client \in Conns
  /\ server \in Conns
  /\ wire \subseteq Segments
  /\ clientISNs \subseteq Seqs
  /\ serverISNs \subseteq Seqs

BothEstablished == client.state = "ESTABLISHED" /\ server.state = "ESTABLISHED"

SYNs    == {m \in wire : m.flags = {"SYN"}}
SYNACKs == {m \in wire : m.flags = {"SYN", "ACK"}}
ACKs    == {m \in wire : m.flags = {"ACK"}}

(* Two established ends agree on both initial sequence numbers, whatever   *)
(* old segments and restarts came before: each side's rcvNXT is the peer's *)
(* ISN + 1 and no SYN is left unacknowledged (handshake_test.go:96-108).   *)
SequenceAgreement ==
  BothEstablished =>
    /\ client.rcvNXT = Succ(server.sndISN)
    /\ server.rcvNXT = Succ(client.sndISN)
    /\ client.sndUNA = client.sndNXT
    /\ server.sndUNA = server.sndNXT

Min2(a, b) == IF a < b THEN a ELSE b

(* negotiateMSS and the window fields leave two established ends with the  *)
(* smaller of the two MSS and with each other's receive window, although   *)
(* each end learns them from different segments.                           *)
ParameterAgreement ==
  BothEstablished =>
    /\ client.mss = Min2(ClientMSS, ServerMSS)
    /\ server.mss = client.mss
    /\ client.sndWND = ServerWindow
    /\ server.sndWND = ClientWindow

(* Seen from outside, the handshake opens and closes sessions as Session   *)
(* promises: the client joins a session nobody is in, the server only one  *)
(* that this client completed (its final ACK was sent), and the two ends   *)
(* are never in different ones.                                            *)
ClientSession == <<client.sndNXT, client.rcvNXT>>
ServerSession == <<server.rcvNXT, server.sndNXT>>
Completed == {<<a.seq, a.ack>> : a \in ACKs}

Sessions == INSTANCE Session WITH
  Names  <- Seqs \X Seqs,
  Closed <- <<>>,
  cli    <- IF client.state = "ESTABLISHED" THEN ClientSession ELSE <<>>,
  srv    <- IF server.state = "ESTABLISHED" THEN ServerSession ELSE <<>>,
  opened <- Completed

ImplementsSession == Sessions!Spec

-----------------------------------------------------------------------------
(* The inductive invariant behind the two agreements and the refinement.   *)

(* Every segment ever sent is one of the three of a handshake and carries  *)
(* the numbers that its sender had then.  Server numbers name SYN-ACKs,    *)
(* and a client incarnation completes at most one session.                 *)
WireInv ==
  /\ \A m \in wire : \/ m.src = "client" /\ m.flags \in {{"SYN"}, {"ACK"}}
                     \/ m.src = "server" /\ m.flags = {"SYN", "ACK"}
  /\ \A m \in SYNs : m.seq \in clientISNs
  /\ \A m \in SYNACKs : /\ m.seq \in serverISNs
                        /\ \E isn \in clientISNs : m.ack = Succ(isn)
  /\ \A m, n \in SYNACKs : m.seq = n.seq => m.ack = n.ack
  /\ \A a \in ACKs : \E m \in SYNACKs : a.seq = m.ack /\ a.ack = Succ(m.seq)
  /\ \A a, b \in ACKs : a.seq = b.seq => a.ack = b.ack

ClientInv ==
  /\ client.state \in {"CLOSED", "SYN_SENT", "ESTABLISHED"}
  /\ client.state # "CLOSED" =>
       client.sndISN \in clientISNs /\ client.sndNXT = Succ(client.sndISN)
  /\ client.state = "SYN_SENT" => \A a \in ACKs : a.seq # client.sndNXT
  /\ client.state = "ESTABLISHED" =>
       /\ client.sndUNA = client.sndNXT
       /\ \E a \in ACKs : a.seq = client.sndNXT /\ a.ack = client.rcvNXT

Answering == server.state \in {"SYN_RECEIVED", "ESTABLISHED"}

ServerInv ==
  /\ server.state \in {"CLOSED", "LISTEN", "SYN_RECEIVED", "ESTABLISHED"}
  /\ Answering =>
       /\ server.sndISN \in serverISNs /\ server.sndNXT = Succ(server.sndISN)
       /\ \E m \in SYNACKs : m.seq = server.sndISN /\ m.ack = server.rcvNXT
  /\ server.state = "ESTABLISHED" =>
       /\ server.sndUNA = server.sndNXT
       /\ \E a \in ACKs : a.ack = server.sndNXT

(* While the server is in the session some client incarnation completed,   *)
(* nothing on the wire can complete another one for a later incarnation:   *)
(* the server answered the earlier SYN before the later one was sent.      *)
NoLaterSession ==
  Answering /\ client.state # "CLOSED" =>
    \A a \in ACKs :
      a.ack = server.sndNXT /\ a.seq # client.sndNXT =>
        \A m \in SYNACKs : m.ack # client.sndNXT

ParameterInv ==
  LET least == Min2(ClientMSS, ServerMSS)
  IN /\ \A m \in SYNs : m.mss = ClientMSS /\ m.window = ClientWindow
     /\ \A m \in SYNACKs : m.mss = least /\ m.window = ServerWindow
     /\ \A m \in ACKs : m.window = ClientWindow
     /\ client.rcvWND = ClientWindow /\ client.mss \in {ClientMSS, least}
     /\ client.state = "CLOSED" => client.mss = ClientMSS
     /\ client.state = "ESTABLISHED" =>
          client.mss = least /\ client.sndWND = ServerWindow
     /\ server.rcvWND = ServerWindow /\ server.mss \in {ServerMSS, least}
     /\ Answering => server.mss = least /\ server.sndWND = ClientWindow

(* The invariant the proofs of HandshakeProofs are by induction on.        *)
IInv ==
  /\ TypeOK
  /\ WireInv
  /\ ClientInv
  /\ ServerInv
  /\ NoLaterSession
  /\ ParameterInv

=============================================================================

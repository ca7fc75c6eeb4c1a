--------------------------- MODULE HandshakeSteps ---------------------------
(***************************************************************************)
(* The handlers of Handshake as they run in goroutines of their own        *)
(* (internal/tun/loop.go:105): a handler changes the connection and sends  *)
(* its segment in one step, and asks for its transition in a later one,    *)
(* with other handlers of the connection in between.                       *)
(*                                                                         *)
(* The caller still goes by the state of the connection, when it hands a   *)
(* segment to a handler; a segment that no handler is for in this state,   *)
(* or that the handler refuses, is dropped.  The repository has no such    *)
(* caller yet.                                                             *)
(***************************************************************************)
EXTENDS Handshake

CONSTANT MayDuplicate   \* whether the wire may carry a segment twice

ASSUME DuplicatesAssumption == MayDuplicate \in BOOLEAN

VARIABLES
  asked,      \* of each host: the transitions that handlers have yet to make
  carried,    \* the segments handed to the caller so far
  faulted,    \* whether an output failed or a host restarted
  overtaken   \* whether a segment came before the transition it answers

stepVars == <<asked, carried, faulted, overtaken>>
allVars == <<vars, stepVars>>

Hosts == {"client", "server"}

\* The end of a handler's first step: it has sent seg and goes on, or fails.
Sends(host, seg, to) ==
  \/ /\ Emit(seg)
     /\ asked' = [asked EXCEPT ![host] = @ \cup {to}]
     /\ UNCHANGED faulted
  \/ OutputFails /\ faulted' = TRUE /\ UNCHANGED asked

Carry(seg) ==
  /\ MayDuplicate \/ seg \notin carried
  /\ carried' = carried \cup {seg}

-----------------------------------------------------------------------------

StartSYN ==
  /\ client.state = "CLOSED" /\ asked["client"] = {}
  /\ \E isn \in Seqs :
       /\ FreshISN(isn, clientISNs)
       /\ clientISNs' = clientISNs \cup {isn}
       /\ client' = WithISN(client, isn)
       /\ Sends("client", SYN(client'), "SYN_SENT")
  /\ UNCHANGED <<server, serverISNs, carried, overtaken>>

StartOnSYN(seg) ==
  /\ Carry(seg)
  /\ server.state \in {"CLOSED", "LISTEN"}
  /\ \E isn \in Seqs :
       /\ FreshISN(isn, serverISNs)
       /\ serverISNs' = serverISNs \cup {isn}
       /\ LET l == [server EXCEPT !.state = "LISTEN", !.rcvNXT = Succ(seg.seq)]
          IN server' = WithISN(negotiateMSS(TakeWindow(l, seg), seg), isn)
       /\ Sends("server", SYNACK(server'), "SYN_RECEIVED")
  /\ UNCHANGED <<client, clientISNs, overtaken>>

StartOnSYNACK(seg) ==
  /\ Carry(seg)
  /\ client.state = "SYN_SENT" /\ AcksOurSYN(client, seg)
  /\ LET c == [client EXCEPT !.sndUNA = seg.ack, !.rcvNXT = Succ(seg.seq)]
     IN client' = negotiateMSS(TakeWindow(c, seg), seg)
  /\ Sends("client", ACK(client'), "ESTABLISHED")
  /\ UNCHANGED <<server, clientISNs, serverISNs, overtaken>>

StartOnACK(seg) ==
  /\ Carry(seg)
  /\ server.state = "SYN_RECEIVED" /\ AcksOurSYN(server, seg)
  /\ server' = TakeWindow([server EXCEPT !.sndUNA = seg.ack], seg)
  /\ asked' = [asked EXCEPT !["server"] = @ \cup {"ESTABLISHED"}]
  /\ UNCHANGED <<client, wire, clientISNs, serverISNs, faulted, overtaken>>

\* The rest of a handler: Transition, whose error the goroutine only logs.
Finish(to) ==
  \/ /\ to \in asked["client"]
     /\ client' = Transition(client, to)
     /\ asked' = [asked EXCEPT !["client"] = @ \ {to}]
     /\ UNCHANGED server
  \/ /\ to \in asked["server"]
     /\ server' = Transition(server, to)
     /\ asked' = [asked EXCEPT !["server"] = @ \ {to}]
     /\ UNCHANGED client

FinishHandler ==
  /\ \E to \in States : Finish(to)
  /\ UNCHANGED <<wire, clientISNs, serverISNs, carried, faulted, overtaken>>

Drop(seg) ==
  /\ Carry(seg)
  /\ CASE seg.flags = {"SYN"} -> server.state \notin {"CLOSED", "LISTEN"}
       [] seg.flags = {"SYN", "ACK"} ->
            client.state # "SYN_SENT" \/ ~AcksOurSYN(client, seg)
       [] OTHER -> server.state # "SYN_RECEIVED" \/ ~AcksOurSYN(server, seg)
  /\ overtaken' = \/ overtaken
                  \/ seg.src = "server" /\ "SYN_SENT" \in asked["client"]
                  \/ seg.flags = {"ACK"} /\ "SYN_RECEIVED" \in asked["server"]
  /\ UNCHANGED <<vars, asked, faulted>>

\* A restart leaves the handlers of the old TCPConn without effect.
Restart(host) ==
  /\ IF host = "client" THEN RestartClient ELSE RestartServer
  /\ asked' = [asked EXCEPT ![host] = {}]
  /\ faulted' = TRUE
  /\ UNCHANGED <<carried, overtaken>>

-----------------------------------------------------------------------------

InitSteps ==
  /\ Init
  /\ asked = [h \in Hosts |-> {}]
  /\ carried = {}
  /\ faulted = FALSE /\ overtaken = FALSE

Hand ==
  \/ \E seg \in SYNs    : StartOnSYN(seg)
  \/ \E seg \in SYNACKs : StartOnSYNACK(seg)
  \/ \E seg \in ACKs    : StartOnACK(seg)
  \/ \E seg \in wire    : Drop(seg)

NextSteps ==
  \/ StartSYN
  \/ Hand
  \/ FinishHandler
  \/ \E h \in Hosts : Restart(h)

\* Segments are carried and handlers run on.
SpecSteps ==
  /\ InitSteps /\ [][NextSteps]_allVars
  /\ WF_allVars(Hand) /\ WF_allVars(FinishHandler)

-----------------------------------------------------------------------------
(* Properties.                                                             *)

StepsTypeOK ==
  /\ TypeOK
  /\ asked["client"] \subseteq {"SYN_SENT", "ESTABLISHED"}
  /\ asked["server"] \subseteq {"SYN_RECEIVED", "ESTABLISHED"}
  /\ carried \subseteq wire
  /\ \A to \in asked["client"] : IsValid(client.state, to)
  /\ "ESTABLISHED" \in asked["server"] => server.state = "SYN_RECEIVED"

(* The handlers implement Session also when they overlap, on a wire that   *)
(* repeats nothing: an end is in its session from the moment on that its   *)
(* handler has sent the ACK, or accepted it, and owes only the transition. *)
In(c, host) == c.state = "ESTABLISHED" \/ "ESTABLISHED" \in asked[host]

StepSessions == INSTANCE Session WITH
  Names  <- Seqs \X Seqs,
  Closed <- <<>>,
  cli    <- IF In(client, "client") THEN ClientSession ELSE <<>>,
  srv    <- IF In(server, "server") THEN ServerSession ELSE <<>>,
  opened <- Completed

StepsImplementSession == StepSessions!Spec

(* Without faults, an active open completes on both ends unless the answer *)
(* to a segment comes before its sender has entered the state that the     *)
(* answer is for: the handlers send first and change the state afterwards, *)
(* and nothing is sent again.                                              *)
CompletesUnlessOvertaken ==
  wire # {} ~> BothEstablished \/ faulted \/ overtaken
=============================================================================

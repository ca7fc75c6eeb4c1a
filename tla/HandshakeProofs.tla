--------------------------- MODULE HandshakeProofs --------------------------
(***************************************************************************)
(* Proofs about the handshake, for every sequence space, MSS and window,   *)
(* with failing outputs and restarts: first about Handshake, where a       *)
(* handler is one step, then about HandshakeSteps, where the handlers of   *)
(* one connection overlap.  There, what the ends agree on needs a wire     *)
(* that carries no segment twice: the run Handshake_overlap shows what     *)
(* happens otherwise.                                                      *)
(***************************************************************************)
EXTENDS HandshakeSteps, TLAPS

(* Adding one to a sequence number stays in the space, also at 2^32 - 1.   *)
LEMMA SuccType == \A n \in Seqs : Succ(n) \in Seqs
<1> SUFFICES ASSUME NEW n \in Seqs PROVE Succ(n) \in Seqs
  OBVIOUS
<1>1. n \in 0 .. SeqMod - 1 /\ SeqMod \in Nat /\ SeqMod > 0
  BY SeqModAssumption DEF Seqs
<1> QED
  BY <1>1 DEF Succ, Seqs

(* Two sequence numbers with the same successor are the same: an ACK names *)
(* the SYN it acknowledges.                                                *)
LEMMA SuccInjective == \A m, n \in Seqs : Succ(m) = Succ(n) => m = n
<1> SUFFICES ASSUME NEW m \in Seqs, NEW n \in Seqs, Succ(m) = Succ(n)
             PROVE  m = n
  OBVIOUS
<1>0. m \in 0 .. SeqMod - 1 /\ n \in 0 .. SeqMod - 1 /\ SeqMod \in Nat /\ SeqMod > 0
  BY SeqModAssumption DEF Seqs
<1>1. ASSUME NEW k \in Seqs
      PROVE  Succ(k) = IF k = SeqMod - 1 THEN 0 ELSE k + 1
  BY SeqModAssumption DEF Succ, Seqs
<1> QED
  BY <1>0, <1>1

-----------------------------------------------------------------------------
(* What each action does to the fields of the connections, and the segment *)
(* it sends: the proofs below use these facts and not the handlers.        *)

(* sendSYN in CLOSED.                                                      *)
LEMMA ActiveOpenEffect ==
  ASSUME TypeOK, ActiveOpen
  PROVE  \E isn \in Seqs \ clientISNs :
           /\ clientISNs' = clientISNs \cup {isn}
           /\ client' \in Conns
           /\ client'.sndISN = isn /\ client'.sndNXT = Succ(isn)
           /\ client'.mss = client.mss /\ client'.rcvWND = client.rcvWND
           /\ \/ client'.state = "SYN_SENT" /\ wire' = wire \cup {SYN(client')}
              \/ client'.state = "CLOSED" /\ wire' = wire
           /\ UNCHANGED <<server, serverISNs>>
<1>1. PICK isn \in Seqs :
        /\ FreshISN(isn, clientISNs)
        /\ clientISNs' = clientISNs \cup {isn}
        /\ \/ /\ Emit(SYN(WithISN(client, isn)))
              /\ client' = Transition(WithISN(client, isn), "SYN_SENT")
           \/ OutputFails /\ client' = WithISN(client, isn)
        /\ UNCHANGED <<server, serverISNs>>
  BY DEF ActiveOpen, sendSYN
<1> DEFINE c == WithISN(client, isn)
<1>2. /\ c \in Conns /\ c.state = "CLOSED"
      /\ c.sndISN = isn /\ c.sndNXT = Succ(isn)
      /\ c.mss = client.mss /\ c.rcvWND = client.rcvWND
  BY SuccType DEF ActiveOpen, TypeOK, Conns, WithISN
<1>3. Transition(c, "SYN_SENT") = [c EXCEPT !.state = "SYN_SENT"]
  BY <1>2 DEF Transition, IsValid, validTransitions
<1> HIDE DEF c
<1>4. CASE Emit(SYN(c)) /\ client' = Transition(c, "SYN_SENT")
  <2>1. client' = [c EXCEPT !.state = "SYN_SENT"]
    BY <1>3, <1>4
  <2>2. /\ client' \in Conns /\ client'.state = "SYN_SENT"
        /\ client'.sndISN = c.sndISN /\ client'.sndNXT = c.sndNXT
        /\ client'.mss = c.mss /\ client'.rcvWND = c.rcvWND
    BY <1>2, <2>1 DEF Conns, States
  <2>3. SYN(c) = SYN(client')
    BY <2>2 DEF SYN, Segment
  <2> QED
    BY <1>1, <1>2, <1>4, <2>2, <2>3 DEF Emit, FreshISN
<1>5. CASE OutputFails /\ client' = c
  BY <1>1, <1>2, <1>5 DEF OutputFails, FreshISN
<1> QED
  BY <1>1, <1>4, <1>5 DEF c

(* handleSYN in CLOSED or LISTEN.                                          *)
LEMMA ListenEffect ==
  ASSUME TypeOK, WireInv, DeliverToListener
  PROVE  \E seg \in SYNs, isn \in Seqs \ serverISNs :
           /\ serverISNs' = serverISNs \cup {isn}
           /\ server' \in Conns
           /\ server'.sndISN = isn /\ server'.sndNXT = Succ(isn)
           /\ server'.rcvNXT = Succ(seg.seq) /\ server'.rcvWND = server.rcvWND
           /\ server'.sndWND = seg.window
           /\ server'.mss = negotiateMSS(server, seg).mss
           /\ \/ /\ server'.state = "SYN_RECEIVED"
                 /\ wire' = wire \cup {SYNACK(server')}
              \/ server'.state = "LISTEN" /\ wire' = wire
           /\ UNCHANGED <<client, clientISNs>>
<1> DEFINE l == IF server.state = "CLOSED" THEN Transition(server, "LISTEN")
                                           ELSE server
           r(seg) == [TakeWindow(l, seg) EXCEPT !.rcvNXT = Succ(seg.seq)]
           c(seg, isn) == WithISN(negotiateMSS(r(seg), seg), isn)
<1>1. PICK seg \in From("client"), isn \in Seqs :
        /\ "SYN" \in seg.flags
        /\ FreshISN(isn, serverISNs)
        /\ serverISNs' = serverISNs \cup {isn}
        /\ \/ /\ Emit(SYNACK(c(seg, isn)))
              /\ server' = Transition(c(seg, isn), "SYN_RECEIVED")
           \/ OutputFails /\ server' = c(seg, isn)
        /\ UNCHANGED <<client, clientISNs>>
  BY DEF DeliverToListener, handleSYN
<1>2. seg \in SYNs /\ seg \in Segments
  BY <1>1 DEF From, WireInv, SYNs, TypeOK
<1>3. /\ l \in Conns /\ l.state = "LISTEN"
      /\ l.mss = server.mss /\ l.rcvWND = server.rcvWND
  BY DEF DeliverToListener, TypeOK, Conns, States, Transition, IsValid,
         validTransitions
<1> HIDE DEF l
<1>4. /\ r(seg) \in Conns /\ r(seg).state = "LISTEN"
      /\ r(seg).rcvNXT = Succ(seg.seq) /\ r(seg).sndWND = seg.window
      /\ r(seg).mss = server.mss /\ r(seg).rcvWND = server.rcvWND
  BY <1>2, <1>3, SuccType DEF TakeWindow, Conns, Segments
<1> HIDE DEF r
<1> DEFINE n == negotiateMSS(r(seg), seg)
<1>5. /\ n \in Conns /\ n.state = "LISTEN"
      /\ n.rcvNXT = Succ(seg.seq) /\ n.sndWND = seg.window
      /\ n.rcvWND = server.rcvWND
      /\ n.mss = negotiateMSS(server, seg).mss
  BY <1>2, <1>4 DEF negotiateMSS, Conns, Segments, TypeOK
<1> HIDE DEF n
<1> DEFINE d == WithISN(n, isn)
<1>6. /\ d \in Conns /\ d.state = "LISTEN"
      /\ d.sndISN = isn /\ d.sndNXT = Succ(isn)
      /\ d.rcvNXT = Succ(seg.seq) /\ d.sndWND = seg.window
      /\ d.rcvWND = server.rcvWND
      /\ d.mss = negotiateMSS(server, seg).mss
  BY <1>5, SuccType DEF WithISN, Conns
<1>7. Transition(d, "SYN_RECEIVED") = [d EXCEPT !.state = "SYN_RECEIVED"]
  BY <1>6 DEF Transition, IsValid, validTransitions
<1>8. c(seg, isn) = d
  BY DEF n
<1> HIDE DEF d, c
<1>9. CASE Emit(SYNACK(d)) /\ server' = Transition(d, "SYN_RECEIVED")
  <2>1. server' = [d EXCEPT !.state = "SYN_RECEIVED"]
    BY <1>7, <1>9
  <2>2. /\ server' \in Conns /\ server'.state = "SYN_RECEIVED"
        /\ server'.sndISN = d.sndISN /\ server'.sndNXT = d.sndNXT
        /\ server'.rcvNXT = d.rcvNXT /\ server'.sndWND = d.sndWND
        /\ server'.rcvWND = d.rcvWND /\ server'.mss = d.mss
    BY <1>6, <2>1 DEF Conns, States
  <2>3. SYNACK(d) = SYNACK(server')
    BY <2>2 DEF SYNACK, Segment
  <2> QED
    BY <1>1, <1>2, <1>6, <1>9, <2>2, <2>3 DEF Emit, FreshISN
<1>10. CASE OutputFails /\ server' = d
  BY <1>1, <1>2, <1>6, <1>10 DEF OutputFails, FreshISN
<1> QED
  BY <1>1, <1>8, <1>9, <1>10

(* handleSYNACK in SYN_SENT.                                               *)
LEMMA SynSentEffect ==
  ASSUME TypeOK, WireInv, DeliverToSynSent
  PROVE  \E seg \in SYNACKs :
           /\ seg.ack = client.sndNXT
           /\ client' \in Conns
           /\ client'.sndISN = client.sndISN /\ client'.sndNXT = client.sndNXT
           /\ client'.sndUNA = client.sndNXT
           /\ client'.rcvNXT = Succ(seg.seq) /\ client'.rcvWND = client.rcvWND
           /\ client'.sndWND = seg.window
           /\ client'.mss = negotiateMSS(client, seg).mss
           /\ \/ /\ client'.state = "ESTABLISHED"
                 /\ wire' = wire \cup {ACK(client')}
              \/ client'.state = "SYN_SENT" /\ wire' = wire
           /\ UNCHANGED <<server, clientISNs, serverISNs>>
<1> DEFINE r(seg) == [TakeWindow(client, seg) EXCEPT !.sndUNA = seg.ack,
                                                     !.rcvNXT = Succ(seg.seq)]
           c(seg) == negotiateMSS(r(seg), seg)
<1>1. PICK seg \in From("server") :
        /\ seg.ack = client.sndNXT
        /\ \/ /\ Emit(ACK(c(seg)))
              /\ client' = Transition(c(seg), "ESTABLISHED")
           \/ OutputFails /\ client' = c(seg)
        /\ UNCHANGED <<server, clientISNs, serverISNs>>
  BY DEF DeliverToSynSent, handleSYNACK, AcksOurSYN
<1>2. seg \in SYNACKs /\ seg \in Segments
  BY DEF From, WireInv, SYNACKs, TypeOK
<1>3. /\ r(seg) \in Conns /\ r(seg).state = "SYN_SENT"
      /\ r(seg).sndISN = client.sndISN /\ r(seg).sndNXT = client.sndNXT
      /\ r(seg).sndUNA = seg.ack /\ r(seg).rcvNXT = Succ(seg.seq)
      /\ r(seg).sndWND = seg.window /\ r(seg).rcvWND = client.rcvWND
      /\ r(seg).mss = client.mss
  BY <1>2, SuccType DEF TakeWindow, Conns, Segments, TypeOK, DeliverToSynSent
<1> HIDE DEF r
<1> DEFINE d == c(seg)
<1>4. /\ d \in Conns /\ d.state = "SYN_SENT"
      /\ d.sndISN = client.sndISN /\ d.sndNXT = client.sndNXT
      /\ d.sndUNA = seg.ack /\ d.rcvNXT = Succ(seg.seq)
      /\ d.sndWND = seg.window /\ d.rcvWND = client.rcvWND
      /\ d.mss = negotiateMSS(client, seg).mss
  BY <1>2, <1>3 DEF negotiateMSS, Conns, Segments, TypeOK
<1>5. Transition(d, "ESTABLISHED") = [d EXCEPT !.state = "ESTABLISHED"]
  BY <1>4 DEF Transition, IsValid, validTransitions
<1> HIDE DEF c, d
<1>6. d = c(seg)
  BY DEF d
<1>7. CASE Emit(ACK(d)) /\ client' = Transition(d, "ESTABLISHED")
  <2>1. client' = [d EXCEPT !.state = "ESTABLISHED"]
    BY <1>5, <1>7
  <2>2. /\ client' \in Conns /\ client'.state = "ESTABLISHED"
        /\ client'.sndISN = d.sndISN /\ client'.sndNXT = d.sndNXT
        /\ client'.sndUNA = d.sndUNA /\ client'.rcvNXT = d.rcvNXT
        /\ client'.sndWND = d.sndWND
        /\ client'.rcvWND = d.rcvWND /\ client'.mss = d.mss
    BY <1>4, <2>1 DEF Conns, States
  <2>3. ACK(d) = ACK(client')
    BY <2>2 DEF ACK, Segment
  <2> QED
    BY <1>1, <1>2, <1>4, <1>7, <2>2, <2>3 DEF Emit
<1>8. CASE OutputFails /\ client' = d
  BY <1>1, <1>2, <1>4, <1>8 DEF OutputFails
<1> QED
  BY <1>1, <1>6, <1>7, <1>8

(* handleACKInSynReceived in SYN_RECEIVED.                                 *)
LEMMA SynReceivedEffect ==
  ASSUME TypeOK, WireInv, DeliverToSynReceived
  PROVE  \E seg \in ACKs :
           /\ seg.ack = server.sndNXT
           /\ server' \in Conns /\ server'.state = "ESTABLISHED"
           /\ server'.sndISN = server.sndISN /\ server'.sndNXT = server.sndNXT
           /\ server'.sndUNA = server.sndNXT
           /\ server'.rcvNXT = server.rcvNXT /\ server'.rcvWND = server.rcvWND
           /\ server'.sndWND = seg.window
           /\ server'.mss = server.mss
           /\ UNCHANGED <<client, wire, clientISNs, serverISNs>>
<1> DEFINE c(seg) == [TakeWindow(server, seg) EXCEPT !.sndUNA = seg.ack]
<1>1. PICK seg \in From("client") :
        /\ "ACK" \in seg.flags
        /\ seg.ack = server.sndNXT
        /\ server' = Transition(c(seg), "ESTABLISHED")
        /\ UNCHANGED <<client, wire, clientISNs, serverISNs>>
  BY DEF DeliverToSynReceived, handleACKInSynReceived, AcksOurSYN
<1>2. seg \in ACKs /\ seg \in Segments
  BY <1>1 DEF From, WireInv, ACKs, TypeOK
<1>3. /\ c(seg) \in Conns /\ c(seg).state = "SYN_RECEIVED"
      /\ c(seg).sndISN = server.sndISN /\ c(seg).sndNXT = server.sndNXT
      /\ c(seg).sndUNA = seg.ack /\ c(seg).rcvNXT = server.rcvNXT
      /\ c(seg).sndWND = seg.window /\ c(seg).rcvWND = server.rcvWND
      /\ c(seg).mss = server.mss
  BY <1>2 DEF TakeWindow, Conns, Segments, TypeOK, DeliverToSynReceived
<1> HIDE DEF c
<1>4. Transition(c(seg), "ESTABLISHED") = [c(seg) EXCEPT !.state = "ESTABLISHED"]
  BY <1>3 DEF Transition, IsValid, validTransitions
<1>5. server' = [c(seg) EXCEPT !.state = "ESTABLISHED"]
  BY <1>1, <1>4
<1>6. /\ server' \in Conns /\ server'.state = "ESTABLISHED"
      /\ server'.sndISN = c(seg).sndISN /\ server'.sndNXT = c(seg).sndNXT
      /\ server'.sndUNA = c(seg).sndUNA /\ server'.rcvNXT = c(seg).rcvNXT
      /\ server'.sndWND = c(seg).sndWND /\ server'.rcvWND = c(seg).rcvWND
      /\ server'.mss = c(seg).mss
  BY <1>3, <1>5 DEF Conns, States
<1> QED
  BY <1>1, <1>2, <1>3, <1>6

(* A fresh connection is CLOSED and announces its own window and MSS.      *)
LEMMA NewTCPConnEffect ==
  ASSUME NEW window \in Nat, NEW mss \in Nat
  PROVE  LET c == NewTCPConn(window, mss)
         IN /\ c \in Conns /\ c.state = "CLOSED"
            /\ c.mss = mss /\ c.rcvWND = window
<1>1. 0 \in Seqs
  BY SeqModAssumption DEF Seqs
<1> QED
  BY <1>1 DEF NewTCPConn, Conns, States

(* negotiateMSS leaves the smaller MSS of the two hosts, however often it  *)
(* has been applied before.                                                *)
LEMMA NegotiatesSmaller ==
  ASSUME NEW c, NEW seg, NEW a \in Nat \ {0}, NEW b \in Nat \ {0},
         c \in Conns, c.mss \in {a, Min2(a, b)},
         seg.mss \in {b, Min2(a, b)}
  PROVE  negotiateMSS(c, seg).mss = Min2(a, b)
  BY DEF negotiateMSS, Min2, Conns

-----------------------------------------------------------------------------
(* IInv is inductive: one lemma for each action, one step for each part.   *)

(* The first SYN of a fresh initial sequence number acknowledges nothing.  *)
LEMMA FreshClientISN ==
  ASSUME TypeOK, WireInv, NEW isn \in Seqs \ clientISNs
  PROVE  /\ \A m \in SYNACKs : m.ack # Succ(isn)
         /\ \A a \in ACKs : a.seq # Succ(isn)
<1>1. \A m \in SYNACKs : m.ack # Succ(isn)
  BY SuccInjective DEF WireInv, TypeOK
<1> QED
  BY <1>1 DEF WireInv

(* No ACK on the wire acknowledges a SYN-ACK that is yet to be sent.       *)
LEMMA FreshServerISN ==
  ASSUME TypeOK, WireInv, NEW isn \in Seqs \ serverISNs
  PROVE  \A a \in ACKs : a.ack # Succ(isn)
<1> SUFFICES ASSUME NEW a \in ACKs, a.ack = Succ(isn) PROVE FALSE
  OBVIOUS
<1>1. PICK m \in SYNACKs : a.seq = m.ack /\ a.ack = Succ(m.seq)
  BY DEF WireInv
<1>2. m.seq \in serverISNs /\ m.seq \in Seqs
  BY DEF WireInv, TypeOK
<1> QED
  BY <1>1, <1>2, SuccInjective

(* Segments that the handlers send are well-typed.                         *)
LEMMA SegmentTypes ==
  ASSUME NEW c \in Conns
  PROVE  {SYN(c), SYNACK(c), ACK(c)} \subseteq Segments
<1>1. 0 \in Seqs
  BY SeqModAssumption DEF Seqs
<1> QED
  BY <1>1 DEF SYN, SYNACK, ACK, Segment, Segments, Conns

LEMMA ActiveOpenPreserves == IInv /\ ActiveOpen => IInv'
<1> SUFFICES ASSUME IInv, ActiveOpen PROVE IInv'
  OBVIOUS
<1> USE DEF IInv
<1>1. PICK isn \in Seqs \ clientISNs :
           /\ clientISNs' = clientISNs \cup {isn}
           /\ client' \in Conns
           /\ client'.sndISN = isn /\ client'.sndNXT = Succ(isn)
           /\ client'.mss = client.mss /\ client'.rcvWND = client.rcvWND
           /\ \/ client'.state = "SYN_SENT" /\ wire' = wire \cup {SYN(client')}
              \/ client'.state = "CLOSED" /\ wire' = wire
           /\ UNCHANGED <<server, serverISNs>>
  BY ActiveOpenEffect
<1>2. /\ \A m \in SYNACKs : m.ack # Succ(isn)
      /\ \A a \in ACKs : a.seq # Succ(isn)
  BY FreshClientISN
<1>3. TypeOK'
  BY <1>1, SegmentTypes DEF TypeOK
<1>4. /\ SYNACKs' = SYNACKs /\ ACKs' = ACKs
      /\ SYNs' \subseteq SYNs \cup {SYN(client')}
  BY <1>1 DEF SYNACKs, ACKs, SYNs, SYN, Segment
<1>5. /\ SYN(client').src = "client" /\ SYN(client').flags = {"SYN"}
      /\ SYN(client').seq = isn
      /\ SYN(client').mss = client.mss /\ SYN(client').window = client.rcvWND
  BY <1>1 DEF SYN, Segment
<1>6. WireInv'
  BY <1>1, <1>4, <1>5 DEF WireInv
<1>7. ClientInv'
  BY <1>1, <1>2, <1>4 DEF ClientInv
<1>8. ServerInv'
  BY <1>1, <1>4 DEF ServerInv, Answering
<1>9. NoLaterSession'
  BY <1>1, <1>2, <1>4 DEF NoLaterSession, Answering
<1>10. ParameterInv'
  BY <1>1, <1>4, <1>5 DEF ParameterInv, ActiveOpen, Answering
<1> QED
  BY <1>3, <1>6, <1>7, <1>8, <1>9, <1>10

LEMMA DeliverToListenerPreserves == IInv /\ DeliverToListener => IInv'
<1> SUFFICES ASSUME IInv, DeliverToListener PROVE IInv'
  OBVIOUS
<1> USE DEF IInv
<1>1. PICK seg \in SYNs, isn \in Seqs \ serverISNs :
           /\ serverISNs' = serverISNs \cup {isn}
           /\ server' \in Conns
           /\ server'.sndISN = isn /\ server'.sndNXT = Succ(isn)
           /\ server'.rcvNXT = Succ(seg.seq) /\ server'.rcvWND = server.rcvWND
           /\ server'.sndWND = seg.window
           /\ server'.mss = negotiateMSS(server, seg).mss
           /\ \/ /\ server'.state = "SYN_RECEIVED"
                 /\ wire' = wire \cup {SYNACK(server')}
              \/ server'.state = "LISTEN" /\ wire' = wire
           /\ UNCHANGED <<client, clientISNs>>
  BY ListenEffect
<1> DEFINE reply == SYNACK(server')
<1>2. \A a \in ACKs : a.ack # Succ(isn)
  BY FreshServerISN
<1>3. TypeOK'
  BY <1>1, SegmentTypes DEF TypeOK
<1>4. /\ SYNs' = SYNs /\ ACKs' = ACKs
      /\ SYNACKs \subseteq SYNACKs' /\ SYNACKs' \subseteq SYNACKs \cup {reply}
      /\ server'.state = "SYN_RECEIVED" => reply \in SYNACKs'
  BY <1>1 DEF SYNACKs, ACKs, SYNs, SYNACK, Segment
<1>5. /\ reply.src = "server" /\ reply.flags = {"SYN", "ACK"}
      /\ reply.seq = isn /\ reply.ack = Succ(seg.seq)
      /\ reply.mss = server'.mss /\ reply.window = server.rcvWND
  BY <1>1 DEF SYNACK, Segment
<1>6. WireInv'
  <2>1. (\A m \in wire : \/ m.src = "client" /\ m.flags \in {{"SYN"}, {"ACK"}}
                         \/ m.src = "server" /\ m.flags = {"SYN", "ACK"})'
    BY <1>1, <1>5 DEF WireInv
  <2>2. (\A m \in SYNACKs : /\ m.seq \in serverISNs
                            /\ \E i \in clientISNs : m.ack = Succ(i))'
    BY <1>1, <1>4, <1>5 DEF WireInv
  <2>3. (\A m, n \in SYNACKs : m.seq = n.seq => m.ack = n.ack)'
    BY <1>1, <1>4, <1>5 DEF WireInv
  <2> QED
    BY <1>1, <1>4, <2>1, <2>2, <2>3 DEF WireInv
<1>7. ClientInv'
  BY <1>1, <1>4 DEF ClientInv
<1>8. ServerInv'
  BY <1>1, <1>4, <1>5 DEF ServerInv, Answering
<1>9. NoLaterSession'
  BY <1>1, <1>2, <1>4 DEF NoLaterSession, Answering
<1>10. server'.mss = Min2(ClientMSS, ServerMSS)
  <2>1. /\ server \in Conns /\ seg.mss = ClientMSS
        /\ server.mss \in {ServerMSS, Min2(ServerMSS, ClientMSS)}
        /\ Min2(ServerMSS, ClientMSS) = Min2(ClientMSS, ServerMSS)
    BY SizesAssumption DEF ParameterInv, TypeOK, Min2
  <2> QED
    BY <1>1, <2>1, NegotiatesSmaller, SizesAssumption
<1>11. ParameterInv'
  BY <1>1, <1>4, <1>5, <1>10 DEF ParameterInv, Answering
<1> QED
  BY <1>3, <1>6, <1>7, <1>8, <1>9, <1>11

LEMMA DeliverToSynSentPreserves == IInv /\ DeliverToSynSent => IInv'
<1> SUFFICES ASSUME IInv, DeliverToSynSent PROVE IInv'
  OBVIOUS
<1> USE DEF IInv
<1>1. PICK seg \in SYNACKs :
           /\ seg.ack = client.sndNXT
           /\ client' \in Conns
           /\ client'.sndISN = client.sndISN /\ client'.sndNXT = client.sndNXT
           /\ client'.sndUNA = client.sndNXT
           /\ client'.rcvNXT = Succ(seg.seq) /\ client'.rcvWND = client.rcvWND
           /\ client'.sndWND = seg.window
           /\ client'.mss = negotiateMSS(client, seg).mss
           /\ \/ /\ client'.state = "ESTABLISHED"
                 /\ wire' = wire \cup {ACK(client')}
              \/ client'.state = "SYN_SENT" /\ wire' = wire
           /\ UNCHANGED <<server, clientISNs, serverISNs>>
  BY SynSentEffect
<1> DEFINE reply == ACK(client')
<1>2. client.state = "SYN_SENT" /\ \A a \in ACKs : a.seq # client.sndNXT
  BY DEF DeliverToSynSent, ClientInv
<1>3. TypeOK'
  BY <1>1, SegmentTypes DEF TypeOK
<1>4. /\ SYNs' = SYNs /\ SYNACKs' = SYNACKs
      /\ ACKs \subseteq ACKs' /\ ACKs' \subseteq ACKs \cup {reply}
      /\ client'.state = "ESTABLISHED" => reply \in ACKs'
      /\ client'.state = "SYN_SENT" => ACKs' = ACKs
  BY <1>1 DEF SYNACKs, ACKs, SYNs, ACK, Segment
<1>5. /\ reply.src = "client" /\ reply.flags = {"ACK"}
      /\ reply.seq = client.sndNXT /\ reply.ack = Succ(seg.seq)
      /\ reply.window = client.rcvWND
  BY <1>1 DEF ACK, Segment
<1>6. WireInv'
  <2>1. (\A m \in wire : \/ m.src = "client" /\ m.flags \in {{"SYN"}, {"ACK"}}
                         \/ m.src = "server" /\ m.flags = {"SYN", "ACK"})'
    BY <1>1, <1>5 DEF WireInv
  <2>2. (\A a \in ACKs : \E m \in SYNACKs : a.seq = m.ack /\ a.ack = Succ(m.seq))'
    BY <1>1, <1>4, <1>5 DEF WireInv
  <2>3. (\A a, b \in ACKs : a.seq = b.seq => a.ack = b.ack)'
    BY <1>2, <1>4, <1>5 DEF WireInv
  <2> QED
    BY <1>1, <1>4, <2>1, <2>2, <2>3 DEF WireInv
<1>7. ClientInv'
  BY <1>1, <1>2, <1>4, <1>5 DEF ClientInv
<1>8. ServerInv'
  BY <1>1, <1>4 DEF ServerInv, Answering
<1>9. NoLaterSession'
  BY <1>1, <1>2, <1>4, <1>5 DEF NoLaterSession, Answering
<1>10. client'.mss = Min2(ClientMSS, ServerMSS)
  <2>1. /\ client \in Conns /\ seg.mss = Min2(ClientMSS, ServerMSS)
        /\ client.mss \in {ClientMSS, Min2(ClientMSS, ServerMSS)}
    BY DEF ParameterInv, TypeOK
  <2> QED
    BY <1>1, <2>1, NegotiatesSmaller, SizesAssumption
<1>11. seg.window = ServerWindow
  BY DEF ParameterInv
<1>12. ParameterInv'
  BY <1>1, <1>4, <1>5, <1>10, <1>11 DEF ParameterInv, Answering
<1> QED
  BY <1>3, <1>6, <1>7, <1>8, <1>9, <1>12

LEMMA DeliverToSynReceivedPreserves == IInv /\ DeliverToSynReceived => IInv'
<1> SUFFICES ASSUME IInv, DeliverToSynReceived PROVE IInv'
  OBVIOUS
<1> USE DEF IInv
<1>1. PICK seg \in ACKs :
           /\ seg.ack = server.sndNXT
           /\ server' \in Conns /\ server'.state = "ESTABLISHED"
           /\ server'.sndISN = server.sndISN /\ server'.sndNXT = server.sndNXT
           /\ server'.sndUNA = server.sndNXT
           /\ server'.rcvNXT = server.rcvNXT /\ server'.rcvWND = server.rcvWND
           /\ server'.sndWND = seg.window
           /\ server'.mss = server.mss
           /\ UNCHANGED <<client, wire, clientISNs, serverISNs>>
  BY SynReceivedEffect
<1>2. Answering /\ Answering'
  BY <1>1 DEF DeliverToSynReceived, Answering
<1>3. SYNs' = SYNs /\ SYNACKs' = SYNACKs /\ ACKs' = ACKs
  BY <1>1 DEF SYNs, SYNACKs, ACKs
<1>4. TypeOK'
  BY <1>1 DEF TypeOK
<1>5. WireInv'
  BY <1>1, <1>3 DEF WireInv
<1>6. ClientInv'
  BY <1>1, <1>3 DEF ClientInv
<1>7. ServerInv'
  BY <1>1, <1>2, <1>3 DEF ServerInv
<1>8. NoLaterSession'
  BY <1>1, <1>2, <1>3 DEF NoLaterSession
<1>9. ParameterInv'
  BY <1>1, <1>2, <1>3 DEF ParameterInv
<1> QED
  BY <1>4, <1>5, <1>6, <1>7, <1>8, <1>9

LEMMA RestartPreserves == IInv /\ (RestartClient \/ RestartServer) => IInv'
<1> SUFFICES ASSUME IInv, RestartClient \/ RestartServer PROVE IInv'
  OBVIOUS
<1> USE DEF IInv
<1>1. wire' = wire /\ clientISNs' = clientISNs /\ serverISNs' = serverISNs
  BY DEF RestartClient, RestartServer
<1>2. SYNs' = SYNs /\ SYNACKs' = SYNACKs /\ ACKs' = ACKs
  BY <1>1 DEF SYNs, SYNACKs, ACKs
<1>3. WireInv'
  BY <1>1, <1>2 DEF WireInv
<1>4. CASE RestartClient
  <2>1. /\ client' \in Conns /\ client'.state = "CLOSED"
        /\ client'.mss = ClientMSS /\ client'.rcvWND = ClientWindow
        /\ server' = server
    BY <1>4, NewTCPConnEffect, SizesAssumption DEF RestartClient
  <2>2. TypeOK' /\ ClientInv' /\ ServerInv' /\ NoLaterSession'
    BY <1>1, <1>2, <2>1 DEF TypeOK, ClientInv, ServerInv, NoLaterSession, Answering
  <2>3. ParameterInv'
    BY <1>1, <1>2, <2>1 DEF ParameterInv, Answering
  <2> QED
    BY <1>3, <2>2, <2>3
<1>5. CASE RestartServer
  <2>1. /\ server' \in Conns /\ server'.state = "CLOSED"
        /\ server'.mss = ServerMSS /\ server'.rcvWND = ServerWindow
        /\ client' = client
    BY <1>5, NewTCPConnEffect, SizesAssumption DEF RestartServer
  <2>2. TypeOK' /\ ClientInv' /\ ServerInv' /\ NoLaterSession'
    BY <1>1, <1>2, <2>1 DEF TypeOK, ClientInv, ServerInv, NoLaterSession, Answering
  <2>3. ParameterInv'
    BY <1>1, <1>2, <2>1 DEF ParameterInv, Answering
  <2> QED
    BY <1>3, <2>2, <2>3
<1> QED
  BY <1>4, <1>5

LEMMA InitIInv == Init => IInv
<1> SUFFICES ASSUME Init PROVE IInv
  OBVIOUS
<1> USE DEF IInv
<1>1. /\ client \in Conns /\ client.state = "CLOSED"
      /\ client.mss = ClientMSS /\ client.rcvWND = ClientWindow
      /\ server \in Conns /\ server.state = "CLOSED"
      /\ server.mss = ServerMSS /\ server.rcvWND = ServerWindow
  BY NewTCPConnEffect, SizesAssumption DEF Init
<1>2. SYNs = {} /\ SYNACKs = {} /\ ACKs = {}
  BY DEF Init, SYNs, SYNACKs, ACKs
<1>3. TypeOK /\ WireInv
  BY <1>1, <1>2 DEF Init, TypeOK, WireInv
<1>4. ClientInv /\ ServerInv /\ NoLaterSession
  BY <1>1, <1>2 DEF ClientInv, ServerInv, NoLaterSession, Answering
<1>5. ParameterInv
  BY <1>1, <1>2 DEF ParameterInv, Answering
<1> QED
  BY <1>3, <1>4, <1>5

LEMMA NextIInv == IInv /\ [Next]_vars => IInv'
<1> SUFFICES ASSUME IInv, [Next]_vars PROVE IInv'
  OBVIOUS
<1>1. CASE Next
  BY <1>1, ActiveOpenPreserves, DeliverToListenerPreserves,
     DeliverToSynSentPreserves, DeliverToSynReceivedPreserves, RestartPreserves
     DEF Next
<1>2. CASE UNCHANGED vars
  BY <1>2 DEF vars, IInv, TypeOK, WireInv, ClientInv, ServerInv, NoLaterSession,
              ParameterInv, Answering, SYNs, SYNACKs, ACKs
<1> QED
  BY <1>1, <1>2

(* The invariant holds in every reachable state of the handlers, for any   *)
(* number of failures, restarts and duplicated segments.                   *)
THEOREM Invariance == Spec => []IInv
BY InitIInv, NextIInv, PTL DEF Spec

(* Every field of the two TCPConn stays in its Go type's range: uint32     *)
(* sequence arithmetic wraps and never leaves the space.                   *)
THEOREM TypeCorrect == Spec => []TypeOK
<1>1. IInv => TypeOK
  BY DEF IInv
<1> QED
  BY <1>1, Invariance, PTL

(* An ACK that acknowledges the server's SYN-ACK comes from the client     *)
(* whose SYN the server answered.                                          *)
LEMMA AcknowledgedPeer ==
  ASSUME IInv, Answering, NEW a \in ACKs, a.ack = server.sndNXT
  PROVE  a.seq = server.rcvNXT
<1> USE DEF IInv
<1>1. PICK m \in SYNACKs : m.seq = server.sndISN /\ m.ack = server.rcvNXT
  BY DEF ServerInv
<1>2. PICK n \in SYNACKs : a.seq = n.ack /\ a.ack = Succ(n.seq)
  BY DEF WireInv
<1>3. n.seq \in Seqs /\ server.sndISN \in Seqs
  BY DEF TypeOK, Conns, WireInv
<1>4. n.seq = server.sndISN
  BY <1>2, <1>3, SuccInjective DEF ServerInv
<1> QED
  BY <1>1, <1>2, <1>4 DEF WireInv

LEMMA Agreement == IInv => SequenceAgreement
<1> SUFFICES ASSUME IInv, BothEstablished
             PROVE  /\ client.rcvNXT = Succ(server.sndISN)
                    /\ server.rcvNXT = Succ(client.sndISN)
                    /\ client.sndUNA = client.sndNXT
                    /\ server.sndUNA = server.sndNXT
  BY DEF SequenceAgreement
<1> USE DEF IInv
<1>1. client.state = "ESTABLISHED" /\ server.state = "ESTABLISHED" /\ Answering
  BY DEF BothEstablished, Answering
<1>2. PICK a \in ACKs : a.ack = server.sndNXT
  BY <1>1 DEF ServerInv
<1>3. PICK b \in ACKs : b.seq = client.sndNXT /\ b.ack = client.rcvNXT
  BY <1>1 DEF ClientInv
\* The server was acknowledged by this incarnation of the client ...
<1>4. a.seq = client.sndNXT
  <2>1. \E n \in SYNACKs : b.seq = n.ack
    BY DEF WireInv
  <2> QED
    BY <1>1, <1>2, <1>3, <2>1 DEF NoLaterSession
\* ... which acknowledges only one SYN-ACK.
<1>5. client.rcvNXT = server.sndNXT
  BY <1>2, <1>3, <1>4 DEF WireInv
<1>6. server.rcvNXT = client.sndNXT
  BY <1>1, <1>2, <1>4, AcknowledgedPeer
<1> QED
  BY <1>1, <1>5, <1>6 DEF ClientInv, ServerInv

(* handleSYN, handleSYNACK and handleACKInSynReceived establish only ends  *)
(* that agree on both initial sequence numbers.                            *)
THEOREM SequencesAgree == Spec => []SequenceAgreement
BY Agreement, Invariance, PTL

(* negotiateMSS and the window updates leave two established ends with the *)
(* smaller MSS and with each other's window.                               *)
THEOREM ParametersAgree == Spec => []ParameterAgreement
<1>1. IInv => ParameterAgreement
  BY DEF IInv, ParameterInv, ParameterAgreement, BothEstablished, Answering
<1> QED
  BY <1>1, Invariance, PTL

-----------------------------------------------------------------------------
(* The handshake implements Session.                                       *)

LEMMA ClientOpensSession ==
  ASSUME IInv, DeliverToSynSent
  PROVE  [Sessions!Next]_(Sessions!vars)
<1> USE DEF IInv
<1>1. PICK seg \in SYNACKs :
           /\ seg.ack = client.sndNXT
           /\ client' \in Conns
           /\ client'.sndNXT = client.sndNXT
           /\ client'.rcvNXT = Succ(seg.seq)
           /\ \/ /\ client'.state = "ESTABLISHED"
                 /\ wire' = wire \cup {ACK(client')}
              \/ client'.state = "SYN_SENT" /\ wire' = wire
           /\ server' = server
  BY SynSentEffect
<1>2. client.state = "SYN_SENT" /\ \A a \in ACKs : a.seq # client.sndNXT
  BY DEF DeliverToSynSent, ClientInv
<1>3. CASE client'.state = "ESTABLISHED"
  <2> DEFINE x == <<client.sndNXT, client'.rcvNXT>>
  <2>1. x \in Seqs \X Seqs
    BY <1>1 DEF TypeOK, Conns
  <2>2. ACKs' = ACKs \cup {ACK(client')}
    BY <1>1, <1>3 DEF ACKs, ACK, Segment
  <2>3. Completed' = Completed \cup {x}
    <3>1. <<ACK(client').seq, ACK(client').ack>> = x
      BY <1>1 DEF ACK, Segment
    <3>2. Completed' = {<<a.seq, a.ack>> : a \in ACKs'}
      BY DEF Completed
    <3> HIDE DEF x
    <3> QED
      BY <2>2, <3>1, <3>2 DEF Completed
  <2>4. x \notin Completed
    BY <1>2 DEF Completed
  <2>5. server.state # "ESTABLISHED"
    \* Otherwise the server is in a session of an earlier incarnation, and
    \* seg could not be on the wire.
    <3> SUFFICES ASSUME server.state = "ESTABLISHED" PROVE FALSE
      OBVIOUS
    <3>1. PICK a \in ACKs : a.ack = server.sndNXT
      BY DEF ServerInv
    <3> QED
      BY <1>1, <1>2, <3>1 DEF NoLaterSession, Answering
  <2>6. Sessions!ClientOpens(x)
    BY <1>1, <1>2, <1>3, <2>3, <2>4, <2>5 DEF Sessions!ClientOpens, ClientSession
  <2> QED
    BY <2>1, <2>6 DEF Sessions!Next
<1>4. CASE client'.state = "SYN_SENT"
  <2>1. ACKs' = ACKs
    BY <1>1, <1>4 DEF ACKs
  <2> QED
    BY <1>1, <1>2, <1>4, <2>1 DEF Sessions!vars, Completed, ServerSession
<1> QED
  BY <1>1, <1>3, <1>4

LEMMA ServerOpensSession ==
  ASSUME IInv, IInv', DeliverToSynReceived
  PROVE  Sessions!Next
<1>1. PICK seg \in ACKs :
           /\ seg.ack = server.sndNXT
           /\ server'.state = "ESTABLISHED"
           /\ server'.sndNXT = server.sndNXT
           /\ server'.rcvNXT = server.rcvNXT
           /\ UNCHANGED <<client, wire>>
  BY SynReceivedEffect DEF IInv
<1> DEFINE x == <<server.rcvNXT, server.sndNXT>>
<1>2. server.state = "SYN_RECEIVED"
  BY DEF DeliverToSynReceived
<1>3. seg.seq = server.rcvNXT
  BY <1>1, <1>2, AcknowledgedPeer DEF Answering
<1>4. x \in Seqs \X Seqs
  BY DEF IInv, TypeOK, Conns
<1>5. x \in Completed /\ Completed' = Completed
  BY <1>1, <1>3 DEF Completed, ACKs
<1>6. client.state = "ESTABLISHED" => ClientSession = x
  <2> SUFFICES ASSUME client.state = "ESTABLISHED" PROVE ClientSession = x
    OBVIOUS
  <2>1. SequenceAgreement'
    <3>1. IInv' => SequenceAgreement'
      BY Agreement, PTL
    <3> QED
      BY <3>1
  <2>2. client'.rcvNXT = Succ(server'.sndISN) /\ server'.rcvNXT = Succ(client'.sndISN)
    BY <1>1, <2>1 DEF SequenceAgreement, BothEstablished
  <2>3. client'.sndNXT = Succ(client'.sndISN) /\ server'.sndNXT = Succ(server'.sndISN)
    BY <1>1 DEF IInv, ClientInv, ServerInv, Answering
  <2> QED
    BY <1>1, <2>2, <2>3 DEF ClientSession
<1>7. Sessions!ServerOpens(x)
  BY <1>1, <1>2, <1>5, <1>6 DEF Sessions!ServerOpens, ServerSession, ClientSession
<1> QED
  BY <1>4, <1>7 DEF Sessions!Next

LEMMA StepSession == IInv /\ IInv' /\ [Next]_vars => [Sessions!Next]_(Sessions!vars)
<1> SUFFICES ASSUME IInv, IInv', [Next]_vars PROVE [Sessions!Next]_(Sessions!vars)
  OBVIOUS
<1>1. CASE ActiveOpen
  <2>1. /\ client.state = "CLOSED" /\ client'.state \in {"CLOSED", "SYN_SENT"}
        /\ server' = server
        /\ wire' = wire \/ wire' = wire \cup {SYN(client')}
    BY <1>1, ActiveOpenEffect DEF IInv, ActiveOpen
  <2>2. ACKs' = ACKs
    BY <2>1 DEF ACKs, SYN, Segment
  <2> QED
    BY <2>1, <2>2 DEF Sessions!vars, Completed, ServerSession
<1>2. CASE DeliverToListener
  <2>1. /\ server.state \in {"CLOSED", "LISTEN"}
        /\ server'.state \in {"LISTEN", "SYN_RECEIVED"}
        /\ client' = client
        /\ wire' = wire \/ wire' = wire \cup {SYNACK(server')}
    BY <1>2, ListenEffect DEF IInv, DeliverToListener
  <2>2. ACKs' = ACKs
    BY <2>1 DEF ACKs, SYNACK, Segment
  <2> QED
    BY <2>1, <2>2 DEF Sessions!vars, Completed, ClientSession
<1>3. CASE DeliverToSynSent
  BY <1>3, ClientOpensSession
<1>4. CASE DeliverToSynReceived
  BY <1>4, ServerOpensSession
<1>5. CASE RestartClient
  <2>1. client'.state = "CLOSED" /\ server' = server /\ wire' = wire
    BY <1>5 DEF RestartClient, NewTCPConn
  <2> QED
    BY <2>1 DEF Sessions!Next, Sessions!ClientCloses, Completed, ACKs, ServerSession
<1>6. CASE RestartServer
  <2>1. server'.state = "CLOSED" /\ client' = client /\ wire' = wire
    BY <1>6 DEF RestartServer, NewTCPConn
  <2> QED
    BY <2>1 DEF Sessions!Next, Sessions!ServerCloses, Completed, ACKs, ClientSession
<1>7. CASE UNCHANGED vars
  BY <1>7 DEF vars, Sessions!vars, Completed, ACKs, ClientSession, ServerSession
<1> QED
  BY <1>1, <1>2, <1>3, <1>4, <1>5, <1>6, <1>7 DEF Next

(* Every step of the handlers opens or closes a session as Session allows, *)
(* or changes nothing the two ends can see.                                *)
THEOREM Refinement == Spec => ImplementsSession
<1>1. Init => Sessions!Init
  BY DEF Init, Sessions!Init, NewTCPConn, Completed, ACKs
<1> QED
  BY <1>1, StepSession, Invariance, PTL DEF Spec, ImplementsSession, Sessions!Spec

-----------------------------------------------------------------------------
(* The inductive invariant of the handlers that overlap.                   *)

StepsTypes == StepsTypeOK /\ asked \in [Hosts -> SUBSET States]

(* A SYN is answered once, and a SYN-ACK acknowledged once: the segment    *)
(* that was answered has been carried.                                     *)
AnsweredOnce ==
  /\ WireInv
  /\ \A s, t \in SYNs : s.seq = t.seq => s = t
  /\ \A m \in SYNACKs : \E s \in SYNs \cap carried : m.ack = Succ(s.seq)
  /\ \A m, n \in SYNACKs : m.ack = n.ack => m = n
  /\ \A a \in ACKs : \E m \in SYNACKs \cap carried :
                       a.seq = m.ack /\ a.ack = Succ(m.seq)

\* The end has drawn its sequence number.
Opening == client.state # "CLOSED" \/ "SYN_SENT" \in asked["client"]
Heard == server.state # "CLOSED"

ClientEnd ==
  /\ client.state \in {"CLOSED", "SYN_SENT", "ESTABLISHED"}
  /\ Opening => client.sndISN \in clientISNs /\ client.sndNXT = Succ(client.sndISN)
  /\ In(client, "client") =>
       /\ client.sndUNA = client.sndNXT
       /\ \E a \in ACKs : a.seq = client.sndNXT /\ a.ack = client.rcvNXT

\* A SYN that came before the transition has replaced the numbers of an earlier
\* one, and its own answer may have failed: there may be no SYN-ACK with them.
ServerEnd ==
  /\ server.state \in {"CLOSED", "LISTEN", "SYN_RECEIVED", "ESTABLISHED"}
  /\ Heard =>
       /\ server.sndISN \in serverISNs /\ server.sndNXT = Succ(server.sndISN)
       /\ \A m \in SYNACKs : m.seq = server.sndISN => m.ack = server.rcvNXT
  /\ In(server, "server") =>
       /\ server.sndUNA = server.sndNXT
       /\ \E a \in ACKs : a.ack = server.sndNXT

(* NoLaterSession of Handshake, from the first step of each handler on.    *)
NoLaterStep ==
  Opening /\ Heard =>
    \A a \in ACKs :
      a.ack = server.sndNXT /\ a.seq # client.sndNXT =>
        \A m \in SYNACKs : m.ack # client.sndNXT

ParameterEnds ==
  LET least == Min2(ClientMSS, ServerMSS)
  IN /\ \A m \in SYNs : m.mss = ClientMSS /\ m.window = ClientWindow
     /\ \A m \in SYNACKs : m.mss = least /\ m.window = ServerWindow
     /\ \A m \in ACKs : m.window = ClientWindow
     /\ client.rcvWND = ClientWindow /\ client.mss \in {ClientMSS, least}
     /\ client.state = "CLOSED" => client.mss = ClientMSS
     /\ In(client, "client") => client.mss = least /\ client.sndWND = ServerWindow
     /\ server.rcvWND = ServerWindow /\ server.mss \in {ServerMSS, least}
     /\ Heard => server.mss = least /\ server.sndWND = ClientWindow

StepsInv ==
  /\ StepsTypes
  /\ AnsweredOnce
  /\ ClientEnd
  /\ ServerEnd
  /\ NoLaterStep
  /\ ParameterEnds

-----------------------------------------------------------------------------
(* What each step does to the fields of the connections and to asked.      *)

\* host is left with the transitions s to make.
Asks(host, s) ==
  /\ asked' \in [Hosts -> SUBSET States]
  /\ asked'[host] = s /\ \A h \in Hosts \ {host} : asked'[h] = asked[h]

LEMMA AskedEffect ==
  ASSUME asked \in [Hosts -> SUBSET States], NEW host \in Hosts,
         NEW s \in SUBSET States, asked' = [asked EXCEPT ![host] = s]
  PROVE  Asks(host, s)
BY DEF Asks

LEMMA SendsEffect ==
  ASSUME StepsTypes, NEW host \in Hosts, NEW seg, NEW to \in States, Sends(host, seg, to)
  PROVE  \/ wire' = wire \cup {seg} /\ Asks(host, asked[host] \cup {to})
         \/ wire' = wire /\ asked' = asked
<1>1. CASE Emit(seg) /\ asked' = [asked EXCEPT ![host] = @ \cup {to}]
  <2>1. asked[host] \cup {to} \in SUBSET States
    BY DEF StepsTypes
  <2>2. Asks(host, asked[host] \cup {to})
    BY <1>1, <2>1, AskedEffect DEF StepsTypes
  <2> QED
    BY <1>1, <2>2 DEF Emit
<1>2. CASE OutputFails /\ UNCHANGED asked
  BY <1>2 DEF OutputFails
<1> QED
  BY <1>1, <1>2 DEF Sends

\* d is c, but for the state.
SameNumbers(d, c) ==
  /\ d.sndISN = c.sndISN /\ d.sndNXT = c.sndNXT /\ d.sndUNA = c.sndUNA
  /\ d.rcvNXT = c.rcvNXT /\ d.mss = c.mss
  /\ d.sndWND = c.sndWND /\ d.rcvWND = c.rcvWND

LEMMA InState ==
  ASSUME NEW c \in Conns, NEW to \in States
  PROVE  LET d == [c EXCEPT !.state = to]
         IN  d \in Conns /\ d.state = to /\ SameNumbers(d, c)
BY DEF Conns, SameNumbers

(* sendSYN up to its transition.                                           *)
LEMMA StartSYNEffect ==
  ASSUME StepsTypes, StartSYN
  PROVE  \E isn \in Seqs \ clientISNs :
           /\ client.state = "CLOSED" /\ asked["client"] = {}
           /\ clientISNs' = clientISNs \cup {isn}
           /\ client' \in Conns /\ client'.state = "CLOSED"
           /\ client'.sndISN = isn /\ client'.sndNXT = Succ(isn)
           /\ client'.mss = client.mss /\ client'.rcvWND = client.rcvWND
           /\ \/ wire' = wire \cup {SYN(client')} /\ Asks("client", {"SYN_SENT"})
              \/ wire' = wire /\ asked' = asked
           /\ UNCHANGED <<server, serverISNs, carried>>
<1>1. PICK isn \in Seqs :
        /\ FreshISN(isn, clientISNs)
        /\ clientISNs' = clientISNs \cup {isn}
        /\ client' = WithISN(client, isn)
        /\ Sends("client", SYN(client'), "SYN_SENT")
  BY DEF StartSYN
<1>2. /\ client.state = "CLOSED" /\ asked["client"] = {}
      /\ UNCHANGED <<server, serverISNs, carried>>
  BY DEF StartSYN
<1>3. /\ client' \in Conns /\ client'.state = "CLOSED"
      /\ client'.sndISN = isn /\ client'.sndNXT = Succ(isn)
      /\ client'.mss = client.mss /\ client'.rcvWND = client.rcvWND
  BY <1>1, <1>2, SuccType DEF StepsTypes, StepsTypeOK, TypeOK, Conns, WithISN
<1>4. \/ wire' = wire \cup {SYN(client')} /\ Asks("client", {} \cup {"SYN_SENT"})
      \/ wire' = wire /\ asked' = asked
  BY <1>1, <1>2, SendsEffect DEF Hosts, States
<1> QED
  BY <1>1, <1>2, <1>3, <1>4 DEF FreshISN

(* handleSYN up to its transition.                                         *)
LEMMA StartOnSYNEffect ==
  ASSUME StepsTypes, NEW seg \in SYNs, StartOnSYN(seg)
  PROVE  \E isn \in Seqs \ serverISNs :
           /\ server.state \in {"CLOSED", "LISTEN"}
           /\ serverISNs' = serverISNs \cup {isn}
           /\ server' \in Conns /\ server'.state = "LISTEN"
           /\ server'.sndISN = isn /\ server'.sndNXT = Succ(isn)
           /\ server'.rcvNXT = Succ(seg.seq) /\ server'.rcvWND = server.rcvWND
           /\ server'.sndWND = seg.window
           /\ server'.mss = negotiateMSS(server, seg).mss
           /\ \/ /\ wire' = wire \cup {SYNACK(server')}
                 /\ Asks("server", asked["server"] \cup {"SYN_RECEIVED"})
              \/ wire' = wire /\ asked' = asked
           /\ carried' = carried \cup {seg} /\ (MayDuplicate \/ seg \notin carried)
           /\ UNCHANGED <<client, clientISNs>>
<1> DEFINE l == [server EXCEPT !.state = "LISTEN", !.rcvNXT = Succ(seg.seq)]
           r == TakeWindow(l, seg)
           n == negotiateMSS(r, seg)
<1>1. PICK isn \in Seqs :
        /\ FreshISN(isn, serverISNs)
        /\ serverISNs' = serverISNs \cup {isn}
        /\ server' = WithISN(n, isn)
        /\ Sends("server", SYNACK(server'), "SYN_RECEIVED")
  BY DEF StartOnSYN
<1>2. /\ server.state \in {"CLOSED", "LISTEN"} /\ Carry(seg)
      /\ UNCHANGED <<client, clientISNs>>
  BY DEF StartOnSYN
<1>3. seg \in Segments
  BY DEF SYNs, StepsTypes, StepsTypeOK, TypeOK
<1>4. /\ l \in Conns /\ l.state = "LISTEN" /\ l.rcvNXT = Succ(seg.seq)
      /\ l.mss = server.mss /\ l.rcvWND = server.rcvWND
  BY <1>3, SuccType DEF StepsTypes, StepsTypeOK, TypeOK, Conns, Segments, States
<1> HIDE DEF l
<1>5. /\ r \in Conns /\ r.state = "LISTEN" /\ r.rcvNXT = Succ(seg.seq)
      /\ r.sndWND = seg.window /\ r.mss = server.mss /\ r.rcvWND = server.rcvWND
  BY <1>3, <1>4 DEF TakeWindow, Conns, Segments
<1> HIDE DEF r
<1>6. /\ n \in Conns /\ n.state = "LISTEN" /\ n.rcvNXT = Succ(seg.seq)
      /\ n.sndWND = seg.window /\ n.rcvWND = server.rcvWND
      /\ n.mss = negotiateMSS(server, seg).mss
  BY <1>3, <1>5 DEF negotiateMSS, Conns, Segments, StepsTypes, StepsTypeOK, TypeOK
<1> HIDE DEF n
<1>7. /\ server' \in Conns /\ server'.state = "LISTEN"
      /\ server'.sndISN = isn /\ server'.sndNXT = Succ(isn)
      /\ server'.rcvNXT = Succ(seg.seq) /\ server'.sndWND = seg.window
      /\ server'.rcvWND = server.rcvWND
      /\ server'.mss = negotiateMSS(server, seg).mss
  BY <1>1, <1>6, SuccType DEF WithISN, Conns
<1>8. \/ /\ wire' = wire \cup {SYNACK(server')}
         /\ Asks("server", asked["server"] \cup {"SYN_RECEIVED"})
      \/ wire' = wire /\ asked' = asked
  BY <1>1, SendsEffect DEF Hosts, States
<1> QED
  BY <1>1, <1>2, <1>7, <1>8 DEF FreshISN, Carry

(* handleSYNACK up to its transition.                                      *)
LEMMA StartOnSYNACKEffect ==
  ASSUME StepsTypes, NEW seg \in SYNACKs, StartOnSYNACK(seg)
  PROVE  /\ client.state = "SYN_SENT" /\ seg.ack = client.sndNXT
         /\ client' \in Conns /\ client'.state = "SYN_SENT"
         /\ client'.sndISN = client.sndISN /\ client'.sndNXT = client.sndNXT
         /\ client'.sndUNA = client.sndNXT
         /\ client'.rcvNXT = Succ(seg.seq) /\ client'.rcvWND = client.rcvWND
         /\ client'.sndWND = seg.window
         /\ client'.mss = negotiateMSS(client, seg).mss
         /\ \/ /\ wire' = wire \cup {ACK(client')}
               /\ Asks("client", asked["client"] \cup {"ESTABLISHED"})
            \/ wire' = wire /\ asked' = asked
         /\ carried' = carried \cup {seg} /\ (MayDuplicate \/ seg \notin carried)
         /\ UNCHANGED <<server, clientISNs, serverISNs>>
<1> DEFINE l == [client EXCEPT !.sndUNA = seg.ack, !.rcvNXT = Succ(seg.seq)]
           r == TakeWindow(l, seg)
<1>1. /\ client.state = "SYN_SENT" /\ seg.ack = client.sndNXT /\ Carry(seg)
      /\ client' = negotiateMSS(r, seg)
      /\ Sends("client", ACK(client'), "ESTABLISHED")
      /\ UNCHANGED <<server, clientISNs, serverISNs>>
  BY DEF StartOnSYNACK, AcksOurSYN
<1>2. seg \in Segments
  BY DEF SYNACKs, StepsTypes, StepsTypeOK, TypeOK
<1>3. /\ l \in Conns /\ l.state = "SYN_SENT" /\ l.rcvNXT = Succ(seg.seq)
      /\ l.sndISN = client.sndISN /\ l.sndNXT = client.sndNXT /\ l.sndUNA = seg.ack
      /\ l.mss = client.mss /\ l.rcvWND = client.rcvWND
  BY <1>1, <1>2, SuccType DEF StepsTypes, StepsTypeOK, TypeOK, Conns, Segments
<1> HIDE DEF l
<1>4. /\ r \in Conns /\ r.state = "SYN_SENT" /\ r.rcvNXT = Succ(seg.seq)
      /\ r.sndISN = client.sndISN /\ r.sndNXT = client.sndNXT /\ r.sndUNA = seg.ack
      /\ r.sndWND = seg.window /\ r.mss = client.mss /\ r.rcvWND = client.rcvWND
  BY <1>2, <1>3 DEF TakeWindow, Conns, Segments
<1> HIDE DEF r
<1>5. /\ client' \in Conns /\ client'.state = "SYN_SENT"
      /\ client'.rcvNXT = Succ(seg.seq) /\ client'.sndISN = client.sndISN
      /\ client'.sndNXT = client.sndNXT /\ client'.sndUNA = client.sndNXT
      /\ client'.sndWND = seg.window /\ client'.rcvWND = client.rcvWND
      /\ client'.mss = negotiateMSS(client, seg).mss
  BY <1>1, <1>2, <1>4 DEF negotiateMSS, Conns, Segments, StepsTypes, StepsTypeOK, TypeOK
<1>6. \/ /\ wire' = wire \cup {ACK(client')}
         /\ Asks("client", asked["client"] \cup {"ESTABLISHED"})
      \/ wire' = wire /\ asked' = asked
  BY <1>1, SendsEffect DEF Hosts, States
<1> QED
  BY <1>1, <1>5, <1>6 DEF Carry

(* handleACKInSynReceived up to its transition.                            *)
LEMMA StartOnACKEffect ==
  ASSUME StepsTypes, NEW seg \in ACKs, StartOnACK(seg)
  PROVE  /\ server.state = "SYN_RECEIVED" /\ seg.ack = server.sndNXT
         /\ server' \in Conns /\ server'.state = "SYN_RECEIVED"
         /\ server'.sndISN = server.sndISN /\ server'.sndNXT = server.sndNXT
         /\ server'.sndUNA = server.sndNXT
         /\ server'.rcvNXT = server.rcvNXT /\ server'.rcvWND = server.rcvWND
         /\ server'.sndWND = seg.window /\ server'.mss = server.mss
         /\ Asks("server", asked["server"] \cup {"ESTABLISHED"})
         /\ carried' = carried \cup {seg}
         /\ UNCHANGED <<client, wire, clientISNs, serverISNs>>
<1> DEFINE l == [server EXCEPT !.sndUNA = seg.ack]
<1>1. /\ server.state = "SYN_RECEIVED" /\ seg.ack = server.sndNXT /\ Carry(seg)
      /\ server' = TakeWindow(l, seg)
      /\ asked' = [asked EXCEPT !["server"] = @ \cup {"ESTABLISHED"}]
      /\ UNCHANGED <<client, wire, clientISNs, serverISNs>>
  BY DEF StartOnACK, AcksOurSYN
<1>2. seg \in Segments
  BY DEF ACKs, StepsTypes, StepsTypeOK, TypeOK
<1>3. /\ l \in Conns /\ l.state = "SYN_RECEIVED" /\ l.rcvNXT = server.rcvNXT
      /\ l.sndISN = server.sndISN /\ l.sndNXT = server.sndNXT /\ l.sndUNA = seg.ack
      /\ l.mss = server.mss /\ l.rcvWND = server.rcvWND
  BY <1>1, <1>2 DEF StepsTypes, StepsTypeOK, TypeOK, Conns, Segments
<1> HIDE DEF l
<1>4. /\ server' \in Conns /\ server'.state = "SYN_RECEIVED"
      /\ server'.rcvNXT = server.rcvNXT /\ server'.sndISN = server.sndISN
      /\ server'.sndNXT = server.sndNXT /\ server'.sndUNA = server.sndNXT
      /\ server'.sndWND = seg.window /\ server'.rcvWND = server.rcvWND
      /\ server'.mss = server.mss
  BY <1>1, <1>2, <1>3 DEF TakeWindow, Conns, Segments
<1>5. Asks("server", asked["server"] \cup {"ESTABLISHED"})
  <2>1. "server" \in Hosts /\ asked["server"] \cup {"ESTABLISHED"} \in SUBSET States
    BY DEF StepsTypes, Hosts, States
  <2> QED
    BY <1>1, <2>1, AskedEffect DEF StepsTypes
<1> QED
  BY <1>1, <1>4, <1>5 DEF Carry

(* The transition: one that was asked for is valid, unless another handler *)
(* has made it already.                                                    *)
LEMMA FinishEffect ==
  ASSUME StepsTypes, FinishHandler
  PROVE  /\ UNCHANGED <<wire, clientISNs, serverISNs, carried>>
         /\ \/ \E to \in asked["client"] :
                 /\ IsValid(client.state, to)
                 /\ client' \in Conns /\ client'.state = to /\ SameNumbers(client', client)
                 /\ Asks("client", asked["client"] \ {to}) /\ server' = server
            \/ \E to \in asked["server"] :
                 /\ \/ /\ IsValid(server.state, to)
                       /\ server' \in Conns /\ server'.state = to
                       /\ SameNumbers(server', server)
                    \/ ~IsValid(server.state, to) /\ server' = server
                 /\ Asks("server", asked["server"] \ {to}) /\ client' = client
<1>0. /\ asked \in [Hosts -> SUBSET States] /\ client \in Conns /\ server \in Conns
      /\ "client" \in Hosts /\ "server" \in Hosts
      /\ \A to \in asked["client"] : IsValid(client.state, to)
  BY DEF StepsTypes, StepsTypeOK, TypeOK, Hosts
<1>1. PICK to \in States : Finish(to)
  BY DEF FinishHandler
<1>2. UNCHANGED <<wire, clientISNs, serverISNs, carried>>
  BY DEF FinishHandler
<1>3. CASE /\ to \in asked["client"] /\ client' = Transition(client, to)
           /\ asked' = [asked EXCEPT !["client"] = @ \ {to}] /\ UNCHANGED server
  <2>1. Asks("client", asked["client"] \ {to})
    BY <1>0, <1>3, AskedEffect
  <2>2. IsValid(client.state, to) /\ client' = [client EXCEPT !.state = to]
    BY <1>0, <1>3 DEF Transition
  <2> QED
    BY <1>0, <1>2, <1>3, <2>1, <2>2, InState
<1>4. CASE /\ to \in asked["server"] /\ server' = Transition(server, to)
           /\ asked' = [asked EXCEPT !["server"] = @ \ {to}] /\ UNCHANGED client
  <2>1. Asks("server", asked["server"] \ {to})
    BY <1>0, <1>4, AskedEffect
  <2>2. \/ IsValid(server.state, to) /\ server' = [server EXCEPT !.state = to]
        \/ ~IsValid(server.state, to) /\ server' = server
    BY <1>4 DEF Transition
  <2> QED
    BY <1>0, <1>2, <1>4, <2>1, <2>2, InState
<1> QED
  BY <1>1, <1>3, <1>4 DEF Finish

LEMMA RestartEffect ==
  ASSUME StepsTypes, NEW h \in Hosts, Restart(h)
  PROVE  /\ UNCHANGED <<wire, clientISNs, serverISNs, carried>>
         /\ Asks(h, {})
         /\ \/ /\ h = "client" /\ client' \in Conns /\ client'.state = "CLOSED"
               /\ client'.mss = ClientMSS /\ client'.rcvWND = ClientWindow
               /\ server' = server
            \/ /\ h = "server" /\ server' \in Conns /\ server'.state = "CLOSED"
               /\ server'.mss = ServerMSS /\ server'.rcvWND = ServerWindow
               /\ client' = client
<1>1. Asks(h, {})
  <2>1. asked' = [asked EXCEPT ![h] = {}] /\ {} \in SUBSET States
    BY DEF Restart
  <2> QED
    BY <2>1, AskedEffect DEF StepsTypes
<1>2. CASE h = "client" /\ RestartClient
  BY <1>1, <1>2, NewTCPConnEffect, SizesAssumption DEF RestartClient, Restart
<1>3. CASE h = "server" /\ RestartServer
  BY <1>1, <1>3, NewTCPConnEffect, SizesAssumption DEF RestartServer, Restart
<1> QED
  BY <1>2, <1>3 DEF Restart, Hosts
-----------------------------------------------------------------------------
(* Types, on every wire.                                                   *)

LEMMA TypesStart ==
  ASSUME StepsTypes, \/ StartSYN
                     \/ \E seg \in SYNs : StartOnSYN(seg)
                     \/ \E seg \in SYNACKs : StartOnSYNACK(seg)
                     \/ \E seg \in ACKs : StartOnACK(seg)
  PROVE  StepsTypes'
<1> USE DEF StepsTypes, StepsTypeOK, TypeOK, Asks, Hosts
<1>1. CASE StartSYN
  <2>1. PICK isn \in Seqs \ clientISNs :
           /\ client.state = "CLOSED" /\ asked["client"] = {}
           /\ clientISNs' = clientISNs \cup {isn}
           /\ client' \in Conns /\ client'.state = "CLOSED"
           /\ \/ wire' = wire \cup {SYN(client')} /\ Asks("client", {"SYN_SENT"})
              \/ wire' = wire /\ asked' = asked
           /\ UNCHANGED <<server, serverISNs, carried>>
    BY <1>1, StartSYNEffect
  <2>2. wire' \subseteq Segments /\ carried' \subseteq wire'
    BY <2>1, SegmentTypes
  <2>3. \A to \in asked'["client"] : IsValid("CLOSED", to)
    BY <2>1 DEF IsValid, validTransitions
  <2> QED
    BY <2>1, <2>2, <2>3
<1>2. ASSUME NEW seg \in SYNs, StartOnSYN(seg) PROVE StepsTypes'
  <2>1. PICK isn \in Seqs \ serverISNs :
           /\ server.state \in {"CLOSED", "LISTEN"}
           /\ serverISNs' = serverISNs \cup {isn}
           /\ server' \in Conns
           /\ \/ /\ wire' = wire \cup {SYNACK(server')}
                 /\ Asks("server", asked["server"] \cup {"SYN_RECEIVED"})
              \/ wire' = wire /\ asked' = asked
           /\ carried' = carried \cup {seg}
           /\ UNCHANGED <<client, clientISNs>>
    BY <1>2, StartOnSYNEffect
  <2>2. wire' \subseteq Segments /\ carried' \subseteq wire'
    BY <2>1, SegmentTypes DEF SYNs
  <2> QED
    BY <2>1, <2>2
<1>3. ASSUME NEW seg \in SYNACKs, StartOnSYNACK(seg) PROVE StepsTypes'
  <2>1. /\ client.state = "SYN_SENT" /\ client' \in Conns /\ client'.state = "SYN_SENT"
        /\ \/ /\ wire' = wire \cup {ACK(client')}
              /\ Asks("client", asked["client"] \cup {"ESTABLISHED"})
           \/ wire' = wire /\ asked' = asked
        /\ carried' = carried \cup {seg}
        /\ UNCHANGED <<server, clientISNs, serverISNs>>
    BY <1>3, StartOnSYNACKEffect
  <2>2. wire' \subseteq Segments /\ carried' \subseteq wire'
    BY <2>1, SegmentTypes DEF SYNACKs
  <2>3. IsValid("SYN_SENT", "ESTABLISHED")
    BY DEF IsValid, validTransitions
  <2> QED
    BY <2>1, <2>2, <2>3
<1>4. ASSUME NEW seg \in ACKs, StartOnACK(seg) PROVE StepsTypes'
  <2>1. /\ server' \in Conns /\ server'.state = "SYN_RECEIVED"
        /\ Asks("server", asked["server"] \cup {"ESTABLISHED"})
        /\ carried' = carried \cup {seg}
        /\ UNCHANGED <<client, wire, clientISNs, serverISNs>>
    BY <1>4, StartOnACKEffect
  <2> QED
    BY <2>1 DEF ACKs
<1> QED
  BY <1>1, <1>2, <1>3, <1>4

LEMMA TypesFinish ==
  ASSUME StepsTypes, FinishHandler
  PROVE  StepsTypes'
<1> USE DEF StepsTypes, StepsTypeOK, TypeOK, Asks, Hosts
<1>1. UNCHANGED <<wire, clientISNs, serverISNs, carried>>
  BY FinishEffect
<1>2. CASE \E to \in asked["client"] :
             /\ IsValid(client.state, to)
             /\ client' \in Conns /\ client'.state = to
             /\ Asks("client", asked["client"] \ {to}) /\ server' = server
  <2>1. PICK to \in asked["client"] :
             /\ IsValid(client.state, to)
             /\ client' \in Conns /\ client'.state = to
             /\ Asks("client", asked["client"] \ {to}) /\ server' = server
    BY <1>2
  \* The state has one of the two as a successor, never both.
  <2>2. \A next \in asked'["client"] : IsValid(client'.state, next)
    BY <2>1 DEF IsValid, validTransitions, Conns, States
  <2> QED
    BY <1>1, <2>1, <2>2
<1>3. CASE \E to \in asked["server"] :
             /\ \/ IsValid(server.state, to) /\ server' \in Conns /\ server'.state = to
                \/ ~IsValid(server.state, to) /\ server' = server
             /\ Asks("server", asked["server"] \ {to}) /\ client' = client
  <2>1. PICK to \in asked["server"] :
             /\ \/ IsValid(server.state, to) /\ server' \in Conns /\ server'.state = to
                \/ ~IsValid(server.state, to) /\ server' = server
             /\ Asks("server", asked["server"] \ {to}) /\ client' = client
    BY <1>3
  <2>2. "ESTABLISHED" \in asked'["server"] => server'.state = "SYN_RECEIVED"
    BY <2>1
  <2> QED
    BY <1>1, <2>1, <2>2
<1> QED
  BY <1>2, <1>3, FinishEffect

LEMMA TypesRestart ==
  ASSUME StepsTypes, NEW h \in Hosts, Restart(h)
  PROVE  StepsTypes'
BY RestartEffect DEF StepsTypes, StepsTypeOK, TypeOK, Asks, Hosts

LEMMA TypesInvariance == SpecSteps => []StepsTypes
<1>1. InitSteps => StepsTypes
  <2> SUFFICES ASSUME InitSteps PROVE StepsTypes
    OBVIOUS
  <2>1. TypeOK
    BY InitIInv DEF InitSteps, IInv
  <2> QED
    BY <2>1 DEF InitSteps, StepsTypes, StepsTypeOK, Hosts, Init
<1>2. StepsTypes /\ [NextSteps]_allVars => StepsTypes'
  <2> SUFFICES ASSUME StepsTypes, [NextSteps]_allVars PROVE StepsTypes'
    OBVIOUS
  <2>1. ASSUME NEW seg \in wire, Drop(seg) PROVE StepsTypes'
    BY <2>1 DEF Drop, Carry, vars, StepsTypes, StepsTypeOK, TypeOK
  <2>2. CASE UNCHANGED allVars
    BY <2>2 DEF allVars, vars, stepVars, StepsTypes, StepsTypeOK, TypeOK
  <2> QED
    BY <2>1, <2>2, TypesStart, TypesFinish, TypesRestart DEF NextSteps, Hand
<1> QED
  BY <1>1, <1>2, PTL DEF SpecSteps

(* Fields and segments stay in their types, and a transition that a        *)
(* handler has yet to make is one that its state allows, however the       *)
(* handlers overlap (handshake.go:34, 80, 104, 121; state.go:138-160).     *)
THEOREM StepsTypeCorrect == SpecSteps => []StepsTypeOK
<1>1. StepsTypes => StepsTypeOK
  BY DEF StepsTypes
<1> QED
  BY <1>1, TypesInvariance, PTL
-----------------------------------------------------------------------------
(* The invariant is inductive on a wire that repeats nothing.              *)

LEMMA StartSYNPreserves ==
  ASSUME StepsInv, StartSYN
  PROVE  AnsweredOnce' /\ ClientEnd' /\ ServerEnd' /\ NoLaterStep' /\ ParameterEnds'
<1> USE DEF StepsInv
<1>1. PICK isn \in Seqs \ clientISNs :
           /\ client.state = "CLOSED" /\ asked["client"] = {}
           /\ clientISNs' = clientISNs \cup {isn}
           /\ client' \in Conns /\ client'.state = "CLOSED"
           /\ client'.sndISN = isn /\ client'.sndNXT = Succ(isn)
           /\ client'.mss = client.mss /\ client'.rcvWND = client.rcvWND
           /\ \/ wire' = wire \cup {SYN(client')} /\ Asks("client", {"SYN_SENT"})
              \/ wire' = wire /\ asked' = asked
           /\ UNCHANGED <<server, serverISNs, carried>>
  BY StartSYNEffect
<1> DEFINE syn == SYN(client')
<1>2. asked'["server"] = asked["server"] /\ asked'["client"] \in {{}, {"SYN_SENT"}}
  BY <1>1 DEF Asks, Hosts
<1>3. ~In(client, "client")' /\ (In(server, "server")' <=> In(server, "server"))
  BY <1>1, <1>2 DEF In
<1>4. /\ \A m \in SYNACKs : m.ack # Succ(isn)
      /\ \A a \in ACKs : a.seq # Succ(isn)
  BY FreshClientISN DEF StepsTypes, StepsTypeOK, AnsweredOnce
<1>5. /\ SYNACKs' = SYNACKs /\ ACKs' = ACKs /\ SYNs \subseteq SYNs'
      /\ SYNs' \subseteq SYNs \cup {syn}
  BY <1>1 DEF SYNACKs, ACKs, SYNs, SYN, Segment
<1>6. /\ syn.src = "client" /\ syn.flags = {"SYN"} /\ syn.seq = isn
      /\ syn.mss = client.mss /\ syn.window = client.rcvWND
  BY <1>1 DEF SYN, Segment
<1> HIDE DEF syn
<1>7. WireInv'
  BY <1>1, <1>5, <1>6 DEF AnsweredOnce, WireInv, syn
<1>8. (\A s, t \in SYNs : s.seq = t.seq => s = t)'
  BY <1>1, <1>5, <1>6 DEF AnsweredOnce, WireInv
<1>9. AnsweredOnce'
  BY <1>1, <1>5, <1>7, <1>8 DEF AnsweredOnce
<1>10. ClientEnd'
  BY <1>1, <1>2, <1>3 DEF ClientEnd, Opening, In
<1>11. ServerEnd'
  BY <1>1, <1>3, <1>5 DEF ServerEnd, Heard
<1>12. NoLaterStep'
  BY <1>1, <1>4, <1>5 DEF NoLaterStep
<1>13. ParameterEnds'
  BY <1>1, <1>3, <1>5, <1>6 DEF ParameterEnds, Heard, In
<1> QED
  BY <1>9, <1>10, <1>11, <1>12, <1>13

LEMMA StartOnSYNPreserves ==
  ASSUME ~MayDuplicate, StepsInv, NEW seg \in SYNs, StartOnSYN(seg)
  PROVE  AnsweredOnce' /\ ClientEnd' /\ ServerEnd' /\ NoLaterStep' /\ ParameterEnds'
<1> USE DEF StepsInv
<1>1. PICK isn \in Seqs \ serverISNs :
           /\ server.state \in {"CLOSED", "LISTEN"}
           /\ serverISNs' = serverISNs \cup {isn}
           /\ server' \in Conns /\ server'.state = "LISTEN"
           /\ server'.sndISN = isn /\ server'.sndNXT = Succ(isn)
           /\ server'.rcvNXT = Succ(seg.seq) /\ server'.rcvWND = server.rcvWND
           /\ server'.sndWND = seg.window
           /\ server'.mss = negotiateMSS(server, seg).mss
           /\ \/ /\ wire' = wire \cup {SYNACK(server')}
                 /\ Asks("server", asked["server"] \cup {"SYN_RECEIVED"})
              \/ wire' = wire /\ asked' = asked
           /\ carried' = carried \cup {seg} /\ seg \notin carried
           /\ UNCHANGED <<client, clientISNs>>
  BY StartOnSYNEffect
<1> DEFINE reply == SYNACK(server')
<1>2. /\ asked'["client"] = asked["client"]
      /\ asked'["server"] \subseteq asked["server"] \cup {"SYN_RECEIVED"}
  BY <1>1 DEF Asks, Hosts
<1>3. /\ ~In(server, "server")' /\ (In(client, "client")' <=> In(client, "client"))
      /\ (Opening' <=> Opening)
  BY <1>1, <1>2 DEF In, Opening, StepsTypes, StepsTypeOK
<1>4. \A a \in ACKs : a.ack # Succ(isn)
  BY FreshServerISN DEF StepsTypes, StepsTypeOK, AnsweredOnce
<1>5. /\ SYNs' = SYNs /\ ACKs' = ACKs /\ SYNACKs \subseteq SYNACKs'
      /\ SYNACKs' \subseteq SYNACKs \cup {reply}
  BY <1>1 DEF SYNACKs, ACKs, SYNs, SYNACK, Segment
<1>6. /\ reply.src = "server" /\ reply.flags = {"SYN", "ACK"}
      /\ reply.seq = isn /\ reply.ack = Succ(seg.seq)
      /\ reply.mss = server'.mss /\ reply.window = server.rcvWND
  BY <1>1 DEF SYNACK, Segment
<1>7. wire' \subseteq wire \cup {reply}
  BY <1>1
<1> HIDE DEF reply
\* seg has not been answered before.
<1>8. \A m \in SYNACKs : m.ack # Succ(seg.seq)
  <2> SUFFICES ASSUME NEW m \in SYNACKs, m.ack = Succ(seg.seq) PROVE FALSE
    OBVIOUS
  <2>1. PICK s \in SYNs \cap carried : m.ack = Succ(s.seq)
    BY DEF AnsweredOnce
  <2>2. s.seq \in Seqs /\ seg.seq \in Seqs
    BY DEF AnsweredOnce, WireInv, StepsTypes, StepsTypeOK, TypeOK
  <2>3. s = seg
    BY <2>1, <2>2, SuccInjective DEF AnsweredOnce
  <2> QED
    BY <1>1, <2>1, <2>3
<1>9. WireInv'
  <2>1. (\A m \in wire : \/ m.src = "client" /\ m.flags \in {{"SYN"}, {"ACK"}}
                         \/ m.src = "server" /\ m.flags = {"SYN", "ACK"})'
    BY <1>6, <1>7 DEF AnsweredOnce, WireInv
  <2>2. (\A m \in SYNACKs : /\ m.seq \in serverISNs
                            /\ \E i \in clientISNs : m.ack = Succ(i))'
    BY <1>1, <1>5, <1>6 DEF AnsweredOnce, WireInv
  <2>3. (\A m, n \in SYNACKs : m.seq = n.seq => m.ack = n.ack)'
    BY <1>1, <1>5, <1>6 DEF AnsweredOnce, WireInv
  <2> QED
    BY <1>1, <1>5, <2>1, <2>2, <2>3 DEF AnsweredOnce, WireInv
<1>10. AnsweredOnce'
  <2>1. (\A m \in SYNACKs : \E s \in SYNs \cap carried : m.ack = Succ(s.seq))'
    BY <1>1, <1>5, <1>6 DEF AnsweredOnce
  <2>2. (\A m, n \in SYNACKs : m.ack = n.ack => m = n)'
    BY <1>5, <1>6, <1>8 DEF AnsweredOnce
  <2>3. (\A a \in ACKs : \E m \in SYNACKs \cap carried :
                           a.seq = m.ack /\ a.ack = Succ(m.seq))'
    BY <1>1, <1>5 DEF AnsweredOnce
  <2> QED
    BY <1>5, <1>9, <2>1, <2>2, <2>3 DEF AnsweredOnce
<1>11. ClientEnd'
  BY <1>1, <1>3, <1>5 DEF ClientEnd
<1>12. ServerEnd'
  BY <1>1, <1>3, <1>5, <1>6 DEF ServerEnd, AnsweredOnce, WireInv
<1>13. NoLaterStep'
  BY <1>1, <1>4, <1>5 DEF NoLaterStep
<1>14. server'.mss = Min2(ClientMSS, ServerMSS)
  <2>1. /\ server \in Conns /\ seg.mss = ClientMSS
        /\ server.mss \in {ServerMSS, Min2(ServerMSS, ClientMSS)}
        /\ Min2(ServerMSS, ClientMSS) = Min2(ClientMSS, ServerMSS)
    BY SizesAssumption DEF ParameterEnds, StepsTypes, StepsTypeOK, TypeOK, Min2
  <2> QED
    BY <1>1, <2>1, NegotiatesSmaller, SizesAssumption
<1>15. ParameterEnds'
  BY <1>1, <1>3, <1>5, <1>6, <1>14 DEF ParameterEnds
<1> QED
  BY <1>10, <1>11, <1>12, <1>13, <1>15

LEMMA StartOnSYNACKPreserves ==
  ASSUME ~MayDuplicate, StepsInv, NEW seg \in SYNACKs, StartOnSYNACK(seg)
  PROVE  /\ \A a \in ACKs : a.seq # client.sndNXT
         /\ ~In(client, "client")
         /\ AnsweredOnce' /\ ClientEnd' /\ ServerEnd' /\ NoLaterStep' /\ ParameterEnds'
<1> USE DEF StepsInv
<1>1. /\ client.state = "SYN_SENT" /\ seg.ack = client.sndNXT
      /\ client' \in Conns /\ client'.state = "SYN_SENT"
      /\ client'.sndISN = client.sndISN /\ client'.sndNXT = client.sndNXT
      /\ client'.sndUNA = client.sndNXT
      /\ client'.rcvNXT = Succ(seg.seq) /\ client'.rcvWND = client.rcvWND
      /\ client'.sndWND = seg.window
      /\ client'.mss = negotiateMSS(client, seg).mss
      /\ \/ /\ wire' = wire \cup {ACK(client')}
            /\ Asks("client", asked["client"] \cup {"ESTABLISHED"})
         \/ wire' = wire /\ asked' = asked
      /\ carried' = carried \cup {seg} /\ seg \notin carried
      /\ UNCHANGED <<server, clientISNs, serverISNs>>
  BY StartOnSYNACKEffect
<1> DEFINE reply == ACK(client')
\* No SYN-ACK of this incarnation has been acknowledged before.
<1>2. \A a \in ACKs : a.seq # client.sndNXT
  <2> SUFFICES ASSUME NEW a \in ACKs, a.seq = client.sndNXT PROVE FALSE
    OBVIOUS
  <2>1. PICK m \in SYNACKs \cap carried : a.seq = m.ack
    BY DEF AnsweredOnce
  <2>2. m = seg
    BY <1>1, <2>1 DEF AnsweredOnce
  <2> QED
    BY <1>1, <2>1, <2>2
<1>3. ~In(client, "client")
  BY <1>2 DEF ClientEnd
<1>4. asked'["server"] = asked["server"]
  BY <1>1 DEF Asks, Hosts
<1>5. /\ (In(server, "server")' <=> In(server, "server")) /\ (Heard' <=> Heard)
      /\ Opening /\ Opening'
  BY <1>1, <1>4 DEF In, Heard, Opening
<1>6. /\ SYNs' = SYNs /\ SYNACKs' = SYNACKs /\ ACKs \subseteq ACKs'
      /\ ACKs' \subseteq ACKs \cup {reply}
      /\ In(client, "client")' => reply \in ACKs'
  BY <1>1, <1>3 DEF SYNACKs, ACKs, SYNs, ACK, Segment, In
<1>7. /\ reply.src = "client" /\ reply.flags = {"ACK"}
      /\ reply.seq = client.sndNXT /\ reply.ack = Succ(seg.seq)
      /\ reply.window = client.rcvWND
  BY <1>1 DEF ACK, Segment
<1>8. wire' \subseteq wire \cup {reply}
  BY <1>1
<1> HIDE DEF reply
<1>9. WireInv'
  <2>1. (\A m \in wire : \/ m.src = "client" /\ m.flags \in {{"SYN"}, {"ACK"}}
                         \/ m.src = "server" /\ m.flags = {"SYN", "ACK"})'
    BY <1>7, <1>8 DEF AnsweredOnce, WireInv
  <2>2. (\A a \in ACKs : \E m \in SYNACKs : a.seq = m.ack /\ a.ack = Succ(m.seq))'
    BY <1>1, <1>6, <1>7 DEF AnsweredOnce, WireInv
  <2>3. (\A a, b \in ACKs : a.seq = b.seq => a.ack = b.ack)'
    BY <1>2, <1>6, <1>7 DEF AnsweredOnce, WireInv
  <2> QED
    BY <1>1, <1>6, <2>1, <2>2, <2>3 DEF AnsweredOnce, WireInv
<1>10. AnsweredOnce'
  <2>1. (\A a \in ACKs : \E m \in SYNACKs \cap carried :
                           a.seq = m.ack /\ a.ack = Succ(m.seq))'
    BY <1>1, <1>6, <1>7 DEF AnsweredOnce
  <2> QED
    BY <1>1, <1>6, <1>9, <2>1 DEF AnsweredOnce
<1>11. ClientEnd'
  BY <1>1, <1>5, <1>6, <1>7 DEF ClientEnd
<1>12. ServerEnd'
  BY <1>1, <1>5, <1>6 DEF ServerEnd
<1>13. NoLaterStep'
  BY <1>1, <1>5, <1>6, <1>7 DEF NoLaterStep
<1>14. client'.mss = Min2(ClientMSS, ServerMSS)
  <2>1. /\ client \in Conns /\ seg.mss = Min2(ClientMSS, ServerMSS)
        /\ client.mss \in {ClientMSS, Min2(ClientMSS, ServerMSS)}
    BY DEF ParameterEnds, StepsTypes, StepsTypeOK, TypeOK
  <2> QED
    BY <1>1, <2>1, NegotiatesSmaller, SizesAssumption
<1>15. ParameterEnds'
  BY <1>1, <1>5, <1>6, <1>7, <1>14 DEF ParameterEnds
<1> QED
  BY <1>2, <1>3, <1>10, <1>11, <1>12, <1>13, <1>15
LEMMA StartOnACKPreserves ==
  ASSUME StepsInv, NEW seg \in ACKs, StartOnACK(seg)
  PROVE  AnsweredOnce' /\ ClientEnd' /\ ServerEnd' /\ NoLaterStep' /\ ParameterEnds'
<1> USE DEF StepsInv
<1>1. /\ server.state = "SYN_RECEIVED" /\ seg.ack = server.sndNXT
      /\ server' \in Conns /\ server'.state = "SYN_RECEIVED"
      /\ server'.sndISN = server.sndISN /\ server'.sndNXT = server.sndNXT
      /\ server'.sndUNA = server.sndNXT
      /\ server'.rcvNXT = server.rcvNXT /\ server'.rcvWND = server.rcvWND
      /\ server'.sndWND = seg.window /\ server'.mss = server.mss
      /\ Asks("server", asked["server"] \cup {"ESTABLISHED"})
      /\ carried' = carried \cup {seg}
      /\ UNCHANGED <<client, wire, clientISNs, serverISNs>>
  BY StartOnACKEffect
<1>2. asked'["client"] = asked["client"]
  BY <1>1 DEF Asks, Hosts
<1>3. /\ (In(client, "client")' <=> In(client, "client")) /\ (Opening' <=> Opening)
      /\ Heard /\ Heard'
  BY <1>1, <1>2 DEF In, Opening, Heard
<1>4. SYNs' = SYNs /\ SYNACKs' = SYNACKs /\ ACKs' = ACKs
  BY <1>1 DEF SYNs, SYNACKs, ACKs
<1>5. WireInv'
  BY <1>1, <1>4 DEF AnsweredOnce, WireInv
<1>6. AnsweredOnce'
  BY <1>1, <1>4, <1>5 DEF AnsweredOnce
<1>7. ClientEnd'
  BY <1>1, <1>3, <1>4 DEF ClientEnd
<1>8. ServerEnd'
  BY <1>1, <1>3, <1>4 DEF ServerEnd
<1>9. NoLaterStep'
  BY <1>1, <1>3, <1>4 DEF NoLaterStep
<1>10. ParameterEnds'
  BY <1>1, <1>3, <1>4 DEF ParameterEnds
<1> QED
  BY <1>6, <1>7, <1>8, <1>9, <1>10

(* A transition changes who says that an end is open, and nothing else.    *)
LEMMA FinishKeeps ==
  ASSUME StepsInv, FinishHandler
  PROVE  /\ UNCHANGED <<wire, clientISNs, serverISNs, carried>>
         /\ SameNumbers(client', client) /\ SameNumbers(server', server)
         /\ client'.state \in {"CLOSED", "SYN_SENT", "ESTABLISHED"}
         /\ client'.state = "CLOSED" => client.state = "CLOSED"
         /\ server'.state \in {"CLOSED", "LISTEN", "SYN_RECEIVED", "ESTABLISHED"}
         /\ (In(client, "client")' <=> In(client, "client"))
         /\ (In(server, "server")' <=> In(server, "server"))
         /\ (Opening' <=> Opening) /\ (Heard' <=> Heard)
<1> USE DEF StepsInv, In, Opening, Heard, Asks, Hosts
<1>1. UNCHANGED <<wire, clientISNs, serverISNs, carried>>
  BY FinishEffect
<1>2. \A c : SameNumbers(c, c)
  BY DEF SameNumbers
<1>3. /\ asked["client"] \subseteq {"SYN_SENT", "ESTABLISHED"}
      /\ asked["server"] \subseteq {"SYN_RECEIVED", "ESTABLISHED"}
      /\ \A to \in asked["client"] : IsValid(client.state, to)
      /\ "ESTABLISHED" \in asked["server"] => server.state = "SYN_RECEIVED"
      /\ client.state \in {"CLOSED", "SYN_SENT", "ESTABLISHED"}
      /\ server.state \in {"CLOSED", "LISTEN", "SYN_RECEIVED", "ESTABLISHED"}
  BY DEF StepsTypes, StepsTypeOK, ClientEnd, ServerEnd
<1>4. CASE \E to \in asked["client"] :
             /\ IsValid(client.state, to)
             /\ client' \in Conns /\ client'.state = to /\ SameNumbers(client', client)
             /\ Asks("client", asked["client"] \ {to}) /\ server' = server
  <2>1. PICK to \in asked["client"] :
             /\ IsValid(client.state, to)
             /\ client' \in Conns /\ client'.state = to /\ SameNumbers(client', client)
             /\ Asks("client", asked["client"] \ {to}) /\ server' = server
    BY <1>4
  <2>2. \/ client.state = "CLOSED" /\ to = "SYN_SENT"
        \/ client.state = "SYN_SENT" /\ to = "ESTABLISHED"
    BY <1>3, <2>1 DEF IsValid, validTransitions
  <2>3. "ESTABLISHED" \in asked["client"] => to = "ESTABLISHED"
    BY <1>3, <2>2 DEF IsValid, validTransitions
  <2>4. /\ asked'["client"] = asked["client"] \ {to} /\ asked'["server"] = asked["server"]
    BY <2>1
  <2>5. client'.state \in {"SYN_SENT", "ESTABLISHED"} /\ client'.state = to
    BY <2>1, <2>2
  <2>6. In(client, "client")' <=> In(client, "client")
    BY <2>1, <2>2, <2>3, <2>4
  <2>7. Opening' <=> Opening
    BY <2>1, <2>2, <2>4
  <2>8. (In(server, "server")' <=> In(server, "server")) /\ (Heard' <=> Heard)
    BY <2>1, <2>4
  <2> QED
    BY <1>1, <1>2, <1>3, <2>1, <2>5, <2>6, <2>7, <2>8
<1>5. CASE \E to \in asked["server"] :
             /\ \/ /\ IsValid(server.state, to)
                   /\ server' \in Conns /\ server'.state = to
                   /\ SameNumbers(server', server)
                \/ ~IsValid(server.state, to) /\ server' = server
             /\ Asks("server", asked["server"] \ {to}) /\ client' = client
  <2>1. PICK to \in asked["server"] :
             /\ \/ /\ IsValid(server.state, to)
                   /\ server' \in Conns /\ server'.state = to
                   /\ SameNumbers(server', server)
                \/ ~IsValid(server.state, to) /\ server' = server
             /\ Asks("server", asked["server"] \ {to}) /\ client' = client
    BY <1>5
  <2>2. \/ server.state = "LISTEN" /\ to = "SYN_RECEIVED" /\ server'.state = to
        \/ server.state = "SYN_RECEIVED" /\ to = "ESTABLISHED" /\ server'.state = to
        \/ to = "SYN_RECEIVED" /\ server' = server
    BY <1>3, <2>1 DEF IsValid, validTransitions
  <2>3. /\ asked'["server"] = asked["server"] \ {to} /\ asked'["client"] = asked["client"]
    BY <2>1
  <2>4. SameNumbers(server', server)
    BY <1>2, <2>1
  <2>5. In(server, "server")' <=> In(server, "server")
    BY <1>3, <2>2, <2>3
  <2>6. (Heard' <=> Heard)
        /\ server'.state \in {"CLOSED", "LISTEN", "SYN_RECEIVED", "ESTABLISHED"}
    BY <1>3, <2>2
  <2>7. (In(client, "client")' <=> In(client, "client")) /\ (Opening' <=> Opening)
    BY <2>1, <2>3
  <2> QED
    BY <1>1, <1>2, <1>3, <2>1, <2>4, <2>5, <2>6, <2>7
<1> QED
  BY <1>4, <1>5, FinishEffect

LEMMA FinishPreserves ==
  ASSUME StepsInv, FinishHandler
  PROVE  AnsweredOnce' /\ ClientEnd' /\ ServerEnd' /\ NoLaterStep' /\ ParameterEnds'
<1> USE DEF StepsInv, SameNumbers
<1>1. /\ UNCHANGED <<wire, clientISNs, serverISNs, carried>>
      /\ SameNumbers(client', client) /\ SameNumbers(server', server)
      /\ client'.state \in {"CLOSED", "SYN_SENT", "ESTABLISHED"}
      /\ client'.state = "CLOSED" => client.state = "CLOSED"
      /\ server'.state \in {"CLOSED", "LISTEN", "SYN_RECEIVED", "ESTABLISHED"}
      /\ (In(client, "client")' <=> In(client, "client"))
      /\ (In(server, "server")' <=> In(server, "server"))
      /\ (Opening' <=> Opening) /\ (Heard' <=> Heard)
  BY FinishKeeps
<1>2. SYNs' = SYNs /\ SYNACKs' = SYNACKs /\ ACKs' = ACKs
  BY <1>1 DEF SYNs, SYNACKs, ACKs
<1>3. WireInv'
  BY <1>1, <1>2 DEF AnsweredOnce, WireInv
<1>4. AnsweredOnce'
  BY <1>1, <1>2, <1>3 DEF AnsweredOnce
<1>5. ClientEnd'
  BY <1>1, <1>2 DEF ClientEnd
<1>6. ServerEnd'
  BY <1>1, <1>2 DEF ServerEnd
<1>7. NoLaterStep'
  BY <1>1, <1>2 DEF NoLaterStep
<1>8. ParameterEnds'
  BY <1>1, <1>2 DEF ParameterEnds
<1> QED
  BY <1>4, <1>5, <1>6, <1>7, <1>8

LEMMA RestartKeeps ==
  ASSUME StepsInv, NEW h \in Hosts, Restart(h)
  PROVE  AnsweredOnce' /\ ClientEnd' /\ ServerEnd' /\ NoLaterStep' /\ ParameterEnds'
<1> USE DEF StepsInv, In, Opening, Heard
<1>1. /\ UNCHANGED <<wire, clientISNs, serverISNs, carried>>
      /\ Asks(h, {})
      /\ \/ /\ h = "client" /\ client' \in Conns /\ client'.state = "CLOSED"
            /\ client'.mss = ClientMSS /\ client'.rcvWND = ClientWindow
            /\ server' = server
         \/ /\ h = "server" /\ server' \in Conns /\ server'.state = "CLOSED"
            /\ server'.mss = ServerMSS /\ server'.rcvWND = ServerWindow
            /\ client' = client
  BY RestartEffect
<1>2. /\ h = "client" => asked'["client"] = {} /\ asked'["server"] = asked["server"]
      /\ h = "server" => asked'["server"] = {} /\ asked'["client"] = asked["client"]
  BY <1>1 DEF Asks, Hosts
<1>3. SYNs' = SYNs /\ SYNACKs' = SYNACKs /\ ACKs' = ACKs
  BY <1>1 DEF SYNs, SYNACKs, ACKs
<1>4. WireInv'
  BY <1>1, <1>3 DEF AnsweredOnce, WireInv
<1>5. AnsweredOnce'
  BY <1>1, <1>3, <1>4 DEF AnsweredOnce
<1>6. ClientEnd'
  BY <1>1, <1>2, <1>3 DEF ClientEnd
<1>7. ServerEnd'
  BY <1>1, <1>2, <1>3 DEF ServerEnd
<1>8. NoLaterStep'
  BY <1>1, <1>2, <1>3 DEF NoLaterStep
<1>9. ParameterEnds'
  BY <1>1, <1>2, <1>3 DEF ParameterEnds
<1> QED
  BY <1>5, <1>6, <1>7, <1>8, <1>9

LEMMA DropKeeps ==
  ASSUME StepsInv, NEW seg \in wire, Drop(seg)
  PROVE  AnsweredOnce' /\ ClientEnd' /\ ServerEnd' /\ NoLaterStep' /\ ParameterEnds'
<1>1. /\ UNCHANGED <<client, server, wire, clientISNs, serverISNs, asked>>
      /\ carried' = carried \cup {seg}
  BY DEF Drop, Carry, vars
<1>2. SYNs' = SYNs /\ SYNACKs' = SYNACKs /\ ACKs' = ACKs
  BY <1>1 DEF SYNs, SYNACKs, ACKs
<1>3. AnsweredOnce'
  BY <1>1, <1>2 DEF StepsInv, AnsweredOnce, WireInv
<1>4. ClientEnd' /\ ServerEnd' /\ NoLaterStep' /\ ParameterEnds'
  BY <1>1, <1>2 DEF StepsInv, ClientEnd, ServerEnd, NoLaterStep, ParameterEnds, In,
                    Opening, Heard
<1> QED
  BY <1>3, <1>4

LEMMA StepsInvariance ==
  ASSUME ~MayDuplicate
  PROVE  SpecSteps => []StepsInv
<1>1. InitSteps => StepsInv
  <2> SUFFICES ASSUME InitSteps PROVE StepsInv
    OBVIOUS
  <2>1. IInv
    BY InitIInv DEF InitSteps
  <2>2. wire = {} /\ client.state = "CLOSED" /\ server.state = "CLOSED"
    BY DEF InitSteps, Init, NewTCPConn
  <2>3. SYNs = {} /\ SYNACKs = {} /\ ACKs = {}
    BY <2>2 DEF SYNs, SYNACKs, ACKs
  <2>4. /\ asked \in [Hosts -> SUBSET States] /\ asked["client"] = {}
        /\ asked["server"] = {} /\ carried = {}
    BY DEF InitSteps, Hosts
  <2>5. StepsTypes
    BY <2>1, <2>2, <2>4 DEF IInv, StepsTypes, StepsTypeOK
  <2>6. AnsweredOnce
    BY <2>1, <2>3 DEF IInv, AnsweredOnce
  <2>7. ClientEnd /\ ServerEnd /\ NoLaterStep
    BY <2>2, <2>3, <2>4 DEF ClientEnd, ServerEnd, NoLaterStep, In, Opening, Heard
  <2>8. ParameterEnds
    BY <2>1, <2>2, <2>3, <2>4 DEF IInv, ParameterInv, ParameterEnds, In, Heard
  <2> QED
    BY <2>5, <2>6, <2>7, <2>8 DEF StepsInv
<1>2. StepsTypes' /\ StepsInv /\ [NextSteps]_allVars => StepsInv'
  <2> SUFFICES ASSUME StepsTypes', StepsInv, [NextSteps]_allVars PROVE StepsInv'
    OBVIOUS
  <2>1. CASE UNCHANGED allVars
    <3>1. /\ UNCHANGED <<client, server, wire, clientISNs, serverISNs, asked, carried>>
          /\ SYNs' = SYNs /\ SYNACKs' = SYNACKs /\ ACKs' = ACKs
      BY <2>1 DEF allVars, vars, stepVars, SYNs, SYNACKs, ACKs
    <3> QED
      BY <3>1 DEF StepsInv, AnsweredOnce, WireInv, ClientEnd, ServerEnd, NoLaterStep,
                  ParameterEnds, In, Opening, Heard
  <2>2. CASE NextSteps
    BY <2>2, StartSYNPreserves, StartOnSYNPreserves, StartOnSYNACKPreserves,
       StartOnACKPreserves, FinishPreserves, RestartKeeps, DropKeeps
       DEF NextSteps, Hand, StepsInv
  <2> QED
    BY <2>1, <2>2
<1> QED
  BY <1>1, <1>2, TypesInvariance, PTL DEF SpecSteps
-----------------------------------------------------------------------------
(* Agreement.                                                              *)

\* An end that is in a session has not gone back to CLOSED.
LEMMA InIsOpen ==
  ASSUME StepsInv
  PROVE  /\ In(client, "client") => Opening
         /\ In(server, "server") => Heard
<1>1. In(client, "client") => client.state # "CLOSED"
  BY DEF In, StepsInv, StepsTypes, StepsTypeOK, IsValid, validTransitions
<1>2. In(server, "server") => server.state # "CLOSED"
  BY DEF In, StepsInv, StepsTypes, StepsTypeOK
<1> QED
  BY <1>1, <1>2 DEF Opening, Heard

\* An ACK of the server's SYN-ACK comes from the client whose SYN it answered.
LEMMA AcknowledgedEnd ==
  ASSUME StepsInv, Heard, NEW a \in ACKs, a.ack = server.sndNXT
  PROVE  a.seq = server.rcvNXT
<1> USE DEF StepsInv
<1>1. PICK m \in SYNACKs : a.seq = m.ack /\ a.ack = Succ(m.seq)
  BY DEF AnsweredOnce
<1>2. m.seq \in Seqs /\ server.sndISN \in Seqs
  BY DEF AnsweredOnce, WireInv, StepsTypes, StepsTypeOK, TypeOK, Conns
<1>3. m.seq = server.sndISN
  BY <1>1, <1>2, SuccInjective DEF ServerEnd
<1> QED
  BY <1>1, <1>3 DEF ServerEnd

LEMMA EndsAgree ==
  ASSUME StepsInv, In(client, "client"), In(server, "server")
  PROVE  /\ client.rcvNXT = server.sndNXT /\ server.rcvNXT = client.sndNXT
         /\ client.sndNXT = Succ(client.sndISN) /\ server.sndNXT = Succ(server.sndISN)
         /\ client.sndUNA = client.sndNXT /\ server.sndUNA = server.sndNXT
<1> USE DEF StepsInv
<1>1. Opening /\ Heard
  BY InIsOpen
<1>2. PICK a \in ACKs : a.ack = server.sndNXT
  BY DEF ServerEnd
<1>3. PICK b \in ACKs : b.seq = client.sndNXT /\ b.ack = client.rcvNXT
  BY DEF ClientEnd
<1>4. a.seq = client.sndNXT
  <2>1. \E m \in SYNACKs : b.seq = m.ack
    BY DEF AnsweredOnce
  <2> QED
    BY <1>1, <1>2, <1>3, <2>1 DEF NoLaterStep
<1>5. client.rcvNXT = server.sndNXT
  BY <1>2, <1>3, <1>4 DEF AnsweredOnce, WireInv
<1>6. server.rcvNXT = client.sndNXT
  BY <1>1, <1>2, <1>4, AcknowledgedEnd
<1> QED
  BY <1>1, <1>5, <1>6 DEF ClientEnd, ServerEnd

(* On a wire that repeats nothing two established ends agree on both       *)
(* initial sequence numbers, although their handlers overlap and have no   *)
(* lock for the fields they change (handshake.go:20-121).                  *)
THEOREM StepsAgreeOnSequences ==
  ASSUME ~MayDuplicate
  PROVE  SpecSteps => []SequenceAgreement
<1>1. StepsInv => SequenceAgreement
  BY EndsAgree DEF SequenceAgreement, BothEstablished, In
<1> QED
  BY <1>1, StepsInvariance, PTL

(* There they also agree on the MSS and the windows (conn.go:131-140;      *)
(* handshake.go:60-118).                                                   *)
THEOREM StepsAgreeOnParameters ==
  ASSUME ~MayDuplicate
  PROVE  SpecSteps => []ParameterAgreement
<1>1. StepsInv => ParameterAgreement
  BY DEF StepsInv, ParameterEnds, ParameterAgreement, BothEstablished, In, Heard
<1> QED
  BY <1>1, StepsInvariance, PTL

-----------------------------------------------------------------------------
(* The overlapping handlers implement Session.                             *)

\* A step that changes neither end's session nor sends an ACK.
LEMMA SameSessions ==
  ASSUME ACKs' = ACKs,
         In(client, "client")' <=> In(client, "client"),
         In(server, "server")' <=> In(server, "server"),
         In(client, "client") => ClientSession' = ClientSession,
         In(server, "server") => ServerSession' = ServerSession
  PROVE  UNCHANGED StepSessions!vars
<1>1. Completed' = Completed
  BY DEF Completed
<1> QED
  BY <1>1 DEF StepSessions!vars

LEMMA SynackOpensSession ==
  ASSUME ~MayDuplicate, StepsInv, NEW seg \in SYNACKs, StartOnSYNACK(seg)
  PROVE  [StepSessions!Next]_(StepSessions!vars)
<1> USE DEF StepsInv
<1>1. /\ client.state = "SYN_SENT" /\ seg.ack = client.sndNXT
      /\ client' \in Conns /\ client'.state = "SYN_SENT"
      /\ client'.sndNXT = client.sndNXT
      /\ \/ /\ wire' = wire \cup {ACK(client')}
            /\ Asks("client", asked["client"] \cup {"ESTABLISHED"})
         \/ wire' = wire /\ asked' = asked
      /\ server' = server
  BY StartOnSYNACKEffect
<1>2. ~In(client, "client") /\ \A a \in ACKs : a.seq # client.sndNXT
  BY StartOnSYNACKPreserves
<1>3. asked'["server"] = asked["server"]
  BY <1>1 DEF Asks, Hosts
<1>4. (In(server, "server")' <=> In(server, "server")) /\ ServerSession' = ServerSession
  BY <1>1, <1>3 DEF In, ServerSession
<1>5. CASE wire' = wire /\ asked' = asked
  <2>1. ACKs' = ACKs /\ ~In(client, "client")'
    BY <1>1, <1>2, <1>5 DEF ACKs, In
  <2> QED
    BY <1>2, <1>4, <2>1, SameSessions
<1>6. CASE wire' = wire \cup {ACK(client')}
           /\ Asks("client", asked["client"] \cup {"ESTABLISHED"})
  <2> DEFINE x == <<client.sndNXT, client'.rcvNXT>>
  <2>1. x \in Seqs \X Seqs
    BY <1>1 DEF StepsTypes, StepsTypeOK, TypeOK, Conns
  <2>2. ACKs' = ACKs \cup {ACK(client')}
    BY <1>6 DEF ACKs, ACK, Segment
  <2>3. Completed' = Completed \cup {x}
    <3>1. <<ACK(client').seq, ACK(client').ack>> = x
      BY <1>1 DEF ACK, Segment
    <3>2. Completed' = {<<a.seq, a.ack>> : a \in ACKs'}
      BY DEF Completed
    <3> HIDE DEF x
    <3> QED
      BY <2>2, <3>1, <3>2 DEF Completed
  <2>4. x \notin Completed
    BY <1>2 DEF Completed
  \* Otherwise the server is in a session of an earlier incarnation, and seg
  \* could not be on the wire.
  <2>5. ~In(server, "server")
    <3> SUFFICES ASSUME In(server, "server") PROVE FALSE
      OBVIOUS
    <3>1. PICK a \in ACKs : a.ack = server.sndNXT
      BY DEF ServerEnd
    <3>2. Heard /\ Opening
      BY <1>1, InIsOpen DEF Opening
    <3> QED
      BY <1>1, <1>2, <3>1, <3>2 DEF NoLaterStep
  <2>6. In(client, "client")' /\ ClientSession' = x
    BY <1>1, <1>6 DEF In, Asks, ClientSession
  <2>7. StepSessions!ClientOpens(x)
    BY <1>2, <1>4, <2>3, <2>4, <2>5, <2>6 DEF StepSessions!ClientOpens
  <2> QED
    BY <2>1, <2>7 DEF StepSessions!Next
<1> QED
  BY <1>1, <1>5, <1>6

LEMMA AckOpensSession ==
  ASSUME StepsInv, StepsInv', NEW seg \in ACKs, StartOnACK(seg)
  PROVE  [StepSessions!Next]_(StepSessions!vars)
<1>1. /\ server.state = "SYN_RECEIVED" /\ seg.ack = server.sndNXT
      /\ server'.sndNXT = server.sndNXT /\ server'.rcvNXT = server.rcvNXT
      /\ Asks("server", asked["server"] \cup {"ESTABLISHED"})
      /\ UNCHANGED <<client, wire>>
  BY StartOnACKEffect DEF StepsInv
<1>2. asked'["client"] = asked["client"] /\ ACKs' = ACKs
  BY <1>1 DEF Asks, Hosts, ACKs
<1>3. /\ (In(client, "client")' <=> In(client, "client")) /\ In(server, "server")'
      /\ ClientSession' = ClientSession /\ ServerSession' = ServerSession
  BY <1>1, <1>2 DEF In, Asks, ClientSession, ServerSession
<1>4. CASE In(server, "server")
  BY <1>2, <1>3, <1>4, SameSessions
<1>5. CASE ~In(server, "server")
  <2> DEFINE x == <<server.rcvNXT, server.sndNXT>>
  <2>1. x \in Seqs \X Seqs /\ ServerSession = x
    BY DEF StepsInv, StepsTypes, StepsTypeOK, TypeOK, Conns, ServerSession
  <2>2. seg.seq = server.rcvNXT
    BY <1>1, AcknowledgedEnd DEF Heard
  <2>3. x \in Completed /\ Completed' = Completed
    BY <1>1, <1>2, <2>2 DEF Completed
  <2>4. In(client, "client") => ClientSession = x
    <3> SUFFICES ASSUME In(client, "client") PROVE ClientSession = x
      OBVIOUS
    <3>1. (StepsInv /\ In(client, "client") /\ In(server, "server")
             => /\ client.rcvNXT = server.sndNXT /\ server.rcvNXT = client.sndNXT)'
      BY EndsAgree, PTL
    <3>2. client'.rcvNXT = server'.sndNXT /\ server'.rcvNXT = client'.sndNXT
      BY <1>3, <3>1
    <3> QED
      BY <1>1, <3>2 DEF ClientSession
  <2> HIDE DEF x
  <2>5. StepSessions!ServerOpens(x)
    BY <1>3, <1>5, <2>1, <2>3, <2>4 DEF StepSessions!ServerOpens
  <2> QED
    BY <2>1, <2>5 DEF StepSessions!Next
<1> QED
  BY <1>4, <1>5

LEMMA OtherStepsKeepSessions ==
  ASSUME StepsInv, \/ StartSYN
                   \/ \E seg \in SYNs : StartOnSYN(seg)
                   \/ FinishHandler
                   \/ \E seg \in wire : Drop(seg)
  PROVE  UNCHANGED StepSessions!vars
<1> USE DEF StepsInv
<1>1. CASE StartSYN
  <2>1. /\ client.state = "CLOSED" /\ asked["client"] = {} /\ client'.state = "CLOSED"
        /\ \/ wire' = wire \cup {SYN(client')} /\ Asks("client", {"SYN_SENT"})
           \/ wire' = wire /\ asked' = asked
        /\ server' = server
    BY <1>1, StartSYNEffect
  <2>2. asked'["server"] = asked["server"] /\ "ESTABLISHED" \notin asked'["client"]
    BY <2>1 DEF Asks, Hosts
  <2>3. ACKs' = ACKs
    BY <2>1 DEF ACKs, SYN, Segment
  <2>4. ~In(client, "client") /\ ~In(client, "client")'
    BY <2>1, <2>2 DEF In
  <2>5. (In(server, "server")' <=> In(server, "server")) /\ ServerSession' = ServerSession
    BY <2>1, <2>2 DEF In, ServerSession
  <2> QED
    BY <2>3, <2>4, <2>5, SameSessions
<1>2. ASSUME NEW seg \in SYNs, StartOnSYN(seg) PROVE UNCHANGED StepSessions!vars
  <2>1. /\ server.state \in {"CLOSED", "LISTEN"} /\ server'.state = "LISTEN"
        /\ \/ /\ wire' = wire \cup {SYNACK(server')}
              /\ Asks("server", asked["server"] \cup {"SYN_RECEIVED"})
           \/ wire' = wire /\ asked' = asked
        /\ client' = client
    BY <1>2, StartOnSYNEffect
  <2>2. /\ asked'["client"] = asked["client"]
        /\ "ESTABLISHED" \notin asked["server"] /\ "ESTABLISHED" \notin asked'["server"]
    BY <2>1 DEF Asks, Hosts, StepsTypes, StepsTypeOK
  <2>3. ACKs' = ACKs
    BY <2>1 DEF ACKs, SYNACK, Segment
  <2>4. ~In(server, "server") /\ ~In(server, "server")'
    BY <2>1, <2>2 DEF In
  <2>5. (In(client, "client")' <=> In(client, "client")) /\ ClientSession' = ClientSession
    BY <2>1, <2>2 DEF In, ClientSession
  <2> QED
    BY <2>3, <2>4, <2>5, SameSessions
<1>3. CASE FinishHandler
  <2>1. /\ wire' = wire
        /\ SameNumbers(client', client) /\ SameNumbers(server', server)
        /\ (In(client, "client")' <=> In(client, "client"))
        /\ (In(server, "server")' <=> In(server, "server"))
    BY <1>3, FinishKeeps
  <2>2. ACKs' = ACKs /\ ClientSession' = ClientSession /\ ServerSession' = ServerSession
    BY <2>1 DEF ACKs, ClientSession, ServerSession, SameNumbers
  <2> QED
    BY <2>1, <2>2, SameSessions
<1>4. ASSUME NEW seg \in wire, Drop(seg) PROVE UNCHANGED StepSessions!vars
  <2>1. UNCHANGED <<client, server, wire, asked>>
    BY <1>4 DEF Drop, vars
  <2>2. ACKs' = ACKs /\ ClientSession' = ClientSession /\ ServerSession' = ServerSession
    BY <2>1 DEF ACKs, ClientSession, ServerSession
  <2>3. /\ (In(client, "client")' <=> In(client, "client"))
        /\ (In(server, "server")' <=> In(server, "server"))
    BY <2>1 DEF In
  <2> QED
    BY <2>2, <2>3, SameSessions
<1> QED
  BY <1>1, <1>2, <1>3, <1>4

LEMMA RestartCloses ==
  ASSUME StepsInv, NEW h \in Hosts, Restart(h)
  PROVE  StepSessions!Next
<1> USE DEF StepsInv
<1>1. /\ wire' = wire /\ Asks(h, {})
      /\ \/ h = "client" /\ client'.state = "CLOSED" /\ server' = server
         \/ h = "server" /\ server'.state = "CLOSED" /\ client' = client
  BY RestartEffect
<1>2. Completed' = Completed
  BY <1>1 DEF Completed, ACKs
<1>3. CASE h = "client"
  <2>1. /\ ~In(client, "client")' /\ (In(server, "server")' <=> In(server, "server"))
        /\ ServerSession' = ServerSession
    BY <1>1, <1>3 DEF In, Asks, Hosts, ServerSession
  <2>2. StepSessions!ClientCloses
    BY <1>2, <2>1 DEF StepSessions!ClientCloses
  <2> QED
    BY <2>2 DEF StepSessions!Next
<1>4. CASE h = "server"
  <2>1. /\ ~In(server, "server")' /\ (In(client, "client")' <=> In(client, "client"))
        /\ ClientSession' = ClientSession
    BY <1>1, <1>4 DEF In, Asks, Hosts, ClientSession
  <2>2. StepSessions!ServerCloses
    BY <1>2, <2>1 DEF StepSessions!ServerCloses
  <2> QED
    BY <2>2 DEF StepSessions!Next
<1> QED
  BY <1>3, <1>4 DEF Hosts

(* On a wire that repeats nothing the overlapping handlers open and close  *)
(* sessions as Session allows: an end is in its session from the first     *)
(* step of the handler that establishes it.                                *)
THEOREM StepsRefinement ==
  ASSUME ~MayDuplicate
  PROVE  SpecSteps => StepsImplementSession
<1>1. InitSteps => StepSessions!Init
  <2> SUFFICES ASSUME InitSteps PROVE StepSessions!Init
    OBVIOUS
  <2>1. ~In(client, "client") /\ ~In(server, "server") /\ Completed = {}
    BY DEF InitSteps, Init, NewTCPConn, In, Hosts, Completed, ACKs
  <2> QED
    BY <2>1 DEF StepSessions!Init
<1>2. StepsInv /\ StepsInv' /\ [NextSteps]_allVars
        => [StepSessions!Next]_(StepSessions!vars)
  <2> SUFFICES ASSUME StepsInv, StepsInv', [NextSteps]_allVars
               PROVE  [StepSessions!Next]_(StepSessions!vars)
    OBVIOUS
  <2>1. CASE UNCHANGED allVars
    <3>1. UNCHANGED <<client, server, wire, asked>>
      BY <2>1 DEF allVars, vars, stepVars
    <3>2. ACKs' = ACKs /\ ClientSession' = ClientSession /\ ServerSession' = ServerSession
      BY <3>1 DEF ACKs, ClientSession, ServerSession
    <3>3. /\ (In(client, "client")' <=> In(client, "client"))
          /\ (In(server, "server")' <=> In(server, "server"))
      BY <3>1 DEF In
    <3> QED
      BY <3>2, <3>3, SameSessions
  <2>2. CASE NextSteps
    BY <2>2, SynackOpensSession, AckOpensSession, OtherStepsKeepSessions, RestartCloses
       DEF NextSteps, Hand
  <2> QED
    BY <2>1, <2>2
<1> QED
  BY <1>1, <1>2, StepsInvariance, PTL
     DEF SpecSteps, StepsImplementSession, StepSessions!Spec
=============================================================================

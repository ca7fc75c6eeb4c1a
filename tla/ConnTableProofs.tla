-------------------------- MODULE ConnTableProofs ---------------------------
(***************************************************************************)
(* Proofs about ConnTable and ConnTableTickets, for any number of callers, *)
(* any range of ports and any table.                                       *)
(***************************************************************************)
EXTENDS ConnTableTickets, TLAPS

(* One lemma for the types, with a step for each action.                   *)
LEMMA TypeInit == Init => TypeOK
<1> SUFFICES ASSUME Init PROVE TypeOK
  OBVIOUS
<1>1. Keys = {}
  BY DEF Init, Keys
<1> QED
  BY <1>1, PortsAssumption, BoundAssumption DEF Init, TypeOK

LEMMA TypeNext == TypeOK /\ [Next]_vars => TypeOK'
<1> SUFFICES ASSUME TypeOK, [Next]_vars PROVE TypeOK'
  OBVIOUS
<1> USE PortsAssumption, BoundAssumption DEF TypeOK
<1>1. ASSUME NEW c \in Callers, Call(c) PROVE TypeOK'
  BY <1>1 DEF Call, Goto, tableVars, Keys
<1>2. ASSUME NEW c \in Callers, Add(c) PROVE TypeOK'
  BY <1>2 DEF Add, PastEnd, Goto, tableVars, Keys, EphemeralPorts
<1>3. ASSUME NEW c \in Callers, Wrap(c) PROVE TypeOK'
  BY <1>3 DEF Wrap, CompareAndSwap, Goto, tableVars, Keys
<1>4. ASSUME NEW c \in Callers, Scan(c) PROVE TypeOK'
  BY <1>4 DEF Scan, Goto, tableVars, Keys
<1>5. ASSUME NEW c \in Callers, Register(c) PROVE TypeOK'
  BY <1>5 DEF Register, Goto, ConnKey, Keys, KeyTaken
<1>6. ASSUME NEW c \in Callers, Remove(c) PROVE TypeOK'
  BY <1>6 DEF Remove, Goto, Keys
<1>7. ASSUME NEW p \in ListenPorts, RegisterListener(p) \/ RemoveListener(p)
      PROVE  TypeOK'
  BY <1>7 DEF RegisterListener, RemoveListener, callerVars, Keys
<1>8. CASE UNCHANGED vars
  BY <1>8 DEF vars, tableVars, callerVars, Keys
<1> QED
  BY <1>1, <1>2, <1>3, <1>4, <1>5, <1>6, <1>7, <1>8 DEF Next, EphemeralPort

(* EphemeralPort hands out ports of the range only, and every connection   *)
(* in the table is keyed by the local address and such a port.             *)
THEOREM TypeCorrect == Spec => []TypeOK
BY TypeInit, TypeNext, PTL DEF Spec

-----------------------------------------------------------------------------
(* TableOwnership is inductive given the types.                            *)

LEMMA OwnershipNext ==
  TypeOK /\ TableOwnership /\ [Next]_vars => TableOwnership'
<1> SUFFICES ASSUME TypeOK, TableOwnership, [Next]_vars PROVE TableOwnership'
  OBVIOUS
<1>1. ASSUME NEW c \in Callers, Register(c) PROVE TableOwnership'
  <2>1. PICK r \in Remotes :
          LET k == ConnKey(port[c], r)
          IN IF KeyTaken(k)
               THEN Goto(c, "idle") /\ UNCHANGED <<conns, key>>
               ELSE /\ conns' = [x \in Keys \cup {k} |-> IF x = k THEN c ELSE conns[x]]
                    /\ key' = [key EXCEPT ![c] = k]
                    /\ Goto(c, "open")
    BY <1>1 DEF Register
  <2> DEFINE k == ConnKey(port[c], r)
  <2>2. /\ pc[c] = "got" /\ port' = port /\ k.SrcPort = port[c]
        /\ \A x \in Keys : conns[x] # c
    BY <1>1 DEF Register, ConnKey, TableOwnership
  <2> HIDE DEF k
  <2>3. CASE k \in Keys
    BY <2>1, <2>2, <2>3 DEF k, KeyTaken, Goto, TypeOK, TableOwnership, Keys
  <2>4. CASE k \notin Keys
    <3>1. /\ Keys' = Keys \cup {k} /\ conns'[k] = c
          /\ \A x \in Keys : conns'[x] = conns[x]
      BY <2>1, <2>4 DEF k, KeyTaken, Keys
    <3>2. /\ key'[c] = k /\ pc'[c] = "open"
          /\ \A d \in Callers \ {c} : key'[d] = key[d] /\ pc'[d] = pc[d]
      BY <2>1, <2>4 DEF k, KeyTaken, Goto, TypeOK
    <3> QED
      BY <2>2, <2>4, <3>1, <3>2 DEF TypeOK, TableOwnership
  <2> QED
    BY <2>3, <2>4
<1>2. ASSUME NEW c \in Callers, Remove(c) PROVE TableOwnership'
  <2>1. /\ Keys' = Keys \ {key[c]} /\ key' = key /\ port' = port
        /\ \A x \in Keys' : conns'[x] = conns[x]
    BY <1>2 DEF Remove, Keys
  <2>2. /\ pc[c] = "open" /\ pc'[c] = "idle"
        /\ \A d \in Callers \ {c} : pc'[d] = pc[d]
    BY <1>2 DEF Remove, Goto, TypeOK
  <2> QED
    BY <2>1, <2>2 DEF TypeOK, TableOwnership
<1>3. ASSUME NEW c \in Callers, Call(c) \/ Wrap(c)
      PROVE  TableOwnership'
  BY <1>3 DEF Call, Wrap, Goto, TypeOK, TableOwnership, Keys, tableVars
<1>4. ASSUME NEW c \in Callers, Add(c) \/ Scan(c)
      PROVE  TableOwnership'
  <2>1. /\ pc[c] \notin {"open"} /\ pc'[c] # "open" /\ conns' = conns /\ key' = key
        /\ \A d \in Callers \ {c} : pc'[d] = pc[d] /\ port'[d] = port[d]
    BY <1>4 DEF Add, PastEnd, Scan, Goto, TypeOK, tableVars
  <2> QED
    BY <2>1 DEF TypeOK, TableOwnership, Keys
<1>5. ASSUME NEW p \in ListenPorts, RegisterListener(p) \/ RemoveListener(p)
      PROVE  TableOwnership'
  BY <1>5 DEF RegisterListener, RemoveListener, callerVars, Keys, TableOwnership
<1>6. CASE UNCHANGED vars
  BY <1>6 DEF vars, tableVars, callerVars, Keys, TableOwnership
<1> QED
  BY <1>1, <1>2, <1>3, <1>4, <1>5, <1>6 DEF Next, EphemeralPort

(* Register and Remove keep the table equal to the set of connections that *)
(* their callers have open.                                                *)
THEOREM OwnershipHolds == Spec => []TableOwnership
<1>1. Init => TableOwnership
  <2> SUFFICES ASSUME Init PROVE TableOwnership
    OBVIOUS
  <2>1. Keys = {}
    BY DEF Init, Keys
  <2> QED
    BY <2>1 DEF Init, TableOwnership
<1> QED
  BY <1>1, OwnershipNext, TypeCorrect, PTL DEF Spec

-----------------------------------------------------------------------------
(* LapApart, from TicketInv: a caller that is about to be given the port   *)
(* another one has finds the counter at that port, which is behind where   *)
(* the other one left it, so the counter went around.                      *)

TicketsInv == TypeOK /\ TicketInv /\ LapApart

LEMMA TypeNextTickets == TypeOK /\ [NextTickets]_allVars => TypeOK'
<1>1. ASSUME NEW c \in Callers, AddTicket(c) PROVE Next
  BY <1>1 DEF AddTicket, Next, EphemeralPort
<1>2. OtherStep => Next
  BY DEF OtherStep, Next, EphemeralPort
<1>3. UNCHANGED allVars => UNCHANGED vars
  BY DEF allVars
<1> QED
  BY <1>1, <1>2, <1>3, TypeNext DEF NextTickets

LEMMA TicketsNext == TicketsInv /\ [NextTickets]_allVars => TicketsInv'
<1> SUFFICES ASSUME TicketsInv, [NextTickets]_allVars PROVE TicketsInv'
  OBVIOUS
<1> USE PortsAssumption, BoundAssumption
<1>0. TypeOK'
  BY TypeNextTickets DEF TicketsInv
<1> SUFFICES TicketInv' /\ LapApart'
  BY <1>0 DEF TicketsInv
<1>1. ASSUME NEW c \in Callers, AddTicket(c) PROVE TicketInv' /\ LapApart'
  <2>1. /\ adds' = adds + 1 /\ ephemeralPort' = ephemeralPort + 1
        /\ port'[c] = ephemeralPort /\ ticket'[c] = adds + 1
        /\ ticket' \in [Callers -> Nat]
        /\ pc'[c] = IF ephemeralPort > MaxPort THEN "wrap" ELSE "scan"
        /\ \A d \in Callers \ {c} :
             port'[d] = port[d] /\ ticket'[d] = ticket[d] /\ pc'[d] = pc[d]
    BY <1>1 DEF AddTicket, Add, PastEnd, Goto, TicketsInv, TypeOK, TicketInv
  <2>2. /\ adds \in Nat /\ ephemeralPort \in Nat /\ ephemeralPort >= MinPort
        /\ \A d \in Callers :
             port[d] \in Nat /\ ticket[d] \in Nat /\ ticket[d] <= adds
    BY DEF TicketsInv, TypeOK, TicketInv
  <2>3. TicketInv'
    <3>1. ASSUME NEW d \in Callers, Has(d)' PROVE Progress(d)'
      <4>1. CASE d = c
        BY <2>1, <2>2, <4>1 DEF Progress
      <4>2. CASE d # c
        <5>1. Has(d) /\ Progress(d)
          BY <2>1, <3>1, <4>2 DEF Has, TicketsInv, TicketInv
        <5>2. port'[d] = port[d] /\ ticket'[d] = ticket[d]
          BY <2>1, <4>2
        <5> QED
          BY <2>1, <2>2, <5>1, <5>2 DEF Progress
      <4> QED
        BY <4>1, <4>2
    <3>2. ASSUME NEW d \in Callers PROVE ticket'[d] <= adds'
      BY <2>1, <2>2
    <3> QED
      BY <2>1, <2>2, <3>1, <3>2 DEF TicketInv
  \* The other caller with c's new port is a lap behind.
  <2>4. ASSUME NEW d \in Callers \ {c}, Has(c)', Has(d)', port'[c] = port'[d]
        PROVE  ticket'[c] - ticket'[d] > MaxPort - MinPort
    <3>1. Has(d) /\ port[d] = ephemeralPort
      BY <2>1, <2>4 DEF Has
    <3>2. Progress(d)
      BY <3>1 DEF TicketsInv, TicketInv
    <3> QED
      BY <2>1, <2>2, <3>1, <3>2 DEF Progress
  <2>5. ASSUME NEW d \in Callers \ {c}, NEW e \in Callers \ {c}, d # e,
               Has(d)', Has(e)', port'[d] = port'[e]
        PROVE  \/ ticket'[d] - ticket'[e] > MaxPort - MinPort
               \/ ticket'[e] - ticket'[d] > MaxPort - MinPort
    BY <2>1, <2>5 DEF Has, TicketsInv, LapApart
  <2>6. LapApart'
    BY <2>4, <2>5 DEF LapApart
  <2> QED
    BY <2>3, <2>6
<1>2. ASSUME NEW c \in Callers, Wrap(c), UNCHANGED historyVars
      PROVE  TicketInv' /\ LapApart'
  <2>1. /\ port' = port /\ adds' = adds /\ ticket' = ticket
        /\ \A d \in Callers : Has(d)' = Has(d)
    BY <1>2 DEF Wrap, historyVars, Has, Goto, TicketsInv, TypeOK
  <2>2. /\ adds \in Nat /\ ephemeralPort \in Nat
        /\ port[c] \in Nat /\ port[c] > MaxPort
        /\ \A d \in Callers : Has(d) => port[d] \in MinPort .. MaxPort
        /\ \A d \in Callers : ticket[d] \in Nat
    BY <1>2 DEF Wrap, TicketsInv, TypeOK, TicketInv, Has, EphemeralPorts
  <2>3. \/ ephemeralPort' = ephemeralPort
        \/ ephemeralPort = port[c] + 1 /\ ephemeralPort' = MinPort + 1
    BY <1>2 DEF Wrap, CompareAndSwap
  <2>4. ASSUME NEW d \in Callers, Has(d) PROVE Progress(d)'
    <3>1. Progress(d)
      BY <2>4 DEF TicketsInv, TicketInv
    <3> QED
      BY <2>1, <2>2, <2>3, <2>4, <3>1 DEF Progress
  <2>5. TicketInv'
    BY <2>1, <2>4 DEF TicketsInv, TicketInv
  <2>6. LapApart'
    BY <2>1 DEF TicketsInv, LapApart
  <2> QED
    BY <2>5, <2>6
\* The other steps give no port and leave the counter alone.
<1>3. ASSUME NEW c \in Callers, UNCHANGED historyVars,
             Call(c) \/ Scan(c) \/ Register(c) \/ Remove(c)
      PROVE  TicketInv' /\ LapApart'
  <2>1. /\ ephemeralPort' = ephemeralPort /\ port' = port
        /\ adds' = adds /\ ticket' = ticket
        /\ \A d \in Callers : Has(d)' => Has(d)
    BY <1>3 DEF Call, Scan, Register, Remove, historyVars, Has, Goto, TicketsInv,
                TypeOK
  <2> QED
    BY <2>1 DEF TicketsInv, TicketInv, Progress, LapApart
<1>4. ASSUME NEW p \in ListenPorts, UNCHANGED historyVars,
             RegisterListener(p) \/ RemoveListener(p)
      PROVE  TicketInv' /\ LapApart'
  BY <1>4 DEF RegisterListener, RemoveListener, callerVars, historyVars, Has,
              TicketsInv, TicketInv, Progress, LapApart
<1>5. CASE UNCHANGED allVars
  <2>1. /\ ephemeralPort' = ephemeralPort /\ port' = port /\ pc' = pc
        /\ adds' = adds /\ ticket' = ticket
    BY <1>5 DEF allVars, vars, callerVars, historyVars
  <2> QED
    BY <2>1 DEF Has, TicketsInv, TicketInv, Progress, LapApart
<1>6. CASE NextTickets
  <2>1. CASE \E c \in Callers : AddTicket(c)
    BY <1>1, <2>1
  <2>2. CASE OtherStep /\ UNCHANGED historyVars
    BY <1>2, <1>3, <1>4, <2>2 DEF OtherStep
  <2> QED
    BY <1>6, <2>1, <2>2 DEF NextTickets
<1> QED
  BY <1>5, <1>6

(* EphemeralPort gives no port to two callers within one lap of the range, *)
(* with any number of callers racing to reset the counter.                 *)
THEOREM LapsApart == SpecTickets => []LapApart
<1>1. InitTickets => TicketsInv
  <2> SUFFICES ASSUME InitTickets PROVE TicketsInv
    OBVIOUS
  <2>1. TypeOK
    BY TypeInit DEF InitTickets
  <2>2. TicketInv /\ LapApart
    BY DEF InitTickets, Init, TicketInv, LapApart, Has
  <2> QED
    BY <2>1, <2>2 DEF TicketsInv
<1>2. TicketsInv => LapApart
  BY DEF TicketsInv
<1> QED
  BY <1>1, <1>2, TicketsNext, PTL DEF SpecTickets

-----------------------------------------------------------------------------
(* AttemptsBounded, from RoundInv: the ports that a caller tries           *)
(* undisturbed are those from where it began to the end of the range and   *)
(* then those from the start.                                              *)

Searching(c) == pc[c] \in {"add", "wrap", "scan"} /\ attempts[c] > 0

LEMMA RoundBounds ==
  ASSUME TypeOK, RoundInv, NEW c \in Callers, NEW p \in MinPort + 1 .. MaxPort,
         pc[c] \in {"add", "wrap", "scan"}, IsFree(p)
  PROVE  attempts[c] <= MaxPort - MinPort + 1
<1> USE PortsAssumption
<1>1. attempts[c] \in Nat /\ ephemeralPort \in Nat /\ port[c] \in Nat
  BY BoundAssumption DEF RoundInv, TypeOK
<1>2. CASE attempts[c] = 0
  BY <1>2
<1>3. CASE attempts[c] > 0
  <2>1. pc[c] # "add" => port[c] = ephemeralPort - 1
    BY <1>3 DEF RoundInv
  <2>2. CASE FirstRound(c, p)
    BY <1>1, <1>3, <2>1, <2>2 DEF FirstRound, Ahead
  <2>3. CASE SecondRound(c, p)
    BY <1>1, <1>3, <2>1, <2>3 DEF SecondRound, Ahead
  <2> QED
    BY <1>3, <2>2, <2>3 DEF RoundInv
<1> QED
  BY <1>1, <1>2, <1>3

LEMMA RoundNext == TypeOK /\ RoundInv /\ [NextTickets]_allVars => RoundInv'
<1> SUFFICES ASSUME TypeOK, RoundInv, [NextTickets]_allVars PROVE RoundInv'
  OBVIOUS
<1> USE PortsAssumption, BoundAssumption
<1>0. /\ attempts \in [Callers -> Nat] /\ ephemeralPort \in Nat /\ ephemeralPort >= MinPort
      /\ \A c \in Callers : port[c] \in Nat
  BY DEF TypeOK, RoundInv
<1>1. ASSUME NEW c \in Callers, AddTicket(c), Attempts(c, attempts[c] + 1)
      PROVE  RoundInv'
  <2>1. /\ pc[c] = "add" /\ ephemeralPort' = ephemeralPort + 1
        /\ port'[c] = ephemeralPort
        /\ pc'[c] = IF ephemeralPort > MaxPort THEN "wrap" ELSE "scan"
        /\ conns' = conns /\ listeners' = listeners
    BY <1>1 DEF AddTicket, Add, PastEnd, Goto, TypeOK, tableVars
  <2>2. /\ attempts' \in [Callers -> Nat] /\ attempts'[c] = attempts[c] + 1
        /\ \A d \in Callers \ {c} : attempts'[d] = 0
    BY <1>0, <1>1 DEF Attempts
  <2>3. ASSUME NEW p \in MinPort + 1 .. MaxPort, IsFree(p)'
        PROVE  (FirstRound(c, p) \/ SecondRound(c, p))'
    <3>1. IsFree(p)
      BY <2>1, <2>3 DEF IsFree, Keys
    <3>2. CASE attempts[c] = 0
      BY <1>0, <2>1, <2>2, <3>2 DEF FirstRound, Ahead
    <3>3. CASE attempts[c] > 0 /\ FirstRound(c, p)
      BY <1>0, <2>1, <2>2, <3>3 DEF FirstRound, Ahead
    <3>4. CASE attempts[c] > 0 /\ SecondRound(c, p)
      BY <1>0, <2>1, <2>2, <3>4 DEF SecondRound, Ahead
    <3> QED
      BY <1>0, <2>1, <3>1, <3>2, <3>3, <3>4 DEF RoundInv
  <2> QED
    BY <1>0, <2>1, <2>2, <2>3 DEF RoundInv
<1>2. ASSUME NEW c \in Callers, Wrap(c), Attempts(c, attempts[c]) PROVE RoundInv'
  <2>1. /\ pc[c] = "wrap" /\ port' = port /\ pc'[c] = "add"
        /\ ephemeralPort' = IF ephemeralPort = port[c] + 1 THEN MinPort + 1 ELSE ephemeralPort
        /\ conns' = conns /\ listeners' = listeners
        /\ port[c] > MaxPort
    BY <1>2 DEF Wrap, CompareAndSwap, Goto, TypeOK, tableVars
  <2>2. /\ attempts' \in [Callers -> Nat] /\ attempts'[c] = attempts[c]
        /\ \A d \in Callers \ {c} : attempts'[d] = 0
    BY <1>0, <1>2 DEF Attempts
  <2>3. ASSUME NEW p \in MinPort + 1 .. MaxPort, IsFree(p)', attempts[c] > 0
        PROVE  SecondRound(c, p)'
    <3>1. IsFree(p)
      BY <2>1, <2>3 DEF IsFree, Keys
    <3>2. port[c] = ephemeralPort - 1 /\ FirstRound(c, p)
      BY <2>1, <2>3, <3>1 DEF RoundInv, SecondRound
    <3> QED
      BY <1>0, <2>1, <2>2, <2>3, <3>2 DEF FirstRound, SecondRound, Ahead
  <2> QED
    BY <1>0, <2>1, <2>2, <2>3 DEF RoundInv
<1>3. ASSUME NEW c \in Callers, Scan(c), UNCHANGED attempts PROVE RoundInv'
  <2>1. /\ pc[c] = "scan" /\ UNCHANGED <<port, ephemeralPort, conns, listeners>>
        /\ pc'[c] = IF IsFree(port[c]) THEN "got" ELSE "add"
        /\ \A d \in Callers \ {c} : pc'[d] = pc[d]
    BY <1>3 DEF Scan, Goto, TypeOK, tableVars
  <2>2. ASSUME NEW d \in Callers, NEW p \in MinPort + 1 .. MaxPort, IsFree(p)', Searching(d)'
        PROVE  /\ pc'[d] # "add" => port'[d] = ephemeralPort' - 1
               /\ (FirstRound(d, p) \/ SecondRound(d, p))'
    <3>1. IsFree(p) /\ Searching(d)
      BY <1>3, <2>1, <2>2 DEF IsFree, Keys, Searching
    <3>2. /\ pc[d] # "add" => port[d] = ephemeralPort - 1
          /\ FirstRound(d, p) \/ SecondRound(d, p)
      BY <3>1 DEF RoundInv, Searching
    <3>3. CASE d = c
      <4>1. pc'[c] = "add" /\ p # port[c]
        BY <2>1, <2>2, <3>1, <3>3 DEF Searching
      <4> QED
        BY <1>3, <2>1, <3>2, <3>3, <4>1 DEF FirstRound, SecondRound, Ahead
    <3>4. CASE d # c
      BY <1>3, <2>1, <3>2, <3>4 DEF FirstRound, SecondRound, Ahead
    <3> QED
      BY <3>3, <3>4
  <2>3. ASSUME NEW d \in Callers, Searching(d)'
        PROVE  pc'[d] # "add" => port'[d] = ephemeralPort' - 1
    BY <1>3, <2>1, <2>3 DEF RoundInv, Searching
  <2> QED
    BY <1>0, <1>3, <2>2, <2>3 DEF RoundInv, Searching
<1>4. ASSUME NEW c \in Callers, Call(c), attempts' = [attempts EXCEPT ![c] = 0]
      PROVE  RoundInv'
  <2>1. /\ attempts' \in [Callers -> Nat] /\ attempts'[c] = 0
        /\ UNCHANGED <<port, ephemeralPort, conns, listeners>>
        /\ \A d \in Callers \ {c} : pc'[d] = pc[d] /\ attempts'[d] = attempts[d]
    BY <1>0, <1>4 DEF Call, Goto, TypeOK, tableVars
  <2> QED
    BY <2>1 DEF RoundInv, FirstRound, SecondRound, Ahead, IsFree, Keys
<1>5. CASE Disturbed
  BY <1>5 DEF Disturbed, RoundInv
<1>6. CASE UNCHANGED allVars
  BY <1>6 DEF allVars, vars, callerVars, tableVars, RoundInv, FirstRound, SecondRound,
              Ahead, IsFree, Keys
<1> QED
  BY <1>1, <1>2, <1>3, <1>4, <1>5, <1>6 DEF NextTickets, OtherStep

(* Undisturbed, EphemeralPort finds a free port other than the first of    *)
(* the range within one lap, wherever the counter stands and whatever      *)
(* reset it still has to make (conn_table.go:133-162).                     *)
THEOREM AttemptsWithinALap == SpecTickets => []AttemptsBounded
<1>1. InitTickets => TypeOK /\ RoundInv
  BY TypeInit DEF InitTickets, RoundInv
<1>2. TypeOK /\ RoundInv => AttemptsBounded
  BY RoundBounds DEF AttemptsBounded
<1> QED
  BY <1>1, <1>2, TypeNextTickets, RoundNext, PTL DEF SpecTickets
=============================================================================

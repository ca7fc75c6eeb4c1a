-------------------------- MODULE ConnTableTickets --------------------------
(***************************************************************************)
(* ConnTable with a history of EphemeralPort: the number of additions made *)
(* to the counter so far; for each caller, the number there were when it   *)
(* added for the port it has; and how many it has made since another       *)
(* caller last changed the counter, or anyone the table.                   *)
(***************************************************************************)
EXTENDS ConnTable

CONSTANT MaxAdds   \* additions followed by a run

VARIABLES adds, ticket, attempts

historyVars == <<adds, ticket>>
allVars == <<vars, historyVars, attempts>>

InitTickets ==
  /\ Init
  /\ adds = 0
  /\ ticket = [c \in Callers |-> 0]
  /\ attempts = [c \in Callers |-> 0]

\* A step of c on the counter disturbs the other callers.
Attempts(c, n) == attempts' = [d \in Callers |-> IF d = c THEN n ELSE 0]
Disturbed == attempts' = [c \in Callers |-> 0]

AddTicket(c) ==
  /\ adds < MaxAdds
  /\ Add(c)
  /\ adds' = adds + 1
  /\ ticket' = [ticket EXCEPT ![c] = adds + 1]

OtherStep ==
  \/ \E c \in Callers : Call(c) /\ attempts' = [attempts EXCEPT ![c] = 0]
  \/ \E c \in Callers : Wrap(c) /\ Attempts(c, attempts[c])
  \/ \E c \in Callers : Scan(c) /\ UNCHANGED attempts
  \/ \E c \in Callers : (Register(c) \/ Remove(c)) /\ Disturbed
  \/ \E p \in ListenPorts :
       (RegisterListener(p) \/ RemoveListener(p)) /\ Disturbed

NextTickets ==
  \/ \E c \in Callers : AddTicket(c) /\ Attempts(c, attempts[c] + 1)
  \/ OtherStep /\ UNCHANGED historyVars

SpecTickets == InitTickets /\ [][NextTickets]_allVars

-----------------------------------------------------------------------------

Has(c) == pc[c] \in {"scan", "got", "open"}

(* EphemeralPort gives a port to two callers only when the whole range was *)
(* gone through in between, however their additions and resets of the      *)
(* counter interleave: a caller that has been given a port has a lap of    *)
(* the range to register its connection before the port is tried again.    *)
LapApart ==
  \A c, d \in Callers :
    c # d /\ Has(c) /\ Has(d) /\ port[c] = port[d] =>
      \/ ticket[c] - ticket[d] > MaxPort - MinPort
      \/ ticket[d] - ticket[c] > MaxPort - MinPort

(* EphemeralPort finds a free port, except the first of the range, within  *)
(* as many additions as the range has ports, wherever the counter stands   *)
(* and however stale a reset it still has to make, once the other callers  *)
(* leave the counter and the table alone: it returns.                      *)
AttemptsBounded ==
  \A c \in Callers, p \in MinPort + 1 .. MaxPort :
    pc[c] \in {"add", "wrap", "scan"} /\ IsFree(p) =>
      attempts[c] <= MaxPort - MinPort + 1

(* Why ports are given out a lap apart: since a caller took its port the   *)
(* counter has only been added to, or it has gone past the end of the      *)
(* range and come back.                                                    *)
Progress(c) ==
  LET since == adds - ticket[c]
  IN \/ ephemeralPort = port[c] + 1 + since
     \/ since >= MaxPort - port[c] + ephemeralPort - MinPort

TicketInv ==
  /\ adds \in Nat /\ ticket \in [Callers -> Nat]
  /\ \A c \in Callers : ticket[c] <= adds
  /\ \A c \in Callers : Has(c) => Progress(c)

(* Why a free port p is found in time: the additions c made undisturbed    *)
(* tried the ports up to the counter, and passed p neither since it stood  *)
(* where they began nor, when they went past the end, since they came back *)
(* to the start of the range.                                              *)
Ahead(c, p) == p >= ephemeralPort \/ (pc[c] = "scan" /\ p = port[c])

FirstRound(c, p) ==
  LET began == ephemeralPort - attempts[c]
  IN  /\ began >= MinPort
      /\ p < began \/ Ahead(c, p)
      /\ \/ ephemeralPort <= MaxPort + 1
         \/ pc[c] = "wrap" /\ (ephemeralPort = MaxPort + 2 \/ attempts[c] = 1)

SecondRound(c, p) ==
  LET before == attempts[c] - (ephemeralPort - (MinPort + 1))
  IN  /\ pc[c] # "wrap" /\ ephemeralPort > MinPort
      /\ before >= 1 /\ p <= MaxPort + 1 - before
      /\ Ahead(c, p)

RoundInv ==
  /\ attempts \in [Callers -> Nat]
  /\ \A c \in Callers :
       pc[c] \in {"add", "wrap", "scan"} /\ attempts[c] > 0 =>
         /\ pc[c] # "add" => port[c] = ephemeralPort - 1
         /\ \A p \in MinPort + 1 .. MaxPort :
              IsFree(p) => FirstRound(c, p) \/ SecondRound(c, p)
=============================================================================

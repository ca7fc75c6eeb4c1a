-------------------------- MODULE DispatcherProofs --------------------------
(***************************************************************************)
(* Proofs about Dispatcher, for any packets, handlers and bytes.           *)
(***************************************************************************)
EXTENDS Dispatcher, FiniteSetTheorems, TLAPS

Stages == {"none", "called", "counted", "found", "handling",
           "invalid", "dropped", "returned"}
CounterNames == {"received", "invalid", "dropped", "dispatched"}

TypeOK ==
  /\ dispatch \in [Packets -> Stages]
  /\ count \in [CounterNames -> Nat]
  /\ snapshot \in Seq(Nat) /\ settled \in Nat

(* A packet counted as received has been counted by its outcome or is      *)
(* between the two additions.                                              *)
OneOutcome == count["received"] = Settled + In({"counted", "found"})

(* What a call of Stats has loaded so far: the counters only grow, so each *)
(* value is a lower bound of its counter, and together with those still to *)
(* be loaded they reach what was settled when the call began.              *)
SnapshotLags ==
  \/ Len(snapshot) = 0
  \/ Len(snapshot) = 1 /\ settled <= Settled
  \/ /\ Len(snapshot) = 2
     /\ snapshot[2] <= count["invalid"]
     /\ settled <= snapshot[2] + count["dropped"] + count["dispatched"]
  \/ /\ Len(snapshot) = 3
     /\ snapshot[2] <= count["invalid"] /\ snapshot[3] <= count["dropped"]
     /\ settled <= snapshot[2] + snapshot[3] + count["dispatched"]
  \/ /\ Len(snapshot) = 4
     /\ snapshot[2] <= count["invalid"] /\ snapshot[3] <= count["dropped"]
     /\ snapshot[4] <= count["dispatched"]
     /\ settled <= snapshot[2] + snapshot[3] + snapshot[4]

CountInv == TypeOK /\ CountersBalance /\ OneOutcome /\ SnapshotLags

-----------------------------------------------------------------------------
(* The counters.                                                           *)

\* What one call of Dispatch does to the number of calls in a set of stages.
LEMMA MoveCounts ==
  ASSUME TypeOK, IsFiniteSet(Packets), NEW p \in Packets,
         NEW from, NEW to, Move(p, from, to), NEW S
  PROVE  /\ In(S) \in Nat
         /\ from \in S /\ to \notin S => In(S)' = In(S) - 1
         /\ from \notin S /\ to \in S => In(S)' = In(S) + 1
         /\ (from \in S <=> to \in S) => In(S)' = In(S)
<1> DEFINE Now == {q \in Packets : dispatch[q] \in S}
           Then == {q \in Packets : dispatch'[q] \in S}
<1>1. IsFiniteSet(Now) /\ Cardinality(Now) \in Nat
  BY FS_Subset, FS_CardinalityType
<1>2. /\ dispatch[p] = from /\ dispatch'[p] = to
      /\ \A q \in Packets \ {p} : dispatch'[q] = dispatch[q]
  BY DEF Move, TypeOK
<1>3. /\ from \in S /\ to \notin S => Then = Now \ {p} /\ p \in Now
      /\ from \notin S /\ to \in S => Then = Now \cup {p} /\ p \notin Now
      /\ (from \in S <=> to \in S) => Then = Now
  BY <1>2
<1>4. In(S) = Cardinality(Now) /\ In(S)' = Cardinality(Then)
  BY DEF In
<1> HIDE DEF Now, Then
<1> QED
  BY <1>1, <1>3, <1>4, FS_AddElement, FS_RemoveElement

LEMMA SameCounts ==
  ASSUME dispatch' = dispatch, NEW S
  PROVE  In(S)' = In(S)
BY DEF In

\* Steps of Dispatch leave the values that Stats has loaded and let counters grow.
LEMMA CountersGrow ==
  ASSUME TypeOK, SnapshotLags, UNCHANGED <<snapshot, settled>>,
         count' \in [CounterNames -> Nat],
         \A name \in CounterNames : count[name] <= count'[name]
  PROVE  SnapshotLags'
<1>1. /\ Len(snapshot) = 2 => snapshot[2] \in Nat
      /\ Len(snapshot) = 3 => snapshot[2] \in Nat /\ snapshot[3] \in Nat
      /\ settled \in Nat
  BY DEF TypeOK
<1>2. /\ count["invalid"] \in Nat /\ count'["invalid"] \in Nat
      /\ count["dropped"] \in Nat /\ count'["dropped"] \in Nat
      /\ count["dispatched"] \in Nat /\ count'["dispatched"] \in Nat
      /\ count["invalid"] <= count'["invalid"]
      /\ count["dropped"] <= count'["dropped"]
      /\ count["dispatched"] <= count'["dispatched"]
  BY DEF TypeOK, CounterNames
<1>3. snapshot' = snapshot /\ settled' = settled
  OBVIOUS
<1>4. CASE Len(snapshot) = 0
  BY <1>3, <1>4 DEF SnapshotLags
<1>5. CASE Len(snapshot) = 1
  BY <1>1, <1>2, <1>3, <1>5 DEF SnapshotLags, Settled
<1>6. CASE Len(snapshot) = 2
  BY <1>1, <1>2, <1>3, <1>6 DEF SnapshotLags
<1>7. CASE Len(snapshot) = 3
  BY <1>1, <1>2, <1>3, <1>7 DEF SnapshotLags
<1>8. CASE Len(snapshot) = 4
  <2>1. snapshot[2] \in Nat /\ snapshot[3] \in Nat /\ snapshot[4] \in Nat
    <3>1. snapshot \in Seq(Nat) /\ 2 \in 1 .. 4 /\ 3 \in 1 .. 4 /\ 4 \in 1 .. 4
      BY DEF TypeOK
    <3>2. \A i \in 1 .. Len(snapshot) : snapshot[i] \in Nat
      BY <3>1
    <3> QED
      BY <1>8, <3>1, <3>2
  <2> QED
    BY <1>2, <1>3, <1>8, <2>1 DEF SnapshotLags
<1> QED
  BY <1>4, <1>5, <1>6, <1>7, <1>8 DEF SnapshotLags

\* A step of Dispatch from one stage to another that adds 1 to one counter.
LEMMA BumpPreserves ==
  ASSUME IsFiniteSet(Packets), CountInv, NEW p \in Packets, UNCHANGED <<snapshot, settled>>,
         \/ Move(p, "called", "counted") /\ Bump("received")
         \/ Move(p, "counted", "invalid") /\ Bump("invalid")
         \/ Move(p, "found", "dropped") /\ Bump("dropped")
         \/ Move(p, "found", "handling") /\ Bump("dispatched")
  PROVE  CountInv'
<1> USE DEF CountInv
<1>1. PICK name \in CounterNames : count' = [count EXCEPT ![name] = @ + 1]
  BY DEF Bump, CounterNames
<1>2. /\ count' \in [CounterNames -> Nat]
      /\ \A n \in CounterNames : /\ count[n] \in Nat
                               /\ count'[n] = IF n = name THEN count[n] + 1 ELSE count[n]
  BY <1>1 DEF TypeOK
<1>4. SnapshotLags' /\ TypeOK'
  <2>1. \A n \in CounterNames : count[n] <= count'[n]
    BY <1>2
  <2>2. SnapshotLags'
    BY <1>2, <2>1, CountersGrow
  <2> QED
    BY <1>2, <2>2 DEF TypeOK, Move, Stages
<1>3. /\ count["received"] \in Nat /\ count["invalid"] \in Nat
      /\ count["dropped"] \in Nat /\ count["dispatched"] \in Nat
  BY DEF TypeOK, CounterNames
<1>5. CountersBalance' /\ OneOutcome'
  <2>1. CASE Move(p, "called", "counted") /\ Bump("received")
    <3>1. /\ count'["received"] = count["received"] + 1
          /\ UNCHANGED <<count["invalid"], count["dropped"], count["dispatched"]>>
      BY <1>3, <2>1 DEF Bump, TypeOK, CounterNames
    <3> QED
      BY <1>3, <2>1, <3>1, MoveCounts DEF CountersBalance, OneOutcome, Settled
  <2>2. CASE Move(p, "counted", "invalid") /\ Bump("invalid")
    <3>1. /\ count'["invalid"] = count["invalid"] + 1
          /\ UNCHANGED <<count["received"], count["dropped"], count["dispatched"]>>
      BY <1>3, <2>2 DEF Bump, TypeOK, CounterNames
    <3> QED
      BY <1>3, <2>2, <3>1, MoveCounts DEF CountersBalance, OneOutcome, Settled
  <2>3. CASE Move(p, "found", "dropped") /\ Bump("dropped")
    <3>1. /\ count'["dropped"] = count["dropped"] + 1
          /\ UNCHANGED <<count["received"], count["invalid"], count["dispatched"]>>
      BY <1>3, <2>3 DEF Bump, TypeOK, CounterNames
    <3> QED
      BY <1>3, <2>3, <3>1, MoveCounts DEF CountersBalance, OneOutcome, Settled
  <2>4. CASE Move(p, "found", "handling") /\ Bump("dispatched")
    <3>1. /\ count'["dispatched"] = count["dispatched"] + 1
          /\ UNCHANGED <<count["received"], count["invalid"], count["dropped"]>>
      BY <1>3, <2>4 DEF Bump, TypeOK, CounterNames
    <3> QED
      BY <1>3, <2>4, <3>1, MoveCounts DEF CountersBalance, OneOutcome, Settled
  <2> QED
    BY <2>1, <2>2, <2>3, <2>4
<1> QED
  BY <1>4, <1>5

\* A step between two stages that no counter tells apart.
LEMMA MovePreserves ==
  ASSUME IsFiniteSet(Packets), CountInv, NEW p \in Packets, UNCHANGED counterVars,
         \/ Move(p, "none", "called")
         \/ Move(p, "counted", "found")
         \/ Move(p, "handling", "returned")
  PROVE  CountInv'
<1> USE DEF CountInv, counterVars
<1>1. TypeOK'
  BY DEF TypeOK, Move, Stages
<1>2. SnapshotLags'
  BY DEF SnapshotLags, Settled
<1>3. CountersBalance' /\ OneOutcome'
  BY MoveCounts DEF CountersBalance, OneOutcome, Settled
<1> QED
  BY <1>1, <1>2, <1>3

\* What a load appends to the values loaded before it.
LEMMA LoadAppends ==
  ASSUME TypeOK, Load, NEW name \in CounterNames, Counters[Len(snapshot) + 1] = name
  PROVE  /\ snapshot' \in Seq(Nat)
         /\ Len(snapshot') = Len(snapshot) + 1
         /\ snapshot'[Len(snapshot) + 1] = count[name]
         /\ \A i \in 1 .. Len(snapshot) : snapshot'[i] = snapshot[i] /\ snapshot[i] \in Nat
<1>1. snapshot' = Append(snapshot, count[name]) /\ count[name] \in Nat /\ snapshot \in Seq(Nat)
  BY DEF Load, TypeOK
<1> QED
  BY <1>1

LEMMA LoadPreserves ==
  ASSUME CountInv, Load
  PROVE  CountInv'
<1> USE DEF CountInv
<1>1. /\ UNCHANGED <<dispatch, count>>
      /\ settled' = IF snapshot = <<>> THEN Settled ELSE settled
  BY DEF Load
<1>2. /\ Counters[1] = "received" /\ Counters[2] = "invalid"
      /\ Counters[3] = "dropped" /\ Counters[4] = "dispatched"
  BY DEF Counters
<1>3. /\ count["invalid"] \in Nat /\ count["dropped"] \in Nat
      /\ count["dispatched"] \in Nat /\ Settled \in Nat /\ settled \in Nat
      /\ Settled' = Settled /\ settled' \in Nat
  BY <1>1 DEF TypeOK, Settled, CounterNames
<1>4. CountersBalance' /\ OneOutcome'
  BY <1>1 DEF CountersBalance, OneOutcome, Settled, In
<1>5. \/ Len(snapshot) = 0 \/ Len(snapshot) = 1
      \/ Len(snapshot) = 2 \/ Len(snapshot) = 3
  BY DEF Load, SnapshotLags, Counters
<1>6. Len(snapshot) = 0 <=> snapshot = <<>>
  BY DEF TypeOK
<1>7. CASE Len(snapshot) = 0
  <2>1. snapshot' \in Seq(Nat) /\ Len(snapshot') = 1
    BY <1>2, <1>7, LoadAppends DEF CounterNames
  <2> QED
    BY <1>1, <1>3, <1>4, <1>6, <1>7, <2>1 DEF TypeOK, SnapshotLags
<1>8. CASE Len(snapshot) = 1
  <2>1. snapshot' \in Seq(Nat) /\ Len(snapshot') = 2 /\ snapshot'[2] = count["invalid"]
    BY <1>2, <1>8, LoadAppends DEF CounterNames
  <2> QED
    BY <1>1, <1>3, <1>4, <1>6, <1>8, <2>1 DEF TypeOK, SnapshotLags, Settled
<1>9. CASE Len(snapshot) = 2
  <2>1. /\ snapshot' \in Seq(Nat) /\ Len(snapshot') = 3
        /\ snapshot'[2] = snapshot[2] /\ snapshot'[3] = count["dropped"]
        /\ snapshot[2] \in Nat
    BY <1>2, <1>9, LoadAppends DEF CounterNames
  <2> QED
    BY <1>1, <1>3, <1>4, <1>6, <1>9, <2>1 DEF TypeOK, SnapshotLags
<1>10. CASE Len(snapshot) = 3
  <2>1. /\ snapshot' \in Seq(Nat) /\ Len(snapshot') = 4
        /\ snapshot'[2] = snapshot[2] /\ snapshot'[3] = snapshot[3]
        /\ snapshot'[4] = count["dispatched"]
        /\ snapshot[2] \in Nat /\ snapshot[3] \in Nat
    BY <1>2, <1>10, LoadAppends DEF CounterNames
  <2> QED
    BY <1>1, <1>3, <1>4, <1>6, <1>10, <2>1 DEF TypeOK, SnapshotLags
<1> QED
  BY <1>5, <1>7, <1>8, <1>9, <1>10

-----------------------------------------------------------------------------
(* The handlers.                                                           *)

Selected == {"found", "handling", "dropped", "returned"}

\* The map holds the last handler registered for each protocol.
MapHoldsLatest ==
  \A c \in Protocols :
    \/ handlers[c] = NoHandler /\ \A i \in DOMAIN registered : Protocol[registered[i]] # c
    \/ \E i \in DOMAIN registered :
         /\ Protocol[registered[i]] = c /\ registered[i] = handlers[c]
         /\ \A j \in DOMAIN registered : Protocol[registered[j]] = c => j <= i

\* The handler that a call which has not looked yet would find is eligible.
CurrentEligible == \A p \in Packets : Pending(p) => HandlerFor(Raw[p]) \in eligible[p]

HandlerInv ==
  /\ dispatch \in [Packets -> Stages]
  /\ handlers \in [Protocols -> Handlers \cup {NoHandler}]
  /\ handler \in [Packets -> Handlers \cup {NoHandler}]
  /\ eligible \in [Packets -> SUBSET (Handlers \cup {NoHandler})]
  /\ registered \in Seq(Handlers)
  /\ MapHoldsLatest /\ CurrentEligible /\ HandlerInForce

LEMMA LatestIsInMap ==
  ASSUME HandlerInv, NEW raw
  PROVE  LatestFor(raw) = HandlerFor(raw)
<1> DEFINE c == ProtocolOf(raw)
           those == {i \in DOMAIN registered : Protocol[registered[i]] = c}
<1>1. DOMAIN registered \subseteq Nat /\ \A i \in DOMAIN registered : registered[i] \in Handlers
  BY DEF HandlerInv
<1>2. LatestFor(raw) = IF those = {} THEN NoHandler
                       ELSE registered[CHOOSE i \in those : \A j \in those : j <= i]
  BY DEF LatestFor
<1>3. CASE those = {}
  <2>1. c \in Protocols => handlers[c] = NoHandler
    BY <1>3 DEF HandlerInv, MapHoldsLatest
  <2> QED
    BY <1>2, <1>3, <2>1 DEF HandlerFor
<1>4. CASE those # {}
  <2>1. c \in Protocols
    BY <1>1, <1>4 DEF Protocols
  <2>2. PICK i \in those : registered[i] = handlers[c] /\ \A j \in those : j <= i
    BY <1>4, <2>1 DEF HandlerInv, MapHoldsLatest
  <2>3. (CHOOSE k \in those : \A j \in those : j <= k) = i
    <3>1. \A k \in those : (\A j \in those : j <= k) => k = i
      BY <1>1, <2>2
    <3> QED
      BY <2>2, <3>1
  <2> QED
    BY <1>2, <1>4, <2>1, <2>2, <2>3 DEF HandlerFor
<1> QED
  BY <1>3, <1>4

LEMMA RegisterPreserves ==
  ASSUME HandlerInv, NEW h \in Handlers, Register(h)
  PROVE  HandlerInv'
<1> DEFINE n == Len(registered) + 1
<1>1. /\ registered' = Append(registered, h)
      /\ handlers' = [handlers EXCEPT ![Protocol[h]] = h]
      /\ UNCHANGED <<dispatch, handler>>
      /\ eligible' = [p \in Packets |->
           IF Pending(p) /\ Protocol[h] = ProtocolOf(Raw[p])
           THEN eligible[p] \cup {h} ELSE eligible[p]]
      /\ Protocol[h] \in Protocols
  BY DEF Register, Put, Protocols
<1>2. /\ registered' \in Seq(Handlers) /\ n \in Nat /\ n \in DOMAIN registered'
      /\ registered'[n] = h
      /\ \A i \in DOMAIN registered' : i = n \/ i \in DOMAIN registered
      /\ \A i \in DOMAIN registered : /\ i \in DOMAIN registered' /\ i \in Nat /\ i <= n
                                     /\ registered'[i] = registered[i]
  BY <1>1 DEF HandlerInv
<1>3. /\ handlers' \in [Protocols -> Handlers \cup {NoHandler}]
      /\ handlers'[Protocol[h]] = h
      /\ \A c \in Protocols : c # Protocol[h] => handlers'[c] = handlers[c]
  BY <1>1 DEF HandlerInv
<1> HIDE DEF n
<1>4. MapHoldsLatest'
  <2> SUFFICES ASSUME NEW c \in Protocols
               PROVE  \/ /\ handlers'[c] = NoHandler
                         /\ \A i \in DOMAIN registered' : Protocol[registered'[i]] # c
                      \/ \E i \in DOMAIN registered' :
                           /\ Protocol[registered'[i]] = c /\ registered'[i] = handlers'[c]
                           /\ \A j \in DOMAIN registered' : Protocol[registered'[j]] = c => j <= i
    BY DEF MapHoldsLatest
  <2>1. CASE c = Protocol[h]
    <3>1. Protocol[registered'[n]] = c /\ registered'[n] = handlers'[c]
      BY <1>2, <1>3, <2>1
    <3>2. \A j \in DOMAIN registered' : j <= n
      BY <1>2
    <3> QED
      BY <1>2, <3>1, <3>2
  <2>2. CASE c # Protocol[h]
    BY <1>2, <1>3, <2>2 DEF HandlerInv, MapHoldsLatest
  <2> QED
    BY <2>1, <2>2
<1>5. CurrentEligible'
  <2> SUFFICES ASSUME NEW p \in Packets, Pending(p)
               PROVE  HandlerFor(Raw[p])' \in eligible'[p]
    BY <1>1 DEF CurrentEligible, Pending
  <2>1. HandlerFor(Raw[p]) \in eligible[p]
    BY DEF HandlerInv, CurrentEligible
  <2> QED
    BY <1>1, <1>3, <2>1 DEF HandlerFor
<1>6. HandlerInForce'
  BY <1>1 DEF HandlerInv, HandlerInForce
<1> QED
  BY <1>1, <1>2, <1>3, <1>4, <1>5, <1>6 DEF HandlerInv

LEMMA CallPreserves ==
  ASSUME HandlerInv, NEW p \in Packets, Call(p)
  PROVE  HandlerInv'
<1>1. /\ dispatch[p] = "none" /\ dispatch' = [dispatch EXCEPT ![p] = "called"]
      /\ eligible' = [eligible EXCEPT ![p] = {HandlerFor(Raw[p])}]
      /\ UNCHANGED <<handler, handlers, registered>>
  BY LatestIsInMap DEF Call, Move
<1>2. HandlerFor(Raw[p]) \in Handlers \cup {NoHandler}
  BY DEF HandlerFor, HandlerInv
<1>3. CurrentEligible'
  BY <1>1 DEF HandlerInv, CurrentEligible, Pending, HandlerFor
<1>4. MapHoldsLatest'
  BY <1>1 DEF HandlerInv, MapHoldsLatest
<1>5. HandlerInForce'
  BY <1>1 DEF HandlerInv, HandlerInForce
<1> QED
  BY <1>1, <1>2, <1>3, <1>4, <1>5 DEF HandlerInv, Stages

LEMMA FindPreserves ==
  ASSUME HandlerInv, NEW p \in Packets, Find(p)
  PROVE  HandlerInv'
<1>1. /\ dispatch[p] = "counted" /\ dispatch' = [dispatch EXCEPT ![p] = "found"]
      /\ handler' = [handler EXCEPT ![p] = HandlerFor(Raw[p])]
      /\ UNCHANGED <<handlers, registered, eligible>>
  BY DEF Find, Move, registerVars
<1>2. HandlerFor(Raw[p]) \in eligible[p]
  BY <1>1 DEF HandlerInv, CurrentEligible, Pending
<1>3. HandlerFor(Raw[p]) \in Handlers \cup {NoHandler}
  BY DEF HandlerFor, HandlerInv
<1>4. CurrentEligible'
  BY <1>1 DEF HandlerInv, CurrentEligible, Pending, HandlerFor
<1>5. MapHoldsLatest'
  BY <1>1 DEF HandlerInv, MapHoldsLatest
<1>6. HandlerInForce'
  BY <1>1, <1>2 DEF HandlerInv, HandlerInForce
<1> QED
  BY <1>1, <1>3, <1>4, <1>5, <1>6 DEF HandlerInv, Stages

\* The other steps of Dispatch look at no handler.
LEMMA StagePreserves ==
  ASSUME HandlerInv, NEW p \in Packets, UNCHANGED <<handler, registerVars>>,
         \/ Move(p, "called", "counted") \/ Move(p, "counted", "invalid")
         \/ Move(p, "found", "dropped") \/ Move(p, "found", "handling")
         \/ Move(p, "handling", "returned")
  PROVE  HandlerInv'
<1>1. /\ dispatch' \in [Packets -> Stages]
      /\ \A q \in Packets \ {p} : dispatch'[q] = dispatch[q]
      /\ dispatch'[p] \in {"counted"} => dispatch[p] = "called"
      /\ dispatch'[p] \in Selected => dispatch[p] \in Selected
      /\ dispatch'[p] # "called"
  BY DEF HandlerInv, Move, Stages, Selected
<1>2. CurrentEligible'
  BY <1>1 DEF HandlerInv, CurrentEligible, Pending, HandlerFor, registerVars
<1>3. MapHoldsLatest'
  BY DEF HandlerInv, MapHoldsLatest, registerVars
<1>4. HandlerInForce'
  BY <1>1 DEF HandlerInv, HandlerInForce, registerVars, Selected
<1> QED
  BY <1>1, <1>2, <1>3, <1>4 DEF HandlerInv, registerVars

-----------------------------------------------------------------------------
(* The specification.                                                      *)

LEMMA CountInvariance ==
  ASSUME IsFiniteSet(Packets)
  PROVE  Spec => []CountInv
<1>1. Init => CountInv
  <2> SUFFICES ASSUME Init PROVE CountInv
    OBVIOUS
  <2>1. \A S : "none" \notin S => In(S) = 0
    <3> SUFFICES ASSUME NEW S, "none" \notin S PROVE In(S) = 0
      OBVIOUS
    <3>1. {p \in Packets : dispatch[p] \in S} = {}
      BY DEF Init
    <3> QED
      BY <3>1, FS_EmptySet DEF In
  <2> QED
    BY <2>1 DEF Init, CountInv, TypeOK, Stages, CounterNames, CountersBalance, OneOutcome,
                SnapshotLags, Settled
<1>2. CountInv /\ [Next]_vars => CountInv'
  <2> SUFFICES ASSUME CountInv, [Next]_vars PROVE CountInv'
    OBVIOUS
  <2>1. CASE \E p \in Packets : Call(p) \/ Find(p) \/ Return(p)
    BY <2>1, MovePreserves DEF Call, Find, Return, counterVars
  <2>2. CASE \E p \in Packets : Count(p) \/ Reject(p) \/ Drop(p) \/ Dispatch(p)
    BY <2>2, BumpPreserves DEF Count, Reject, Drop, Dispatch
  <2>3. CASE \E h \in Handlers : Register(h)
    BY <2>3 DEF Register, counterVars, CountInv, TypeOK, CountersBalance, OneOutcome,
                SnapshotLags, Settled, In
  <2>4. CASE Load
    BY <2>4, LoadPreserves
  <2>5. CASE UNCHANGED vars
    BY <2>5 DEF vars, counterVars, CountInv, TypeOK, CountersBalance, OneOutcome,
                SnapshotLags, Settled, In
  <2> QED
    BY <2>1, <2>2, <2>3, <2>4, <2>5 DEF Next
<1> QED
  BY <1>1, <1>2, PTL DEF Spec

LEMMA HandlerInvariance == Spec => []HandlerInv
<1>1. Init => HandlerInv
  BY DEF Init, HandlerInv, MapHoldsLatest, CurrentEligible, HandlerInForce, Pending, Stages
<1>2. HandlerInv /\ [Next]_vars => HandlerInv'
  <2> SUFFICES ASSUME HandlerInv, [Next]_vars PROVE HandlerInv'
    OBVIOUS
  <2>1. CASE \E p \in Packets : Call(p)
    BY <2>1, CallPreserves
  <2>2. CASE \E p \in Packets : Find(p)
    BY <2>2, FindPreserves
  <2>3. CASE \E p \in Packets :
               Count(p) \/ Reject(p) \/ Drop(p) \/ Dispatch(p) \/ Return(p)
    BY <2>3, StagePreserves DEF Count, Reject, Drop, Dispatch, Return
  <2>4. CASE \E h \in Handlers : Register(h)
    BY <2>4, RegisterPreserves
  <2>5. CASE Load \/ UNCHANGED vars
    BY <2>5 DEF Load, vars, registerVars, HandlerInv, MapHoldsLatest, CurrentEligible,
                HandlerInForce, Pending, HandlerFor
  <2> QED
    BY <2>1, <2>2, <2>3, <2>4, <2>5 DEF Next
<1> QED
  BY <1>1, <1>2, PTL DEF Spec

(* At every moment each counter is the number of packets that met its      *)
(* outcome, whatever calls of Dispatch race (dispatcher.go:62-117).        *)
THEOREM Balanced ==
  ASSUME IsFiniteSet(Packets)
  PROVE  Spec => []CountersBalance
<1>1. CountInv => CountersBalance
  BY DEF CountInv
<1> QED
  BY <1>1, CountInvariance, PTL

(* The four values of one call of Stats account for at least the packets   *)
(* settled when it began, and for no more than have been received now      *)
(* (dispatcher.go:122-129).                                                *)
THEOREM SnapshotsBounded ==
  ASSUME IsFiniteSet(Packets)
  PROVE  Spec => []SnapshotWithinCall
<1>1. CountInv => \A i \in 1 .. Len(snapshot) : snapshot[i] \in Nat
  BY DEF CountInv, TypeOK
<1>2. CountInv => SnapshotWithinCall
  <2> SUFFICES ASSUME CountInv, Len(snapshot) = 4
               PROVE  /\ snapshot[2] + snapshot[3] + snapshot[4] >= settled
                      /\ snapshot[2] + snapshot[3] + snapshot[4] <= count["received"]
    BY DEF SnapshotWithinCall
  <2>1. settled \in Nat
    BY DEF CountInv, TypeOK
  <2>2. snapshot[2] \in Nat /\ snapshot[3] \in Nat /\ snapshot[4] \in Nat
    BY <1>1
  <2>3. /\ count["received"] \in Nat /\ count["invalid"] \in Nat
        /\ count["dropped"] \in Nat /\ count["dispatched"] \in Nat
    BY DEF CountInv, TypeOK, CounterNames
  <2>4. In({"counted", "found"}) \in Nat
    <3>1. IsFiniteSet({p \in Packets : dispatch[p] \in {"counted", "found"}})
      BY FS_Subset
    <3> QED
      BY <3>1, FS_CardinalityType DEF In
  <2> QED
    BY <2>1, <2>2, <2>3, <2>4 DEF CountInv, OneOutcome, SnapshotLags, Settled
<1> QED
  BY <1>2, CountInvariance, PTL

(* A packet goes to a handler that was registered last at some moment of   *)
(* its Dispatch, and is dropped only if there was none                     *)
(* (dispatcher.go:47-56, 105-112).                                         *)
THEOREM LatestHandlerUsed == Spec => []HandlerInForce
<1>1. HandlerInv => HandlerInForce
  BY DEF HandlerInv
<1> QED
  BY <1>1, HandlerInvariance, PTL
=============================================================================

---------------------------- MODULE StackProofs ----------------------------
(***************************************************************************)
(* Proofs about ReadLoop, for any number of calls of Start, any packets    *)
(* and every kind of interface, and about Stack: it runs the read loop,    *)
(* the dispatcher and the device as their modules describe them, so that   *)
(* what is proved of each part holds of the whole; and what it writes      *)
(* answers what it was asked, for any packets and bytes.                   *)
(***************************************************************************)
EXTENDS Stack, IpHeaderProofs

DProofs == INSTANCE DispatcherProofs

-----------------------------------------------------------------------------
(* The read loop.                                                          *)

Ended == {l \in Loops : loop[l] = "exited"}

(* The wait group counts the loops that run, also those of a Start that    *)
(* replaced the context of another; and each counted error ended a loop.   *)
LoopsCounted == wg = Cardinality(Running) /\ readErrors <= Cardinality(Ended)

(* A packet is with the interface, in a goroutine or handled.              *)
PacketsOnce ==
  /\ input \cap (handling \cup handled) = {}
  /\ handling \cap handled = {}

(* A Stop stays in force until the next Start; an orderly owner closes the *)
(* interface only under one, so the loops' errors find r.ctx cancelled.    *)
StopInForce ==
  /\ stop # "none" => cancelled
  /\ orderly /\ closed => stop # "none"

IInv ==
  /\ TypeOK /\ LoopsCounted /\ PacketsOnce /\ StopInForce
  /\ QuietAfterStop /\ NoErrorOnShutdown

-----------------------------------------------------------------------------

LEMMA FiniteLoops ==
  ASSUME NEW S \in SUBSET Loops
  PROVE  IsFiniteSet(S) /\ Cardinality(S) \in 0 .. Cardinality(Loops)
<1>1. IsFiniteSet(S) /\ Cardinality(S) <= Cardinality(Loops)
  BY FS_Subset, FiniteAssumption
<1> QED
  BY <1>1, FS_CardinalityType, FiniteAssumption

LEMMA InitIInv == Init => IInv
<1> SUFFICES ASSUME Init PROVE IInv
  OBVIOUS
<1>1. /\ Running = {} /\ handling \cup handled = {}
      /\ input \cup handling \cup handled = Packets
  BY DEF Init, Running
<1>2. /\ Cardinality(Running) = 0 /\ Cardinality(handling \cup handled) = 0
      /\ Cardinality(Loops) \in Nat /\ Cardinality(Ended) \in Nat
  BY <1>1, FS_EmptySet, FS_CardinalityType, FiniteLoops, FiniteAssumption DEF Ended
<1>3. TypeOK
  <2>1. loop \in [Loops -> {"new", "check", "read", "blocked", "exited"}]
    BY DEF Init
  <2>2. wg \in 0 .. Cardinality(Loops) /\ readErrors \in 0 .. Cardinality(Loops)
    BY <1>2 DEF Init
  <2>3. packetsRead = Cardinality(handling \cup handled)
    BY <1>2 DEF Init
  <2> QED
    BY <1>1, <2>1, <2>2, <2>3 DEF Init, TypeOK
<1> QED
  BY <1>1, <1>2, <1>3 DEF Init, IInv, LoopsCounted, PacketsOnce, StopInForce,
                          QuietAfterStop, NoErrorOnShutdown

LEMMA StartPreserves ==
  ASSUME IInv, NEW l \in Loops, Start(l)
  PROVE  IInv'
<1> USE DEF IInv
<1>1. /\ loop[l] = "new" /\ loop' = [loop EXCEPT ![l] = "check"] /\ wg' = wg + 1
      /\ loop \in [Loops -> {"new", "check", "read", "blocked", "exited"}]
      /\ UNCHANGED <<readErrors, packetsRead, input, handling, handled, closed>>
  BY DEF Start, Added, TypeOK, ioVars, handlerVars, statVars
<1>2. Running' = Running \cup {l} /\ l \notin Running /\ Ended' = Ended
  BY <1>1 DEF Running, Ended
<1>3. IsFiniteSet(Running) /\ Cardinality(Running') \in 0 .. Cardinality(Loops)
  BY FiniteLoops DEF Running
<1>4. Cardinality(Running') = Cardinality(Running) + 1
  BY <1>2, <1>3, FS_AddElement
<1>5. TypeOK'
  BY <1>1, <1>3, <1>4 DEF Start, TypeOK, LoopsCounted, ioVars, handlerVars, statVars
<1> QED
  BY <1>1, <1>2, <1>4, <1>5
     DEF Start, LoopsCounted, PacketsOnce, StopInForce, QuietAfterStop, NoErrorOnShutdown

\* What the return of a loop does to the counts.
LEMMA ExitCounts ==
  ASSUME IInv, NEW l \in Running, Exit(l)
  PROVE  /\ Running' = Running \ {l}
         /\ Cardinality(Running') = Cardinality(Running) - 1
         /\ Cardinality(Ended') = Cardinality(Ended) + 1
         /\ wg' = Cardinality(Running')
         /\ wg' \in 0 .. Cardinality(Loops)
         /\ Cardinality(Ended') \in 0 .. Cardinality(Loops)
         /\ Cardinality(Ended) \in Nat
         /\ loop' \in [Loops -> {"new", "check", "read", "blocked", "exited"}]
<1>1. /\ l \in Loops /\ loop[l] # "exited" /\ loop' = [loop EXCEPT ![l] = "exited"]
      /\ loop \in [Loops -> {"new", "check", "read", "blocked", "exited"}]
      /\ wg = Cardinality(Running) /\ wg' = wg - 1
  BY DEF Exit, Running, IInv, TypeOK, LoopsCounted
<1>2. Running' = Running \ {l} /\ Ended' = Ended \cup {l} /\ l \notin Ended
  BY <1>1 DEF Running, Ended
<1>3. /\ IsFiniteSet(Running) /\ IsFiniteSet(Ended)
      /\ Cardinality(Running') \in 0 .. Cardinality(Loops)
      /\ Cardinality(Ended') \in 0 .. Cardinality(Loops)
      /\ Cardinality(Ended) \in 0 .. Cardinality(Loops)
      /\ Cardinality(Running) \in 0 .. Cardinality(Loops)
      /\ Cardinality(Loops) \in Nat
  BY FiniteLoops, FS_CardinalityType, FiniteAssumption DEF Running, Ended
<1>4. /\ Cardinality(Running') = Cardinality(Running) - 1
      /\ Cardinality(Ended') = Cardinality(Ended) + 1
  BY <1>2, <1>3, FS_RemoveElement, FS_AddElement
<1> QED
  BY <1>1, <1>2, <1>3, <1>4

LEMMA CheckPreserves ==
  ASSUME IInv, NEW l \in Loops, Check(l)
  PROVE  IInv'
<1> USE DEF IInv
<1>0. /\ loop[l] = "check"
      /\ UNCHANGED <<cancelled, ioVars, handlerVars, statVars, stop, orderly>>
  BY DEF Check
<1>1. CASE cancelled
  <2>1. l \in Running /\ Exit(l)
    BY <1>0, <1>1 DEF Check, Running
  <2>2. TypeOK'
    BY <1>0, <2>1, ExitCounts DEF TypeOK, ioVars, handlerVars, statVars
  <2> QED
    BY <1>0, <2>1, <2>2, ExitCounts
       DEF ioVars, handlerVars, statVars, TypeOK, LoopsCounted, PacketsOnce,
           StopInForce, QuietAfterStop, NoErrorOnShutdown
<1>2. CASE ~cancelled
  <2>1. loop' = [loop EXCEPT ![l] = "read"] /\ wg' = wg
    BY <1>2 DEF Check
  <2>2. Running' = Running /\ Ended' = Ended
    BY <1>0, <2>1 DEF Running, Ended, TypeOK
  <2> QED
    BY <1>0, <2>1, <2>2
       DEF ioVars, handlerVars, statVars, TypeOK, LoopsCounted, PacketsOnce,
           StopInForce, QuietAfterStop, NoErrorOnShutdown
<1> QED
  BY <1>1, <1>2

LEMMA ReadFailsPreserves ==
  ASSUME IInv, NEW l \in Loops, ReadFails(l)
  PROVE  IInv'
<1> USE DEF IInv
<1>1. /\ UNCHANGED <<cancelled, ioVars, handlerVars, packetsRead, stop>>
      /\ orderly' = (orderly /\ closed)
      /\ readErrors' = IF cancelled THEN readErrors ELSE readErrors + 1
  BY DEF ReadFails, Count
<1>2. l \in Running /\ Exit(l)
  BY DEF ReadFails, MustFail, Running
<1>3. readErrors' \in 0 .. Cardinality(Loops) /\ readErrors' <= Cardinality(Ended')
  BY <1>1, <1>2, ExitCounts, FS_CardinalityType, FiniteAssumption DEF TypeOK, LoopsCounted
<1>4. TypeOK'
  BY <1>1, <1>2, <1>3, ExitCounts DEF TypeOK, ioVars, handlerVars
\* The interface was closed under a Stop, so r.ctx is cancelled.
<1>5. NoErrorOnShutdown'
  BY <1>1 DEF NoErrorOnShutdown, StopInForce
<1> QED
  BY <1>1, <1>2, <1>3, <1>4, <1>5, ExitCounts
     DEF ioVars, handlerVars, LoopsCounted, PacketsOnce, StopInForce, QuietAfterStop

LEMMA ReadPreserves ==
  ASSUME IInv, NEW l \in Loops, Read(l)
  PROVE  IInv'
<1> USE DEF IInv
<1>1. PICK p \in input : input' = input \ {p} /\ handling' = handling \cup {p}
  BY DEF Read
<1>2. /\ loop[l] = "blocked" /\ loop' = [loop EXCEPT ![l] = "check"]
      /\ packetsRead' = packetsRead + 1
      /\ UNCHANGED <<cancelled, wg, device, closed, handled, readErrors, stop, orderly>>
  BY DEF Read, Waits
<1>3. Running' = Running /\ Ended' = Ended
  BY <1>2 DEF Running, Ended, TypeOK
<1>4. packetsRead' = Cardinality(handling' \cup handled')
  <2>1. IsFiniteSet(handling \cup handled)
    BY FS_Subset, FiniteAssumption DEF TypeOK
  <2>2. /\ handling' \cup handled' = (handling \cup handled) \cup {p}
        /\ p \notin handling \cup handled
    BY <1>1, <1>2 DEF PacketsOnce
  <2> QED
    BY <1>2, <2>1, <2>2, FS_AddElement DEF TypeOK
<1>5. input' \cup handling' \cup handled' = Packets
  BY <1>1, <1>2 DEF TypeOK
<1>6. TypeOK'
  BY <1>2, <1>4, <1>5 DEF TypeOK
<1> QED
  BY <1>1, <1>2, <1>3, <1>6
     DEF LoopsCounted, PacketsOnce, StopInForce, QuietAfterStop, NoErrorOnShutdown

\* A loop goes on to its Read, or back to its check.
LEMMA MovePreserves ==
  ASSUME IInv, NEW l \in Loops, Block(l) \/ Interrupted(l)
  PROVE  IInv'
<1> USE DEF IInv
<1>1. /\ loop[l] \in {"read", "blocked"}
      /\ loop' \in {[loop EXCEPT ![l] = "check"], [loop EXCEPT ![l] = "blocked"]}
      /\ UNCHANGED <<cancelled, wg, ioVars, handlerVars, statVars, stop, orderly>>
  BY DEF Block, Interrupted, Waits
<1>2. Running' = Running /\ Ended' = Ended
  BY <1>1 DEF Running, Ended, TypeOK
<1> QED
  BY <1>1, <1>2
     DEF ioVars, handlerVars, statVars, TypeOK, LoopsCounted, PacketsOnce, StopInForce,
         QuietAfterStop, NoErrorOnShutdown

LEMMA HandlePreserves ==
  ASSUME IInv, NEW p \in Packets, Handle(p)
  PROVE  IInv'
<1> USE DEF IInv
<1>1. /\ p \in handling
      /\ handling' = handling \ {p} /\ handled' = handled \cup {p}
      /\ UNCHANGED <<cancelled, wg, loop, ioVars, statVars, stop, orderly>>
  BY DEF Handle
<1>2. handling' \cup handled' = handling \cup handled
  BY <1>1
<1> QED
  BY <1>1, <1>2
     DEF ioVars, statVars, TypeOK, LoopsCounted, PacketsOnce, StopInForce,
         QuietAfterStop, NoErrorOnShutdown, Running, Ended

\* What the owner does without a loop: Stop, its outcomes, cancel and Close.
LEMMA OwnerPreserves ==
  ASSUME IInv, Stop \/ StopReturns \/ StopTimesOut \/ CancelParent \/ Close
  PROVE  IInv'
<1> USE DEF IInv
<1>1. /\ UNCHANGED <<wg, loop, device, input, handlerVars, statVars>>
      /\ cancelled' \in {TRUE, cancelled}
      /\ stop' \in {"waiting", "nil", "timeout", stop}
      /\ cancelled \in BOOLEAN /\ closed \in BOOLEAN /\ orderly \in BOOLEAN
  BY DEF Stop, StopReturns, StopTimesOut, CancelParent, Close, ioVars, TypeOK
<1>2. closed' \in BOOLEAN /\ orderly' \in BOOLEAN
  BY <1>1 DEF Stop, StopReturns, StopTimesOut, CancelParent, Close, ioVars
<1>3. TypeOK'
  BY <1>1, <1>2 DEF TypeOK, handlerVars, statVars
<1>4. StopInForce' /\ NoErrorOnShutdown'
  BY <1>1 DEF Stop, StopReturns, StopTimesOut, CancelParent, Close, ioVars, statVars,
              StopInForce, NoErrorOnShutdown
<1>5. stop' = "nil" => stop = "nil" \/ wg = 0
  BY DEF Stop, StopReturns, StopTimesOut, CancelParent, Close
<1>6. QuietAfterStop'
  <2>1. wg = 0 => Running = {}
    BY FiniteLoops, FS_EmptySet DEF LoopsCounted, Running
  <2> QED
    BY <1>1, <1>5, <2>1 DEF QuietAfterStop, Running
<1> QED
  BY <1>1, <1>3, <1>4, <1>6
     DEF handlerVars, statVars, LoopsCounted, PacketsOnce, Running, Ended

LEMMA NextIInv == IInv /\ [Next]_vars => IInv'
<1> SUFFICES ASSUME IInv, [Next]_vars PROVE IInv'
  OBVIOUS
<1>1. CASE UNCHANGED vars
  BY <1>1 DEF vars, ioVars, handlerVars, statVars, IInv, TypeOK, LoopsCounted,
              PacketsOnce, StopInForce, QuietAfterStop, NoErrorOnShutdown, Running, Ended
<1> QED
  BY <1>1, StartPreserves, CheckPreserves, ReadFailsPreserves, ReadPreserves,
     MovePreserves, HandlePreserves, OwnerPreserves
     DEF Next, LoopStep

LEMMA Invariance == Spec => []IInv
BY InitIInv, NextIInv, PTL DEF Spec

-----------------------------------------------------------------------------

(* Every packet read is in a goroutine of its own or handled, and counted. *)
THEOREM TypeCorrect == Spec => []TypeOK
<1>1. IInv => TypeOK
  BY DEF IInv
<1> QED
  BY <1>1, Invariance, PTL

(* When Stop returns nil no loop is left, however Start, Stop, Close and   *)
(* the errors of the interface raced.                                      *)
THEOREM StopQuiets == Spec => []QuietAfterStop
<1>1. IInv => QuietAfterStop
  BY DEF IInv
<1> QED
  BY <1>1, Invariance, PTL

(* An orderly shutdown counts no read error.                               *)
THEOREM ShutdownIsNoError == Spec => []NoErrorOnShutdown
<1>1. IInv => NoErrorOnShutdown
  BY DEF IInv
<1> QED
  BY <1>1, Invariance, PTL

-----------------------------------------------------------------------------
(* Each step of the stack is one of the part or leaves it alone.           *)

(* The stack drives the read loop only as Start, Stop, Close and the       *)
(* goroutines do (loop.go:45-132).                                         *)
THEOREM ImplementsReadLoop == SpecStack => Spec
<1>1. InitStack => Init
  BY DEF InitStack
<1>2. [NextStack]_stackVars => [Next]_vars
  <2> SUFFICES ASSUME [NextStack]_stackVars PROVE [Next]_vars
    OBVIOUS
  <2>1. CASE Open \/ Configure
    BY <2>1 DEF Open, Configure
  <2>2. CASE Own
    BY <2>2 DEF Own, Next
  <2>3. CASE CloseDevice
    BY <2>3 DEF CloseDevice, Next
  <2>4. CASE \E l \in Loops : Loop(l)
    BY <2>4 DEF Loop, Next
  <2>5. CASE \E p \in Packets : Dispatching(p) \/ Replying(p)
    BY <2>5 DEF Dispatching, Replying
  <2>6. CASE \E p \in Packets : NotHandled(p) \/ Handled(p)
    BY <2>6 DEF NotHandled, Handled, Next
  <2>7. CASE UNCHANGED stackVars
    BY <2>7 DEF stackVars
  <2> QED
    BY <2>1, <2>2, <2>3, <2>4, <2>5, <2>6, <2>7 DEF NextStack, Goroutine
<1> QED
  BY <1>1, <1>2, PTL DEF SpecStack, Spec

(* Read loop, handlers and owner use the dispatcher only by Dispatch,      *)
(* RegisterHandler and Stats (dispatcher.go:47-129).                       *)
THEOREM ImplementsDispatcher == SpecStack => D!Spec
<1>1. InitStack => D!Init
  BY DEF InitStack
<1>2. [NextStack]_stackVars => [D!Next]_(D!vars)
  <2> SUFFICES ASSUME [NextStack]_stackVars PROVE [D!Next]_(D!vars)
    OBVIOUS
  <2> USE DEF dispatchVars, D!vars, D!counterVars, D!registerVars
  <2>1. CASE Open \/ Own \/ CloseDevice
    BY <2>1 DEF Open, Own, CloseDevice
  <2>2. CASE Configure
    BY <2>2 DEF Configure, D!Next
  <2>3. CASE \E l \in Loops : Loop(l)
    BY <2>3 DEF Loop
  <2>4. CASE \E p \in Packets : Replying(p)
    BY <2>4 DEF Replying
  <2>5. CASE \E p \in Packets : Dispatching(p) \/ NotHandled(p) \/ Handled(p)
    BY <2>5 DEF Dispatching, NotHandled, Handled, D!Next
  <2>6. CASE UNCHANGED stackVars
    BY <2>6 DEF stackVars
  <2> QED
    BY <2>1, <2>2, <2>3, <2>4, <2>5, <2>6 DEF NextStack, Goroutine
<1> QED
  BY <1>1, <1>2, PTL DEF SpecStack, D!Spec

(* An interface is opened once and closed by its owner only; the read loop *)
(* leaves its descriptors alone (tun.go:43-112, raw.go:43-104).            *)
THEOREM ImplementsDevice == SpecStack => Device!Spec
<1>1. InitStack => Device!Init
  BY DEF InitStack
<1>2. [NextStack]_stackVars => [Device!Next]_(Device!vars)
  <2> SUFFICES ASSUME [NextStack]_stackVars PROVE [Device!Next]_(Device!vars)
    OBVIOUS
  <2> USE DEF deviceVars, Device!vars
  <2>1. CASE Open
    BY <2>1 DEF Open, Device!Next
  <2>2. CASE CloseDevice
    BY <2>2 DEF CloseDevice, Device!Next
  <2>3. CASE Own
    BY <2>3 DEF Own, Start, Stop, StopReturns, StopTimesOut, CancelParent, ioVars
  <2>4. CASE \E l \in Loops : Loop(l)
    BY <2>4 DEF Loop, LoopStep, Check, Block, ReadFails, Read, Interrupted, ioVars
  <2>5. CASE Configure
    BY <2>5 DEF Configure, vars, ioVars
  <2>6. CASE \E p \in Packets : Dispatching(p) \/ Replying(p)
    BY <2>6 DEF Dispatching, Replying, vars, ioVars
  <2>7. CASE \E p \in Packets : NotHandled(p) \/ Handled(p)
    BY <2>7 DEF NotHandled, Handled, Handle, ioVars
  <2>8. CASE UNCHANGED stackVars
    BY <2>8 DEF stackVars, vars, ioVars
  <2> QED
    BY <2>1, <2>2, <2>3, <2>4, <2>5, <2>6, <2>7, <2>8 DEF NextStack, Goroutine
<1> QED
  BY <1>1, <1>2, PTL DEF SpecStack, Device!Spec

-----------------------------------------------------------------------------
(* The loop.                                                               *)

(* Also with the goroutines of the packets around it, a Stop that returned *)
(* nil means that no loop reads (loop.go:117-132) ...                      *)
THEOREM StackStopQuiets == SpecStack => []QuietAfterStop
BY ImplementsReadLoop, StopQuiets, PTL

(* ... and a shutdown in order counts no error (loop.go:84-90).            *)
THEOREM StackShutdownIsNoError == SpecStack => []NoErrorOnShutdown
BY ImplementsReadLoop, ShutdownIsNoError, PTL

-----------------------------------------------------------------------------
(* The dispatcher.                                                         *)

\* The proofs speak of their own instance of Dispatcher.
LEMMA SameDispatcher == D!Spec => DProofs!Spec
<1> USE DEF D!Protocols, DProofs!Protocols
<1>1. D!Init => DProofs!Init
  BY DEF D!Init, DProofs!Init
<1>2. ASSUME NEW p
      PROVE  /\ D!Call(p) => DProofs!Call(p)
             /\ D!Count(p) => DProofs!Count(p)
             /\ D!Reject(p) => DProofs!Reject(p)
             /\ D!Find(p) => DProofs!Find(p)
             /\ D!Drop(p) => DProofs!Drop(p)
             /\ D!Dispatch(p) => DProofs!Dispatch(p)
             /\ D!Return(p) => DProofs!Return(p)
  BY DEF D!counterVars, DProofs!counterVars, D!registerVars, DProofs!registerVars,
         D!Call, DProofs!Call, D!Count, DProofs!Count, D!Reject, DProofs!Reject,
         D!Find, DProofs!Find, D!Drop, DProofs!Drop, D!Dispatch, DProofs!Dispatch,
         D!Return, DProofs!Return, D!Move, DProofs!Move, D!Bump, DProofs!Bump,
         D!HandlerFor, DProofs!HandlerFor, D!LatestFor, DProofs!LatestFor,
         D!Accepts, DProofs!Accepts, D!ProtocolOf, DProofs!ProtocolOf,
         D!Uint16, DProofs!Uint16
<1>3. ASSUME NEW h
      PROVE  D!Register(h) => DProofs!Register(h)
  BY DEF D!counterVars, DProofs!counterVars, D!Register, DProofs!Register,
         D!Put, DProofs!Put, D!Pending, DProofs!Pending, D!ProtocolOf, DProofs!ProtocolOf
<1>4. D!Load => DProofs!Load
  BY DEF D!registerVars, DProofs!registerVars, D!Load, DProofs!Load,
         D!Settled, DProofs!Settled, D!Counters, DProofs!Counters
<1>5. [D!Next]_(D!vars) => [DProofs!Next]_(DProofs!vars)
  BY <1>2, <1>3, <1>4 DEF D!Next, DProofs!Next, D!vars, DProofs!vars,
         D!counterVars, DProofs!counterVars, D!registerVars, DProofs!registerVars
<1> QED
  BY <1>1, <1>5, PTL DEF D!Spec, DProofs!Spec

LEMMA PacketsFinite == DProofs!IsFiniteSet(Packets)
BY FiniteAssumption DEF IsFiniteSet, DProofs!IsFiniteSet

(* Every packet that the loop handed over is counted as received and, once *)
(* its outcome is known, by that outcome (dispatcher.go:62-117).           *)
THEOREM StackBalanced == SpecStack => []CountersBalance
<1>1. DProofs!Spec => []DProofs!CountersBalance
  BY PacketsFinite, DProofs!Balanced
<1>2. DProofs!CountersBalance => CountersBalance
  BY DEF CountersBalance, D!CountersBalance, DProofs!CountersBalance, D!In, DProofs!In,
         D!Cardinality, DProofs!Cardinality, D!IsFiniteSet, DProofs!IsFiniteSet
<1> QED
  BY <1>1, <1>2, ImplementsDispatcher, SameDispatcher, PTL

(* Stats, called while packets are dispatched, loses none that was settled *)
(* before and invents none (dispatcher.go:122-129).                        *)
THEOREM StackSnapshotsBounded == SpecStack => []SnapshotWithinCall
<1>1. DProofs!Spec => []DProofs!SnapshotWithinCall
  BY PacketsFinite, DProofs!SnapshotsBounded
<1>2. DProofs!SnapshotWithinCall => SnapshotWithinCall
  BY DEF SnapshotWithinCall, D!SnapshotWithinCall, DProofs!SnapshotWithinCall
<1> QED
  BY <1>1, <1>2, ImplementsDispatcher, SameDispatcher, PTL

(* A handler registered before a packet was handed over is not missed      *)
(* (dispatcher.go:47-56, 105-112).                                         *)
THEOREM StackLatestHandlerUsed == SpecStack => []HandlerInForce
<1>1. DProofs!HandlerInForce => HandlerInForce
  BY DEF HandlerInForce, D!HandlerInForce, DProofs!HandlerInForce
<1> QED
  BY <1>1, DProofs!LatestHandlerUsed, ImplementsDispatcher, SameDispatcher, PTL

-----------------------------------------------------------------------------
(* The two together.                                                       *)

(* A packet not read yet is not dispatched, and its goroutine is over when *)
(* its Dispatch is.                                                        *)
Together ==
  /\ dispatch \in [Packets -> DProofs!Stages]
  /\ \A p \in input : dispatch[p] = "none"
  /\ \A p \in Packets : p \in handled <=> dispatch[p] \in {"invalid", "dropped", "returned"}

LEMMA TogetherInvariance == SpecStack => []Together
<1>1. InitStack => Together
  BY DEF InitStack, Init, D!Init, Together, DProofs!Stages
<1>2. IInv /\ Together /\ [NextStack]_stackVars => Together'
  <2> SUFFICES ASSUME IInv, Together, [NextStack]_stackVars PROVE Together'
    OBVIOUS
  <2>1. /\ input \subseteq Packets /\ handling \subseteq Packets
        /\ input \cap (handling \cup handled) = {} /\ handling \cap handled = {}
    BY DEF IInv, TypeOK, PacketsOnce
  <2>2. CASE Open \/ Own \/ CloseDevice \/ Configure
    BY <2>2 DEF Open, Own, CloseDevice, Configure, D!Register, D!Load, Together,
                dispatchVars, vars, ioVars, handlerVars,
                Start, Stop, StopReturns, StopTimesOut, CancelParent, Close
  <2>3. CASE \E l \in Loops : Loop(l)
    <3> PICK l \in Loops : Loop(l)
      BY <2>3
    <3>1. dispatch' = dispatch /\ handled' = handled
      BY DEF Loop, dispatchVars, LoopStep, Check, Block, ReadFails, Read, Interrupted, handlerVars
    <3>2. input' \subseteq input
      BY DEF Loop, LoopStep, Check, Block, ReadFails, Read, Interrupted, ioVars
    <3> QED
      BY <3>1, <3>2 DEF Together
  <2>4. CASE \E p \in Packets : Dispatching(p)
    <3> PICK p \in Packets : Dispatching(p)
      BY <2>4
    <3>1. /\ p \notin input /\ p \notin handled /\ UNCHANGED <<input, handled>>
          /\ \A q \in Packets \ {p} : dispatch'[q] = dispatch[q]
          /\ dispatch' \in [Packets -> DProofs!Stages]
          /\ dispatch'[p] \in {"called", "counted", "found", "handling"}
      BY <2>1 DEF Dispatching, D!Call, D!Count, D!Find, D!Dispatch, D!Move, Together,
                  DProofs!Stages, vars, ioVars, handlerVars
    <3> QED
      BY <2>1, <3>1 DEF Together
  <2>5. CASE \E p \in Packets : NotHandled(p) \/ Handled(p)
    <3> PICK p \in Packets : NotHandled(p) \/ Handled(p)
      BY <2>5
    <3>1. /\ p \notin input /\ input' = input /\ handled' = handled \cup {p}
          /\ \A q \in Packets \ {p} : dispatch'[q] = dispatch[q]
          /\ dispatch' \in [Packets -> DProofs!Stages]
          /\ dispatch'[p] \in {"invalid", "dropped", "returned"}
      BY <2>1 DEF NotHandled, Handled, Handle, D!Reject, D!Drop, D!Return, D!Move, Together,
                  DProofs!Stages, ioVars
    <3> QED
      BY <2>1, <3>1 DEF Together
  <2>6. CASE \E p \in Packets : Replying(p)
    BY <2>6 DEF Replying, Together, dispatchVars, vars, ioVars, handlerVars
  <2>7. CASE UNCHANGED stackVars
    BY <2>7 DEF stackVars, Together, dispatchVars, vars, ioVars, handlerVars
  <2> QED
    BY <2>2, <2>3, <2>4, <2>5, <2>6, <2>7 DEF NextStack, Goroutine
<1> QED
  BY <1>1, <1>2, ImplementsReadLoop, Invariance, PTL DEF SpecStack

(* What the loop counts as read and what the dispatcher counts as received *)
(* and settled agree (loop.go:79-106, dispatcher.go:62-117).               *)
THEOREM StackAccounts == SpecStack => []PacketsAccounted
<1>1. DProofs!Spec => []DProofs!CountInv
  BY PacketsFinite, DProofs!CountInvariance
<1>2. IInv /\ Together /\ DProofs!CountInv => PacketsAccounted
  <2> SUFFICES ASSUME IInv, Together, DProofs!CountInv PROVE PacketsAccounted
    OBVIOUS
  <2> DEFINE Received == {p \in Packets : dispatch[p] \in
                 {"counted", "found", "handling", "invalid", "dropped", "returned"}}
             Between == {p \in Packets : dispatch[p] \in {"counted", "found"}}
  <2>1. /\ count["received"] = Cardinality(Received)
        /\ count["received"] = D!Settled + Cardinality(Between)
    BY DEF DProofs!CountInv, DProofs!CountersBalance, DProofs!OneOutcome, DProofs!In,
           D!Settled, DProofs!Settled, Cardinality, DProofs!Cardinality,
           IsFiniteSet, DProofs!IsFiniteSet
  <2>2. /\ packetsRead = Cardinality(handling \cup handled)
        /\ input \cup handling \cup handled = Packets
    BY DEF IInv, TypeOK
  <2>3. D!Settled \in Nat
    BY DEF DProofs!CountInv, DProofs!TypeOK, DProofs!CounterNames, D!Settled
  <2>4. Received \subseteq handling \cup handled
    BY <2>2 DEF Together
  <2>5. Cardinality(Received) <= Cardinality(handling \cup handled)
    <3>1. IsFiniteSet(handling \cup handled)
      BY <2>2, FS_Subset, FiniteAssumption
    <3> QED
      BY <2>4, <3>1, FS_Subset
  <2>6. ASSUME handling = {} PROVE packetsRead = D!Settled
    <3>1. Received = handling \cup handled /\ Between = {}
      BY <2>2, <2>4, <2>6 DEF Together
    <3>2. Cardinality(Between) = 0
      BY <3>1, FS_EmptySet
    <3> QED
      BY <2>1, <2>2, <2>3, <3>1, <3>2
  <2> QED
    BY <2>1, <2>2, <2>5, <2>6 DEF PacketsAccounted
<1> QED
  BY <1>1, <1>2, ImplementsReadLoop, Invariance, TogetherInvariance,
     ImplementsDispatcher, SameDispatcher, PTL

-----------------------------------------------------------------------------
(* The device.                                                             *)

(* While Open makes its calls, it holds nothing before the first and at    *)
(* most the device and the socket after it.                                *)
DescriptorsInv ==
  /\ device \in Device!Kinds /\ calls \in Nat
  /\ descriptors \subseteq {"device", "socket"}
  /\ opened = "opening" /\ calls = 0 => descriptors = {}
  /\ NoDescriptorLeak

\* Every call opens one of the two, and each but the first closes the device.
LEMMA StepsClose ==
  ASSUME device \in Device!Kinds, NEW i \in Nat, i < Len(Device!Calls)
  PROVE  /\ Device!Calls[i + 1].opens \subseteq {"device", "socket"}
         /\ i # 0 => Device!Calls[i + 1].closes = {"device"}
<1>1. CASE device = "tun"
  <2>1. Device!Calls = Device!OpenTUN
    BY <1>1 DEF Device!Calls
  <2>2. i \in {0, 1, 2, 3, 4, 5}
    BY <2>1 DEF Device!OpenTUN
  <2> QED
    BY <2>1, <2>2 DEF Device!OpenTUN, Device!Step
<1>2. CASE device = "raw"
  <2>1. Device!Calls = Device!OpenRaw
    BY <1>2 DEF Device!Calls
  <2>2. i \in {0, 1, 2, 3}
    BY <2>1 DEF Device!OpenRaw
  <2> QED
    BY <2>1, <2>2 DEF Device!OpenRaw, Device!Step
<1>3. CASE device = "pipe"
  <2>1. Len(Device!Calls) = 0
    BY <1>3 DEF Device!Calls
  <2> QED
    BY <2>1
<1> QED
  BY <1>1, <1>2, <1>3 DEF Device!Kinds

(* An Open that failed holds no descriptor, and one that succeeded only    *)
(* that of the device (tun.go:43-88, raw.go:43-63).                        *)
THEOREM StackLeaksNoDescriptor == SpecStack => []NoDescriptorLeak
<1> USE DEF NoDescriptorLeak, Device!NoDescriptorLeak
<1>1. Device!Init => DescriptorsInv
  BY DEF Device!Init, DescriptorsInv
<1>2. DescriptorsInv /\ [Device!Next]_(Device!vars) => DescriptorsInv'
  <2> SUFFICES ASSUME DescriptorsInv, [Device!Next]_(Device!vars) PROVE DescriptorsInv'
    OBVIOUS
  <2>1. CASE Device!OpenCall
    <3>1. Device!Calls[calls + 1].opens \subseteq {"device", "socket"}
      BY <2>1, StepsClose DEF DescriptorsInv, Device!OpenCall
    <3>2. calls' \in Nat /\ calls' # 0
      BY <2>1 DEF DescriptorsInv, Device!OpenCall
    <3>3. descriptors' = descriptors \cup Device!Calls[calls + 1].opens
      BY <2>1 DEF Device!OpenCall
    <3>4. device' = device /\ opened' = "opening"
      BY <2>1 DEF Device!OpenCall
    <3> QED
      BY <3>1, <3>2, <3>3, <3>4 DEF DescriptorsInv
  <2>2. CASE Device!OpenFails
    <3>1. descriptors # {} => Device!Calls[calls + 1].closes = {"device"}
      BY <2>2, StepsClose DEF DescriptorsInv, Device!OpenFails
    <3> QED
      BY <2>2, <3>1 DEF DescriptorsInv, Device!OpenFails, Device!Returned
  <2>3. CASE Device!OpenReturns
    BY <2>3 DEF DescriptorsInv, Device!OpenReturns, Device!Returned
  <2>4. CASE Device!Close
    BY <2>4 DEF DescriptorsInv, Device!Close
  <2>5. CASE UNCHANGED Device!vars
    BY <2>5 DEF DescriptorsInv, Device!vars
  <2> QED
    BY <2>1, <2>2, <2>3, <2>4, <2>5 DEF Device!Next
<1>3. DescriptorsInv => NoDescriptorLeak
  BY DEF DescriptorsInv
<1> QED
  BY <1>1, <1>2, <1>3, ImplementsDevice, PTL DEF Device!Spec

-----------------------------------------------------------------------------
(* Messages of ICMP.                                                       *)

Message(type, code, sum, ident, seq, data) ==
  <<type, code>> \o Bytes16(sum) \o Bytes16(ident) \o Bytes16(seq) \o data

SaysMessage(x, type, code, sum, ident, seq, data) ==
  /\ x \in Seq(Byte) /\ Len(x) = 8 + Len(data)
  /\ x[1] = type /\ x[2] = code /\ x[3] * 256 + x[4] = sum
  /\ x[5] = Bytes16(ident)[1] /\ x[6] = Bytes16(ident)[2]
  /\ x[5] * 256 + x[6] = ident
  /\ x[7] = Bytes16(seq)[1] /\ x[8] = Bytes16(seq)[2]
  /\ x[7] * 256 + x[8] = seq
  /\ \A i \in 1 .. Len(data) : x[8 + i] = data[i]

LEMMA MessageBytes ==
  ASSUME NEW type \in Byte, NEW code \in Byte,
         NEW sum \in Word, NEW ident \in Word, NEW seq \in Word, NEW data \in Seq(Byte),
         NEW x, x = Message(type, code, sum, ident, seq, data)
  PROVE  SaysMessage(x, type, code, sum, ident, seq, data)
<1>1. PICK a : a = <<type, code>>
  OBVIOUS
<1>2. PICK b, c, d : b = Bytes16(sum) /\ c = Bytes16(ident) /\ d = Bytes16(seq)
  OBVIOUS
<1>3. a \in Seq(Byte) /\ Len(a) = 2 /\ a[1] = type /\ a[2] = code
  BY <1>1
<1>4. /\ b \in Seq(Byte) /\ Len(b) = 2 /\ b[1] * 256 + b[2] = sum
      /\ c \in Seq(Byte) /\ Len(c) = 2 /\ c[1] * 256 + c[2] = ident
      /\ d \in Seq(Byte) /\ Len(d) = 2 /\ d[1] * 256 + d[2] = seq
  BY <1>2, BytesOfWord
<1>5. PICK s2 : s2 = a \o b
  OBVIOUS
<1>6. PICK s3 : s3 = s2 \o c
  OBVIOUS
<1>7. PICK s4 : s4 = s3 \o d
  OBVIOUS
<1>8. PICK s5 : s5 = s4 \o data
  OBVIOUS
<1>9. /\ s2 \in Seq(Byte) /\ Len(s2) = 4 /\ s2[3] = b[1] /\ s2[4] = b[2]
      /\ \A i \in 1 .. 2 : s2[i] = a[i]
  <2>1. Joins(s2, a, b, Byte)
    BY <1>3, <1>4, <1>5, Joined
  <2>2. Len(a) = 2 /\ Len(b) = 2 /\ 1 \in 1 .. Len(b) /\ 2 \in 1 .. Len(b)
    BY <1>3, <1>4
  <2> QED
    BY <2>1, <2>2 DEF Joins
<1>10. /\ s3 \in Seq(Byte) /\ Len(s3) = 6 /\ s3[5] = c[1] /\ s3[6] = c[2]
       /\ \A i \in 1 .. 4 : s3[i] = s2[i]
  <2>1. Joins(s3, s2, c, Byte)
    BY <1>4, <1>6, <1>9, Joined
  <2>2. Len(s2) = 4 /\ Len(c) = 2 /\ 1 \in 1 .. Len(c) /\ 2 \in 1 .. Len(c)
    BY <1>4, <1>9
  <2> QED
    BY <2>1, <2>2 DEF Joins
<1>11. /\ s4 \in Seq(Byte) /\ Len(s4) = 8 /\ s4[7] = d[1] /\ s4[8] = d[2]
       /\ \A i \in 1 .. 6 : s4[i] = s3[i]
  <2>1. Joins(s4, s3, d, Byte)
    BY <1>4, <1>7, <1>10, Joined
  <2>2. Len(s3) = 6 /\ Len(d) = 2 /\ 1 \in 1 .. Len(d) /\ 2 \in 1 .. Len(d)
    BY <1>4, <1>10
  <2> QED
    BY <2>1, <2>2 DEF Joins
<1>12. /\ s5 \in Seq(Byte) /\ Len(s5) = 8 + Len(data)
       /\ \A i \in 1 .. 8 : s5[i] = s4[i]
       /\ \A i \in 1 .. Len(data) : s5[8 + i] = data[i]
  <2>1. Joins(s5, s4, data, Byte)
    BY <1>8, <1>11, Joined
  <2> QED
    BY <1>11, <2>1 DEF Joins
<1>13. x = s5
  BY <1>1, <1>2, <1>5, <1>6, <1>7, <1>8 DEF Message
<1>14. /\ s5[1] = a[1] /\ s5[2] = a[2] /\ s5[3] = b[1] /\ s5[4] = b[2]
       /\ s5[5] = c[1] /\ s5[6] = c[2] /\ s5[7] = d[1] /\ s5[8] = d[2]
  BY <1>9, <1>10, <1>11, <1>12
<1> QED
  BY <1>2, <1>3, <1>4, <1>12, <1>13, <1>14 DEF SaysMessage

\* A message with its checksum verifies.
LEMMA MessageVerifies ==
  ASSUME NEW type \in Byte, NEW code \in Byte,
         NEW ident \in Word, NEW seq \in Word, NEW data \in Seq(Byte),
         NEW sum, sum = Checksum(Message(type, code, 0, ident, seq, data)),
         NEW x, x = Message(type, code, sum, ident, seq, data)
  PROVE  SaysMessage(x, type, code, sum, ident, seq, data) /\ VerifyChecksum(x)
<1>1. PICK a : a = Message(type, code, 0, ident, seq, data)
  OBVIOUS
<1>2. 0 \in Word
  BY DEF Word, Below
<1>3. SaysMessage(a, type, code, 0, ident, seq, data)
  BY <1>1, <1>2, MessageBytes
<1>4. a \in Seq(Byte) /\ Len(a) = 8 + Len(data)
  BY <1>3 DEF SaysMessage
<1>5. sum = 65535 - Rest(Words(a)) /\ sum \in Word
  BY <1>1, <1>4, ChecksumIsRest
<1>6. SaysMessage(x, type, code, sum, ident, seq, data)
  BY <1>5, MessageBytes
<1>7. x \in Seq(Byte) /\ Len(x) = Len(a) /\ Len(a) \in Nat /\ Len(a) >= 8
  BY <1>4, <1>6 DEF SaysMessage
<1>8. a[3] = 0 /\ a[4] = 0
  <2>1. 3 \in 1 .. Len(a) /\ 4 \in 1 .. Len(a)
    BY <1>7
  <2>2. a[3] \in Byte /\ a[4] \in Byte
    BY <1>4, <2>1, Entries
  <2>3. a[3] * 256 + a[4] = 0
    BY <1>3 DEF SaysMessage
  <2> QED
    BY <2>2, <2>3 DEF Byte, Below
<1>9. \A i \in 1 .. Len(a) : i # 3 /\ i # 4 => x[i] = a[i]
  <2> TAKE i \in 1 .. Len(a)
  <2> HAVE i # 3 /\ i # 4
  <2>1. CASE i <= 8
    <3>1. i = 1 \/ i = 2 \/ i = 5 \/ i = 6 \/ i = 7 \/ i = 8
      BY <2>1
    <3>2. /\ x[1] = a[1] /\ x[2] = a[2] /\ x[5] = a[5] /\ x[6] = a[6]
          /\ x[7] = a[7] /\ x[8] = a[8]
      BY <1>3, <1>6 DEF SaysMessage
    <3> QED
      BY <3>1, <3>2
  <2>2. CASE i > 8
    <3>1. PICK j \in 1 .. Len(data) : i = 8 + j
      <4>1. i - 8 \in 1 .. Len(data) /\ i = 8 + (i - 8)
        BY <1>4, <2>2
      <4> QED
        BY <4>1
    <3>2. \A k \in 1 .. Len(data) : x[8 + k] = data[k]
      BY <1>6 DEF SaysMessage
    <3>3. \A k \in 1 .. Len(data) : a[8 + k] = data[k]
      BY <1>3 DEF SaysMessage
    <3> QED
      BY <3>1, <3>2, <3>3
  <2> QED
    BY <2>1, <2>2
<1>10. Rest(0 + Words(x)) = 65535
  <2> DEFINE k == 3
  <2>0. 0 + Words(a) = Words(a)
    BY <1>4, WeightedBytes
  <2>1. x[3] * 256 + x[4] = sum
    BY <1>6 DEF SaysMessage
  <2>2. /\ k \in 1 .. Len(a) /\ k + 1 \in 1 .. Len(a) /\ k % 2 = 1
        /\ \A i \in 1 .. Len(a) : i # k /\ i # k + 1 => x[i] = a[i]
        /\ a[k] = 0 /\ a[k + 1] = 0 /\ Len(x) = Len(a)
        /\ x[k] * 256 + x[k + 1] = 65535 - Rest(0 + Words(a))
    BY <1>5, <1>7, <1>8, <1>9, <2>0, <2>1
  <2> HIDE DEF k
  <2> QED
    BY <1>4, <1>7, <2>2, FieldCompletes
<1>11. VerifyChecksum(x)
  <2>1. 0 + Words(x) = Words(x)
    BY <1>7, WeightedBytes
  <2> QED
    BY <1>7, <1>10, <2>1, VerifiedBytes
<1> QED
  BY <1>6, <1>11

-----------------------------------------------------------------------------
(* Requests.                                                               *)

\* What Dispatch hands to the handler of p, and how long it is.
HeaderOf(packet) == 4 * (packet[1] % 16)
TotalOf(packet) == I!Uint16(packet, 3)

LEMMA RawBytes ==
  ASSUME NEW p \in Packets
  PROVE  /\ Raw[p] \in Seq(Byte) /\ Len(Raw[p]) \in Nat /\ Len(Raw[p]) <= Len(Offered[p])
         /\ Offered[p] \in Seq(Byte) /\ Len(Offered[p]) \in Nat
         /\ \A i \in 1 .. Len(Raw[p]) : Raw[p][i] = Offered[p][i]
<1> DEFINE n == IF Len(Offered[p]) < BufSize THEN Len(Offered[p]) ELSE BufSize
<1>1. Offered[p] \in Seq(Byte) /\ Len(Offered[p]) \in Nat
  BY OfferedAssumption
<1>2. n \in Nat /\ n <= Len(Offered[p])
  BY <1>1, SizeAssumption
<1>3. Raw[p] = SubSeq(Offered[p], 1, n)
  BY DEF Raw
<1> HIDE DEF n
<1>4. Raw[p] \in Seq(Byte) /\ Len(Raw[p]) = n /\ \A i \in 1 .. n : Raw[p][i] = Offered[p][i]
  BY <1>1, <1>2, <1>3, FirstOf
<1> QED
  BY <1>1, <1>2, <1>4

\* A packet that Dispatch accepts.
LEMMA AcceptedPacket ==
  ASSUME NEW r \in Seq(Byte), D!Accepts(r)
  PROVE  /\ Len(r) \in Nat /\ HeaderOf(r) \in Nat /\ TotalOf(r) \in Nat
         /\ TotalOf(r) <= 65535
         /\ 20 <= HeaderOf(r) /\ HeaderOf(r) <= TotalOf(r) /\ TotalOf(r) <= Len(r)
         /\ \E options \in 0 .. 10 : HeaderOf(r) = 20 + 4 * options /\ r[1] = 69 + options
         /\ D!PayloadOf(r) = SubSeq(r, HeaderOf(r) + 1, TotalOf(r))
<1>1. Len(r) \in Nat /\ Len(r) >= 20
  BY DEF D!Accepts
<1>2. r[1] \in Byte /\ r[3] \in Byte /\ r[4] \in Byte
  <2>1. 1 \in 1 .. Len(r) /\ 3 \in 1 .. Len(r) /\ 4 \in 1 .. Len(r)
    BY <1>1
  <2> QED
    BY <2>1, Entries
<1>3. PICK x \in Nat, y \in Nat, z \in Nat :
        x = r[1] /\ y = r[3] /\ z = r[4] /\ x < 256 /\ y < 256 /\ z < 256
  BY <1>2 DEF Byte, Below
<1>4. TotalOf(r) = y * 256 + z /\ TotalOf(r) \in Nat /\ TotalOf(r) <= 65535
  <2>1. TotalOf(r) = y * 256 + z
    BY <1>3 DEF TotalOf, I!Uint16
  <2>2. y \in Nat /\ z \in Nat /\ y <= 255 /\ z <= 255
    BY <1>3
  <2>3. y * 256 + z \in Nat /\ y * 256 + z <= 65535
    BY <2>2
  <2> QED
    BY <2>1, <2>3
<1>5. x \div 16 = 4 /\ (x % 16) * 4 >= 20
  BY <1>3 DEF D!Accepts
<1>6. PICK ihl \in Nat : ihl = x % 16 /\ ihl <= 15 /\ x = 64 + ihl /\ ihl >= 5
  BY <1>3, <1>5
<1>7. HeaderOf(r) = 4 * ihl /\ (r[1] % 16) * 4 = HeaderOf(r)
  BY <1>3, <1>6 DEF HeaderOf
<1>8. HeaderOf(r) \in Nat /\ 20 <= HeaderOf(r)
  BY <1>6, <1>7
<1>9. \E options \in 0 .. 10 : HeaderOf(r) = 20 + 4 * options /\ r[1] = 69 + options
  <2>1. PICK options \in 0 .. 10 : ihl = 5 + options
    <3>1. ihl - 5 \in 0 .. 10 /\ ihl = 5 + (ihl - 5)
      BY <1>6
    <3> QED
      BY <3>1
  <2>2. HeaderOf(r) = 20 + 4 * options /\ r[1] = 69 + options
    BY <1>3, <1>6, <1>7, <2>1
  <2> QED
    BY <2>2
<1>10. D!Uint16(r, 3) = TotalOf(r)
  BY DEF TotalOf, D!Uint16, I!Uint16
<1>11. HeaderOf(r) <= TotalOf(r) /\ TotalOf(r) <= Len(r)
  BY <1>7, <1>10 DEF D!Accepts
<1>12. D!PayloadOf(r) = SubSeq(r, HeaderOf(r) + 1, TotalOf(r))
  BY <1>7, <1>10 DEF D!PayloadOf
<1> QED
  BY <1>1, <1>4, <1>8, <1>9, <1>11, <1>12

LEMMA PartBytes ==
  ASSUME NEW S, NEW w \in Seq(S), NEW a \in Nat, NEW b \in Nat, a <= b, b <= Len(w),
         NEW v, v = SubSeq(w, a + 1, b)
  PROVE  v \in Seq(S) /\ Len(v) = b - a /\ \A i \in 1 .. b - a : v[i] = w[a + i]
<1>1. v = [i \in 1 .. b - a |-> w[a + i]]
  <2>1. v = [i \in 1 .. b - (a + 1) + 1 |-> w[i + (a + 1) - 1]]
    BY DEF SubSeq
  <2>2. b - (a + 1) + 1 = b - a
    OBVIOUS
  <2>3. \A i \in 1 .. b - a : i + (a + 1) - 1 = a + i
    OBVIOUS
  <2> QED
    BY <2>1, <2>2, <2>3
<1>2. \A i \in 1 .. b - a : w[a + i] \in S
  <2> TAKE i \in 1 .. b - a
  <2>1. a + i \in 1 .. Len(w)
    OBVIOUS
  <2> QED
    BY <2>1, Entries
<1>3. PICK n \in Nat : n = b - a
  OBVIOUS
<1>4. v \in [1 .. n -> S]
  BY <1>1, <1>2, <1>3
<1> QED
  BY <1>1, <1>3, <1>4

\* The message in a payload that was cut out of a packet: the bytes of both.
SameMessage(v, o, h, t) ==
  /\ v[1] = o[h + 1]
  /\ Echo!Uint16(v, 5) = I!Uint16(o, h + 5) /\ Echo!Uint16(v, 7) = I!Uint16(o, h + 7)
  /\ I!Uint16(o, h + 5) \in Word /\ I!Uint16(o, h + 7) \in Word
  /\ SubSeq(v, 9, Len(v)) = SubSeq(o, h + 9, t)
  /\ SubSeq(v, 9, Len(v)) \in Seq(Byte) /\ Len(SubSeq(v, 9, Len(v))) = t - h - 8

LEMMA MessageIn ==
  ASSUME NEW o \in Seq(Byte), NEW h \in Nat, NEW t \in Nat, h + 8 <= t, t <= Len(o),
         NEW v \in Seq(Byte), Len(v) = t - h, \A i \in 1 .. Len(v) : v[i] = o[h + i]
  PROVE  SameMessage(v, o, h, t)
<1>1. t - h \in Nat /\ t - h >= 8 /\ Len(o) \in Nat
  OBVIOUS
<1>2. /\ v[1] = o[h + 1] /\ v[5] = o[h + 5] /\ v[6] = o[h + 6]
      /\ v[7] = o[h + 7] /\ v[8] = o[h + 8]
  <2>1. /\ 1 \in 1 .. Len(v) /\ 5 \in 1 .. Len(v) /\ 6 \in 1 .. Len(v)
        /\ 7 \in 1 .. Len(v) /\ 8 \in 1 .. Len(v)
    BY <1>1
  <2> QED
    BY <2>1
<1>3. v[5] \in Byte /\ v[6] \in Byte /\ v[7] \in Byte /\ v[8] \in Byte
  <2>1. /\ 5 \in 1 .. Len(v) /\ 6 \in 1 .. Len(v)
        /\ 7 \in 1 .. Len(v) /\ 8 \in 1 .. Len(v)
    BY <1>1
  <2> QED
    BY <2>1, Entries
<1>4. /\ Echo!Uint16(v, 5) = I!Uint16(o, h + 5) /\ I!Uint16(o, h + 5) = v[5] * 256 + v[6]
      /\ Echo!Uint16(v, 7) = I!Uint16(o, h + 7) /\ I!Uint16(o, h + 7) = v[7] * 256 + v[8]
  <2>1. (h + 5) + 1 = h + 6 /\ (h + 7) + 1 = h + 8
    OBVIOUS
  <2> QED
    BY <1>2, <2>1 DEF Echo!Uint16, I!Uint16
<1>5. \A x, y \in Byte : x * 256 + y \in Word
  BY DEF Byte, Word, Below
<1>6. I!Uint16(o, h + 5) \in Word /\ I!Uint16(o, h + 7) \in Word
  BY <1>3, <1>4, <1>5
<1>7. PICK n \in Nat, a \in Nat, e \in Nat : n = Len(v) /\ a = h + 8 /\ e = 8
  BY <1>1
<1>8. PICK d, f : d = SubSeq(v, e + 1, n) /\ f = SubSeq(o, a + 1, t)
  OBVIOUS
<1>9. d \in Seq(Byte) /\ Len(d) = n - e /\ \A i \in 1 .. n - e : d[i] = v[e + i]
  <2>1. e <= n /\ n <= Len(v)
    BY <1>1, <1>7
  <2> QED
    BY <1>8, <2>1, PartBytes
<1>10. f \in Seq(Byte) /\ Len(f) = t - a /\ \A i \in 1 .. t - a : f[i] = o[a + i]
  <2>1. a \in Nat /\ t \in Nat /\ a <= t /\ t <= Len(o) /\ o \in Seq(Byte)
    BY <1>7
  <2>2. f = SubSeq(o, a + 1, t)
    BY <1>8
  <2> HIDE DEF Byte
  <2> QED
    BY <2>1, <2>2, PartBytes
<1>11. n - e = t - a /\ t - a = t - h - 8
  BY <1>1, <1>7
<1>12. \A i \in 1 .. n - e : d[i] = f[i]
  <2> TAKE i \in 1 .. n - e
  <2>1. e + i \in 1 .. Len(v) /\ h + (e + i) = a + i
    BY <1>1, <1>7
  <2>2. v[e + i] = o[a + i]
    BY <2>1
  <2> QED
    BY <1>9, <1>10, <1>11, <2>2
<1>13. d = f
  BY <1>9, <1>10, <1>11, <1>12, SameBytes
<1>14. d = SubSeq(v, 9, Len(v)) /\ f = SubSeq(o, h + 9, t)
  <2>1. e + 1 = 9 /\ a + 1 = h + 9
    BY <1>7
  <2> QED
    BY <1>7, <1>8, <2>1
<1> QED
  BY <1>2, <1>4, <1>6, <1>9, <1>11, <1>13, <1>14 DEF SameMessage

\* What the handler finds in a packet that Dispatch hands to it is what the
\* sender of the packet asked for.
LEMMA RequestRead ==
  ASSUME NEW p \in Packets, D!Accepts(Raw[p]), D!ProtocolOf(Raw[p]) = 1, Echo!IsRequest(p)
  PROVE  LET m == Echo!ParseEcho(D!PayloadOf(Raw[p]))
             asked == Asked[p]
         IN  /\ p \in DOMAIN Asked
             /\ D!SrcIP(Raw[p]) = asked.src /\ D!DstIP(Raw[p]) = asked.dst
             /\ m.ID = asked.id /\ m.Seq = asked.seq /\ m.Data = asked.data
             /\ asked.src \in Address /\ asked.dst \in Address
             /\ asked.id \in Word /\ asked.seq \in Word
             /\ asked.data \in Seq(Byte) /\ 28 + Len(asked.data) <= 65535
<1>1. PICK r, o : r = Raw[p] /\ o = Offered[p]
  OBVIOUS
<1>2. /\ r \in Seq(Byte) /\ Len(r) \in Nat /\ Len(r) <= Len(o)
      /\ o \in Seq(Byte) /\ Len(o) \in Nat /\ \A i \in 1 .. Len(r) : r[i] = o[i]
  BY <1>1, RawBytes
<1>3. /\ HeaderOf(r) \in Nat /\ TotalOf(r) \in Nat /\ TotalOf(r) <= 65535
      /\ 20 <= HeaderOf(r) /\ HeaderOf(r) <= TotalOf(r) /\ TotalOf(r) <= Len(r)
      /\ D!PayloadOf(r) = SubSeq(r, HeaderOf(r) + 1, TotalOf(r))
      /\ \E options \in 0 .. 10 : HeaderOf(r) = 20 + 4 * options /\ r[1] = 69 + options
  <2>1. D!Accepts(r)
    BY <1>1
  <2> QED
    BY <1>2, <2>1, AcceptedPacket
<1>4. PICK h \in Nat : h = HeaderOf(r)
  BY <1>3
<1>5. PICK t \in Nat : t = TotalOf(r)
  BY <1>3
<1>6. PICK options \in 0 .. 10 : HeaderOf(r) = 20 + 4 * options /\ r[1] = 69 + options
  BY <1>3
<1>7. /\ h \in Nat /\ t \in Nat /\ options \in 0 .. 10
      /\ h = HeaderOf(r) /\ t = TotalOf(r) /\ t <= 65535
      /\ 20 <= h /\ h <= t /\ t <= Len(r)
      /\ h = 20 + 4 * options /\ r[1] = 69 + options
      /\ D!PayloadOf(r) = SubSeq(r, h + 1, t)
  BY <1>3, <1>4, <1>5, <1>6
<1>8. PICK v : v = SubSeq(r, h + 1, t)
  OBVIOUS
<1>9. v \in Seq(Byte) /\ Len(v) = t - h /\ \A i \in 1 .. t - h : v[i] = r[h + i]
  BY <1>2, <1>7, <1>8, PartBytes
<1>10. \A i \in 1 .. Len(v) : v[i] = o[h + i]
  <2> TAKE i \in 1 .. Len(v)
  <2>1. i \in 1 .. t - h /\ h + i \in 1 .. Len(r)
    BY <1>2, <1>7, <1>9
  <2> QED
    BY <1>2, <1>9, <2>1
<1>11. /\ Len(v) >= 8 /\ v[1] = 8
      /\ Echo!ParseEcho(D!PayloadOf(Raw[p]))
           = [ok |-> TRUE, Type |-> v[1], Code |-> v[2], Checksum |-> Echo!Uint16(v, 3),
              ID |-> Echo!Uint16(v, 5), Seq |-> Echo!Uint16(v, 7),
              Data |-> SubSeq(v, 9, Len(v))]
  <2>1. D!PayloadOf(Raw[p]) = v
    BY <1>1, <1>7, <1>8
  <2>2. Echo!ParseEcho(v).ok /\ Echo!ParseEcho(v).Type = 8
    BY <2>1 DEF Echo!IsRequest, Echo!TypeEchoRequest
  <2>3. ~ Echo!TooShort(v) /\ v[1] \in {8, 0}
    BY <2>2 DEF Echo!ParseEcho, Echo!NotEcho, Echo!TypeEchoRequest, Echo!TypeEchoReply
  <2>4. Echo!ParseEcho(v)
          = [ok |-> TRUE, Type |-> v[1], Code |-> v[2], Checksum |-> Echo!Uint16(v, 3),
             ID |-> Echo!Uint16(v, 5), Seq |-> Echo!Uint16(v, 7),
             Data |-> SubSeq(v, 9, Len(v))]
    BY <2>3 DEF Echo!ParseEcho, Echo!TypeEchoRequest, Echo!TypeEchoReply
  <2>5. Len(v) >= 8
    BY <1>9, <2>3 DEF Echo!TooShort
  <2>6. v[1] = 8
    BY <2>2, <2>4
  <2> QED
    BY <2>1, <2>4, <2>5, <2>6
<1>12. h + 8 <= t
  <2>1. Len(v) = t - h /\ Len(v) >= 8 /\ h \in Nat /\ t \in Nat
    BY <1>7, <1>9, <1>11
  <2> QED
    BY <2>1
<1>13. /\ o[h + 1] = 8
      /\ Echo!Uint16(v, 5) = I!Uint16(o, h + 5) /\ Echo!Uint16(v, 7) = I!Uint16(o, h + 7)
      /\ I!Uint16(o, h + 5) \in Word /\ I!Uint16(o, h + 7) \in Word
      /\ SubSeq(v, 9, Len(v)) = SubSeq(o, h + 9, t)
      /\ SubSeq(v, 9, Len(v)) \in Seq(Byte) /\ Len(SubSeq(v, 9, Len(v))) = t - h - 8
  <2>1. t <= Len(o) /\ h + 8 <= t /\ h \in Nat /\ t \in Nat
    BY <1>2, <1>7, <1>12
  <2>2. o \in Seq(Byte) /\ v \in Seq(Byte) /\ Len(v) = t - h
    BY <1>2, <1>9
  <2>3. SameMessage(v, o, h, t)
    BY <1>10, <2>1, <2>2, MessageIn
  <2> QED
    BY <1>11, <2>3 DEF SameMessage
<1>14. /\ o[1] = 69 + options /\ o[10] = 1 /\ I!Uint16(o, 3) = t
       /\ SubSeq(o, 13, 16) = D!SrcIP(r) /\ SubSeq(o, 17, 20) = D!DstIP(r)
       /\ D!SrcIP(r) \in Address /\ D!DstIP(r) \in Address
  <2>1. Len(r) >= 20
    BY <1>2, <1>7
  <2>2. o[1] = r[1] /\ o[3] = r[3] /\ o[4] = r[4] /\ o[10] = r[10]
    BY <1>2, <2>1
  <2>3. r[10] = 1
    BY <1>1 DEF D!ProtocolOf
  <2>4. I!Uint16(o, 3) = t
    BY <1>7, <2>2 DEF TotalOf, I!Uint16
  <2>5. ASSUME NEW n \in Nat, n + 4 <= 20
        PROVE  /\ SubSeq(o, n + 1, n + 4) = SubSeq(r, n + 1, n + 4)
               /\ SubSeq(r, n + 1, n + 4) \in Address
    <3>1. PICK a, b : a = SubSeq(o, n + 1, n + 4) /\ b = SubSeq(r, n + 1, n + 4)
      OBVIOUS
    <3>2. PICK e \in Nat : e = n + 4
      BY <2>5
    <3>3. n <= e /\ e <= Len(o) /\ e <= Len(r) /\ e - n = 4
      BY <1>2, <2>1, <2>5, <3>2
    <3>4. a \in Seq(Byte) /\ Len(a) = e - n /\ \A i \in 1 .. e - n : a[i] = o[n + i]
      BY <1>2, <3>1, <3>2, <3>3, PartBytes
    <3>5. b \in Seq(Byte) /\ Len(b) = e - n /\ \A i \in 1 .. e - n : b[i] = r[n + i]
      BY <1>2, <3>1, <3>2, <3>3, PartBytes
    <3>6. \A i \in 1 .. e - n : r[n + i] = o[n + i]
      BY <1>2, <3>3
    <3>7. a = b
      BY <3>4, <3>5, <3>6, SameBytes
    <3> QED
      BY <3>1, <3>3, <3>5, <3>7 DEF Address
  <2>6. SubSeq(o, 12 + 1, 12 + 4) = SubSeq(r, 12 + 1, 12 + 4)
        /\ SubSeq(r, 12 + 1, 12 + 4) \in Address
    <3>1. PICK n \in Nat : n = 12
      OBVIOUS
    <3> QED
      BY <2>5, <3>1
  <2>7. SubSeq(o, 16 + 1, 16 + 4) = SubSeq(r, 16 + 1, 16 + 4)
        /\ SubSeq(r, 16 + 1, 16 + 4) \in Address
    <3>1. PICK n \in Nat : n = 16
      OBVIOUS
    <3> QED
      BY <2>5, <3>1
  <2> QED
    BY <1>7, <2>2, <2>3, <2>4, <2>6, <2>7 DEF D!SrcIP, D!DstIP
<1>15. PICK size \in 0 .. Len(o) : t = h + 8 + size
  <2>1. t - h - 8 \in 0 .. Len(o) /\ t = h + 8 + (t - h - 8)
    BY <1>2, <1>7, <1>12
  <2> QED
    BY <2>1
<1>16. Carries(o, options, size)
  BY <1>2, <1>7, <1>13, <1>14, <1>15 DEF Carries, I!ProtoICMP, Echo!TypeEchoRequest
<1>17. p \in DOMAIN Asked
  BY <1>1, <1>16, AskedAssumption
<1>18. PICK words \in 0 .. 10, bytes \in 0 .. Len(o) :
         Carries(o, words, bytes) /\ Asked[p] = Meant(o, words, bytes)
  BY <1>1, <1>17, AskedAssumption
<1>19. words = options /\ bytes = size
  <2>1. 69 + words = 69 + options
    BY <1>14, <1>18 DEF Carries
  <2>2. words = options
    BY <2>1
  <2>3. 20 + 4 * words + 8 + bytes = t
    BY <1>14, <1>18 DEF Carries
  <2> QED
    BY <1>7, <1>15, <2>2, <2>3
<1>20. Asked[p] = [src |-> D!SrcIP(r), dst |-> D!DstIP(r), id |-> I!Uint16(o, h + 5),
                   seq |-> I!Uint16(o, h + 7), data |-> SubSeq(o, h + 9, t)]
  <2>1. 20 + 4 * words = h /\ h + 8 + bytes = t
    BY <1>7, <1>15, <1>19
  <2>2. Asked[p] = [src |-> SubSeq(o, 13, 16), dst |-> SubSeq(o, 17, 20),
                    id |-> I!Uint16(o, h + 5), seq |-> I!Uint16(o, h + 7),
                    data |-> SubSeq(o, h + 9, t)]
    BY <1>18, <2>1 DEF Meant
  <2> QED
    BY <1>14, <2>2
<1>21. 28 + Len(SubSeq(o, h + 9, t)) <= 65535
  <2>1. h \in Nat /\ t \in Nat /\ 20 <= h /\ t <= 65535
    BY <1>7
  <2>2. PICK data, part : data = SubSeq(o, h + 9, t) /\ part = SubSeq(v, 9, Len(v))
    OBVIOUS
  <2>3. Len(part) = t - h - 8 /\ part = data
    BY <1>13, <2>2
  <2>4. 28 + Len(data) <= 65535
    BY <2>1, <2>3
  <2> QED
    BY <2>2, <2>4
<1>22. PICK asked : asked = Asked[p]
  OBVIOUS
<1>23. /\ asked.src = D!SrcIP(r) /\ asked.dst = D!DstIP(r)
       /\ asked.id = I!Uint16(o, h + 5) /\ asked.seq = I!Uint16(o, h + 7)
       /\ asked.data = SubSeq(o, h + 9, t)
  <2>1. PICK src, dst, id0, seq, data :
          /\ src = D!SrcIP(r) /\ dst = D!DstIP(r)
          /\ id0 = I!Uint16(o, h + 5) /\ seq = I!Uint16(o, h + 7) /\ data = SubSeq(o, h + 9, t)
    OBVIOUS
  <2>2. asked = [src |-> src, dst |-> dst, id |-> id0, seq |-> seq, data |-> data]
    BY <1>20, <1>22, <2>1
  <2>3. /\ asked.src = src /\ asked.dst = dst
        /\ asked.id = id0 /\ asked.seq = seq /\ asked.data = data
    BY <2>2
  <2> QED
    BY <2>1, <2>3
<1>24. PICK m : m = Echo!ParseEcho(D!PayloadOf(Raw[p]))
  OBVIOUS
<1>25. /\ m.ID = Echo!Uint16(v, 5) /\ m.Seq = Echo!Uint16(v, 7)
       /\ m.Data = SubSeq(v, 9, Len(v))
  BY <1>11, <1>24
<1>26. asked.data \in Seq(Byte) /\ 28 + Len(asked.data) <= 65535
  <2>1. SubSeq(o, h + 9, t) \in Seq(Byte)
    BY <1>13
  <2>2. PICK data : data = SubSeq(o, h + 9, t)
    OBVIOUS
  <2> QED
    BY <1>21, <1>23, <2>1, <2>2
<1>27. m.ID = asked.id /\ m.Seq = asked.seq /\ m.Data = asked.data
  BY <1>13, <1>23, <1>25
<1>28. asked.src \in Address /\ asked.dst \in Address /\ asked.id \in Word /\ asked.seq \in Word
  BY <1>13, <1>14, <1>23
<1> QED
  BY <1>1, <1>17, <1>22, <1>23, <1>24, <1>26, <1>27, <1>28

-----------------------------------------------------------------------------
(* Replies.                                                                *)

\* The dispatcher and the handler compute as the builder does.
LEMMA SameInParts ==
  /\ \A n : Echo!Bytes16(n) = Bytes16(n)
  /\ \A b, i : Echo!Uint16(b, i) = I!Uint16(b, i) /\ D!Uint16(b, i) = I!Uint16(b, i)
  /\ \A data : Echo!Checksum(data) = Checksum(data)
  /\ \A data : D!VerifyChecksum(data) = VerifyChecksum(data)
<1>1. \A n : Echo!Bytes16(n) = Bytes16(n)
  BY DEF Echo!Bytes16, Bytes16
<1>2. \A b, i : Echo!Uint16(b, i) = I!Uint16(b, i) /\ D!Uint16(b, i) = I!Uint16(b, i)
  BY DEF Echo!Uint16, D!Uint16, I!Uint16
<1>3. \A n : Echo!Fold(n) = Fold(n) /\ D!Fold(n) = Fold(n)
  BY DEF Echo!Fold, D!Fold, Fold
<1>4. \A data : Echo!Words(data) = Words(data) /\ D!Words(data) = Words(data)
  BY DEF Echo!Words, Echo!Total, D!Words, D!Total, Words, Total
<1>5. \A n : Echo!Not16(n) = Not16(n) /\ D!Not16(n) = Not16(n)
  BY DEF Echo!Not16, D!Not16, Not16
<1>6. \A data : Echo!Checksum(data) = Checksum(data) /\ D!Checksum(data) = Checksum(data)
  BY <1>3, <1>4, <1>5 DEF Echo!Checksum, D!Checksum, Checksum
<1> QED
  BY <1>1, <1>2, <1>6 DEF D!VerifyChecksum, VerifyChecksum

LEMMA SameBuild ==
  ASSUME NEW src, NEW dst, NEW n, NEW data
  PROVE  Echo!Build(src, dst, 1, n, data)
           = I!BuildWithOptions(src, dst, 1, I!NewContext(n), data)
<1>1. Echo!MinHeaderLen = I!MinHeaderLen
  BY DEF Echo!MinHeaderLen, I!MinHeaderLen
<1>2. \A b : Echo!Checksum(b) = I!Checksum(b)
  BY SameInParts, SameInIp
<1>3. \A h : Echo!Marshal(h) = I!Marshal(h)
  BY DEF Echo!Marshal, I!Marshal, Echo!Bytes16, I!Bytes16, Echo!Address, I!Address,
         Echo!FlagsInPlace, I!FlagsInPlace, Echo!HeaderLen, I!HeaderLen,
         Echo!MinHeaderLen, I!MinHeaderLen, Echo!BytesNeeded, I!BytesNeeded,
         Echo!Panic, I!Panic
<1>4. \A context, sum : Echo!Built(src, dst, 1, context, data, sum)
                        = I!Built(src, dst, 1, context, data, sum)
  BY <1>1 DEF Echo!Built, I!Built
<1>5. Echo!NewContext(n) = I!NewContext(n)
  BY DEF Echo!NewContext, I!NewContext
<1>6. Echo!PacketTooLarge = I!PacketTooLarge
  BY DEF Echo!PacketTooLarge, I!PacketTooLarge
<1> QED
  BY <1>1, <1>2, <1>3, <1>4, <1>5, <1>6
  DEF Echo!Build, Echo!BuildWithOptions, I!BuildWithOptions

\* The reply's message: of type 0 and code 0, with its checksum.
LEMMA ReplyMessage ==
  ASSUME NEW req, NEW ident \in Word, NEW seq \in Word, NEW data \in Seq(Byte),
         req.ID = ident, req.Seq = seq, req.Data = data
  PROVE  Echo!MarshalEcho(Echo!NewEchoReply(req))
           = Message(0, 0, Checksum(Message(0, 0, 0, ident, seq, data)), ident, seq, data)
<1>1. PICK m : m = Echo!NewEchoReply(req)
  OBVIOUS
<1>2. m.Type = 0 /\ m.Code = 0 /\ m.ID = ident /\ m.Seq = seq /\ m.Data = data
  BY <1>1 DEF Echo!NewEchoReply, Echo!TypeEchoReply
<1>3. ASSUME NEW sum
      PROVE  <<m.Type, m.Code>> \o Echo!Bytes16(sum) \o Echo!Bytes16(m.ID)
               \o Echo!Bytes16(m.Seq) \o m.Data
               = Message(0, 0, sum, ident, seq, data)
  BY <1>2, SameInParts DEF Message
<1>4. Echo!MarshalEcho(m)
        = Message(0, 0, Echo!Checksum(Message(0, 0, 0, ident, seq, data)), ident, seq, data)
  BY <1>3 DEF Echo!MarshalEcho
<1> QED
  BY <1>1, <1>4, SameInParts

\* What the handler writes for a request that Dispatch handed to it.
LEMMA ReplyAnswers ==
  ASSUME NEW p \in Packets, D!Accepts(Raw[p]), D!ProtocolOf(Raw[p]) = 1, Echo!IsRequest(p),
         id[p] \in Word
  PROVE  p \in DOMAIN Asked /\ Answers(Echo!EchoReply(p), Asked[p])
<1>1. PICK asked, m : asked = Asked[p] /\ m = Echo!ParseEcho(D!PayloadOf(Raw[p]))
  OBVIOUS
<1>2. /\ p \in DOMAIN Asked
      /\ D!SrcIP(Raw[p]) = asked.src /\ D!DstIP(Raw[p]) = asked.dst
      /\ m.ID = asked.id /\ m.Seq = asked.seq /\ m.Data = asked.data
      /\ asked.src \in Address /\ asked.dst \in Address
      /\ asked.id \in Word /\ asked.seq \in Word
      /\ asked.data \in Seq(Byte) /\ 28 + Len(asked.data) <= 65535
  BY <1>1, RequestRead
<1>3. PICK ident, seq, data : ident = asked.id /\ seq = asked.seq /\ data = asked.data
  OBVIOUS
<1>4. ident \in Word /\ seq \in Word /\ data \in Seq(Byte) /\ 28 + Len(data) <= 65535
  BY <1>2, <1>3
<1>5. PICK x, sum : /\ x = Echo!MarshalEcho(Echo!NewEchoReply(m))
                    /\ sum = Checksum(Message(0, 0, 0, ident, seq, data))
  OBVIOUS
<1>6. x = Message(0, 0, sum, ident, seq, data)
  <2>1. m.ID = ident /\ m.Seq = seq /\ m.Data = data
    BY <1>2, <1>3
  <2> QED
    BY <1>4, <1>5, <2>1, ReplyMessage
<1>7. SaysMessage(x, 0, 0, sum, ident, seq, data) /\ VerifyChecksum(x)
  <2>1. 0 \in Byte
    BY DEF Byte, Below
  <2> QED
    BY <1>4, <1>5, <1>6, <2>1, MessageVerifies
<1>8. x \in Seq(Byte) /\ Len(x) = 8 + Len(data)
  BY <1>7 DEF SaysMessage
<1>9. 20 + Len(x) <= MaxPacket
  BY <1>4, <1>8, SizeAssumption
<1>10. PICK src, dst : src = asked.dst /\ dst = asked.src
  OBVIOUS
<1>11. PICK w : w = Echo!EchoReply(p)
  OBVIOUS
<1>12. w = I!BuildWithOptions(src, dst, 1, I!NewContext(id[p]), x)
  <2>1. w = Echo!Build(src, dst, 1, id[p], x)
    BY <1>1, <1>2, <1>5, <1>10, <1>11 DEF Echo!EchoReply, Echo!ProtoICMP
  <2> QED
    BY <2>1, SameBuild
<1>13. BuiltFor(w, src, dst, 1, x)
  <2>1. PICK context : context = I!NewContext(id[p])
    OBVIOUS
  <2>2. context \in ContextSet
    BY <2>1 DEF I!NewContext, ContextSet, Byte, Below
  <2>3. 1 \in Byte
    BY DEF Byte, Below
  <2>4. src \in Address /\ dst \in Address
    BY <1>2, <1>10
  <2> QED
    BY <1>8, <1>9, <1>12, <2>1, <2>2, <2>3, <2>4, BuiltBytes
<1>14. /\ w \in Seq(Byte) /\ Len(w) = 20 + Len(x) /\ w[1] = 69 /\ D!Uint16(w, 3) = Len(w)
       /\ SubSeq(w, 13, 16) = src /\ SubSeq(w, 17, 20) = dst
       /\ SubSeq(w, 20 + 1, Len(w)) = x /\ D!VerifyChecksum(SubSeq(w, 1, 20))
  BY <1>13, SameInParts DEF BuiltFor, Behind
<1>15. (w[1] % 16) * 4 = 20 /\ w[1] \div 16 = 4
  BY <1>14
<1>16. Len(x) \in Nat /\ Len(w) \in Nat
  BY <1>8, <1>14
<1>17. D!Accepts(w)
  <2>1. Len(w) >= 20
    BY <1>14, <1>16
  <2> QED
    BY <1>14, <1>15, <1>16, <2>1 DEF D!Accepts
<1>18. D!PayloadOf(w) = x
  BY <1>14, <1>15 DEF D!PayloadOf
<1>19. SubSeq(x, 9, Len(x)) = data
  <2>1. PICK n \in Nat : n = 8
    OBVIOUS
  <2>2. Len(x) = n + Len(data) /\ \A i \in 1 .. Len(data) : x[n + i] = data[i]
    BY <1>7, <2>1 DEF SaysMessage
  <2>3. SubSeq(x, n + 1, Len(x)) = data
    BY <1>4, <1>8, <2>2, EndOf
  <2> QED
    BY <2>1, <2>3
<1>20. PICK read : read = Echo!ParseEcho(x)
  OBVIOUS
<1>21. /\ read.ok /\ read.Type = Echo!TypeEchoReply
       /\ read.ID = ident /\ read.Seq = seq /\ read.Data = data
  <2>1. ~ Echo!TooShort(x)
    BY <1>4, <1>8 DEF Echo!TooShort
  <2>2. x[1] = 0 /\ Echo!Uint16(x, 5) = ident /\ Echo!Uint16(x, 7) = seq
    BY <1>7 DEF SaysMessage, Echo!Uint16
  <2>3. read = [ok |-> TRUE, Type |-> x[1], Code |-> x[2], Checksum |-> Echo!Uint16(x, 3),
                ID |-> Echo!Uint16(x, 5), Seq |-> Echo!Uint16(x, 7),
                Data |-> SubSeq(x, 9, Len(x))]
    BY <1>20, <2>1, <2>2 DEF Echo!ParseEcho, Echo!TypeEchoReply, Echo!TypeEchoRequest
  <2> QED
    BY <1>19, <2>2, <2>3 DEF Echo!TypeEchoReply
<1>22. D!SrcIP(w) = asked.dst /\ D!DstIP(w) = asked.src
  BY <1>10, <1>14 DEF D!SrcIP, D!DstIP
<1>23. D!VerifyChecksum(x)
  BY <1>7, SameInParts
<1>24. Answers(w, asked)
  BY <1>3, <1>14, <1>17, <1>18, <1>20, <1>21, <1>22, <1>23 DEF Answers
<1> QED
  BY <1>1, <1>2, <1>11, <1>24

\* Only packets that Dispatch accepted and found a handler for are handled,
\* and every handler is one of ICMP.
Handed(p) == D!Accepts(Raw[p]) /\ D!ProtocolOf(Raw[p]) = 1

HandedInv ==
  /\ DOMAIN dispatch = Packets /\ DOMAIN handler = Packets
  /\ \A p \in Packets :
       /\ dispatch[p] \in {"found", "handling"} /\ handler[p] # NoHandler => Handed(p)
       /\ dispatch[p] = "handling" => handler[p] # NoHandler

LEMMA HandedInvariance == SpecStack => []HandedInv
<1>1. D!Init => HandedInv
  BY DEF D!Init, HandedInv
<1>2. HandedInv /\ [D!Next]_(D!vars) => HandedInv'
  <2> SUFFICES ASSUME HandedInv, [D!Next]_(D!vars) PROVE HandedInv'
    OBVIOUS
  <2>1. ASSUME NEW p \in Packets, D!Find(p) PROVE HandedInv'
    <3>1. handler'[p] # NoHandler => Handed(p)
      <4>1. handler'[p] = D!HandlerFor(Raw[p]) /\ D!Accepts(Raw[p])
        BY <2>1 DEF D!Find, HandedInv
      <4>2. D!HandlerFor(Raw[p]) # NoHandler => D!ProtocolOf(Raw[p]) = 1
        BY HandlerAssumption DEF D!HandlerFor, D!Protocols, I!ProtoICMP
      <4> QED
        BY <4>1, <4>2 DEF Handed
    <3> QED
      BY <2>1, <3>1 DEF HandedInv, D!Find, D!Move, Handed
  <2>2. ASSUME NEW p \in Packets,
               D!Call(p) \/ D!Count(p) \/ D!Reject(p) \/ D!Drop(p) \/ D!Return(p)
        PROVE  HandedInv'
    BY <2>2 DEF HandedInv, D!Call, D!Count, D!Reject, D!Drop, D!Return, D!Move, Handed
  <2>3. ASSUME NEW p \in Packets, D!Dispatch(p) PROVE HandedInv'
    BY <2>3 DEF HandedInv, D!Dispatch, D!Move, Handed
  <2>4. CASE (\E h \in Handlers : D!Register(h)) \/ D!Load \/ UNCHANGED D!vars
    BY <2>4 DEF HandedInv, D!Register, D!Load, D!vars, Handed
  <2> QED
    BY <2>1, <2>2, <2>3, <2>4 DEF D!Next
<1> QED
  BY <1>1, <1>2, ImplementsDispatcher, PTL DEF D!Spec

\* The replies drew the identifications 1, 2, 3 and so on, as numbers of 16
\* bits: as long as there are no more than those, all differ.
Drawn == {p \in Packets : reply[p] # "none"}

RepliesInv ==
  /\ id \in [Packets -> Word] /\ DOMAIN reply = Packets
  /\ \A p \in Drawn : Handed(p) /\ Echo!IsRequest(p)
  /\ idGen = Cardinality(Drawn) % 65536
  /\ \A p \in Drawn : \E k \in 1 .. Cardinality(Drawn) : id[p] = k % 65536
  /\ \A p \in Drawn, q \in Drawn : p # q => id[p] # id[q]

LEMMA FiniteDrawn ==
  IsFiniteSet(Drawn) /\ Cardinality(Drawn) \in Nat /\ Cardinality(Drawn) <= Cardinality(Packets)
<1>1. Drawn \subseteq Packets
  BY DEF Drawn
<1>2. IsFiniteSet(Packets)
  BY FiniteAssumption
<1> QED
  BY <1>1, <1>2, FS_Subset, FS_CardinalityType

LEMMA BuildReplyPreserves ==
  ASSUME Cardinality(Packets) <= 65536, HandedInv, RepliesInv,
         NEW p \in Packets, Replying(p)
  PROVE  RepliesInv'
<1>1. /\ dispatch[p] = "handling" /\ Echo!IsRequest(p) /\ reply[p] = "none"
      /\ idGen' = (idGen + 1) % 65536
      /\ id' = [id EXCEPT ![p] = idGen'] /\ reply' = [reply EXCEPT ![p] = "built"]
  BY DEF Replying, Echo!BuildReply, Echo!NextID
<1>2. Handed(p)
  BY <1>1 DEF HandedInv
<1>3. PICK n : n = Cardinality(Drawn)
  OBVIOUS
<1>4. p \notin Drawn /\ Drawn' = Drawn \cup {p}
  BY <1>1 DEF Drawn, RepliesInv
<1>5. n \in Nat /\ Cardinality(Drawn') = n + 1
  BY <1>3, <1>4, FiniteDrawn, FS_AddElement
<1>6. n + 1 <= 65536
  <2>1. Drawn' \subseteq Packets
    BY DEF Drawn
  <2>2. IsFiniteSet(Packets) /\ Cardinality(Packets) \in Nat
    BY FiniteAssumption, FS_CardinalityType
  <2>3. Cardinality(Drawn') <= Cardinality(Packets)
    BY <2>1, <2>2, FS_Subset
  <2> QED
    BY <1>5, <2>2, <2>3
<1>7. idGen' = (n + 1) % 65536 /\ idGen' \in Word
  <2>1. idGen = n
    BY <1>3, <1>5, <1>6 DEF RepliesInv
  <2>2. (n + 1) % 65536 \in Nat /\ (n + 1) % 65536 < 65536
    BY <1>5
  <2> QED
    BY <1>1, <2>1, <2>2 DEF Word, Below
<1>8. \A q \in Drawn : id'[q] = id[q] /\ \E k \in 1 .. n : id[q] = k
  <2> TAKE q \in Drawn
  <2>1. q \in Packets /\ q # p
    BY <1>4 DEF Drawn
  <2>2. id'[q] = id[q]
    BY <1>1, <2>1 DEF RepliesInv
  <2>3. PICK k \in 1 .. n : id[q] = k % 65536
    BY <1>3 DEF RepliesInv
  <2>4. k % 65536 = k
    BY <1>5, <1>6, <2>3
  <2> QED
    BY <2>2, <2>3, <2>4
<1>9. id'[p] = (n + 1) % 65536 /\ id' \in [Packets -> Word]
  BY <1>1, <1>7 DEF RepliesInv
<1>10. \A q \in Drawn : id'[q] # id'[p]
  <2> TAKE q \in Drawn
  <2>1. PICK k \in 1 .. n : id'[q] = k
    BY <1>8
  <2>2. CASE n + 1 = 65536
    BY <1>5, <1>9, <2>1, <2>2
  <2>3. CASE n + 1 < 65536
    <3>1. (n + 1) % 65536 = n + 1
      BY <1>5, <2>3
    <3> QED
      BY <1>5, <1>9, <2>1, <3>1
  <2> QED
    BY <1>5, <1>6, <2>2, <2>3
<1>11. \A q \in Drawn' : \E k \in 1 .. n + 1 : id'[q] = k % 65536
  <2> TAKE q \in Drawn'
  <2>1. CASE q = p
    <3>1. n + 1 \in 1 .. n + 1
      BY <1>5
    <3> QED
      BY <1>9, <2>1, <3>1
  <2>2. CASE q \in Drawn
    <3>1. PICK k \in 1 .. n : id'[q] = k
      BY <1>8, <2>2
    <3>2. k \in 1 .. n + 1 /\ k % 65536 = k
      BY <1>5, <1>6
    <3> QED
      BY <3>1, <3>2
  <2> QED
    BY <1>4, <2>1, <2>2
<1>12. \A q \in Drawn', r \in Drawn' : q # r => id'[q] # id'[r]
  BY <1>4, <1>8, <1>10 DEF RepliesInv
<1>13. \A q \in Drawn' : Handed(q) /\ Echo!IsRequest(q)
  BY <1>1, <1>2, <1>4 DEF RepliesInv
<1>14. DOMAIN reply' = Packets
  BY <1>1 DEF RepliesInv
<1>15. \A q : Handed(q)' = Handed(q) /\ Echo!IsRequest(q)' = Echo!IsRequest(q)
  BY DEF Handed, Echo!IsRequest
<1> QED
  BY <1>5, <1>7, <1>9, <1>11, <1>12, <1>13, <1>14, <1>15 DEF RepliesInv

\* A reply that is written or fails keeps what was drawn for it.
LEMMA WritePreserves ==
  ASSUME RepliesInv, NEW p \in Packets, Echo!Write(p) \/ Echo!WriteFails(p)
  PROVE  RepliesInv'
<1>1. /\ reply[p] = "built" /\ idGen' = idGen /\ id' = id
      /\ \E outcome \in {"written", "failed"} : reply' = [reply EXCEPT ![p] = outcome]
  BY DEF Echo!Write, Echo!WriteFails
<1>2. DOMAIN reply' = Packets
  BY <1>1 DEF RepliesInv
<1>3. Drawn' = Drawn
  BY <1>1 DEF Drawn, RepliesInv
<1> QED
  BY <1>1, <1>2, <1>3 DEF RepliesInv, Handed, Echo!IsRequest

LEMMA RepliesInvariance ==
  ASSUME Cardinality(Packets) <= 65536
  PROVE  SpecStack => []RepliesInv
<1>1. InitStack => RepliesInv
  <2> SUFFICES ASSUME InitStack PROVE RepliesInv
    OBVIOUS
  <2>1. /\ idGen = 0 /\ id = [p \in Packets |-> 0] /\ reply = [p \in Packets |-> "none"]
    BY DEF InitStack, Echo!Init
  <2>2. Drawn = {}
    BY <2>1 DEF Drawn
  <2>3. Cardinality(Drawn) = 0
    BY <2>2, FS_EmptySet
  <2>4. 0 \in Word
    BY DEF Word, Below
  <2> QED
    BY <2>1, <2>2, <2>3, <2>4 DEF RepliesInv
<1>2. HandedInv /\ RepliesInv /\ [NextStack]_stackVars => RepliesInv'
  <2> SUFFICES ASSUME HandedInv, RepliesInv, [NextStack]_stackVars PROVE RepliesInv'
    OBVIOUS
  <2>1. CASE UNCHANGED icmpVars
    BY <2>1 DEF icmpVars, RepliesInv, Drawn, Handed, Echo!IsRequest
  <2>2. CASE Open \/ Own \/ CloseDevice \/ Configure \/ UNCHANGED stackVars
    BY <2>1, <2>2 DEF Open, Own, CloseDevice, Configure, stackVars, icmpVars
  <2>3. CASE \E l \in Loops : Loop(l)
    BY <2>1, <2>3 DEF Loop, icmpVars
  <2>4. ASSUME NEW p \in Packets, Goroutine(p) PROVE RepliesInv'
    <3>1. CASE Dispatching(p) \/ NotHandled(p)
      BY <2>1, <3>1 DEF Dispatching, NotHandled, icmpVars
    <3>2. CASE Replying(p)
      BY <3>2, BuildReplyPreserves
    <3>3. CASE Handled(p)
      BY <2>1, <3>3, WritePreserves DEF Handled, Echo!Ignore, Echo!vars, icmpVars
    <3> QED
      BY <2>4, <3>1, <3>2, <3>3 DEF Goroutine
  <2> QED
    BY <2>2, <2>3, <2>4 DEF NextStack
<1> QED
  BY <1>1, <1>2, HandedInvariance, PTL DEF SpecStack

(* Whatever the peers send and however goroutines, handlers and the owner  *)
(* interleave, each packet that is written answers the request it was      *)
(* built for: from and to the right addresses, with its identifier, number *)
(* and data, and with checksums that verify.  The identifications of the   *)
(* replies differ as long as the counter of 16 bits does not come round    *)
(* (icmp/handler.go:25-61, ip/builder.go:12-25).                           *)
THEOREM StackRepliesAnswer ==
  ASSUME Cardinality(Packets) <= 65536
  PROVE  SpecStack => RepliesAnswer
<1>1. ASSUME RepliesInv, [NextStack]_stackVars, NEW p \in Packets,
             reply[p] # "written", reply'[p] = "written"
      PROVE  /\ p \in DOMAIN Asked
             /\ Answers(Echo!EchoReply(p), Asked[p])
             /\ \A q \in Packets \ {p} : reply[q] # "none" => id[q] # id[p]
  <2>1. reply' # reply
    BY <1>1
  <2>2. PICK q \in Packets : Replying(q) \/ Handled(q)
    BY <1>1, <2>1 DEF NextStack, Open, Own, CloseDevice, Configure, Loop, Goroutine,
         Dispatching, NotHandled, stackVars, icmpVars
  <2>3. reply[p] # "none"
    BY <1>1, <2>2 DEF Replying, Handled, Echo!BuildReply, Echo!Ignore, Echo!vars,
         Echo!Write, Echo!WriteFails, RepliesInv
  <2>4. p \in Drawn /\ Handed(p) /\ Echo!IsRequest(p) /\ id[p] \in Word
    BY <1>1, <2>3 DEF RepliesInv, Drawn
  <2>5. p \in DOMAIN Asked /\ Answers(Echo!EchoReply(p), Asked[p])
    BY <2>4, ReplyAnswers DEF Handed
  <2>6. \A r \in Packets \ {p} : reply[r] # "none" => id[r] # id[p]
    BY <1>1, <2>4 DEF RepliesInv, Drawn
  <2> QED
    BY <2>5, <2>6
<1>2. RepliesInv /\ [NextStack]_stackVars
        => [\A p \in Packets :
              reply[p] # "written" /\ reply'[p] = "written" =>
                /\ p \in DOMAIN Asked
                /\ Answers(Echo!EchoReply(p), Asked[p])
                /\ \A q \in Packets \ {p} : reply[q] # "none" => id[q] # id[p]]_stackVars
  BY <1>1
<1>3. SpecStack => []RepliesInv
  BY RepliesInvariance
<1> QED
  BY <1>2, <1>3, PTL DEF SpecStack, RepliesAnswer
=============================================================================

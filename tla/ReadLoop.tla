------------------------------ MODULE ReadLoop ------------------------------
(***************************************************************************)
(* ReadLoop (internal/tun/loop.go): Start runs a goroutine that reads      *)
(* packets and hands each one to a handler goroutine of its own; Stop      *)
(* cancels the context and waits for the loops.                            *)
(*                                                                         *)
(* A loop is at "check" before it looks at r.ctx, at "read" before it      *)
(* calls io.Read and "blocked" inside it.  Every loop looks at the current *)
(* r.ctx, so one flag is enough for the contexts: Start replaces the       *)
(* context by one not cancelled, for the loops of earlier calls too.       *)
(*                                                                         *)
(* The interface is a TUN device, whose Close leaves a read(2) in progress *)
(* alone, a raw socket, which does not support Read, or another PacketIO   *)
(* ("pipe", as in the tests) whose Close ends a Read.                      *)
(***************************************************************************)
EXTENDS Integers, FiniteSets

CONSTANTS
  Loops,        \* one for each call of Start
  Packets       \* packets the interface has to offer

ASSUME FiniteAssumption == IsFiniteSet(Loops) /\ IsFiniteSet(Packets)

VARIABLES
  cancelled,    \* whether r.ctx is cancelled
  wg,           \* the wait group's counter
  loop,         \* where each loop is
  device,       \* the kind of interface
  closed,       \* whether the interface is closed
  input,        \* packets not read yet
  handling,     \* packets in a handler goroutine
  handled,
  packetsRead, readErrors,  \* the counters of Stats
  stop,         \* the last call of Stop, if no Start came after it
  orderly       \* so far the owner closed the interface only after a Stop and
                \* started again only after a Stop that succeeded, with the
                \* interface open; and only a closed interface failed

ioVars == <<device, closed, input>>
handlerVars == <<handling, handled>>
statVars == <<packetsRead, readErrors>>
vars == <<cancelled, wg, loop, ioVars, handlerVars, statVars, stop, orderly>>

-----------------------------------------------------------------------------

Running == {l \in Loops : loop[l] \in {"check", "read", "blocked"}}

FirstStart == \A l \in Loops : loop[l] = "new"

\* The loop adds itself once it runs, if it runs before Stop waits.
NotYetAdded(n) == n
Added(n) == n + 1

Start(l) ==
  /\ loop[l] = "new" /\ stop # "waiting"
  /\ cancelled' = FALSE
  /\ wg' = Added(wg)
  /\ loop' = [loop EXCEPT ![l] = "check"]
  /\ stop' = "none"
  /\ orderly' = (orderly /\ ~closed /\ (FirstStart \/ stop = "nil"))
  /\ UNCHANGED <<ioVars, handlerVars, statVars>>

\* The loop returns: its deferred wg.Done runs.
Exit(l) ==
  /\ loop' = [loop EXCEPT ![l] = "exited"]
  /\ wg' = wg - 1

Check(l) ==
  /\ loop[l] = "check"
  /\ IF cancelled THEN Exit(l)
                  ELSE loop' = [loop EXCEPT ![l] = "read"] /\ UNCHANGED wg
  /\ UNCHANGED <<cancelled, ioVars, handlerVars, statVars, stop, orderly>>

\* io.Read of an interface that can be read waits for a packet ...
Block(l) ==
  /\ loop[l] = "read" /\ ~closed /\ device # "raw"
  /\ loop' = [loop EXCEPT ![l] = "blocked"]
  /\ UNCHANGED <<cancelled, wg, ioVars, handlerVars, statVars, stop, orderly>>

\* ... and no longer when the interface is closed, unless it is a TUN device.
Waits(l) == loop[l] = "blocked" /\ (closed => device = "tun")

\* The count and the start of the goroutine, which nothing of the loop that
\* others see comes between, are one step: that a packet is counted for a moment
\* before its goroutine exists is not seen.
Read(l) ==
  /\ Waits(l)
  /\ \E p \in input :
       /\ input' = input \ {p}
       /\ handling' = handling \cup {p}
  /\ packetsRead' = packetsRead + 1
  /\ loop' = [loop EXCEPT ![l] = "check"]
  /\ UNCHANGED <<cancelled, wg, device, closed, handled, readErrors, stop, orderly>>

\* EINTR: the loop continues.
RetryAnyError(l) ==
  /\ loop[l] \in {"read", "blocked"}
  /\ loop' = [loop EXCEPT ![l] = "check"]
  /\ UNCHANGED <<cancelled, wg, ioVars, handlerVars, statVars, stop, orderly>>
CountInterrupted(l) ==
  /\ Waits(l)
  /\ packetsRead' = packetsRead + 1
  /\ loop' = [loop EXCEPT ![l] = "check"]
  /\ UNCHANGED <<cancelled, wg, ioVars, handlerVars, readErrors, stop, orderly>>
Interrupted(l) ==
  /\ Waits(l)
  /\ loop' = [loop EXCEPT ![l] = "check"]
  /\ UNCHANGED <<cancelled, wg, ioVars, handlerVars, statVars, stop, orderly>>

\* Any other error ends the loop; it is counted unless r.ctx is cancelled.
CountAlways(n) == n + 1
Count(n) == IF cancelled THEN n ELSE n + 1

MustFail(l) ==
  \/ loop[l] = "read" /\ (closed \/ device = "raw")
  \/ loop[l] = "blocked" /\ closed /\ device # "tun"

ReadFails(l) ==
  /\ loop[l] = "blocked" \/ MustFail(l)
  /\ readErrors' = Count(readErrors)
  /\ Exit(l)
  /\ orderly' = (orderly /\ closed)
  /\ UNCHANGED <<cancelled, ioVars, handlerVars, packetsRead, stop>>

Handle(p) ==
  /\ p \in handling
  /\ handling' = handling \ {p}
  /\ handled' = handled \cup {p}
  /\ UNCHANGED <<cancelled, wg, loop, ioVars, statVars, stop, orderly>>

-----------------------------------------------------------------------------
(* The owner of the loop.                                                  *)

Stop ==
  /\ stop # "waiting"
  /\ \E l \in Loops : loop[l] # "new"
  /\ cancelled' = TRUE
  /\ stop' = "waiting"
  /\ UNCHANGED <<wg, loop, ioVars, handlerVars, statVars, orderly>>

StopReturns ==
  /\ stop = "waiting" /\ wg = 0
  /\ stop' = "nil"
  /\ UNCHANGED <<cancelled, wg, loop, ioVars, handlerVars, statVars, orderly>>

\* Five seconds are over.  A loop that is not blocked in Read needs less.
StopTimesOut ==
  /\ stop = "waiting"
  /\ \E l \in Loops : Waits(l)
  /\ stop' = "timeout"
  /\ UNCHANGED <<cancelled, wg, loop, ioVars, handlerVars, statVars, orderly>>

\* The context given to Start is cancelled.
CancelParent ==
  /\ Running # {}
  /\ cancelled' = TRUE
  /\ UNCHANGED <<wg, loop, ioVars, handlerVars, statVars, stop, orderly>>

Close ==
  /\ ~closed
  /\ closed' = TRUE
  /\ orderly' = (orderly /\ stop # "none")
  /\ UNCHANGED <<cancelled, wg, loop, device, input, handlerVars, statVars, stop>>

-----------------------------------------------------------------------------

Init ==
  /\ cancelled = FALSE
  /\ wg = 0
  /\ loop = [l \in Loops |-> "new"]
  /\ device \in {"tun", "raw", "pipe"}
  /\ closed = FALSE
  /\ input = Packets
  /\ handling = {} /\ handled = {}
  /\ packetsRead = 0 /\ readErrors = 0
  /\ stop = "none"
  /\ orderly = TRUE

LoopStep(l) == Check(l) \/ Block(l) \/ ReadFails(l)

Next ==
  \/ \E l \in Loops :
       Start(l) \/ LoopStep(l) \/ Read(l) \/ Interrupted(l)
  \/ \E p \in Packets : Handle(p)
  \/ Stop \/ StopReturns \/ StopTimesOut
  \/ CancelParent
  \/ Close

Spec == Init /\ [][Next]_vars

\* A loop that can run does, and a Read that must fail does.  Nobody has to
\* send, start, stop or close anything.
LoopFairness ==
  \A l \in Loops :
    /\ WF_vars(Check(l)) /\ WF_vars(Block(l))
    /\ WF_vars(MustFail(l) /\ ReadFails(l))

-----------------------------------------------------------------------------
(* Properties.                                                             *)

TypeOK ==
  /\ cancelled \in BOOLEAN /\ closed \in BOOLEAN /\ orderly \in BOOLEAN
  /\ wg \in 0 .. Cardinality(Loops)
  /\ loop \in [Loops -> {"new", "check", "read", "blocked", "exited"}]
  /\ input \cup handling \cup handled = Packets
  /\ packetsRead = Cardinality(handling \cup handled)
  /\ readErrors \in 0 .. Cardinality(Loops)
  /\ stop \in {"none", "waiting", "nil", "timeout"}

(* A Stop that returns nil means that no loop reads any more, whatever the *)
(* loops did when Start, Stop and Close raced with them.                   *)
QuietAfterStop == stop = "nil" => Running = {}

(* Closing the interface to end a loop that Stop cancelled is no error:    *)
(* "ending cleanly after cancellation" (loop.go:84-90).                    *)
NoErrorOnShutdown == orderly => readErrors = 0

(* When the interface is closed every loop ends, also one whose            *)
(* cancellation was lost because Start replaced r.ctx, except those that   *)
(* stay inside the Read of a TUN device, which the Close does not end:     *)
(* "io.Close() unblocked it" (loop.go:84) is for other interfaces.         *)
LoopsEnd ==
  [](closed => <>[](\A l \in Running : device = "tun" /\ loop[l] = "blocked"))

(* Stop succeeds also when the loop waits for a packet: "Stop should       *)
(* return quickly since context is canceled" (loop_test.go:107).           *)
StopSucceeds == stop # "timeout"
=============================================================================

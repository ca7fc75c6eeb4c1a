---------------------------- MODULE StateMachine ----------------------------
(***************************************************************************)
(* StateMachine (internal/tcp/state.go): goroutines that change the state  *)
(* of one connection, and the callback that is told of every change.       *)
(*                                                                         *)
(* Transition holds mu while it calls the callback, so it is two steps:    *)
(* the change and the call, which also unlocks.  The callbacks do not use  *)
(* the StateMachine themselves: mu is not reentrant.                       *)
(***************************************************************************)
EXTENDS TcpState

CONSTANTS
  Threads,
  Observers,   \* callbacks given to SetOnTransition
  None         \* no callback, or no thread

ASSUME NoneAssumption == None \notin Threads \cup Observers

VARIABLES
  current,
  onTransition,
  holder,      \* the thread that holds mu
  change,      \* the change each thread has yet to call the callback for
  believes     \* the state each observer knows of, "unknown" when first set

vars == <<current, onTransition, holder, change, believes>>

-----------------------------------------------------------------------------

SetOnTransition(cb) ==
  /\ holder = None
  /\ onTransition' = cb
  /\ believes' = [o \in Observers |-> IF o = cb THEN "unknown" ELSE believes[o]]
  /\ UNCHANGED <<current, holder, change>>

\* Whether mu is still held when the callback is called.
Unlocked(t) == None
Locked(t) == t

\* The first half of Transition; an invalid transition is refused and no step.
Transition(t, to) ==
  /\ holder = None /\ change[t] = <<>>
  /\ IsValid(current, to)
  /\ current' = to
  /\ change' = [change EXCEPT ![t] = <<current, to>>]
  /\ holder' = Locked(t)
  /\ UNCHANGED <<onTransition, believes>>

\* The second half: the callback is called with the change, then the unlock.
Callback(t) ==
  /\ change[t] # <<>>
  /\ believes' = [o \in Observers |->
       IF o = onTransition THEN change[t][2] ELSE believes[o]]
  /\ change' = [change EXCEPT ![t] = <<>>]
  /\ holder' = None
  /\ UNCHANGED <<current, onTransition>>

\* Current and Is take the read lock.
CanRead == holder = None

Init ==
  /\ current = "CLOSED"
  /\ onTransition = None
  /\ holder = None
  /\ change = [t \in Threads |-> <<>>]
  /\ believes = [o \in Observers |-> "unknown"]

Next ==
  \/ \E cb \in Observers \cup {None} : SetOnTransition(cb)
  \/ \E t \in Threads : Callback(t) \/ \E to \in States : Transition(t, to)

Spec == Init /\ [][Next]_vars

-----------------------------------------------------------------------------
(* Properties.                                                             *)

TypeOK ==
  /\ current \in States
  /\ onTransition \in Observers \cup {None}
  /\ holder \in Threads \cup {None}
  /\ change \in [Threads -> {<<>>} \cup (States \X States)]
  /\ \A t \in Threads : change[t] # <<>> => holder = t
  /\ believes \in [Observers -> States \cup {"unknown"}]

(* The callbacks of Transition arrive in the order of the changes: each    *)
(* one starts where the last one that the observer was told of ended.      *)
CallbacksChain ==
  \A t \in Threads : \A o \in Observers :
    change[t] # <<>> /\ o = onTransition =>
      believes[o] \in {"unknown", change[t][1]}

(* Whoever reads the state with Current or Is reads what the callback was  *)
(* last told, however many goroutines call Transition.                     *)
ReadersAgree ==
  \A o \in Observers :
    CanRead /\ o = onTransition => believes[o] \in {"unknown", current}
=============================================================================

------------------------- MODULE StateMachineProofs -------------------------
(***************************************************************************)
(* Proofs about StateMachine, for any number of goroutines and callbacks.  *)
(***************************************************************************)
EXTENDS StateMachine, TLAPS

(* What a thread has yet to tell is the last change.                       *)
LastChange == \A t \in Threads : change[t] # <<>> => change[t][2] = current

IInv == TypeOK /\ LastChange /\ CallbacksChain /\ ReadersAgree

LEMMA InitIInv == Init => IInv
  BY DEF Init, IInv, TypeOK, LastChange, CallbacksChain, ReadersAgree, States

LEMMA TransitionPreserves ==
  ASSUME IInv, NEW t \in Threads, NEW to \in States, Transition(t, to)
  PROVE  IInv'
<1> USE DEF IInv
<1>1. /\ holder = None /\ holder' = t /\ current' = to /\ current \in States
      /\ change'[t] = <<current, to>>
      /\ \A u \in Threads \ {t} : change'[u] = change[u]
      /\ onTransition' = onTransition /\ believes' = believes
  BY DEF Transition, Locked, TypeOK
\* No other thread is between its change and its callback.
<1>2. \A u \in Threads : change[u] = <<>>
  BY <1>1, NoneAssumption DEF TypeOK
<1>3. TypeOK'
  BY <1>1, <1>2 DEF Transition, TypeOK
<1>4. LastChange'
  BY <1>1, <1>2 DEF LastChange
<1>5. CallbacksChain'
  <2>1. \A o \in Observers : o = onTransition => believes[o] \in {"unknown", current}
    BY <1>1 DEF ReadersAgree, CanRead
  <2> QED
    BY <1>1, <1>2, <2>1 DEF CallbacksChain
<1>6. ReadersAgree'
  BY <1>1, NoneAssumption DEF ReadersAgree, CanRead
<1> QED
  BY <1>3, <1>4, <1>5, <1>6

LEMMA CallbackPreserves ==
  ASSUME IInv, NEW t \in Threads, Callback(t)
  PROVE  IInv'
<1> USE DEF IInv
<1>1. /\ holder = t /\ holder' = None /\ current' = current
      /\ onTransition' = onTransition
      /\ change'[t] = <<>> /\ \A u \in Threads \ {t} : change'[u] = change[u]
      /\ change[t][2] = current
      /\ \A o \in Observers : o = onTransition => believes'[o] = current
  BY DEF Callback, TypeOK, LastChange
<1>2. \A u \in Threads : change'[u] = <<>>
  BY <1>1 DEF TypeOK
<1>3. TypeOK'
  BY <1>1, <1>2 DEF Callback, TypeOK
<1> QED
  BY <1>1, <1>2, <1>3 DEF LastChange, CallbacksChain, ReadersAgree

LEMMA SetOnTransitionPreserves ==
  ASSUME IInv, NEW cb \in Observers \cup {None}, SetOnTransition(cb)
  PROVE  IInv'
<1> USE DEF IInv
<1>1. /\ onTransition' = cb /\ UNCHANGED <<current, holder, change>>
      /\ cb \in Observers => believes'[cb] = "unknown"
  BY DEF SetOnTransition
<1>2. TypeOK'
  BY <1>1 DEF SetOnTransition, TypeOK
<1> QED
  BY <1>1, <1>2 DEF LastChange, CallbacksChain, ReadersAgree

LEMMA NextIInv == IInv /\ [Next]_vars => IInv'
<1> SUFFICES ASSUME IInv, [Next]_vars PROVE IInv'
  OBVIOUS
<1>1. CASE UNCHANGED vars
  BY <1>1 DEF vars, IInv, TypeOK, LastChange, CallbacksChain, ReadersAgree, CanRead
<1> QED
  BY <1>1, TransitionPreserves, CallbackPreserves, SetOnTransitionPreserves
     DEF Next

(* Transition calls the callback under mu, so the calls form a chain.      *)
THEOREM CallbacksInOrder == Spec => []CallbacksChain
<1>1. IInv => CallbacksChain
  BY DEF IInv
<1> QED
  BY <1>1, InitIInv, NextIInv, PTL DEF Spec

(* Current and Is never return a state the callback was not told of.       *)
THEOREM ReadersAgreeWithCallback == Spec => []ReadersAgree
<1>1. IInv => ReadersAgree
  BY DEF IInv
<1> QED
  BY <1>1, InitIInv, NextIInv, PTL DEF Spec

(* mu is held from every change to the end of its callback.                *)
THEOREM TypeCorrect == Spec => []TypeOK
<1>1. IInv => TypeOK
  BY DEF IInv
<1> QED
  BY <1>1, InitIInv, NextIInv, PTL DEF Spec
=============================================================================

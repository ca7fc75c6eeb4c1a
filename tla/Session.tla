------------------------------ MODULE Session -------------------------------
(***************************************************************************)
(* What a three-way handshake promises.  The two ends of a connection open *)
(* and close sessions; a session is named by the pair of initial numbers   *)
(* the ends drew for it.  Only the client's opening makes a session known  *)
(* to the server, the two ends are never in different sessions, and no     *)
(* session is opened twice by the client.                                  *)
(***************************************************************************)
CONSTANTS
  Names,     \* names of sessions
  Closed     \* the end is in no session

VARIABLES
  cli, srv,  \* the session each end is in
  opened     \* the sessions the client has ever opened

vars == <<cli, srv, opened>>

Init == cli = Closed /\ srv = Closed /\ opened = {}

ClientOpens(x) ==
  /\ cli = Closed
  /\ srv = Closed
  /\ x \notin opened
  /\ cli' = x
  /\ opened' = opened \cup {x}
  /\ UNCHANGED srv

ServerOpens(x) ==
  /\ srv = Closed
  /\ x \in opened
  /\ cli \in {Closed, x}
  /\ srv' = x
  /\ UNCHANGED <<cli, opened>>

ClientCloses == cli' = Closed /\ UNCHANGED <<srv, opened>>
ServerCloses == srv' = Closed /\ UNCHANGED <<cli, opened>>

Next ==
  \/ \E x \in Names : ClientOpens(x) \/ ServerOpens(x)
  \/ ClientCloses
  \/ ServerCloses

Spec == Init /\ [][Next]_vars
=============================================================================

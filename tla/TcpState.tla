------------------------------ MODULE TcpState ------------------------------
(***************************************************************************)
(* The states of a TCP connection and the table of the transitions that    *)
(* StateMachine.Transition accepts (internal/tcp/state.go).                *)
(***************************************************************************)

\* The constants StateClosed .. StateTimeWait.
States ==
  {"CLOSED", "LISTEN", "SYN_SENT", "SYN_RECEIVED", "ESTABLISHED", "FIN_WAIT_1",
   "FIN_WAIT_2", "CLOSE_WAIT", "CLOSING", "LAST_ACK", "TIME_WAIT"}

\* The allowed successors of each state.
validTransitions ==
  [CLOSED       |-> {"LISTEN", "SYN_SENT"},
   LISTEN       |-> {"SYN_RECEIVED", "SYN_SENT", "CLOSED"},
   SYN_SENT     |-> {"SYN_RECEIVED", "ESTABLISHED", "CLOSED"},
   SYN_RECEIVED |-> {"ESTABLISHED", "FIN_WAIT_1", "CLOSED"},
   ESTABLISHED  |-> {"FIN_WAIT_1", "CLOSE_WAIT", "CLOSED"},
   FIN_WAIT_1   |-> {"FIN_WAIT_2", "CLOSING", "TIME_WAIT", "CLOSED"},
   FIN_WAIT_2   |-> {"TIME_WAIT", "CLOSED"},
   CLOSE_WAIT   |-> {"LAST_ACK", "CLOSED"},
   CLOSING      |-> {"TIME_WAIT", "CLOSED"},
   LAST_ACK     |-> {"CLOSED"},
   TIME_WAIT    |-> {"CLOSED"}]

IsValid(from, to) == to \in validTransitions[from]
=============================================================================

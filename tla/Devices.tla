------------------------------ MODULE Devices ------------------------------
(***************************************************************************)
(* The interfaces of internal/tun: Open makes a row of system calls, each  *)
(* of which may fail, and must not keep a file descriptor then (factory.go,*)
(* tun.go, raw.go).  The calls are modelled by the descriptors they open;  *)
(* a PacketIO of another kind ("pipe") needs none.                         *)
(***************************************************************************)
EXTENDS Naturals, Sequences

VARIABLES
  device,         \* the kind of interface: cfg.Mode
  calls,          \* how many calls Open has made
  opened,         \* "opening", "open" or "failed"
  descriptors     \* those held: of the "device" and of the "socket" that
                  \* OpenTUN configures it with

vars == <<device, calls, opened, descriptors>>

Kinds == {"tun", "raw", "pipe"}

\* For each call what it opens, and what the code closes when it fails.  The
\* socket's Close is deferred and left out here.
Step(opens, closes) == [opens |-> opens, closes |-> closes]

OpenTUN ==
  << Step({"device"}, {}),          \* open /dev/net/tun
     Step({}, {"device"}),          \* TUNSETIFF
     Step({"socket"}, {"device"}),  \* socket
     Step({}, {"device"}),          \* SIOCSIFMTU
     Step({}, {"device"}),          \* SIOCGIFFLAGS
     Step({}, {"device"}) >>        \* SIOCSIFFLAGS

OpenRawLeaky ==
  << Step({"device"}, {}), Step({}, {"device"}), Step({}, {}), Step({}, {"device"}) >>
OpenRaw ==
  << Step({"device"}, {}),          \* socket
     Step({}, {"device"}),          \* IP_HDRINCL
     Step({}, {"device"}),          \* the address to bind to is not IPv4
     Step({}, {"device"}) >>        \* bind

Calls ==
  CASE device = "tun" -> OpenTUN
    [] device = "raw" -> OpenRaw
    [] device = "pipe" -> <<>>

Returned == {"socket"}              \* closed by defer

OpenCall ==
  /\ opened = "opening" /\ calls < Len(Calls)
  /\ calls' = calls + 1
  /\ descriptors' = descriptors \cup Calls[calls + 1].opens
  /\ UNCHANGED <<device, opened>>

OpenFails ==
  /\ opened = "opening" /\ calls < Len(Calls)
  /\ opened' = "failed"
  /\ descriptors' = descriptors \ (Calls[calls + 1].closes \cup Returned)
  /\ UNCHANGED <<device, calls>>

OpenReturns ==
  /\ opened = "opening" /\ calls = Len(Calls)
  /\ opened' = "open"
  /\ descriptors' = descriptors \ Returned
  /\ UNCHANGED <<device, calls>>

Close ==
  /\ opened = "open"
  /\ descriptors' = descriptors \ {"device"}
  /\ UNCHANGED <<device, calls, opened>>

Init ==
  /\ device \in Kinds
  /\ calls = 0 /\ opened = "opening"
  /\ descriptors = {}

Next == OpenCall \/ OpenFails \/ OpenReturns \/ Close

Spec == Init /\ [][Next]_vars

-----------------------------------------------------------------------------

(* An Open that failed holds no descriptor, and one that succeeded only    *)
(* that of the device, whichever system call failed (tun.go:43-88,         *)
(* raw.go:43-63).                                                          *)
NoDescriptorLeak ==
  /\ opened = "failed" => descriptors = {}
  /\ opened = "open" => descriptors \subseteq {"device"}
=============================================================================

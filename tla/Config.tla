------------------------------- MODULE Config -------------------------------
(***************************************************************************)
(* The start command (cmd/gonet/main.go) with config.Load and Validate     *)
(* (internal/config/config.go): defaults, overlaid by a file, overlaid by  *)
(* flags.                                                                  *)
(*                                                                         *)
(* A file and the flags are functions from the settings they give to       *)
(* values; settings nothing looks at are left out.  An address is absent   *)
(* (""), has an "IPv4" form, is of "IPv6" only, or "invalid"; log levels   *)
(* are compared in lower case everywhere, so their case is left out.       *)
(***************************************************************************)
EXTENDS Integers

CONSTANTS
  Files,          \* [read, given]: whether the file is "absent", cannot be
                  \* read or decoded ("bad") or is "decoded"
  FlagSets        \* what the command line gives

Addresses == {"", "IPv4", "IPv6", "invalid"}

\* An MTU is an integer, of whatever size, in files and flags.
Typed(given) ==
  /\ "MTU" \in DOMAIN given => given["MTU"] \in Int
  /\ "DeviceIP" \in DOMAIN given => given["DeviceIP"] \in Addresses

ASSUME SettingsAssumption ==
  /\ \A file \in Files : file.read = "decoded" => Typed(file.given)
  /\ \A flags \in FlagSets : Typed(flags)

VARIABLES
  command,        \* "idle", "loaded", "overridden", "accepted" or "refused"
  cfg

commandVars == <<command, cfg>>

Defaults ==
  [Mode |-> "tun", DeviceIP |-> "", PeerIP |-> "",
   MTU |-> 1500, LogLevel |-> "info", BufSize |-> 65535]

\* What is given goes over what there is.
Over(given, settings) ==
  [s \in DOMAIN settings |-> IF s \in DOMAIN given THEN given[s] ELSE settings[s]]

Step(from, to) == command = from /\ command' = to

\* No path and no such file give the defaults.
Load ==
  \E file \in Files :
    \/ file.read = "absent" /\ Step("idle", "loaded") /\ cfg' = Defaults
    \/ file.read = "bad" /\ Step("idle", "refused") /\ UNCHANGED cfg
    \/ /\ file.read = "decoded" /\ Step("idle", "loaded")
       /\ cfg' = Over(file.given, Defaults)

Override ==
  /\ Step("loaded", "overridden")
  /\ \E flags \in FlagSets : cfg' = Over(flags, cfg)

\* Absent, or something that net.ParseIP takes.
AnyText(address) == TRUE
IsIP(address) == address # "invalid"

ValidMTU(mtu) == mtu >= 576 /\ mtu <= 65535
IsValid ==
  /\ cfg.Mode \in {"tun", "raw"}
  /\ ValidMTU(cfg.MTU)
  /\ IsIP(cfg.DeviceIP) /\ IsIP(cfg.PeerIP)
  /\ cfg.LogLevel \in {"debug", "info", "warn", "error"}
  /\ cfg.BufSize > 0

Validate ==
  /\ Step("overridden", IF IsValid THEN "accepted" ELSE "refused")
  /\ UNCHANGED cfg

InitCommand == command = "idle" /\ cfg = Defaults

NextCommand == Load \/ Override \/ Validate

SpecCommand == InitCommand /\ [][NextCommand]_commandVars

-----------------------------------------------------------------------------

(* What the packages that a configuration is for make of it.  Nothing      *)
(* hands it to them yet (main.go:56); DeviceIP is the one address that     *)
(* Open can be given as "Local IP to bind for the Raw Socket mode"         *)
(* (factory.go:22).                                                        *)

\* OpenRaw: no address, and what ParseIP does not take, become 0.0.0.0; an
\* address without an IPv4 form is refused.
AnyAddress == "any"
BindAddress(ip) ==
  CASE ip \in {"", "invalid"} -> AnyAddress
    [] ip = "IPv4" -> "IPv4"
    [] ip = "IPv6" -> "refused"

\* The address that a user means.
Named(ip) == IF ip = "" THEN AnyAddress ELSE ip

\* The modes tun.Open knows, the levels log.New parses (any other one gives
\* "info"), and what Fragment needs of an MTU beside a header.
OpenModes == {"tun", "raw"}
ZapLevels == {"debug", "info", "warn", "error", "dpanic", "panic", "fatal"}
FragmentsFit(mtu) == \A ihl \in 5 .. 15 : mtu >= 4 * ihl + 8
LongestPacket == 65535

-----------------------------------------------------------------------------
(* Properties.                                                             *)

(* Nothing of an accepted configuration is silently taken for something    *)
(* else, from whichever of the three sources each setting came: Open knows *)
(* its mode; a raw socket that OpenRaw opens is bound to the address that  *)
(* was given, never to all of them because the address was not understood  *)
(* (raw.go:48-51); the log level is the one used (log.go:35); and a packet *)
(* can be cut to the MTU whatever its header (fragment.go:34), which fits  *)
(* a packet's length field.  That OpenRaw opens at all is not said, for it *)
(* may not: Validate takes addresses that are IPv6 only (config.go:84),    *)
(* and OpenRaw refuses them (raw.go:52-56).                                *)
AcceptedConfigMeant ==
  command = "accepted" =>
    /\ cfg.Mode \in OpenModes
    /\ cfg.Mode = "raw" /\ BindAddress(cfg.DeviceIP) # "refused" =>
         BindAddress(cfg.DeviceIP) = Named(cfg.DeviceIP)
    /\ cfg.LogLevel \in ZapLevels
    /\ FragmentsFit(cfg.MTU) /\ cfg.MTU <= LongestPacket
=============================================================================

---------------------------- MODULE MCDiscovery ----------------------------
(* Discovery on small instances.                                           *)
EXTENDS Discovery

CONSTANTS t1, t2

Discover(mac, targets) ==
  [op |-> "discover", mac |-> mac, ip |-> 1, current |-> Unknown,
   hash |-> FALSE, verify |-> FALSE, targets |-> targets]

Set(mac, ip, current, hash, verify, targets) ==
  [op |-> "set", mac |-> mac, ip |-> ip, current |-> current,
   hash |-> hash, verify |-> verify, targets |-> targets]

\* Sweeps of the segment and of an address; a device moved without and with a password hash,
\* over the group, over its address and over both its addresses; a change that leaves the address alone,
\* and a call that names no device.
SomeCalls ==
  {Discover(NoMac, {}), Discover(NoMac, {1}),
   Set("m1", 2, 1, FALSE, TRUE, {}), Set("m1", 2, 1, TRUE, TRUE, {1}),
   Set("m2", 2, 1, FALSE, TRUE, {1, 2}),
   Set("m1", 2, Unknown, FALSE, FALSE, {}), Set(NoMac, 2, 1, FALSE, FALSE, {1})}
=============================================================================

---------------------------- MODULE MCAudioGuard ----------------------------
(* AudioGuard on small instances.                                          *)
EXTENDS AudioGuard

CONSTANTS t1, t2

\* A device of each kind the signals tell apart: every vendor string a profile
\* knows or none, every OEM code, every serial prefix.
AllDevices == [vendor  : {"dahua", "amcrest", "lorex", "other", "none"},
               version : {"DH", "AC", "LR", "other", "none"},
               serial  : {"AMC", "ND", "other"}]

\* The Lorex cameras the profile was read off.
LorexDevices == {[vendor |-> "lorex", version |-> "LR", serial |-> "ND"]}
=============================================================================

---------------------------- MODULE AuthContract ----------------------------
(***************************************************************************)
(* What the authentication of the client promises to its callers, with     *)
(* nothing of how it is done: no requests, challenges, nonces or responses.*)
(* Negotiation implements it.                                              *)
(***************************************************************************)
CONSTANTS Tasks, Outcomes

VARIABLES
  accepts,    \* schemes the device accepts
  fallback,   \* may the client use basic?
  lockedOut,  \* has the device locked anybody out?
  busy,       \* tasks in a call
  outcome,    \* how the last call of each task ended
  exposed     \* has the client sent the password in the clear?

vars == <<accepts, fallback, lockedOut, busy, outcome, exposed>>

Usable == accepts \cap (IF fallback THEN {"digest", "basic"} ELSE {"digest"})

Init ==
  /\ accepts \in SUBSET {"digest", "basic"}
  /\ fallback \in BOOLEAN
  /\ lockedOut = FALSE
  /\ busy = {}
  /\ outcome = [t \in Tasks |-> "none"]
  /\ exposed = FALSE

Calls(t) ==
  /\ t \notin busy
  /\ busy' = busy \cup {t}
  /\ outcome' = [outcome EXCEPT ![t] = "pending"]
  /\ UNCHANGED <<accepts, fallback, lockedOut, exposed>>

\* What the outcome says must be true of the device: success, that it takes a
\* scheme the client may use; rejected credentials, that it does not, or that
\* somebody was locked out; an unusable challenge, that it has no use for digest.
Truthful(o) ==
  /\ o = "ok" => Usable # {}
  /\ o = "auth_error" => Usable = {} \/ lockedOut
  /\ o = "raised" => "digest" \notin accepts

Returns(t, o) ==
  /\ t \in busy
  /\ Truthful(o)
  /\ busy' = busy \ {t}
  /\ outcome' = [outcome EXCEPT ![t] = o]
  /\ UNCHANGED <<accepts, fallback, lockedOut, exposed>>

\* The password is given away only with the owner's consent, and not to a
\* device that would have taken digest all along.
GivesPassword ==
  /\ fallback
  /\ "digest" \notin accepts \/ lockedOut
  /\ exposed' = TRUE
  /\ UNCHANGED <<accepts, fallback, lockedOut, busy, outcome>>

LocksOut ==
  /\ lockedOut' = TRUE
  /\ UNCHANGED <<accepts, fallback, busy, outcome, exposed>>

Next ==
  \/ \E t \in Tasks : Calls(t)
  \/ \E t \in Tasks, o \in Outcomes : Returns(t, o)
  \/ GivesPassword
  \/ LocksOut

Spec == Init /\ [][Next]_vars

\* A call that began returns.
CallsReturn == \A t \in Tasks : t \in busy ~> t \notin busy
=============================================================================

----------------------------- MODULE Transport -----------------------------
(***************************************************************************)
(* What the two transport calls make of a response of the device:          *)
(* async_get_text and async_get_bytes (client.py), with the two tests of   *)
(* parsers.py for error reports and the exception classes of exceptions.py.*)
(*                                                                         *)
(* A status stands for its class: 500 for any status from 400 on that no   *)
(* test names.  A body is one of those the tests tell apart: the bare      *)
(* acknowledgement, data, the two reports of a missing endpoint, another   *)
(* report that begins with "error".                                        *)
(***************************************************************************)
EXTENDS Integers

Statuses == {200, 400, 401, 500, 501}
Bodies   == {"OK", "data", "error", "bad request", "not implemented"}
Response == [status : Statuses, body : Bodies]

IsErrorResponse(body)        == body \in {"error", "bad request", "not implemented"}
IsNotSupportedResponse(body) == body \in {"bad request", "not implemented"}

\* DahuaResponseError and its subclasses: what a handler of
\* aiohttp.ClientResponseError catches.
ResponseErrors == {"DahuaResponseError", "DahuaAuthError", "DahuaNotSupportedError"}

\* What an await ends with that gets no response to classify: aiohttp refuses
\* a garbled one with a ClientResponseError of its own.
Faults == {"timeout", "dropped", "cancelled", "garbled"}

\* Mutant: a dropped connection is reported as a response error.
DropIsAResponse(fault) ==
  CASE fault = "timeout"   -> "DahuaTimeoutError"
    [] fault = "dropped"   -> "DahuaResponseError"
    [] fault = "cancelled" -> "CancelledError"
    [] fault = "garbled"   -> "DahuaResponseError"

FaultVerdict(fault) ==
  CASE fault = "timeout"   -> "DahuaTimeoutError"
    [] fault = "dropped"   -> "DahuaConnectionError"
    [] fault = "cancelled" -> "CancelledError"
    [] fault = "garbled"   -> "DahuaResponseError"

Exceptions == ResponseErrors \cup {FaultVerdict(f) : f \in Faults}

\* The tests of async_get_text, in their order; a response that passes them
\* all is returned.
TextVerdict(r) ==
  IF r.status = 401 THEN "DahuaAuthError"
  ELSE IF r.status # 500 /\ IsNotSupportedResponse(r.body) THEN "DahuaNotSupportedError"
  ELSE IF r.status >= 400 \/ IsErrorResponse(r.body) THEN "DahuaResponseError"
  ELSE "returned"

\* async_get_bytes has the same tests for a status from 400 on, and none for
\* the body of a success.
BytesVerdict(r) == IF r.status >= 400 THEN TextVerdict(r) ELSE "returned"

=============================================================================

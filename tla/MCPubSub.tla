------------------------------ MODULE MCPubSub ------------------------------
(***************************************************************************)
(* An instance of PubSub for TLC.                                          *)
(***************************************************************************)
EXTENDS PubSubInvariant

CONSTANTS r1, r2, e1, e2, b1, b2

(* Two requests whose answers must not be confused, a request and an event *)
(* between which an instance divides its time, a broadcast, and an event   *)
(* and a broadcast that cannot be read.                                    *)
SomeTraffics == {{r1, r2}, {r2, e1}, {b1}, {e2}, {b2}}

(* The first request comes to everything; for an event it matters whether  *)
(* it fails and, in a stream, whether the exception is managed.            *)
SomeOutcomes == [m \in Messages |->
    CASE m = r1 -> Results
      [] m = r2 -> {"value", "denied"}
      [] m \in Events -> {"value", "fault"}
      [] m \in Broadcasts -> {"value", "denied", "fault"}]
=============================================================================

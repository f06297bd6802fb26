----------------------------- MODULE MCGateway ------------------------------
(* Instances of Gateway for TLC.                                              *)
EXTENDS Gateway, TLC

CONSTANTS c1, c2, c3, k1

Ask(kind, key) == [kind |-> kind, key |-> key]

\* One client follows the events, the others use the limited part of the API.
MCRequests ==
  (c1 :> {Ask("events", NoKey)}) @@
  (c2 :> {Ask("plain", NoKey), Ask("binary", k1)}) @@
  (c3 :> {Ask("submit", k1)})
=============================================================================

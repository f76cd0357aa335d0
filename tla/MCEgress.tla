------------------------------ MODULE MCEgress ------------------------------
(* Instances of Egress for TLC.                                            *)
EXTENDS Egress

CONSTANTS h1, h2

Hops == {h1, h2}

(* No peer at all and one, each with and without an exit sink, and two     *)
(* peers, when every packet has a route.                                   *)
Setting == [peers : {{}, {h1}}, exitSink : BOOLEAN]
           \cup [peers : {{h1, h2}}, exitSink : {FALSE}]

OnePeer == [peers : {{h1}}, exitSink : {FALSE}]
=============================================================================

----------------------------- MODULE MCPrevention -----------------------------
(***************************************************************************)
(* Instances of Prevention for TLC.                                        *)
(***************************************************************************)
EXTENDS Prevention, TLC

CONSTANTS a1, a2, gw, m1, w1, w2, net, sur, ml

\* The pairs packets carry. A packet that a router forwards has the MAC of the
\* router, so that an attacker behind the gateway shares the gateway's MAC.
OneDevice == {<<a1, m1>>}
Roaming == {<<a1, m1>>, <<a2, m1>>}
BehindGateway == {<<a1, m1>>, <<gw, m1>>}
NoLinkLayer == {<<a1, NoMAC>>}

\* Workers are interchangeable, the auto-unblock goroutine is not one of them.
MCSymmetry == Permutations(Workers)
===============================================================================

---------------------------- MODULE MC_BridgeHub ----------------------------
EXTENDS BridgeHub, TLC

CONSTANTS h1, h2, w1, w2, r1

\* To a bridge with a token, one without, none at all, and a blank text.
MCMessages ==
    [to : Names, blank : {FALSE}] \cup {[to |-> "telegram", blank |-> TRUE]}

Symmetry == Permutations(Webhooks) \cup Permutations(Workers)
=============================================================================

------------------------------- MODULE MCDemo -------------------------------
EXTENDS Demo

\* One L1 message pays "a", who has nothing on L2.
PoolRecipient == [m \in {"m"} |-> "a"]
PoolFunds == [s \in {"a", "b"} |-> IF s = "a" THEN 0 ELSE 2]
PoolTraffic ==
    {[sender |-> s, nonce |-> n, claim |-> "none", frames |-> FALSE] : s \in {"a", "b"}, n \in 0..1}
        \cup {[sender |-> "a", nonce |-> n, claim |-> "m", frames |-> TRUE] : n \in 0..1}
        \cup {[sender |-> "b", nonce |-> 0, claim |-> "m", frames |-> f] : f \in BOOLEAN}
=============================================================================

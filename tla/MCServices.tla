------------------------------ MODULE MCServices ------------------------------
(* An instance of Services for TLC: the values that a configuration cannot hold. *)
EXTENDS Services

CONSTANTS s1, v1, w1, w2, p1, p2, p3

OneSegment == [s \in {s1} |-> "k1"]
OnePool    == {<<p1, p2>>}
EnvOrNone  == {<<>>, <<p3>>}
SomeOptions == {[useProxy |-> TRUE, proxyUrl |-> FALSE], [useProxy |-> FALSE, proxyUrl |-> TRUE],
                [useProxy |-> TRUE, proxyUrl |-> TRUE]}

TwoSteps == <<[afterMs |-> 2, intervalMs |-> 2], [afterMs |-> -1, intervalMs |-> 0]>>

OneRestarts == [w \in {w1, w2} |-> IF w = w1 THEN 2 ELSE 1]

UpperCase == [w \in {v1, w1, Blank} |-> IF w = v1 THEN w1 ELSE w]

TwoBuckets == [f \in {"hour", "12h", "day"} |-> 2]
===============================================================================

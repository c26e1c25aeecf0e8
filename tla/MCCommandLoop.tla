-------------------------- MODULE MCCommandLoop --------------------------
(* Small instances of CommandLoop for TLC.                                 *)
EXTENDS CommandLoop, TLC

CONSTANTS h1, h2, a1, a2, a3, c1, c2

\* One host, two connections: the agent can reconnect while the handler of
\* its first connection is still there.
OneHost  == {h1}
OneHostActions == [a \in {a1, a2} |-> h1]
OneHostThree == [a \in {a1, a2, a3} |-> h1]
OneAction == [a \in {a1} |-> h1]
OneHostConns == [c \in {c1, c2} |-> h1]

\* Two hosts with one connection each.
TwoHosts == {h1, h2}
TwoHostActions == (a1 :> h1) @@ (a2 :> h1) @@ (a3 :> h2)
TwoHostConns == (c1 :> h1) @@ (c2 :> h2)
==========================================================================

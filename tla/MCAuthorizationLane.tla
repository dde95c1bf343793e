------------------------- MODULE MCAuthorizationLane -------------------------
\* Small instance of the authorization lane for TLC.
EXTENDS AuthorizationLane, TLC

P2TR(key) == [shape |-> "p2tr", key |-> key, value |-> 1]
In(outpoint, posture, leaf) ==
  Input(outpoint, 0, posture, P2TR("q"), "witness", leaf)
Tx(inputs, outputs) == [inputs |-> inputs, outputs |-> outputs]

Two == Tx(<<In("a", "all", NoLeaf), In("b", "default", "leaf")>>, "pay")
Acp == Tx(<<In("a", "acp", NoLeaf)>>, "pay")
AcpLast == Tx(<<In("a", "default", NoLeaf), In("b", "acp", NoLeaf)>>, "pay")

\* The proved subjects and ways in which another one may differ: outputs,
\* order, an added or changed input, the leaf, the posture, the prevout.
MCSubjects ==
  {Two, Acp, AcpLast, Malformed,
   [Two EXCEPT !.outputs = "steal"], [Acp EXCEPT !.outputs = "steal"],
   Tx(<<Two.inputs[2], Two.inputs[1]>>, "pay"),
   Tx(<<Acp.inputs[1], In("c", "default", NoLeaf)>>, "pay"),
   [Two EXCEPT !.inputs[1].sequence = 1],
   [Two EXCEPT !.inputs[1].prevout.value = 2],
   [Two EXCEPT !.inputs[1].from = "none"],
   [Acp EXCEPT !.inputs[1].posture = "all"],
   [Two EXCEPT !.inputs[2].leaf = "other"],
   [Two EXCEPT !.inputs[2].leaf = NoLeaf],
   [Two EXCEPT !.inputs[2].prevout.shape = "p2wsh"]}

MCOptionsOf ==
  [two |-> [network |-> "main", subject |-> Two, lifetime |-> 1],
   acp |-> [network |-> "main", subject |-> Acp, lifetime |-> 2],
   abroad |-> [network |-> "sig", subject |-> Two, lifetime |-> 1],
   forever |-> [network |-> "main", subject |-> Two, lifetime |-> 3]]
MCOptions == DOMAIN MCOptionsOf
MCCredential == [identifier |-> "key", keyIndex |-> NoIndex, kmcIndex |-> 1]
MCSymmetry == Permutations(Calls) \union Permutations(Sessions)
MCPin == [main |-> Doc("main", 0), sig |-> None]
=============================================================================

---------------------------- MODULE PolicyBuilder ----------------------------
(*************************************************************************)
(* From a condition configuration to a policy tree                       *)
(* (src/policy-builder.ts, src/n-use.ts).  A configuration is a record   *)
(* with every key the builder looks at; its shape follows from the keys  *)
(* that are given, in the builder's order of preference.                 *)
(*************************************************************************)
EXTENDS PolicyAst

\* A configuration nobody has filled in yet.
BlankConfig ==
  [op |-> "", explicit |-> FALSE, left |-> <<>>, right |-> <<>>,
   operand |-> <<>>, kids |-> <<>>, threshold |-> <<>>, paramThreshold |-> <<>>,
   paramK |-> <<>>, weights |-> <<>>, defaultWeight |-> 0, weight |-> <<>>,
   useNot |-> FALSE, type |-> "", params |-> <<>>, parameters |-> <<>>]

Leaf(type, params) == [BlankConfig EXCEPT !.type = type, !.params = params]
Group(op, kids) == [BlankConfig EXCEPT !.op = op, !.kids = <<kids>>]
Binary(op, l, r) == [BlankConfig EXCEPT !.op = op, !.left = <<l>>, !.right = <<r>>]
Not(cfg) == [BlankConfig EXCEPT !.op = "NOT", !.operand = <<cfg>>]

\* n-use.ts: a counting condition.
NUse(uses, period, namespace) ==
  Leaf("COUNT_BASED_CONSTRAINT",
       Over([max_uses |-> <<"number", uses>>, reset_interval |-> <<"string", period>>],
            IF namespace = "" THEN <<>>
            ELSE [counter_namespace |-> <<"string", namespace>>]))

-----------------------------------------------------------------------------
IsBinary(cfg) == cfg.left # <<>> /\ cfg.right # <<>>
IsUnary(cfg) == ~IsBinary(cfg) /\ cfg.operand # <<>> /\ cfg.op = "NOT"
IsGroup(cfg) == ~IsBinary(cfg) /\ ~IsUnary(cfg) /\ cfg.op # "" /\ cfg.kids # <<>>

\* OPERATOR_MAP: the short names.
OperatorOf(op) ==
  CASE op = "THRESH" -> "THRESHOLD" [] op = "WTHRESH" -> "WEIGHTED_THRESHOLD"
    [] op = "EXACT" -> "EXACTLY" [] op = "ATMOST" -> "AT_MOST" [] OTHER -> op

FirstGiven(options) ==
  LET given == {i \in DOMAIN options : options[i] # <<>>}
  IN IF given = {} THEN <<>>
     ELSE options[CHOOSE i \in given : \A j \in given : i <= j]

\* Mutant of WeightsOf: only the weights that are given are listed, so a child
\* takes the weight of a later one.
WeightsGiven(cfg) ==
  IF cfg.weights # <<>> THEN cfg.weights
  ELSE IF \E i \in DOMAIN cfg.kids[1] : cfg.kids[1][i].weight # <<>>
  THEN <<FlattenSeq([i \in DOMAIN cfg.kids[1] |-> cfg.kids[1][i].weight])>>
  ELSE <<>>
\* A weights array, or one made of the children's own weights.
WeightsOf(cfg) ==
  IF cfg.weights # <<>> THEN cfg.weights
  ELSE IF \/ \E i \in DOMAIN cfg.kids[1] : cfg.kids[1][i].weight # <<>>
          \/ cfg.defaultWeight # 0
  THEN <<[i \in DOMAIN cfg.kids[1] |->
            IF cfg.kids[1][i].weight = <<>> THEN cfg.defaultWeight
            ELSE cfg.kids[1][i].weight[1]]>>
  ELSE <<>>

\* The raw fields of a template hash are summed up in its commitment, unless
\* the caller brings one.
Commitment == <<"string", "template hash">>
WithCommitment(type, params) ==
  IF /\ type = "TX_TEMPLATE_HASH_MATCHES"
     /\ "expected_template_hash" \notin DOMAIN params
     /\ {"sha_sequences", "sha_outputs"} \subseteq DOMAIN params
  THEN Over(params, [expected_template_hash |-> Commitment])
  ELSE params

\* Every key of a leaf that is not structural is a parameter (its weight
\* too), and those of the nested object win.
LeafParams(cfg) ==
  WithCommitment(cfg.type,
    Over(Over(cfg.parameters, cfg.params),
         IF cfg.weight = <<>> THEN <<>> ELSE [weight |-> <<"number", cfg.weight[1]>>]))

Negated(cfg, node) == IF cfg.useNot THEN Operator("NOT", <<node>>) ELSE node

\* The configurations a configuration holds, and all of them, as in Subtrees.
ConfigChildren(cfg) ==
  IF IsBinary(cfg) THEN cfg.left \o cfg.right
  ELSE IF IsUnary(cfg) THEN cfg.operand
  ELSE IF IsGroup(cfg) THEN cfg.kids[1] ELSE <<>>
Subconfigs(root) == Reached(root, ConfigChildren)

\* What a configuration may hold, as its types say:  one with two sides has no
\* operatorParams.
IsConfig(cfg) ==
  /\ cfg.left \in Optional(ToSet(cfg.left)) /\ cfg.right \in Optional(ToSet(cfg.right))
  /\ cfg.operand \in Optional(ToSet(cfg.operand)) /\ cfg.kids \in Optional(ToSet(cfg.kids))
  /\ \A kids \in ToSet(cfg.kids) : kids \in Seq(ToSet(kids))
  /\ IsBinary(cfg) => cfg.paramThreshold = <<>> /\ cfg.paramK = <<>>
  /\ IsBinary(cfg) \/ IsGroup(cfg) => OperatorOf(cfg.op) \in ToSet(Texts)
  /\ {cfg.threshold, cfg.paramThreshold, cfg.paramK, cfg.weight} \subseteq Optional(Int)
  /\ cfg.weights \in Optional(Seq(Int)) /\ cfg.defaultWeight \in Int
  /\ cfg.useNot \in BOOLEAN
  /\ cfg.type \in ToSet(Texts) /\ IsParams(cfg.params) /\ IsParams(cfg.parameters)

TranslatedNode(cfg, children) ==
  IF IsBinary(cfg)
  THEN Negated(cfg, [Operator(OperatorOf(cfg.op), children) EXCEPT !.k = cfg.threshold])
  ELSE IF IsUnary(cfg) THEN Operator("NOT", children)
  ELSE IF IsGroup(cfg)
  THEN Negated(cfg,
         [Operator(OperatorOf(cfg.op), children)
          EXCEPT !.k = FirstGiven(<<cfg.threshold, cfg.paramThreshold, cfg.paramK>>),
                 !.weights = WeightsOf(cfg)])
  ELSE Negated(cfg, Condition(cfg.type, LeafParams(cfg)))
PoetNode(root) == Walk(root, ConfigChildren, TranslatedNode)

\* conditionConfigToPoetPolicy: a bare condition becomes the child of an AND.
PoetPolicy(cfg) ==
  LET node == PoetNode(cfg)
  IN IF node.kind = "condition" THEN Operator("AND", <<node>>) ELSE node

=============================================================================

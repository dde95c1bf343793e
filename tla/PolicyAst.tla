------------------------------ MODULE PolicyAst ------------------------------
(*************************************************************************)
(* The canonical policy tree (src/contracts/policyAst.ts) and the        *)
(* effective policy composed from it (src/contracts/systemPolicy.ts).    *)
(*                                                                       *)
(* A node is a condition or an operator over a sequence of nodes.  An    *)
(* optional field is a sequence of at most one element.  A parameter     *)
(* value is a pair of its JSON type and its content, and the order of    *)
(* JSON texts is kept by giving every text its place in Texts.           *)
(*************************************************************************)
EXTENDS Integers, Sequences, FiniteSets, SequencesExt, StableSorting

CONSTANTS Texts,      \* the texts a policy holds, as UTF-16 order sorts them
          MaxU32      \* the largest 32-bit number, scaled down

ASSUME PolicyAstAssumption ==
  /\ MaxU32 \in Nat /\ Texts \in Seq(STRING)
  /\ {"true", "false"} \subseteq ToSet(Texts)

OperatorNames ==
  <<"AND", "OR", "NOT", "IMPLIES", "IFF", "THRESHOLD", "WEIGHTED_THRESHOLD",
    "MAJORITY", "EXACTLY", "AT_MOST", "VETO", "NOR", "NAND", "XOR">>
Operators == ToSet(OperatorNames)
Associative == {"AND", "OR"}
Commutative == {"AND", "OR", "XOR", "NAND", "NOR", "MAJORITY", "THRESHOLD",
                "EXACTLY", "AT_MOST"}
DuplicateInsensitive == {"AND", "OR", "NAND", "NOR"}
Unary == {"NOT", "VETO"}

Condition(type, params) ==
  [kind |-> "condition", type |-> type, params |-> params, weight |-> <<>>]
Operator(operator, children) ==
  [kind |-> "operator", operator |-> operator, children |-> children,
   k |-> <<>>, weights |-> <<>>, threshold |-> <<>>, weight |-> <<>>]

\* Two records of parameters in one: where both have a field, the first one's.
Over(f, g) == [x \in DOMAIN f \cup DOMAIN g |-> IF x \in DOMAIN f THEN f[x] ELSE g[x]]

IsOperator(node, operator) == node.kind = "operator" /\ node.operator = operator
Every(optional, Test(_)) == \A i \in DOMAIN optional : Test(optional[i])
Filtered(s, Test(_)) ==
  FlattenSeq([i \in DOMAIN s |-> IF Test(s[i]) THEN <<s[i]>> ELSE <<>>])

Children(node) == IF node.kind = "operator" THEN node.children ELSE <<>>

\* A recursive walk: the nodes at each depth under a root, all it reaches, and
\* what it returns, a node after those below it.
Level(root, Below(_)) ==
  LET at[d \in Nat] ==
        IF d = 0 THEN {root} ELSE UNION {ToSet(Below(n)) : n \in at[d - 1]}
  IN at
Reached(root, Below(_)) ==
  LET from[d \in Nat] ==
        IF Level(root, Below)[d] = {} THEN {}
        ELSE Level(root, Below)[d] \cup from[d + 1]
  IN from[0]
Walk(root, Below(_), Visit(_, _)) ==
  LET of[n \in Reached(root, Below)] ==
        Visit(n, [i \in DOMAIN Below(n) |-> of[Below(n)[i]]])
  IN of[root]

Subtrees(root) == Reached(root, Children)
\* What the fields of a node may hold, in any policy that was parsed: only what
\* JSON can say, but any operator and any number.
Optional(S) == {s \in Seq(S) : Len(s) <= 1}
Values == ({"string", "array", "object"} \X ToSet(Texts))
          \cup ({"boolean"} \X {"true", "false"}) \cup ({"number"} \X Int)
IsParams(params) ==
  DOMAIN params \subseteq ToSet(Texts) /\ params \in [DOMAIN params -> Values]
IsNode(node) ==
  IF node.kind = "condition"
  THEN /\ node \in [kind : {"condition"}, type : ToSet(Texts),
                    params : {node.params}, weight : Optional(Int)]
       /\ IsParams(node.params)
  ELSE /\ node \in [kind : {"operator"}, operator : ToSet(Texts),
                    children : {node.children}, k : Optional(Int),
                    weights : Optional(Seq(Int)), threshold : Optional(Int),
                    weight : Optional(Int)]
       /\ node.children \in Seq(ToSet(node.children))

ConditionsOf(root) == {n \in Subtrees(root) : n.kind = "condition"}

-----------------------------------------------------------------------------
(*************************************************************************)
(* The order of siblings: their JSON text, keys sorted, behind the       *)
(* weight.                                                               *)
(*************************************************************************)
Place(text) == CHOOSE i \in DOMAIN Texts : Texts[i] = text
Keys(params) == Filtered(Texts, LAMBDA text : text \in DOMAIN params)

\* The comma before another element sorts before the bracket that closes; a
\* field that is absent is the empty list.
Listed(parts) == FlattenSeq([i \in DOMAIN parts |-> <<1>> \o parts[i]]) \o <<2>>
Numbers(ns) == Listed([i \in DOMAIN ns |-> <<ns[i]>>])

ValueText(value) ==
  CASE value[1] = "string" -> <<1, Place(value[2])>>
    [] value[1] = "number" -> <<2, value[2]>>
    [] value[1] = "array" -> <<3, Place(value[2])>>
    [] value[1] = "boolean" -> <<4, Place(value[2])>>
    [] value[1] = "object" -> <<5, Place(value[2])>>

ParamsText(params) ==
  LET keys == Keys(params)
  IN Listed([i \in DOMAIN keys |-> <<Place(keys[i])>> \o ValueText(params[keys[i]])])

NodeText(node, children) ==
  (IF node.kind = "operator"
   THEN <<1>> \o Listed(children) \o <<Place(node.operator)>> \o Numbers(node.k)
         \o Listed([i \in DOMAIN node.weights |-> Numbers(node.weights[i])])
   ELSE <<2>> \o ParamsText(node.params) \o <<Place(node.type)>>)
  \o Numbers(node.weight)

JsonText(root) == Walk(root, Children, NodeText)

NodeSortKey(node) == Numbers(node.weight) \o JsonText(node)

Before(p, q) ==
  \/ \E i \in DOMAIN p \cap DOMAIN q :
       p[i] < q[i] /\ \A j \in 1..i - 1 : p[j] = q[j]
  \/ Len(p) < Len(q) /\ \A i \in DOMAIN p : p[i] = q[i]

-----------------------------------------------------------------------------
(*************************************************************************)
(* Canonicalization.                                                     *)
(*************************************************************************)
IsCount(n) == n >= 0

\* normalizeOperatorParams: k, the weights, and the deprecated threshold.  A
\* threshold that is not contradicted is promoted to k without being checked.
OperatorParamsAccepted(node) ==
  /\ Every(node.k, IsCount)
  /\ Every(node.weights, LAMBDA ws : Every(ws, IsCount))
  /\ node.k # <<>> /\ node.threshold # <<>> => node.k = node.threshold

NodeAccepted(node) ==
  /\ Every(node.weight, IsCount)
  /\ node.kind = "condition" => node.type # ""
  /\ node.kind = "operator" =>
       /\ node.operator \in Operators
       /\ node.children # <<>>
       /\ node.operator \in Unary => Len(node.children) = 1
       /\ OperatorParamsAccepted(node)
Canonicalizes(root) == \A node \in Subtrees(root) : NodeAccepted(node)

Flattened(operator, children) ==
  IF operator \notin Associative THEN children
  ELSE FlattenSeq([i \in DOMAIN children |->
         IF IsOperator(children[i], operator)
         THEN children[i].children ELSE <<children[i]>>])

\* Each child beside its key while they are sorted.
Keyed(children) == [i \in 1..Len(children) |-> <<NodeSortKey(children[i]), children[i]>>]
Sorted(operator, children) ==
  LET keyed == Keyed(children)
      sorted == StableSort(keyed, {p \in PairsOf(keyed) : Before(p[1][1], p[2][1])})
  IN IF operator \notin Commutative THEN children
     ELSE [i \in 1..Len(keyed) |-> sorted[i][2]]

Unrepeated(operator, children) ==
  IF operator \notin DuplicateInsensitive THEN children
  ELSE FlattenSeq([i \in DOMAIN children |->
         IF i > 1 /\ children[i] = children[IF i > 1 THEN i - 1 ELSE i]
         THEN <<>> ELSE <<children[i]>>])

\* Mutant of CanonicalChildren: the siblings are sorted before they are
\* flattened.
SortedFirst(operator, children) ==
  Unrepeated(operator, Flattened(operator, Sorted(operator, children)))
CanonicalChildren(operator, children) ==
  Unrepeated(operator, Sorted(operator, Flattened(operator, children)))

\* Of a document Canonicalizes accepts.
CanonicalNode(node, children) ==
  IF node.kind = "condition" THEN node
  ELSE [node EXCEPT
          !.children = CanonicalChildren(node.operator, children),
          !.k = IF node.k = <<>> THEN node.threshold ELSE node.k,
          !.threshold = <<>>]
Canonical(root) == Walk(root, Children, CanonicalNode)

-----------------------------------------------------------------------------
(*************************************************************************)
(* The effective policy:  AND of the system clause and the user's        *)
(* policy, canonicalized.  The clause is the one REQKEY condition, over  *)
(* the wallet's template and its whole universe.                         *)
(*************************************************************************)
SystemRange == 512
SystemClause(template) ==
  Condition("REQKEY", [use_descriptor |-> <<"boolean", "true">>,
                       descriptor_template |-> <<"string", template>>,
                       derivation_range |-> <<"number", SystemRange>>])

\* Templates of the wallet's tagged form, among all texts.
CONSTANT WalletTemplates

IsSystemClause(node) ==
  /\ node.kind = "condition" /\ node.type = "REQKEY"
  /\ "descriptor_template" \in DOMAIN node.params
  /\ node.params.descriptor_template \in {<<"string", t>> : t \in WalletTemplates}
  /\ "derivation_range" \in DOMAIN node.params
  /\ node.params.derivation_range = <<"number", SystemRange>>

\* Mutant of CarriesReqkey: only the root is looked at.
RootIsReqkey(node) == node.kind = "condition" /\ node.type = "REQKEY"
CarriesReqkey(node) == \E c \in ConditionsOf(node) : c.type = "REQKEY"

\* What is joined must canonicalize:  a policy that was decoded may not.
Composes(system, user) ==
  /\ IsSystemClause(system) /\ ~CarriesReqkey(user)
  /\ Canonicalizes(Operator("AND", <<system, user>>))
\* Mutant of EffectivePolicy: two canonical halves are joined as they are.
EffectiveJoined(system, user) == Operator("AND", <<system, user>>)
EffectivePolicy(system, user) == Canonical(Operator("AND", <<system, user>>))

-----------------------------------------------------------------------------
(*************************************************************************)
(* What a policy means, as docs/policy-reference.md gives its operators: *)
(* the reference the transformations are compared with.  An operator     *)
(* sees which of its children are satisfied.                             *)
(*************************************************************************)
Weigh(weights, sat) == MapThenSumSet(LAMBDA i : weights[i], sat)
HoldsFor(node, sat) ==
  LET n == Len(node.children)
      k == IF node.k = <<>> THEN node.threshold ELSE node.k
      atLeast(m) == k # <<>> /\ m >= k[1]
      weights == [i \in 1..n |-> IF node.weights # <<>> /\ i \in DOMAIN node.weights[1]
                                THEN node.weights[1][i] ELSE 0]
  IN CASE node.operator = "AND" -> sat = 1..n
       [] node.operator = "OR" -> sat # {}
       [] node.operator = "NOT" -> 1 \notin sat
       [] node.operator = "IMPLIES" -> 1 \in sat => 2 \in sat
       [] node.operator = "IFF" -> 1 \in sat <=> 2 \in sat
       [] node.operator = "THRESHOLD" -> atLeast(Cardinality(sat))
       [] node.operator = "WEIGHTED_THRESHOLD" -> atLeast(Weigh(weights, sat))
       [] node.operator = "MAJORITY" -> 2 * Cardinality(sat) > n
       [] node.operator = "EXACTLY" -> k = <<Cardinality(sat)>>
       [] node.operator = "AT_MOST" -> k # <<>> /\ Cardinality(sat) <= k[1]
       [] node.operator = "VETO" -> sat = 2..n
       [] node.operator = "NOR" -> sat = {}
       [] node.operator = "NAND" -> sat # 1..n
       [] node.operator = "XOR" -> Cardinality(sat) = 1
       [] OTHER -> FALSE

=============================================================================

----------------------------- MODULE PolicyLane -----------------------------
(*************************************************************************)
(* What an application does with one policy: it authors it (a            *)
(* configuration, a template, a document), canonicalizes, composes,      *)
(* stores and loads it, keeps a selection record, and hands it to        *)
(* createKey (src/SigbashClient.ts), which normalises the very object it *)
(* is given.                                                             *)
(*************************************************************************)
EXTENDS PolicyTemplates, PolicyBuilder

CONSTANTS Configs,          \* configurations an application writes
          Documents,        \* policy roots read from JSON
          SystemTemplate,   \* the wallet's template
          KeyTemplateInputs,  \* <<template of createKey, parameters>>
          Selections,       \* <<template of the catalogue, parameters>>
          Tamperings,       \* <<field, value>> a stored record may be given
          MaxDepth          \* how deep documents and configurations are nested

\* The texts the program writes into a policy itself.
Vocabulary ==
  Operators \cup
  {"true", "false", "REQKEY", "use_descriptor", "descriptor_template",
   "derivation_range", SystemTemplate, "selector", "ANY", "operator", "EQ", "value",
   "min", "max", "OUTPUT_DEST_IS_IN_SETS", "addresses", "network",
   "TIME_BASED_CONSTRAINT", "constraint_type", "after", "within", "start_time",
   "end_time", "active_days", "start_hour", "end_hour", "start_date_within",
   "end_date_within", "DERIVED_NO_NEW_OUTPUTS", "expected_value",
   "expected_template_hash", "template hash", "weight"}

\* Documents and configurations are JSON:  they end somewhere, and their fields
\* have JSON types.  The wallet's template has the wallet's tagged form, and the
\* catalogues have the templates that are asked of them.
ASSUME LaneAssumption ==
  /\ MaxDepth \in Nat /\ Vocabulary \subseteq ToSet(Texts)
  /\ SystemTemplate \in WalletTemplates
  /\ \A root \in Documents :
       Level(root, Children)[MaxDepth] = {} /\ \A node \in Subtrees(root) : IsNode(node)
  /\ \A root \in Configs :
       /\ Level(root, ConfigChildren)[MaxDepth] = {}
       /\ \A cfg \in Subconfigs(root) : IsConfig(cfg)
  /\ \A input \in KeyTemplateInputs :
       /\ input[1] \in KeyTemplates
       /\ \A key \in DOMAIN input[2] : input[2][key] \in Values
  /\ \A input \in Selections : input[1] \in Templates

VARIABLES
  source,    \* what was authored: a configuration or a root, never changed
  doc,       \* the policy object the application holds, or none
  frozen,    \* whether that object is deeply frozen
  composed,  \* whether the system clause is part of it
  stored,    \* the encoding that was stored (and of what), or none
  compiled,  \* the root createKey handed to the compiler last, or none
  outcome,   \* how the last call ended
  record,    \* the selection record, or none
  tampered,  \* whether anything but createPolicyTemplateSelection wrote it
  verdict    \* what validatePolicyTemplateSelection said of it last

docVars == <<source, doc, frozen, composed, stored, compiled, outcome>>
recordVars == <<record, tampered, verdict>>
vars == <<docVars, recordVars>>

Init ==
  /\ source = [form |-> "none"] /\ doc = <<>> /\ frozen = FALSE /\ composed = FALSE
  /\ stored = <<>> /\ compiled = <<>> /\ outcome = "none"
  /\ record = <<>> /\ tampered = FALSE /\ verdict = "none"

-----------------------------------------------------------------------------
(*************************************************************************)
(* normalisePolicy: conditions take the forms the evaluator knows, in    *)
(* place.                                                                *)
(*************************************************************************)
BooleanDerived ==
  {"DERIVED_IS_CONSOLIDATION", "DERIVED_IS_COINJOIN_LIKE",
   "DERIVED_IS_PAYJOIN_LIKE", "DERIVED_RBF_ENABLED", "DERIVED_NO_NEW_OUTPUTS"}
SelectorRequired ==
  {"INPUT_SEQUENCE", "INPUT_SCRIPT_TYPE", "INPUT_SIGHASH_TYPE", "OUTPUT_SCRIPT_TYPE"}
SelectorMandatory == {"INPUT_VALUE", "OUTPUT_VALUE"}
SighashTypes ==
  [SIGHASH_DEFAULT |-> 0, SIGHASH_ALL |-> 1, SIGHASH_NONE |-> 2,
   SIGHASH_SINGLE |-> 3, SIGHASH_ANYONECANPAY_ALL |-> 129,
   SIGHASH_ANYONECANPAY_NONE |-> 130, SIGHASH_ANYONECANPAY_SINGLE |-> 131]
ScriptTypes ==
  [P2PKH |-> 0, P2SH |-> 1, P2WPKH |-> 2, P2WSH |-> 3, P2TR |-> 4,
   OP_RETURN |-> 6, UNKNOWN |-> 255]

Without(params, key) == [k \in DOMAIN params \ {key} |-> params[k]]
\* What JavaScript takes for false, of what JSON can say.
Falsy == {<<"string", "">>, <<"number", 0>>, <<"boolean", "false">>}
Truthy(params, key) == key \in DOMAIN params /\ params[key] \notin Falsy

\* The name of a byte becomes a range of that byte.
Range255(params, key, n) ==
  Over([min |-> <<"number", n>>, max |-> <<"number", n>>], Without(params, key))

\* The string-valued enumeration of a condition, if it has one.
EnumOf(c) ==
  CASE c.type = "INPUT_SIGHASH_TYPE" /\ Has(c.params, "sighash_type", "string") ->
         <<"sighash_type", SighashTypes>>
    [] c.type \in {"INPUT_SCRIPT_TYPE", "OUTPUT_SCRIPT_TYPE"}
       /\ Has(c.params, "script_type", "string") -> <<"script_type", ScriptTypes>>
    [] OTHER -> <<>>

EmptyList(params) == Has(params, "addresses", "array") /\ params.addresses[2] = "[]"
HasDescriptor(params) ==
  /\ "use_descriptor" \in DOMAIN params
  /\ params.use_descriptor = <<"boolean", "true">>
  /\ Truthy(params, "descriptor_template")

\* The conditions normalisePolicy throws a PolicyCompileError for.
RefusedCondition(c) ==
  \/ EnumOf(c) # <<>> /\ c.params[EnumOf(c)[1]][2] \notin DOMAIN EnumOf(c)[2]
  \/ c.type \in SelectorMandatory /\ ~Truthy(c.params, "selector")
  \/ /\ c.type \in {"INPUT_SOURCE_IS_IN_SETS", "OUTPUT_DEST_IS_IN_SETS"}
     /\ EmptyList(c.params) /\ ~HasDescriptor(c.params)

\* An expected value becomes an equality with 1 where it is wanted, or with 0.
EqualTo(params, wanted) ==
  Over([value |-> <<"number", IF wanted THEN 1 ELSE 0>>],
       Over(Without(params, "expected_value"), [operator |-> <<"string", "EQ">>]))
WantsTrue(params) ==
  /\ "expected_value" \in DOMAIN params
  /\ params.expected_value \in {<<"boolean", "true">>, <<"number", 1>>, <<"string", "1">>}
\* Mutant of AsEquality: a condition without one is given the value 0 too.
AsEqualityAlways(params) == EqualTo(params, WantsTrue(params))
\* Mutant of AsEquality: true is not told from false, only 1 from 0.
AsEqualityNumeric(params) ==
  IF "expected_value" \notin DOMAIN params THEN params
  ELSE EqualTo(params, params.expected_value \in {<<"number", 1>>, <<"string", "1">>})
AsEquality(params) ==
  IF "expected_value" \notin DOMAIN params THEN params
  ELSE EqualTo(params, WantsTrue(params))

NormalParams(c) ==
  LET derived == IF c.type \in BooleanDerived THEN AsEquality(c.params) ELSE c.params
      ranged == IF EnumOf(c) = <<>> THEN derived
                ELSE Range255(derived, EnumOf(c)[1],
                              EnumOf(c)[2][derived[EnumOf(c)[1]][2]])
  IN IF c.type \in SelectorRequired /\ ~Truthy(ranged, "selector")
     THEN Over([selector |-> <<"string", "ANY">>], ranged) ELSE ranged

NormalCondition(c) == [c EXCEPT !.params = NormalParams(c)]

\* The walk: the object as the walk leaves it, and the error it ended with.
\* The nodes before the one it threw at stay converted, and writing to a frozen
\* node (an operator's children are always written) is a TypeError.
NormalisedNode(node, visits, isFrozen) ==
  LET reached(i) == \A j \in 1..i - 1 : visits[j].error = "none"
      thrown == {i \in DOMAIN visits : visits[i].error # "none" /\ reached(i)}
  IN IF node.kind = "condition"
     THEN CASE RefusedCondition(node) -> [node |-> node, error |-> "PolicyCompileError"]
            [] ~RefusedCondition(node) /\ isFrozen /\ NormalCondition(node) # node ->
                 [node |-> node, error |-> "TypeError"]
            [] OTHER -> [node |-> NormalCondition(node), error |-> "none"]
     ELSE [node |-> [node EXCEPT !.children =
                       [i \in DOMAIN visits |-> IF reached(i) THEN visits[i].node
                                                ELSE node.children[i]]],
           error |-> IF thrown # {} THEN visits[CHOOSE i \in thrown : TRUE].error
                     ELSE IF isFrozen THEN "TypeError" ELSE "none"]
Normalised(root, isFrozen) ==
  Walk(root, Children, LAMBDA node, visits : NormalisedNode(node, visits, isFrozen))

\* validateReqkeyDescriptorConstraints: a descriptor REQKEY stands alone.
NodeReqkeys(node, children) ==
  IF node.kind = "operator" THEN FlattenSeq(children)
  ELSE IF node.type = "REQKEY" THEN <<node.params>> ELSE <<>>
ReqkeysOf(root) == Walk(root, Children, NodeReqkeys)

IsDescriptor(params) ==
  "use_descriptor" \in DOMAIN params /\ params.use_descriptor = <<"boolean", "true">>
ReqkeysAccepted(root) ==
  LET reqkeys == ReqkeysOf(root)
      descriptors == Filtered(reqkeys, IsDescriptor)
  IN /\ descriptors # <<>> => Len(reqkeys) = 1
     /\ \A i \in DOMAIN descriptors :
          Has(descriptors[i], "derivation_range", "number") =>
            descriptors[i].derivation_range[2] <= SystemRange

-----------------------------------------------------------------------------
(*************************************************************************)
(* Authoring.  A behaviour follows one policy or one selection record:   *)
(* they share no state.                                                  *)
(*************************************************************************)
Nothing == doc = <<>> /\ record = <<>>
Hold(root, from) ==
  /\ Nothing
  /\ doc' = <<root>> /\ source' = from /\ outcome' = "ok"
  /\ UNCHANGED <<frozen, composed, stored, compiled, recordVars>>

FromConfig(cfg) == Hold(PoetPolicy(cfg), [form |-> "config", config |-> cfg])

\* A parsed JSON object; nothing is checked yet.
FromDocument(root) == Hold(root, [form |-> "root", root |-> root])

\* buildPolicyFromTemplate: the parameters, then the gate over what was built.
FromKeyTemplate(template, p) ==
  /\ Nothing
  /\ IF /\ KeyTemplateAccepts(template, p)
        /\ GateAccepts(KeyTemplatePolicy(template, p), FALSE)
     THEN Hold(KeyTemplatePolicy(template, p),
               [form |-> "root", root |-> KeyTemplatePolicy(template, p)])
     ELSE /\ outcome' = "refused"
          /\ UNCHANGED <<source, doc, frozen, composed, stored, compiled, recordVars>>

-----------------------------------------------------------------------------
(*************************************************************************)
(* The contracts.                                                        *)
(*************************************************************************)
\* canonicalizePolicyRoot: a new object, deeply frozen.
Canonicalize ==
  /\ doc # <<>>
  /\ IF Canonicalizes(doc[1])
     THEN doc' = <<Canonical(doc[1])>> /\ frozen' = TRUE /\ outcome' = "ok"
     ELSE outcome' = "refused" /\ UNCHANGED <<doc, frozen>>
  /\ UNCHANGED <<source, composed, stored, compiled, recordVars>>

\* The object is of the type CanonicalPolicyAstV1:  canonicalization made it,
\* and it is frozen, or it was decoded.
IsAst == frozen \/ stored # <<>>

\* composeEffectivePolicy:  a new object, deeply frozen.
Compose ==
  /\ doc # <<>> /\ IsAst
  /\ LET system == SystemClause(SystemTemplate)
     IN IF Composes(system, doc[1])
        THEN /\ doc' = <<EffectivePolicy(system, doc[1])>> /\ frozen' = TRUE
             /\ composed' = TRUE /\ outcome' = "ok"
        ELSE outcome' = "refused" /\ UNCHANGED <<doc, frozen, composed>>
  /\ UNCHANGED <<source, stored, compiled, recordVars>>

\* encodeCanonicalPolicyAstV1, and what it returned put away.
Store ==
  /\ doc # <<>> /\ IsAst
  /\ IF Encodable(doc[1])
     THEN /\ stored' = <<[bytes |-> Encoded(doc[1]), composed |-> composed]>>
          /\ outcome' = "ok"
     ELSE outcome' = "refused" /\ UNCHANGED stored
  /\ UNCHANGED <<source, doc, frozen, composed, compiled, recordVars>>

\* decodeCanonicalPolicyAstV1 of the stored bytes: a new object, not frozen.
Load ==
  /\ stored # <<>> /\ Decodes(stored[1].bytes)
  /\ doc' = <<Decoded(stored[1].bytes)>> /\ frozen' = FALSE
  /\ composed' = stored[1].composed /\ outcome' = "ok"
  /\ UNCHANGED <<source, stored, compiled, recordVars>>

\* createKey up to the compilation.  What it throws leaves the object as far
\* normalised as the walk came.
CreateKey ==
  /\ doc # <<>>
  /\ LET run == Normalised(doc[1], frozen)
     IN /\ doc' = <<run.node>>
        /\ IF run.error = "none" /\ ReqkeysAccepted(run.node)
           THEN compiled' = <<run.node>> /\ outcome' = "ok"
           ELSE /\ outcome' = IF run.error = "TypeError" THEN "TypeError" ELSE "refused"
                /\ UNCHANGED compiled
  /\ UNCHANGED <<source, frozen, composed, stored, recordVars>>

-----------------------------------------------------------------------------
(*************************************************************************)
(* Selection records.                                                    *)
(*************************************************************************)
Select(template, p) ==
  /\ Nothing /\ TemplateAccepts(template, p)
  /\ record' = <<Selection(template, p)>>
  /\ UNCHANGED <<docVars, tampered, verdict>>

\* The record changes while it is stored: an older release wrote it, or a
\* field was edited.
Tamper(field, value) ==
  /\ record # <<>> /\ ~tampered
  /\ record' = <<[record[1] EXCEPT ![field] = value]>>
  /\ tampered' = TRUE /\ verdict' = "none"
  /\ UNCHANGED docVars

ValidateSelection ==
  /\ record # <<>> /\ verdict = "none"
  /\ verdict' = IF SelectionAccepts(record[1]) THEN "accepted" ELSE "refused"
  /\ UNCHANGED <<docVars, record, tampered>>

Next ==
  \/ \E cfg \in Configs : FromConfig(cfg)
  \/ \E root \in Documents : FromDocument(root)
  \/ \E input \in KeyTemplateInputs : FromKeyTemplate(input[1], input[2])
  \/ Canonicalize \/ Compose \/ Store \/ Load \/ CreateKey
  \/ \E input \in Selections : Select(input[1], input[2])
  \/ \E t \in Tamperings : Tamper(t[1], t[2])
  \/ ValidateSelection

Spec == Init /\ [][Next]_vars

-----------------------------------------------------------------------------
(*************************************************************************)
(* The reference: what a policy means.  A condition is read as           *)
(* docs/policy-reference.md describes its parameters, whether they are   *)
(* still as the author wrote them or normalised:  two conditions are one *)
(* atom when they ask the same.  An environment is the set of atoms that *)
(* hold.                                                                 *)
(*************************************************************************)
Given(params, key) == IF key \in DOMAIN params THEN <<params[key]>> ELSE <<>>

\* The derived conditions:  true requires the property, false forbids it, and
\* the relation to it is equality unless another is given.  JSON's other
\* writings of true are 1 and "1".
IsDerived(c) ==
  /\ c.type \in {"DERIVED_IS_CONSOLIDATION", "DERIVED_IS_COINJOIN_LIKE",
                 "DERIVED_IS_PAYJOIN_LIKE", "DERIVED_RBF_ENABLED",
                 "DERIVED_NO_NEW_OUTPUTS"}
  /\ "expected_value" \in DOMAIN c.params
TrueWritings == {<<"boolean", "true">>, <<"number", 1>>, <<"string", "1">>}
Demanded(c) ==
  IF ~IsDerived(c) THEN <<Given(c.params, "operator"), Given(c.params, "value")>>
  ELSE <<IF "operator" \in DOMAIN c.params THEN Given(c.params, "operator")
         ELSE <<<<"string", "EQ">>>>,
         IF c.params.expected_value \in TrueWritings THEN <<<<"number", 1>>>>
         ELSE <<<<"number", 0>>>>>>

\* The named bytes:  a signature hash type of Bitcoin, its highest bit set for
\* ANYONECANPAY, and a script type in the order of the reference.
AnyoneCanPay ==
  {"SIGHASH_ANYONECANPAY_ALL", "SIGHASH_ANYONECANPAY_NONE", "SIGHASH_ANYONECANPAY_SINGLE"}
ByteNamed ==
  [sighash_type |->
     [name \in AnyoneCanPay \cup {"SIGHASH_DEFAULT", "SIGHASH_ALL", "SIGHASH_NONE",
                                  "SIGHASH_SINGLE"} |->
        (CASE name = "SIGHASH_DEFAULT" -> 0
           [] name \in {"SIGHASH_ALL", "SIGHASH_ANYONECANPAY_ALL"} -> 1
           [] name \in {"SIGHASH_NONE", "SIGHASH_ANYONECANPAY_NONE"} -> 2
           [] OTHER -> 3) + (IF name \in AnyoneCanPay THEN 128 ELSE 0)],
   script_type |->
     [name \in {"P2PKH", "P2SH", "P2WPKH", "P2WSH", "P2TR", "OP_RETURN", "UNKNOWN"} |->
        CASE name = "P2PKH" -> 0 [] name = "P2SH" -> 1 [] name = "P2WPKH" -> 2
          [] name = "P2WSH" -> 3 [] name = "P2TR" -> 4 [] name = "OP_RETURN" -> 6
          [] name = "UNKNOWN" -> 255]]
NamesOf(type) ==
  IF type = "INPUT_SIGHASH_TYPE" THEN {"sighash_type"}
  ELSE IF type \in {"INPUT_SCRIPT_TYPE", "OUTPUT_SCRIPT_TYPE"} THEN {"script_type"} ELSE {}
NamesGiven(c) ==
  {key \in NamesOf(c.type) : Has(c.params, key, "string")
                             /\ c.params[key][2] \in DOMAIN ByteNamed[key]}
Bounds(c) ==
  IF NamesGiven(c) = {} THEN <<Given(c.params, "min"), Given(c.params, "max")>>
  ELSE LET key == CHOOSE key \in NamesGiven(c) : TRUE
           byte == <<<<"number", ByteNamed[key][c.params[key][2]]>>>>
       IN <<byte, byte>>

\* The conditions with an optional selector, ANY where it is left out.
Selective ==
  {"INPUT_SEQUENCE", "INPUT_SIGHASH_TYPE", "INPUT_SCRIPT_TYPE", "OUTPUT_SCRIPT_TYPE",
   "OUTPUT_DEST_IS_IN_SETS", "INPUT_SOURCE_IS_IN_SETS", "OUTPUT_OP_RETURN"}
Selected(c) ==
  IF c.type \in Selective /\ ~Truthy(c.params, "selector") THEN <<<<"string", "ANY">>>>
  ELSE Given(c.params, "selector")

\* A weight is its operator's affair.
AtomOf(c) ==
  LET read == {"operator", "value", "min", "max", "selector", "weight"}
              \cup (IF IsDerived(c) THEN {"expected_value"} ELSE {}) \cup NamesGiven(c)
  IN [type |-> c.type, demanded |-> Demanded(c), bounds |-> Bounds(c),
      selected |-> Selected(c), rest |-> [key \in DOMAIN c.params \ read |-> c.params[key]]]

NodeSatisfied(node, children, env) ==
  IF node.kind = "condition" THEN AtomOf(node) \in env
  ELSE HoldsFor(node, {i \in DOMAIN children : children[i]})
Satisfied(root, env) ==
  Walk(root, Children, LAMBDA node, children : NodeSatisfied(node, children, env))

\* The meaning of a configuration: its children's, under its operator, each
\* child with its own weight, the whole negated by useNot, which every form
\* declares.
OwnWeights(cfg) ==
  [i \in DOMAIN cfg.kids[1] |-> IF cfg.kids[1][i].weight = <<>> THEN cfg.defaultWeight
                                ELSE cfg.kids[1][i].weight[1]]
MeantNode(cfg, children, env) ==
  LET node == [Operator(OperatorOf(cfg.op), ConfigChildren(cfg)) EXCEPT
                 !.k = FirstGiven(<<cfg.threshold, cfg.paramThreshold, cfg.paramK>>),
                 !.weights = IF IsBinary(cfg) THEN <<>>
                             ELSE IF cfg.weights # <<>> THEN cfg.weights
                             ELSE <<OwnWeights(cfg)>>]
      sat == {i \in DOMAIN children : children[i]}
  IN IF IsUnary(cfg) THEN (sat = {}) # cfg.useNot
     ELSE IF IsBinary(cfg) \/ IsGroup(cfg) THEN HoldsFor(node, sat) # cfg.useNot
     ELSE (AtomOf(Condition(cfg.type, LeafParams(cfg))) \in env) # cfg.useNot
ConfigSatisfied(root, env) ==
  Walk(root, ConfigChildren, LAMBDA cfg, children : MeantNode(cfg, children, env))

SourceSatisfied(env) ==
  IF source.form = "config" THEN ConfigSatisfied(source.config, env)
  ELSE Satisfied(source.root, env)

AtomsOf(root) == {AtomOf(c) : c \in ConditionsOf(root)}

-----------------------------------------------------------------------------
(*************************************************************************)
(* Properties.                                                           *)
(*************************************************************************)
\* The values the variables take, and stored bytes are bytes the decoder takes.
TypeOK ==
  /\ frozen \in BOOLEAN /\ composed \in BOOLEAN /\ tampered \in BOOLEAN
  /\ \A v \in {doc, stored, compiled, record} : Len(v) <= 1
  /\ outcome \in {"none", "ok", "refused", "TypeError"}
  /\ verdict \in {"none", "accepted", "refused"}
  /\ doc = <<>> => ~frozen /\ ~composed /\ stored = <<>> /\ compiled = <<>>
  /\ stored # <<>> => Decodes(stored[1].bytes)

\* The policy that is held is satisfied exactly where what its author wrote is,
\* and, once composed, only together with the system clause.
MeansWhatWasWritten ==
  doc # <<>> =>
    \A env \in SUBSET (AtomsOf(doc[1]) \cup
         (IF source.form = "root" THEN AtomsOf(source.root) ELSE {})) :
      Satisfied(doc[1], env) <=>
        /\ SourceSatisfied(env)
        /\ composed => AtomOf(SystemClause(SystemTemplate)) \in env

\* The author put useNot on no unary NOT, the one form the builder drops it of.
NoNegatedNot ==
  source.form = "config" =>
    \A cfg \in Subconfigs(source.config) : ~(IsUnary(cfg) /\ cfg.useNot)

\* Whatever was done to a policy - the builder's translation, canonicalization,
\* a trip through its bytes, normalisation that was completed or thrown out of,
\* composition - it means what its author wrote, useNot on a unary NOT aside.
MeaningKept == NoNegatedNot => MeansWhatWasWritten

\* useNot negates the configuration it is declared for, a unary NOT included.
UseNotIsHonoured == MeansWhatWasWritten

\* Writings of one policy: siblings swapped, repeated or grouped where that
\* does not matter, k under its deprecated name, at any depth.
NodeRearranged(node, children) ==
  LET kids == node.children
      n == Len(kids)
      op == node.operator
      with(others) == [node EXCEPT !.children = others]
  IN IF node.kind = "condition" THEN {node}
     ELSE {with(ReplaceAt(kids, p[1], p[2])) :
             p \in UNION {{i} \X children[i] : i \in 1..n}}
          \cup (IF op \notin Commutative THEN {}
                ELSE {with(Reverse(kids))})
          \cup (IF op \notin {"AND", "OR", "NAND", "NOR"} THEN {}
                ELSE {with(Append(kids, kids[1]))})
          \cup (IF op \notin {"AND", "OR"} THEN {}
                ELSE {with(<<Operator(op, SubSeq(kids, 1, i))>> \o SubSeq(kids, i + 1, n))
                      : i \in 1..n})
          \cup {[node EXCEPT !.k = <<>>, !.threshold = IF node.k = <<>> THEN @ ELSE node.k]}
Rearranged(root) == Walk(root, Children, NodeRearranged)

\* The canonical form forgets how a policy was written down: every writing of
\* it, the canonical one included, canonicalizes to the same tree, and so has
\* the same bytes and the same digest.
LayoutForgotten ==
  doc # <<>> /\ Canonicalizes(doc[1]) =>
    \A canonical \in {Canonical(doc[1])} :
      \A other \in Rearranged(doc[1]) \cup {canonical} : Canonical(other) = canonical

\* A canonical policy that has an encoding is what its encoding decodes to,
\* weights, thresholds and parameters of every JSON type included.
RoundTrip ==
  doc # <<>> /\ Canonicalizes(doc[1]) =>
    \A canonical \in {Canonical(doc[1])} : Encodable(canonical) =>
      \A bytes \in {Encoded(canonical)} : Decodes(bytes) /\ Decoded(bytes) = canonical

\* A policy the gate lets through is let through in its canonical form too, so
\* that gating before and after canonicalization cannot disagree on it.
GateSurvivesCanonical ==
  doc # <<>> /\ Canonicalizes(doc[1]) =>
    \A canonical \in {Canonical(doc[1])}, allowUnknown \in BOOLEAN :
      GateAccepts(doc[1], allowUnknown) => GateAccepts(canonical, allowUnknown)

\* The canonical form is a normal form: one for all writings of a policy, the
\* same after a trip through its bytes, and no less accepted by the gate.
NormalForm == LayoutForgotten /\ RoundTrip /\ GateSurvivesCanonical

\* A composed policy carries one REQKEY condition, the system clause, wherever
\* sorting and flattening moved it, and createKey's own checks accept it.
OneReqkey ==
  composed => /\ ReqkeysOf(doc[1]) = <<SystemClause(SystemTemplate).params>>
              /\ ReqkeysAccepted(doc[1])

\* The object an application may share because it is deeply frozen is
\* canonical, after a composition and after a createKey that failed on it too.
FrozenIsCanonical == frozen => Canonical(doc[1]) = doc[1]

\* What createKey hands to the compiler needs no further normalisation: no
\* condition reaches the evaluator in a form it does not know.
CompiledIsNormal ==
  compiled # <<>> => Normalised(compiled[1], FALSE) = [node |-> compiled[1], error |-> "none"]

\* The object an application holds and the one the compiler got are whole, of
\* their types and in the form that is said of them, also after a normalisation
\* that was thrown out of halfway.
ObjectsWhole == TypeOK /\ FrozenIsCanonical /\ CompiledIsNormal

\* An application that passes createKey the object of an earlier createKey,
\* which that call has rewritten, has the same policy compiled.
ReuseCompilesSame == [][doc = compiled => compiled' = compiled]_vars

\* A selection record nobody touched is accepted: the catalogue builds nothing
\* its own gate refuses, and building twice gives the same output.
UntouchedIsAccepted == record # <<>> /\ ~tampered => verdict # "refused"

\* A record that is accepted, whatever happened to it in storage, says of its
\* template's class what a selection made now from its parameters would say.
AcceptedIsCurrent ==
  verdict = "accepted" =>
    LET r == record[1]
        fresh == Selection(r.templateId, r.params)
    IN /\ r.catalogueVersion = fresh.catalogueVersion
       /\ r.templateVersion = fresh.templateVersion
       /\ r.enforcementClass = fresh.enforcementClass
       /\ fresh.astDigest # <<>> => r.astDigest = fresh.astDigest
       /\ fresh.workflowFact # <<>> => r.workflowFact = fresh.workflowFact

\* A stored selection is accepted exactly while it is current: the one nobody
\* touched is, and whatever is accepted says what a new one would.
SelectionJudged == UntouchedIsAccepted /\ AcceptedIsCurrent

=============================================================================

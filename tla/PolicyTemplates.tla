--------------------------- MODULE PolicyTemplates ---------------------------
(*************************************************************************)
(* The reviewed policy templates (src/contracts/policyTemplates.ts): the *)
(* verdict table, the gate no other policy passes, the builders of the   *)
(* catalogue and the records of what was selected; and the templates     *)
(* createKey takes (src/templates.ts).                                   *)
(*************************************************************************)
EXTENDS PolicyEncoding

CONSTANTS AddressLists,   \* texts of well-formed lists of distinct addresses
          Hours, Dates,   \* texts "HH:MM" and "YYYY-MM-DD"
          DaysOf,         \* the numbers in each text of a list of days
          MaxFee          \* the supply cap, scaled down

\* The text of the same days, each once and in order.
IsDaysInOrder(text, days) ==
  /\ ToSet(DaysOf[text]) = ToSet(days)
  /\ \A i, j \in DOMAIN DaysOf[text] : i < j => DaysOf[text][i] < DaysOf[text][j]

ASSUME TemplatesAssumption ==
  /\ MaxFee \in Nat \ {0} /\ "[]" \notin AddressLists
  /\ DOMAIN DaysOf \subseteq ToSet(Texts) /\ DaysOf \in [DOMAIN DaysOf -> Seq(Int)]
  /\ \A text \in DOMAIN DaysOf :
       \E other \in DOMAIN DaysOf : IsDaysInOrder(other, DaysOf[text])

-----------------------------------------------------------------------------
(*************************************************************************)
(* The verdict table.                                                    *)
(*************************************************************************)
Sound == {"TX_VERSION", "TX_LOCKTIME"}
SoundWithConditions ==
  {"TX_INPUT_COUNT", "TX_OUTPUT_COUNT", "TX_FEE_ABSOLUTE",
   "DERIVED_NO_NEW_OUTPUTS", "REQKEY", "INPUT_VALUE", "INPUT_SEQUENCE",
   "TX_TEMPLATE_HASH_MATCHES", "COUNT_BASED_CONSTRAINT",
   "TIME_BASED_CONSTRAINT", "MATCH_ARK_CHECKPOINT", "MATCH_ARK_FORFEIT"}
NotSound ==
  {"INPUT_SOURCE_IS_IN_SETS", "OUTPUT_VALUE", "OUTPUT_DEST_IS_IN_SETS",
   "OUTPUT_OP_RETURN", "OUTPUT_SCRIPTPUBKEY_MATCHES_COMMITMENT",
   "INPUT_COMMITTED_DATA_VERIFY"}
Removed == {"MATCH_ARK_INTENT"}
Graded == Sound \cup SoundWithConditions \cup NotSound \cup Removed
\* Not sound, with a form the review allows.
HardAllowedForms == {"OUTPUT_DEST_IS_IN_SETS"}
DisabledTypes ==
  {"DERIVED_SIGHASH_TYPE", "DERIVED_RBF_ENABLED", "DERIVED_IS_COINJOIN_LIKE",
   "DERIVED_IS_PAYJOIN_LIKE", "DERIVED_IS_CONSOLIDATION", "INPUT_SCRIPT_TYPE",
   "INPUT_SIGHASH_TYPE", "OUTPUT_SCRIPT_TYPE"}
NegatableFamilies ==
  {"INPUT_SOURCE_IS_IN_SETS", "OUTPUT_DEST_IS_IN_SETS", "OUTPUT_OP_RETURN", "REQKEY"}

Usable(type) ==
  \/ type \in HardAllowedForms
  \/ /\ type \notin DisabledTypes
     /\ type \in Graded => type \in Sound \cup SoundWithConditions

-----------------------------------------------------------------------------
(*************************************************************************)
(* validatePolicySelectionAst.  Only the operator NOT counts as a        *)
(* negation, of its one child only.                                      *)
(*************************************************************************)
\* The conditions in order, with whether they stand under a NOT.
NodeOccurrences(node, children) ==
  LET under(i) ==
        IF node.operator = "NOT" /\ node.children[i].kind = "condition"
        THEN <<[type |-> node.children[i].type, negated |-> TRUE]>> ELSE children[i]
  IN IF node.kind = "condition" THEN <<[type |-> node.type, negated |-> FALSE]>>
     ELSE FlattenSeq([i \in DOMAIN children |-> under(i)])
Occurrences(root) == Walk(root, Children, NodeOccurrences)

IsExactBlocklist(node) ==
  LET p == node.params
  IN /\ node.type = "OUTPUT_DEST_IS_IN_SETS"
     /\ "selector" \in DOMAIN p /\ p.selector[2] = "ANY"
     /\ "addresses" \in DOMAIN p /\ p.addresses[1] = "array" /\ p.addresses[2] # "[]"
     /\ "network" \in DOMAIN p /\ p.network[1] = "string"

NegationsExact(root) ==
  \A node \in Subtrees(root) : IsOperator(node, "NOT") =>
    /\ Len(node.children) = 1
    /\ node.children[1].kind = "condition"
    /\ IsExactBlocklist(node.children[1])

FamiliesApart(occurrences) ==
  LET of(sign) == {i \in DOMAIN occurrences :
                     /\ occurrences[i].negated = sign
                     /\ occurrences[i].type \in NegatableFamilies}
  IN /\ Cardinality(of(TRUE)) <= 1
     /\ \A i \in of(TRUE), j \in of(FALSE) : occurrences[i].type # occurrences[j].type

VocabularyAccepted(root, allowUnknown) ==
  \A c \in ConditionsOf(root) :
       /\ c.type # "" /\ c.type # "REQKEY" /\ Usable(c.type)
       /\ allowUnknown \/ c.type \in Graded
GateAccepts(root, allowUnknown) ==
  /\ NegationsExact(root)
  /\ VocabularyAccepted(root, allowUnknown)
  /\ FamiliesApart(Occurrences(root))

-----------------------------------------------------------------------------
(*************************************************************************)
(* The builders' parameters: a record of values, some of them missing.   *)
(*************************************************************************)
Has(p, key, type) == key \in DOMAIN p /\ p[key][1] = type
IsAddressList(p, key) == Has(p, key, "array") /\ p[key][2] \in AddressLists
IsNetwork(p) == Has(p, "network", "string") /\ p.network[2] \in {"signet", "mainnet"}
IsPositive(p, key, max) == Has(p, key, "number") /\ p[key][2] \in 1..max
IsTime(p, key) == Has(p, key, "number") /\ p[key][2] > 0
IsHour(p, key) == Has(p, key, "string") /\ p[key][2] \in Hours
IsDate(p, key) == Has(p, key, "string") /\ p[key][2] \in Dates
\* A list of day numbers, Monday's 1 to Sunday's 7.
IsDays(p) ==
  /\ Has(p, "activeDays", "array") /\ p.activeDays[2] \in DOMAIN DaysOf
  /\ DaysOf[p.activeDays[2]] # <<>> /\ ToSet(DaysOf[p.activeDays[2]]) \subseteq 1..7
DaysInOrder(days) == CHOOSE text \in DOMAIN DaysOf : IsDaysInOrder(text, days)

\* "HH:MM" sorts as its minutes do, and "YYYY-MM-DD" as its days do.
TextBefore(a, b) == Place(a[2]) < Place(b[2])

DaysMin == 60
DaysMax == 315360000
NamedIntervals == {"never", "hourly", "daily", "weekly", "monthly"}
IsInterval(p) ==
  /\ Has(p, "resetInterval", "string")
  /\ \/ p.resetInterval[2] \in NamedIntervals \cup {"6h"}
        /\ "resetIntervalSeconds" \notin DOMAIN p
     \/ /\ p.resetInterval[2] = "custom"
        /\ Has(p, "resetIntervalSeconds", "number")
        /\ p.resetIntervalSeconds[2] \in DaysMin..DaysMax

DestinationAccepts(p) ==
  /\ IsAddressList(p, "addresses") /\ IsNetwork(p)
  /\ "requireChangeToInputAddresses" \in DOMAIN p =>
       p.requireChangeToInputAddresses[1] = "boolean"

WindowAccepts(p) ==
  /\ IsTime(p, "startUnixSeconds") /\ IsTime(p, "endUnixSeconds")
  /\ p.endUnixSeconds[2] > p.startUnixSeconds[2]
  /\ IsHour(p, "startHourUtc") /\ IsHour(p, "endHourUtc")
  /\ TextBefore(p.startHourUtc, p.endHourUtc)
  /\ IsDays(p) /\ IsDate(p, "startDate") /\ IsDate(p, "endDate")

HardTemplates ==
  {"destination-allowlist", "destination-blocklist", "fee-ceiling",
   "time-window", "usage-velocity", "consolidation-only"}

HardAccepts(template, p) ==
  CASE template \in {"destination-allowlist", "destination-blocklist"} ->
         DestinationAccepts(p)
    [] template = "fee-ceiling" -> IsPositive(p, "maxFeeSats", MaxFee)
    [] template = "time-window" ->
         /\ Has(p, "mode", "string")
         /\ \/ p.mode[2] = "after" /\ IsTime(p, "startUnixSeconds")
            \/ p.mode[2] = "within" /\ WindowAccepts(p)
    [] template = "usage-velocity" ->
         /\ IsPositive(p, "maxUses", 100000) /\ IsInterval(p)
         /\ "resetType" \in DOMAIN p =>
              p.resetType \in {<<"string", "rolling">>, <<"string", "calendar">>}
    [] template = "consolidation-only" -> DOMAIN p = {}

\* The parameter of the condition under the name the engine gives it.
Renamed(p, to, from) == IF from \in DOMAIN p THEN [key \in {to} |-> p[from]] ELSE <<>>

DestinationSet(p, selector) ==
  Condition("OUTPUT_DEST_IS_IN_SETS",
    Over([selector |-> <<"object", selector>>, addresses |-> p.addresses,
          network |-> p.network],
         Renamed(p, "require_change_to_input_addresses", "requireChangeToInputAddresses")))

WindowCondition(p) ==
  Condition("TIME_BASED_CONSTRAINT",
    [constraint_type |-> <<"string", "within">>,
     active_days |-> <<"array", DaysInOrder(DaysOf[p.activeDays[2]])>>,
     start_hour |-> p.startHourUtc, end_hour |-> p.endHourUtc,
     start_date_within |-> p.startDate, end_date_within |-> p.endDate,
     start_time |-> p.startUnixSeconds, end_time |-> p.endUnixSeconds])
AfterCondition(p) ==
  Condition("TIME_BASED_CONSTRAINT",
    [constraint_type |-> <<"string", "after">>, start_time |-> p.startUnixSeconds])
NoNewOutputs ==
  Condition("DERIVED_NO_NEW_OUTPUTS", [expected_value |-> <<"boolean", "true">>])

HardAst(template, p) ==
  CASE template = "destination-allowlist" -> DestinationSet(p, "ALL")
    [] template = "destination-blocklist" -> Operator("NOT", <<DestinationSet(p, "ANY")>>)
    [] template = "fee-ceiling" ->
         Condition("TX_FEE_ABSOLUTE", [operator |-> <<"string", "LTE">>,
                                       value |-> p.maxFeeSats])
    [] template = "time-window" ->
         IF p.mode[2] = "after" THEN AfterCondition(p) ELSE WindowCondition(p)
    [] template = "usage-velocity" ->
         Condition("COUNT_BASED_CONSTRAINT",
           Over([max_uses |-> p.maxUses, reset_interval |-> p.resetInterval],
                Over(Renamed(p, "reset_interval_seconds", "resetIntervalSeconds"),
                     Renamed(p, "reset_type", "resetType"))))
    [] template = "consolidation-only" -> NoNewOutputs

\* Governance templates: a fact for the organisation's workflow, no policy.
GovernanceTemplates ==
  {"approval-amount-band", "human-approval-quorum", "required-approver",
   "proposal-expiration"}
\* Texts of lists of bands: those in Bands ascend.
CONSTANT Bands
FactAccepts(template, p) ==
  CASE template = "approval-amount-band" ->
         Has(p, "thresholds", "array") /\ p.thresholds[2] \in Bands
    [] template = "human-approval-quorum" -> IsPositive(p, "quorum", 100)
    [] template = "required-approver" ->
         /\ Has(p, "approverKind", "string") /\ p.approverKind[2] \in {"role", "person"}
         /\ Has(p, "approverId", "string") /\ p.approverId[2] # ""
    [] template = "proposal-expiration" -> IsTime(p, "expiresInSeconds")
FactOf(template, p) ==
  CASE template = "approval-amount-band" ->
         [kind |-> <<"string", "approval_amount_band">>, thresholds |-> p.thresholds]
    [] template = "human-approval-quorum" ->
         [kind |-> <<"string", "human_approval_quorum">>, quorum |-> p.quorum]
    [] template = "required-approver" ->
         [kind |-> <<"string", "required_approver">>, approver_kind |-> p.approverKind,
          approver_id |-> p.approverId]
    [] template = "proposal-expiration" ->
         [kind |-> <<"string", "proposal_expiration">>,
          expires_after_seconds |-> p.expiresInSeconds]

Templates == HardTemplates \cup GovernanceTemplates
ClassOf(template) ==
  IF template \in HardTemplates THEN "hard_cryptographic" ELSE "governance_only"
TemplateAccepts(template, p) ==
  /\ template \in HardTemplates => HardAccepts(template, p)
  /\ template \in GovernanceTemplates => FactAccepts(template, p)

-----------------------------------------------------------------------------
(*************************************************************************)
(* Selection records.                                                    *)
(*************************************************************************)
CatalogueVersion == 1
TemplateVersion == 1

Selection(template, p) ==
  [catalogueVersion |-> CatalogueVersion, templateId |-> template,
   templateVersion |-> TemplateVersion, enforcementClass |-> ClassOf(template),
   astDigest |-> IF template \in HardTemplates
                 THEN <<Digest(Canonical(HardAst(template, p)))>> ELSE <<>>,
   workflowFact |-> IF template \in GovernanceTemplates
                    THEN <<FactOf(template, p)>> ELSE <<>>,
   params |-> p]

OutputBound(record) ==
  LET fresh == Selection(record.templateId, record.params)
  IN IF record.templateId \in HardTemplates
     THEN /\ record.astDigest = fresh.astDigest
          /\ GateAccepts(Canonical(HardAst(record.templateId, record.params)), FALSE)
     ELSE record.workflowFact = fresh.workflowFact

\* Mutant of SelectionAccepts: the versions are not looked at.
SelectionAcceptsStale(record) ==
  /\ record.templateId \in Templates
  /\ record.enforcementClass = ClassOf(record.templateId)
  /\ TemplateAccepts(record.templateId, record.params)
  /\ OutputBound(record)
SelectionAccepts(record) ==
  /\ record.catalogueVersion = CatalogueVersion
  /\ record.templateId \in Templates
  /\ record.templateVersion = TemplateVersion
  /\ record.enforcementClass = ClassOf(record.templateId)
  /\ TemplateAccepts(record.templateId, record.params)
  /\ OutputBound(record)

-----------------------------------------------------------------------------
(*************************************************************************)
(* The templates of createKey (buildPolicyFromTemplate).                 *)
(*************************************************************************)
KeyTemplates ==
  {"bitcoin-inheritance", "blacklist", "business-hours-only",
   "no-new-outputs-consolidation"}
KeyTemplateAccepts(template, p) ==
  CASE template = "bitcoin-inheritance" -> IsTime(p, "startUnixSeconds")
    [] template = "blacklist" -> IsAddressList(p, "blockedAddresses") /\ IsNetwork(p)
    [] template = "business-hours-only" ->
         WindowAccepts(p) /\ TextBefore(p.startDate, p.endDate)
    [] template = "no-new-outputs-consolidation" -> DOMAIN p = {}
\* What the template builds; a policy the gate refuses is not returned.
KeyTemplatePolicy(template, p) ==
  CASE template = "bitcoin-inheritance" -> AfterCondition(p)
    [] template = "blacklist" ->
         Operator("NOT", <<DestinationSet([addresses |-> p.blockedAddresses,
                                           network |-> p.network], "ANY")>>)
    [] template = "business-hours-only" -> WindowCondition(p)
    [] template = "no-new-outputs-consolidation" -> NoNewOutputs

=============================================================================

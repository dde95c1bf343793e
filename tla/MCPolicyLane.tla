---------------------------- MODULE MCPolicyLane ----------------------------
\* Small instances of the policy language for TLC: configurations and trees up
\* to three levels over a handful of conditions, with and without the fields an
\* author may leave out.
EXTENDS PolicyLane

T(x) == <<"string", x>>
N(x) == <<"number", x>>
L(x) == <<"array", x>>

MCDaysOf ==
  [text \in {"[]", "[1,2]", "[1,9]", "[2,1,2]"} |->
     CASE text = "[]" -> <<>> [] text = "[1,2]" -> <<1, 2>>
       [] text = "[1,9]" -> <<1, 9>> [] text = "[2,1,2]" -> <<2, 1, 2>>]

MCTexts ==
  <<"", "09:00", "1", "17:00", "2025-01-01", "2025-02-01", "6h", "ALL", "AND", "ANY",
    "AT_MOST", "COUNT_BASED_CONSTRAINT", "CUSTOM", "DERIVED_NO_NEW_OUTPUTS", "EQ",
    "EXACTLY", "IFF", "IMPLIES", "INPUT_SEQUENCE", "INPUT_SIGHASH_TYPE",
    "INPUT_VALUE", "LTE", "MAJORITY", "MAYBE", "NAND", "NONE", "NOR", "NOT", "OR",
    "OUTPUT_DEST_IS_IN_SETS", "OUTPUT_SCRIPT_TYPE", "P2TR", "REQKEY",
    "SIGHASH_ALL", "THRESHOLD", "TIME_BASED_CONSTRAINT", "TX_FEE_ABSOLUTE",
    "TX_TEMPLATE_HASH_MATCHES", "VETO", "WEIGHTED_THRESHOLD", "XOR", "[1,2]",
    "[1,9]", "[2,1,2]", "[a,a]", "[a]", "[b]", "[]", "active_days", "addresses", "after", "calendar",
    "constraint_type", "counter_namespace", "custom", "daily", "derivation_range",
    "descriptor_template", "end_date_within", "end_hour", "end_time",
    "expected_template_hash", "expected_value", "false", "key_identifier", "max",
    "max_uses", "min", "network", "operator", "outputs",
    "require_change_to_input_addresses", "reset_interval", "reset_interval_seconds",
    "reset_type", "rolling", "script_type", "selector", "sequences", "sha_outputs",
    "sha_sequences", "sighash_type", "sigbashwd1", "signet", "start_date_within",
    "start_hour", "start_time", "template hash", "true", "use_descriptor", "value",
    "vault", "weight", "within">>

\* Conditions: a fee, a destination set, a sequence without a selector, a
\* boolean, the two that are refused, and a REQKEY of the author's own.
Fee == [operator |-> T("LTE"), value |-> N(5)]
Dest(selector, list) ==
  [selector |-> selector, addresses |-> L(list), network |-> T("signet")]
Truth(b) == [expected_value |-> <<"boolean", b>>]
Reqkey == Condition("REQKEY", [key_identifier |-> T("vault")])

F == Condition("TX_FEE_ABSOLUTE", Fee)
D == Condition("OUTPUT_DEST_IS_IN_SETS", Dest(T("ANY"), "[a]"))
DAll == Condition("OUTPUT_DEST_IS_IN_SETS", Dest(<<"object", "ALL">>, "[b]"))
DEmpty == Condition("OUTPUT_DEST_IS_IN_SETS", Dest(T("ANY"), "[]"))
Q == Condition("INPUT_SEQUENCE", [operator |-> T("EQ"), value |-> N(-1)])
B == Condition("DERIVED_NO_NEW_OUTPUTS", Truth("true"))
BNormal == Condition("DERIVED_NO_NEW_OUTPUTS", [operator |-> T("EQ"), value |-> N(1)])
V == Condition("INPUT_VALUE", [operator |-> T("LTE"), value |-> N(7)])
G(type) == Condition("INPUT_SIGHASH_TYPE", [sighash_type |-> T(type)])
P == Condition("OUTPUT_SCRIPT_TYPE", [script_type |-> T("P2TR")])
\* A name beside bounds of its own, a selector JavaScript takes for none.
PBounded == Condition("OUTPUT_SCRIPT_TYPE",
              [script_type |-> T("P2TR"), min |-> N(0), max |-> N(9), selector |-> T("")])
VEmpty == Condition("INPUT_VALUE",
            [operator |-> T("LTE"), value |-> N(7), selector |-> T("")])
\* What an application may write for true and for false, in JSON.
Wanted(value) == Condition("DERIVED_NO_NEW_OUTPUTS",
                   [expected_value |-> value, operator |-> T("EQ")])
X == Condition("CUSTOM", <<>>)

Simple == {F, B}
K(op, kids, k) == [Operator(op, kids) EXCEPT !.k = <<k>>]
Old(op, kids, k) == [Operator(op, kids) EXCEPT !.threshold = <<k>>]
W(kids, k, ws) == [K("WEIGHTED_THRESHOLD", kids, k) EXCEPT !.weights = <<ws>>]
Heavy(node, w) == [node EXCEPT !.weight = <<w>>]

Flat == {Operator(op, kids) : op \in Operators, kids \in TupleOf(Simple, 2)}
        \cup {K(op, kids, k) : op \in {"THRESHOLD", "EXACTLY", "AT_MOST"},
                kids \in {<<F, D>>, <<B, F, B>>, <<D, D, F>>}, k \in 0..2}
Deep == {Operator(outer, <<Operator(inner, <<a, b>>), c>>) :
           outer \in {"AND", "OR", "XOR", "NOR", "IMPLIES"},
           inner \in {"AND", "OR", "XOR", "NAND"}, a \in {F, B}, b \in {F, D}, c \in {F}}
Nots == {Operator("NOT", <<D>>), Operator("NOT", <<F>>),
         Operator("AND", <<Operator("NOT", <<D>>), Operator("NOT", <<D>>)>>),
         Operator("OR", <<Operator("NOT", <<D>>), F>>),
         Operator("AND", <<Operator("NOT", <<D>>), DAll>>),
         Operator("AND", <<F, Operator("AND", <<Operator("NOT", <<D>>), D>>)>>),
         Operator("VETO", <<F>>)}
Odd == {W(<<F, D, B>>, 3, <<2, 1, 1>>), W(<<D, F>>, 2, <<1, 2>>),
        Old("THRESHOLD", <<F, D>>, 1), Old("THRESHOLD", <<F, D>>, -1),
        [K("THRESHOLD", <<F, D>>, 1) EXCEPT !.threshold = <<2>>],
        K("THRESHOLD", <<F>>, -1), K("THRESHOLD", <<F>>, 101),
        Operator("AND", <<Heavy(F, 2), F>>), Operator("OR", <<Heavy(Operator("OR", <<F, D>>), 3), B>>),
        Operator("AND", <<>>), Operator("MAYBE", <<F>>), Condition("", <<>>),
        [Operator("AND", <<F, B>>) EXCEPT !.weights = <<<<1, 2>>>>]}
Shapes == {Operator("AND", <<B, V>>), Operator("OR", <<B, G("SIGHASH_ALL"), G("NONE"), P>>),
           Operator("AND", <<G("SIGHASH_ALL"), P, Q>>), Operator("XOR", <<B, BNormal>>),
           Operator("AND", <<B, DEmpty>>), PBounded, VEmpty, Wanted(N(1)), Wanted(T("1")),
           Operator("XOR", <<Wanted(N(0)), Wanted(T("true"))>>), Q, B, X, V, Operator("OR", <<X, F>>),
           Reqkey, Operator("OR", <<F, Operator("OR", <<Reqkey, D>>)>>),
           Operator("AND", <<Reqkey, SystemClause("sigbashwd1")>>),
           SystemClause("sigbashwd1")}
MCDocuments == Flat \cup Deep \cup Nots \cup Odd \cup Shapes

C1 == Leaf("TX_FEE_ABSOLUTE", Fee)
C2 == Leaf("DERIVED_NO_NEW_OUTPUTS", Truth("false"))
C3 == [Leaf("OUTPUT_DEST_IS_IN_SETS", <<>>) EXCEPT !.parameters = Dest(T("ANY"), "[a]")]
Weighs(cfg, w) == [cfg EXCEPT !.weight = <<w>>]
Nope(cfg) == [cfg EXCEPT !.useNot = TRUE]
At(cfg, k) == [cfg EXCEPT !.threshold = <<k>>]
AtParam(cfg, k) == [cfg EXCEPT !.paramThreshold = <<k>>, !.paramK = <<1>>]

MCConfigs ==
  {C1, Nope(C1), C2, Nope(C3), Not(C1), Nope(Not(C1)),
   NUse(3, "daily", ""), NUse(1, "6h", "vault"),
   Leaf("TX_TEMPLATE_HASH_MATCHES",
        [sha_sequences |-> T("sequences"), sha_outputs |-> T("outputs")])}
  \cup {Nope(Group(op, <<C1, C2>>)) : op \in {"AND", "XOR", "NOR"}}
  \cup {At(Group(op, <<C1, C2, C3>>), k) : op \in {"THRESH", "EXACT", "ATMOST"}, k \in 1..2}
  \cup {AtParam(Group("THRESHOLD", <<C1, Not(C2), Nope(C3)>>), 2),
        Group("AND", <<Group("AND", <<C1, C2>>), C3>>),
        Binary("IMPLIES", C1, Group("OR", <<C2, C3>>)), Nope(Binary("IFF", C1, C2)),
        At(Binary("THRESHOLD", C1, C2), 1)}
  \cup {At(Group("WTHRESH", <<C1, Weighs(C2, 2), C3>>), k) : k \in 1..3}
  \cup {[At(Group("WTHRESH", <<C1, Weighs(C2, 2)>>), 2) EXCEPT !.defaultWeight = 1],
        [At(Group("WTHRESH", <<C1, Weighs(C2, 2)>>), 2) EXCEPT !.weights = <<<<2, 1>>>>]}

Window == [mode |-> T("within"), startUnixSeconds |-> N(5), endUnixSeconds |-> N(9),
           startHourUtc |-> T("09:00"), endHourUtc |-> T("17:00"),
           activeDays |-> L("[2,1,2]"), startDate |-> T("2025-01-01"),
           endDate |-> T("2025-02-01")]
Days(list) == [Window EXCEPT !.activeDays = L(list)]
Late == [Window EXCEPT !.startUnixSeconds = N(9)]
Backwards == [Window EXCEPT !.startDate = T("2025-02-01"), !.endDate = T("2025-01-01")]
Blocked(list) == [blockedAddresses |-> L(list), network |-> T("signet")]
Allowed(list) == [addresses |-> L(list), network |-> T("signet")]

MCKeyTemplateInputs ==
  {<<"bitcoin-inheritance", [startUnixSeconds |-> N(5)]>>,
   <<"bitcoin-inheritance", <<>>>>, <<"blacklist", Blocked("[a]")>>,
   <<"blacklist", Blocked("[a,a]")>>, <<"no-new-outputs-consolidation", <<>>>>,
   <<"business-hours-only", Window>>, <<"business-hours-only", Late>>,
   <<"business-hours-only", Backwards>>}
  \cup {<<"business-hours-only", Days(list)>> : list \in {"[1,2]", "[1,9]", "[]"}}

MCSelections ==
  {<<"destination-allowlist", Allowed("[a]")>>, <<"destination-allowlist", Allowed("[b]")>>,
   <<"destination-blocklist", Allowed("[a]")>>, <<"destination-blocklist", Allowed("[]")>>,
   <<"fee-ceiling", [maxFeeSats |-> N(5)]>>, <<"fee-ceiling", [maxFeeSats |-> N(101)]>>,
   <<"time-window", Window>>, <<"time-window", Backwards>>, <<"time-window", Days("[1,2]")>>,
   <<"time-window", Days("[1,9]")>>,
   <<"time-window", [mode |-> T("after"), startUnixSeconds |-> N(5)]>>,
   <<"usage-velocity", [maxUses |-> N(3), resetInterval |-> T("daily")]>>,
   <<"usage-velocity", [maxUses |-> N(3), resetInterval |-> T("custom"),
                        resetIntervalSeconds |-> N(60), resetType |-> T("rolling")]>>,
   <<"consolidation-only", <<>>>>,
   <<"approval-amount-band", [thresholds |-> L("[1,2]")]>>,
   <<"human-approval-quorum", [quorum |-> N(2)]>>,
   <<"required-approver", [approverKind |-> T("role"), approverId |-> T("vault")]>>,
   <<"proposal-expiration", [expiresInSeconds |-> N(60)]>>}

MCTamperings ==
  {<<"catalogueVersion", 2>>, <<"templateVersion", 0>>, <<"templateId", "unknown">>,
   <<"templateId", "destination-blocklist">>, <<"templateId", "destination-allowlist">>,
   <<"enforcementClass", "governance_only">>, <<"enforcementClass", "hard_cryptographic">>,
   <<"astDigest", <<>>>>, <<"workflowFact", <<>>>>,
   <<"params", Allowed("[b]")>>, <<"params", Days("[1,2]")>>, <<"params", Days("[]")>>, <<"params", [quorum |-> N(3)]>>,
   <<"params", [maxFeeSats |-> N(7)]>>, <<"params", <<>>>>}

=============================================================================

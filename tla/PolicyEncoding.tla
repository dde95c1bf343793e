--------------------------- MODULE PolicyEncoding ---------------------------
(*************************************************************************)
(* The binary form of a canonical policy                                 *)
(* (src/contracts/policyEncoding.ts).  An encoding is a sequence of      *)
(* fields; a field is its width and content and does not carry a name,   *)
(* so the decoder knows a field by its position only.                    *)
(*************************************************************************)
EXTENDS PolicyAst

Header == <<<<"u8", 7>>, <<"u8", 1>>>>

OperatorCode(operator) ==
  CHOOSE i \in DOMAIN OperatorNames : OperatorNames[i] = operator

U32s(numbers) == [i \in DOMAIN numbers |-> <<"u32", numbers[i]>>]

\* What encodeNode encodes without throwing a RangeError.
FitsU32(n) == n \in 0..MaxU32
Encodable(root) ==
  \A node \in Subtrees(root) :
    /\ Every(node.weight, FitsU32)
    /\ node.kind = "operator" =>
         /\ Every(node.k, FitsU32)
         /\ Every(node.weights, LAMBDA ws : Every(ws, FitsU32))

\* A value outside the dedicated tags is kept as canonical JSON.
EncodedValue(value) ==
  CASE value[1] = "string" -> <<<<"u8", 1>>, <<"text", value[2]>>>>
    [] value[1] = "boolean" -> <<<<"u8", 2>>, <<"u8", IF value[2] = "true" THEN 1 ELSE 0>>>>
    [] value[1] = "number" /\ value[2] >= 0 -> <<<<"u8", 3>>, <<"u64", value[2]>>>>
    [] OTHER -> <<<<"u8", 4>>, <<"json", value>>>>

EncodedParams(params) ==
  LET keys == Keys(params)
  IN <<<<"u16", Len(keys)>>>> \o
     FlattenSeq([i \in DOMAIN keys |->
                   <<<<"text", keys[i]>>>> \o EncodedValue(params[keys[i]])])

EncodedOperatorParams(node) ==
  <<<<"u8", Len(node.k) + 2 * Len(node.weights)>>>>
  \o U32s(node.k)
  \o FlattenSeq([i \in DOMAIN node.weights |->
                   <<<<"u16", Len(node.weights[i])>>>> \o U32s(node.weights[i])])

EncodedFields(node, children) ==
  <<<<"u8", IF node.kind = "operator" THEN 1 ELSE 2>>, <<"u8", Len(node.weight)>>>>
  \o U32s(node.weight)
  \o IF node.kind = "operator"
     THEN <<<<"u8", OperatorCode(node.operator)>>>>
          \o EncodedOperatorParams(node)
          \o <<<<"u16", Len(node.children)>>>> \o FlattenSeq(children)
     ELSE <<<<"text", node.type>>>> \o EncodedParams(node.params)
EncodedNode(root) == Walk(root, Children, EncodedFields)

Encoded(root) == Header \o EncodedNode(root)

\* The digest of a policy is a hash of its encoding: equal iff the encodings
\* are.
Digest(root) == Encoded(root)

-----------------------------------------------------------------------------
(*************************************************************************)
(* Decoding: what is read from a place of the bytes on, and where the    *)
(* next field is.                                                        *)
(*************************************************************************)
Read(value, next) == [value |-> value, next |-> next]
ReadMany(bytes, i, n) == Read([j \in 1..n |-> bytes[i + j - 1][2]], i + n)

DecodedValue(tag, content) ==
  CASE tag = 1 -> <<"string", content>>
    [] tag = 2 -> <<"boolean", IF content = 1 THEN "true" ELSE "false">>
    [] tag = 3 -> <<"number", content>>
    [] tag = 4 -> content

DecodedParams(bytes, i) ==
  LET n == bytes[i][2]
      at(j) == i + 3 * j - 2
      name(j) == bytes[at(j)][2]
  IN Read([key \in {name(j) : j \in 1..n} |->
             LET j == CHOOSE j \in 1..n : name(j) = key
             IN DecodedValue(bytes[at(j) + 1][2], bytes[at(j) + 2][2])],
          i + 3 * n + 1)

DecodedOperatorParams(bytes, i) ==
  LET flags == bytes[i][2]
      k == ReadMany(bytes, i + 1, flags % 2)
      ws == ReadMany(bytes, k.next + 1, bytes[k.next][2])
  IN IF flags < 2 THEN Read([k |-> k.value, weights |-> <<>>], k.next)
     ELSE Read([k |-> k.value, weights |-> <<ws.value>>], ws.next)

\* A node without its children, how many it has, and where they begin.
DecodedHead(bytes, i) ==
  LET weight == ReadMany(bytes, i + 2, bytes[i + 1][2])
      name == bytes[weight.next][2]
      operands == DecodedOperatorParams(bytes, weight.next + 1)
      params == DecodedParams(bytes, weight.next + 1)
  IN IF bytes[i][2] = 1
     THEN [node |-> [Operator(OperatorNames[name], <<>>) EXCEPT
                       !.k = operands.value.k, !.weights = operands.value.weights,
                       !.weight = weight.value],
           count |-> bytes[operands.next][2], next |-> operands.next + 1]
     ELSE [node |-> [Condition(name, params.value) EXCEPT !.weight = weight.value],
           count |-> 0, next |-> params.next]
WithChildren(node, children) ==
  IF node.kind = "operator" THEN [node EXCEPT !.children = children] ELSE node

\* The n nodes from place i on.  Each takes bytes; where they run out the decoder
\* throws.
Truncated == Read(<<>>, 0)
DecodedNodes(bytes) ==
  LET after(i) == i + 1..Len(bytes) + 1
      of[q \in (1..Len(bytes) + 1) \X (0..Len(bytes))] ==
        LET head == DecodedHead(bytes, q[1])
            children == of[<<head.next, head.count>>]
            others == of[<<children.next, q[2] - 1>>]
        IN IF q[2] = 0 THEN Read(<<>>, q[1])
           ELSE IF /\ head.next \in after(q[1]) /\ head.count \in 0..Len(bytes)
                   /\ children.next \in after(q[1])
           THEN Read(<<WithChildren(head.node, children.value)>> \o others.value,
                     others.next)
           ELSE Truncated
  IN of

\* expectExhausted: nothing may be left behind the root.
Decodes(bytes) ==
  /\ Len(bytes) >= 2 /\ SubSeq(bytes, 1, 2) = Header
  /\ DecodedNodes(bytes)[<<3, 1>>].next = Len(bytes) + 1
Decoded(bytes) == DecodedNodes(bytes)[<<3, 1>>].value[1]

=============================================================================

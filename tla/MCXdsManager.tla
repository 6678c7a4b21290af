--------------------------- MODULE MCXdsManager ---------------------------
(***************************************************************************)
(* Model-checking instances of XdsManager: two resource names, two        *)
(* payloads, and the subscription lists and node ids the cfg files pick.   *)
(***************************************************************************)
EXTENDS XdsManager

CONSTANTS a, b, v1, v2, s1, s2

MCNames == {a, b}
MCVals == {v1, v2}
OneVal == {v1}
OneStream == {s1}
TwoStreams == {s1, s2}

\* Envoy's wildcard CDS subscription only.
WildcardOnly == {<<>>}
\* The wildcard and a subscription to one name (as EDS subscribes).
WildcardOrOne == {<<>>, <<a>>}
\* One subscription to both names, sent in either order.
BothInEitherOrder == {<<a, b>>, <<b, a>>}
\* Subscriptions to one specific name.
OneName == {<<a>>}

WithNodeId == {"n1"}
MaybeNoNodeId == {"", "n1"}
=============================================================================

---------------------------- MODULE MCSplitShadow ----------------------------
(* One function that shadow_stack instrumented and func_splitter split then.  *)
EXTENDS SplitShadow

CONSTANTS site1, splitSite

f == [name |-> "f", decl |-> FALSE, rets |-> TRUE]
fSplit == [name |-> "f.split", decl |-> FALSE, rets |-> TRUE]

MCFunctions == {f, fSplit}
MCSites == {site1, splitSite}
MCSplitOf == [g \in {f} |-> fSplit]
=============================================================================

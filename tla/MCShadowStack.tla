---------------------------- MODULE MCShadowStack ----------------------------
(* Small programs for TLC: one function of each sort the pass tells apart.    *)
EXTENDS ShadowStack

CONSTANTS site1, site2

MCSites == {site1, site2}

Fn(name, decl, rets) == [name |-> name, decl |-> decl, rets |-> rets]

\* f returns, loops never returns, library has no body in this module.
MCFunctions == {Fn("f", FALSE, TRUE), Fn("loops", FALSE, FALSE), Fn("library", TRUE, TRUE)}

MCReturning == {Fn("f", FALSE, TRUE)}

MCFunctionsAndAbort == MCFunctions \cup {Fn("abort", FALSE, FALSE)}
=============================================================================

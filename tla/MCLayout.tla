------------------------------ MODULE MCLayout -------------------------------
(* Lists of up to five elements, and the passes on them in every order.       *)
EXTENDS Layout

Make(n, kind) == [id |-> n, kind |-> kind]
ListOf(kinds) == [i \in DOMAIN kinds |-> Make(i, kinds[i])]
ListsOf(kinds, lengths) == {ListOf(k) : k \in UNION {[1 .. n -> kinds] : n \in lengths}}

FunctionLists == ListsOf({"defined", "declared"}, 1 .. 4)

BlockLists == {<<Make(0, "entry")>> \o b : b \in ListsOf({"block"}, 0 .. 4)}

\* An entry block ends in its terminator.
EntryBlocks == {b \o <<Make(0, "inst")>> : b \in ListsOf({"alloca", "inst"}, 0 .. 4)}

Job(lists, ps) == {[list |-> s, passes |-> ps, rets |-> TRUE] : s \in lists}

\* A program that never returns.
Endless(jobs) == {[job EXCEPT !.rets = FALSE] : job \in jobs}

MCJobs ==
  Job(FunctionLists, <<"func_rand">>)
  \cup Job(BlockLists, <<"bbrand">>)
  \cup UNION {Job(EntryBlocks, ps) :
                ps \in Bijection(1 .. 3, {"stack_reorder", "stackpad_rand", "shadow_stack"})}
  \cup Job(EntryBlocks, <<"stackpad_rand", "stack_reorder", "stackpad_rand">>)
  \cup Endless(Job(EntryBlocks, <<"stack_reorder", "shadow_stack", "stackpad_rand">>))
=============================================================================

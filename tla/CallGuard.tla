------------------------------ MODULE CallGuard ------------------------------
(***************************************************************************)
(* What README.md promises of the shadow-stack pass: prior to every return *)
(* the two copies of the return address are compared; "if they do not      *)
(* agree, the process is aborted, otherwise, the program continues as      *)
(* normal".  There is no shadow stack here: a checked function returns iff *)
(* its return address is the one its caller pushed, and the process aborts *)
(* only at a return whose address was changed.  The README says nothing of *)
(* frames that are left without a return: after that a check may go either *)
(* way here, and the process may come to harm.                             *)
(***************************************************************************)
EXTENDS CallStack

VARIABLES
  frames,   \* frames[t]: the process stack of thread t
  status,   \* "running", "aborted" or "undefined"
  left      \* frames have been left without returning from them

guardVars == <<frames, status, left>>

GuardInit ==
  /\ frames = [t \in Threads |-> <<>>]
  /\ status = "running"
  /\ left = FALSE

Enter(t, f, a) ==
  /\ Len(frames[t]) < MaxDepth
  /\ frames' = [frames EXCEPT ![t] = CallOf(@, f, a)]
  /\ UNCHANGED <<status, left>>

Alter(t, i, a) ==
  /\ i \in Overwritable(frames[t])
  /\ frames' = [frames EXCEPT ![t] = OverwriteOf(@, i, a)]
  /\ UNCHANGED <<status, left>>

GuardedReturn(t) ==
  /\ frames[t] # <<>>
  /\ Epilogued(Top(frames[t]).fn) => left \/ ~Altered(Top(frames[t]))
  /\ frames' = [frames EXCEPT ![t] = Pop(@)]
  /\ UNCHANGED <<status, left>>

Abandon(t, k) ==
  /\ k \in 1 .. Len(frames[t]) - 1
  /\ frames' = [frames EXCEPT ![t] = SubSeq(@, 1, k)]
  /\ left' = TRUE
  /\ UNCHANGED status

GuardedAbort(t) ==
  /\ frames[t] # <<>>
  /\ Epilogued(Top(frames[t]).fn) /\ (left \/ Altered(Top(frames[t])))
  /\ status' = "aborted"
  /\ UNCHANGED <<frames, left>>

Harm ==
  /\ left
  /\ status' = "undefined"
  /\ UNCHANGED <<frames, left>>

GuardNext ==
  /\ status = "running"
  /\ \E t \in Threads :
       \/ \E f \in Functions, a \in Sites : Enter(t, f, a)
       \/ \E i \in 1 .. MaxDepth, a \in RetAddrs : Alter(t, i, a)
       \/ GuardedReturn(t)
       \/ \E k \in 1 .. MaxDepth : Abandon(t, k)
       \/ GuardedAbort(t)
       \/ Harm

GuardSpec == GuardInit /\ [][GuardNext]_guardVars
=============================================================================

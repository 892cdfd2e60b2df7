-------------------------- MODULE ShadowStackProofs --------------------------
(***************************************************************************)
(* The instrumentation of shadow_stack.cc is type correct for any number   *)
(* of threads, and keeps its promise for every serial program, up to the   *)
(* first unwinding and, as far as CallGuard goes, behind it.               *)
(***************************************************************************)
EXTENDS ShadowStack, FiniteSetTheorems, SequenceTheorems, TLAPS

(* What the operators of CallStack do to a process stack, and to the count *)
(* of frames that pushed an entry to the shadow stack.                     *)

\* A stack has finitely many pushed frames, never more than frames.
LEMMA PushesBounded ==
  ASSUME NEW s \in Seq(Frame)
  PROVE  /\ IsFiniteSet(Pushed(s))
         /\ Pushes(s) \in Nat
         /\ Pushes(s) <= Len(s)
         /\ \A i \in Pushed(s) : i \in 1 .. Len(s)
<1>1. Len(s) \in Nat /\ DOMAIN s = 1 .. Len(s)
  OBVIOUS
<1>2. IsFiniteSet(1 .. Len(s)) /\ Cardinality(1 .. Len(s)) = Len(s)
  <2>1. \A n \in Nat : /\ IsFiniteSet(1 .. n)
                      /\ Cardinality(1 .. n) = IF 1 > n THEN 0 ELSE n - 1 + 1
    BY FS_Interval
  <2>2. \A n \in Nat : IsFiniteSet(1 .. n) /\ Cardinality(1 .. n) = n
    BY <2>1
  <2>3. QED
    BY <1>1, <2>2
<1>3. Pushed(s) \in SUBSET (1 .. Len(s))
  BY <1>1 DEF Pushed
<1>4. IsFiniteSet(Pushed(s)) /\ Cardinality(Pushed(s)) <= Len(s)
  BY <1>2, <1>3, FS_Subset
<1>5. Cardinality(Pushed(s)) \in Nat
  BY <1>4, FS_CardinalityType
<1>6. QED
  BY <1>3, <1>4, <1>5 DEF Pushes

\* Pushed frames below one another have slots below one another, and the slot
\* of a pushed frame is one the stack accounts for.
LEMMA SlotsOrdered ==
  ASSUME NEW s \in Seq(Frame), NEW i \in Pushed(s)
  PROVE  /\ Cardinality(PushedBelow(s, i)) \in Nat
         /\ Cardinality(PushedBelow(s, i)) < Pushes(s)
         /\ \A k \in Pushed(s) :
              i < k => Cardinality(PushedBelow(s, i)) < Cardinality(PushedBelow(s, k))
<1>1. IsFiniteSet(Pushed(s))
  BY PushesBounded
<1>2. \A k : PushedBelow(s, k) \in SUBSET Pushed(s)
  BY DEF PushedBelow
<1>3. \A k : IsFiniteSet(PushedBelow(s, k)) /\ Cardinality(PushedBelow(s, k)) \in Nat
  BY <1>1, <1>2, FS_Subset, FS_CardinalityType
<1>4. i \in Nat /\ \A k \in Pushed(s) : k \in Nat
  BY DEF Pushed
<1>5. i \notin PushedBelow(s, i)
  BY <1>4 DEF PushedBelow
<1>6. Cardinality(PushedBelow(s, i)) < Cardinality(Pushed(s))
  <2>1. PushedBelow(s, i) # Pushed(s)
    BY <1>5
  <2>2. /\ Cardinality(PushedBelow(s, i)) <= Cardinality(Pushed(s))
        /\ Cardinality(PushedBelow(s, i)) # Cardinality(Pushed(s))
    BY <2>1, <1>1, <1>2, FS_Subset
  <2>3. Cardinality(Pushed(s)) \in Nat
    BY <1>1, FS_CardinalityType
  <2>4. QED
    BY <2>2, <2>3, <1>3
<1>7. ASSUME NEW k \in Pushed(s), i < k
      PROVE  Cardinality(PushedBelow(s, i)) < Cardinality(PushedBelow(s, k))
  <2>1. PushedBelow(s, i) \in SUBSET PushedBelow(s, k)
    <3>1. i \in Nat /\ k \in Nat
      BY <1>4
    <3>2. SUFFICES ASSUME NEW j \in PushedBelow(s, i)
                   PROVE  j \in PushedBelow(s, k)
      OBVIOUS
    <3>3. j \in Pushed(s) /\ j < i
      BY <3>2 DEF PushedBelow
    <3>4. j < k
      BY <3>1, <3>3, <1>4, <1>7
    <3>5. QED
      BY <3>3, <3>4 DEF PushedBelow
  <2>2. i \in PushedBelow(s, k)
    BY <1>7 DEF PushedBelow
  <2>3. /\ Cardinality(PushedBelow(s, i)) <= Cardinality(PushedBelow(s, k))
        /\ Cardinality(PushedBelow(s, i)) # Cardinality(PushedBelow(s, k))
    BY <2>1, <2>2, <1>3, <1>5, FS_Subset
  <2>4. QED
    BY <2>3, <1>3
<1>8. QED
  BY <1>3, <1>6, <1>7 DEF Pushes

\* A call leaves the frames below alone and pushes for an instrumented callee.
LEMMA CallFacts ==
  ASSUME NEW s \in Seq(Frame), NEW f \in Functions, NEW a \in Sites
  PROVE  LET c == CallOf(s, f, a)
         IN  /\ c \in Seq(Frame)
             /\ Len(c) = Len(s) + 1
             /\ c # <<>>
             /\ \A i \in 1 .. Len(s) : c[i] = s[i]
             /\ Top(c) = [fn |-> f, orig |-> a, ra |-> a]
             /\ Pushed(c) = IF Prologued(f) THEN Pushed(s) \cup {Len(s) + 1} ELSE Pushed(s)
             /\ Pushes(c) = IF Prologued(f) THEN Pushes(s) + 1 ELSE Pushes(s)
             /\ \A i \in 1 .. Len(s) + 1 : PushedBelow(c, i) = PushedBelow(s, i)
             /\ PushedBelow(c, Len(s) + 1) = Pushed(s)
<1> DEFINE fr == [fn |-> f, orig |-> a, ra |-> a]
           c == CallOf(s, f, a)
<1>1. fr \in Frame
  BY DEF Frame, RetAddrs
<1>2. c \in Seq(Frame) /\ Len(c) = Len(s) + 1 /\ Len(s) \in Nat
  BY <1>1 DEF CallOf
<1>3. /\ \A i \in 1 .. Len(s) : c[i] = s[i]
      /\ c[Len(s) + 1] = fr
  BY <1>1 DEF CallOf
<1>4. Pushed(c) = IF Prologued(f) THEN Pushed(s) \cup {Len(s) + 1} ELSE Pushed(s)
  <2>1. DOMAIN c = 1 .. Len(s) + 1 /\ DOMAIN s = 1 .. Len(s)
    BY <1>2
  <2>2. 1 .. Len(s) + 1 = (1 .. Len(s)) \cup {Len(s) + 1}
    BY <1>2
  <2>3. fr.fn = f
    OBVIOUS
  <2> HIDE DEF fr, c
  <2>4. QED
    BY <2>1, <2>2, <2>3, <1>3 DEF Pushed
<1>5. IsFiniteSet(Pushed(s)) /\ Len(s) + 1 \notin Pushed(s)
  <2>1. Len(s) + 1 \notin DOMAIN s
    BY <1>2
  <2>2. QED
    BY <2>1, PushesBounded DEF Pushed
<1>6. Pushes(c) = IF Prologued(f) THEN Pushes(s) + 1 ELSE Pushes(s)
  BY <1>4, <1>5, FS_AddElement DEF Pushes
<1>7. \A i \in 1 .. Len(s) + 1 : PushedBelow(c, i) = PushedBelow(s, i)
  <2> HIDE DEF c
  <2>1. QED
    BY <1>2, <1>4 DEF PushedBelow
<1>8. PushedBelow(s, Len(s) + 1) = Pushed(s)
  BY <1>2 DEF PushedBelow, Pushed
<1>9. c # <<>> /\ Top(c) = fr
  <2> HIDE DEF c
  <2>1. QED
    BY <1>2, <1>3 DEF Top
<1>10. Len(s) + 1 \in 1 .. Len(s) + 1
  BY <1>2
<1>11. PushedBelow(c, Len(s) + 1) = Pushed(s)
  BY <1>7, <1>8, <1>10
<1>12. QED
  BY <1>2, <1>3, <1>4, <1>6, <1>7, <1>9, <1>11

\* Overwriting a return address moves no frame and changes no other field.
LEMMA OverwriteFacts ==
  ASSUME NEW s \in Seq(Frame), NEW i \in DOMAIN s, NEW a \in RetAddrs
  PROVE  LET w == OverwriteOf(s, i, a)
         IN  /\ w \in Seq(Frame)
             /\ Len(w) = Len(s)
             /\ \A j \in 1 .. Len(s) : w[j].fn = s[j].fn /\ w[j].orig = s[j].orig
             /\ Pushed(w) = Pushed(s)
<1> DEFINE w == OverwriteOf(s, i, a)
<1>1. Len(s) \in Nat /\ DOMAIN s = 1 .. Len(s) /\ \A j \in 1 .. Len(s) : s[j] \in Frame
  OBVIOUS
<1>2. \A fr \in Frame : /\ [fr EXCEPT !.ra = a] \in Frame
                        /\ [fr EXCEPT !.ra = a].fn = fr.fn
                        /\ [fr EXCEPT !.ra = a].orig = fr.orig
  BY DEF Frame
<1>3. w = [j \in 1 .. Len(s) |-> IF j = i THEN [s[i] EXCEPT !.ra = a] ELSE s[j]]
  BY <1>1 DEF OverwriteOf
<1>4. w \in [1 .. Len(s) -> Frame]
  BY <1>1, <1>2, <1>3
<1>5. w \in Seq(Frame) /\ Len(w) = Len(s) /\ DOMAIN w = 1 .. Len(s)
  <2> HIDE DEF w
  <2>1. w \in Seq(Frame)
    BY <1>1, <1>4
  <2>2. DOMAIN w = 1 .. Len(w) /\ DOMAIN w = 1 .. Len(s) /\ Len(w) \in Nat
    BY <2>1, <1>4
  <2>3. Len(w) = Len(s)
    <3>1. \A m, n \in Nat : 1 .. m = 1 .. n => m = n
      <4>1. \A m, n \in Nat : m < n => n \in 1 .. n /\ n \notin 1 .. m
        OBVIOUS
      <4>2. QED
        BY <4>1
    <3>2. QED
      BY <1>1, <2>2, <3>1
  <2>4. QED
    BY <2>1, <2>2, <2>3
<1>6. \A j \in 1 .. Len(s) : w[j].fn = s[j].fn /\ w[j].orig = s[j].orig
  BY <1>1, <1>2, <1>3
<1>7. Pushed(w) = Pushed(s)
  <2> HIDE DEF w
  <2>1. QED
    BY <1>1, <1>5, <1>6 DEF Pushed
<1>8. QED
  BY <1>5, <1>6, <1>7

\* Unwinding keeps the frames below, as they were.
LEMMA PrefixFacts ==
  ASSUME NEW s \in Seq(Frame), NEW k \in 0 .. Len(s)
  PROVE  /\ SubSeq(s, 1, k) \in Seq(Frame)
         /\ Len(SubSeq(s, 1, k)) = k
         /\ \A i \in 1 .. k : SubSeq(s, 1, k)[i] = s[i]
<1>1. Len(s) \in Nat /\ k \in Nat /\ k <= Len(s)
  OBVIOUS
<1>2. \A i \in 1 .. k : s[i] \in Frame
  BY <1>1
<1>3. /\ SubSeq(s, 1, k) \in Seq(Frame)
      /\ Len(SubSeq(s, 1, k)) = IF 1 <= k THEN k - 1 + 1 ELSE 0
      /\ \A i \in 1 .. k - 1 + 1 : SubSeq(s, 1, k)[i] = s[1 + i - 1]
  BY <1>1, <1>2, SubSeqProperties
<1>4. QED
  BY <1>1, <1>3

\* A return gives up the top frame, and its slot is the last one counted.
LEMMA PopFacts ==
  ASSUME NEW s \in Seq(Frame), s # <<>>
  PROVE  LET p == Pop(s)
         IN  /\ p \in Seq(Frame)
             /\ Len(p) = Len(s) - 1
             /\ Len(s) \in Nat \ {0}
             /\ \A i \in 1 .. Len(s) - 1 : p[i] = s[i]
             /\ Pushed(p) = Pushed(s) \ {Len(s)}
             /\ Pushes(p) = IF Prologued(Top(s).fn) THEN Pushes(s) - 1 ELSE Pushes(s)
             /\ \A i \in 1 .. Len(s) : PushedBelow(p, i) = PushedBelow(s, i)
             /\ PushedBelow(s, Len(s)) = Pushed(p)
<1> DEFINE p == Pop(s)
<1>1. Len(s) \in Nat /\ Len(s) >= 1
  OBVIOUS
<1>2. /\ p \in Seq(Frame) /\ Len(p) = Len(s) - 1
      /\ \A i \in 1 .. Len(s) - 1 : p[i] = s[i]
  <2>1. Len(s) - 1 \in 0 .. Len(s)
    BY <1>1
  <2>2. QED
    BY <2>1, PrefixFacts DEF Pop
<1>4. Pushed(p) = Pushed(s) \ {Len(s)}
  <2>1. DOMAIN p = 1 .. Len(s) - 1 /\ DOMAIN s = 1 .. Len(s)
    BY <1>2
  <2> HIDE DEF p
  <2>2. QED
    BY <2>1, <1>1, <1>2 DEF Pushed
<1>5. Len(s) \in Pushed(s) <=> Prologued(Top(s).fn)
  BY <1>1 DEF Pushed, Top
<1>6. Pushes(p) = IF Prologued(Top(s).fn) THEN Pushes(s) - 1 ELSE Pushes(s)
  BY <1>4, <1>5, PushesBounded, FS_RemoveElement DEF Pushes
<1>7. \A i \in 1 .. Len(s) : PushedBelow(p, i) = PushedBelow(s, i)
  <2> HIDE DEF p
  <2>1. QED
    BY <1>1, <1>4 DEF PushedBelow
<1>8. PushedBelow(s, Len(s)) = Pushed(p)
  BY <1>1, <1>4 DEF PushedBelow, Pushed
<1>9. QED
  BY <1>1, <1>2, <1>4, <1>6, <1>7, <1>8

-----------------------------------------------------------------------------
(* The instrumentation.                                                    *)

\* A step of thread t changes that thread's control state and nobody else's.
LEMMA LocalStep ==
  ASSUME TypeOK, Coherent, NEW t \in Threads, NEW s \in Seq(Frame), NEW at \in PCs,
         frames' = [frames EXCEPT ![t] = s], pc' = [pc EXCEPT ![t] = at], CoherentAt(s, at)
  PROVE  /\ frames' \in [Threads -> Seq(Frame)]
         /\ pc' \in [Threads -> PCs]
         /\ frames'[t] = s /\ pc'[t] = at
         /\ Coherent'
<1>1. frames \in [Threads -> Seq(Frame)] /\ pc \in [Threads -> PCs]
  BY DEF TypeOK
<1>2. /\ frames' \in [Threads -> Seq(Frame)]
      /\ pc' \in [Threads -> PCs]
      /\ frames'[t] = s /\ pc'[t] = at
  BY <1>1
<1>3. Coherent'
  <2>1. SUFFICES ASSUME NEW u \in Threads
                 PROVE  CoherentAt(frames'[u], pc'[u])
    BY DEF Coherent, CoherentAt
  <2>2. CASE u = t
    BY <1>2, <2>2
  <2>3. CASE u # t
    BY <1>1, <2>3 DEF Coherent
  <2>4. QED
    BY <2>2, <2>3
<1>4. QED
  BY <1>2, <1>3

\* The same for a step that leaves the process stack alone.
LEMMA LocalGoto ==
  ASSUME TypeOK, Coherent, NEW t \in Threads, NEW at \in PCs,
         UNCHANGED frames, Goto(t, at), CoherentAt(frames[t], at)
  PROVE  /\ frames' \in [Threads -> Seq(Frame)]
         /\ pc' \in [Threads -> PCs]
         /\ pc'[t] = at
         /\ Coherent'
<1>1. frames \in [Threads -> Seq(Frame)]
  BY DEF TypeOK
<1>2. frames' = [frames EXCEPT ![t] = frames[t]] /\ frames[t] \in Seq(Frame)
  BY <1>1
<1>3. QED
  BY <1>2, LocalStep DEF Goto

\* A thread in a prologue, a body or an epilogue has a frame.
LEMMA TopInFrame ==
  ASSUME TypeOK, Coherent, NEW t \in Threads, pc[t] # "idle"
  PROVE  /\ frames[t] \in Seq(Frame) /\ frames[t] # <<>>
         /\ Len(frames[t]) \in Nat \ {0}
         /\ Top(frames[t]) \in Frame
         /\ Top(frames[t]).ra \in RetAddrs /\ Top(frames[t]).orig \in Sites
<1>1. frames[t] \in Seq(Frame) /\ frames[t] # <<>>
  BY DEF TypeOK, Coherent, CoherentAt
<1>2. Len(frames[t]) \in Nat \ {0}
  BY <1>1
<1>3. Top(frames[t]) \in Frame
  BY <1>1, <1>2 DEF Top
<1>4. QED
  BY <1>1, <1>2, <1>3 DEF Frame

-----------------------------------------------------------------------------
(* Type correctness, for any number of threads and any number of unwindings.*)

LEMMA InitCoherent == Init => TypeOK /\ Coherent
<1>1. /\ <<>> \in Seq(Frame) /\ "idle" \in PCs /\ 0 \in Int /\ 0 \in 0 .. MaxUnwinds
      /\ "idle" \notin ProloguePCs \cup EpiloguePCs
  BY ShadowStackAssumption DEF PCs, ProloguePCs, EpiloguePCs
<1>2. QED
  BY <1>1 DEF Init, TypeOK, Coherent, CoherentAt

\* A return, checked or not.
LEMMA ReturnCoherent ==
  ASSUME TypeOK, Coherent, NEW t \in Threads, pc[t] # "idle", Return(t)
  PROVE  TypeOK' /\ Coherent'
<1> DEFINE s == frames[t]
           at == IF Len(s) = 1 THEN "idle" ELSE "body"
<1>1. s \in Seq(Frame) /\ s # <<>>
  BY TopInFrame
<1>2. Pop(s) \in Seq(Frame) /\ Len(Pop(s)) = Len(s) - 1 /\ Len(s) \in Nat \ {0}
  BY <1>1, PopFacts
<1>3. at \in PCs
  BY DEF PCs
<1>4. CoherentAt(Pop(s), at)
  <2>1. Pop(s) = <<>> <=> Len(s) = 1
    <3>1. Pop(s) = <<>> <=> Len(Pop(s)) = 0
      BY <1>2, EmptySeq
    <3>2. QED
      BY <1>2, <3>1
  <2>2. QED
    BY <2>1 DEF CoherentAt, ProloguePCs, EpiloguePCs
<1>5. frames' = [frames EXCEPT ![t] = Pop(s)] /\ pc' = [pc EXCEPT ![t] = at]
  BY DEF Return, Goto, TypeOK
<1>6. frames' \in [Threads -> Seq(Frame)] /\ pc' \in [Threads -> PCs] /\ Coherent'
  BY <1>2, <1>3, <1>4, <1>5, LocalStep
<1>7. QED
  BY <1>6 DEF Return, TypeOK

LEMMA StepCoherent ==
  ASSUME TypeOK, Coherent, NEW t \in Threads, Step(t)
  PROVE  TypeOK' /\ Coherent'
<1> USE DEF PCs, ProloguePCs, EpiloguePCs
<1>1. frames[t] \in Seq(Frame) /\ CoherentAt(frames[t], pc[t])
  BY DEF TypeOK, Coherent
<1>2. ASSUME NEW f \in Functions, NEW a \in Sites, Call(t, f, a)
      PROVE  TypeOK' /\ Coherent'
  <2> DEFINE s == CallOf(frames[t], f, a)
             at == IF Prologued(f) THEN "loadSp" ELSE "body"
  <2>1. s \in Seq(Frame) /\ s # <<>> /\ Top(s).fn = f
    BY <1>1, CallFacts
  <2>2. CoherentAt(s, at)
    BY <2>1 DEF CoherentAt
  <2>3. frames' = [frames EXCEPT ![t] = s] /\ pc' = [pc EXCEPT ![t] = at]
    BY <1>2 DEF Call, Goto
  <2>4. frames' \in [Threads -> Seq(Frame)] /\ pc' \in [Threads -> PCs] /\ Coherent'
    <3> HIDE DEF s
    <3>1. QED
      BY <2>1, <2>2, <2>3, LocalStep
  <2>5. QED
    BY <2>4, <1>2 DEF Call, TypeOK
<1>3. ASSUME NEW i \in 1 .. MaxDepth, NEW a \in RetAddrs, Overwrite(t, i, a)
      PROVE  TypeOK' /\ Coherent'
  <2> DEFINE s == OverwriteOf(frames[t], i, a)
  <2>1. i \in DOMAIN frames[t]
    BY <1>3 DEF Overwrite, Overwritable
  <2>2. s \in Seq(Frame) /\ Len(s) = Len(frames[t]) /\ frames[t] # <<>>
    BY <1>1, <2>1, OverwriteFacts
  <2>3. CoherentAt(s, "body") /\ "body" \in PCs
    BY <2>2 DEF CoherentAt
  <2>4. frames' = [frames EXCEPT ![t] = s] /\ pc' = [pc EXCEPT ![t] = "body"]
    BY <1>3 DEF Overwrite, TypeOK
  <2>5. frames' \in [Threads -> Seq(Frame)] /\ pc' \in [Threads -> PCs] /\ Coherent'
    <3> HIDE DEF s
    <3>1. QED
      BY <2>2, <2>3, <2>4, LocalStep
  <2>6. QED
    BY <2>5, <1>3 DEF Overwrite, TypeOK
<1>4. ASSUME NEW k \in 1 .. MaxDepth, Unwind(t, k)
      PROVE  TypeOK' /\ Coherent'
  <2> DEFINE s == SubSeq(frames[t], 1, k)
  <2>1. k \in 1 .. Len(frames[t]) - 1 /\ Len(frames[t]) \in Nat
    BY <1>1, <1>4 DEF Unwind
  <2>2. s \in Seq(Frame) /\ Len(s) = k /\ k # 0
    BY <1>1, <2>1, PrefixFacts
  <2>3. CoherentAt(s, "body") /\ "body" \in PCs
    BY <2>2 DEF CoherentAt
  <2>4. frames' = [frames EXCEPT ![t] = s] /\ pc' = [pc EXCEPT ![t] = "body"]
    BY <1>4 DEF Unwind, TypeOK
  <2>5. frames' \in [Threads -> Seq(Frame)] /\ pc' \in [Threads -> PCs] /\ Coherent'
    <3> HIDE DEF s
    <3>1. QED
      BY <2>2, <2>3, <2>4, LocalStep
  <2>6. unwinds' \in 0 .. MaxUnwinds
    BY <1>4, ShadowStackAssumption DEF Unwind, TypeOK
  <2>7. QED
    BY <2>5, <2>6, <1>4 DEF Unwind, TypeOK
<1>5. CASE PlainReturn(t)
  BY <1>5, ReturnCoherent DEF PlainReturn
<1>6. CASE BranchToEpilogue(t)
  <2>1. CoherentAt(frames[t], "loadSpCur")
    BY <1>1, <1>6 DEF BranchToEpilogue, CoherentAt
  <2>2. QED
    BY <1>6, <2>1, LocalGoto DEF BranchToEpilogue, TypeOK
<1>7. CASE LoadSp(t)
  <2>1. CoherentAt(frames[t], "storeRetaddr")
    BY <1>1, <1>7 DEF LoadSp, CoherentAt
  <2>2. QED
    BY <1>7, <2>1, LocalGoto DEF LoadSp, TypeOK
<1>8. CASE StoreRetaddr(t)
  <2>1. CoherentAt(frames[t], "storeSpNext")
    BY <1>1, <1>8 DEF StoreRetaddr, CoherentAt
  <2>2. CASE sp[t] \in Slots
    <3>1. Top(frames[t]).ra \in RetAddrs
      BY <1>8, TopInFrame DEF StoreRetaddr
    <3>2. shadow_stack' \in [Slots -> RetAddrs \cup {Zero}]
      BY <1>8, <2>2, <3>1 DEF StoreRetaddr, TypeOK
    <3>3. QED
      BY <1>8, <2>1, <2>2, <3>2, LocalGoto DEF StoreRetaddr, TypeOK
  <2>3. CASE sp[t] \notin Slots
    BY <1>8, <2>3 DEF StoreRetaddr, Undefined, TypeOK, Coherent
  <2>4. QED
    BY <2>2, <2>3
<1>9. CASE StoreSpNext(t)
  <2>1. CoherentAt(frames[t], "body")
    BY <1>1, <1>9 DEF StoreSpNext, CoherentAt
  <2>2. QED
    BY <1>9, <2>1, LocalGoto DEF StoreSpNext, TypeOK
<1>10. CASE LoadSpCur(t)
  <2>1. CoherentAt(frames[t], "storeSpDec")
    BY <1>1, <1>10 DEF LoadSpCur, CoherentAt
  <2>2. QED
    BY <1>10, <2>1, LocalGoto DEF LoadSpCur, TypeOK
<1>11. CASE StoreSpDec(t)
  <2>1. CoherentAt(frames[t], "compare")
    BY <1>1, <1>11 DEF StoreSpDec, CoherentAt
  <2>2. QED
    BY <1>11, <2>1, LocalGoto DEF StoreSpDec, TypeOK
<1>12. CASE CompareRa(t)
  <2>1. CoherentAt(frames[t], "ret")
    BY <1>1, <1>12 DEF CompareRa, CoherentAt
  <2>2. CASE Goto(t, "ret") /\ UNCHANGED <<shadow_stack, shadow_sp, frames, sp, status, unwinds>>
    BY <2>1, <2>2, LocalGoto DEF TypeOK
  <2>3. CASE /\ status' \in {"aborted", "undefined"}
             /\ UNCHANGED <<shadow_stack, shadow_sp, frames, pc, sp, unwinds>>
    BY <2>3 DEF TypeOK, Coherent
  <2>4. QED
    BY <1>12, <2>2, <2>3 DEF CompareRa, Undefined
<1>13. CASE CheckedReturn(t)
  BY <1>13, ReturnCoherent DEF CheckedReturn
<1>14. QED
  BY <1>2, <1>3, <1>4, <1>5, <1>6, <1>7, <1>8, <1>9, <1>10, <1>11, <1>12, <1>13
     DEF Step, Program, Instrumentation

LEMMA NextCoherent == TypeOK /\ Coherent /\ [Next]_vars => TypeOK' /\ Coherent'
<1>1. SUFFICES ASSUME TypeOK, Coherent, [Next]_vars
               PROVE  TypeOK' /\ Coherent'
  OBVIOUS
<1>2. CASE \E t \in Threads : Step(t)
  BY <1>1, <1>2, StepCoherent
<1>3. CASE UNCHANGED vars
  BY <1>1, <1>3 DEF vars, TypeOK, Coherent
<1>4. QED
  BY <1>1, <1>2, <1>3 DEF Next, Stopped

\* Every variable keeps its type: in particular only indexes inside the array
\* are ever stored to, and only return addresses are stored there.
THEOREM TypeCorrect == Spec => []TypeOK
<1>1. Spec => [](TypeOK /\ Coherent)
  BY InitCoherent, NextCoherent, PTL DEF Spec
<1>2. QED
  BY <1>1, PTL

-----------------------------------------------------------------------------
(* Serial programs.  Threads = {t}, so every invariant speaks of thread t;  *)
(* Mirrors and Original are its conjuncts for a stack s, a control point at,*)
(* the register r, the array ss and the index ssp.                          *)

Mirrors(s, at, r, ss, ssp) ==
  /\ ssp = Pushes(s) - (IF at \in ProloguePCs \cup {"compare", "ret"} THEN 1 ELSE 0)
  /\ at \in {"storeRetaddr", "storeSpNext", "storeSpDec", "compare"} => r = Pushes(s) - 1
  /\ \A i \in Pushed(s) :
       \/ i = Len(s) /\ at \in {"loadSp", "storeRetaddr"}
       \/ ss[SlotOf(s, i)] = s[i].orig

Original(s, at) ==
  /\ Len(s) <= MaxDepth
  /\ at \in {"loadSp", "storeRetaddr"} => ~Altered(Top(s))

LEMMA OfOneThread ==
  ASSUME NEW t, Threads = {t}
  PROVE  /\ Mirror <=> Mirrors(frames[t], pc[t], sp[t], shadow_stack, shadow_sp)
         /\ PushesOriginal <=> Original(frames[t], pc[t])
         /\ RightfulReturn <=> (pc[t] = "ret" => ~Altered(Top(frames[t])))
         /\ RightfulAbort <=> (status = "aborted" => pc[t] = "compare" /\ Altered(Top(frames[t])))
  BY DEF Mirror, Mirrors, LogicalSp, PushesOriginal, Original, RightfulReturn, RightfulAbort

LEMMA OfOneThreadNext ==
  ASSUME NEW t, Threads = {t}
  PROVE  /\ Mirror' <=> Mirrors(frames'[t], pc'[t], sp'[t], shadow_stack', shadow_sp')
         /\ PushesOriginal' <=> Original(frames'[t], pc'[t])
         /\ RightfulReturn' <=> (pc'[t] = "ret" => ~Altered(Top(frames'[t])))
         /\ RightfulAbort' <=> (status' = "aborted" => pc'[t] = "compare" /\ Altered(Top(frames'[t])))
  BY DEF Mirror, Mirrors, LogicalSp, PushesOriginal, Original, RightfulReturn, RightfulAbort

\* The slot of an instrumented function on top is the last one counted, and it
\* is inside the array when the stack is no deeper than the array is long.
LEMMA TopSlot ==
  ASSUME NEW s \in Seq(Frame), s # <<>>, Prologued(Top(s).fn), Len(s) <= MaxDepth,
         MaxDepth <= SS_SIZE
  PROVE  /\ Len(s) \in Pushed(s)
         /\ SlotOf(s, Len(s)) = Pushes(s) - 1
         /\ Pushes(s) - 1 \in Slots
         /\ \A i \in Pushed(s) : i # Len(s) => SlotOf(s, i) \in Slots /\ SlotOf(s, i) # Pushes(s) - 1
<1>1. Len(s) \in Nat \ {0} /\ DOMAIN s = 1 .. Len(s)
  BY PopFacts
<1>2. Len(s) \in Pushed(s)
  BY <1>1 DEF Pushed, Top
<1>3. Pushes(s) \in Nat /\ Pushes(s) <= Len(s)
  BY PushesBounded
<1>4. SlotOf(s, Len(s)) = Pushes(s) - 1
  BY PopFacts DEF SlotOf, Pushes
<1>5. SlotOf(s, Len(s)) \in Nat
  BY <1>2, SlotsOrdered DEF SlotOf
<1>6. Pushes(s) - 1 \in Slots
  <2>1. MaxDepth \in Nat /\ SS_SIZE \in Nat /\ MaxDepth <= SS_SIZE
    BY CallStackAssumption, ShadowStackAssumption
  <2>2. QED
    BY <2>1, <1>1, <1>3, <1>4, <1>5 DEF Slots
<1>7. ASSUME NEW i \in Pushed(s), i # Len(s)
      PROVE  SlotOf(s, i) \in Slots /\ SlotOf(s, i) # Pushes(s) - 1
  <2>1. i < Len(s)
    BY <1>1, <1>7 DEF Pushed
  <2>2. SlotOf(s, i) \in Nat /\ SlotOf(s, i) < Pushes(s) - 1
    BY <2>1, <1>2, <1>4, SlotsOrdered DEF SlotOf
  <2>3. SS_SIZE \in Nat /\ Pushes(s) - 1 \in Nat /\ Pushes(s) - 1 <= SS_SIZE - 1
    BY <1>6, ShadowStackAssumption DEF Slots
  <2>4. QED
    BY <2>2, <2>3 DEF Slots
<1>8. QED
  BY <1>2, <1>4, <1>6, <1>7

\* A call counts the callee as pushed, less the push its prologue still owes.
LEMMA CallMirrors ==
  ASSUME NEW s \in Seq(Frame), NEW at \in {"idle", "body"}, NEW r, NEW r2, NEW ss, NEW ssp,
         NEW f \in Functions, NEW a \in Sites, Len(s) < MaxDepth,
         Mirrors(s, at, r, ss, ssp)
  PROVE  LET to == IF Prologued(f) THEN "loadSp" ELSE "body"
         IN  Mirrors(CallOf(s, f, a), to, r2, ss, ssp) /\ Original(CallOf(s, f, a), to)
<1> DEFINE c == CallOf(s, f, a)
           to == IF Prologued(f) THEN "loadSp" ELSE "body"
<1>1. /\ c \in Seq(Frame) /\ Len(c) = Len(s) + 1 /\ Len(s) \in Nat
      /\ \A i \in 1 .. Len(s) : c[i] = s[i]
      /\ Top(c) = [fn |-> f, orig |-> a, ra |-> a]
      /\ Pushed(c) = IF Prologued(f) THEN Pushed(s) \cup {Len(s) + 1} ELSE Pushed(s)
      /\ Pushes(c) = IF Prologued(f) THEN Pushes(s) + 1 ELSE Pushes(s)
      /\ \A i \in 1 .. Len(s) + 1 : PushedBelow(c, i) = PushedBelow(s, i)
  BY CallFacts
<1>2. Pushes(s) \in Nat /\ \A i \in Pushed(s) : i \in 1 .. Len(s)
  BY PushesBounded
<1>3. /\ ssp = Pushes(s)
      /\ \A i \in Pushed(s) : ss[SlotOf(s, i)] = s[i].orig
  BY <1>2 DEF Mirrors, ProloguePCs
<1> HIDE DEF c
<1>4. \A i \in Pushed(s) : ss[SlotOf(c, i)] = c[i].orig
  BY <1>1, <1>2, <1>3 DEF SlotOf
<1>5. Mirrors(c, to, r2, ss, ssp)
  BY <1>1, <1>2, <1>3, <1>4 DEF Mirrors, ProloguePCs
<1>6. Original(c, to)
  BY <1>1, CallStackAssumption DEF Original, Altered
<1>7. QED
  BY <1>5, <1>6 DEF c

\* Overwriting changes no frame the shadow stack accounts for.
LEMMA OverwriteMirrors ==
  ASSUME NEW s \in Seq(Frame), NEW i \in DOMAIN s, NEW a \in RetAddrs, NEW r, NEW ss, NEW ssp,
         Mirrors(s, "body", r, ss, ssp), Original(s, "body")
  PROVE  LET w == OverwriteOf(s, i, a)
         IN  Mirrors(w, "body", r, ss, ssp) /\ Original(w, "body")
<1> DEFINE w == OverwriteOf(s, i, a)
<1>1. /\ Len(w) = Len(s) /\ Pushed(w) = Pushed(s)
      /\ \A j \in 1 .. Len(s) : w[j].orig = s[j].orig
  BY OverwriteFacts
<1>2. \A j \in Pushed(s) : j \in 1 .. Len(s)
  BY DEF Pushed
<1> HIDE DEF w
<1>3. \A j \in Pushed(w) : SlotOf(w, j) = SlotOf(s, j) /\ w[j].orig = s[j].orig
  BY <1>1, <1>2 DEF SlotOf, PushedBelow
<1>4. Pushes(w) = Pushes(s)
  BY <1>1 DEF Pushes
<1>5. Mirrors(w, "body", r, ss, ssp)
  BY <1>1, <1>3, <1>4 DEF Mirrors
<1>6. QED
  BY <1>1, <1>5 DEF Original, w

\* A return gives up the slot the epilogue popped, or none when unchecked.
LEMMA ReturnMirrors ==
  ASSUME NEW s \in Seq(Frame), s # <<>>, NEW at \in {"body", "ret"}, NEW to \in {"idle", "body"},
         NEW r, NEW ss, NEW ssp, Mirrors(s, at, r, ss, ssp), Original(s, at),
         at = "ret" <=> Prologued(Top(s).fn)
  PROVE  Mirrors(Pop(s), to, r, ss, ssp) /\ Original(Pop(s), to)
<1> DEFINE p == Pop(s)
<1>1. /\ Len(p) = Len(s) - 1 /\ Len(s) \in Nat \ {0}
      /\ \A i \in 1 .. Len(s) - 1 : p[i] = s[i]
      /\ Pushed(p) = Pushed(s) \ {Len(s)}
      /\ Pushes(p) = IF Prologued(Top(s).fn) THEN Pushes(s) - 1 ELSE Pushes(s)
      /\ \A i \in 1 .. Len(s) : PushedBelow(p, i) = PushedBelow(s, i)
  BY PopFacts
<1>2. Pushes(s) \in Nat /\ \A i \in Pushed(s) : i \in 1 .. Len(s)
  BY PushesBounded
<1>3. \A i \in Pushed(s) : ss[SlotOf(s, i)] = s[i].orig
  BY DEF Mirrors
<1> HIDE DEF p
<1>4. \A i \in Pushed(p) : i \in 1 .. Len(s) - 1
  BY <1>1, <1>2
<1>5. \A i \in Pushed(p) : ss[SlotOf(p, i)] = p[i].orig
  BY <1>1, <1>2, <1>3, <1>4 DEF SlotOf
<1>6. ssp = Pushes(p)
  BY <1>1, <1>2 DEF Mirrors, ProloguePCs
<1>7. Mirrors(p, to, r, ss, ssp)
  BY <1>2, <1>5, <1>6 DEF Mirrors, ProloguePCs
<1>8. Original(p, to)
  BY <1>1, CallStackAssumption DEF Original
<1>9. QED
  BY <1>7, <1>8 DEF p

\* Every step but unwinding keeps the mirror; at the compare the popped slot
\* therefore holds the address the caller pushed.
LEMMA MirrorStep ==
  ASSUME Serial, NEW t \in Threads, IInv, Step(t), unwinds' = unwinds
  PROVE  PushesOriginal' /\ InBounds' /\ Mirror' /\ RightfulAbort' /\ RightfulReturn'
<1> USE DEF Serial
<1> DEFINE s == frames[t]
<1>1. Threads = {t}
  BY DEF OneThread
<1>2. /\ TypeOK /\ Coherent /\ status = "running"
      /\ s \in Seq(Frame) /\ CoherentAt(s, pc[t])
      /\ shadow_stack \in [Slots -> RetAddrs \cup {Zero}]
      /\ pc \in [Threads -> PCs] /\ sp \in [Threads -> Int]
      /\ frames \in [Threads -> Seq(Frame)]
  BY DEF IInv, TypeOK, Coherent, Step
<1>3. /\ Mirrors(s, pc[t], sp[t], shadow_stack, shadow_sp)
      /\ Original(s, pc[t])
      /\ pc[t] = "ret" => ~Altered(Top(s))
  BY <1>1, OfOneThread DEF IInv
<1>4. Pushes(s) \in Nat
  BY <1>2, PushesBounded
<1>5. SUFFICES /\ Mirrors(frames'[t], pc'[t], sp'[t], shadow_stack', shadow_sp')
               /\ Original(frames'[t], pc'[t])
               /\ pc'[t] = "ret" => ~Altered(Top(frames'[t]))
               /\ status' = "running" \/ (status' = "aborted" /\ pc'[t] = "compare" /\ Altered(Top(frames'[t])))
  BY <1>1, OfOneThreadNext DEF InBounds
<1> DEFINE Goal == /\ Mirrors(frames'[t], pc'[t], sp'[t], shadow_stack', shadow_sp')
                   /\ Original(frames'[t], pc'[t])
                   /\ pc'[t] = "ret" => ~Altered(Top(frames'[t]))
                   /\ \/ status' = "running"
                      \/ status' = "aborted" /\ pc'[t] = "compare" /\ Altered(Top(frames'[t]))
<1>6. ASSUME NEW f \in Functions, NEW a \in Sites, Call(t, f, a)
      PROVE  Goal
  <2> DEFINE to == IF Prologued(f) THEN "loadSp" ELSE "body"
  <2>1. /\ frames'[t] = CallOf(s, f, a) /\ pc'[t] = to /\ Len(s) < MaxDepth
        /\ pc[t] \in {"idle", "body"} /\ to # "ret"
        /\ UNCHANGED <<shadow_stack, shadow_sp, sp, status>>
    BY <1>2, <1>6 DEF Call, Goto
  <2>2. Mirrors(CallOf(s, f, a), to, sp[t], shadow_stack, shadow_sp) /\ Original(CallOf(s, f, a), to)
    BY <1>2, <1>3, <2>1, CallMirrors
  <2> HIDE DEF to
  <2>3. QED
    BY <1>2, <2>1, <2>2
<1>7. ASSUME NEW i \in 1 .. MaxDepth, NEW a \in RetAddrs, Overwrite(t, i, a)
      PROVE  Goal
  <2>1. /\ frames'[t] = OverwriteOf(s, i, a) /\ i \in DOMAIN s
        /\ pc[t] = "body" /\ pc'[t] = "body"
        /\ UNCHANGED <<shadow_stack, shadow_sp, sp, status>>
    BY <1>2, <1>7 DEF Overwrite, Overwritable
  <2>2. Mirrors(OverwriteOf(s, i, a), "body", sp[t], shadow_stack, shadow_sp)
        /\ Original(OverwriteOf(s, i, a), "body")
    BY <1>2, <1>3, <2>1, OverwriteMirrors
  <2>3. QED
    BY <1>2, <2>1, <2>2
<1>8. ASSUME NEW k \in 1 .. MaxDepth, Unwind(t, k)
      PROVE  Goal
  BY <1>2, <1>8 DEF Unwind, TypeOK
<1>9. ASSUME pc[t] \in {"body", "ret"}, pc[t] = "ret" <=> Prologued(Top(s).fn), Return(t)
      PROVE  Goal
  <2> DEFINE to == IF Len(s) = 1 THEN "idle" ELSE "body"
  <2>1. s # <<>>
    BY <1>2, <1>9, TopInFrame
  <2>2. /\ frames'[t] = Pop(s) /\ pc'[t] = to /\ to \in {"idle", "body"}
        /\ UNCHANGED <<shadow_stack, shadow_sp, sp, status>>
    BY <1>2, <1>9 DEF Return, Goto
  <2> HIDE DEF to
  <2>3. Mirrors(Pop(s), to, sp[t], shadow_stack, shadow_sp) /\ Original(Pop(s), to)
    BY <1>2, <1>3, <1>9, <2>1, <2>2, ReturnMirrors
  <2>4. QED
    BY <1>2, <2>2, <2>3
<1>10. CASE PlainReturn(t)
  BY <1>9, <1>10 DEF PlainReturn
<1>11. CASE CheckedReturn(t)
  BY <1>2, <1>9, <1>11 DEF CheckedReturn, CoherentAt, EpiloguePCs, Epilogued
<1>12. CASE BranchToEpilogue(t)
  <2>1. /\ pc[t] = "body" /\ pc'[t] = "loadSpCur"
        /\ UNCHANGED <<shadow_stack, shadow_sp, frames, sp, status>>
    BY <1>2, <1>12 DEF BranchToEpilogue, Goto
  <2>2. QED
    BY <1>2, <1>3, <2>1 DEF Mirrors, Original, ProloguePCs
<1>13. CASE LoadSp(t)
  <2>1. /\ pc[t] = "loadSp" /\ pc'[t] = "storeRetaddr" /\ sp'[t] = shadow_sp
        /\ UNCHANGED <<shadow_stack, shadow_sp, frames, status>>
    BY <1>2, <1>13 DEF LoadSp, Goto
  <2>2. QED
    BY <1>2, <1>3, <2>1 DEF Mirrors, Original, ProloguePCs
<1>14. CASE StoreRetaddr(t)
  <2>1. /\ pc[t] = "storeRetaddr" /\ sp[t] = Pushes(s) - 1
        /\ s # <<>> /\ Prologued(Top(s).fn) /\ Len(s) <= MaxDepth /\ ~Altered(Top(s))
    BY <1>2, <1>3, <1>14, TopInFrame
       DEF StoreRetaddr, Mirrors, Original, CoherentAt, ProloguePCs
  <2>2. /\ Len(s) \in Pushed(s) /\ SlotOf(s, Len(s)) = Pushes(s) - 1
        /\ Pushes(s) - 1 \in Slots
        /\ \A i \in Pushed(s) : i # Len(s) => SlotOf(s, i) \in Slots /\ SlotOf(s, i) # Pushes(s) - 1
    BY <1>2, <2>1, TopSlot
  <2>3. /\ shadow_stack' = [shadow_stack EXCEPT ![Pushes(s) - 1] = Top(s).ra]
        /\ pc'[t] = "storeSpNext" /\ UNCHANGED <<shadow_sp, frames, sp, status>>
    BY <1>2, <1>14, <2>1, <2>2 DEF StoreRetaddr, Goto
  <2>4. ASSUME NEW i \in Pushed(s)
        PROVE  shadow_stack'[SlotOf(s, i)] = s[i].orig
    <3>1. CASE i = Len(s)
      BY <1>2, <2>1, <2>2, <2>3, <3>1 DEF Altered, Top
    <3>2. CASE i # Len(s)
      <4>1. shadow_stack[SlotOf(s, i)] = s[i].orig
        BY <1>3, <3>2 DEF Mirrors
      <4>2. SlotOf(s, i) # Pushes(s) - 1 /\ SlotOf(s, i) \in Slots
        BY <2>2, <3>2
      <4>3. QED
        BY <1>2, <2>3, <4>1, <4>2
    <3>3. QED
      BY <3>1, <3>2
  <2>5. Mirrors(s, "storeSpNext", sp[t], shadow_stack', shadow_sp)
    BY <1>3, <2>1, <2>4 DEF Mirrors, ProloguePCs
  <2>6. QED
    BY <1>2, <1>3, <2>3, <2>5 DEF Original
<1>15. CASE StoreSpNext(t)
  <2>1. /\ pc[t] = "storeSpNext" /\ pc'[t] = "body" /\ shadow_sp' = sp[t] + 1
        /\ UNCHANGED <<shadow_stack, frames, sp, status>>
    BY <1>2, <1>15 DEF StoreSpNext, Goto
  <2>2. QED
    BY <1>2, <1>3, <1>4, <2>1 DEF Mirrors, Original, ProloguePCs
<1>16. CASE LoadSpCur(t)
  <2>1. /\ pc[t] = "loadSpCur" /\ pc'[t] = "storeSpDec" /\ sp'[t] = shadow_sp - 1
        /\ UNCHANGED <<shadow_stack, shadow_sp, frames, status>>
    BY <1>2, <1>16 DEF LoadSpCur, Goto
  <2>2. QED
    BY <1>2, <1>3, <1>4, <2>1 DEF Mirrors, Original, ProloguePCs
<1>17. CASE StoreSpDec(t)
  <2>1. /\ pc[t] = "storeSpDec" /\ pc'[t] = "compare" /\ shadow_sp' = sp[t]
        /\ UNCHANGED <<shadow_stack, frames, sp, status>>
    BY <1>2, <1>17 DEF StoreSpDec, Goto
  <2>2. QED
    BY <1>2, <1>3, <1>4, <2>1 DEF Mirrors, Original, ProloguePCs
<1>18. CASE CompareRa(t)
  <2>1. /\ pc[t] = "compare" /\ sp[t] = Pushes(s) - 1
        /\ s # <<>> /\ Prologued(Top(s).fn) /\ Len(s) <= MaxDepth
    BY <1>2, <1>3, <1>18, TopInFrame
       DEF CompareRa, Mirrors, Original, CoherentAt, EpiloguePCs, Epilogued
  <2>2. /\ Len(s) \in Pushed(s) /\ SlotOf(s, Len(s)) = Pushes(s) - 1 /\ Pushes(s) - 1 \in Slots
    BY <1>2, <2>1, TopSlot
  <2>3. shadow_stack[sp[t]] = Top(s).orig
    BY <1>3, <2>1, <2>2 DEF Mirrors, Top
  <2>4. CASE Altered(Top(s))
    BY <1>2, <1>3, <1>18, <2>1, <2>2, <2>3, <2>4 DEF CompareRa, Altered
  <2>5. CASE ~Altered(Top(s))
    <3>1. pc'[t] = "ret" /\ UNCHANGED <<shadow_stack, shadow_sp, frames, sp, status>>
      BY <1>2, <1>18, <2>1, <2>2, <2>3, <2>5 DEF CompareRa, Altered, Goto
    <3>2. QED
      BY <1>2, <1>3, <2>1, <2>5, <3>1 DEF Mirrors, Original, ProloguePCs
  <2>6. QED
    BY <2>4, <2>5
<1>19. QED
  BY <1>6, <1>7, <1>8, <1>10, <1>11, <1>12, <1>13, <1>14, <1>15, <1>16, <1>17, <1>18
     DEF Step, Program, Instrumentation

LEMMA MirrorInit == ASSUME Init PROVE IInv
<1>1. TypeOK /\ Coherent
  BY InitCoherent
<1>2. <<>> \in Seq(Frame) /\ Len(<<>>) = 0 /\ Pushed(<<>>) = {} /\ Pushes(<<>>) = 0
  BY FS_EmptySet DEF Pushed, Pushes
<1>3. \A t \in Threads : frames[t] = <<>> /\ pc[t] = "idle" /\ sp[t] = 0
  BY DEF Init
<1>4. Mirror
  BY <1>2, <1>3 DEF Mirror, LogicalSp, ProloguePCs, Init
<1>5. PushesOriginal
  BY <1>2, <1>3, CallStackAssumption DEF PushesOriginal
<1>6. RightfulAbort /\ RightfulReturn /\ InBounds
  BY <1>3 DEF RightfulAbort, RightfulReturn, InBounds, Init
<1>7. QED
  BY <1>1, <1>4, <1>5, <1>6 DEF IInv

-----------------------------------------------------------------------------
(* One thread that unwinds.  Lost is Stale for a stack s, a control point at *)
(* and the index ssp.                                                       *)

Lost(s, at, ssp) == ssp - (Pushes(s) - (IF at \in ProloguePCs \cup {"compare", "ret"} THEN 1 ELSE 0))

Follows(at, r, ssp) ==
  /\ at \in {"storeRetaddr", "storeSpNext", "compare"} => r = ssp
  /\ at = "storeSpDec" => r = ssp - 1

\* Unwinding to frame k gives no slot back, and loses none if no frame above k
\* has pushed one; then the mirror stays.
LEMMA UnwindLoses ==
  ASSUME NEW s \in Seq(Frame), NEW k \in 1 .. Len(s), NEW ssp \in Int
  PROVE  LET p == SubSeq(s, 1, k)
         IN  /\ p \in Seq(Frame) /\ Pushes(p) \in Nat /\ Pushes(p) <= Pushes(s)
             /\ \A r, ss : Pushes(p) = Pushes(s) /\ Mirrors(s, "body", r, ss, ssp) /\ Original(s, "body")
                  => Mirrors(p, "body", r, ss, ssp) /\ Original(p, "body")
<1> DEFINE p == SubSeq(s, 1, k)
<1>1. p \in Seq(Frame) /\ Len(p) = k /\ Len(s) \in Nat /\ k \in Nat /\ k <= Len(s)
      /\ \A i \in 1 .. k : p[i] = s[i]
  BY PrefixFacts
<1> HIDE DEF p
<1>2. DOMAIN p = 1 .. k /\ DOMAIN s = 1 .. Len(s)
  BY <1>1
<1>3. Pushed(p) = {i \in Pushed(s) : i <= k}
  BY <1>1, <1>2 DEF Pushed
<1>4. IsFiniteSet(Pushed(s)) /\ Pushed(p) \in SUBSET Pushed(s)
  BY <1>3, PushesBounded
<1>5. Pushes(p) \in Nat /\ Pushes(p) <= Pushes(s)
  BY <1>1, <1>4, FS_Subset, PushesBounded DEF Pushes
<1>6. ASSUME NEW r, NEW ss, Pushes(p) = Pushes(s), Mirrors(s, "body", r, ss, ssp), Original(s, "body")
      PROVE  Mirrors(p, "body", r, ss, ssp) /\ Original(p, "body")
  <2>1. \A i \in Pushed(p) : i \in Pushed(s) /\ i \in 1 .. k
    BY <1>1, <1>2, <1>3 DEF Pushed
  <2>2. \A i \in Pushed(p) : PushedBelow(p, i) = PushedBelow(s, i)
    BY <1>1, <1>2, <1>3, <2>1 DEF PushedBelow, Pushed
  <2>3. \A i \in Pushed(s) : ss[SlotOf(s, i)] = s[i].orig
    BY <1>6 DEF Mirrors
  <2>4. \A i \in Pushed(p) : ss[SlotOf(p, i)] = p[i].orig
    BY <1>1, <2>1, <2>2, <2>3 DEF SlotOf
  <2>5. Mirrors(p, "body", r, ss, ssp)
    BY <1>6, <2>4 DEF Mirrors, ProloguePCs
  <2>6. Original(p, "body")
    BY <1>1, <1>6, CallStackAssumption DEF Original
  <2>7. QED
    BY <2>5, <2>6
<1>7. QED
  BY <1>1, <1>5, <1>6 DEF p

LEMMA OfLoneThread ==
  ASSUME NEW t, Threads = {t}
  PROVE  /\ RegisterFollows <=> Follows(pc[t], sp[t], shadow_sp)
         /\ RegisterFollows' <=> Follows(pc'[t], sp'[t], shadow_sp')
         /\ Stale(t) = Lost(frames[t], pc[t], shadow_sp)
         /\ Stale(t)' = Lost(frames'[t], pc'[t], shadow_sp')
  BY DEF RegisterFollows, Follows, Stale, LogicalSp, Lost

\* No step but unwinding changes the number of lost slots: each moves the index
\* and what is counted together.
LEMMA StaleStep ==
  ASSUME OneThread, TypeOK, Coherent, RegisterFollows, NEW t \in Threads, Step(t)
  PROVE  /\ RegisterFollows'
         /\ Stale(t) \in Int /\ Stale(t)' \in Int
         /\ Stale(t)' >= Stale(t)
         /\ Stale(t)' = Stale(t) \/ unwinds' > unwinds
<1> DEFINE s == frames[t]
           lost == Lost(s, pc[t], shadow_sp)
           lost2 == Lost(frames'[t], pc'[t], shadow_sp')
<1>1. Threads = {t}
  BY DEF OneThread
<1>2. /\ status = "running" /\ shadow_sp \in Int
      /\ s \in Seq(Frame) /\ CoherentAt(s, pc[t])
      /\ pc \in [Threads -> PCs] /\ sp \in [Threads -> Int] /\ sp[t] \in Int
      /\ frames \in [Threads -> Seq(Frame)]
  BY DEF TypeOK, Coherent, Step
<1>3. Follows(pc[t], sp[t], shadow_sp)
  BY <1>1, OfLoneThread
<1>4. Pushes(s) \in Nat
  BY <1>2, PushesBounded
<1>5. lost \in Int
  BY <1>2, <1>4 DEF Lost
<1> DEFINE Goal == /\ Follows(pc'[t], sp'[t], shadow_sp')
                   /\ lost2 = lost \/ (lost2 \in Int /\ lost2 >= lost /\ unwinds' > unwinds)
<1>6. SUFFICES Goal
  BY <1>1, <1>5, OfLoneThread
<1>7. ASSUME NEW f \in Functions, NEW a \in Sites, Call(t, f, a)
      PROVE  Goal
  <2> DEFINE c == CallOf(s, f, a)
  <2>1. /\ frames'[t] = c /\ pc'[t] = IF Prologued(f) THEN "loadSp" ELSE "body"
        /\ pc[t] \in {"idle", "body"} /\ UNCHANGED <<shadow_sp, sp>>
    BY <1>2, <1>7 DEF Call, Goto
  <2>2. Pushes(c) = IF Prologued(f) THEN Pushes(s) + 1 ELSE Pushes(s)
    BY <1>2, CallFacts
  <2> HIDE DEF c
  <2>3. QED
    BY <1>2, <1>4, <2>1, <2>2 DEF Lost, Follows, ProloguePCs
<1>8. ASSUME NEW i \in 1 .. MaxDepth, NEW a \in RetAddrs, Overwrite(t, i, a)
      PROVE  Goal
  <2> DEFINE w == OverwriteOf(s, i, a)
  <2>1. /\ frames'[t] = w /\ i \in DOMAIN s /\ UNCHANGED <<shadow_sp, sp, pc>>
    BY <1>2, <1>8 DEF Overwrite, Overwritable
  <2>2. Pushes(w) = Pushes(s)
    BY <1>2, <2>1, OverwriteFacts DEF Pushes
  <2> HIDE DEF w
  <2>3. QED
    BY <1>3, <2>1, <2>2 DEF Lost
<1>9. ASSUME NEW k \in 1 .. MaxDepth, Unwind(t, k)
      PROVE  Goal
  <2> DEFINE p == SubSeq(s, 1, k)
  <2>1. /\ frames'[t] = p /\ pc[t] = "body" /\ unwinds' = unwinds + 1 /\ unwinds \in Int
        /\ UNCHANGED <<shadow_sp, sp, pc>>
    BY <1>2, <1>9 DEF Unwind, TypeOK
  <2>2. k \in 1 .. Len(s)
    BY <1>2, <1>9 DEF Unwind
  <2>3. Pushes(p) \in Nat /\ Pushes(p) <= Pushes(s)
    BY <1>2, <2>2, UnwindLoses
  <2> HIDE DEF p
  <2>4. QED
    BY <1>2, <1>3, <1>4, <2>1, <2>3 DEF Lost, ProloguePCs
<1>10. ASSUME pc[t] \in {"body", "ret"}, pc[t] = "ret" <=> Prologued(Top(s).fn), Return(t)
       PROVE  Goal
  <2> DEFINE p == Pop(s)
  <2>1. s # <<>>
    BY <1>2, <1>10, TopInFrame
  <2>2. /\ frames'[t] = p /\ pc'[t] = IF Len(s) = 1 THEN "idle" ELSE "body"
        /\ UNCHANGED <<shadow_sp, sp>>
    BY <1>2, <1>10 DEF Return, Goto
  <2>3. Pushes(p) = IF Prologued(Top(s).fn) THEN Pushes(s) - 1 ELSE Pushes(s)
    BY <1>2, <2>1, PopFacts
  <2> HIDE DEF p
  <2>4. QED
    BY <1>2, <1>4, <1>10, <2>2, <2>3 DEF Lost, Follows, ProloguePCs
<1>11. CASE PlainReturn(t)
  BY <1>10, <1>11 DEF PlainReturn
<1>12. CASE CheckedReturn(t)
  BY <1>2, <1>10, <1>12 DEF CheckedReturn, CoherentAt, EpiloguePCs, Epilogued
<1>13. CASE BranchToEpilogue(t)
  BY <1>2, <1>13 DEF BranchToEpilogue, Goto, Lost, Follows, ProloguePCs
<1>14. CASE LoadSp(t)
  BY <1>2, <1>14 DEF LoadSp, Goto, Lost, Follows, ProloguePCs
<1>15. CASE StoreRetaddr(t)
  BY <1>2, <1>3, <1>15 DEF StoreRetaddr, Undefined, Goto, Lost, Follows, ProloguePCs
<1>16. CASE StoreSpNext(t)
  BY <1>2, <1>3, <1>4, <1>16 DEF StoreSpNext, Goto, Lost, Follows, ProloguePCs
<1>17. CASE LoadSpCur(t)
  BY <1>2, <1>17 DEF LoadSpCur, Goto, Lost, Follows, ProloguePCs
<1>18. CASE StoreSpDec(t)
  BY <1>2, <1>3, <1>4, <1>18 DEF StoreSpDec, Goto, Lost, Follows, ProloguePCs
<1>19. CASE CompareRa(t)
  BY <1>2, <1>3, <1>19 DEF CompareRa, Undefined, Goto, Lost, Follows, ProloguePCs
<1>20. QED
  BY <1>7, <1>8, <1>9, <1>11, <1>12, <1>13, <1>14, <1>15, <1>16, <1>17, <1>18, <1>19
     DEF Step, Program, Instrumentation

LEMMA UnwindInit == Serial /\ Init => UnwindInv
<1> USE DEF Serial
<1>1. SUFFICES ASSUME Serial, Init PROVE UnwindInv
  OBVIOUS
<1>2. TypeOK /\ Coherent
  BY <1>1, InitCoherent
<1>3. IInv
  BY <1>1, MirrorInit
<1>4. ASSUME NEW t \in Threads
      PROVE  pc[t] = "idle" /\ Stale(t) = 0
  <2>1. Stale(t) = shadow_sp - LogicalSp(t) /\ shadow_sp = LogicalSp(t) /\ shadow_sp \in Int
    BY <1>2, <1>3 DEF IInv, Mirror, Stale, TypeOK
  <2>2. QED
    BY <1>1, <2>1 DEF Init
<1>5. RegisterFollows
  BY <1>4 DEF RegisterFollows
<1>6. QED
  BY <1>2, <1>3, <1>4, <1>5 DEF UnwindInv

LEMMA UnwindStep ==
  ASSUME Serial, NEW t \in Threads, UnwindInv, Step(t)
  PROVE  UnwindInv'
<1> USE DEF Serial
<1>1. Threads = {t}
  BY DEF OneThread
<1>2. /\ TypeOK /\ Coherent /\ RegisterFollows
      /\ Stale(t) \in Nat /\ (Stale(t) = 0 => IInv)
      /\ unwinds = 0 => Stale(t) = 0
  BY DEF UnwindInv
<1>3. TypeOK' /\ Coherent'
  BY <1>2, StepCoherent
<1>4. /\ RegisterFollows' /\ Stale(t)' \in Nat
      /\ Stale(t)' = 0 => Stale(t) = 0
      /\ Stale(t)' = Stale(t) \/ unwinds' > unwinds
  BY <1>2, StaleStep
<1>5. ASSUME Stale(t)' = 0
      PROVE  IInv'
  <2>1. IInv
    BY <1>2, <1>4, <1>5
  <2>2. CASE unwinds' = unwinds
    BY <1>3, <2>1, <2>2, MirrorStep DEF IInv
  <2>3. ASSUME NEW k \in 1 .. MaxDepth, Unwind(t, k)
        PROVE  IInv'
    <3> DEFINE s == frames[t]
               p == SubSeq(s, 1, k)
    <3>1. /\ s \in Seq(Frame) /\ shadow_sp \in Int /\ k \in 1 .. Len(s)
          /\ frames'[t] = p /\ pc[t] = "body" /\ pc'[t] = "body" /\ status = "running"
          /\ UNCHANGED <<shadow_stack, shadow_sp, sp, status>>
      BY <1>2, <2>3 DEF Unwind, TypeOK, Step
    <3>2. Mirrors(s, "body", sp[t], shadow_stack, shadow_sp) /\ Original(s, "body")
      BY <1>1, <2>1, <3>1, OfOneThread DEF IInv
    <3>3. Pushes(p) \in Nat /\ Pushes(s) \in Nat
      BY <3>1, UnwindLoses, PushesBounded
    <3>4. Stale(t) = shadow_sp - Pushes(s) /\ Stale(t)' = shadow_sp - Pushes(p)
      <4> HIDE DEF p
      <4>1. QED
        BY <1>1, <3>1, <3>3, OfLoneThread DEF Lost, ProloguePCs
    <3>5. Pushes(p) = Pushes(s)
      <4> HIDE DEF p
      <4>1. QED
        BY <1>4, <1>5, <3>1, <3>3, <3>4
    <3>6. Mirrors(p, "body", sp[t], shadow_stack, shadow_sp) /\ Original(p, "body")
      BY <3>1, <3>2, <3>5, UnwindLoses
    <3>7. Mirror' /\ PushesOriginal' /\ RightfulReturn' /\ RightfulAbort'
      BY <1>1, <3>1, <3>6, OfOneThreadNext
    <3>8. QED
      BY <1>3, <3>1, <3>7 DEF IInv, InBounds
  <2>4. unwinds' = unwinds \/ \E k \in 1 .. MaxDepth : Unwind(t, k)
    BY DEF Step, Program, Instrumentation, Call, Overwrite, PlainReturn, CheckedReturn, Return,
           BranchToEpilogue, LoadSp, StoreRetaddr, StoreSpNext, LoadSpCur, StoreSpDec,
           CompareRa, Undefined
  <2>5. QED
    BY <2>2, <2>3, <2>4
<1>6. unwinds' = 0 => Stale(t)' = 0
  <2>1. unwinds \in Nat /\ unwinds' \in Nat
    BY <1>2, <1>3 DEF TypeOK
  <2>2. unwinds' = unwinds \/ unwinds' = unwinds + 1
    BY DEF Step, Program, Instrumentation, Call, Overwrite, Unwind, PlainReturn, CheckedReturn,
           Return, BranchToEpilogue, LoadSp, StoreRetaddr, StoreSpNext, LoadSpCur, StoreSpDec,
           CompareRa, Undefined
  <2>3. QED
    BY <1>2, <1>4, <2>1, <2>2
<1>7. QED
  BY <1>1, <1>3, <1>4, <1>5, <1>6 DEF UnwindInv

LEMMA UnwindNext == Serial /\ UnwindInv /\ [Next]_vars => UnwindInv'
<1>1. SUFFICES ASSUME Serial, UnwindInv, [Next]_vars PROVE UnwindInv'
  OBVIOUS
<1>2. CASE \E t \in Threads : Step(t)
  BY <1>1, <1>2, UnwindStep
<1>3. CASE UNCHANGED vars
  BY <1>1, <1>3 DEF UnwindInv, IInv, vars, TypeOK, Coherent, RegisterFollows, Stale, PushesOriginal,
                    InBounds, Mirror, LogicalSp, RightfulAbort, RightfulReturn
<1>4. QED
  BY <1>1, <1>2, <1>3 DEF Next, Stopped

LEMMA UnwindInvariant == ASSUME Serial PROVE Spec => []UnwindInv
<1>1. Init => UnwindInv
  BY UnwindInit
<1>2. UnwindInv /\ [Next]_vars => UnwindInv'
  BY UnwindNext
<1>3. QED
  BY <1>1, <1>2, PTL DEF Spec

\* Nothing is lost before the first unwinding.
LEMMA Undisturbed == Serial /\ UnwindInv /\ unwinds = 0 => IInv
BY DEF Serial, OneThread, UnwindInv

\* While every frame is left by its return, the shadow stack is the mirror of the
\* process stack, for calls of any depth the array has room for.
THEOREM SerialMirrors == ASSUME Serial PROVE Spec => []MirrorsStack
<1>1. UnwindInv => MirrorsStack
  BY Undisturbed DEF IInv, MirrorsStack
<1>2. QED
  BY <1>1, UnwindInvariant, PTL

\* README.md:52: until it unwinds, a program of one thread is aborted only for an
\* address that changed.
THEOREM SerialNoFalseAbort == ASSUME Serial PROVE Spec => []NoFalseAbort
<1>1. UnwindInv => NoFalseAbort
  BY Undisturbed DEF IInv, NoFalseAbort
<1>2. QED
  BY <1>1, UnwindInvariant, PTL

\* Until then its checked functions return to their callers.
THEOREM SerialReturnsToCaller == ASSUME Serial PROVE Spec => []ReturnsToCaller
<1>1. UnwindInv => ReturnsToCaller
  BY Undisturbed DEF IInv, ReturnsToCaller
<1>2. QED
  BY <1>1, UnwindInvariant, PTL

\* However often the program unwinds, a process stops because of a changed address
\* or of a slot that unwinding has left behind.
THEOREM UnwoundAbortsExplained ==
  ASSUME Serial PROVE Spec => []AbortsExplained
<1>1. UnwindInv => AbortsExplained
  <2>1. SUFFICES ASSUME UnwindInv, status # "running", NEW t, Threads = {t}, Stale(t) <= 0
                 PROVE  status = "aborted" /\ Altered(Top(frames[t]))
    BY DEF AbortsExplained, UnwindInv, OneThread, Serial
  <2>2. IInv
    BY <2>1 DEF UnwindInv
  <2>3. QED
    BY <2>1, <2>2 DEF IInv, InBounds, RightfulAbort, TypeOK
<1>2. QED
  BY <1>1, UnwindInvariant, PTL

\* The slots unwinding leaves behind are never given back, and nothing else loses
\* one, whatever the depth.
THEOREM LostForGood == ASSUME OneThread PROVE Spec => StaleOnlyGrows
<1> DEFINE Inv == TypeOK /\ Coherent /\ RegisterFollows
           Grows == \A t \in Threads : Stale(t)' = Stale(t) \/ (Stale(t)' > Stale(t) /\ unwinds' > unwinds)
<1>1. Init => Inv
  <2>1. Init => RegisterFollows
    BY DEF Init, RegisterFollows
  <2>2. QED
    BY <2>1, InitCoherent
<1>2. Inv /\ [Next]_vars => Inv' /\ [Grows]_vars
  <2>1. SUFFICES ASSUME Inv, [Next]_vars PROVE Inv' /\ [Grows]_vars
    OBVIOUS
  <2>2. TypeOK' /\ Coherent'
    BY <2>1, NextCoherent
  <2>3. ASSUME NEW t \in Threads, Step(t)
        PROVE  RegisterFollows' /\ Grows
    <3>1. Threads = {t}
      BY DEF OneThread
    <3>2. QED
      BY <2>1, <2>3, <3>1, StaleStep
  <2>4. ASSUME UNCHANGED vars
        PROVE  RegisterFollows'
    BY <2>1, <2>4 DEF vars, RegisterFollows
  <2> HIDE DEF Grows
  <2>5. QED
    BY <2>1, <2>2, <2>3, <2>4 DEF Next, Stopped
<1>3. QED
  BY <1>1, <1>2, PTL DEF Spec, StaleOnlyGrows

-----------------------------------------------------------------------------
(* The emitted code implements CallGuard: every step is a step of the       *)
(* abstract specification or leaves the process stacks and the status alone.*)

LEMMA StepImplements ==
  ASSUME Serial, UnwindInv, UnwindInv', [Next]_vars
  PROVE  [Guard!GuardNext]_(Guard!guardVars)
<1> USE DEF Guard!guardVars
<1> DEFINE left == unwinds > 0
<1>1. /\ TypeOK /\ TypeOK' /\ Coherent
      /\ unwinds \in Nat /\ unwinds' \in Nat
      /\ ~left => IInv
      /\ unwinds' = 0 => IInv'
  <2>1. TypeOK /\ TypeOK' /\ Coherent /\ unwinds \in Nat /\ unwinds' \in Nat
    BY DEF UnwindInv, TypeOK
  <2>2. unwinds = 0 => IInv
    BY Undisturbed
  <2>3. unwinds' = 0 => IInv'
    BY DEF Serial, OneThread, UnwindInv
  <2>4. QED
    BY <2>1, <2>2, <2>3
<1>2. CASE UNCHANGED vars
  BY <1>2 DEF vars
<1>3. ASSUME NEW t \in Threads, Step(t)
      PROVE  [Guard!GuardNext]_(Guard!guardVars)
  <2>1. status = "running" /\ TypeOK /\ Coherent
    BY <1>3, <1>1 DEF Step
  <2>2. ASSUME NEW f \in Functions, NEW a \in Sites, Call(t, f, a)
        PROVE  Guard!GuardNext
    <3>1. Guard!Enter(t, f, a)
      BY <2>2 DEF Call, Guard!Enter, CallOf, Guard!CallOf
    <3>2. QED
      BY <2>1, <3>1 DEF Guard!GuardNext
  <2>3. ASSUME NEW i \in 1 .. MaxDepth, NEW a \in RetAddrs, Overwrite(t, i, a)
        PROVE  Guard!GuardNext
    <3>1. Guard!Alter(t, i, a)
      BY <2>3 DEF Overwrite, Guard!Alter, OverwriteOf, Guard!OverwriteOf, Overwritable,
                  Guard!Overwritable, Epilogued, Guard!Epilogued, Prologued, Guard!Prologued
    <3>2. QED
      BY <2>1, <3>1 DEF Guard!GuardNext, RetAddrs, Guard!RetAddrs
  <2>4. ASSUME NEW k \in 1 .. MaxDepth, Unwind(t, k)
        PROVE  Guard!GuardNext
    <3>1. Guard!Abandon(t, k)
      BY <1>1, <2>4 DEF Unwind, Guard!Abandon
    <3>2. QED
      BY <2>1, <3>1 DEF Guard!GuardNext
  <2>5. ASSUME pc[t] # "idle", Return(t), Epilogued(Top(frames[t]).fn) => left \/ ~Altered(Top(frames[t]))
        PROVE  Guard!GuardNext
    <3>1. frames[t] # <<>>
      BY <2>1, <2>5, TopInFrame
    <3>2. Guard!GuardedReturn(t)
      BY <2>5, <3>1 DEF Return, Guard!GuardedReturn, Pop, Guard!Pop, Top, Guard!Top, Altered, Guard!Altered,
                        Epilogued, Guard!Epilogued, Prologued, Guard!Prologued
    <3>3. QED
      BY <2>1, <3>2 DEF Guard!GuardNext
  <2>6. CASE PlainReturn(t)
    BY <2>5, <2>6 DEF PlainReturn, Epilogued
  <2>7. CASE CheckedReturn(t)
    BY <1>1, <2>5, <2>7 DEF CheckedReturn, IInv, RightfulReturn
  <2>8. CASE UNCHANGED <<frames, status, unwinds>>
    BY <2>8
  <2>9. CASE Undefined
    <3>1. left
      BY <1>1, <2>9 DEF Undefined, IInv, InBounds
    <3>2. Guard!Harm
      BY <2>9, <3>1 DEF Undefined, Guard!Harm
    <3>3. QED
      BY <2>1, <3>2 DEF Guard!GuardNext
  <2>10. CASE CompareRa(t) /\ status' # status /\ ~Undefined
    <3>1. status' = "aborted" /\ UNCHANGED <<frames, pc, unwinds>> /\ pc[t] = "compare"
      BY <2>10 DEF CompareRa
    <3>2. left \/ Altered(Top(frames[t]))
      BY <1>3, <1>1, <3>1 DEF IInv, RightfulAbort, Serial, OneThread
    <3>3. frames[t] # <<>> /\ Epilogued(Top(frames[t]).fn)
      BY <2>1, <3>1 DEF Coherent, CoherentAt, EpiloguePCs
    <3>4. Guard!GuardedAbort(t)
      BY <3>1, <3>2, <3>3 DEF Guard!GuardedAbort, Top, Guard!Top, Altered, Guard!Altered,
                              Epilogued, Guard!Epilogued, Prologued, Guard!Prologued
    <3>5. QED
      BY <2>1, <3>4 DEF Guard!GuardNext
  <2>11. CASE StoreRetaddr(t)
    BY <2>8, <2>11, <2>9 DEF StoreRetaddr
  <2>12. CASE CompareRa(t) /\ status' = status
    BY <2>8, <2>12, <2>9 DEF CompareRa
  <2>13. QED
    BY <1>3, <2>2, <2>3, <2>4, <2>6, <2>7, <2>8, <2>10, <2>11, <2>12, <2>9
       DEF Step, Program, Instrumentation, BranchToEpilogue, LoadSp, StoreSpNext, LoadSpCur, StoreSpDec
<1>4. QED
  BY <1>2, <1>3 DEF Next, Stopped

\* A program of one thread behaves as CallGuard says, with the shadow stack hidden:
\* for ever, and with the README's promise until it first unwinds.
THEOREM SerialImplementsCallGuard == ASSUME Serial PROVE Spec => ImplementsCallGuard
<1>1. Init => Guard!GuardInit
  BY DEF Init, Guard!GuardInit
<1>2. UnwindInv /\ UnwindInv' /\ [Next]_vars => [Guard!GuardNext]_(Guard!guardVars)
  BY StepImplements
<1>3. Spec => Guard!GuardSpec
  BY <1>1, <1>2, UnwindInvariant, PTL DEF Spec, Guard!GuardSpec
<1>4. QED
  BY <1>3 DEF ImplementsCallGuard
=============================================================================

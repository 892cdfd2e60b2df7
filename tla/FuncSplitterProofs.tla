------------------------- MODULE FuncSplitterProofs --------------------------
(***************************************************************************)
(* What func_splitter.cc does to any module, whatever it picks: when the   *)
(* result is a module at all, and that it then does what the source did.   *)
(* Paths of any length are handled by sets closed under branching: the     *)
(* verifier's word on dominance is such a set, and so is the absence of    *)
(* dead blocks.                                                            *)
(***************************************************************************)
EXTENDS FuncSplitter, FiniteSetTheorems, TLAPS

LEMMA SourceFacts ==
  ASSUME source \in Modules, NEW g \in DOMAIN source
  PROVE  LET B == source[g].blocks
         IN  /\ source \in Seq(FunctionType) /\ Len(source) \in Nat /\ DOMAIN source = 1 .. Len(source)
             /\ B \in Seq(Block) /\ Len(B) \in Nat /\ DOMAIN B = 1 .. Len(B)
             /\ source[g].decl <=> B = <<>>
             /\ \A b \in DOMAIN B :
                  /\ B[b].succs \subseteq 2 .. Len(B) /\ B[b].uses \subseteq 0 .. Len(B)
                  /\ \A v \in B[b].uses : Dominates(B, v, b)
                  /\ B[b].term = "br" => \A x, y \in B[b].succs : x = y
                  /\ B[b].term = "ret" => B[b].succs = {}
                  /\ B[b].incoming \in {{}, Preds(source[g], b)}
<1> DEFINE B == source[g].blocks
<1>1. source \in Seq(FunctionType) /\ SourceFunction(source[g])
  BY SplitterAssumption
<1>2. B \in Seq(Block) /\ (source[g].decl <=> B = <<>>)
  BY <1>1 DEF SourceFunction, FunctionType
<1>3. ASSUME NEW b \in DOMAIN B
      PROVE  /\ B[b].succs \subseteq 2 .. Len(B) /\ B[b].uses \subseteq 0 .. Len(B)
             /\ \A v \in B[b].uses : Dominates(B, v, b)
             /\ B[b].term = "br" => Cardinality(B[b].succs) = 1
             /\ B[b].term = "ret" => B[b].succs = {}
             /\ B[b].incoming \in {{}, Preds(source[g], b)}
  BY <1>1 DEF SourceFunction, Preds
<1>4. ASSUME NEW b \in DOMAIN B, B[b].term = "br"
      PROVE  \A x, y \in B[b].succs : x = y
  <2>1. IsFiniteSet(B[b].succs)
    <3>1. Len(B) \in Int /\ 2 \in Int
      BY <1>2
    <3>2. IsFiniteSet(2 .. Len(B))
      BY <3>1, FS_Interval
    <3>3. QED
      BY <3>2, <1>3, FS_Subset
  <2>2. \E x : B[b].succs = {x}
    BY <2>1, <1>3, <1>4, FS_Singleton
  <2>3. QED
    BY <2>2
<1>5. QED
  BY <1>1, <1>2, <1>3, <1>4

\* A sequence one longer.
LEMMA AppendIs ==
  ASSUME NEW n \in Nat, NEW s, s = [i \in 1 .. n |-> s[i]], NEW e
  PROVE  LET a == Append(s, e)
         IN  /\ DOMAIN a = 1 .. n + 1 /\ Len(a) = n + 1 /\ a[n + 1] = e
             /\ \A i \in 1 .. n : a[i] = s[i]
<1> DEFINE S == {s[i] : i \in 1 .. n} \cup {e}
<1>1. s \in [1 .. n -> S]
  OBVIOUS
<1>2. s \in Seq(S) /\ Len(s) = n /\ e \in S
  BY <1>1
<1> HIDE DEF S
<1>3. QED
  BY <1>2

LEMMA AppendSeq ==
  ASSUME NEW S, NEW s \in Seq(S), NEW e \in S
  PROVE  LET a == Append(s, e)
         IN  /\ a \in Seq(S) /\ Len(a) = Len(s) + 1 /\ DOMAIN a = 1 .. Len(s) + 1
             /\ a[Len(s) + 1] = e /\ \A i \in 1 .. Len(s) : a[i] = s[i]
OBVIOUS

-----------------------------------------------------------------------------
BaseInv == ModuleInv /\ FramesInv

LEMMA BaseInit == Init => BaseInv
<1>1. SUFFICES ASSUME Init PROVE BaseInv
  OBVIOUS
<1>2. /\ source \in Modules /\ todo \subseteq DOMAIN source /\ pc = "choose" /\ cut = <<>> /\ frames = <<>>
      /\ body = [g \in DOMAIN source |-> CodeOf(source[g])]
  BY <1>1 DEF Init
<1>3. source \in Seq(FunctionType) /\ Len(source) \in Nat /\ DOMAIN source = 1 .. Len(source)
  BY <1>2, SplitterAssumption
<1>4. DOMAIN body = 1 .. Len(source) /\ Len(body) = Len(source)
  BY <1>2, <1>3
<1>5. ASSUME NEW g \in DOMAIN source
      PROVE  /\ body[g].entry = 1 /\ body[g].params = {0} /\ DOMAIN body[g].blocks = Kept(g)
             /\ \A b \in Kept(g) :
                  /\ ~CutAt(g)
                  /\ body[g].blocks[b] = Copied(source[g], b)
  BY <1>2 DEF CodeOf, Kept, CutAt
<1>6. ModuleInv
  <2>1. Len(body) = Len(source) + (IF cut = <<>> THEN 0 ELSE 1)
    BY <1>2, <1>3, <1>4
  <2>2. QED
    BY <1>2, <1>3, <1>4, <1>5, <2>1 DEF ModuleInv
<1>7. frames \in Seq(FrameType) /\ Len(frames) <= 1 /\ DOMAIN frames = {}
  BY <1>2
<1>8. QED
  BY <1>2, <1>6, <1>7 DEF BaseInv, FramesInv

\* The blocks SplitBB is one of have one predecessor, which ends in a br.
LEMMA SplitBlock ==
  ASSUME source \in Modules, NEW f \in DOMAIN source, NEW s \in findSplitBlock(source[f])
  PROVE  LET F == source[f]
             p == CHOOSE q \in Preds(F, s) : TRUE
         IN  s \in 2 .. Len(F.blocks) /\ p \in DOMAIN F.blocks /\ Preds(F, s) = {p} /\ F.blocks[p].term = "br"
<1> DEFINE F == source[f]
<1>1. PICK p \in DOMAIN F.blocks : Preds(F, s) = {p} /\ F.blocks[p].term = "br"
  BY DEF findSplitBlock
<1>2. (CHOOSE q \in Preds(F, s) : TRUE) = p
  BY <1>1
<1>3. QED
  BY <1>1, <1>2 DEF findSplitBlock

LEMMA SplitStep ==
  ASSUME BaseInv, NEW f \in todo, NEW s \in DOMAIN source[f].blocks,
         NEW entry \in s .. Len(source[f].blocks), Split(f, s, entry)
  PROVE  BaseInv'
<1> DEFINE F == source[f]
           N == Len(source)
           p == CHOOSE q \in Preds(F, s) : TRUE
           ext == extractBlocks(F, s)
           rem == Remainder(CodeOf(F), ext, p)
           new == Extracted(CodeOf(F), ext, entry, liveIns(F, ext))
           kept == [body EXCEPT ![f] = rem]
<1>1. /\ source \in Modules /\ todo \subseteq DOMAIN source /\ pc = "choose" /\ cut = <<>> /\ frames = <<>>
      /\ body = [g \in DOMAIN source |-> CodeOf(source[g])]
  BY DEF BaseInv, ModuleInv, Split
<1>2. f \in DOMAIN source /\ N \in Nat /\ DOMAIN source = 1 .. N /\ Len(F.blocks) \in Nat /\ DOMAIN F.blocks = 1 .. Len(F.blocks)
  BY <1>1, SourceFacts
<1>3. /\ s \in 2 .. Len(F.blocks) /\ p \in DOMAIN F.blocks /\ Preds(F, s) = {p} /\ F.blocks[p].term = "br"
  <2>1. s \in findSplitBlock(source[f])
    BY DEF Split
  <2>2. QED
    BY <1>1, <1>2, <2>1, SplitBlock
<1>4. /\ source' = source /\ frames' = frames /\ todo' = {} /\ pc' = "run" /\ cut' = <<f, s, p>>
      /\ body' = Append(kept, new) /\ entry \in ext
  <2>1. body[f] = CodeOf(F)
    BY <1>1, <1>2
  <2>2. Rewritten(f, s, entry)
    BY DEF Split
  <2>3. body' = Append([body EXCEPT ![f] = Remainder(body[f], ext, p)], Extracted(body[f], ext, entry, liveIns(F, ext)))
    BY <2>2 DEF Rewritten
  <2>4. QED
    BY <2>1, <2>2, <2>3 DEF Split, Rewritten
<1>5. /\ DOMAIN body' = 1 .. N + 1 /\ Len(body') = N + 1 /\ body'[N + 1] = new
      /\ \A g \in DOMAIN source : body'[g] = IF g = f THEN rem ELSE CodeOf(source[g])
  <2> HIDE DEF rem
  <2>1. kept = [g \in 1 .. N |-> kept[g]]
    <3>1. kept = [g \in 1 .. N |-> IF g = f THEN rem ELSE CodeOf(source[g])]
      BY <1>1, <1>2
    <3> HIDE DEF kept
    <3>2. QED
      BY <3>1
  <2>2. \A g \in 1 .. N : kept[g] = IF g = f THEN rem ELSE CodeOf(source[g])
    BY <1>1, <1>2
  <2> HIDE DEF kept, new
  <2>3. LET a == Append(kept, new)
        IN  /\ DOMAIN a = 1 .. N + 1 /\ Len(a) = N + 1 /\ a[N + 1] = new
            /\ \A i \in 1 .. N : a[i] = kept[i]
    BY <1>2, <2>1, AppendIs
  <2>4. QED
    BY <1>2, <1>4, <2>2, <2>3
<1>6. ext \subseteq DOMAIN F.blocks /\ DOMAIN F.blocks \ ext = 1 .. s - 1
  BY <1>2, <1>3 DEF extractBlocks
<1>7. /\ rem.entry = 1 /\ rem.params = {0} /\ DOMAIN rem.blocks = 1 .. s - 1
      /\ \A b \in 1 .. s - 1 :
           rem.blocks[b] =
             IF b = p THEN [Copied(F, b) EXCEPT !.call = TRUE, !.term = "ret", !.succs = {}]
                      ELSE Copied(F, b)
  <2> HIDE DEF ext, p
  <2>1. /\ CodeOf(F).entry = 1 /\ CodeOf(F).params = {0} /\ DOMAIN CodeOf(F).blocks = DOMAIN F.blocks
        /\ \A b \in DOMAIN F.blocks : CodeOf(F).blocks[b] = Copied(F, b)
        /\ DOMAIN CodeOf(F) = {"blocks", "entry", "params"}
    BY DEF CodeOf
  <2>2. /\ rem.entry = 1 /\ rem.params = {0}
        /\ rem.blocks = [b \in DOMAIN CodeOf(F).blocks \ ext |->
              IF b = p THEN [CodeOf(F).blocks[b] EXCEPT !.call = TRUE, !.term = "ret", !.succs = {}]
                       ELSE CodeOf(F).blocks[b]]
    BY <2>1 DEF Remainder
  <2>3. QED
    BY <1>6, <2>1, <2>2
<1>8. /\ new.entry = entry /\ new.params = liveIns(F, ext) /\ DOMAIN new.blocks = ext
      /\ \A b \in ext : new.blocks[b] = Copied(F, b)
  BY <1>6 DEF Extracted, CodeOf
<1> HIDE DEF rem, new, kept, ext, p
<1>9. cut' # <<>> /\ cut'[1] = f /\ cut'[2] = s /\ cut'[3] = p
  BY <1>4
<1>10. CutInv'
  <2>1. body'[Len(body')] = new
    BY <1>5
  <2>2. F' = F
    BY <1>4
  <2>3. extractBlocks(F, cut'[2]) = ext
    BY <1>9 DEF ext
  <2>4. QED
    BY <1>2, <1>3, <1>4, <1>8, <1>9, <2>1, <2>2, <2>3 DEF CutInv
<1>11. ASSUME NEW g \in DOMAIN source
       PROVE  /\ body'[g].entry = 1 /\ body'[g].params = {0} /\ DOMAIN body'[g].blocks = Kept(g)'
              /\ \A b \in Kept(g)' :
                   body'[g].blocks[b] =
                     IF CutAt(g)' /\ b = cut'[3]
                       THEN [Copied(source'[g], b) EXCEPT !.call = TRUE, !.term = "ret", !.succs = {}]
                       ELSE Copied(source'[g], b)
  <2>1. CASE g = f
    <3>1. CutAt(g)' /\ Kept(g)' = 1 .. s - 1
      BY <1>9, <2>1 DEF CutAt, Kept
    <3>2. body'[g] = rem /\ source'[g] = F
      BY <1>4, <1>5, <2>1
    <3>3. CutAt(g)' /\ Kept(g)' = 1 .. s - 1 /\ cut'[3] = p
      BY <1>9, <3>1
    <3>4. QED
      BY <1>7, <3>2, <3>3
  <2>2. CASE g # f
    <3>1. ~CutAt(g)' /\ Kept(g)' = DOMAIN source[g].blocks
      BY <1>4, <1>9, <2>2 DEF CutAt, Kept
    <3>2. body'[g] = CodeOf(source[g]) /\ source'[g] = source[g]
      BY <1>4, <1>5, <2>2
    <3>3. QED
      BY <3>1, <3>2 DEF CodeOf
  <2>3. QED
    BY <2>1, <2>2
<1>12. ModuleInv'
  <2>1. Len(body') = Len(source') + (IF cut' = <<>> THEN 0 ELSE 1) /\ DOMAIN body' = 1 .. Len(body')
    BY <1>4, <1>5, <1>9
  <2>2. QED
    BY <1>1, <1>4, <1>9, <1>10, <1>11, <2>1 DEF ModuleInv
<1>13. FramesInv'
  BY <1>1, <1>4 DEF FramesInv
<1>14. QED
  BY <1>12, <1>13 DEF BaseInv
-----------------------------------------------------------------------------
LEMMA Sizes ==
  ASSUME ModuleInv
  PROVE  /\ source \in Modules /\ Len(source) \in Nat /\ DOMAIN source = 1 .. Len(source)
         /\ Len(body) \in Nat /\ DOMAIN body = 1 .. Len(body) /\ DOMAIN source \subseteq DOMAIN body
         /\ cut = <<>> => DOMAIN body = DOMAIN source
         /\ cut # <<>> => Len(body) \in DOMAIN body /\ DOMAIN body \ DOMAIN source = {Len(body)}
<1>1. source \in Modules /\ DOMAIN body = 1 .. Len(body) /\ Len(body) = Len(source) + (IF cut = <<>> THEN 0 ELSE 1)
  BY DEF ModuleInv
<1>2. source \in Seq(FunctionType)
  BY <1>1, SplitterAssumption
<1>3. Len(source) \in Nat /\ DOMAIN source = 1 .. Len(source)
  BY <1>2
<1>4. CASE cut = <<>>
  BY <1>1, <1>3, <1>4
<1>5. CASE cut # <<>>
  <2>1. Len(body) = Len(source) + 1
    BY <1>1, <1>5
  <2> DEFINE N == Len(source)
             L == Len(body)
  <2> HIDE DEF N, L
  <2>2. N \in Nat /\ DOMAIN source = 1 .. N /\ DOMAIN body = 1 .. L /\ L = N + 1
    BY <1>1, <1>3, <2>1 DEF N, L
  <2>3. L \in Nat /\ 1 .. N \subseteq 1 .. L /\ (1 .. L) \ (1 .. N) = {L} /\ L \in 1 .. L
    BY <2>2
  <2>4. QED
    BY <1>1, <1>3, <1>5, <2>2, <2>3 DEF N, L
<1>6. QED
  BY <1>4, <1>5

\* A block of the module now, and the source's block it is: the same but for the
\* call in PredBB.
LEMMA BlockFacts ==
  ASSUME ModuleInv, NEW fn \in DOMAIN body, NEW b \in DOMAIN body[fn].blocks
  PROVE  LET o == IF fn \in DOMAIN source THEN fn ELSE cut[1]
             c == body[fn].blocks[b]
         IN  /\ o \in DOMAIN source /\ b \in DOMAIN source[o].blocks /\ b \in Nat
             /\ fn \notin DOMAIN source => cut # <<>> /\ fn = Len(body) /\ b \in extractBlocks(source[o], cut[2])
             /\ c.call <=> fn \in DOMAIN source /\ CutAt(fn) /\ b = cut[3]
             /\ c.uses = source[o].blocks[b].uses /\ c.incoming = source[o].blocks[b].incoming
             /\ c.call => c.succs = {} /\ c.term = "ret"
             /\ ~c.call => c.succs = source[o].blocks[b].succs /\ c.term = source[o].blocks[b].term
<1> DEFINE o == IF fn \in DOMAIN source THEN fn ELSE cut[1]
           c == body[fn].blocks[b]
<1>1. source \in Modules
  BY DEF ModuleInv
<1>3. CASE fn \in DOMAIN source
  <2>1. b \in Kept(fn) /\ c = IF CutAt(fn) /\ b = cut[3]
                                THEN [Copied(source[fn], b) EXCEPT !.call = TRUE, !.term = "ret", !.succs = {}]
                                ELSE Copied(source[fn], b)
    BY <1>3 DEF ModuleInv
  <2>2. DOMAIN source[fn].blocks = 1 .. Len(source[fn].blocks) /\ Len(source[fn].blocks) \in Nat
    BY <1>1, <1>3, SourceFacts
  <2>3. CutAt(fn) => cut[2] \in 2 .. Len(source[fn].blocks)
    BY DEF ModuleInv, CutInv, CutAt
  <2>4. b \in DOMAIN source[fn].blocks /\ b \in Nat
    BY <2>1, <2>2, <2>3 DEF Kept
  <2>5. CASE CutAt(fn) /\ b = cut[3]
    BY <1>3, <2>1, <2>4, <2>5 DEF Copied
  <2>6. CASE ~(CutAt(fn) /\ b = cut[3])
    BY <1>3, <2>1, <2>4, <2>6 DEF Copied
  <2>7. QED
    BY <2>5, <2>6
<1>4. CASE fn \notin DOMAIN source
  <2>1. cut # <<>> /\ fn = Len(body)
    BY <1>4, Sizes
  <2>2. /\ cut[1] \in DOMAIN source /\ cut[2] \in 2 .. Len(source[cut[1]].blocks)
        /\ b \in extractBlocks(source[cut[1]], cut[2])
        /\ c = Copied(source[cut[1]], b)
    BY <2>1 DEF ModuleInv, CutInv
  <2>3. Len(source[cut[1]].blocks) \in Nat /\ DOMAIN source[cut[1]].blocks = 1 .. Len(source[cut[1]].blocks)
    BY <1>1, <2>2, SourceFacts
  <2>4. b \in DOMAIN source[cut[1]].blocks /\ b \in Nat
    BY <2>2, <2>3 DEF extractBlocks
  <2>5. QED
    BY <1>4, <2>1, <2>2, <2>4 DEF Copied
<1>5. QED
  BY <1>3, <1>4

LEMMA TopFacts ==
  ASSUME BaseInv, frames # <<>>
  PROVE  /\ Running /\ Len(frames) \in {1, 2} /\ DOMAIN frames = 1 .. Len(frames)
         /\ TopFrame \in FrameType /\ FrameInv(TopFrame)
         /\ frames[1] \in FrameType /\ FrameInv(frames[1])
         /\ Len(frames) = 1 => TopFrame.fn \in DOMAIN source
         /\ Len(frames) = 2 => /\ cut # <<>> /\ TopFrame.fn = Len(body) /\ TopFrame.fn \notin DOMAIN source
                               /\ frames[1].fn = cut[1] /\ frames[1].at = cut[3] /\ ~frames[1].returned
                               /\ ~Here.call
<1>1. /\ ModuleInv /\ frames \in Seq(FrameType) /\ Running
      /\ \A i \in DOMAIN frames : FrameInv(frames[i])
      /\ \/ Len(frames) <= 1 /\ \A i \in DOMAIN frames : frames[i].fn \in DOMAIN source
         \/ /\ Len(frames) = 2 /\ cut # <<>>
            /\ frames[1].fn = cut[1] /\ frames[1].at = cut[3] /\ ~frames[1].returned
            /\ frames[2].fn = Len(body)
  BY DEF BaseInv, FramesInv
<1>2. Len(frames) \in {1, 2} /\ DOMAIN frames = 1 .. Len(frames) /\ Len(frames) \in DOMAIN frames /\ 1 \in DOMAIN frames
  <2>1. frames \in Seq(FrameType) /\ Len(frames) <= 2
    BY <1>1
  <2>2. Len(frames) \in Nat /\ Len(frames) # 0 /\ DOMAIN frames = 1 .. Len(frames)
    BY <2>1
  <2>3. QED
    BY <2>1, <2>2
<1>3. /\ TopFrame \in FrameType /\ FrameInv(TopFrame)
      /\ frames[1] \in FrameType /\ FrameInv(frames[1])
  BY <1>1, <1>2 DEF TopFrame
<1>4. ASSUME Len(frames) = 2 PROVE TopFrame.fn = Len(body) /\ TopFrame.fn \notin DOMAIN source /\ cut # <<>> /\ ~Here.call
  <2>1. TopFrame.fn = Len(body) /\ cut # <<>>
    BY <1>1, <1>4 DEF TopFrame
  <2>2. TopFrame.fn \notin DOMAIN source
    BY <1>1, <2>1, Sizes
  <2>3. ~Here.call
    <3>1. TopFrame.fn \in DOMAIN body /\ TopFrame.at \in DOMAIN body[TopFrame.fn].blocks
      BY <1>3 DEF FrameInv
    <3>2. QED
      BY <1>1, <2>2, <3>1, BlockFacts DEF Here
  <2>4. QED
    BY <2>1, <2>2, <2>3
<1>5. QED
  BY <1>1, <1>2, <1>3, <1>4 DEF TopFrame

\* The frame at the top, and the source's block it is at.
LEMMA HereFacts ==
  ASSUME BaseInv, frames # <<>>
  PROVE  LET orig == source[Origin(TopFrame)].blocks[TopFrame.at]
         IN  /\ Origin(TopFrame) \in DOMAIN source
             /\ TopFrame.at \in DOMAIN source[Origin(TopFrame)].blocks
             /\ Here.uses = orig.uses
             /\ Here.call => /\ Len(frames) = 1 /\ cut # <<>> /\ TopFrame.fn = cut[1] /\ TopFrame.at = cut[3]
                             /\ TopFrame.fn \in DOMAIN source /\ Here.succs = {} /\ Here.term = "ret"
             /\ ~Here.call => Here.succs = orig.succs /\ Here.term = orig.term
             /\ TopFrame.returned => Here.call
<1>1. /\ ModuleInv /\ TopFrame.fn \in DOMAIN body /\ TopFrame.at \in DOMAIN body[TopFrame.fn].blocks
      /\ TopFrame.returned => Here.call
  BY TopFacts DEF BaseInv, FrameInv, Here
<1>2. Origin(TopFrame) = IF TopFrame.fn \in DOMAIN source THEN TopFrame.fn ELSE cut[1]
  BY DEF Origin
<1>3. Here.call => /\ TopFrame.fn \in DOMAIN source /\ CutAt(TopFrame.fn) /\ TopFrame.at = cut[3]
                   /\ Here.succs = {} /\ Here.term = "ret"
  BY <1>1, BlockFacts DEF Here
<1>4. Here.call => Len(frames) = 1
  BY TopFacts
<1> DEFINE orig == source[Origin(TopFrame)].blocks[TopFrame.at]
<1>5. /\ Origin(TopFrame) \in DOMAIN source
      /\ TopFrame.at \in DOMAIN source[Origin(TopFrame)].blocks
      /\ Here.uses = orig.uses
      /\ ~Here.call => Here.succs = orig.succs /\ Here.term = orig.term
  <2> DEFINE fn == TopFrame.fn
             b == TopFrame.at
             o == IF fn \in DOMAIN source THEN fn ELSE cut[1]
  <2>1. ModuleInv /\ fn \in DOMAIN body /\ b \in DOMAIN body[fn].blocks
    BY <1>1
  <2>2. Origin(TopFrame) = o /\ Here = body[fn].blocks[b]
    BY <1>2 DEF Here
  <2> HIDE DEF fn, b
  <2>3. /\ o \in DOMAIN source /\ b \in DOMAIN source[o].blocks
        /\ body[fn].blocks[b].uses = source[o].blocks[b].uses
        /\ ~body[fn].blocks[b].call =>
             /\ body[fn].blocks[b].succs = source[o].blocks[b].succs
             /\ body[fn].blocks[b].term = source[o].blocks[b].term
    BY <2>1, BlockFacts
  <2> HIDE DEF o
  <2>4. QED
    BY <2>2, <2>3 DEF b
<1>6. Here.call => cut # <<>> /\ TopFrame.fn = cut[1]
  BY <1>3 DEF CutAt
<1>7. QED
  BY <1>1, <1>3, <1>4, <1>5, <1>6
-----------------------------------------------------------------------------
\* A step of the running module.
LEMMA FramesStep ==
  ASSUME BaseInv, Running, UNCHANGED <<source, pc, todo, body, cut>>,
         frames' \in Seq(FrameType), \A i \in DOMAIN frames' : FrameInv(frames'[i]),
         \/ Len(frames') <= 1 /\ \A i \in DOMAIN frames' : frames'[i].fn \in DOMAIN source
         \/ /\ Len(frames') = 2 /\ cut # <<>>
            /\ frames'[1].fn = cut[1] /\ frames'[1].at = cut[3] /\ ~frames'[1].returned
            /\ frames'[2].fn = Len(body)
  PROVE  BaseInv'
<1>1. source' = source /\ pc' = pc /\ todo' = todo /\ body' = body /\ cut' = cut /\ pc = "run"
  BY DEF Running
<1>2. ModuleInv'
  <2>1. \A g : Kept(g)' = Kept(g) /\ CutAt(g)' = CutAt(g)
    BY <1>1 DEF Kept, CutAt
  <2>2. CutInv' = CutInv
    BY <1>1 DEF CutInv
  <2>3. ASSUME NEW g \in DOMAIN source'
        PROVE  /\ body'[g].entry = 1 /\ body'[g].params = {0} /\ DOMAIN body'[g].blocks = Kept(g)'
               /\ \A b \in Kept(g)' :
                    body'[g].blocks[b] =
                      IF CutAt(g)' /\ b = cut'[3]
                        THEN [Copied(source'[g], b) EXCEPT !.call = TRUE, !.term = "ret", !.succs = {}]
                        ELSE Copied(source'[g], b)
    <3>1. g \in DOMAIN source /\ body'[g] = body[g] /\ source'[g] = source[g] /\ cut'[3] = cut[3]
      BY <1>1, <2>3
    <3>2. /\ body[g].entry = 1 /\ body[g].params = {0} /\ DOMAIN body[g].blocks = Kept(g)
          /\ \A b \in Kept(g) :
               body[g].blocks[b] =
                 IF CutAt(g) /\ b = cut[3]
                   THEN [Copied(source[g], b) EXCEPT !.call = TRUE, !.term = "ret", !.succs = {}]
                   ELSE Copied(source[g], b)
      BY <3>1 DEF BaseInv, ModuleInv
    <3>3. Kept(g)' = Kept(g) /\ CutAt(g)' = CutAt(g)
      BY <2>1
    <3>4. QED
      BY <3>1, <3>2, <3>3
  <2>4. /\ source' \in Modules /\ todo' \subseteq DOMAIN source' /\ pc' = "run"
        /\ DOMAIN body' = 1 .. Len(body') /\ Len(body') = Len(source') + (IF cut' = <<>> THEN 0 ELSE 1)
        /\ cut' = <<>> => body' = [g \in DOMAIN source' |-> CodeOf(source'[g])]
    BY <1>1 DEF BaseInv, ModuleInv
  <2>5. cut' # <<>> => CutInv'
    BY <1>1, <2>2 DEF BaseInv, ModuleInv
  <2>6. QED
    BY <2>3, <2>4, <2>5 DEF ModuleInv
<1>3. Running'
  BY <1>1 DEF Running, Accepted
<1>4. ASSUME NEW i \in DOMAIN frames' PROVE FrameInv(frames[i])'
  BY <1>1 DEF FrameInv
<1>5. FramesInv'
  BY <1>1, <1>3, <1>4 DEF FramesInv
<1>6. QED
  BY <1>2, <1>5 DEF BaseInv

LEMMA EnterStep ==
  ASSUME BaseInv, NEW g \in DOMAIN source, Enter(g)
  PROVE  BaseInv'
<1>1. ModuleInv /\ Running /\ ~source[g].decl /\ frames' = <<Frame(g)>> /\ UNCHANGED <<source, pc, todo, body, cut>>
  BY DEF BaseInv, Enter
<1>2. body[g].entry = 1 /\ body[g].params = {0} /\ DOMAIN body[g].blocks = Kept(g)
  BY <1>1 DEF ModuleInv
<1>3. source \in Modules /\ source[g].blocks # <<>> /\ source[g].blocks \in Seq(Block) /\ Len(source) \in Nat
  BY <1>1, SourceFacts DEF ModuleInv
<1>4. 1 \in Kept(g)
  <2>1. CASE CutAt(g)
    <3>1. cut[2] \in 2 .. Len(source[g].blocks)
      BY <1>1, <2>1 DEF ModuleInv, CutInv, CutAt
    <3>2. QED
      BY <1>3, <2>1, <3>1 DEF Kept
  <2>2. CASE ~CutAt(g)
    BY <1>3, <2>2 DEF Kept
  <2>3. QED
    BY <2>1, <2>2
<1>5. g \in DOMAIN body /\ g \in Nat
  <2>1. DOMAIN source \subseteq DOMAIN body /\ DOMAIN source = 1 .. Len(source) /\ Len(source) \in Nat
    BY <1>1, Sizes
  <2>2. QED
    BY <2>1
<1>6. Frame(g) \in FrameType /\ FrameInv(Frame(g)) /\ Frame(g).fn = g
  BY <1>2, <1>4, <1>5 DEF Frame, FrameType, FrameInv
<1>7. frames' \in Seq(FrameType) /\ Len(frames') = 1 /\ DOMAIN frames' = {1} /\ frames'[1] = Frame(g)
  BY <1>1, <1>6
<1>8. QED
  BY <1>1, <1>6, <1>7, FramesStep

LEMMA CallStep ==
  ASSUME BaseInv, CallSplit
  PROVE  BaseInv'
<1>1. ModuleInv /\ Running /\ frames # <<>> /\ Here.call /\ ~TopFrame.returned /\ UNCHANGED <<source, pc, todo, body, cut>>
      /\ frames' = Append(frames, Frame(Len(body))) /\ frames \in Seq(FrameType)
      /\ \A i \in DOMAIN frames : FrameInv(frames[i])
  BY DEF BaseInv, FramesInv, CallSplit
<1>2. Len(frames) = 1 /\ cut # <<>> /\ TopFrame.fn = cut[1] /\ TopFrame.at = cut[3] /\ TopFrame = frames[1]
  BY <1>1, HereFacts DEF TopFrame
<1> DEFINE new == body[Len(body)]
           F == source[cut[1]]
           ext == extractBlocks(F, cut[2])
<1>3. /\ new.entry \in ext /\ DOMAIN new.blocks = ext /\ new.params = liveIns(F, ext)
      /\ cut[1] \in DOMAIN source /\ cut[2] \in 2 .. Len(F.blocks) /\ source \in Modules
  BY <1>1, <1>2 DEF ModuleInv, CutInv
<1>4. /\ Len(F.blocks) \in Nat /\ DOMAIN F.blocks = 1 .. Len(F.blocks) /\ Len(source) \in Nat
      /\ \A b \in DOMAIN F.blocks : F.blocks[b].uses \subseteq 0 .. Len(F.blocks)
  BY <1>3, SourceFacts
<1>5. Len(body) \in DOMAIN body /\ Len(body) \in Nat
  BY <1>1, <1>2, Sizes
<1>6. new.params \subseteq Nat /\ new.entry \in Nat
  <2>1. ext \subseteq DOMAIN F.blocks
    BY <1>3, <1>4 DEF extractBlocks
  <2>2. liveIns(F, ext) \subseteq 0 .. Len(F.blocks)
    BY <1>4, <2>1 DEF liveIns
  <2>3. QED
    BY <1>3, <1>4, <2>1, <2>2
<1>7. Frame(Len(body)) \in FrameType /\ FrameInv(Frame(Len(body))) /\ Frame(Len(body)).fn = Len(body)
  BY <1>3, <1>5, <1>6 DEF Frame, FrameType, FrameInv
<1>8. /\ frames' \in Seq(FrameType) /\ Len(frames') = 2 /\ DOMAIN frames' = {1, 2}
      /\ frames'[1] = TopFrame /\ frames'[2] = Frame(Len(body))
  <2>1. Frame(Len(body)) \in FrameType
    BY <1>7
  <2>2. /\ frames' \in Seq(FrameType) /\ Len(frames') = Len(frames) + 1 /\ DOMAIN frames' = 1 .. Len(frames) + 1
        /\ frames'[Len(frames) + 1] = Frame(Len(body)) /\ frames'[1] = frames[1]
    <3> DEFINE new1 == Frame(Len(body))
    <3> HIDE DEF new1
    <3>1. new1 \in FrameType /\ frames' = Append(frames, new1) /\ frames \in Seq(FrameType) /\ Len(frames) = 1
      BY <1>1, <1>2, <2>1 DEF new1
    <3>2. /\ frames' \in Seq(FrameType) /\ Len(frames') = Len(frames) + 1 /\ DOMAIN frames' = 1 .. Len(frames) + 1
          /\ frames'[Len(frames) + 1] = new1 /\ frames'[1] = frames[1]
      <4>1. LET a == Append(frames, new1)
            IN  /\ a \in Seq(FrameType) /\ Len(a) = Len(frames) + 1 /\ DOMAIN a = 1 .. Len(frames) + 1
                /\ a[Len(frames) + 1] = new1 /\ \A i \in 1 .. Len(frames) : a[i] = frames[i]
        <5>1. new1 \in FrameType /\ frames \in Seq(FrameType)
          BY <3>1
        <5>2. QED
          BY <5>1, AppendSeq
      <4>2. 1 \in 1 .. Len(frames)
        BY <3>1
      <4>3. QED
        BY <3>1, <4>1, <4>2
    <3>3. QED
      BY <3>2 DEF new1
  <2>3. Len(frames) + 1 = 2 /\ 1 .. 2 = {1, 2}
    BY <1>2
  <2>4. QED
    BY <1>2, <2>2, <2>3
<1>9. \A i \in DOMAIN frames' : FrameInv(frames'[i])
  BY <1>1, <1>7, <1>8, TopFacts
<1>10. QED
  BY <1>1, <1>2, <1>7, <1>8, <1>9, FramesStep

\* The frame at the top goes on in the same function.
LEMMA TopStep ==
  ASSUME BaseInv, frames # <<>>, UNCHANGED <<source, pc, todo, body, cut>>,
         NEW fr \in FrameType, FrameInv(fr), fr.fn = TopFrame.fn, frames' = SetTop(fr)
  PROVE  /\ BaseInv'
         /\ Len(frames') = Len(frames) /\ frames'[Len(frames)] = fr
         /\ \A i \in DOMAIN frames : i # Len(frames) => frames'[i] = frames[i]
<1>1. frames \in Seq(FrameType) /\ \A i \in DOMAIN frames : FrameInv(frames[i])
  BY DEF BaseInv, FramesInv
<1>2. Running /\ Len(frames) \in {1, 2} /\ DOMAIN frames = 1 .. Len(frames)
  BY TopFacts
<1>3. /\ frames' \in Seq(FrameType) /\ Len(frames') = Len(frames) /\ DOMAIN frames' = DOMAIN frames
      /\ frames'[Len(frames)] = fr /\ \A i \in DOMAIN frames : i # Len(frames) => frames'[i] = frames[i]
  BY <1>1, <1>2 DEF SetTop
<1>4. \A i \in DOMAIN frames' : FrameInv(frames'[i])
  BY <1>1, <1>3
<1>5. CASE Len(frames) = 1
  <2>1. DOMAIN frames' = {1} /\ frames'[1] = fr /\ fr.fn \in DOMAIN source
    BY <1>2, <1>3, <1>5, TopFacts
  <2>2. QED
    BY <1>2, <1>3, <1>4, <1>5, <2>1, FramesStep
<1>6. CASE Len(frames) = 2
  <2>1. 1 \in DOMAIN frames /\ 1 # Len(frames) /\ frames'[1] = frames[1] /\ frames'[2] = fr
    BY <1>2, <1>3, <1>6
  <2>2. /\ cut # <<>> /\ fr.fn = Len(body)
        /\ frames[1].fn = cut[1] /\ frames[1].at = cut[3] /\ ~frames[1].returned
    BY <1>6, TopFacts
  <2>3. QED
    BY <1>2, <1>3, <1>4, <1>6, <2>1, <2>2, FramesStep
<1>7. QED
  BY <1>2, <1>3, <1>5, <1>6

LEMMA BranchStep ==
  ASSUME BaseInv, frames # <<>>, NEW n \in Here.succs, Branch(n)
  PROVE  LET fr == [TopFrame EXCEPT !.at = n, !.have = @ \cup {TopFrame.at}, !.returned = FALSE]
         IN  /\ BaseInv' /\ fr \in FrameType
             /\ Len(frames') = Len(frames) /\ frames'[Len(frames)] = fr
             /\ \A i \in DOMAIN frames : i # Len(frames) => frames'[i] = frames[i]
<1> DEFINE fr == [TopFrame EXCEPT !.at = n, !.have = @ \cup {TopFrame.at}, !.returned = FALSE]
<1>1. /\ ModuleInv /\ Accepted /\ TopFrame \in FrameType /\ FrameInv(TopFrame)
  BY TopFacts DEF BaseInv, Running
<1>2. frames' = SetTop(fr) /\ UNCHANGED <<source, pc, todo, body, cut>>
  BY DEF Branch
<1>3. n \in DOMAIN body[TopFrame.fn].blocks
  <2>1. Verified(body[TopFrame.fn]) /\ TopFrame.at \in DOMAIN body[TopFrame.fn].blocks
    BY <1>1 DEF Accepted, FrameInv
  <2>2. QED
    BY <2>1 DEF Verified, Here
<1>4. n \in Nat
  BY <1>1, <1>3, BlockFacts DEF FrameInv
<1>5. fr \in FrameType
  BY <1>1, <1>4 DEF FrameType
<1>6. /\ fr.fn = TopFrame.fn /\ fr.at = n /\ fr.have = TopFrame.have \cup {TopFrame.at} /\ fr.returned = FALSE
  BY <1>1 DEF FrameType
<1>7. FrameInv(fr)
  BY <1>1, <1>3, <1>6 DEF FrameInv
<1> HIDE DEF fr
<1>8. /\ BaseInv' /\ Len(frames') = Len(frames) /\ frames'[Len(frames)] = fr
      /\ \A i \in DOMAIN frames : i # Len(frames) => frames'[i] = frames[i]
  BY <1>2, <1>5, <1>6, <1>7, TopStep
<1>9. QED
  BY <1>5, <1>8 DEF fr

LEMMA ReturnStep ==
  ASSUME BaseInv, Return
  PROVE  BaseInv'
<1>1. ModuleInv /\ Running /\ frames # <<>> /\ UNCHANGED <<source, pc, todo, body, cut>>
  BY DEF BaseInv, Return, AtTerminator
<1>2. CASE Len(frames) = 1
  <2>1. frames' = <<>>
    BY <1>2 DEF Return
  <2>2. frames' \in Seq(FrameType) /\ Len(frames') <= 1 /\ DOMAIN frames' = {}
    BY <2>1
  <2>3. QED
    BY <1>1, <2>2, FramesStep
<1>3. CASE Len(frames) = 2
  <2> DEFINE fr == [frames[1] EXCEPT !.returned = TRUE]
  <2>1. frames' = [SubSeq(frames, 1, Len(frames) - 1) EXCEPT ![Len(frames) - 1].returned = TRUE]
    BY <1>3 DEF Return
  <2>2. frames \in Seq(FrameType)
    BY DEF BaseInv, FramesInv
  <2>3. Len(frames) - 1 = 1 /\ frames[1] \in FrameType
    BY <1>3, <2>2
  <2>4. frames' = <<fr>> /\ fr \in FrameType
    <3> DEFINE one == SubSeq(frames, 1, 1)
    <3>1. one \in Seq(FrameType) /\ Len(one) = 1 /\ one[1] = frames[1]
      BY <1>3, <2>2
    <3>2. frames' = [one EXCEPT ![1].returned = TRUE]
      BY <2>1, <2>3
    <3>3. fr \in FrameType
      BY <2>3 DEF FrameType
    <3> HIDE DEF one
    <3>4. frames' \in Seq(FrameType) /\ Len(frames') = 1 /\ frames'[1] = fr
      BY <3>1, <3>2, <3>3
    <3> HIDE DEF fr
    <3>5. QED
      BY <3>3, <3>4
  <2>5. /\ FrameInv(frames[1]) /\ frames[1].fn = cut[1] /\ frames[1].at = cut[3] /\ cut # <<>>
    BY <1>1, <1>3, TopFacts
  <2>6. cut[1] \in DOMAIN source
    BY <1>1, <2>5 DEF ModuleInv, CutInv
  <2>7. body[frames[1].fn].blocks[frames[1].at].call
    BY <1>1, <2>5, <2>6, BlockFacts DEF FrameInv, CutAt
  <2>8. fr.fn = frames[1].fn /\ fr.at = frames[1].at /\ fr.have = frames[1].have
    BY <2>3 DEF FrameType
  <2>9. FrameInv(fr)
    BY <2>5, <2>7, <2>8 DEF FrameInv
  <2> HIDE DEF fr
  <2>10. frames' \in Seq(FrameType) /\ Len(frames') = 1 /\ DOMAIN frames' = {1} /\ frames'[1] = fr
    BY <2>4
  <2>11. QED
    BY <1>1, <2>5, <2>6, <2>8, <2>9, <2>10, FramesStep
<1>4. QED
  BY <1>1, <1>2, <1>3, TopFacts

LEMMA BaseNext == BaseInv /\ [Next]_vars => BaseInv'
<1>1. SUFFICES ASSUME BaseInv, [Next]_vars PROVE BaseInv'
  OBVIOUS
<1>2. ASSUME NEW f \in todo, NoSplitBlock(f) PROVE BaseInv'
  <2>1. /\ todo' \subseteq todo /\ UNCHANGED <<source, pc, body, cut, frames>>
        /\ pc = "choose" /\ cut = <<>> /\ frames = <<>> /\ ModuleInv /\ FramesInv
    BY <1>1, <1>2 DEF NoSplitBlock, BaseInv, ModuleInv
  <2>2. \A g : Kept(g)' = Kept(g) /\ CutAt(g)' = CutAt(g)
    BY <2>1 DEF Kept, CutAt
  <2>3. ModuleInv'
    BY <2>1, <2>2 DEF ModuleInv
  <2>4. FramesInv'
    BY <2>1 DEF FramesInv
  <2>5. QED
    BY <2>3, <2>4 DEF BaseInv
<1>3. ASSUME NEW f \in todo, NEW s \in DOMAIN source[f].blocks,
             NEW entry \in s .. Len(source[f].blocks), Split(f, s, entry)
      PROVE  BaseInv'
  BY <1>1, <1>3, SplitStep
<1>4. CASE NothingToSplit
  <2>1. /\ pc' = "run" /\ UNCHANGED <<source, todo, body, cut, frames>>
        /\ cut = <<>> /\ frames = <<>> /\ ModuleInv /\ FramesInv
    BY <1>1, <1>4 DEF NothingToSplit, BaseInv, ModuleInv
  <2>2. \A g : Kept(g)' = Kept(g) /\ CutAt(g)' = CutAt(g)
    BY <2>1 DEF Kept, CutAt
  <2>3. ModuleInv'
    BY <2>1, <2>2 DEF ModuleInv
  <2>4. FramesInv'
    BY <2>1 DEF FramesInv
  <2>5. QED
    BY <2>3, <2>4 DEF BaseInv
<1>5. ASSUME NEW g \in DOMAIN source, Enter(g) PROVE BaseInv'
  BY <1>1, <1>5, EnterStep
<1>6. CASE CallSplit
  BY <1>1, <1>6, CallStep
<1>7. ASSUME NEW n \in (IF frames = <<>> THEN {} ELSE Here.succs), Branch(n) PROVE BaseInv'
  BY <1>1, <1>7, BranchStep
<1>8. CASE Return
  BY <1>1, <1>8, ReturnStep
<1>9. CASE UNCHANGED vars
  <2>1. UNCHANGED <<source, pc, todo, body, cut, frames>> /\ ModuleInv /\ FramesInv
    BY <1>1, <1>9 DEF vars, BaseInv
  <2>2. CASE frames = <<>>
    <3>1. \A g : Kept(g)' = Kept(g) /\ CutAt(g)' = CutAt(g)
      BY <2>1 DEF Kept, CutAt
    <3>2. CutInv' = CutInv
      BY <2>1 DEF CutInv
    <3>3. ModuleInv'
      BY <2>1, <3>1, <3>2 DEF ModuleInv
    <3>4. FramesInv'
      BY <2>1, <2>2 DEF FramesInv
    <3>5. QED
      BY <3>3, <3>4 DEF BaseInv
  <2>3. CASE frames # <<>>
    <3>1. Running
      BY <1>1, <2>3, TopFacts
    <3>2. /\ frames' = frames /\ frames \in Seq(FrameType) /\ \A i \in DOMAIN frames : FrameInv(frames[i])
          /\ \/ Len(frames) <= 1 /\ \A i \in DOMAIN frames : frames[i].fn \in DOMAIN source
             \/ /\ Len(frames) = 2 /\ cut # <<>>
                /\ frames[1].fn = cut[1] /\ frames[1].at = cut[3] /\ ~frames[1].returned
                /\ frames[2].fn = Len(body)
      BY <2>1 DEF FramesInv
    <3>3. QED
      BY <1>1, <2>1, <3>1, <3>2, FramesStep
  <2>4. QED
    BY <2>2, <2>3
<1>10. QED
  BY <1>1, <1>2, <1>3, <1>4, <1>5, <1>6, <1>7, <1>8, <1>9 DEF Next, Rejected

LEMMA BaseInvariant == Spec => []BaseInv
<1>1. QED
  BY BaseInit, BaseNext, PTL DEF Spec

\* For every module, function, block and order of the clones: the pass leaves a
\* module in which at most one function is new, and control is always at a block of
\* the function it runs.
THEOREM TypeCorrect == Spec => []TypeOK
<1>1. BaseInv => TypeOK
  <2>1. SUFFICES ASSUME BaseInv PROVE TypeOK
    OBVIOUS
  <2>2. /\ pc \in {"choose", "run"} /\ todo \subseteq DOMAIN source
        /\ Len(body) = Len(source) + (IF cut = <<>> THEN 0 ELSE 1)
    BY <2>1 DEF BaseInv, ModuleInv
  <2>3. frames \in Seq(FrameType) /\ Len(frames) <= 2
    BY <2>1 DEF BaseInv, FramesInv
  <2>4. ASSUME NEW i \in DOMAIN frames
        PROVE  /\ frames[i].fn \in DOMAIN body
               /\ frames[i].at \in DOMAIN body[frames[i].fn].blocks
               /\ frames[i].have \subseteq Nat /\ frames[i].returned \in BOOLEAN
    <3>1. frames[i] \in FrameType
      BY <2>3
    <3>2. FrameInv(frames[i])
      BY <2>1 DEF BaseInv, FramesInv
    <3>3. QED
      BY <3>1, <3>2 DEF FrameType, FrameInv
  <2>5. QED
    BY <2>2, <2>3, <2>4 DEF TypeOK
<1>2. QED
  BY <1>1, BaseInvariant, PTL
-----------------------------------------------------------------------------
\* The rest assumes functions without dead blocks: a dead block may come first
\* among the clones, and the verifier would not mind.
AllReached == \A M \in Modules : \A g \in DOMAIN M : Reached(M[g].blocks)

LEMMA HasPred ==
  ASSUME NEW B, Reached(B), 1 \in DOMAIN B, \A q \in DOMAIN B : B[q].succs \subseteq DOMAIN B,
         NEW b \in DOMAIN B, b # 1
  PROVE  \E q \in DOMAIN B : b \in B[q].succs
<1>1. SUFFICES ASSUME \A q \in DOMAIN B : b \notin B[q].succs
               PROVE  FALSE
  OBVIOUS
<1> DEFINE S == DOMAIN B \ {b}
<1>2. S \in SUBSET DOMAIN B /\ 1 \in S /\ \A c \in S : B[c].succs \subseteq S
  BY <1>1
<1>3. S = DOMAIN B
  BY <1>2 DEF Reached
<1>4. QED
  BY <1>3

LEMMA CopiedIs ==
  ASSUME NEW g, NEW b
  PROVE  /\ Copied(g, b).succs = g.blocks[b].succs /\ Copied(g, b).incoming = g.blocks[b].incoming
         /\ LET c == [Copied(g, b) EXCEPT !.call = TRUE, !.term = "ret", !.succs = {}]
            IN  c.succs = {} /\ c.incoming = g.blocks[b].incoming
BY DEF Copied

\* The function split, its remainder and the new function.
LEMMA CutFacts ==
  ASSUME ModuleInv, cut # <<>>
  PROVE  LET f == cut[1]
             s == cut[2]
             p == cut[3]
             B == source[f].blocks
             ext == extractBlocks(source[f], s)
             old == body[f]
             new == body[Len(body)]
         IN  /\ source \in Modules /\ f \in DOMAIN source
             /\ Len(B) \in Nat /\ DOMAIN B = 1 .. Len(B) /\ s \in 2 .. Len(B) /\ ext = s .. Len(B)
             /\ 1 \in DOMAIN B \ ext /\ s \in ext /\ ext \subseteq DOMAIN B /\ DOMAIN B \ ext = 1 .. s - 1
             /\ \A b \in DOMAIN B : B[b].succs \subseteq DOMAIN B \ {1}
             /\ p \in DOMAIN B /\ B[p].succs = {s} /\ \A q \in DOMAIN B : s \in B[q].succs => q = p
             /\ old.entry = 1 /\ DOMAIN old.blocks = 1 .. s - 1
             /\ \A b \in 1 .. s - 1 :
                  /\ old.blocks[b].succs = IF b = p THEN {} ELSE B[b].succs
                  /\ old.blocks[b].incoming = B[b].incoming
             /\ new.entry \in ext /\ DOMAIN new.blocks = ext
             /\ \A b \in ext : new.blocks[b].succs = B[b].succs /\ new.blocks[b].incoming = B[b].incoming
             /\ \A b \in DOMAIN B : B[b].incoming \in {{}, {q \in DOMAIN B : b \in B[q].succs}}
<1> DEFINE f == cut[1]
           s == cut[2]
           p == cut[3]
           B == source[f].blocks
           ext == extractBlocks(source[f], s)
           old == body[f]
           new == body[Len(body)]
<1>1. /\ source \in Modules /\ f \in DOMAIN source /\ s \in 2 .. Len(B) /\ p \in DOMAIN B
      /\ Preds(source[f], s) = {p} /\ B[p].term = "br"
      /\ new.entry \in ext /\ DOMAIN new.blocks = ext
      /\ \A b \in ext : new.blocks[b] = Copied(source[f], b)
  BY DEF ModuleInv, CutInv
<1>2. /\ Len(B) \in Nat /\ DOMAIN B = 1 .. Len(B)
      /\ \A b \in DOMAIN B :
           /\ B[b].succs \subseteq 2 .. Len(B)
           /\ B[b].term = "br" => \A x, y \in B[b].succs : x = y
           /\ B[b].incoming \in {{}, Preds(source[f], b)}
  BY <1>1, SourceFacts
<1>3. CutAt(f) /\ Kept(f) = 1 .. s - 1
  BY DEF CutAt, Kept
<1>4. /\ old.entry = 1 /\ DOMAIN old.blocks = 1 .. s - 1
      /\ \A b \in 1 .. s - 1 :
           old.blocks[b] = IF b = p THEN [Copied(source[f], b) EXCEPT !.call = TRUE, !.term = "ret", !.succs = {}]
                                    ELSE Copied(source[f], b)
  BY <1>1, <1>3 DEF ModuleInv
<1>5. \A b \in 1 .. s - 1 :
        /\ old.blocks[b].succs = IF b = p THEN {} ELSE B[b].succs
        /\ old.blocks[b].incoming = B[b].incoming
  <2>1. ASSUME NEW b \in 1 .. s - 1
        PROVE  /\ old.blocks[b].succs = IF b = p THEN {} ELSE B[b].succs
               /\ old.blocks[b].incoming = B[b].incoming
    <3> DEFINE c == [Copied(source[f], b) EXCEPT !.call = TRUE, !.term = "ret", !.succs = {}]
               d == Copied(source[f], b)
    <3>1. c.succs = {} /\ c.incoming = B[b].incoming /\ d.succs = B[b].succs /\ d.incoming = B[b].incoming
      BY CopiedIs
    <3>2. old.blocks[b] = IF b = p THEN c ELSE d
      BY <1>4
    <3> HIDE DEF c, d
    <3>3. CASE b = p
      BY <3>1, <3>2, <3>3
    <3>4. CASE b # p
      BY <3>1, <3>2, <3>4
    <3>5. QED
      BY <3>3, <3>4
  <2>2. QED
    BY <2>1
<1>6. \A b \in ext : new.blocks[b].succs = B[b].succs /\ new.blocks[b].incoming = B[b].incoming
  BY <1>1, CopiedIs
<1>7. /\ ext = s .. Len(B) /\ 1 \in DOMAIN B \ ext /\ s \in ext /\ ext \subseteq DOMAIN B
      /\ DOMAIN B \ ext = 1 .. s - 1
  BY <1>1, <1>2 DEF extractBlocks
<1>8. \A b \in DOMAIN B : B[b].succs \subseteq DOMAIN B \ {1}
  <2>1. 2 .. Len(B) \subseteq DOMAIN B \ {1}
    BY <1>2
  <2>2. QED
    BY <1>2, <2>1
<1>9. s \in B[p].succs /\ \A q \in DOMAIN B : s \in B[q].succs => q = p
  BY <1>1 DEF Preds
<1>10. B[p].succs = {s}
  BY <1>1, <1>2, <1>9
<1>11. \A b \in DOMAIN B : B[b].incoming \in {{}, {q \in DOMAIN B : b \in B[q].succs}}
  BY <1>2 DEF Preds
<1>12. QED
  BY <1>1, <1>2, <1>4, <1>5, <1>6, <1>7, <1>8, <1>9, <1>10, <1>11

\* Fit: what AcceptedExactly says the verifier's word amounts to.
Fit ==
  LET B == source[cut[1]].blocks
      s == cut[2]
      ext == extractBlocks(source[cut[1]], s)
  IN  /\ cut[3] \notin ext
      /\ \A b \in DOMAIN B : \A n \in B[b].succs : <<b, n>> # <<cut[3], s>> => (b \in ext <=> n \in ext)
      /\ B[s].incoming = {}
      /\ body[Len(body)].entry = s

LEMMA AcceptedFits ==
  ASSUME ModuleInv, AllReached, cut # <<>>, Accepted
  PROVE  Fit
<1> DEFINE f == cut[1]
           s == cut[2]
           p == cut[3]
           B == source[f].blocks
           ext == extractBlocks(source[f], s)
           old == body[f]
           new == body[Len(body)]
<1>1. /\ source \in Modules /\ f \in DOMAIN source
      /\ 1 \in DOMAIN B \ ext /\ s \in ext /\ ext \subseteq DOMAIN B /\ DOMAIN B \ ext = 1 .. s - 1
      /\ \A b \in DOMAIN B : B[b].succs \subseteq DOMAIN B \ {1}
      /\ p \in DOMAIN B /\ B[p].succs = {s} /\ \A q \in DOMAIN B : s \in B[q].succs => q = p
  BY CutFacts
<1>2. /\ DOMAIN old.blocks = 1 .. s - 1
      /\ \A b \in 1 .. s - 1 : old.blocks[b].succs = IF b = p THEN {} ELSE B[b].succs
  BY CutFacts
<1>3. /\ new.entry \in ext /\ DOMAIN new.blocks = ext
      /\ \A b \in ext : new.blocks[b].succs = B[b].succs /\ new.blocks[b].incoming = B[b].incoming
  BY CutFacts
<1>4. Verified(old) /\ Verified(new)
  <2>1. f \in DOMAIN body /\ Len(body) \in DOMAIN body
    BY <1>1, Sizes
  <2>2. QED
    BY <2>1 DEF Accepted
<1>5. Reached(B)
  BY <1>1 DEF AllReached
<1> HIDE DEF f, s, p, B, ext, old, new
<1>6. \A b \in DOMAIN B \ ext : b # p => B[b].succs \subseteq DOMAIN B \ ext
  BY <1>1, <1>2, <1>4 DEF Verified
<1>7. \A b \in ext : B[b].succs \subseteq ext
  BY <1>3, <1>4 DEF Verified
<1>8. \A b \in ext : new.entry \notin B[b].succs
  BY <1>3, <1>4 DEF Verified
<1>9. PICK q \in DOMAIN B : new.entry \in B[q].succs
  <2>1. 1 \in DOMAIN B /\ new.entry \in DOMAIN B /\ new.entry # 1 /\ \A b \in DOMAIN B : B[b].succs \subseteq DOMAIN B
    BY <1>1, <1>3
  <2>2. QED
    BY <1>5, <2>1, HasPred
<1>10. q \notin ext /\ q = p
  BY <1>3, <1>6, <1>8, <1>9
<1>11. p \notin ext /\ new.entry = s
  BY <1>1, <1>9, <1>10
<1>12. ASSUME NEW b \in DOMAIN B, NEW n \in B[b].succs, <<b, n>> # <<p, s>>
       PROVE  b \in ext <=> n \in ext
  BY <1>1, <1>6, <1>7, <1>12
<1>13. B[s].incoming = {}
  <2>1. \A b \in ext : s \notin new.blocks[b].succs
    BY <1>1, <1>3, <1>11
  <2>2. new.blocks[s].incoming \in {{}, {b \in ext : s \in new.blocks[b].succs}}
    BY <1>1, <1>3, <1>4 DEF Verified
  <2>3. QED
    BY <1>1, <1>3, <2>1, <2>2
<1>14. QED
  BY <1>11, <1>12, <1>13 DEF Fit, f, s, p, B, ext, new

LEMMA FitAccepted ==
  ASSUME ModuleInv, cut # <<>>, Fit
  PROVE  Accepted
<1> DEFINE f == cut[1]
           s == cut[2]
           p == cut[3]
           B == source[f].blocks
           ext == extractBlocks(source[f], s)
           old == body[f]
           new == body[Len(body)]
<1>1. /\ source \in Modules /\ f \in DOMAIN source
      /\ 1 \in DOMAIN B \ ext /\ s \in ext /\ ext \subseteq DOMAIN B /\ DOMAIN B \ ext = 1 .. s - 1
      /\ \A b \in DOMAIN B : B[b].succs \subseteq DOMAIN B \ {1}
      /\ p \in DOMAIN B /\ B[p].succs = {s} /\ \A q \in DOMAIN B : s \in B[q].succs => q = p
      /\ \A b \in DOMAIN B : B[b].incoming \in {{}, {q \in DOMAIN B : b \in B[q].succs}}
  BY CutFacts
<1>2. /\ old.entry = 1 /\ DOMAIN old.blocks = 1 .. s - 1
      /\ \A b \in 1 .. s - 1 :
           old.blocks[b].succs = (IF b = p THEN {} ELSE B[b].succs) /\ old.blocks[b].incoming = B[b].incoming
  BY CutFacts
<1>3. /\ DOMAIN new.blocks = ext
      /\ \A b \in ext : new.blocks[b].succs = B[b].succs /\ new.blocks[b].incoming = B[b].incoming
  BY CutFacts
<1>4. /\ p \notin ext /\ B[s].incoming = {} /\ new.entry = s
      /\ \A b \in DOMAIN B : \A n \in B[b].succs : <<b, n>> # <<p, s>> => (b \in ext <=> n \in ext)
  BY DEF Fit
<1>5. ASSUME NEW g \in DOMAIN source, g # f PROVE Verified(body[g])
  <2>1. /\ body[g].entry = 1 /\ DOMAIN body[g].blocks = DOMAIN source[g].blocks
        /\ \A b \in DOMAIN source[g].blocks : body[g].blocks[b] = Copied(source[g], b)
    BY <1>5 DEF ModuleInv, Kept, CutAt
  <2>2. /\ DOMAIN source[g].blocks = 1 .. Len(source[g].blocks) /\ Len(source[g].blocks) \in Nat
        /\ \A b \in DOMAIN source[g].blocks :
             /\ source[g].blocks[b].succs \subseteq 2 .. Len(source[g].blocks)
             /\ source[g].blocks[b].incoming \in {{}, Preds(source[g], b)}
    BY <1>1, SourceFacts
  <2>3. 2 .. Len(source[g].blocks) \subseteq DOMAIN source[g].blocks /\ 1 \notin 2 .. Len(source[g].blocks)
    BY <2>2
  <2>4. /\ \A b \in DOMAIN source[g].blocks :
             /\ body[g].blocks[b].succs = source[g].blocks[b].succs
             /\ body[g].blocks[b].incoming = source[g].blocks[b].incoming
    BY <2>1, CopiedIs
  <2> DEFINE C == body[g].blocks
             D == source[g].blocks
  <2>5. ASSUME NEW b \in DOMAIN D
        PROVE  /\ C[b].succs \subseteq DOMAIN D
               /\ b = 1 => {q \in DOMAIN D : b \in C[q].succs} = {}
               /\ C[b].incoming \in {{}, {q \in DOMAIN D : b \in C[q].succs}}
    <3>1. {q \in DOMAIN D : b \in C[q].succs} = Preds(source[g], b)
      BY <2>4 DEF Preds
    <3>2. b = 1 => Preds(source[g], b) = {}
      BY <2>2, <2>3 DEF Preds
    <3>3. QED
      BY <2>2, <2>3, <2>4, <3>1, <3>2
  <2>6. QED
    BY <2>1, <2>5 DEF Verified
<1> HIDE DEF f, s, p, B, ext, old, new
<1>6. Verified(old)
  <2>1. ASSUME NEW b \in 1 .. s - 1
        PROVE  /\ old.blocks[b].succs \subseteq 1 .. s - 1
               /\ b = 1 => {q \in 1 .. s - 1 : b \in old.blocks[q].succs} = {}
               /\ old.blocks[b].incoming \in {{}, {q \in 1 .. s - 1 : b \in old.blocks[q].succs}}
    <3>1. old.blocks[b].succs \subseteq 1 .. s - 1
      BY <1>1, <1>2, <1>4
    <3>2. {q \in 1 .. s - 1 : b \in old.blocks[q].succs} = {q \in DOMAIN B : b \in B[q].succs}
      <4>1. \A q \in 1 .. s - 1 : b \in old.blocks[q].succs <=> b \in B[q].succs
        BY <1>1, <1>2
      <4>2. \A q \in ext : b \notin B[q].succs
        BY <1>1, <1>4
      <4>3. QED
        BY <1>1, <4>1, <4>2
    <3>3. QED
      BY <1>1, <1>2, <3>1, <3>2
  <2>2. QED
    BY <1>2, <2>1 DEF Verified
<1>7. Verified(new)
  <2>1. ASSUME NEW b \in ext
        PROVE  /\ new.blocks[b].succs \subseteq ext
               /\ b = s => {q \in ext : b \in new.blocks[q].succs} = {}
               /\ new.blocks[b].incoming \in {{}, {q \in ext : b \in new.blocks[q].succs}}
    <3>1. new.blocks[b].succs \subseteq ext
      BY <1>1, <1>3, <1>4
    <3>2. CASE b = s
      BY <1>1, <1>3, <1>4, <3>1, <3>2
    <3>3. CASE b # s
      <4>1. \A q \in DOMAIN B \ ext : b \notin B[q].succs
        BY <1>1, <1>4, <3>3
      <4>2. {q \in ext : b \in new.blocks[q].succs} = {q \in DOMAIN B : b \in B[q].succs}
        BY <1>1, <1>3, <4>1
      <4>3. QED
        BY <1>1, <1>3, <3>1, <3>3, <4>2
    <3>4. QED
      BY <3>2, <3>3
  <2>2. QED
    BY <1>3, <1>4, <2>1 DEF Verified
<1>8. \A g \in DOMAIN body : g \in DOMAIN source \/ g = Len(body)
  BY Sizes
<1>9. QED
  BY <1>5, <1>6, <1>7, <1>8 DEF Accepted, old, new, f

\* If no block is dead: the verifier takes the result exactly if the blocks behind
\* SplitBB in the layout are a piece of their own, entered from PredBB alone and
\* never left, SplitBB has no PHI, and its clone happens to come first.
THEOREM AcceptanceExact == ASSUME AllReached PROVE Spec => []AcceptedExactly
<1>1. ModuleInv => AcceptedExactly
  BY AcceptedFits, FitAccepted DEF AcceptedExactly, Fit
<1>2. BaseInv => AcceptedExactly
  BY <1>1 DEF BaseInv
<1>3. QED
  BY <1>2, BaseInvariant, PTL
-----------------------------------------------------------------------------
\* In a module that runs, the call stands for the branch to SplitBB.
LEMMA CallEntersSplitBB ==
  ASSUME BaseInv, AllReached, cut # <<>>, Accepted
  PROVE  body[Len(body)].entry = cut[2] /\ source[cut[1]].blocks[cut[3]].succs = {cut[2]}
<1>1. ModuleInv
  BY DEF BaseInv
<1>2. Fit
  BY <1>1, AcceptedFits
<1>3. QED
  BY <1>1, <1>2, CutFacts DEF Fit

\* If no block is dead: the ways to go on from a block are the source's, wherever
\* its code is now.
THEOREM BranchesKept == ASSUME AllReached PROVE Spec => []KeepsEveryBranch
<1>1. BaseInv => KeepsEveryBranch
  <2>1. SUFFICES ASSUME BaseInv, frames # <<>>
                 PROVE  LET original == source[Origin(TopFrame)].blocks[TopFrame.at]
                        IN  IF Here.call
                              THEN original.succs = {body[Len(body)].entry}
                              ELSE Here.succs = original.succs /\ Here.term = original.term
    BY DEF KeepsEveryBranch, Place
  <2>2. CASE Here.call
    <3>1. cut # <<>> /\ TopFrame.fn = cut[1] /\ TopFrame.at = cut[3] /\ TopFrame.fn \in DOMAIN source /\ Accepted
      BY <2>1, <2>2, HereFacts, TopFacts DEF Running
    <3>2. Origin(TopFrame) = cut[1]
      BY <3>1 DEF Origin
    <3>3. body[Len(body)].entry = cut[2] /\ source[cut[1]].blocks[cut[3]].succs = {cut[2]}
      BY <2>1, <3>1, CallEntersSplitBB
    <3>4. QED
      BY <2>2, <3>1, <3>2, <3>3
  <2>3. CASE ~Here.call
    BY <2>1, <2>3, HereFacts
  <2>4. QED
    BY <2>2, <2>3
<1>2. QED
  BY <1>1, BaseInvariant, PTL

-----------------------------------------------------------------------------
\* The refinement: where the module is in the source, and that it moves as the
\* source does.
Mapped == IF frames = <<>> \/ TopFrame.returned THEN <<>> ELSE Place

LEMMA StepWalks ==
  ASSUME AllReached, BaseInv, BaseInv', [Next]_vars
  PROVE  [Walk!WalkNext]_(Walk!walkVars)
<1>1. Mapped # <<>> => frames # <<>> /\ ~TopFrame.returned /\ Mapped = <<Origin(TopFrame), TopFrame.at>>
  BY DEF Mapped, Place
<1>2. SUFFICES \/ UNCHANGED <<source, Mapped>>
               \/ \E g \in DOMAIN source : Mapped = <<>> /\ ~source[g].decl /\ Mapped' = <<g, 1>> /\ UNCHANGED source
               \/ /\ Mapped # <<>> /\ UNCHANGED source
                  /\ \E n \in source[Mapped[1]].blocks[Mapped[2]].succs : Mapped' = <<Mapped[1], n>>
               \/ /\ Mapped # <<>> /\ UNCHANGED source
                  /\ source[Mapped[1]].blocks[Mapped[2]].term = "ret" /\ Mapped' = <<>>
  BY DEF Walk!WalkNext, Walk!walkVars, Walk!Start, Walk!Follow, Walk!Leave, Walk!WalkBlock, Mapped
<1>3. ASSUME UNCHANGED <<source, frames>>, cut' = cut \/ frames = <<>> PROVE UNCHANGED <<source, Mapped>>
  BY <1>3 DEF Mapped, Place, Origin, TopFrame
<1>4. ASSUME NEW f \in todo, NoSplitBlock(f) PROVE UNCHANGED <<source, Mapped>>
  BY <1>3, <1>4 DEF NoSplitBlock
<1>5. ASSUME NEW f \in todo, NEW s, NEW entry, Split(f, s, entry) PROVE UNCHANGED <<source, Mapped>>
  <2>1. frames = <<>>
    BY <1>5 DEF Split, BaseInv, ModuleInv
  <2>2. QED
    BY <1>3, <1>5, <2>1 DEF Split
<1>6. CASE NothingToSplit
  BY <1>3, <1>6 DEF NothingToSplit
<1>7. CASE UNCHANGED vars
  BY <1>3, <1>7 DEF vars
<1>8. ASSUME NEW g \in DOMAIN source, Enter(g)
      PROVE  Mapped = <<>> /\ ~source[g].decl /\ Mapped' = <<g, 1>> /\ UNCHANGED source
  <2>1. /\ frames = <<>> /\ ~source[g].decl /\ frames' = <<Frame(g)>> /\ UNCHANGED <<source, cut>>
        /\ body[g].entry = 1
    BY <1>8 DEF Enter, BaseInv, ModuleInv
  <2>2. TopFrame' = Frame(g) /\ frames' # <<>>
    BY <2>1 DEF TopFrame
  <2>3. Frame(g).fn = g /\ Frame(g).at = 1 /\ ~Frame(g).returned
    BY <2>1 DEF Frame
  <2>4. QED
    BY <2>1, <2>2, <2>3 DEF Mapped, Place, Origin
<1>9. ASSUME CallSplit
      PROVE  /\ Mapped # <<>> /\ UNCHANGED source
             /\ \E n \in source[Mapped[1]].blocks[Mapped[2]].succs : Mapped' = <<Mapped[1], n>>
  <2>1. /\ frames # <<>> /\ Here.call /\ ~TopFrame.returned /\ Accepted
        /\ frames' = Append(frames, Frame(Len(body))) /\ UNCHANGED <<source, cut, body>>
        /\ frames \in Seq(FrameType) /\ ModuleInv
    BY <1>9 DEF CallSplit, Running, BaseInv, FramesInv
  <2>2. cut # <<>> /\ TopFrame.fn = cut[1] /\ TopFrame.at = cut[3] /\ TopFrame.fn \in DOMAIN source
    BY <2>1, HereFacts
  <2>3. body[Len(body)].entry = cut[2] /\ source[cut[1]].blocks[cut[3]].succs = {cut[2]}
    BY <2>1, <2>2, CallEntersSplitBB
  <2>4. Mapped = <<cut[1], cut[3]>>
    BY <2>1, <2>2 DEF Mapped, Place, Origin
  <2>5. TopFrame' = Frame(Len(body)) /\ frames' # <<>>
    <3> DEFINE new == Frame(Len(body))
    <3> HIDE DEF new
    <3>1. frames' = Append(frames, new)
      BY <2>1 DEF new
    <3>2. frames'[Len(frames')] = new /\ frames' # <<>>
      BY <2>1, <3>1
    <3>3. QED
      BY <3>2 DEF TopFrame, new
  <2>6. Frame(Len(body)).fn = Len(body) /\ Frame(Len(body)).at = cut[2] /\ ~Frame(Len(body)).returned
    BY <2>3 DEF Frame
  <2>7. Len(body) \notin DOMAIN source
    BY <2>1, <2>2, Sizes
  <2>8. Mapped' = <<cut[1], cut[2]>>
    BY <2>1, <2>5, <2>6, <2>7 DEF Mapped, Place, Origin
  <2>9. QED
    BY <2>1, <2>3, <2>4, <2>8
<1>10. ASSUME frames # <<>>, NEW n \in Here.succs, Branch(n)
       PROVE  /\ Mapped # <<>> /\ UNCHANGED source
              /\ \E m \in source[Mapped[1]].blocks[Mapped[2]].succs : Mapped' = <<Mapped[1], m>>
  <2> DEFINE fr == [TopFrame EXCEPT !.at = n, !.have = @ \cup {TopFrame.at}, !.returned = FALSE]
  <2>1. UNCHANGED <<source, cut>>
    BY <1>10 DEF Branch
  <2>2. ~Here.call /\ ~TopFrame.returned /\ Here.succs = source[Origin(TopFrame)].blocks[TopFrame.at].succs
    BY <1>10, HereFacts
  <2>3. Mapped = <<Origin(TopFrame), TopFrame.at>>
    BY <1>10, <2>2 DEF Mapped, Place
  <2>4. fr \in FrameType /\ Len(frames') = Len(frames) /\ frames'[Len(frames)] = fr
    BY <1>10, BranchStep
  <2>5. TopFrame' = fr /\ frames' # <<>>
    <3>1. frames' # <<>>
      <4>1. Len(frames') # 0
        BY <1>10, <2>4, TopFacts
      <4>2. QED
        BY <4>1
    <3>2. QED
      BY <2>4, <3>1 DEF TopFrame
  <2>6. fr.fn = TopFrame.fn /\ fr.at = n /\ ~fr.returned
    <3>1. TopFrame \in FrameType
      BY <1>10, TopFacts
    <3>2. QED
      BY <3>1 DEF FrameType
  <2> HIDE DEF fr
  <2>7. Mapped' = <<Origin(TopFrame), n>>
    BY <2>1, <2>5, <2>6 DEF Mapped, Place, Origin
  <2>8. QED
    BY <1>10, <2>1, <2>2, <2>3, <2>7
<1>11. ASSUME Return
       PROVE  \/ UNCHANGED <<source, Mapped>>
              \/ /\ Mapped # <<>> /\ UNCHANGED source
                 /\ source[Mapped[1]].blocks[Mapped[2]].term = "ret" /\ Mapped' = <<>>
  <2>1. frames # <<>> /\ Here.term = "ret" /\ UNCHANGED <<source, cut>> /\ (Here.call => TopFrame.returned)
        /\ frames \in Seq(FrameType)
    BY <1>11 DEF Return, AtTerminator, BaseInv, FramesInv
  <2>2. Mapped' = <<>>
    <3>1. CASE Len(frames) = 1
      BY <1>11, <3>1 DEF Return, Mapped
    <3>2. CASE Len(frames) = 2
      <4> DEFINE one == SubSeq(frames, 1, 1)
      <4>1. one \in Seq(FrameType) /\ Len(one) = 1
        BY <3>2, <2>1
      <4>2. frames' = [one EXCEPT ![1].returned = TRUE]
        <5>1. Len(frames) - 1 = 1
          BY <3>2
        <5>2. QED
          BY <1>11, <3>2, <5>1 DEF Return
      <4>3. one[1] \in FrameType
        BY <4>1
      <4> HIDE DEF one
      <4>4. Len(frames') = 1 /\ frames'[1].returned
        BY <4>1, <4>2, <4>3 DEF FrameType
      <4>5. QED
        BY <4>4 DEF Mapped, TopFrame
    <3>3. QED
      BY <2>1, <3>1, <3>2, TopFacts
  <2>3. CASE TopFrame.returned
    BY <2>1, <2>2, <2>3 DEF Mapped
  <2>4. CASE ~TopFrame.returned
    <3>1. ~Here.call /\ Here.term = source[Origin(TopFrame)].blocks[TopFrame.at].term
      BY <2>1, <2>4, HereFacts
    <3>2. Mapped = <<Origin(TopFrame), TopFrame.at>>
      BY <2>1, <2>4 DEF Mapped, Place
    <3>3. QED
      BY <2>1, <2>2, <3>1, <3>2
  <2>5. QED
    BY <2>3, <2>4
<1>12. QED
  BY <1>4, <1>5, <1>6, <1>7, <1>8, <1>9, <1>10, <1>11 DEF Next, Rejected

\* If no block is dead, every module the pass makes, and the verifier lets run, does
\* what the source does, for runs of any length: func_splitter implements CFGWalk.
THEOREM SplitImplementsWalk == ASSUME AllReached PROVE Spec => RunsLikeOriginal
<1>1. Init => Walk!WalkInit
  BY DEF Init, Walk!WalkInit
<1>2. AllReached /\ BaseInv /\ BaseInv' /\ [Next]_vars => [Walk!WalkNext]_(Walk!walkVars)
  BY StepWalks
<1>3. QED
  BY <1>1, <1>2, BaseInvariant, PTL DEF Spec, RunsLikeOriginal, Walk!WalkSpec
-----------------------------------------------------------------------------
(* Operands: what a frame lacks, control can have come round.              *)
Came == \A i \in DOMAIN frames : ComeRound(frames[i])

LEMMA CameInit == Init => Came
BY DEF Init, Came

LEMMA CameStep ==
  ASSUME UNCHANGED <<source, cut>>, \A i \in DOMAIN frames' : ComeRound(frames'[i])
  PROVE  Came'
BY DEF Came, ComeRound, Origin

LEMMA EnterCame ==
  ASSUME BaseInv, BaseInv', NEW g \in DOMAIN source, Enter(g)
  PROVE  Came'
<1>1. /\ frames' = <<Frame(g)>> /\ UNCHANGED <<source, cut>> /\ body[g].entry = 1
  BY DEF Enter, BaseInv, ModuleInv
<1>2. Frame(g).fn = g /\ Frame(g).at = 1
  BY <1>1 DEF Frame
<1>3. ComeRound(Frame(g))
  BY <1>2 DEF ComeRound
<1>4. \A i \in DOMAIN frames' : frames'[i] = Frame(g)
  BY <1>1
<1>5. QED
  BY <1>1, <1>3, <1>4, CameStep

LEMMA BranchCame ==
  ASSUME BaseInv, Came, frames # <<>>, NEW n \in Here.succs, Branch(n)
  PROVE  Came'
<1> DEFINE fr == [TopFrame EXCEPT !.at = n, !.have = @ \cup {TopFrame.at}, !.returned = FALSE]
           L == Len(frames)
<1>1. /\ UNCHANGED <<source, cut>> /\ DOMAIN frames' = 1 .. L /\ DOMAIN frames = 1 .. L
      /\ frames'[L] = fr /\ \A i \in 1 .. L : i # L => frames'[i] = frames[i]
  <2>1. /\ BaseInv' /\ Len(frames') = L /\ frames'[L] = fr
        /\ \A i \in DOMAIN frames : i # L => frames'[i] = frames[i]
    BY BranchStep
  <2>2. frames \in Seq(FrameType) /\ frames' \in Seq(FrameType)
    BY <2>1 DEF BaseInv, FramesInv
  <2>3. QED
    BY <2>1, <2>2 DEF Branch
<1>2. /\ fr.fn = TopFrame.fn /\ fr.at = n /\ fr.have = TopFrame.have \cup {TopFrame.at}
  BY TopFacts DEF FrameType
<1>3. Here.succs = source[Origin(TopFrame)].blocks[TopFrame.at].succs
  BY HereFacts
<1>4. ComeRound(TopFrame)
  BY <1>1, TopFacts DEF Came, TopFrame
<1> HIDE DEF fr
<1>5. Origin(fr) = Origin(TopFrame)
  BY <1>2 DEF Origin
<1>6. ComeRound(fr)
  <2> DEFINE B == source[Origin(TopFrame)].blocks
  <2>1. SUFFICES ASSUME NEW v \in DOMAIN B \ (fr.have \cup {fr.at}),
                        fr.fn \in DOMAIN source \/ v >= cut[2],
                        NEW S \in SUBSET (DOMAIN B \ {v}), v = 1 \/ 1 \in S, Closed(B, S, v)
                 PROVE  fr.at \in S
    BY <1>5 DEF ComeRound
  <2>2. TopFrame.at \in S
    BY <1>2, <1>4, <2>1 DEF ComeRound
  <2>3. n # v /\ n \in B[TopFrame.at].succs
    BY <1>2, <1>3, <2>1
  <2>4. QED
    BY <1>2, <2>1, <2>2, <2>3 DEF Closed
<1>7. \A i \in DOMAIN frames' : ComeRound(frames'[i])
  BY <1>1, <1>6 DEF Came
<1>8. QED
  BY <1>1, <1>7, CameStep

LEMMA CallCame ==
  ASSUME AllReached, BaseInv, Came, CallSplit
  PROVE  Came'
<1> DEFINE new == Frame(Len(body))
           f == cut[1]
           s == cut[2]
           p == cut[3]
           B == source[f].blocks
<1>1. /\ ModuleInv /\ Accepted /\ frames # <<>> /\ Here.call /\ UNCHANGED <<source, cut>>
      /\ frames' = Append(frames, new) /\ frames \in Seq(FrameType)
  BY DEF BaseInv, FramesInv, CallSplit, Running
<1>2. /\ Len(frames) = 1 /\ cut # <<>> /\ TopFrame.fn = f /\ TopFrame.at = p
      /\ f \in DOMAIN source /\ TopFrame = frames[1]
  BY <1>1, HereFacts DEF TopFrame
<1>3. ComeRound(TopFrame) /\ FrameInv(TopFrame)
  BY <1>1, <1>2, TopFacts DEF Came
<1>4. new.fn = Len(body) /\ new.at = s /\ Len(body) \notin DOMAIN source
  <2>1. body[Len(body)].entry = s
    BY <1>1, <1>2, CallEntersSplitBB
  <2>2. QED
    BY <1>1, <1>2, <2>1, Sizes DEF Frame
<1>5. /\ DOMAIN body[f].blocks = 1 .. s - 1 /\ body[f].params = {0} /\ s \in 2 .. Len(B) /\ Len(B) \in Nat
      /\ DOMAIN B = 1 .. Len(B) /\ B[p].succs = {s}
  BY <1>1, <1>2, CutFacts DEF ModuleInv
<1> HIDE DEF new, f, s, p, B
<1>6. ComeRound(new)
  <2>1. Origin(new) = f /\ Origin(TopFrame) = f
    BY <1>2, <1>4 DEF Origin, f
  <2>2. SUFFICES ASSUME NEW v \in DOMAIN B, v # s, v >= s,
                        NEW S \in SUBSET (DOMAIN B \ {v}), v = 1 \/ 1 \in S, Closed(B, S, v)
                 PROVE  s \in S
    BY <1>4, <2>1 DEF ComeRound, B, s
  <2>3. v \notin TopFrame.have \cup {TopFrame.at}
    <3>1. TopFrame.have \subseteq {0} \cup 1 .. s - 1 /\ TopFrame.at \in 1 .. s - 1
      BY <1>2, <1>3, <1>5 DEF FrameInv
    <3>2. v \notin {0} \cup 1 .. s - 1
      BY <1>5, <2>2
    <3>3. QED
      BY <3>1, <3>2
  <2>4. p \in S
    BY <1>2, <1>3, <2>1, <2>2, <2>3 DEF ComeRound, B
  <2>5. QED
    BY <1>5, <2>2, <2>4 DEF Closed
<1>7. \A i \in DOMAIN frames' : frames'[i] = TopFrame \/ frames'[i] = new
  <2>1. frames = [i \in 1 .. 1 |-> frames[i]]
    BY <1>1, <1>2
  <2>2. /\ DOMAIN frames' = 1 .. 1 + 1 /\ frames'[1 + 1] = new
        /\ \A i \in 1 .. 1 : frames'[i] = frames[i]
    BY <1>1, <2>1, AppendIs
  <2>3. QED
    BY <1>2, <2>2
<1>8. QED
  BY <1>1, <1>3, <1>6, <1>7, CameStep

LEMMA ReturnCame ==
  ASSUME BaseInv, Came, Return
  PROVE  Came'
<1>1. frames # <<>> /\ frames \in Seq(FrameType) /\ UNCHANGED <<source, cut>>
  BY DEF BaseInv, FramesInv, Return, AtTerminator
<1>2. CASE Len(frames) = 1
  <2>1. frames' = <<>>
    BY <1>2 DEF Return
  <2>2. QED
    BY <1>1, <2>1, CameStep
<1>3. CASE Len(frames) = 2
  <2> DEFINE one == SubSeq(frames, 1, 1)
             fr == frames'[1]
  <2>1. one \in Seq(FrameType) /\ Len(one) = 1 /\ one[1] = frames[1] /\ frames[1] \in FrameType
    BY <1>1, <1>3
  <2>2. frames' = [one EXCEPT ![1].returned = TRUE]
    <3>1. Len(frames) - 1 = 1
      BY <1>3
    <3>2. QED
      BY <1>3, <3>1 DEF Return
  <2> HIDE DEF one
  <2>3. DOMAIN frames' = {1} /\ fr.fn = frames[1].fn /\ fr.at = frames[1].at /\ fr.have = frames[1].have
    BY <2>1, <2>2 DEF FrameType
  <2> HIDE DEF fr
  <2>4. ComeRound(frames[1])
    <3>1. 1 \in DOMAIN frames
      BY <1>1, <1>3
    <3>2. QED
      BY <3>1 DEF Came
  <2>5. ComeRound(fr)
    <3>1. Origin(fr) = Origin(frames[1])
      BY <2>3 DEF Origin
    <3>2. QED
      BY <2>3, <2>4, <3>1 DEF ComeRound
  <2>6. \A i \in DOMAIN frames' : frames'[i] = fr
    BY <2>3 DEF fr
  <2>7. QED
    BY <1>1, <2>5, <2>6, CameStep
<1>4. QED
  BY <1>1, <1>2, <1>3, TopFacts

LEMMA CameNext ==
  ASSUME AllReached, BaseInv, BaseInv', Came, [Next]_vars
  PROVE  Came'
<1>1. ASSUME frames' = <<>> PROVE Came'
  BY <1>1 DEF Came
<1>2. ASSUME NEW f \in todo, NoSplitBlock(f) PROVE Came'
  BY <1>1, <1>2 DEF NoSplitBlock, BaseInv, ModuleInv
<1>3. ASSUME NEW f \in todo, NEW s, NEW entry, Split(f, s, entry) PROVE Came'
  BY <1>1, <1>3 DEF Split, BaseInv, ModuleInv
<1>4. CASE NothingToSplit
  BY <1>1, <1>4 DEF NothingToSplit, BaseInv, ModuleInv
<1>5. CASE UNCHANGED vars
  BY <1>5 DEF vars, Came, ComeRound, Origin
<1>6. ASSUME NEW g \in DOMAIN source, Enter(g) PROVE Came'
  BY <1>6, EnterCame
<1>7. CASE CallSplit
  BY <1>7, CallCame
<1>8. ASSUME NEW n \in (IF frames = <<>> THEN {} ELSE Here.succs), Branch(n) PROVE Came'
  BY <1>8, BranchCame
<1>9. CASE Return
  BY <1>9, ReturnCame
<1>10. QED
  BY <1>2, <1>3, <1>4, <1>5, <1>6, <1>7, <1>8, <1>9 DEF Next, Rejected

\* No operand of the block control is at is missing ...
LEMMA UsesKnown ==
  ASSUME BaseInv, Came, frames # <<>>
  PROVE  Here.uses \subseteq TopFrame.have \cup {TopFrame.at}
<1> DEFINE o == Origin(TopFrame)
           B == source[o].blocks
<1>1. /\ ModuleInv /\ source \in Modules /\ o \in DOMAIN source /\ TopFrame.at \in DOMAIN B
      /\ Here.uses = B[TopFrame.at].uses
  BY HereFacts DEF BaseInv, ModuleInv
<1>2. /\ Len(B) \in Nat /\ DOMAIN B = 1 .. Len(B) /\ B[TopFrame.at].uses \subseteq 0 .. Len(B)
      /\ \A v \in B[TopFrame.at].uses : Dominates(B, v, TopFrame.at)
  BY <1>1, SourceFacts
<1>3. /\ ComeRound(TopFrame) /\ TopFrame.fn \in DOMAIN body /\ TopFrame.at \in DOMAIN body[TopFrame.fn].blocks
      /\ body[TopFrame.fn].params \subseteq TopFrame.have
  BY TopFacts DEF Came, TopFrame, FrameInv
<1>4. SUFFICES ASSUME NEW v \in B[TopFrame.at].uses, v \notin TopFrame.have \cup {TopFrame.at}
               PROVE  FALSE
  BY <1>1
<1>5. v \in DOMAIN B /\ (TopFrame.fn \in DOMAIN source \/ v >= cut[2])
  <2>1. CASE TopFrame.fn \in DOMAIN source
    <3>1. 0 \in TopFrame.have
      BY <1>1, <1>3, <2>1 DEF ModuleInv
    <3>2. v \in 0 .. Len(B) /\ v # 0
      BY <1>2, <1>4, <3>1
    <3>3. QED
      BY <1>2, <2>1, <3>2
  <2>2. CASE TopFrame.fn \notin DOMAIN source
    <3>1. cut # <<>> /\ TopFrame.fn = Len(body) /\ TopFrame.at \in extractBlocks(source[o], cut[2])
      <4> DEFINE fn == TopFrame.fn
                 b == TopFrame.at
                 origin == IF fn \in DOMAIN source THEN fn ELSE cut[1]
      <4>1. ModuleInv /\ fn \in DOMAIN body /\ b \in DOMAIN body[fn].blocks /\ fn \notin DOMAIN source
        BY <1>1, <1>3, <2>2
      <4>2. o = origin
        BY DEF Origin
      <4> HIDE DEF fn, b
      <4>3. cut # <<>> /\ fn = Len(body) /\ b \in extractBlocks(source[origin], cut[2])
        BY <4>1, BlockFacts
      <4> HIDE DEF o, origin
      <4>4. QED
        BY <4>2, <4>3 DEF fn, b
    <3>2. o = cut[1]
      BY <2>2 DEF Origin
    <3>3. liveIns(source[o], extractBlocks(source[o], cut[2])) \subseteq TopFrame.have
      <4>1. CutInv
        BY <1>1, <3>1 DEF ModuleInv
      <4>2. body[TopFrame.fn].params = liveIns(source[o], extractBlocks(source[o], cut[2]))
        BY <3>1, <3>2, <4>1 DEF CutInv
      <4>3. QED
        BY <1>3, <4>2
    <3>4. v \in extractBlocks(source[o], cut[2])
      BY <1>4, <3>1, <3>3 DEF liveIns
    <3>5. cut[2] \in 2 .. Len(B)
      BY <1>1, <3>1, <3>2 DEF ModuleInv, CutInv
    <3>6. QED
      BY <1>2, <3>4, <3>5 DEF extractBlocks
  <2>3. QED
    BY <2>1, <2>2
<1>6. Dominates(B, v, TopFrame.at) /\ v \notin {0, TopFrame.at}
  BY <1>2, <1>4, <1>5
<1>7. PICK S \in SUBSET (DOMAIN B \ {v}) :
             (v = 1 \/ 1 \in S) /\ Closed(B, S, v) /\ TopFrame.at \notin S
  BY <1>6 DEF Dominates
<1>8. QED
  BY <1>3, <1>4, <1>5, <1>7 DEF ComeRound

\* ... and PredBB has every argument of the call.
LEMMA ArgumentsKnown ==
  ASSUME AllReached, BaseInv, Came, frames # <<>>, Here.call
  PROVE  body[Len(body)].params \subseteq TopFrame.have \cup {TopFrame.at}
<1> DEFINE f == cut[1]
           s == cut[2]
           p == cut[3]
           B == source[f].blocks
           ext == extractBlocks(source[f], s)
<1>1. /\ ModuleInv /\ Accepted /\ cut # <<>> /\ TopFrame.fn = f /\ TopFrame.at = p
      /\ f \in DOMAIN source /\ source \in Modules
  BY HereFacts, TopFacts DEF BaseInv, ModuleInv, Running
<1>2. /\ Len(B) \in Nat /\ DOMAIN B = 1 .. Len(B)
      /\ \A b \in DOMAIN B : /\ B[b].uses \subseteq 0 .. Len(B)
                             /\ \A v \in B[b].uses : Dominates(B, v, b)
  BY <1>1, SourceFacts
<1>3. /\ 1 \in DOMAIN B \ ext /\ s \in ext /\ ext \subseteq DOMAIN B
      /\ B[p].succs = {s} /\ \A b \in DOMAIN B : B[b].succs \subseteq DOMAIN B
  BY <1>1, CutFacts
<1>4. Fit
  BY <1>1, AcceptedFits
<1>5. p \notin ext /\ \A b \in DOMAIN B : \A n \in B[b].succs : <<b, n>> # <<p, s>> => (b \in ext <=> n \in ext)
  BY <1>4 DEF Fit
<1>6. ComeRound(TopFrame) /\ 0 \in TopFrame.have /\ Origin(TopFrame) = f
  <2>1. ComeRound(TopFrame) /\ body[TopFrame.fn].params \subseteq TopFrame.have
    BY TopFacts DEF Came, TopFrame, FrameInv
  <2>2. body[f].params = {0} /\ f \in DOMAIN source
    BY <1>1 DEF ModuleInv
  <2>3. QED
    BY <1>1, <2>1, <2>2 DEF Origin
<1>7. body[Len(body)].params = liveIns(source[f], ext)
  BY <1>1 DEF ModuleInv, CutInv
<1>8. SUFFICES ASSUME NEW b \in ext, NEW v \in B[b].uses, v \notin ext, v \notin TopFrame.have \cup {TopFrame.at}
               PROVE  FALSE
  BY <1>7 DEF liveIns
<1>9. Reached(B)
  BY <1>1 DEF AllReached
<1>10. v \in DOMAIN B /\ v # b /\ v # 0 /\ v # p /\ b \in DOMAIN B
  BY <1>1, <1>2, <1>3, <1>6, <1>8
<1>11. PICK S \in SUBSET (DOMAIN B \ {v}) : (v = 1 \/ 1 \in S) /\ Closed(B, S, v) /\ b \notin S
  <2>1. Dominates(B, v, b)
    BY <1>2, <1>8, <1>10
  <2>2. QED
    BY <2>1, <1>10 DEF Dominates
<1> HIDE DEF ext, f, s, p
<1>12. p \in S
  BY <1>1, <1>6, <1>8, <1>10, <1>11 DEF ComeRound
<1>13. s \in S
  BY <1>3, <1>8, <1>11, <1>12 DEF Closed
<1> HIDE DEF B
<1> DEFINE T == (DOMAIN B \ ext) \cup (S \cap ext)
<1>14. ASSUME NEW c \in T PROVE B[c].succs \subseteq T
  <2>1. CASE c \in ext
    BY <1>3, <1>5, <1>8, <1>11, <2>1 DEF Closed
  <2>2. CASE c \notin ext /\ c # p
    BY <1>3, <1>5, <2>2
  <2>3. CASE c = p
    BY <1>3, <1>13, <2>3
  <2>4. QED
    BY <2>1, <2>2, <2>3
<1>15. T = DOMAIN B
  BY <1>3, <1>9, <1>14 DEF Reached
<1>16. QED
  BY <1>8, <1>10, <1>11, <1>15

\* If no block is dead: in a module that runs, no operand is ever missing, in the
\* function, in its remainder or in the new function: liveIns are enough, and PredBB
\* has them all.
THEOREM OperandsThere == ASSUME AllReached PROVE Spec => []OperandsAvailable
<1>1. AllReached /\ BaseInv /\ BaseInv' /\ Came /\ [Next]_vars => Came'
  BY CameNext
<1>2. AllReached /\ BaseInv /\ Came => OperandsAvailable
  BY UsesKnown, ArgumentsKnown DEF OperandsAvailable
<1>3. QED
  BY <1>1, <1>2, CameInit, BaseInvariant, PTL DEF Spec
=============================================================================

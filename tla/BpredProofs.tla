----------------------------- MODULE BpredProofs -----------------------------
(***************************************************************************)
(* The branch predictor holds and answers what its Python model does, for  *)
(* every table and stack size, whatever its memories hold at power-up and  *)
(* whatever transfers resolve.                                             *)
(***************************************************************************)
EXTENDS BpredAgree, TLAPS

\* The model's record keeps its fields' ranges.
GoldOK ==
  gold \in [btb : [Idx -> [tag : Int, kind : Kinds, cnt : 0 .. 3, target : Word]],
            ras : [RasIdx -> Word], sp : RasIdx, count : 0 .. RasEntries]

\* Inductive: the predictor and its model in step.
AgreeInv == GoldOK /\ TypeOK /\ HoldsTheModel /\ PredictsAsModel

-----------------------------------------------------------------------------
(* The addresses.                                                          *)

(* SameAddressing: the predictor and the model index, tag and link alike,  *)
(* and an address selects an entry and a tag.                              *)
LEMMA SameAddressing ==
  ASSUME NEW a \in Word
  PROVE  /\ M!Index(a) = IndexOf(a) /\ M!Tag(a) = TagOf(a)
         /\ M!Link(a) = Next4(a)
         /\ IndexOf(a) \in Idx /\ TagOf(a) \in Nat /\ Next4(a) \in Word
<1>1. a \in Nat /\ BtbEntries \in Nat \ {0} /\ WordSize \in Nat \ {0}
  BY SizeAssumption DEF Word
<1>2. IndexOf(a) \in Idx
  <2>1. a \div 4 \in Nat  BY <1>1
  <2>2. (a \div 4) % BtbEntries \in 0 .. BtbEntries - 1  BY <1>1, <2>1
  <2> QED  BY <2>2 DEF IndexOf, Idx
<1>3. TagOf(a) \in Nat
  <2> DEFINE n == 4 * BtbEntries
  <2>1. n \in Nat \ {0}  BY <1>1
  <2> HIDE DEF n
  <2>2. a \div n \in Nat  BY <1>1, <2>1
  <2> QED  BY <2>2 DEF n, TagOf
<1>4. Next4(a) \in Word
  <2>1. a + 4 \in Nat  BY <1>1
  <2>2. (a + 4) % WordSize \in 0 .. WordSize - 1  BY <1>1, <2>1
  <2> QED  BY <2>2 DEF Next4, Word
<1> QED
  BY <1>2, <1>3, <1>4 DEF M!Index, M!Tag, M!Link, IndexOf, TagOf, Next4

(* PointerRange: the stack pointer wraps within the array, alike in both.  *)
LEMMA PointerRange ==
  ASSUME TypeOK
  PROVE  /\ SpInc \in RasIdx /\ SpDec \in RasIdx
         /\ M!SpUp(rasSp) = SpInc /\ M!SpDown(rasSp) = SpDec
         /\ Pushed \in 0 .. RasEntries /\ Popped \in 0 .. RasEntries
  BY SizeAssumption
  DEF TypeOK, RasIdx, SpInc, SpDec, M!SpUp, M!SpDown, Pushed, Popped

(* SameHit: an entry hits in the predictor when it does in the model.      *)
LEMMA SameHit ==
  ASSUME AgreeInv, NEW a \in Word
  PROVE  LET e == gold.btb[IndexOf(a)]
         IN  /\ Hit(a) \in BOOLEAN
             /\ Hit(a) <=> e.tag = TagOf(a)
             /\ Hit(a) => e = btb[IndexOf(a)]
<1>1. IndexOf(a) \in Idx /\ TagOf(a) \in Nat  BY SameAddressing
<1>2. /\ btbValid[IndexOf(a)] \in BOOLEAN
      /\ gold.btb[IndexOf(a)] = IF btbValid[IndexOf(a)] THEN btb[IndexOf(a)]
                                ELSE M!NoEntry
  BY <1>1 DEF AgreeInv, TypeOK, HoldsTheModel
<1> QED  BY <1>1, <1>2 DEF Hit, M!NoEntry

-----------------------------------------------------------------------------
(* A resolved transfer.                                                    *)

(* TableAgrees: it changes the tables alike.                               *)
LEMMA TableAgrees ==
  ASSUME AgreeInv, NEW t \in M!Transfer, TableEdge(Resolved(t))
  PROVE  /\ btb' \in [Idx -> Entry] /\ btbValid' \in [Idx -> BOOLEAN]
         /\ M!TableAfter(gold, t) \in
              [Idx -> [tag : Int, kind : Kinds, cnt : 0 .. 3, target : Word]]
         /\ \A i \in Idx : M!TableAfter(gold, t)[i] =
                             IF btbValid'[i] THEN btb'[i] ELSE M!NoEntry
<1> DEFINE u == Resolved(t)
           k == IndexOf(t.pc)
           e == btb[k]
           g == gold.btb[k]
<1>1. /\ t.pc \in Word /\ t.kind \in Kinds /\ t.taken \in BOOLEAN
      /\ t.target \in Word
  BY DEF M!Transfer, M!Word, Word, M!Kinds, Kinds
<1>2. /\ u.pc = t.pc /\ u.kind = t.kind /\ u.taken = t.taken
      /\ u.target = t.target /\ u.valid = TRUE
  BY DEF Resolved
<1>3. /\ k \in Idx /\ M!Index(t.pc) = k /\ M!Tag(t.pc) = TagOf(t.pc)
      /\ TagOf(t.pc) \in Nat
  BY <1>1, SameAddressing
<1>4. /\ Hit(t.pc) \in BOOLEAN /\ (Hit(t.pc) <=> g.tag = TagOf(t.pc))
      /\ (Hit(t.pc) => g = e)
  BY <1>1, SameHit
<1>5. /\ btb \in [Idx -> Entry] /\ btbValid \in [Idx -> BOOLEAN]
      /\ gold.btb \in [Idx -> [tag : Int, kind : Kinds, cnt : 0 .. 3, target : Word]]
      /\ \A i \in Idx : gold.btb[i] = IF btbValid[i] THEN btb[i] ELSE M!NoEntry
  BY DEF AgreeInv, TypeOK, GoldOK, HoldsTheModel
<1>6. /\ e.tag \in Nat /\ e.kind \in Kinds /\ e.cnt \in 0 .. 3 /\ e.target \in Word
      /\ e = [tag |-> e.tag, kind |-> e.kind, cnt |-> e.cnt, target |-> e.target]
  BY <1>3, <1>5 DEF Entry
<1>7. CountsUp(u) = (g.tag = M!Tag(t.pc) /\ t.kind = "branch")
  BY <1>2, <1>3, <1>4 DEF CountsUp
<1> HIDE DEF u, k, e, g
<1>8. CASE t.taken
  <2> DEFINE new == [tag |-> TagOf(t.pc), kind |-> t.kind,
                     cnt |-> CntTaken(u), target |-> t.target]
  <2>1. CntTaken(u) \in 0 .. 3 /\
        CntTaken(u) = IF CountsUp(u) THEN M!Up(g.cnt) ELSE M!AllocCnt
    <3>1. CountsUp(u) => Hit(t.pc)  BY <1>2 DEF CountsUp
    <3> QED
      BY <1>2, <1>4, <1>6, <3>1 DEF CntTaken, M!Up, M!AllocCnt, e, k
  <2>2. new \in Entry  BY <1>1, <1>3, <2>1 DEF Entry
  <2>3. BtbWe(u) /\ BtbWdata(u) = new
    BY <1>2, <1>8 DEF BtbWe, BtbWdata
  <2> HIDE DEF new
  <2>4. /\ btb' = [btb EXCEPT ![k] = new]
        /\ btbValid' = [btbValid EXCEPT ![k] = TRUE]
    <3>1. TableEdge(u)  BY DEF u
    <3> QED  BY <1>2, <1>8, <2>3, <3>1 DEF TableEdge, k
  <2>5. M!TableAfter(gold, t) = [gold.btb EXCEPT ![k] = new]
    BY <1>3, <1>7, <1>8, <2>1 DEF M!TableAfter, g, new
  <2>6. new \in [tag : Int, kind : Kinds, cnt : 0 .. 3, target : Word]
    BY <2>2 DEF Entry
  <2> QED  BY <1>3, <1>5, <2>2, <2>4, <2>5, <2>6
<1>9. CASE ~t.taken /\ CountsUp(u)
  <2> DEFINE new == [tag |-> e.tag, kind |-> t.kind,
                     cnt |-> M!Down(e.cnt), target |-> e.target]
  <2>1. Hit(t.pc) /\ g = e /\ e.tag = TagOf(t.pc) /\ btbValid[k]
    BY <1>2, <1>4, <1>9 DEF CountsUp, Hit, k, e
  <2>2. M!Down(e.cnt) \in 0 .. 3  BY <1>6 DEF M!Down
  <2>3. new \in Entry  BY <1>1, <1>6, <2>2 DEF Entry
  <2>4. CntNtaken(u) = M!Down(e.cnt)
    BY <1>2 DEF CntNtaken, M!Down, e, k
  <2>5. BtbWe(u) /\ BtbWdata(u) = new
    BY <1>2, <1>9, <2>1, <2>4 DEF BtbWe, BtbWdata, e, k
  <2> HIDE DEF new
  <2>7. btb' = [btb EXCEPT ![k] = new] /\ btbValid' = btbValid
    <3>1. TableEdge(u)  BY DEF u
    <3> QED  BY <1>2, <1>9, <2>5, <3>1 DEF TableEdge, k
  <2>8. M!TableAfter(gold, t) = [gold.btb EXCEPT ![k] = new]
    BY <1>3, <1>7, <1>9, <2>1 DEF M!TableAfter, g, new
  <2>9. new \in [tag : Int, kind : Kinds, cnt : 0 .. 3, target : Word]
    BY <2>3 DEF Entry
  <2> QED  BY <1>3, <1>5, <2>1, <2>3, <2>7, <2>8, <2>9
<1>10. CASE ~t.taken /\ ~CountsUp(u)
  <2>1. btb' = btb /\ btbValid' = btbValid
    <3>1. TableEdge(u)  BY DEF u
    <3> QED  BY <1>2, <1>10, <3>1 DEF TableEdge, BtbWe
  <2>2. M!TableAfter(gold, t) = gold.btb
    BY <1>3, <1>7, <1>10 DEF M!TableAfter, g
  <2> QED  BY <1>5, <2>1, <2>2
<1> QED  BY <1>1, <1>8, <1>9, <1>10

(* StackAgrees: it changes the stacks alike, as far as they are occupied.  *)
LEMMA StackAgrees ==
  ASSUME AgreeInv, NEW t \in M!Transfer, StackEdge(Resolved(t)),
         gold' = M!Update(gold, t)
  PROVE  /\ ras' \in [RasIdx -> Word] /\ rasSp' \in RasIdx
         /\ rasCnt' \in 0 .. RasEntries
         /\ gold'.btb = M!TableAfter(gold, t)
         /\ gold' = [btb |-> gold'.btb, ras |-> gold'.ras, sp |-> gold'.sp,
                     count |-> gold'.count]
         /\ gold'.ras \in [RasIdx -> Word]
         /\ gold'.sp = rasSp' /\ gold'.count = rasCnt'
         /\ \A j \in RasIdx : Below(j)' < rasCnt' => gold'.ras[j] = ras'[j]
<1>1. /\ TypeOK /\ GoldOK /\ gold.sp = rasSp /\ gold.count = rasCnt
      /\ \A j \in RasIdx : Below(j) < rasCnt => gold.ras[j] = ras[j]
  BY DEF AgreeInv, HoldsTheModel
<1>2. /\ ras \in [RasIdx -> Word] /\ rasSp \in RasIdx
      /\ rasCnt \in 0 .. RasEntries /\ gold.ras \in [RasIdx -> Word]
      /\ RasEntries \in Nat /\ RasEntries > 1
      /\ gold = [btb |-> gold.btb, ras |-> gold.ras, sp |-> gold.sp,
                 count |-> gold.count]
  BY <1>1, SizeAssumption DEF TypeOK, GoldOK
<1>3. /\ t.kind \in Kinds /\ M!Link(t.pc) = Next4(t.pc) /\ Next4(t.pc) \in Word
  BY SameAddressing DEF M!Transfer, M!Word, Word, M!Kinds, Kinds
<1>4. CASE t.kind = "call"
  <2>1. /\ ras' = [ras EXCEPT ![rasSp] = Next4(t.pc)]
        /\ rasSp' = SpInc /\ rasCnt' = Pushed
    BY <1>4 DEF StackEdge, Resolved
  <2>2. gold' = [btb |-> M!TableAfter(gold, t),
                 ras |-> [gold.ras EXCEPT ![gold.sp] = M!Link(t.pc)],
                 sp |-> M!SpUp(gold.sp),
                 count |-> IF gold.count = RasEntries THEN RasEntries
                           ELSE gold.count + 1]
    BY <1>4 DEF M!Update
  <2>3. /\ gold'.sp = rasSp' /\ gold'.count = rasCnt'
        /\ gold'.ras = [gold.ras EXCEPT ![rasSp] = Next4(t.pc)]
        /\ gold'.btb = M!TableAfter(gold, t)
    BY <1>1, <1>2, <1>3, <2>1, <2>2, PointerRange DEF Pushed
  <2>4. ASSUME NEW j \in RasIdx, Below(j)' < rasCnt', j # rasSp
        PROVE  Below(j) < rasCnt
    BY <1>2, <2>1, <2>4 DEF Below, RasIdx, SpInc, Pushed
  <2> QED  BY <1>1, <1>2, <1>3, <2>1, <2>2, <2>3, <2>4, PointerRange
<1>5. CASE t.kind = "ret"
  <2>1. ras' = ras /\ rasSp' = SpDec /\ rasCnt' = Popped
    BY <1>5 DEF StackEdge, Resolved
  <2>2. gold' = [btb |-> M!TableAfter(gold, t), ras |-> gold.ras,
                 sp |-> M!SpDown(gold.sp),
                 count |-> IF gold.count = 0 THEN 0 ELSE gold.count - 1]
    <3>1. gold' = [gold EXCEPT !.btb = M!TableAfter(gold, t), !.sp = M!SpDown(@),
                               !.count = IF @ = 0 THEN 0 ELSE @ - 1]
      BY <1>5 DEF M!Update
    <3> QED  BY <1>2, <3>1
  <2>3. gold'.sp = rasSp' /\ gold'.count = rasCnt' /\ gold'.ras = gold.ras
    BY <1>1, <1>2, <2>1, <2>2, PointerRange DEF Popped
  <2>4. ASSUME NEW j \in RasIdx, Below(j)' < rasCnt'
        PROVE  Below(j) < rasCnt
    BY <1>2, <2>1, <2>4 DEF Below, RasIdx, SpDec, Popped
  <2> QED  BY <1>1, <1>2, <2>1, <2>2, <2>3, <2>4, PointerRange
<1>6. CASE t.kind \notin {"call", "ret"}
  <2>1. ras' = ras /\ rasSp' = rasSp /\ rasCnt' = rasCnt
    BY <1>6 DEF StackEdge, Resolved
  <2>2. gold' = [btb |-> M!TableAfter(gold, t), ras |-> gold.ras,
                 sp |-> gold.sp, count |-> gold.count]
    <3>1. gold' = [gold EXCEPT !.btb = M!TableAfter(gold, t)]
      BY <1>6 DEF M!Update
    <3> QED  BY <1>2, <3>1
  <2>3. \A j \in RasIdx : Below(j)' = Below(j)  BY <2>1 DEF Below
  <2> QED  BY <1>1, <1>2, <2>1, <2>2, <2>3
<1> QED  BY <1>4, <1>5, <1>6

-----------------------------------------------------------------------------
(* The prediction register.                                                *)

(* LookupAgrees: both answer a lookup alike.                               *)
LEMMA LookupAgrees ==
  ASSUME AgreeInv, NEW a \in Word
  PROVE  LET l == Lookup(a)
             p == M!Predict(gold, a)
         IN  /\ l = [hit |-> l.hit, taken |-> l.taken, target |-> l.target]
             /\ l.hit \in BOOLEAN /\ l.taken \in BOOLEAN /\ l.target \in Word
             /\ l.taken = p.taken
             /\ p.taken => l.target = p.target
<1> DEFINE e == btb[IndexOf(a)]
<1>1. /\ TypeOK /\ gold.sp = rasSp /\ gold.count = rasCnt
      /\ \A j \in RasIdx : Below(j) < rasCnt => gold.ras[j] = ras[j]
  BY DEF AgreeInv, HoldsTheModel
<1>2. /\ IndexOf(a) \in Idx /\ M!Index(a) = IndexOf(a) /\ M!Tag(a) = TagOf(a)
  BY SameAddressing
<1>3. /\ Hit(a) \in BOOLEAN /\ (Hit(a) <=> gold.btb[IndexOf(a)].tag = TagOf(a))
      /\ (Hit(a) => gold.btb[IndexOf(a)] = e)
  BY SameHit
<1>4. /\ e.kind \in Kinds /\ e.cnt \in 0 .. 3 /\ e.target \in Word
  BY <1>1, <1>2 DEF TypeOK, Entry
<1>5. /\ SpDec \in RasIdx /\ M!SpDown(rasSp) = SpDec /\ ras[SpDec] \in Word
      /\ rasCnt \in 0 .. RasEntries
  BY <1>1, PointerRange DEF TypeOK
<1>6. rasCnt # 0 => gold.ras[SpDec] = ras[SpDec]
  <2>1. Below(SpDec) = 0
    BY <1>1, SizeAssumption DEF TypeOK, Below, SpDec, RasIdx
  <2> QED  BY <1>1, <1>5, <2>1
<1> DEFINE l == Lookup(a)
           p == M!Predict(gold, a)
<1>7. /\ l = [hit |-> l.hit, taken |-> l.taken, target |-> l.target]
      /\ l.hit = Hit(a)
      /\ l.target = IF e.kind = "ret" THEN ras[SpDec] ELSE e.target
      /\ ~Hit(a) => l.taken = FALSE
  BY DEF Lookup
<1>8. p = IF Hit(a) THEN M!Answer(gold, e) ELSE M!NotTaken
  BY <1>2, <1>3 DEF M!Predict
<1> HIDE DEF e
<1>9. CASE Hit(a) /\ e.kind = "branch"
  <2>1. l.taken = (e.cnt >= 2)  BY <1>9 DEF Lookup, e
  <2>2. p = IF e.cnt >= 2 THEN [taken |-> TRUE, target |-> e.target] ELSE M!NotTaken
    BY <1>8, <1>9 DEF M!Answer
  <2> HIDE DEF l, p
  <2>3. l.taken \in BOOLEAN /\ l.target \in Word  BY <1>4, <1>7, <1>9, <2>1
  <2>4. l.taken = p.taken /\ (p.taken => l.target = p.target)
    <3>1. CASE e.cnt >= 2
      <4>1. p.taken = TRUE /\ p.target = e.target  BY <2>2, <3>1
      <4>2. l.taken = TRUE /\ l.target = e.target  BY <1>7, <1>9, <2>1, <3>1
      <4> QED  BY <4>1, <4>2
    <3>2. CASE ~(e.cnt >= 2)
      <4>1. p.taken = FALSE  BY <2>2, <3>2 DEF M!NotTaken
      <4>2. l.taken = FALSE  BY <2>1, <2>3, <3>2, Zenon
      <4> QED  BY <4>1, <4>2
    <3> QED  BY <3>1, <3>2
  <2> QED  BY <1>3, <1>7, <2>3, <2>4 DEF l, p
<1>10. CASE Hit(a) /\ e.kind = "ret"
  <2>1. l.taken = (rasCnt # 0)  BY <1>10 DEF Lookup, e
  <2>2. p = IF gold.count > 0
            THEN [taken |-> TRUE, target |-> gold.ras[M!SpDown(gold.sp)]]
            ELSE M!NotTaken
    BY <1>8, <1>10 DEF M!Answer
  <2> HIDE DEF l, p
  <2>3. l.taken \in BOOLEAN /\ l.target \in Word  BY <1>5, <1>7, <1>10, <2>1
  <2>4. l.taken = p.taken /\ (p.taken => l.target = p.target)
    <3>1. CASE rasCnt # 0
      <4>1. gold.count > 0  BY <1>1, <1>5, <3>1 DEF RasIdx
      <4>2. p.taken = TRUE /\ p.target = ras[SpDec]
        BY <1>1, <1>5, <1>6, <2>2, <3>1, <4>1
      <4>3. l.taken = TRUE /\ l.target = ras[SpDec]
        BY <1>7, <1>10, <2>1, <3>1
      <4> QED  BY <4>2, <4>3
    <3>2. CASE rasCnt = 0
      <4>1. p.taken = FALSE  BY <1>1, <2>2, <3>2 DEF M!NotTaken
      <4>2. l.taken = FALSE  BY <2>1, <3>2
      <4> QED  BY <4>1, <4>2
    <3> QED  BY <3>1, <3>2
  <2> QED  BY <1>3, <1>7, <2>3, <2>4 DEF l, p
<1>11. CASE Hit(a) /\ e.kind \notin {"branch", "ret"}
  <2>1. l.taken = TRUE  BY <1>11 DEF Lookup, e
  <2>2. p = [taken |-> TRUE, target |-> e.target]
    BY <1>8, <1>11 DEF M!Answer
  <2> HIDE DEF l, p
  <2>3. l.target = e.target /\ p.taken = TRUE /\ p.target = e.target
    BY <1>7, <1>11, <2>2
  <2> QED  BY <1>3, <1>4, <1>7, <2>1, <2>3 DEF l, p
<1>12. CASE ~Hit(a)
  <2>1. p = M!NotTaken  BY <1>8, <1>12
  <2> HIDE DEF l, p
  <2>2. p.taken = FALSE /\ l.taken = FALSE
    BY <1>7, <1>12, <2>1 DEF M!NotTaken
  <2>3. l.target \in Word  BY <1>4, <1>5, <1>7
  <2> QED  BY <1>3, <1>7, <2>2, <2>3 DEF l, p
<1> QED  BY <1>3, <1>9, <1>10, <1>11, <1>12

(* PredAgrees: whatever is looked up, flushed or held, the register keeps  *)
(* the model's answer.                                                     *)
LEMMA PredAgrees ==
  ASSUME AgreeInv, NEW a \in Word, NEW flush \in BOOLEAN,
         NEW hold \in BOOLEAN, PredEdge(a, flush, hold),
         Answered(a, flush, hold)
  PROVE  /\ pred' \in [taken : BOOLEAN, target : Word, hit : BOOLEAN]
         /\ PredictsAsModel'
<1> DEFINE l == Lookup(a)
           p == M!Predict(gold, a)
<1>1. /\ l = [hit |-> l.hit, taken |-> l.taken, target |-> l.target]
      /\ l.hit \in BOOLEAN /\ l.taken \in BOOLEAN /\ l.target \in Word
      /\ l.taken = p.taken /\ (p.taken => l.target = p.target)
  BY LookupAgrees
<1>2. CASE hold /\ ~flush
  BY <1>2 DEF PredEdge, Answered, AgreeInv, TypeOK, PredictsAsModel
<1>3. CASE ~(hold /\ ~flush)
  <2>1. pred' = [l EXCEPT !.taken = @ /\ ~flush, !.hit = @ /\ ~flush]
    BY <1>3 DEF PredEdge
  <2>2. answer' = IF flush THEN M!NotTaken ELSE p
    BY <1>3 DEF Answered
  <2> HIDE DEF l, p
  <2>3. pred' = [hit |-> l.hit /\ ~flush, taken |-> l.taken /\ ~flush,
                 target |-> l.target]
    BY <1>1, <2>1
  <2> QED  BY <1>1, <2>2, <2>3 DEF PredictsAsModel, M!NotTaken
<1> QED  BY <1>2, <1>3

-----------------------------------------------------------------------------
(* AgreeStep: every edge, and a reset, keeps the two in step.              *)
LEMMA AgreeStep ==
  ASSUME AgreeInv, AgreeNext
  PROVE  AgreeInv'
<1>1. ASSUME NEW a \in Word, NEW flush \in BOOLEAN, NEW t \in Resolvable,
             Resolve(t, a, flush)
      PROVE  AgreeInv'
  <2>1. t \in M!Transfer  BY ResolvableAssumption
  <2>2. /\ TableEdge(Resolved(t)) /\ StackEdge(Resolved(t))
        /\ PredEdge(a, flush, FALSE) /\ Answered(a, flush, FALSE)
        /\ gold' = M!Update(gold, t)
    BY <1>1 DEF Resolve, Edge
  <2>3. /\ btb' \in [Idx -> Entry] /\ btbValid' \in [Idx -> BOOLEAN]
        /\ M!TableAfter(gold, t) \in
             [Idx -> [tag : Int, kind : Kinds, cnt : 0 .. 3, target : Word]]
        /\ \A i \in Idx : M!TableAfter(gold, t)[i] =
                            IF btbValid'[i] THEN btb'[i] ELSE M!NoEntry
    BY <2>1, <2>2, TableAgrees
  <2>4. /\ ras' \in [RasIdx -> Word] /\ rasSp' \in RasIdx
        /\ rasCnt' \in 0 .. RasEntries
        /\ gold'.btb = M!TableAfter(gold, t)
        /\ gold' = [btb |-> gold'.btb, ras |-> gold'.ras, sp |-> gold'.sp,
                    count |-> gold'.count]
        /\ gold'.ras \in [RasIdx -> Word]
        /\ gold'.sp = rasSp' /\ gold'.count = rasCnt'
        /\ \A j \in RasIdx : Below(j)' < rasCnt' => gold'.ras[j] = ras'[j]
    BY <2>1, <2>2, StackAgrees
  <2>5. /\ pred' \in [taken : BOOLEAN, target : Word, hit : BOOLEAN]
        /\ PredictsAsModel'
    BY <2>2, PredAgrees
  <2>6. GoldOK'  BY <2>3, <2>4 DEF GoldOK
  <2>7. TypeOK'  BY <2>3, <2>4, <2>5 DEF TypeOK
  <2>8. HoldsTheModel'  BY <2>3, <2>4 DEF HoldsTheModel
  <2> QED  BY <2>5, <2>6, <2>7, <2>8 DEF AgreeInv
<1>2. ASSUME NEW a \in Word, NEW flush \in BOOLEAN, NEW hold \in BOOLEAN,
             Idle(a, flush, hold)
      PROVE  AgreeInv'
  <2>1. /\ UNCHANGED <<btb, btbValid, ras, rasSp, rasCnt, gold>>
        /\ PredEdge(a, flush, hold) /\ Answered(a, flush, hold)
    BY <1>2 DEF Idle, Edge, TableEdge, StackEdge, BtbWe, NoUpd
  <2>2. /\ pred' \in [taken : BOOLEAN, target : Word, hit : BOOLEAN]
        /\ PredictsAsModel'
    BY <2>1, PredAgrees
  <2>3. GoldOK' /\ TypeOK'
    BY <2>1, <2>2 DEF AgreeInv, GoldOK, TypeOK
  <2>4. HoldsTheModel'
    BY <2>1 DEF AgreeInv, HoldsTheModel, Below
  <2> QED  BY <2>2, <2>3, <2>4 DEF AgreeInv
<1>3. CASE AgreeReset
  <2>1. /\ Reset /\ gold' = M!NewBPred /\ answer' = M!NotTaken
    BY <1>3 DEF AgreeReset
  <2> QED
    BY <2>1, SizeAssumption
    DEF AgreeInv, GoldOK, TypeOK, HoldsTheModel, PredictsAsModel, Reset,
        NoPred, M!NewBPred, M!NoEntry, M!NotTaken, M!Idx, M!RasIdx, Idx,
        RasIdx, Word, Kinds, Below
<1> QED  BY <1>1, <1>2, <1>3 DEF AgreeNext

(* AgreeStart: out of power-up the two are in step.                        *)
LEMMA AgreeStart == AgreeInit => AgreeInv
  BY SizeAssumption
  DEF AgreeInit, Init, AgreeInv, GoldOK, TypeOK, HoldsTheModel,
      PredictsAsModel, NoPred, M!NewBPred, M!NoEntry, M!NotTaken, M!Idx,
      M!RasIdx, Idx, RasIdx, Word, Kinds, Below

(* AgreeKept: AgreeInv is inductive.                                       *)
LEMMA AgreeKept == AgreeInv /\ [AgreeNext]_allVars => AgreeInv'
<1>1. AgreeInv /\ UNCHANGED allVars => AgreeInv'
  BY DEF allVars, bpVars, watch, AgreeInv, GoldOK, TypeOK, HoldsTheModel,
     PredictsAsModel, Below
<1> QED  BY <1>1, AgreeStep

(* PredictorAgrees: the predictor holds and answers what the Python model  *)
(* does, for every table and stack size and every stream of transfers,     *)
(* stalls, flushes and resets (rvntt_bpred against model/bpred.py).        *)
THEOREM PredictorAgrees == AgreeSpec => []AgreesWithModel
<1>1. AgreeInv => AgreesWithModel  BY DEF AgreeInv, AgreesWithModel
<1> QED  BY <1>1, AgreeStart, AgreeKept, PTL DEF AgreeSpec

-----------------------------------------------------------------------------
(* The return stack.                                                       *)

\* Inductive together with AgreeInv.
StackInv == calls \in Seq(Word) /\ RasIsStack

(* StackKeeps: a resolved transfer keeps the array a stack of the calls.   *)
LEMMA StackKeeps ==
  ASSUME AgreeInv, StackInv, NEW t \in M!Transfer, StackEdge(Resolved(t)),
         calls' = CallsAfter(t)
  PROVE  StackInv'
<1>1. /\ ras \in [RasIdx -> Word] /\ rasSp \in RasIdx
      /\ rasCnt \in 0 .. RasEntries /\ RasEntries \in Nat /\ RasEntries > 1
      /\ calls \in Seq(Word) /\ rasCnt = Len(calls) /\ Len(calls) \in Nat
      /\ \A j \in RasIdx :
           Below(j) < rasCnt => ras[j] = calls[Len(calls) - Below(j)]
  BY SizeAssumption DEF AgreeInv, TypeOK, StackInv, RasIsStack
<1>2. Next4(t.pc) \in Word
  BY SameAddressing DEF M!Transfer, M!Word, Word
<1> DEFINE x == Next4(t.pc)
<1>3. \A j \in RasIdx : Below(j) \in 0 .. RasEntries - 1
  BY <1>1 DEF Below, RasIdx
<1>4. CASE t.kind = "call"
  <2>1. /\ ras' = [ras EXCEPT ![rasSp] = x]
        /\ rasSp' = SpInc /\ rasCnt' = Pushed
    BY <1>4 DEF StackEdge, Resolved
  <2> HIDE DEF x
  <2>2. ASSUME NEW j \in RasIdx, j = rasSp
        PROVE  Below(j)' = 0
    BY <1>1, <2>1, <2>2 DEF Below, RasIdx, SpInc
  <2>3. ASSUME NEW j \in RasIdx, j # rasSp
        PROVE  Below(j)' = Below(j) + 1
    BY <1>1, <2>1, <2>3 DEF Below, RasIdx, SpInc
  <2>4. CASE Len(calls) < RasEntries
    <3>1. calls' = Append(calls, x) /\ rasCnt' = Len(calls) + 1
      BY <1>1, <1>4, <2>1, <2>4 DEF CallsAfter, Pushed, x
    <3>2. /\ calls' \in Seq(Word) /\ Len(calls') = Len(calls) + 1
          /\ calls'[Len(calls) + 1] = x
          /\ \A n \in 1 .. Len(calls) : calls'[n] = calls[n]
      BY <1>1, <1>2, <3>1 DEF x
    <3>3. ASSUME NEW j \in RasIdx, Below(j)' < rasCnt'
          PROVE  ras'[j] = calls'[Len(calls') - Below(j)']
      <4>1. CASE j = rasSp
        BY <1>1, <2>1, <2>2, <3>2, <3>3, <4>1
      <4>2. CASE j # rasSp
        <5>1. Below(j) < rasCnt /\ Below(j)' = Below(j) + 1
          BY <1>1, <1>3, <2>3, <3>1, <3>3, <4>2
        <5>2. Len(calls) - Below(j) \in 1 .. Len(calls)
          BY <1>1, <1>3, <5>1
        <5>3. Len(calls') - Below(j)' = Len(calls) - Below(j)
          BY <1>1, <1>3, <3>2, <5>1
        <5> QED  BY <1>1, <2>1, <3>2, <4>2, <5>1, <5>2, <5>3
      <4> QED  BY <4>1, <4>2
    <3> QED  BY <3>1, <3>2, <3>3 DEF StackInv, RasIsStack
  <2>5. CASE Len(calls) = RasEntries
    <3>1. calls' = Append(Tail(calls), x) /\ rasCnt' = RasEntries
      BY <1>1, <1>4, <2>1, <2>5 DEF CallsAfter, Pushed, x
    <3>2. /\ Tail(calls) \in Seq(Word) /\ Len(Tail(calls)) = Len(calls) - 1
          /\ \A n \in 1 .. Len(calls) - 1 : Tail(calls)[n] = calls[n + 1]
      BY <1>1, <2>5
    <3>3. /\ calls' \in Seq(Word) /\ Len(calls') = Len(calls)
          /\ calls'[Len(calls)] = x
          /\ \A n \in 1 .. Len(calls) - 1 : calls'[n] = calls[n + 1]
      BY <1>1, <1>2, <3>1, <3>2 DEF x
    <3>4. ASSUME NEW j \in RasIdx, Below(j)' < rasCnt'
          PROVE  ras'[j] = calls'[Len(calls') - Below(j)']
      <4>1. CASE j = rasSp
        BY <1>1, <2>1, <2>2, <3>3, <3>4, <4>1
      <4>2. CASE j # rasSp
        <5>1. Below(j) < rasCnt /\ Below(j)' = Below(j) + 1
          BY <1>1, <1>3, <2>3, <2>5, <4>2
        <5>2. Below(j) + 1 < Len(calls)
          BY <1>1, <1>3, <2>5, <3>1, <3>4, <5>1
        <5>3. Len(calls) - Below(j) - 1 \in 1 .. Len(calls) - 1
          BY <1>1, <1>3, <5>2
        <5>4. calls'[Len(calls) - Below(j) - 1] = calls[Len(calls) - Below(j)]
          BY <1>1, <1>3, <3>3, <5>3
        <5>5. Len(calls') - Below(j)' = Len(calls) - Below(j) - 1
          BY <1>1, <1>3, <3>3, <5>1
        <5> QED  BY <1>1, <2>1, <4>2, <5>1, <5>4, <5>5
      <4> QED  BY <4>1, <4>2
    <3> QED  BY <1>1, <2>5, <3>1, <3>3, <3>4 DEF StackInv, RasIsStack
  <2> QED  BY <1>1, <2>4, <2>5
<1>5. CASE t.kind = "ret"
  <2>1. ras' = ras /\ rasSp' = SpDec /\ rasCnt' = Popped
    BY <1>5 DEF StackEdge, Resolved
  <2>2. ASSUME NEW j \in RasIdx, Below(j)' < rasCnt'
        PROVE  Below(j)' = Below(j) - 1
    BY <1>1, <2>1, <2>2 DEF Below, RasIdx, SpDec, Popped
  <2>3. CASE calls = <<>>
    <3>1. calls' = calls  BY <1>5, <2>3 DEF CallsAfter
    <3>2. Len(calls) = 0  BY <2>3
    <3>3. rasCnt' = 0  BY <1>1, <2>1, <3>2 DEF Popped
    <3>4. \A j \in RasIdx : ~ (Below(j)' < 0)
      BY <1>1, <2>1 DEF Below, RasIdx, SpDec
    <3> QED  BY <1>1, <3>1, <3>2, <3>3, <3>4 DEF StackInv, RasIsStack
  <2>4. CASE calls # <<>>
    <3>1. calls' = SubSeq(calls, 1, Len(calls) - 1)
      BY <1>5, <2>4 DEF CallsAfter
    <3>2. Len(calls) > 0  BY <1>1, <2>4
    <3>3. /\ calls' \in Seq(Word) /\ Len(calls') = Len(calls) - 1
          /\ \A n \in 1 .. Len(calls) - 1 : calls'[n] = calls[n]
      BY <1>1, <3>1, <3>2
    <3>4. rasCnt' = Len(calls) - 1  BY <1>1, <2>1, <3>2 DEF Popped
    <3>5. ASSUME NEW j \in RasIdx, Below(j)' < rasCnt'
          PROVE  ras'[j] = calls'[Len(calls') - Below(j)']
      <4>1. Below(j)' = Below(j) - 1  BY <2>2, <3>5
      <4>2. Below(j)' \in Nat
        BY <1>1, <2>1 DEF Below, RasIdx, SpDec
      <4>3. Below(j) < rasCnt /\ Len(calls) - Below(j) \in 1 .. Len(calls) - 1
        BY <1>1, <1>3, <3>4, <3>5, <4>1, <4>2
      <4>4. Len(calls') - Below(j)' = Len(calls) - Below(j)
        <5>1. Len(calls') = Len(calls) - 1 /\ Len(calls) \in Nat
          BY <1>1, <3>3
        <5>2. Below(j) \in 0 .. RasEntries - 1  BY <1>3, <3>5
        <5>3. Below(j) \in Int  BY <1>1, <5>2
        <5> QED  BY <4>1, <5>1, <5>3
      <4> QED  BY <1>1, <2>1, <3>3, <4>3, <4>4
    <3> QED  BY <3>3, <3>4, <3>5 DEF StackInv, RasIsStack
  <2> QED  BY <2>3, <2>4
<1>6. CASE t.kind \notin {"call", "ret"}
  <2>1. ras' = ras /\ rasSp' = rasSp /\ rasCnt' = rasCnt
    BY <1>6 DEF StackEdge, Resolved
  <2>2. calls' = calls  BY <1>6 DEF CallsAfter
  <2> QED  BY <2>1, <2>2 DEF StackInv, RasIsStack, Below
<1> QED  BY <1>4, <1>5, <1>6

(* StackRemembers: pointer, occupancy and array are a stack of the last    *)
(* RasEntries calls not yet returned from, for every size of the stack,    *)
(* through overflow, underflow and resets (ras_sp_q and ras_cnt_q).        *)
THEOREM StackRemembers == AgreeSpec => []RasIsStack
<1>1. AgreeInit => AgreeInv /\ StackInv
  <2>1. AgreeInit => StackInv
    BY SizeAssumption DEF AgreeInit, Init, StackInv, RasIsStack, Below, RasIdx
  <2> QED  BY <2>1, AgreeStart
<1>2. AgreeInv /\ StackInv /\ [AgreeNext]_allVars => AgreeInv' /\ StackInv'
  <2> SUFFICES ASSUME AgreeInv, StackInv, [AgreeNext]_allVars
               PROVE  StackInv'
    BY AgreeKept
  <2>1. ASSUME NEW a \in Word, NEW flush \in BOOLEAN, NEW t \in Resolvable,
               Resolve(t, a, flush)
        PROVE  StackInv'
    <3>1. t \in M!Transfer  BY ResolvableAssumption
    <3>2. StackEdge(Resolved(t)) /\ calls' = CallsAfter(t)
      BY <2>1 DEF Resolve, Edge
    <3> QED  BY <3>1, <3>2, StackKeeps
  <2>2. ASSUME NEW a \in Word, NEW flush \in BOOLEAN, NEW hold \in BOOLEAN,
               Idle(a, flush, hold)
        PROVE  StackInv'
    <3>1. UNCHANGED <<ras, rasSp, rasCnt, calls>>
      BY <2>2 DEF Idle, Edge, StackEdge, NoUpd
    <3> QED  BY <3>1 DEF StackInv, RasIsStack, Below
  <2>3. CASE AgreeReset
    BY <2>3, SizeAssumption
    DEF AgreeReset, Reset, StackInv, RasIsStack, Below, RasIdx
  <2>4. CASE UNCHANGED allVars
    BY <2>4 DEF allVars, bpVars, watch, StackInv, RasIsStack, Below
  <2> QED  BY <2>1, <2>2, <2>3, <2>4 DEF AgreeNext
<1>3. StackInv => RasIsStack  BY DEF StackInv
<1> QED  BY <1>1, <1>2, <1>3, PTL DEF AgreeSpec

-----------------------------------------------------------------------------
(* The counters.                                                           *)

\* q and r are what x leaves when divided by n.
Splits(n, x, q, r) == q \in Nat /\ r \in 0 .. n - 1 /\ x = (n * q) + r

(* SplitUnique: one quotient and one remainder.                            *)
LEMMA SplitUnique ==
  ASSUME NEW n \in Nat \ {0}, NEW x \in Nat, NEW q, NEW r, NEW k, NEW s,
         Splits(n, x, q, r), Splits(n, x, k, s)
  PROVE  q = k /\ r = s
<1>1. /\ q \in Nat /\ k \in Nat /\ r \in 0 .. n - 1 /\ s \in 0 .. n - 1
      /\ (n * q) + r = (n * k) + s
  BY DEF Splits
<1>2. q = k
  <2>1. CASE q < k
    <3>1. PICK d \in Nat : k = q + 1 + d  BY <1>1, <2>1
    <3>2. n * k = (n * q) + n + (n * d)  BY <1>1, <3>1
    <3>3. n * d >= 0  BY <3>1
    <3>4. n * q \in Int /\ n * k \in Int /\ n * d \in Int  BY <1>1, <3>1
    <3> QED  BY <1>1, <3>2, <3>3, <3>4
  <2>2. CASE k < q
    <3>1. PICK d \in Nat : q = k + 1 + d  BY <1>1, <2>2
    <3>2. n * q = (n * k) + n + (n * d)  BY <1>1, <3>1
    <3>3. n * d >= 0  BY <3>1
    <3>4. n * q \in Int /\ n * k \in Int /\ n * d \in Int  BY <1>1, <3>1
    <3> QED  BY <1>1, <3>2, <3>3, <3>4
  <2> QED  BY <1>1, <2>1, <2>2
<1>3. n * q = n * k  BY <1>2
<1>4. n * q \in Int /\ n * k \in Int  BY <1>1
<1> QED  BY <1>1, <1>2, <1>3, <1>4

(* Euclid: \div and % split a number.                                      *)
LEMMA Euclid ==
  ASSUME NEW n \in Nat \ {0}, NEW x \in Nat
  PROVE  Splits(n, x, x \div n, x % n)
<1>1. x \div n \in Nat /\ x % n \in 0 .. n - 1  OBVIOUS
<1>2. x = (n * (x \div n)) + (x % n)  OBVIOUS
<1> QED  BY <1>1, <1>2 DEF Splits

(* TagIsHigh: the tag of an address is its word number divided by the      *)
(* size of the table.                                                      *)
LEMMA TagIsHigh ==
  ASSUME NEW a \in Word, a % 4 = 0
  PROVE  TagOf(a) = (a \div 4) \div BtbEntries
<1> DEFINE q == a \div 4
           k == q \div BtbEntries
           r == q % BtbEntries
           n == 4 * BtbEntries
<1>1. a \in Nat /\ BtbEntries \in Nat \ {0}  BY SizeAssumption DEF Word
<1>2. q \in Nat /\ a = 4 * q  BY <1>1
<1> HIDE DEF q
<1>3. Splits(BtbEntries, q, k, r)  BY <1>1, <1>2, Euclid
<1> HIDE DEF k, r
<1>4. k \in Nat /\ r \in 0 .. BtbEntries - 1 /\ q = (BtbEntries * k) + r
  BY <1>3 DEF Splits
<1>5. n \in Nat \ {0} /\ 4 * (BtbEntries * k) = n * k  BY <1>1, <1>4
<1>6. a = (n * k) + (4 * r)
  <2>1. BtbEntries * k \in Int  BY <1>1, <1>4
  <2> QED  BY <1>1, <1>2, <1>4, <1>5, <2>1
<1>7. 4 * r \in 0 .. n - 1  BY <1>1, <1>4
<1> HIDE DEF n
<1>8. Splits(n, a, k, 4 * r)  BY <1>4, <1>6, <1>7 DEF Splits
<1>9. Splits(n, a, a \div n, a % n)  BY <1>1, <1>5, Euclid
<1>10. a \div n = k  BY <1>1, <1>5, <1>8, <1>9, SplitUnique
<1> QED  BY <1>10 DEF TagOf, n, k, q

(* OneAddress: an entry and a tag belong to one word address.              *)
LEMMA OneAddress ==
  ASSUME NEW a \in Word, NEW b \in Word, a % 4 = 0, b % 4 = 0,
         IndexOf(a) = IndexOf(b), TagOf(a) = TagOf(b)
  PROVE  a = b
<1> DEFINE q == a \div 4
           p == b \div 4
<1>1. a \in Nat /\ b \in Nat /\ BtbEntries \in Nat \ {0}
  BY SizeAssumption DEF Word
<1>2. q \in Nat /\ p \in Nat /\ a = 4 * q /\ b = 4 * p  BY <1>1
<1>3. q % BtbEntries = p % BtbEntries  BY DEF IndexOf
<1>4. q \div BtbEntries = p \div BtbEntries  BY TagIsHigh
<1> HIDE DEF q, p
<1>5. /\ q = (BtbEntries * (q \div BtbEntries)) + (q % BtbEntries)
      /\ p = (BtbEntries * (p \div BtbEntries)) + (p % BtbEntries)
  BY <1>1, <1>2, Euclid DEF Splits
<1>6. q = p  BY <1>3, <1>4, <1>5
<1> QED  BY <1>2, <1>6

\* The addresses branches resolve at.
BranchPcs == {t.pc : t \in {u \in Resolvable : u.kind = "branch"}}

\* The two-bit counter c after the outcomes o.
Counts(o, c) ==
  LET n == Len(o)
  IN  /\ o[n] => c >= 1
      /\ ~o[n] => c <= 2
      /\ n = 2 /\ o[1] /\ o[2] => c >= 2
      /\ n = 2 /\ ~o[1] /\ ~o[2] => c <= 1

\* Inductive together with AgreeInv.
CounterInv ==
  /\ DOMAIN last \subseteq BranchPcs
  /\ \A pc \in DOMAIN last :
       /\ last[pc] \in Seq(BOOLEAN) /\ Len(last[pc]) \in 1 .. 2
       /\ Hit(pc) => /\ btb[IndexOf(pc)].kind = "branch"
                     /\ Counts(last[pc], btb[IndexOf(pc)].cnt)

(* AlignedBranch: a branch resolves at a word address.                     *)
LEMMA AlignedBranch ==
  ASSUME NEW pc \in BranchPcs
  PROVE  pc \in Word /\ pc % 4 = 0
  BY ResolvableAssumption, TextAssumption
  DEF BranchPcs, M!Transfer, M!Word, Word

(* OthersKeep: a transfer elsewhere never gives a branch an entry; it      *)
(* leaves the one the branch has, or evicts it.                            *)
LEMMA OthersKeep ==
  ASSUME TypeOK, NEW t \in Resolvable, TableEdge(Resolved(t)),
         NEW pc \in BranchPcs, t.pc # pc, Hit(pc)'
  PROVE  Hit(pc) /\ btb'[IndexOf(pc)] = btb[IndexOf(pc)]
<1> DEFINE u == Resolved(t)
<1>1. u.pc = t.pc /\ u.taken = t.taken /\ u.valid = TRUE  BY DEF Resolved
<1>2. t.pc \in Word /\ t.pc % 4 = 0 /\ t.taken \in BOOLEAN
  BY ResolvableAssumption, TextAssumption DEF M!Transfer, M!Word, Word
<1>3. pc \in Word /\ pc % 4 = 0  BY AlignedBranch
<1>4. IndexOf(pc) \in Idx /\ IndexOf(t.pc) \in Idx
  BY <1>2, <1>3, SameAddressing
<1>5. ~ (IndexOf(pc) = IndexOf(t.pc) /\ TagOf(pc) = TagOf(t.pc))
  BY <1>2, <1>3, OneAddress
<1>6. btb \in [Idx -> Entry] /\ btbValid \in [Idx -> BOOLEAN]  BY DEF TypeOK
<1>7. /\ btb' = IF BtbWe(u) THEN [btb EXCEPT ![IndexOf(t.pc)] = BtbWdata(u)]
                ELSE btb
      /\ btbValid' = IF t.taken THEN [btbValid EXCEPT ![IndexOf(t.pc)] = TRUE]
                     ELSE btbValid
  BY <1>1 DEF TableEdge
<1>8. BtbWe(u) => BtbWdata(u).tag = TagOf(t.pc)  BY <1>1 DEF BtbWdata
<1>9. t.taken => BtbWe(u)  BY <1>1 DEF BtbWe
<1>10. btbValid'[IndexOf(pc)] /\ btb'[IndexOf(pc)].tag = TagOf(pc)  BY DEF Hit
<1> HIDE DEF u
<1>11. CASE IndexOf(pc) # IndexOf(t.pc)
  BY <1>4, <1>6, <1>7, <1>10, <1>11 DEF Hit
<1>12. CASE IndexOf(pc) = IndexOf(t.pc)
  <2>1. ~BtbWe(u)
    <3>1. SUFFICES ASSUME BtbWe(u)  PROVE FALSE  OBVIOUS
    <3>2. btb'[IndexOf(pc)] = BtbWdata(u)  BY <1>4, <1>6, <1>7, <1>12, <3>1
    <3> QED  BY <1>5, <1>8, <1>10, <1>12, <3>1, <3>2
  <2> QED  BY <1>7, <1>9, <1>10, <2>1 DEF Hit
<1> QED  BY <1>11, <1>12

(* BranchCounts: a branch that resolves counts its own entry, or allocates *)
(* one when it is taken and has none.                                      *)
LEMMA BranchCounts ==
  ASSUME TypeOK, NEW t \in Resolvable, TableEdge(Resolved(t)),
         t.kind = "branch", Hit(t.pc)'
  PROVE  LET c == btb[IndexOf(t.pc)].cnt
             n == btb'[IndexOf(t.pc)]
         IN  /\ n.kind = "branch"
             /\ c \in 0 .. 3
             /\ t.taken => n.cnt = IF Hit(t.pc) THEN IF c = 3 THEN 3 ELSE c + 1
                                   ELSE 2
             /\ ~t.taken => Hit(t.pc) /\ n.cnt = IF c = 0 THEN 0 ELSE c - 1
<1> DEFINE u == Resolved(t)
           i == IndexOf(t.pc)
           c == btb[i].cnt
<1>1. /\ u.pc = t.pc /\ u.taken = t.taken /\ u.valid = TRUE
      /\ u.kind = t.kind
  BY DEF Resolved
<1>2. t.pc \in Word /\ t.taken \in BOOLEAN
  BY ResolvableAssumption DEF M!Transfer, M!Word, Word
<1>3. i \in Idx  BY <1>2, SameAddressing
<1>4. btb \in [Idx -> Entry] /\ btbValid \in [Idx -> BOOLEAN]  BY DEF TypeOK
<1>5. c \in 0 .. 3  BY <1>3, <1>4 DEF Entry
<1>6. CountsUp(u) <=> Hit(t.pc)  BY <1>1 DEF CountsUp
<1>7. BtbWe(u) <=> (t.taken \/ Hit(t.pc))  BY <1>1, <1>6 DEF BtbWe
<1>8. /\ btb' = IF BtbWe(u) THEN [btb EXCEPT ![i] = BtbWdata(u)] ELSE btb
      /\ btbValid' = IF t.taken THEN [btbValid EXCEPT ![i] = TRUE] ELSE btbValid
  BY <1>1 DEF TableEdge
<1>9. /\ BtbWdata(u).kind = "branch"
      /\ BtbWdata(u).cnt = IF t.taken THEN CntTaken(u) ELSE CntNtaken(u)
  BY <1>1 DEF BtbWdata
<1>10. /\ ~CountsUp(u) => CntTaken(u) = 2
       /\ CountsUp(u) /\ c = 3 => CntTaken(u) = 3
       /\ CountsUp(u) /\ c # 3 => CntTaken(u) = c + 1
  BY <1>1, Zenon DEF CntTaken
<1>11. CntNtaken(u) = IF c = 0 THEN 0 ELSE c - 1  BY <1>1 DEF CntNtaken
<1>12. btbValid'[i] /\ btb'[i].tag = TagOf(t.pc)  BY DEF Hit
<1> HIDE DEF u, c
<1>13. CASE t.taken \/ Hit(t.pc)
  <2>1. btb'[i] = BtbWdata(u)  BY <1>3, <1>4, <1>7, <1>8, <1>13
  <2> QED  BY <1>2, <1>5, <1>6, <1>9, <1>10, <1>11, <1>13, <2>1 DEF c
<1>14. CASE ~t.taken /\ ~Hit(t.pc)
  <2>1. btb' = btb /\ btbValid' = btbValid  BY <1>7, <1>8, <1>14
  <2> QED  BY <1>12, <1>14, <2>1 DEF Hit
<1> QED  BY <1>13, <1>14

(* TwoOutcomes: the last outcome and the one before it, kept as a branch   *)
(* resolves.                                                               *)
LEMMA TwoOutcomes ==
  ASSUME NEW o \in Seq(BOOLEAN), Len(o) \in 0 .. 2, NEW x \in BOOLEAN
  PROVE  LET seen == Append(o, x)
             two  == IF Len(seen) > 2 THEN Tail(seen) ELSE seen
         IN  /\ two \in Seq(BOOLEAN) /\ Len(two) \in 1 .. 2
             /\ two[Len(two)] = x
             /\ Len(o) = 0 => Len(two) = 1
             /\ Len(o) > 0 => Len(two) = 2 /\ two[1] = o[Len(o)]
<1> DEFINE seen == Append(o, x)
           two  == IF Len(seen) > 2 THEN Tail(seen) ELSE seen
<1>1. /\ seen \in Seq(BOOLEAN) /\ Len(seen) = Len(o) + 1
      /\ seen[Len(o) + 1] = x
      /\ \A k \in 1 .. Len(o) : seen[k] = o[k]
  OBVIOUS
<1> HIDE DEF seen
<1>2. Len(o) \in {0, 1, 2}  OBVIOUS
<1>3. CASE Len(o) = 2
  <2>1. two = Tail(seen)  BY <1>1, <1>3
  <2>2. /\ Tail(seen) \in Seq(BOOLEAN) /\ Len(Tail(seen)) = 2
        /\ Tail(seen)[1] = seen[2] /\ Tail(seen)[2] = seen[3]
    BY <1>1, <1>3
  <2> HIDE DEF two
  <2>3. seen[2] = o[2] /\ seen[3] = x  BY <1>1, <1>3
  <2>4. two \in Seq(BOOLEAN) /\ Len(two) = 2 /\ two[1] = o[2] /\ two[2] = x
    BY <2>1, <2>2, <2>3
  <2> QED  BY <1>3, <2>4 DEF two, seen
<1>4. CASE Len(o) \in {0, 1}
  <2>1. two = seen  BY <1>1, <1>4
  <2> HIDE DEF two
  <2>2. Len(o) > 0 => seen[1] = o[Len(o)]  BY <1>1, <1>4
  <2>3. /\ two \in Seq(BOOLEAN) /\ Len(two) = Len(o) + 1
        /\ two[Len(o) + 1] = x /\ (Len(o) > 0 => two[1] = o[Len(o)])
    BY <1>1, <2>1, <2>2
  <2> QED  BY <1>4, <2>3 DEF two, seen
<1> QED  BY <1>2, <1>3, <1>4

(* CountersKeep: a resolved transfer keeps the counters after the          *)
(* outcomes.                                                               *)
LEMMA CountersKeep ==
  ASSUME TypeOK, CounterInv, NEW t \in Resolvable, TableEdge(Resolved(t)),
         last' = Branched(t)
  PROVE  CounterInv'
<1>1. /\ DOMAIN last \subseteq BranchPcs
      /\ \A pc \in DOMAIN last :
           /\ last[pc] \in Seq(BOOLEAN) /\ Len(last[pc]) \in 1 .. 2
           /\ Hit(pc) => /\ btb[IndexOf(pc)].kind = "branch"
                         /\ Counts(last[pc], btb[IndexOf(pc)].cnt)
  BY DEF CounterInv
<1>2. ASSUME NEW pc \in DOMAIN last, t.pc # pc, Hit(pc)'
      PROVE  /\ btb'[IndexOf(pc)].kind = "branch"
             /\ Counts(last[pc], btb'[IndexOf(pc)].cnt)
  <2>1. pc \in BranchPcs  BY <1>1
  <2>2. Hit(pc) /\ btb'[IndexOf(pc)] = btb[IndexOf(pc)]
    BY <1>2, <2>1, OthersKeep
  <2> QED  BY <1>1, <2>2
<1>3. CASE t.kind # "branch"
  <2>1. last' = last  BY <1>3 DEF Branched
  <2>2. \A pc \in DOMAIN last : t.pc # pc
    BY <1>1, <1>3, TextAssumption DEF BranchPcs
  <2> QED  BY <1>1, <1>2, <2>1, <2>2 DEF CounterInv, Hit
<1>4. CASE t.kind = "branch"
  <2> DEFINE o == Outcomes(t.pc)
             seen == Append(o, t.taken)
             two  == IF Len(seen) > 2 THEN Tail(seen) ELSE seen
             c == btb[IndexOf(t.pc)].cnt
             d == btb'[IndexOf(t.pc)].cnt
  <2>1. last' = [pc \in DOMAIN last \cup {t.pc} |->
                   IF pc = t.pc THEN two ELSE last[pc]]
    BY <1>4 DEF Branched
  <2>2. t.pc \in BranchPcs /\ t.taken \in BOOLEAN
    BY <1>4, ResolvableAssumption DEF BranchPcs, M!Transfer
  <2>3. o \in Seq(BOOLEAN) /\ Len(o) \in 0 .. 2
    <3>1. CASE t.pc \in DOMAIN last  BY <1>1, <3>1 DEF Outcomes
    <3>2. CASE t.pc \notin DOMAIN last
      <4>1. o = <<>>  BY <3>2 DEF Outcomes
      <4> HIDE DEF o
      <4> QED  BY <4>1
    <3> QED  BY <3>1, <3>2
  <2>4. Len(o) > 0 /\ Hit(t.pc) => Counts(o, c)  BY <1>1 DEF Outcomes
  <2>5. /\ two \in Seq(BOOLEAN) /\ Len(two) \in 1 .. 2
        /\ two[Len(two)] = t.taken
        /\ Len(o) = 0 => Len(two) = 1
        /\ Len(o) > 0 => Len(two) = 2 /\ two[1] = o[Len(o)]
    BY <2>2, <2>3, TwoOutcomes
  <2> HIDE DEF o, two
  <2>6. ASSUME Hit(t.pc)'
        PROVE  btb'[IndexOf(t.pc)].kind = "branch" /\ Counts(two, d)
    <3>1. /\ btb'[IndexOf(t.pc)].kind = "branch"
          /\ c \in 0 .. 3
          /\ t.taken => d = IF Hit(t.pc) THEN IF c = 3 THEN 3 ELSE c + 1
                            ELSE 2
          /\ ~t.taken => Hit(t.pc) /\ d = IF c = 0 THEN 0 ELSE c - 1
      BY <1>4, <2>6, BranchCounts
    <3> HIDE DEF c, d
    <3>2. Counts(two, d)
      <4>1. Len(o) > 0 /\ Hit(t.pc) => /\ o[Len(o)] => c >= 1
                                       /\ ~o[Len(o)] => c <= 2
        BY <2>4 DEF Counts
      <4> QED  BY <2>2, <2>3, <2>5, <3>1, <4>1 DEF Counts
    <3> QED  BY <3>1, <3>2 DEF d
  <2>7. /\ DOMAIN last' = DOMAIN last \cup {t.pc}
        /\ last'[t.pc] = two
        /\ \A pc \in DOMAIN last : pc # t.pc => last'[pc] = last[pc]
    BY <2>1
  <2>8. ASSUME NEW pc \in DOMAIN last'
        PROVE  /\ pc \in BranchPcs
               /\ last'[pc] \in Seq(BOOLEAN) /\ Len(last'[pc]) \in 1 .. 2
               /\ Hit(pc)' => /\ btb'[IndexOf(pc)].kind = "branch"
                              /\ Counts(last'[pc], btb'[IndexOf(pc)].cnt)
    <3>1. CASE pc = t.pc  BY <2>2, <2>5, <2>6, <2>7, <3>1
    <3>2. CASE pc # t.pc  BY <1>1, <1>2, <2>7, <2>8, <3>2
    <3> QED  BY <3>1, <3>2
  <2> QED  BY <2>8 DEF CounterInv, Hit
<1> QED  BY <1>3, <1>4

(* ElementOf: what a sequence over a set holds is in the set.              *)
LEMMA ElementOf ==
  ASSUME NEW S, NEW o \in Seq(S), NEW n \in 1 .. Len(o)
  PROVE  o[n] \in S
  OBVIOUS

(* TwoAlike: two outcomes alike leave the counter on their side.           *)
LEMMA TwoAlike == AgreeInv /\ CounterInv => TwoInARowDecide
<1> SUFFICES ASSUME AgreeInv, CounterInv, NEW pc \in DOMAIN last,
                    Len(last[pc]) = 2, last[pc][1] = last[pc][2], Hit(pc)
             PROVE  Lookup(pc).taken = last[pc][2]
  BY DEF TwoInARowDecide
<1> DEFINE e == btb[IndexOf(pc)]
           o == last[pc]
<1>1. /\ o \in Seq(BOOLEAN) /\ e.kind = "branch" /\ Counts(o, e.cnt)
      /\ pc \in BranchPcs
  BY DEF CounterInv
<1>2. o[1] \in BOOLEAN /\ o[2] \in BOOLEAN
  <2>1. Len(o) = 2  OBVIOUS
  <2> HIDE DEF o
  <2>2. o \in Seq(BOOLEAN) /\ 1 \in 1 .. Len(o) /\ 2 \in 1 .. Len(o)
    BY <1>1, <2>1
  <2> QED  BY <2>2, ElementOf
<1>3. e.cnt \in 0 .. 3
  <2>1. IndexOf(pc) \in Idx  BY <1>1, AlignedBranch, SameAddressing
  <2> QED  BY <2>1 DEF AgreeInv, TypeOK, Entry
<1>4. Lookup(pc).taken = (e.cnt >= 2)  BY <1>1 DEF Lookup
<1> HIDE DEF e, o
<1>5. (e.cnt >= 2) <=> o[2]
  BY <1>1, <1>2, <1>3 DEF Counts, o
<1>6. CASE o[2]
  <2>1. o[2] = TRUE  BY <1>2, <1>6
  <2>2. Lookup(pc).taken = TRUE  BY <1>4, <1>5, <1>6
  <2> QED  BY <2>1, <2>2 DEF o
<1>7. CASE ~o[2]
  <2>1. o[2] = FALSE  BY <1>2, <1>7
  <2>2. Lookup(pc).taken \in BOOLEAN  BY <1>4
  <2>3. ~ Lookup(pc).taken  BY <1>4, <1>5, <1>7
  <2>4. Lookup(pc).taken = FALSE  BY <2>2, <2>3
  <2> QED  BY <2>1, <2>4 DEF o
<1> QED  BY <1>6, <1>7

(* PredictorLearns: what the predictor holds is what the program did: the  *)
(* stack is that of its calls, and two outcomes of a branch in a row,      *)
(* alike, decide its next prediction, whatever shared its entry before,    *)
(* for every size of the table (the counters of btb_q, and the stack).     *)
THEOREM PredictorLearns == AgreeSpec => []PredictorRemembers
<1>1. AgreeInit => CounterInv
  BY DEF AgreeInit, CounterInv
<1>2. AgreeInv /\ CounterInv /\ [AgreeNext]_allVars => CounterInv'
  <2> SUFFICES ASSUME AgreeInv, CounterInv, [AgreeNext]_allVars
               PROVE  CounterInv'
    OBVIOUS
  <2>1. ASSUME NEW a \in Word, NEW flush \in BOOLEAN, NEW t \in Resolvable,
               Resolve(t, a, flush)
        PROVE  CounterInv'
    <3>1. TableEdge(Resolved(t)) /\ last' = Branched(t) /\ TypeOK
      BY <2>1 DEF Resolve, Edge, AgreeInv
    <3> QED  BY <3>1, CountersKeep
  <2>2. ASSUME NEW a \in Word, NEW flush \in BOOLEAN, NEW hold \in BOOLEAN,
               Idle(a, flush, hold)
        PROVE  CounterInv'
    <3>1. UNCHANGED <<btb, btbValid, last>>
      BY <2>2 DEF Idle, Edge, TableEdge, BtbWe, NoUpd
    <3> QED  BY <3>1 DEF CounterInv, Hit
  <2>3. CASE AgreeReset
    BY <2>3 DEF AgreeReset, CounterInv
  <2>4. CASE UNCHANGED allVars
    BY <2>4 DEF allVars, bpVars, watch, CounterInv, Hit
  <2> QED  BY <2>1, <2>2, <2>3, <2>4 DEF AgreeNext
<1>3. AgreeSpec => []TwoInARowDecide
  BY <1>1, <1>2, AgreeStart, AgreeKept, TwoAlike, PTL DEF AgreeSpec
<1>4. AgreeSpec => [](RasIsStack /\ TwoInARowDecide)
  BY <1>3, StackRemembers, PTL
<1> QED  BY <1>4 DEF PredictorRemembers
=============================================================================

------------------------------ MODULE ArenaProofs ------------------------------
(***************************************************************************)
(* What the arena promises, for any numbers of agents, teams, texts and    *)
(* lines and whatever the rewards: no invented task is on offer twice      *)
(* (TaskSupply), what is saved comes back whole (ArenaRecords), and an     *)
(* agent is once in the members of its own team and of no other            *)
(* (ArenaSociety).                                                         *)
(***************************************************************************)
EXTENDS TaskSupply, ArenaRecords, ArenaSociety, KnowledgeProofs

-----------------------------------------------------------------------------
(* Task supply.                                                            *)

\* Texts of which none is known and no two pass for the same.
Novel(ts, known) ==
    /\ ts \in Seq(Invented)
    /\ \A i \in DOMAIN ts : \A u \in known : ~Similar(ts[i], u)
    /\ \A i, j \in DOMAIN ts : i # j => ~Similar(ts[i], ts[j])

LEMMA NovelMore ==
    ASSUME NEW known, NEW took, Novel(took, known), NEW t \in Invented
    PROVE  Novel(TakenAlso(known, took, t), known)
<1>1. CASE \E u \in known \cup ToSet(took) : Similar(t, u)
  BY <1>1 DEF TakenAlso
<1>2. CASE ~ \E u \in known \cup ToSet(took) : Similar(t, u)
  <2> DEFINE r == Append(took, t)
  <2>1. took \in Seq(Invented)
    BY DEF Novel
  <2>2. /\ r \in Seq(Invented) /\ Len(took) \in Nat /\ DOMAIN took = 1 .. Len(took)
        /\ DOMAIN r = 1 .. Len(took) + 1
        /\ \A i \in 1 .. Len(took) : r[i] = took[i]
        /\ r[Len(took) + 1] = t
    BY <2>1, AppendProperties
  <2> HIDE DEF r
  <2>3. \A i \in DOMAIN r : i \in DOMAIN took \/ i = Len(took) + 1
    BY <2>2
  <2>4. \A i \in DOMAIN took : took[i] \in ToSet(took)
    BY DEF ToSet
  <2>5. \A u \in known : ~Similar(t, u)
    BY <1>2
  <2>6. \A i \in DOMAIN took : ~Similar(t, took[i]) /\ ~Similar(took[i], t)
    BY <1>2, <2>4 DEF Similar
  <2>7. ASSUME NEW i \in DOMAIN r
        PROVE  \A u \in known : ~Similar(r[i], u)
    BY <2>2, <2>3, <2>5 DEF Novel
  <2>8. ASSUME NEW i \in DOMAIN r, NEW j \in DOMAIN r, i # j
        PROVE  ~Similar(r[i], r[j])
    <3>1. CASE i \in DOMAIN took /\ j \in DOMAIN took
      BY <2>2, <2>8, <3>1 DEF Novel
    <3>2. CASE i = Len(took) + 1
      BY <2>2, <2>3, <2>6, <2>8, <3>2
    <3>3. CASE j = Len(took) + 1
      BY <2>2, <2>3, <2>6, <2>8, <3>3
    <3>4. QED
      BY <2>3, <3>1, <3>2, <3>3
  <2>9. Novel(r, known)
    BY <2>2, <2>7, <2>8 DEF Novel
  <2>10. QED
    BY <1>2, <2>9 DEF TakenAlso, r
<1>3. QED
  BY <1>1, <1>2

\* What is left of an answer is new.
LEMMA FilteredIsNovel ==
    ASSUME NEW new \in Seq(Invented), NEW hint
    PROVE  Novel(Filtered(new, hint), KnownTexts)
<1> DEFINE X == Seq(Invented)
           known == KnownThen(hint)
           step == [p \in X \X Invented |-> TakenAlso(known, p[1], p[2])]
           n == Len(new)
           IsTaking(f) == f = [i \in 0 .. n |-> IF i = 0 THEN <<>>
                                                ELSE TakenAlso(known, f[i - 1], new[i])]
           took == CHOOSE f : IsTaking(f)
<1>1. <<>> \in X /\ n \in Nat /\ \A i \in 1 .. n : new[i] \in Invented
  OBVIOUS
<1>2. \A x \in X, t \in Invented : TakenAlso(known, x, t) \in X
  BY AppendProperties DEF TakenAlso
<1> HIDE DEF X
<1>3. CanFold(Invented, X, <<>>, step)
  BY <1>1, <1>2 DEF CanFold, Steps
<1>4. PICK f : AreValues(f, new, X, <<>>, step)
  BY <1>3, ValuesExist
<1>5. \A i \in 1 .. n : f[i - 1] \in X /\ f[i] = TakenAlso(known, f[i - 1], new[i])
  <2>1. SUFFICES ASSUME NEW i \in 1 .. n
                 PROVE  f[i - 1] \in X /\ f[i] = TakenAlso(known, f[i - 1], new[i])
    OBVIOUS
  <2>2. i - 1 \in 0 .. n
    BY <1>1
  <2>3. f[i - 1] \in X /\ f[i] = step[<<f[i - 1], new[i]>>]
    BY <1>4, <2>2 DEF AreValues
  <2>4. QED
    BY <1>1, <2>3
<1>6. f \in [0 .. n -> X] /\ f[0] = <<>>
  BY <1>4 DEF AreValues
<1> HIDE DEF step
<1>7. IsTaking(f)
  <2>1. \A i \in 0 .. n : f[i] = IF i = 0 THEN <<>> ELSE TakenAlso(known, f[i - 1], new[i])
    BY <1>1, <1>5, <1>6
  <2>2. QED
    BY <1>6, <2>1
<1>8. IsTaking(took)
  <2> HIDE DEF IsTaking
  <2>1. QED
    BY <1>7
<1>9. Filtered(new, hint) = took[n]
  BY DEF Filtered
<1> HIDE DEF took
<1>10. took[0] = <<>> /\ \A i \in 1 .. n : took[i] = TakenAlso(known, took[i - 1], new[i])
  BY <1>1, <1>8
<1> DEFINE U == {i \in 0 .. n : Novel(took[i], known)}
<1>11. 0 \in U
  <2>1. /\ <<>> \in Seq(Invented) /\ DOMAIN <<>> = {} /\ 0 \in 0 .. n
    BY <1>1
  <2>2. Novel(<<>>, known)
    BY <2>1 DEF Novel
  <2>3. QED
    BY <1>10, <2>1, <2>2
<1>12. ASSUME NEW i \in 0 .. n - 1, i \in U
       PROVE  i + 1 \in U
  <2>1. i + 1 \in 1 .. n /\ i + 1 \in 0 .. n /\ (i + 1) - 1 = i
    BY <1>1
  <2>2. took[i + 1] = TakenAlso(known, took[i], new[i + 1]) /\ new[i + 1] \in Invented
    BY <1>1, <1>10, <2>1
  <2>3. Novel(took[i + 1], known)
    BY <1>12, <2>2, NovelMore
  <2>4. QED
    BY <2>1, <2>3
<1> HIDE DEF U
<1>13. \A i \in 0 .. n : i \in U
  BY <1>1, <1>11, <1>12, UpTo, Zenon
<1>14. n \in 0 .. n
  BY <1>1
<1>15. Novel(took[n], known)
  BY <1>13, <1>14 DEF U
<1>16. QED
  BY <1>9, <1>15 DEF KnownThen

\* The pool with new texts has each of them once more.
LEMMA PlusIs ==
    ASSUME NEW ts, Novel(ts, KnownTexts), pile \in [TaskTexts -> Nat]
    PROVE  /\ Plus(pile, ts) \in [TaskTexts -> Nat]
           /\ \A t \in TaskTexts :
                 Plus(pile, ts)[t] = pile[t] + IF t \in ToSet(ts) THEN 1 ELSE 0
<1>1. ASSUME NEW t \in TaskTexts
      PROVE  Cardinality({i \in DOMAIN ts : ts[i] = t}) = IF t \in ToSet(ts) THEN 1 ELSE 0
  <2>1. CASE t \in ToSet(ts)
    <3>1. PICK i \in DOMAIN ts : ts[i] = t
      BY <2>1 DEF ToSet
    <3>2. \A j \in DOMAIN ts : ts[j] = t => j = i
      BY <3>1 DEF Novel, Similar
    <3>3. {j \in DOMAIN ts : ts[j] = t} = {i}
      BY <3>1, <3>2
    <3>4. QED
      BY <2>1, <3>3, FS_Singleton
  <2>2. CASE t \notin ToSet(ts)
    <3>1. {i \in DOMAIN ts : ts[i] = t} = {}
      BY <2>2 DEF ToSet
    <3>2. QED
      BY <2>2, <3>1, FS_EmptySet
  <2>3. QED
    BY <2>1, <2>2
<1>2. \A t \in TaskTexts : Plus(pile, ts)[t] = pile[t] + IF t \in ToSet(ts) THEN 1 ELSE 0
  BY <1>1 DEF Plus
<1>3. Plus(pile, ts) \in [TaskTexts -> Nat]
  <2>1. Plus(pile, ts) = [t \in TaskTexts |-> pile[t] + IF t \in ToSet(ts) THEN 1 ELSE 0]
    BY <1>1 DEF Plus
  <2>2. QED
    BY <2>1
<1>4. QED
  BY <1>2, <1>3

\* What is counted, and what is on the board while it is offered.
SupplyInv ==
    /\ pile \in [TaskTexts -> Nat] /\ posted \in [TaskTexts -> Nat]
    /\ turn.at = "offering" => turn.text \in TaskTexts /\ posted[turn.text] > 0
    /\ OfferedOnce

\* What an answer adds to the pool is on offer once.
LEMMA RefillOffersOnce ==
    ASSUME NEW ts, Novel(ts, KnownTexts), SupplyInv, pile' = Plus(pile, ts),
           \A t \in TaskTexts : posted'[t] = posted[t],
           recovering' <=> turn'.at = "recovering"
    PROVE  OfferedOnce' /\ pile' \in [TaskTexts -> Nat]
<1>1. /\ pile' \in [TaskTexts -> Nat]
      /\ \A t \in TaskTexts : pile'[t] = pile[t] + IF t \in ToSet(ts) THEN 1 ELSE 0
  BY PlusIs DEF SupplyInv
<1>2. ASSUME NEW t \in ToSet(ts)
      PROVE  /\ t \in TaskTexts => pile[t] = 0 /\ posted[t] = 0
             /\ \A u \in TaskTexts : Similar(t, u) => pile[u] = 0 /\ posted[u] = 0
             /\ \A u \in ToSet(ts) : Similar(t, u) => t = u
  <2>1. PICK i \in DOMAIN ts : ts[i] = t
    BY DEF ToSet
  <2>2. \A u \in TaskTexts : Similar(t, u) => u \notin KnownTexts
    BY <2>1 DEF Novel
  <2>3. \A u \in TaskTexts : u \notin KnownTexts => pile[u] = 0 /\ posted[u] = 0
    BY DEF KnownTexts, In, SupplyInv
  <2>4. Similar(t, t)
    BY DEF Similar
  <2>5. ASSUME NEW u \in ToSet(ts), Similar(t, u)
        PROVE  t = u
    BY <2>1, <2>5 DEF ToSet, Novel
  <2>6. QED
    BY <2>2, <2>3, <2>4, <2>5
<1>3. \A t \in TaskTexts : pile[t] \in Nat /\ posted[t] \in Nat
  BY DEF SupplyInv
<1>4. Invented \ Seeds \subseteq TaskTexts
  BY DEF TaskTexts
<1>5. ASSUME NEW t \in Invented \ Seeds
      PROVE  pile'[t] + posted'[t] <= 1
  <2>1. pile[t] + posted[t] <= 1
    BY DEF SupplyInv, OfferedOnce
  <2>2. QED
    BY <1>1, <1>2, <1>3, <1>4, <2>1
<1>6. ASSUME NEW t \in Invented \ Seeds, NEW u \in Invented \ Seeds, t # u, Similar(t, u)
      PROVE  pile'[t] + posted'[t] = 0 \/ pile'[u] + posted'[u] = 0
  <2>1. pile[t] + posted[t] = 0 \/ pile[u] + posted[u] = 0
    BY <1>6 DEF SupplyInv, OfferedOnce
  <2>2. Similar(u, t)
    BY <1>6 DEF Similar
  <2>3. t \in TaskTexts /\ u \in TaskTexts
    BY <1>4
  <2>4. CASE t \in ToSet(ts)
    <3>1. u \notin ToSet(ts) /\ pile[u] = 0 /\ posted[u] = 0
      BY <1>2, <1>6, <2>3, <2>4
    <3>2. QED
      BY <1>1, <2>3, <3>1
  <2>5. CASE u \in ToSet(ts)
    <3>1. t \notin ToSet(ts) /\ pile[t] = 0 /\ posted[t] = 0
      BY <1>2, <1>6, <2>2, <2>3, <2>5
    <3>2. QED
      BY <1>1, <2>3, <3>1
  <2>6. CASE t \notin ToSet(ts) /\ u \notin ToSet(ts)
    BY <1>1, <1>3, <2>1, <2>3, <2>6
  <2>7. QED
    BY <2>4, <2>5, <2>6
<1>7. QED
  BY <1>1, <1>5, <1>6 DEF OfferedOnce

\* Less on offer, and more of written tasks, changes nothing for the others.
LEMMA FewerOffers ==
    ASSUME SupplyInv, pile' \in [TaskTexts -> Nat], posted' \in [TaskTexts -> Nat],
           \A t \in Invented \ Seeds : pile'[t] + posted'[t] <= pile[t] + posted[t],
           recovering' <=> turn'.at = "recovering"
    PROVE  OfferedOnce'
<1>1. Invented \ Seeds \subseteq TaskTexts
  BY DEF TaskTexts
<1>2. \A t \in Invented \ Seeds : /\ pile[t] + posted[t] \in Nat /\ pile'[t] + posted'[t] \in Nat
                                   /\ pile[t] + posted[t] <= 1
  BY <1>1 DEF SupplyInv, OfferedOnce
<1>3. \A t, u \in Invented \ Seeds :
         t # u /\ Similar(t, u) => pile[t] + posted[t] = 0 \/ pile[u] + posted[u] = 0
  BY DEF SupplyInv, OfferedOnce
<1>4. \A t \in Invented \ Seeds : pile[t] + posted[t] = 0 => pile'[t] + posted'[t] = 0
  BY <1>2
<1>5. \A t \in Invented \ Seeds : pile'[t] + posted'[t] <= 1
  BY <1>2
<1>6. QED
  BY <1>3, <1>4, <1>5 DEF OfferedOnce

LEMMA AnswersAreTexts == ModelAnswers \subseteq Seq(Invented)
<1>1. SUFFICES ASSUME NEW new \in ModelAnswers
               PROVE  new \in Seq(Invented)
  OBVIOUS
<1>2. PICK n \in 0 .. 2 : new \in [1 .. n -> Invented]
  BY Zenon DEF ModelAnswers
<1>3. n \in Nat
  OBVIOUS
<1>4. QED
  BY <1>2, <1>3, SeqDef, Zenon

\* A refill, by an answer or by written tasks.
LEMMA RefilledOffers ==
    ASSUME NEW new \in ModelAnswers, Refilled(new), SupplyInv, posted' = posted,
           turn'.at \in {"serving", "idle"}
    PROVE  SupplyInv'
<1>1. new \in Seq(Invented)
  BY AnswersAreTexts
<1>2. ~recovering' /\ turn'.at # "recovering" /\ turn'.at # "offering"
  BY DEF Refilled
<1>3. CASE pile' = Plus(pile, Filtered(new, KnownTexts))
  <2>1. Novel(Filtered(new, KnownTexts), KnownTexts)
    BY <1>1, FilteredIsNovel
  <2>2. OfferedOnce' /\ pile' \in [TaskTexts -> Nat]
    BY <1>2, <1>3, <2>1, RefillOffersOnce
  <2>3. QED
    BY <1>2, <2>2 DEF SupplyInv
<1>4. CASE \E chosen \in SUBSET Seeds : SeedFallback(chosen)
  <2>1. PICK chosen \in SUBSET Seeds : SeedFallback(chosen)
    BY <1>4
  <2>2. pile' = [t \in TaskTexts |-> pile[t] + IF t \in chosen THEN 1 ELSE 0]
    BY <2>1 DEF SeedFallback
  <2>3. pile' \in [TaskTexts -> Nat]
    BY <2>2 DEF SupplyInv
  <2>4. \A t \in Invented \ Seeds : pile'[t] + posted'[t] <= pile[t] + posted[t]
    <3>1. SUFFICES ASSUME NEW t \in Invented \ Seeds
                   PROVE  pile'[t] + posted'[t] <= pile[t] + posted[t]
      OBVIOUS
    <3>2. t \in TaskTexts /\ t \notin chosen
      BY DEF TaskTexts
    <3>3. pile[t] \in Nat /\ posted[t] \in Nat
      BY <3>2 DEF SupplyInv
    <3>4. pile'[t] = pile[t]
      BY <2>2, <3>2, <3>3
    <3>5. QED
      BY <3>3, <3>4
  <2>5. OfferedOnce'
    BY <1>2, <2>3, <2>4, FewerOffers DEF SupplyInv
  <2>6. QED
    BY <1>2, <2>3, <2>5 DEF SupplyInv
<1>5. QED
  BY <1>3, <1>4 DEF Refilled

LEMMA PickOffers ==
    ASSUME PickTaskForBoard, SupplyInv
    PROVE  SupplyInv'
<1>1. PICK left \in [In(posted) -> 0 .. MaxAvailable], someIdle \in BOOLEAN :
          LET kept == [t \in TaskTexts |-> IF t \in In(posted) THEN left[t] ELSE 0] IN
          /\ \A t \in TaskTexts : kept[t] <= posted[t]
          /\ IF Size(kept) < MaxAvailable /\ someIdle /\ In(pile) # {}
             THEN \E t \in In(pile) :
                     /\ pile' = [pile EXCEPT ![t] = @ - 1]
                     /\ posted' = [kept EXCEPT ![t] = @ + 1]
                     /\ turn' = [at |-> "offering", text |-> t]
             ELSE posted' = kept /\ turn' = Resting /\ UNCHANGED pile
  BY Zenon DEF PickTaskForBoard
<1> DEFINE kept == [t \in TaskTexts |-> IF t \in In(posted) THEN left[t] ELSE 0]
<1>2. kept \in [TaskTexts -> Nat] /\ \A t \in TaskTexts : kept[t] <= posted[t]
  BY <1>1
<1>3. turn.at = "serving" /\ recovering' = recovering
  BY DEF PickTaskForBoard
<1>4. ~recovering'
  BY <1>3 DEF SupplyInv, OfferedOnce
<1>5. Invented \ Seeds \subseteq TaskTexts
  BY DEF TaskTexts
<1>6. CASE \E t \in In(pile) :
             /\ pile' = [pile EXCEPT ![t] = @ - 1]
             /\ posted' = [kept EXCEPT ![t] = @ + 1]
             /\ turn' = [at |-> "offering", text |-> t]
  <2> HIDE DEF kept
  <2>1. PICK t \in In(pile) :
             /\ pile' = [pile EXCEPT ![t] = @ - 1]
             /\ posted' = [kept EXCEPT ![t] = @ + 1]
             /\ turn' = [at |-> "offering", text |-> t]
    BY <1>6
  <2>2. t \in TaskTexts /\ pile[t] > 0 /\ pile \in [TaskTexts -> Nat]
    BY DEF In, SupplyInv
  <2>3. pile' \in [TaskTexts -> Nat] /\ posted' \in [TaskTexts -> Nat]
    BY <1>2, <2>1, <2>2
  <2>4. ASSUME NEW u \in TaskTexts
        PROVE  pile'[u] + posted'[u] <= pile[u] + posted[u]
    <3>1. kept[u] \in Nat /\ posted[u] \in Nat /\ pile[u] \in Nat /\ kept[u] <= posted[u]
      BY <1>2 DEF SupplyInv
    <3>2. CASE u = t
      <4>1. pile'[u] = pile[u] - 1 /\ posted'[u] = kept[u] + 1
        BY <1>2, <2>1, <2>2, <3>2
      <4>2. QED
        BY <3>1, <4>1
    <3>3. CASE u # t
      <4>1. pile'[u] = pile[u] /\ posted'[u] = kept[u]
        BY <1>2, <2>1, <2>2, <3>3
      <4>2. QED
        BY <3>1, <4>1
    <3>4. QED
      BY <3>2, <3>3
  <2>5. turn'.at = "offering" /\ turn'.text = t /\ posted'[t] > 0
    <3>1. kept[t] \in Nat /\ posted'[t] = kept[t] + 1
      BY <1>2, <2>1, <2>2
    <3>2. QED
      BY <2>1, <3>1
  <2>6. OfferedOnce'
    BY <1>4, <1>5, <2>3, <2>4, <2>5, FewerOffers
  <2>7. QED
    BY <2>2, <2>3, <2>5, <2>6 DEF SupplyInv
<1>7. CASE posted' = kept /\ turn' = Resting /\ UNCHANGED pile
  <2> HIDE DEF kept
  <2>1. turn'.at = "idle"
    BY <1>7 DEF Resting, TurnAt
  <2>2. pile' \in [TaskTexts -> Nat] /\ posted' \in [TaskTexts -> Nat]
    BY <1>2, <1>7 DEF SupplyInv
  <2>3. ASSUME NEW u \in TaskTexts
        PROVE  pile'[u] + posted'[u] <= pile[u] + posted[u]
    BY <1>2, <1>7 DEF SupplyInv
  <2>4. OfferedOnce'
    BY <1>4, <1>5, <2>1, <2>2, <2>3, FewerOffers
  <2>5. QED
    BY <2>1, <2>2, <2>4 DEF SupplyInv
<1>8. QED
  BY <1>1, <1>6, <1>7

LEMMA GenerateOffers ==
    ASSUME NEW new \in ModelAnswers, GenerateTasks(new), SupplyInv
    PROVE  SupplyInv'
<1>1. new \in Seq(Invented)
  BY AnswersAreTexts
<1>2. Novel(Filtered(new, request), KnownTexts)
  BY <1>1, FilteredIsNovel
<1>3. /\ pile' = Plus(pile, Filtered(new, request))
      /\ posted' = posted /\ turn' = turn /\ recovering' = recovering
  BY DEF GenerateTasks
<1>4. OfferedOnce' /\ pile' \in [TaskTexts -> Nat]
  BY <1>2, <1>3, RefillOffersOnce DEF SupplyInv, OfferedOnce
<1>5. QED
  BY <1>3, <1>4 DEF SupplyInv

LEMMA LoopOffers ==
    ASSUME Taken \/ NotTaken \/ TriggerStuckRecovery \/ Tick \/ AskByHand, SupplyInv
    PROVE  SupplyInv'
<1>1. CASE Taken
  <2>1. /\ turn.text \in TaskTexts /\ posted[turn.text] > 0 /\ turn'.at = "idle"
        /\ posted' = [posted EXCEPT ![turn.text] = @ - 1] /\ pile' = pile
        /\ recovering' = recovering /\ turn.at = "offering"
    BY <1>1 DEF Taken, SupplyInv, Resting, TurnAt
  <2>2. posted' \in [TaskTexts -> Nat] /\ \A t \in TaskTexts : posted'[t] <= posted[t]
    BY <2>1 DEF SupplyInv
  <2>3. \A t \in Invented \ Seeds : pile'[t] + posted'[t] <= pile[t] + posted[t]
    BY <2>1, <2>2 DEF SupplyInv, TaskTexts
  <2>4. OfferedOnce'
    BY <2>1, <2>2, <2>3, FewerOffers DEF SupplyInv, OfferedOnce
  <2>5. QED
    BY <2>1, <2>2, <2>4 DEF SupplyInv
<1>2. CASE NotTaken
  BY <1>2 DEF NotTaken, SupplyInv, OfferedOnce, Resting, TurnAt
<1>3. CASE TriggerStuckRecovery
  <2>1. /\ turn'.at = "recovering" /\ recovering' /\ posted' = posted
        /\ pile' = [t \in TaskTexts |-> 0]
    BY <1>3 DEF TriggerStuckRecovery, TurnAt
  <2>2. \A t \in Invented \ Seeds : pile'[t] + posted'[t] <= pile[t] + posted[t]
    BY <2>1 DEF SupplyInv, TaskTexts
  <2>3. pile' \in [TaskTexts -> Nat]
    BY <2>1
  <2>4. OfferedOnce'
    BY <2>1, <2>2, <2>3, FewerOffers DEF SupplyInv
  <2>5. QED
    BY <2>1, <2>3, <2>4 DEF SupplyInv
<1>4. CASE Tick
  BY <1>4 DEF Tick, SupplyInv, OfferedOnce, Resting, TurnAt
<1>5. CASE AskByHand
  BY <1>5 DEF AskByHand, SupplyInv, OfferedOnce
<1>6. QED
  BY <1>1, <1>2, <1>3, <1>4, <1>5

LEMMA SupplyStarts == SupplyInit => SupplyInv
<1>1. SUFFICES ASSUME SupplyInit
               PROVE  SupplyInv
  OBVIOUS
<1>2. /\ pile = [t \in TaskTexts |-> IF t \in Seeds THEN 1 ELSE 0]
      /\ posted = [t \in TaskTexts |-> 0]
      /\ turn.at = "idle" /\ recovering = FALSE
  BY <1>1 DEF SupplyInit, Resting, TurnAt
<1>3. \A t \in Invented \ Seeds : pile[t] = 0 /\ posted[t] = 0
  BY <1>2 DEF TaskTexts
<1>4. QED
  BY <1>2, <1>3 DEF SupplyInv, OfferedOnce

LEMMA SupplyStays == SupplyInv /\ [SupplyNext]_supplyVars => SupplyInv'
<1>1. SUFFICES ASSUME SupplyInv, [SupplyNext]_supplyVars
               PROVE  SupplyInv'
  OBVIOUS
<1>2. ASSUME NEW new \in ModelAnswers, RefillPool(new)
      PROVE  SupplyInv'
  BY <1>1, <1>2, RefilledOffers DEF RefillPool, TurnAt
<1>3. ASSUME NEW new \in ModelAnswers, Recover(new)
      PROVE  SupplyInv'
  BY <1>1, <1>3, RefilledOffers DEF Recover, Resting, TurnAt
<1>4. CASE UNCHANGED supplyVars
  BY <1>1, <1>4 DEF SupplyInv, OfferedOnce, supplyVars
<1>5. QED
  BY <1>1, <1>2, <1>3, <1>4, GenerateOffers, PickOffers, LoopOffers DEF SupplyNext

\* However the model's answers cross, no invented task and none like it is on
\* offer twice, and a recovery ends with its refill (task_dispatcher.py:541-660).
THEOREM OffersAreSingle == SupplySpec => []OfferedOnce
<1>1. SupplyInv => OfferedOnce
  BY DEF SupplyInv
<1>2. QED
  BY <1>1, SupplyStarts, SupplyStays, PTL DEF SupplySpec

-----------------------------------------------------------------------------
(* Records of the arena.                                                   *)

\* One of these states of the arena, or that of one without agents.
OneOf(cs, x) ==
    /\ x \in SavedState
    /\ x.n <= Len(cs)
    /\ x.who = IF x.n = 0 THEN {} ELSE cs[x.n]

\* What can be loaded is a state the arena was in, and not older than the last of
\* which both copies were written.
StoreInv ==
    /\ changes \in Seq(SUBSET ArenaAgents) /\ Len(changes) <= MaxChanges
    /\ complete \in 0 .. Len(changes)
    /\ OneOf(changes, tables)
    /\ \A x \in {arena, backup, legacy} : x # NoRecord => OneOf(changes, x)
    /\ tables.who # {} => tables.n >= complete
    /\ arena # NoRecord => arena.n >= complete
    /\ FromFile # NoRecord => FromFile.n >= complete
    /\ FromFile = NoRecord => complete = 0

Book == [new : Seq(Entry) \cup {NoRecord}, old : Seq(Entry) \cup {NoRecord}, tried : BOOLEAN]

OldLines(b) == IF b.old = NoRecord THEN <<>> ELSE b.old

\* A journal is what was left and what was written; nothing that was left is of a
\* task that is known now.
BookKept(j, b, told) ==
    /\ b \in Book /\ told \in Seq(Entry)
    /\ \A i \in DOMAIN OldLines(b) : OldLines(b)[i].text = NoRecord
    /\ b.new = NoRecord => told = <<>>
    /\ b.new = NoRecord /\ b.tried => b.old = NoRecord
    /\ b.new # NoRecord => \/ b.new = OldLines(b) \o told
                           \/ j = "tasks" /\ b.new = told

BooksInv ==
    /\ books \in [Books -> Book] /\ written \in [Books -> Seq(Entry)]
    /\ \A j \in Books : BookKept(j, books[j], written[j])

\* The place of the last line about a task of an agent.
LastAbout(ls, p, i) ==
    /\ i \in DOMAIN ls /\ ls[i].agent = p[1] /\ ls[i].text = p[2]
    /\ \A k \in DOMAIN ls : ls[k].agent = p[1] /\ ls[k].text = p[2] => k <= i

StatusInv ==
    /\ DOMAIN status \subseteq ArenaAgents \X TaskNames
    /\ \A p \in DOMAIN status : \E i \in DOMAIN written["tasks"] :
          LastAbout(written["tasks"], p, i) /\ written["tasks"][i].kind = status[p]
    /\ \A p \in active : p \in DOMAIN status /\ status[p] = "assigned"

PostInv ==
    /\ post \in Seq([from : ArenaAgents, to : ArenaAgents])
    /\ \A i \in DOMAIN post : post[i].from # post[i].to
    /\ opened \in 1 .. Len(post) + 1

RecordsInv == StoreInv /\ BooksInv /\ StatusInv /\ PostInv

LEMMA RecordsInitInv == RecordsInit => RecordsInv
<1>1. SUFFICES ASSUME RecordsInit PROVE RecordsInv
  OBVIOUS
<1> DEFINE first == [n |-> 1, who |-> ArenaAgents]
<1>2. /\ first \in SavedState /\ EmptyState \in SavedState
      /\ first.n = 1 /\ first.who = ArenaAgents /\ EmptyState.n = 0 /\ EmptyState.who = {}
      /\ first # NoRecord /\ EmptyState # NoRecord
  BY RecordsConstants DEF SavedState, EmptyState
<1>3. /\ <<>> \in Seq(SUBSET ArenaAgents) /\ Len(<<>>) = 0
      /\ <<ArenaAgents>> \in Seq(SUBSET ArenaAgents) /\ Len(<<ArenaAgents>>) = 1
      /\ <<ArenaAgents>>[1] = ArenaAgents
  OBVIOUS
<1>4. StoreInv
  <2>1. arena = NoRecord /\ tables = EmptyState /\ tables.who = {}
    BY <1>1, <1>2 DEF RecordsInit
  <2>2. \/ backup = NoRecord /\ legacy = NoRecord /\ changes = <<>> /\ complete = 0
        \/ /\ \/ backup = first /\ legacy = NoRecord
              \/ backup = NoRecord /\ legacy = first
           /\ changes = <<ArenaAgents>> /\ complete = 1
    BY <1>1 DEF RecordsInit
  <2> HIDE DEF first
  <2>3. CASE changes = <<>>
    BY <1>2, <1>3, <2>1, <2>2, <2>3, RecordsConstants DEF StoreInv, FromFile, OneOf
  <2>4. CASE changes = <<ArenaAgents>>
    BY <1>2, <1>3, <2>1, <2>2, <2>4, RecordsConstants DEF StoreInv, FromFile, OneOf
  <2>5. QED
    BY <2>2, <2>3, <2>4
<1>5. BooksInv
  <2> DEFINE line(j) == [kind |-> CASE j = "tasks" -> "done"
                                    [] j = "refusals" -> "refused"
                                    [] OTHER -> "buried",
                         agent |-> CHOOSE a \in ArenaAgents : TRUE, text |-> NoRecord]
  <2>1. PICK left \in SUBSET Books :
            books = [j \in Books |-> [new |-> NoRecord,
                                      old |-> IF j \in left THEN <<line(j)>> ELSE NoRecord,
                                      tried |-> FALSE]]
    BY <1>1, Zenon DEF RecordsInit
  <2>2. \A j \in Books : line(j) \in Entry /\ line(j).text = NoRecord
    BY RecordsConstants DEF Entry, TaskKinds, Books
  <2> HIDE DEF line
  <2>3. \A j \in Books : /\ <<line(j)>> \in Seq(Entry) /\ DOMAIN <<line(j)>> = {1}
                         /\ <<line(j)>>[1] = line(j) /\ <<line(j)>> # NoRecord
    <3>1. SUFFICES ASSUME NEW x \in Entry
                   PROVE  /\ <<x>> \in Seq(Entry) /\ DOMAIN <<x>> = {1}
                          /\ <<x>>[1] = x /\ <<x>> # NoRecord
      BY <2>2
    <3>2. <<x>> \in Seq(Entry) /\ Len(<<x>>) = 1 /\ <<x>>[1] = x
      OBVIOUS
    <3>3. DOMAIN <<x>> = {1}
      BY <3>2
    <3>4. <<x>> # NoRecord
      BY <3>2, RecordsConstants
    <3>5. QED
      BY <3>2, <3>3, <3>4
  <2>4. books \in [Books -> Book]
    BY <2>1, <2>3 DEF Book
  <2>5. written = [j \in Books |-> <<>>] /\ <<>> \in Seq(Entry) /\ DOMAIN <<>> = {}
    BY <1>1 DEF RecordsInit
  <2>6. \A j \in Books : books[j].new = NoRecord /\ ~books[j].tried
    BY <2>1
  <2>7. \A j \in Books : books[j].old = IF j \in left THEN <<line(j)>> ELSE NoRecord
    BY <2>1
  <2>8. \A j \in Books : \A i \in DOMAIN OldLines(books[j]) : OldLines(books[j])[i].text = NoRecord
    BY <2>2, <2>3, <2>5, <2>7 DEF OldLines
  <2>9. QED
    BY <2>4, <2>5, <2>6, <2>8 DEF BooksInv, BookKept
<1>6. StatusInv
  BY <1>1 DEF RecordsInit, StatusInv
<1>7. PostInv
  BY <1>1 DEF RecordsInit, PostInv
<1>8. QED
  BY <1>4, <1>5, <1>6, <1>7 DEF RecordsInv

LEMMA LaterStates ==
    ASSUME NEW cs \in Seq(SUBSET ArenaAgents), NEW more \in Seq(SUBSET ArenaAgents), NEW x,
           OneOf(cs, x), Len(cs) <= Len(more), \A i \in 1 .. Len(cs) : more[i] = cs[i]
    PROVE  OneOf(more, x)
<1>1. x.n \in Nat
  BY DEF OneOf, SavedState
<1>2. x.n # 0 => x.n \in 1 .. Len(cs)
  BY <1>1 DEF OneOf
<1>3. QED
  BY <1>1, <1>2 DEF OneOf

\* Saving what the arena is now, wherever it fails.
LEMMA SavingKeeps ==
    ASSUME StoreInv, NEW image, OneOf(changes', image), image.n >= complete,
           changes' \in Seq(SUBSET ArenaAgents), Len(changes') <= MaxChanges,
           Len(changes) <= Len(changes'), \A i \in 1 .. Len(changes) : changes'[i] = changes[i],
           arena' = image, legacy' = legacy, SavesBoth(image)
    PROVE  StoreInv'
<1>1. \A x : OneOf(changes, x) => OneOf(changes', x)
  BY LaterStates DEF StoreInv
<1>2. /\ image.n \in Nat /\ image.n <= Len(changes') /\ image # NoRecord
      /\ Len(changes) \in Nat /\ Len(changes') \in Nat /\ complete \in 0 .. Len(changes)
  BY RecordsConstants DEF OneOf, SavedState, StoreInv
<1>3. /\ tables' \in {image, tables} /\ backup' \in {image, backup}
      /\ complete' = IF tables' = image /\ backup' = image THEN image.n ELSE complete
  BY DEF SavesBoth, Stores, Copies, TableRows
<1>4. complete' \in 0 .. Len(changes') /\ complete' <= image.n
  BY <1>2, <1>3
<1>5. OneOf(changes', tables')
  BY <1>1, <1>3 DEF StoreInv
<1>6. ASSUME NEW x \in {arena', backup', legacy'}, x # NoRecord
      PROVE  OneOf(changes', x)
  BY <1>1, <1>3, <1>6 DEF StoreInv
<1>7. tables'.who # {} => tables'.n >= complete'
  BY <1>2, <1>3, <1>4 DEF StoreInv
<1>8. /\ FromFile' # NoRecord => FromFile'.n >= complete'
      /\ FromFile' = NoRecord => complete' = 0
  <2>1. CASE backup' = image
    BY <1>2, <1>4, <2>1 DEF FromFile
  <2>2. CASE backup' # image
    <3>1. backup' = backup /\ complete' = complete /\ FromFile' = FromFile
      BY <1>3, <2>2 DEF FromFile
    <3>2. QED
      BY <3>1 DEF StoreInv
  <2>3. QED
    BY <2>1, <2>2
<1>9. arena'.n >= complete'
  BY <1>2, <1>4
<1>10. QED
  BY <1>4, <1>5, <1>6, <1>7, <1>8, <1>9 DEF StoreInv

LEMMA ReadBackIs ==
    ASSUME StoreInv, NEW readable \in BOOLEAN
    PROVE  OneOf(changes, ReadBack(readable)) /\ ReadBack(readable).n >= complete
<1>1. OneOf(changes, EmptyState) /\ EmptyState.n = 0
  BY RecordsConstants DEF OneOf, EmptyState, SavedState, StoreInv
<1>2. CASE tables.who # {} /\ readable
  BY <1>2 DEF ReadBack, StoreInv
<1>3. CASE ~(tables.who # {} /\ readable) /\ FromFile # NoRecord
  BY <1>3 DEF ReadBack, StoreInv, FromFile
<1>4. CASE ~(tables.who # {} /\ readable) /\ FromFile = NoRecord
  BY <1>1, <1>4 DEF ReadBack, StoreInv
<1>5. QED
  BY <1>2, <1>3, <1>4

LEMMA StoreStep == StoreInv /\ [RecordsNext]_recordVars => StoreInv'
<1>1. SUFFICES ASSUME StoreInv, [RecordsNext]_recordVars PROVE StoreInv'
  OBVIOUS
<1>2. CASE ChangeState
  <2>1. PICK who \in SUBSET ArenaAgents :
            changes' = Append(changes, who) /\ arena' = [n |-> Len(changes'), who |-> who]
    BY <1>2 DEF ChangeState
  <2>2. /\ changes \in Seq(SUBSET ArenaAgents) /\ Len(changes) < MaxChanges
        /\ Len(changes) \in Nat /\ complete \in 0 .. Len(changes)
    BY <1>1, <1>2 DEF ChangeState, StoreInv
  <2>3. /\ changes' \in Seq(SUBSET ArenaAgents) /\ Len(changes') = Len(changes) + 1
        /\ \A i \in 1 .. Len(changes) : changes'[i] = changes[i]
        /\ changes'[Len(changes) + 1] = who
    BY <2>1, <2>2, AppendProperties
  <2>4. OneOf(changes', arena') /\ arena'.n >= complete
    BY <2>1, <2>2, <2>3, RecordsConstants DEF OneOf, SavedState
  <2>5. legacy' = legacy /\ SavesBoth(arena')
    BY <1>2 DEF ChangeState
  <2>6. QED
    BY <1>1, <2>2, <2>3, <2>4, <2>5, RecordsConstants, SavingKeeps
<1>3. ASSUME NEW readable \in BOOLEAN, RestartRecords(readable)
      PROVE  StoreInv'
  <2>1. /\ arena' = ReadBack(readable) /\ legacy' = legacy /\ changes' = changes
        /\ IF arena'.who # {} THEN SavesBoth(arena') ELSE UNCHANGED <<tables, backup, complete>>
    BY <1>3 DEF RestartRecords, LoadState
  <2>2. OneOf(changes, arena') /\ arena'.n >= complete
    BY <1>1, <2>1, ReadBackIs
  <2>3. CASE arena'.who # {}
    <3>1. changes \in Seq(SUBSET ArenaAgents) /\ Len(changes) \in Nat /\ Len(changes) <= MaxChanges
      BY <1>1 DEF StoreInv
    <3>2. QED
      BY <1>1, <2>1, <2>2, <2>3, <3>1, SavingKeeps
  <2>4. CASE arena'.who = {}
    BY <1>1, <2>1, <2>2, <2>4 DEF StoreInv, FromFile
  <2>5. QED
    BY <2>3, <2>4
<1>4. CASE UNCHANGED storeVars
  BY <1>1, <1>4 DEF storeVars, StoreInv, FromFile
<1>5. QED
  BY <1>1, <1>2, <1>3, <1>4
     DEF RecordsNext, StoreNext, JournalNext, PostNext, recordVars, AppendTaskAssigned,
         AppendTaskRecord, AppendPartialTaskRecord, AppendRefusal, AppendEliminated, Look,
         AppendSocialMessage, RotateIfNeeded

LEMMA StoreImplies == StoreInv => StateKept
<1>1. SUFFICES ASSUME StoreInv, arena # NoRecord
               PROVE  arena.n >= complete /\ (arena.n > 0 => arena.who = changes[arena.n])
  BY DEF StateKept
<1>2. OneOf(changes, arena)
  BY <1>1 DEF StoreInv
<1>3. QED
  BY <1>1, <1>2 DEF StoreInv, OneOf

LEMMA TakingOverKeeps ==
    ASSUME NEW j, NEW b, NEW told, BookKept(j, b, told)
    PROVE  BookKept(j, TakenOver(b), told) /\ TakenOver(b).tried
<1> DEFINE c == TakenOver(b)
<1>1. CASE b.tried
  BY <1>1 DEF TakenOver
<1>2. CASE ~b.tried
  <2>1. /\ c \in Book /\ c.tried /\ c.old = b.old
        /\ c.new = IF b.new = NoRecord /\ b.old # NoRecord THEN b.old ELSE b.new
    BY <1>2 DEF TakenOver, Book, BookKept
  <2> HIDE DEF c
  <2>2. OldLines(c) = OldLines(b)
    BY <2>1 DEF OldLines
  <2>3. CASE b.new = NoRecord /\ b.old # NoRecord
    <3>1. c.new = b.old /\ OldLines(b) = b.old /\ told = <<>> /\ b.old \in Seq(Entry)
      BY <2>1, <2>3 DEF OldLines, BookKept, Book
    <3>2. b.old \o <<>> = b.old
      BY <3>1
    <3>3. BookKept(j, c, told)
      BY <2>1, <2>2, <2>3, <3>1, <3>2 DEF BookKept
    <3>4. QED
      BY <2>1, <3>3 DEF c
  <2>4. CASE ~(b.new = NoRecord /\ b.old # NoRecord)
    <3>1. c.new = b.new /\ (b.new = NoRecord => b.old = NoRecord)
      BY <2>1, <2>4
    <3>2. BookKept(j, c, told)
      BY <2>1, <2>2, <3>1 DEF BookKept
    <3>3. QED
      BY <2>1, <3>2 DEF c
  <2>5. QED
    BY <2>3, <2>4
<1>3. QED
  BY <1>1, <1>2

LEMMA AddingKeeps ==
    ASSUME NEW j, NEW b, NEW told, BookKept(j, b, told), NEW line \in Entry,
           j = "tasks" \/ b.tried
    PROVE  BookKept(j, LineAdded(b, line), Append(told, line))
<1> DEFINE c == LineAdded(b, line)
<1>1. /\ b \in Book /\ told \in Seq(Entry) /\ Append(told, line) \in Seq(Entry)
      /\ <<line>> \in Seq(Entry) /\ <<line>> = Append(<<>>, line) /\ <<>> \in Seq(Entry)
  BY DEF BookKept
<1>2. c.new = IF b.new = NoRecord THEN <<line>> ELSE Append(b.new, line)
  BY <1>1 DEF LineAdded, Book
<1>3. c.new \in Seq(Entry) /\ c.new # NoRecord
  <2>1. b.new # NoRecord => Append(b.new, line) \in Seq(Entry)
    BY <1>1, AppendProperties DEF Book
  <2>2. QED
    BY <1>1, <1>2, <2>1, RecordsConstants
<1>4. c \in Book /\ c.old = b.old /\ c.tried = b.tried
  BY <1>1, <1>2, <1>3 DEF LineAdded, Book
<1> HIDE DEF c
<1>5. OldLines(c) = OldLines(b) /\ OldLines(b) \in Seq(Entry)
  BY <1>1, <1>4 DEF OldLines, Book
<1>6. \/ c.new = OldLines(c) \o Append(told, line)
      \/ j = "tasks" /\ c.new = Append(told, line)
  <2>1. CASE b.new = NoRecord
    <3>1. told = <<>> /\ c.new = Append(told, line)
      BY <1>1, <1>2, <2>1 DEF BookKept
    <3>2. CASE b.tried
      <4>1. OldLines(b) = <<>>
        BY <2>1, <3>2 DEF OldLines, BookKept
      <4>2. <<>> \o Append(told, line) = Append(told, line)
        BY <1>1
      <4>3. QED
        BY <1>5, <3>1, <4>1, <4>2
    <3>3. QED
      BY <3>1, <3>2
  <2>2. CASE b.new # NoRecord
    <3>1. Append(OldLines(b) \o told, line) = OldLines(b) \o Append(told, line)
      BY <1>1, <1>5
    <3>2. QED
      BY <1>2, <1>5, <2>2, <3>1 DEF BookKept
  <2>3. QED
    BY <2>1, <2>2
<1>7. QED
  BY <1>1, <1>3, <1>4, <1>5, <1>6 DEF BookKept, c

LEMMA JournalIsEntry ==
    ASSUME NEW a \in ArenaAgents, NEW t \in TaskNames \cup {NoRecord},
           NEW kind \in TaskKinds \cup {"refused", "buried"}
    PROVE  Journal(kind, a, t) \in Entry
BY DEF Journal, Entry

LEMMA WritingKeeps ==
    ASSUME BooksInv, NEW j \in Books, NEW b, BookKept(j, b, written[j]), j = "tasks" \/ b.tried,
           NEW line \in Entry, Wrote(j, b, line)
    PROVE  BooksInv'
<1>1. /\ books \in [Books -> Book] /\ written \in [Books -> Seq(Entry)]
      /\ books' = [books EXCEPT ![j] = LineAdded(b, line)]
      /\ written' = [written EXCEPT ![j] = Append(@, line)]
  BY DEF BooksInv, Wrote
<1>2. BookKept(j, LineAdded(b, line), Append(written[j], line))
  BY AddingKeeps
<1>3. LineAdded(b, line) \in Book /\ Append(written[j], line) \in Seq(Entry)
  BY <1>2 DEF BookKept
<1>4. books' \in [Books -> Book] /\ written' \in [Books -> Seq(Entry)]
  BY <1>1, <1>3
<1>5. ASSUME NEW k \in Books
      PROVE  BookKept(k, books'[k], written'[k])
  <2>1. CASE k = j
    BY <1>1, <1>2, <2>1
  <2>2. CASE k # j
    <3>1. books'[k] = books[k] /\ written'[k] = written[k]
      BY <1>1, <2>2
    <3>2. QED
      BY <3>1 DEF BooksInv
  <2>3. QED
    BY <2>1, <2>2
<1>6. QED
  BY <1>4, <1>5 DEF BooksInv

LEMMA BooksStep == BooksInv /\ [RecordsNext]_recordVars => BooksInv'
<1>1. SUFFICES ASSUME BooksInv, [RecordsNext]_recordVars PROVE BooksInv'
  OBVIOUS
<1>2. /\ {"tasks", "refusals", "graves"} = Books /\ books \in [Books -> Book]
      /\ written \in [Books -> Seq(Entry)]
      /\ \A j \in Books : BookKept(j, books[j], written[j])
  BY <1>1 DEF Books, BooksInv
<1>3. ASSUME NEW a \in ArenaAgents, NEW t \in TaskNames,
             AppendTaskAssigned(a, t) \/ AppendPartialTaskRecord(a, t) \/ AppendRefusal(a, t)
      PROVE  BooksInv'
  <2>1. CASE AppendTaskAssigned(a, t)
    BY <1>1, <1>2, <2>1, JournalIsEntry, WritingKeeps DEF AppendTaskAssigned, TaskKinds
  <2>2. CASE AppendPartialTaskRecord(a, t)
    BY <1>1, <1>2, <2>2, JournalIsEntry, WritingKeeps DEF AppendPartialTaskRecord, TaskKinds
  <2>3. CASE AppendRefusal(a, t)
    BY <1>1, <1>2, <2>3, JournalIsEntry, TakingOverKeeps, WritingKeeps DEF AppendRefusal
  <2>4. QED
    BY <1>3, <2>1, <2>2, <2>3
<1>4. ASSUME NEW a \in ArenaAgents, AppendEliminated(a)
      PROVE  BooksInv'
  BY <1>1, <1>2, <1>4, JournalIsEntry, TakingOverKeeps, WritingKeeps DEF AppendEliminated
<1>5. ASSUME NEW a \in ArenaAgents, NEW t \in TaskNames, AppendTaskRecord(a, t)
      PROVE  BooksInv'
  <2> DEFINE line == Journal("done", a, t)
  <2>1. line \in Entry
    BY JournalIsEntry DEF TaskKinds
  <2> HIDE DEF line
  <2>2. /\ books' = [books EXCEPT !["tasks"] = LineAdded(@, line), !["refusals"] = TakenOver(@)]
        /\ written' = [written EXCEPT !["tasks"] = Append(@, line)]
    BY <1>5 DEF AppendTaskRecord, line
  <2>3. BookKept("tasks", LineAdded(books["tasks"], line), Append(written["tasks"], line))
    BY <1>2, <2>1, AddingKeeps
  <2>4. BookKept("refusals", TakenOver(books["refusals"]), written["refusals"])
    BY <1>2, TakingOverKeeps
  <2>5. /\ LineAdded(books["tasks"], line) \in Book /\ TakenOver(books["refusals"]) \in Book
        /\ Append(written["tasks"], line) \in Seq(Entry)
    BY <2>3, <2>4 DEF BookKept
  <2>6. books' \in [Books -> Book] /\ written' \in [Books -> Seq(Entry)]
    BY <1>2, <2>2, <2>5
  <2>7. /\ books'["tasks"] = LineAdded(books["tasks"], line)
        /\ books'["refusals"] = TakenOver(books["refusals"])
        /\ books'["graves"] = books["graves"]
        /\ written'["tasks"] = Append(written["tasks"], line)
        /\ written'["refusals"] = written["refusals"] /\ written'["graves"] = written["graves"]
    BY <1>2, <2>2
  <2>8. \A j \in {"tasks", "refusals", "graves"} : BookKept(j, books'[j], written'[j])
    BY <1>2, <2>3, <2>4, <2>7
  <2>9. QED
    BY <1>2, <2>6, <2>8 DEF BooksInv
<1>6. ASSUME NEW j \in Books, Look(j)
      PROVE  BooksInv'
  <2>1. books' = [books EXCEPT ![j] = TakenOver(@)] /\ written' = written
    BY <1>6 DEF Look
  <2>2. BookKept(j, TakenOver(books[j]), written[j])
    BY <1>2, TakingOverKeeps
  <2>3. books' \in [Books -> Book]
    BY <1>2, <2>1, <2>2 DEF BookKept
  <2>4. \A k \in Books : books'[k] = IF k = j THEN TakenOver(books[j]) ELSE books[k]
    BY <1>2, <2>1
  <2>5. \A k \in Books : BookKept(k, books'[k], written'[k])
    BY <1>2, <2>1, <2>2, <2>4
  <2>6. QED
    BY <1>2, <2>1, <2>3, <2>5 DEF BooksInv
<1>7. ASSUME NEW readable \in BOOLEAN, RestartRecords(readable)
      PROVE  BooksInv'
  <2>1. books' = [j \in Books |-> [books[j] EXCEPT !.tried = FALSE]] /\ written' = written
    BY <1>7 DEF RestartRecords
  <2>2. ASSUME NEW j \in Books
        PROVE  BookKept(j, books'[j], written[j])
    <3>1. BookKept(j, books[j], written[j]) /\ books'[j] = [books[j] EXCEPT !.tried = FALSE]
      BY <1>2, <2>1
    <3>2. /\ books'[j] \in Book /\ books'[j].new = books[j].new
          /\ books'[j].old = books[j].old /\ books'[j].tried = FALSE
      BY <1>2, <3>1 DEF Book
    <3>3. QED
      BY <3>1, <3>2 DEF BookKept, OldLines
  <2>3. books' \in [Books -> Book]
    BY <2>1, <2>2 DEF BookKept
  <2>4. QED
    BY <1>2, <2>1, <2>2, <2>3 DEF BooksInv
<1>8. CASE UNCHANGED bookVars
  BY <1>1, <1>8 DEF bookVars, BooksInv
<1>9. QED
  BY <1>1, <1>3, <1>4, <1>5, <1>6, <1>7, <1>8
     DEF RecordsNext, StoreNext, JournalNext, PostNext, recordVars, ChangeState,
         AppendSocialMessage, RotateIfNeeded

LEMMA BooksImply == BooksInv => LinesKept
<1>1. SUFFICES ASSUME BooksInv PROVE LinesKept
  OBVIOUS
<1>2. \A j \in Books : books[j].new # NoRecord =>
          \/ books[j].new = OldLines(books[j]) \o written[j]
          \/ j = "tasks" /\ books[j].new = written[j]
  BY <1>1 DEF BooksInv, BookKept
<1>3. QED
  BY <1>2 DEF LinesKept, OldLines

LEMMA LastAboutMore ==
    ASSUME NEW ls \in Seq(Entry), NEW line \in Entry, NEW p
    PROVE  /\ line.agent = p[1] /\ line.text = p[2] =>
                  /\ LastAbout(Append(ls, line), p, Len(ls) + 1)
                  /\ Append(ls, line)[Len(ls) + 1] = line
                  /\ Len(ls) + 1 \in DOMAIN Append(ls, line)
           /\ ~(line.agent = p[1] /\ line.text = p[2]) =>
                  \A i \in DOMAIN ls : LastAbout(ls, p, i) =>
                      /\ LastAbout(Append(ls, line), p, i) /\ Append(ls, line)[i] = ls[i]
                      /\ i \in DOMAIN Append(ls, line)
<1> DEFINE more == Append(ls, line)
           n == Len(ls)
<1>1. /\ n \in Nat /\ DOMAIN ls = 1 .. n /\ DOMAIN more = 1 .. n + 1 /\ more[n + 1] = line
      /\ \A i \in 1 .. n : more[i] = ls[i]
  BY AppendProperties
<1> HIDE DEF more, n
<1>2. ASSUME line.agent = p[1], line.text = p[2]
      PROVE  LastAbout(more, p, n + 1) /\ more[n + 1] = line /\ n + 1 \in DOMAIN more
  BY <1>1, <1>2 DEF LastAbout
<1>3. ASSUME ~(line.agent = p[1] /\ line.text = p[2]), NEW i \in DOMAIN ls, LastAbout(ls, p, i)
      PROVE  LastAbout(more, p, i) /\ more[i] = ls[i] /\ i \in DOMAIN more
  <2>1. i \in 1 .. n /\ i \in 1 .. n + 1 /\ more[i] = ls[i]
    BY <1>1
  <2>2. ASSUME NEW k \in DOMAIN more, more[k].agent = p[1], more[k].text = p[2]
        PROVE  k <= i
    <3>1. k \in 1 .. n
      BY <1>1, <1>3, <2>2
    <3>2. QED
      BY <1>1, <1>3, <2>2, <3>1 DEF LastAbout
  <2>3. QED
    BY <1>1, <1>3, <2>1, <2>2 DEF LastAbout
<1>4. QED
  BY <1>2, <1>3 DEF more, n

LEMMA MarkingKeeps ==
    ASSUME StatusInv, BooksInv, NEW a \in ArenaAgents, NEW t \in TaskNames, NEW what \in TaskKinds,
           written'["tasks"] = Append(written["tasks"], Journal(what, a, t)), Marked(a, t, what),
           \/ what = "assigned" /\ active' = active \cup {<<a, t>>}
           \/ active' = active \ {<<a, t>>}
    PROVE  StatusInv'
<1> DEFINE line == Journal(what, a, t)
           ls == written["tasks"]
           q == <<a, t>>
<1>1. /\ ls \in Seq(Entry) /\ line \in Entry
      /\ line.agent = a /\ line.text = t /\ line.kind = what
      /\ q[1] = a /\ q[2] = t /\ q \in ArenaAgents \X TaskNames
  BY JournalIsEntry DEF Journal, BooksInv, Books, TaskKinds
<1>2. written'["tasks"] = Append(ls, line)
  OBVIOUS
<1>3. /\ status' = [p \in DOMAIN status \cup {q} |-> IF p = q THEN what ELSE status[p]]
      /\ DOMAIN status' = DOMAIN status \cup {q}
  BY DEF Marked
<1>4. DOMAIN status \subseteq ArenaAgents \X TaskNames
  BY DEF StatusInv
<1> HIDE DEF line, ls, q
<1>5. ASSUME NEW p \in DOMAIN status'
      PROVE  \E i \in DOMAIN Append(ls, line) :
                LastAbout(Append(ls, line), p, i) /\ Append(ls, line)[i].kind = status'[p]
  <2>1. CASE p = q
    BY <1>1, <1>3, <2>1, LastAboutMore
  <2>2. CASE p # q
    <3>1. p \in DOMAIN status /\ status'[p] = status[p]
      BY <1>3, <2>2
    <3>2. PICK i \in DOMAIN ls : LastAbout(ls, p, i) /\ ls[i].kind = status[p]
      BY <3>1 DEF StatusInv, ls
    <3>3. ~(a = p[1] /\ t = p[2])
      BY <1>4, <2>2, <3>1 DEF q
    <3>4. QED
      BY <1>1, <3>1, <3>2, <3>3, LastAboutMore
  <2>3. QED
    BY <2>1, <2>2
<1>6. ASSUME NEW p \in active'
      PROVE  p \in DOMAIN status' /\ status'[p] = "assigned"
  <2>1. CASE p = q
    BY <1>3, <1>6, <2>1 DEF q
  <2>2. CASE p # q
    <3>1. p \in active
      BY <1>6, <2>2 DEF q
    <3>2. QED
      BY <1>3, <2>2, <3>1 DEF StatusInv
  <2>3. QED
    BY <2>1, <2>2
<1>7. DOMAIN status' \subseteq ArenaAgents \X TaskNames
  BY <1>1, <1>3, <1>4
<1>8. QED
  BY <1>2, <1>5, <1>6, <1>7 DEF StatusInv

LEMMA StatusStep == BooksInv /\ StatusInv /\ [RecordsNext]_recordVars => StatusInv'
<1>1. SUFFICES ASSUME BooksInv, StatusInv, [RecordsNext]_recordVars PROVE StatusInv'
  OBVIOUS
<1>2. "tasks" \in Books /\ "refusals" \in Books /\ "graves" \in Books
      /\ written \in [Books -> Seq(Entry)]
  BY <1>1 DEF BooksInv, Books
<1>3. ASSUME NEW a \in ArenaAgents, NEW t \in TaskNames,
             \/ AppendTaskAssigned(a, t) \/ AppendTaskRecord(a, t)
             \/ AppendPartialTaskRecord(a, t)
      PROVE  StatusInv'
  <2>1. CASE AppendTaskAssigned(a, t)
    <3>1. written'["tasks"] = Append(written["tasks"], Journal("assigned", a, t))
      BY <1>2, <2>1 DEF AppendTaskAssigned, Wrote
    <3>2. QED
      BY <1>1, <2>1, <3>1, MarkingKeeps DEF AppendTaskAssigned, TaskKinds
  <2>2. CASE AppendTaskRecord(a, t)
    <3>1. written'["tasks"] = Append(written["tasks"], Journal("done", a, t))
      BY <1>2, <2>2 DEF AppendTaskRecord
    <3>2. QED
      BY <1>1, <2>2, <3>1, MarkingKeeps DEF AppendTaskRecord, TaskKinds
  <2>3. CASE AppendPartialTaskRecord(a, t)
    <3>1. written'["tasks"] = Append(written["tasks"], Journal("partial", a, t))
      BY <1>2, <2>3 DEF AppendPartialTaskRecord, Wrote
    <3>2. QED
      BY <1>1, <2>3, <3>1, MarkingKeeps DEF AppendPartialTaskRecord, TaskKinds
  <2>4. QED
    BY <1>3, <2>1, <2>2, <2>3
<1>4. ASSUME NEW a \in ArenaAgents, \/ AppendEliminated(a)
                                    \/ \E t \in TaskNames : AppendRefusal(a, t)
      PROVE  StatusInv'
  <2>1. written'["tasks"] = written["tasks"] /\ status' = status /\ active' = active
    BY <1>2, <1>4 DEF AppendEliminated, AppendRefusal, Wrote
  <2>2. QED
    BY <1>1, <2>1 DEF StatusInv
<1>5. ASSUME NEW j \in Books, Look(j)
      PROVE  StatusInv'
  BY <1>1, <1>5 DEF Look, StatusInv
<1>6. ASSUME NEW readable \in BOOLEAN, RestartRecords(readable)
      PROVE  StatusInv'
  BY <1>1, <1>6 DEF RestartRecords, StatusInv
<1>7. CASE UNCHANGED bookVars
  BY <1>1, <1>7 DEF bookVars, StatusInv
<1>8. QED
  BY <1>1, <1>3, <1>4, <1>5, <1>6, <1>7
     DEF RecordsNext, StoreNext, JournalNext, PostNext, recordVars, ChangeState,
         AppendSocialMessage, RotateIfNeeded

LEMMA PostStep == PostInv /\ [RecordsNext]_recordVars => PostInv'
<1>1. SUFFICES ASSUME PostInv, [RecordsNext]_recordVars PROVE PostInv'
  OBVIOUS
<1>2. /\ post \in Seq([from : ArenaAgents, to : ArenaAgents]) /\ Len(post) \in Nat
      /\ DOMAIN post = 1 .. Len(post) /\ opened \in 1 .. Len(post) + 1
      /\ \A i \in 1 .. Len(post) : post[i].from # post[i].to
  BY <1>1 DEF PostInv
<1>3. ASSUME NEW a \in ArenaAgents, NEW b \in ArenaAgents, AppendSocialMessage(a, b)
      PROVE  PostInv'
  <2> DEFINE letter == [from |-> a, to |-> b]
  <2>1. /\ letter \in [from : ArenaAgents, to : ArenaAgents] /\ letter.from # letter.to
        /\ post' = Append(post, letter) /\ opened' = opened
    BY <1>3 DEF AppendSocialMessage
  <2> HIDE DEF letter
  <2>2. /\ post' \in Seq([from : ArenaAgents, to : ArenaAgents])
        /\ DOMAIN post' = 1 .. Len(post) + 1 /\ Len(post') = Len(post) + 1
        /\ post'[Len(post) + 1] = letter
        /\ \A i \in 1 .. Len(post) : post'[i] = post[i]
    BY <1>2, <2>1, AppendProperties
  <2>3. \A i \in 1 .. Len(post) + 1 : i \in 1 .. Len(post) \/ i = Len(post) + 1
    BY <1>2
  <2>4. QED
    BY <1>2, <2>1, <2>2, <2>3 DEF PostInv
<1>4. CASE RotateIfNeeded
  BY <1>2, <1>4 DEF RotateIfNeeded, PostInv
<1>5. CASE UNCHANGED postVars
  BY <1>1, <1>5 DEF postVars, PostInv
<1>6. QED
  BY <1>1, <1>3, <1>4, <1>5
     DEF RecordsNext, StoreNext, JournalNext, PostNext, recordVars, ChangeState,
         AppendTaskAssigned, AppendTaskRecord, AppendPartialTaskRecord, AppendRefusal,
         AppendEliminated, Look, RestartRecords, LoadState

\* These lines stand at the end of those, before which nothing is about a task.
StandsAfter(ls, n, told) ==
    /\ ls \in Seq(Entry) /\ told \in Seq(Entry) /\ n \in Nat /\ Len(ls) = n + Len(told)
    /\ \A i \in 1 .. n : ls[i].text = NoRecord
    /\ \A i \in 1 .. Len(told) : ls[n + i] = told[i]

LEMMA LinesAre ==
    ASSUME BooksInv, NEW j \in Books
    PROVE  \E n \in Nat : StandsAfter(LinesOf(j), n, written[j])
<1>1. BookKept(j, books[j], written[j])
  BY DEF BooksInv
<1> DEFINE b == books[j]
           told == written[j]
           old == OldLines(b)
<1>2. LinesOf(j) = IF b.new = NoRecord THEN <<>> ELSE b.new
  BY DEF LinesOf
<1>3. BookKept(j, b, told)
  BY <1>1
<1> HIDE DEF b, told
<1>4. /\ told \in Seq(Entry) /\ old \in Seq(Entry) /\ Len(told) \in Nat /\ Len(old) \in Nat
      /\ 0 \in Nat /\ \A i \in DOMAIN old : old[i].text = NoRecord
      /\ <<>> \in Seq(Entry) /\ Len(<<>>) = 0
  BY <1>3 DEF BookKept, Book, OldLines
<1>5. b.new = NoRecord => told = <<>>
  BY <1>3 DEF BookKept
<1>6. b.new # NoRecord => b.new = old \o told \/ b.new = told
  BY <1>3 DEF BookKept
<1> HIDE DEF old
<1>7. StandsAfter(told, 0, told)
  <2>1. \A i \in 1 .. Len(told) : told[0 + i] = told[i]
    BY <1>4
  <2>2. QED
    BY <1>4, <2>1 DEF StandsAfter
<1>8. StandsAfter(old \o told, Len(old), told)
  <2>1. /\ old \o told \in Seq(Entry) /\ Len(old \o told) = Len(old) + Len(told)
        /\ \A i \in 1 .. Len(old) : (old \o told)[i] = old[i]
        /\ \A i \in 1 .. Len(told) : (old \o told)[Len(old) + i] = told[i]
    BY <1>4
  <2>2. \A i \in 1 .. Len(old) : old[i].text = NoRecord
    BY <1>4
  <2> DEFINE both == old \o told
  <2> HIDE DEF both
  <2>3. StandsAfter(both, Len(old), told)
    BY <1>4, <2>1, <2>2 DEF StandsAfter, both
  <2>4. QED
    BY <2>3 DEF both
<1>9. \E n \in Nat : StandsAfter(LinesOf(j), n, told)
  BY <1>2, <1>4, <1>5, <1>6, <1>7, <1>8, Zenon
<1>10. QED
  BY <1>9 DEF told

LEMMA LineAfter ==
    ASSUME NEW ls, NEW n, NEW told, StandsAfter(ls, n, told), NEW i \in DOMAIN told
    PROVE  n + i \in DOMAIN ls /\ ls[n + i] = told[i]
<1>1. /\ n \in Nat /\ Len(told) \in Nat /\ DOMAIN told = 1 .. Len(told)
      /\ DOMAIN ls = 1 .. n + Len(told)
  BY DEF StandsAfter
<1>2. QED
  BY <1>1 DEF StandsAfter

LEMMA CountAfter ==
    ASSUME NEW ls, NEW n, NEW told, StandsAfter(ls, n, told), NEW t \in TaskNames
    PROVE  CountOf(ls, t) = CountOf(told, t)
<1> DEFINE S == {i \in DOMAIN told : told[i].text = t}
           T == {i \in DOMAIN ls : ls[i].text = t}
           f == [i \in S |-> n + i]
<1>1. /\ n \in Nat /\ Len(told) \in Nat /\ DOMAIN told = 1 .. Len(told)
      /\ DOMAIN ls = 1 .. n + Len(told) /\ t # NoRecord
  BY RecordsConstants DEF StandsAfter
<1>2. IsFiniteSet(S)
  <2>1. IsFiniteSet(1 .. Len(told)) /\ S \in SUBSET (1 .. Len(told))
    BY <1>1, FS_Interval
  <2>2. QED
    BY <2>1, FS_Subset, Zenon
<1>3. \A i \in S : n + i \in T
  BY <1>1 DEF StandsAfter
<1>4. ASSUME NEW k \in T
      PROVE  k - n \in S /\ n + (k - n) = k
  <2>1. k \notin 1 .. n /\ k \in 1 .. n + Len(told) /\ ls[k].text = t
    BY <1>1 DEF StandsAfter
  <2>2. k - n \in 1 .. Len(told) /\ n + (k - n) = k
    BY <1>1, <2>1
  <2>3. told[k - n] = ls[k]
    BY <2>2 DEF StandsAfter
  <2>4. QED
    BY <1>1, <2>1, <2>2, <2>3
<1>5. S \subseteq Int
  BY <1>1
<1>6. f \in Bijection(S, T)
  <2> HIDE DEF S, T
  <2>1. f \in [S -> T]
    BY <1>3
  <2>2. \A x, y \in S : f[x] = f[y] => x = y
    BY <1>1, <1>5
  <2>3. \A k \in T : \E x \in S : f[x] = k
    BY <1>4
  <2> HIDE DEF f
  <2>4. f \in Injection(S, T)
    BY <2>1, <2>2 DEF Injection, IsInjective
  <2>5. f \in Surjection(S, T)
    BY <2>1, <2>3 DEF Surjection
  <2>6. QED
    BY <2>4, <2>5 DEF Bijection
<1>7. ExistsBijection(S, T)
  BY <1>6, Zenon DEF ExistsBijection
<1> HIDE DEF S, T
<1>8. Cardinality(T) = Cardinality(S)
  BY <1>2, <1>7, FS_Bijection
<1>9. QED
  BY <1>8 DEF CountOf, S, T

\* The last line about a task is found behind what was left.
LEMMA RowIsLast ==
    ASSUME NEW n, NEW told, StandsAfter(LinesOf("tasks"), n, told),
           NEW a \in ArenaAgents, NEW t \in TaskNames, NEW i \in DOMAIN told,
           LastAbout(told, <<a, t>>, i)
    PROVE  /\ TaskRow(a, t) = IF <<a, t>> \in active THEN "assigned" ELSE told[i].kind
           /\ \E k \in DOMAIN LinesOf("tasks") : LinesOf("tasks")[k] = told[i]
<1> DEFINE ls == LinesOf("tasks")
           about == {k \in ClaimedBy(a) : ls[k].text = t}
<1>1. TaskRow(a, t) = IF <<a, t>> \in active THEN "assigned"
                      ELSE IF about = {} THEN NoRecord ELSE ls[Max(about)].kind
  BY DEF TaskRow
<1>2. about = {k \in DOMAIN ls : ls[k].agent = a /\ ls[k].text = t}
  BY DEF ClaimedBy
<1>3. StandsAfter(ls, n, told)
  OBVIOUS
<1> HIDE DEF ls, about
<1>4. /\ n \in Nat /\ Len(told) \in Nat /\ DOMAIN told = 1 .. Len(told)
      /\ DOMAIN ls = 1 .. n + Len(told) /\ t # NoRecord
      /\ \A k \in 1 .. n : ls[k].text = NoRecord
      /\ \A k \in 1 .. Len(told) : ls[n + k] = told[k]
  BY <1>3, RecordsConstants DEF StandsAfter
<1>5. i \in 1 .. Len(told) /\ told[i].agent = a /\ told[i].text = t
  BY <1>4 DEF LastAbout
<1>6. n + i \in DOMAIN ls /\ ls[n + i] = told[i]
  BY <1>4, <1>5
<1>7. n + i \in about
  BY <1>2, <1>5, <1>6
<1>8. ASSUME NEW k \in about
      PROVE  k <= n + i
  <2>1. k \in 1 .. n + Len(told) /\ k \notin 1 .. n /\ ls[k].agent = a /\ ls[k].text = t
    BY <1>2, <1>4
  <2>2. k - n \in 1 .. Len(told) /\ n + (k - n) = k
    BY <1>4, <2>1
  <2>3. told[k - n] = ls[k] /\ k - n \in DOMAIN told
    BY <1>4, <2>2
  <2>4. k - n <= i
    BY <2>1, <2>3 DEF LastAbout
  <2>5. QED
    BY <1>4, <1>5, <2>1, <2>4
<1>9. Max(about) = n + i
  <2>1. about \in SUBSET (1 .. n + Len(told)) /\ about # {} /\ n + Len(told) \in Nat
    BY <1>2, <1>4, <1>7
  <2>2. Max(about) \in about /\ \A y \in about : Max(about) >= y
    BY <2>1, GreatestIs
  <2>3. Max(about) <= n + i
    BY <1>8, <2>2
  <2>4. Max(about) >= n + i
    BY <1>7, <2>2
  <2>5. Max(about) \in 1 .. n + Len(told)
    BY <2>1, <2>2
  <2>6. QED
    BY <1>4, <1>5, <2>3, <2>4, <2>5
<1>10. QED
  BY <1>1, <1>6, <1>7, <1>9 DEF ls

LEMMA StatusImplies == BooksInv /\ StatusInv => ListIsCurrent
<1>1. SUFFICES ASSUME BooksInv, StatusInv PROVE ListIsCurrent
  OBVIOUS
<1>2. "tasks" \in Books /\ "refusals" \in Books
  BY DEF Books
<1>3. ASSUME NEW p \in DOMAIN status
      PROVE  p \in DOMAIN TaskList /\ TaskList[p] = status[p]
  <2>1. PICK a \in ArenaAgents, t \in TaskNames : p = <<a, t>>
    BY <1>1 DEF StatusInv
  <2>2. PICK i \in DOMAIN written["tasks"] :
            LastAbout(written["tasks"], p, i) /\ written["tasks"][i].kind = status[p]
    BY <1>1 DEF StatusInv
  <2>3. PICK n \in Nat : StandsAfter(LinesOf("tasks"), n, written["tasks"])
    BY <1>1, <1>2, LinesAre
  <2>4. /\ TaskRow(a, t) = IF <<a, t>> \in active THEN "assigned" ELSE written["tasks"][i].kind
        /\ \E k \in DOMAIN LinesOf("tasks") : LinesOf("tasks")[k] = written["tasks"][i]
    BY <2>1, <2>2, <2>3, RowIsLast
  <2>5. TaskRow(p[1], p[2]) = status[p]
    BY <1>1, <2>1, <2>2, <2>4 DEF StatusInv
  <2> DEFINE told == {<<LinesOf("tasks")[k].agent, LinesOf("tasks")[k].text>> :
                        k \in DOMAIN LinesOf("tasks")}
  <2>6. written["tasks"][i].agent = a /\ written["tasks"][i].text = t
    BY <2>1, <2>2 DEF LastAbout
  <2>7. p \in told
    BY <2>1, <2>4, <2>6
  <2>8. TaskList = [x \in active \cup told |-> TaskRow(x[1], x[2])]
    BY DEF TaskList
  <2> HIDE DEF told
  <2>9. QED
    BY <2>5, <2>7, <2>8
<1>4. ASSUME NEW t \in TaskNames
      PROVE  RefusalsOf(t) = CountOf(written["refusals"], t)
  BY <1>1, <1>2, LinesAre, CountAfter DEF RefusalsOf
<1>5. ASSUME NEW j \in Books, NEW i \in DOMAIN written[j]
      PROVE  written[j][i].agent \in Departed \cup (IF arena = NoRecord THEN {} ELSE arena.who)
  <2>1. PICK n \in Nat : StandsAfter(LinesOf(j), n, written[j])
    BY <1>1, LinesAre
  <2>2. n + i \in DOMAIN LinesOf(j) /\ LinesOf(j)[n + i] = written[j][i]
    BY <2>1, LineAfter
  <2>3. written[j][i].agent \in Named(j)
    BY <2>2 DEF Named
  <2>4. j \in {"tasks", "refusals", "graves"}
    BY DEF Books
  <2>5. QED
    BY <2>3, <2>4 DEF Departed
<1>6. QED
  BY <1>3, <1>4, <1>5 DEF ListIsCurrent

\* Of numbers with fewer than n greater ones there are at most n.
LEMMA FewGreatest ==
    ASSUME NEW m \in Nat, NEW got \in SUBSET (1 .. m), NEW n \in Nat
    PROVE  Cardinality({i \in got : Cardinality({k \in got : k > i}) < n}) <= n
<1> DEFINE R == {i \in got : Cardinality({k \in got : k > i}) < n}
<1>1. IsFiniteSet(got)
  <2>1. IsFiniteSet(1 .. m)
    BY FS_Interval
  <2>2. QED
    BY <2>1, FS_Subset
<1>2. R \subseteq got /\ R \subseteq Nat
  <2>1. got \subseteq Nat
    OBVIOUS
  <2>2. QED
    BY <2>1
<1>3. CASE R = {}
  <2> HIDE DEF R
  <2>1. Cardinality(R) <= n
    BY <1>3, FS_EmptySet
  <2>2. QED
    BY <2>1 DEF R
<1>4. CASE R # {}
  <2>1. PICK i \in R : \A k \in R : i <= k
    <3> HIDE DEF R
    <3>1. QED
      BY <1>2, <1>4, LeastNat
  <2> DEFINE above == {k \in got : k > i}
  <2>2. Cardinality(above) < n /\ i \in Nat
    BY <1>2
  <2>3. IsFiniteSet(above)
    BY <1>1, FS_Subset
  <2>4. R \subseteq above \cup {i}
    BY <1>2, <2>1
  <2> HIDE DEF above, R
  <2>5. IsFiniteSet(above \cup {i}) /\ Cardinality(above \cup {i}) <= Cardinality(above) + 1
    <3>1. /\ IsFiniteSet(above \cup {i}) /\ Cardinality(above) \in Nat
          /\ Cardinality(above \cup {i}) =
                IF i \in above THEN Cardinality(above) ELSE Cardinality(above) + 1
      BY <2>3, FS_AddElement, FS_CardinalityType, Zenon
    <3>2. QED
      BY <3>1
  <2>6. Cardinality(R) <= Cardinality(above \cup {i})
    BY <2>4, <2>5, FS_Subset
  <2>7. Cardinality(above) \in Nat /\ Cardinality(R) \in Nat /\ Cardinality(above \cup {i}) \in Nat
    <3>1. IsFiniteSet(R)
      BY <2>4, <2>5, FS_Subset
    <3>2. QED
      BY <2>3, <2>5, <3>1, FS_CardinalityType
  <2>8. Cardinality(R) <= n
    BY <2>2, <2>5, <2>6, <2>7
  <2>9. QED
    BY <2>8 DEF R
<1>5. QED
  BY <1>3, <1>4

BetweenTwo(a, b) == {i \in InFile : {post[i].from, post[i].to} = {a, b}}

OwesTo(a, since) ==
    {b \in ArenaAgents : \E i \in BetweenTwo(a, b) :
        i >= since /\ post[i].from = b /\ \A k \in BetweenTwo(a, b) : k <= i}

LEMMA LettersInFile ==
    ASSUME PostInv
    PROVE  /\ InFile \subseteq 1 .. Len(post) /\ Len(post) \in Nat
           /\ \A i \in InFile : /\ post[i].from \in ArenaAgents /\ post[i].to \in ArenaAgents
                               /\ post[i].from # post[i].to
<1>1. /\ post \in Seq([from : ArenaAgents, to : ArenaAgents]) /\ Len(post) \in Nat
      /\ DOMAIN post = 1 .. Len(post) /\ opened \in 1 .. Len(post) + 1
  BY DEF PostInv
<1>2. InFile \subseteq 1 .. Len(post)
  BY <1>1 DEF InFile
<1>3. \A i \in 1 .. Len(post) : post[i] \in [from : ArenaAgents, to : ArenaAgents]
  BY <1>1, ElementOfSeq, Zenon
<1>4. \A i \in 1 .. Len(post) : post[i].from # post[i].to
  BY <1>1 DEF PostInv
<1>5. QED
  BY <1>1, <1>2, <1>3, <1>4

\* A letter that waits is followed by no other of the two, or by one that waits
\* as well.
LEMMA PendingIsOwed ==
    ASSUME PostInv, NEW a \in ArenaAgents, NEW since \in Nat, NEW i \in PendingReplies(a, since)
    PROVE  post[i].from \in OwesTo(a, since)
<1> DEFINE b == post[i].from
           T == BetweenTwo(a, b)
<1>1. i \in InFile /\ i >= since /\ post[i].to = a /\ ~RepliedTo(i, a)
  BY DEF PendingReplies
<1>2. b \in ArenaAgents
  BY <1>1, LettersInFile
<1>3. i \in T
  BY <1>1 DEF BetweenTwo
<1>4. T \subseteq InFile
  BY DEF BetweenTwo
<1>5. PICK m \in T : \A k \in T : m >= k
  <2>1. T \in SUBSET (1 .. Len(post)) /\ T # {} /\ Len(post) \in Nat
    BY <1>3, <1>4, LettersInFile
  <2> HIDE DEF T
  <2>2. QED
    BY <2>1, GreatestIs
<1>6. /\ m \in InFile /\ i \in Nat /\ m \in Nat /\ m >= i
      /\ {post[m].from, post[m].to} = {a, b} /\ post[m].from # post[m].to
  BY <1>1, <1>3, <1>4, <1>5, LettersInFile DEF BetweenTwo
<1>7. post[m].from = b
  <2>1. SUFFICES ASSUME post[m].from # b PROVE FALSE
    OBVIOUS
  <2>2. post[m].from = a /\ post[m].to = b
    BY <1>6, <2>1
  <2>3. m # i
    BY <2>1
  <2>4. RepliedTo(i, a)
    BY <1>6, <2>2, <2>3 DEF RepliedTo
  <2>5. QED
    BY <1>1, <2>4
<1>8. \A k \in T : k <= m
  BY <1>4, <1>5, <1>6, LettersInFile
<1>9. m >= since
  BY <1>1, <1>6
<1>10. QED
  BY <1>2, <1>5, <1>7, <1>8, <1>9 DEF OwesTo

LEMMA OwedIsPending ==
    ASSUME PostInv, NEW a \in ArenaAgents, NEW since \in Nat, NEW b \in OwesTo(a, since)
    PROVE  \E i \in PendingReplies(a, since) :
               post[i].from = b /\ \A k \in BetweenTwo(a, b) : k <= i
<1>1. PICK i \in BetweenTwo(a, b) :
          i >= since /\ post[i].from = b /\ \A k \in BetweenTwo(a, b) : k <= i
  BY DEF OwesTo
<1>2. i \in InFile /\ {post[i].from, post[i].to} = {a, b} /\ post[i].from # post[i].to
  BY <1>1, LettersInFile DEF BetweenTwo
<1>3. post[i].to = a
  BY <1>1, <1>2
<1>4. ~RepliedTo(i, a)
  <2>1. SUFFICES ASSUME NEW k \in InFile, k > i, post[k].from = a, post[k].to = b
                 PROVE  FALSE
    BY <1>1 DEF RepliedTo
  <2>2. k \in BetweenTwo(a, b)
    BY <2>1 DEF BetweenTwo
  <2>3. k <= i /\ k \in Nat /\ i \in Nat
    BY <1>1, <1>2, <2>2, LettersInFile
  <2>4. QED
    BY <2>1, <2>3
<1>5. i \in PendingReplies(a, since)
  BY <1>1, <1>2, <1>3, <1>4 DEF PendingReplies
<1>6. QED
  BY <1>1, <1>5

LEMMA TargetWroteLast ==
    ASSUME PostInv, NEW a \in ArenaAgents, NEW since \in Nat, OwesTo(a, since) # {}
    PROVE  LET b == PickReplyTarget(a, since, ArenaAgents)
           IN \A c \in OwesTo(a, since) :
                 \E i \in BetweenTwo(a, b) : \A k \in BetweenTwo(a, c) : k <= i
<1> DEFINE P == PendingReplies(a, since)
           open == {i \in P : post[i].from \in ArenaAgents}
           last == CHOOSE i \in open : \A k \in open : k <= i
<1>1. P \subseteq InFile
  BY DEF PendingReplies
<1>2. open = P
  BY <1>1, LettersInFile
<1>3. P # {}
  BY OwedIsPending
<1>4. \E i \in P : \A k \in P : k <= i
  <2>1. P \in SUBSET (1 .. Len(post)) /\ Len(post) \in Nat
    BY <1>1, LettersInFile
  <2> HIDE DEF P
  <2>2. Max(P) \in P /\ \A k \in P : Max(P) >= k
    BY <1>3, <2>1, GreatestIs
  <2>3. \A k \in P : k \in Nat
    BY <2>1
  <2>4. QED
    BY <2>2, <2>3
<1>5. PickReplyTarget(a, since, ArenaAgents) = IF open = {} THEN NoRecord ELSE post[last].from
  BY DEF PickReplyTarget
<1> HIDE DEF P
<1>6. last \in P /\ \A k \in P : k <= last
  BY <1>2, <1>4
<1>7. PickReplyTarget(a, since, ArenaAgents) = post[last].from
  BY <1>2, <1>3, <1>5
<1> HIDE DEF last, open
<1>8. last \in BetweenTwo(a, post[last].from)
  BY <1>6 DEF P, PendingReplies, BetweenTwo
<1>9. ASSUME NEW c \in OwesTo(a, since)
      PROVE  \A k \in BetweenTwo(a, c) : k <= last
  <2>1. PICK i \in P : \A k \in BetweenTwo(a, c) : k <= i
    BY OwedIsPending DEF P
  <2>2. i <= last /\ i \in Nat /\ last \in Nat
    BY <1>1, <1>6, LettersInFile
  <2>3. \A k \in BetweenTwo(a, c) : k \in Nat
    BY LettersInFile DEF BetweenTwo
  <2>4. QED
    BY <2>1, <2>2, <2>3
<1>10. QED
  BY <1>7, <1>8, <1>9

LEMMA PostImplies == PostInv => AnswersOwed
<1>1. SUFFICES ASSUME PostInv, NEW a \in ArenaAgents, NEW since \in 1 .. Len(post) + 1
               PROVE  /\ {post[i].from : i \in PendingReplies(a, since)} = OwesTo(a, since)
                      /\ OwesTo(a, since) # {} =>
                            LET b == PickReplyTarget(a, since, ArenaAgents)
                            IN \A c \in OwesTo(a, since) :
                                  \E i \in BetweenTwo(a, b) : \A k \in BetweenTwo(a, c) : k <= i
                      /\ \A n \in 1 .. MaxPost : Cardinality(RecentReceived(a, n)) <= n
  BY DEF AnswersOwed, OwesTo, BetweenTwo
<1>2. since \in Nat
  BY LettersInFile
<1>3. {post[i].from : i \in PendingReplies(a, since)} = OwesTo(a, since)
  <2>1. \A i \in PendingReplies(a, since) : post[i].from \in OwesTo(a, since)
    BY <1>1, <1>2, PendingIsOwed
  <2>2. \A b \in OwesTo(a, since) : \E i \in PendingReplies(a, since) : post[i].from = b
    BY <1>1, <1>2, OwedIsPending
  <2>3. QED
    BY <2>1, <2>2
<1>4. ASSUME NEW n \in 1 .. MaxPost
      PROVE  Cardinality(RecentReceived(a, n)) <= n
  <2>1. n \in Nat
    OBVIOUS
  <2> DEFINE got == {i \in InFile : post[i].to = a}
  <2>2. got \in SUBSET (1 .. Len(post)) /\ Len(post) \in Nat
    BY <1>1, LettersInFile
  <2>3. RecentReceived(a, n) = {i \in got : Cardinality({k \in got : k > i}) < n}
    BY DEF RecentReceived
  <2> HIDE DEF got
  <2>4. QED
    BY <2>1, <2>2, <2>3, FewGreatest
<1>5. QED
  BY <1>1, <1>2, <1>3, <1>4, TargetWroteLast

\* What the arena keeps on disk comes back whole, no line of a journal is lost
\* or doubled, the list of tasks shows what happened last, and an agent owes an
\* answer to just those whose letter is the last (persistence.py:382-460,
\* task_history.py, execution_log.py, monitor.py:54-163, social_log.py:109-174).
THEOREM RecordsAreKept == RecordsSpec => []RecordsAgree
<1>1. RecordsInit => RecordsInv
  BY RecordsInitInv
<1>2. RecordsInv /\ [RecordsNext]_recordVars => RecordsInv'
  BY StoreStep, BooksStep, StatusStep, PostStep DEF RecordsInv
<1>3. RecordsInv => RecordsAgree
  BY StoreImplies, BooksImply, StatusImplies, PostImplies DEF RecordsInv, RecordsAgree
<1>4. QED
  BY <1>1, <1>2, <1>3, PTL DEF RecordsSpec

-----------------------------------------------------------------------------
(* The society of the arena.                                               *)

\* A team of agents that were ever made.
TeamUpTo(n) == [id : TeamIds, members : Seq(1 .. n), lore : Seq(ArenaIds)]

\* Agent a stands in one list at most, and there once.
StandsOnce(ts, a) ==
    \A i, j \in DOMAIN ts : \A k \in DOMAIN ts[i].members, l \in DOMAIN ts[j].members :
        ts[i].members[k] = a /\ ts[j].members[l] = a => i = j /\ k = l

Listed(ts, a) == \E i \in DOMAIN ts : a \in ToSet(ts[i].members)

\* What an agent says of its team is what the lists say.
Points(team, ts, a) ==
    /\ team \in TeamIdsOf(ts) \cup {NoTeam}
    /\ \A i \in DOMAIN ts : a \in ToSet(ts[i].members) <=> team = ts[i].id

TeamsUpTo(ts, n) ==
    /\ ts \in Seq(TeamUpTo(n))
    /\ \A i, j \in DOMAIN ts : ts[i].id = ts[j].id => i = j

RosterUpTo(rs, n) == rs \in [DOMAIN rs -> Agent] /\ DOMAIN rs \subseteq 1 .. n

\* What is saved: those who live are in one list at most.
Arranged(rs, n, ts) ==
    /\ n \in Nat /\ RosterUpTo(rs, n) /\ TeamsUpTo(ts, n)
    /\ \A a \in DOMAIN rs : StandsOnce(ts, a)

AllPoint(rs, ts) == \A a \in DOMAIN rs : Points(rs[a].team, ts, a)

LivingAgree == Arranged(roster, lastId, teams) /\ AllPoint(roster, teams)

SavedArranged == Arranged(disk.roster, disk.lastId, disk.teams)

\* The lists agree with the agents, and those that were saved can be made to.
SocietyInv == LivingAgree /\ SavedArranged

-----------------------------------------------------------------------------
\* The places of a set are counted through, each one once.
LEMMA PlacesAre ==
    ASSUME NEW m \in Nat, NEW P, P \subseteq 1 .. m
    PROVE  /\ Cardinality(P) \in Nat
           /\ \A n \in 1 .. Cardinality(P) :
                 \E i \in P : \A j \in P : Cardinality({l \in P : l <= j}) = n <=> j = i
           /\ \A i \in P : Cardinality({l \in P : l <= i}) \in 1 .. Cardinality(P)
<1> DEFINE below(i) == {l \in P : l <= i}
           c == Cardinality(P)
           rank == [i \in P |-> Cardinality(below(i))]
<1>1. IsFiniteSet(P) /\ c \in Nat
  <2>1. IsFiniteSet(1 .. m)
    BY FS_Interval
  <2>2. IsFiniteSet(P)
    BY <2>1, FS_Subset
  <2>3. QED
    BY <2>2, FS_CardinalityType
<1>2. ASSUME NEW i \in P
      PROVE  IsFiniteSet(below(i)) /\ Cardinality(below(i)) \in Nat /\ Cardinality(below(i)) \in 1 .. c
  <2>1. below(i) \in SUBSET P
    OBVIOUS
  <2>2. IsFiniteSet(below(i)) /\ Cardinality(below(i)) <= c
    BY <1>1, <2>1, FS_Subset
  <2>3. Cardinality(below(i)) \in Nat
    BY <2>2, FS_CardinalityType
  <2>4. i \in below(i)
    OBVIOUS
  <2>5. Cardinality(below(i)) # 0
    BY <2>2, <2>4, FS_EmptySet
  <2> HIDE DEF c, below
  <2>6. QED
    BY <1>1, <2>2, <2>3, <2>5
<1>3. ASSUME NEW i \in P, NEW j \in P, i < j, Cardinality(below(i)) = Cardinality(below(j))
      PROVE  FALSE
  <2>1. below(i) \in SUBSET below(j)
    <3>1. P \subseteq Int
      OBVIOUS
    <3>2. \A l \in P : l <= i => l <= j
      BY <1>3, <3>1
    <3>3. QED
      BY <3>2
  <2>2. below(i) = below(j)
    BY <1>2, <1>3, <2>1, FS_Subset
  <2>3. j \in below(j) /\ j \notin below(i)
    BY <1>3
  <2>4. QED
    BY <2>2, <2>3
<1>4. \A i, j \in P : rank[i] = rank[j] => i = j
  <2>1. SUFFICES ASSUME NEW i \in P, NEW j \in P, rank[i] = rank[j], i # j
                 PROVE  FALSE
    OBVIOUS
  <2>2. i < j \/ j < i
    BY <2>1
  <2>3. rank[i] = Cardinality(below(i)) /\ rank[j] = Cardinality(below(j))
    OBVIOUS
  <2> HIDE DEF rank, below
  <2>4. QED
    BY <1>3, <2>1, <2>2, <2>3
<1>5. rank \in [P -> 1 .. c]
  <2> HIDE DEF c, below
  <2>1. QED
    BY <1>2
<1>6. IsFiniteSet(1 .. c) /\ Cardinality(1 .. c) = c
  <2> HIDE DEF c
  <2>1. 1 \in Int /\ c \in Int
    BY <1>1
  <2>2. IsFiniteSet(1 .. c) /\ Cardinality(1 .. c) = IF 1 > c THEN 0 ELSE c - 1 + 1
    BY <2>1, FS_Interval
  <2>3. QED
    BY <1>1, <2>2
<1>7. rank \in Surjection(P, 1 .. c)
  <2> HIDE DEF rank
  <2>1. rank \in Injection(P, 1 .. c)
    BY <1>4, <1>5, Zenon DEF Injection, IsInjective
  <2>2. Cardinality(P) = Cardinality(1 .. c) => rank \in Surjection(P, 1 .. c)
    BY <1>6, <2>1, FS_Injection
  <2>3. QED
    BY <1>6, <2>2
<1>8. \A n \in 1 .. c : \E i \in P : rank[i] = n
  <2> HIDE DEF rank, c
  <2>1. QED
    BY <1>7 DEF Surjection
<1>9. \A n \in 1 .. c : \E i \in P : \A j \in P : Cardinality(below(j)) = n <=> j = i
  <2>1. SUFFICES ASSUME NEW n \in 1 .. c
                 PROVE  \E i \in P : \A j \in P : Cardinality(below(j)) = n <=> j = i
    OBVIOUS
  <2>2. PICK i \in P : rank[i] = n
    BY <1>8, <2>1
  <2>3. \A j \in P : rank[j] = Cardinality(below(j))
    OBVIOUS
  <2> HIDE DEF rank, below
  <2>4. \A j \in P : Cardinality(below(j)) = n <=> j = i
    BY <1>4, <2>2, <2>3
  <2>5. QED
    BY <2>4
<1>10. QED
  BY <1>1, <1>2, <1>9

\* g goes through these places of a sequence, each one once.
Visits(g, s, P) ==
    /\ \A x, y \in 1 .. Cardinality(P) : g[x] = g[y] => x = y
    /\ \A i \in P : \E x \in 1 .. Cardinality(P) : g[x] = i
    /\ AtPlaces(s, P) = [x \in 1 .. Cardinality(P) |-> s[g[x]]]

\* What stands at some places of a sequence, each one once and in its order.
LEMMA AtPlacesAre ==
    ASSUME NEW S, NEW s \in Seq(S), NEW P, P \subseteq DOMAIN s
    PROVE  /\ Cardinality(P) \in Nat
           /\ AtPlaces(s, P) \in Seq(S)
           /\ \E g \in [1 .. Cardinality(P) -> P] : Visits(g, s, P)
<1> DEFINE c == Cardinality(P)
           nth(n) == CHOOSE i \in P : Cardinality({l \in P : l <= i}) = n
           g == [n \in 1 .. c |-> nth(n)]
<1>1. Len(s) \in Nat /\ P \subseteq 1 .. Len(s)
  OBVIOUS
<1>2. /\ c \in Nat
      /\ \A n \in 1 .. c : \E i \in P : \A j \in P : Cardinality({l \in P : l <= j}) = n <=> j = i
      /\ \A i \in P : Cardinality({l \in P : l <= i}) \in 1 .. c
  BY <1>1, PlacesAre
<1>3. ASSUME NEW n \in 1 .. c
      PROVE  nth(n) \in P /\ Cardinality({l \in P : l <= nth(n)}) = n
  <2>1. \E i \in P : Cardinality({l \in P : l <= i}) = n
    BY <1>2
  <2> HIDE DEF c
  <2>2. QED
    BY <2>1, Zenon
<1>4. ASSUME NEW i \in P
      PROVE  nth(Cardinality({l \in P : l <= i})) = i
  <2> DEFINE n == Cardinality({l \in P : l <= i})
  <2>1. n \in 1 .. c
    BY <1>2
  <2>2. nth(n) \in P /\ Cardinality({l \in P : l <= nth(n)}) = n
    BY <1>3, <2>1, Zenon
  <2>3. PICK k \in P : \A j \in P : Cardinality({l \in P : l <= j}) = n <=> j = k
    BY <1>2, <2>1, Zenon
  <2> HIDE DEF c, nth
  <2>4. nth(n) = k /\ i = k
    BY <2>2, <2>3, Zenon
  <2>5. QED
    BY <2>4
<1>5. AtPlaces(s, P) = [n \in 1 .. c |-> s[nth(n)]]
  BY Zenon DEF AtPlaces
<1> HIDE DEF c, nth
<1>6. g \in [1 .. c -> P] /\ \A n \in 1 .. c : g[n] = nth(n)
  BY <1>3
<1>7. \A x, y \in 1 .. c : g[x] = g[y] => x = y
  BY <1>3, <1>6
<1>8. \A i \in P : \E x \in 1 .. c : g[x] = i
  BY <1>2, <1>4, <1>6
<1>9. AtPlaces(s, P) = [x \in 1 .. c |-> s[g[x]]]
  BY <1>5, <1>6
<1> HIDE DEF g
<1>10. AtPlaces(s, P) \in Seq(S)
  <2>1. \A x \in 1 .. c : s[g[x]] \in S
    BY <1>1, <1>6, ElementOfSeq
  <2>2. QED
    BY <1>2, <1>9, <2>1
<1>11. g \in [1 .. Cardinality(P) -> P] /\ Visits(g, s, P)
  BY <1>6, <1>7, <1>8, <1>9 DEF c, Visits
<1>12. QED
  BY <1>2, <1>10, <1>11 DEF c

\* Of a list, those of a set.
LEMMA ToSetAtPlaces ==
    ASSUME NEW S, NEW s \in Seq(S), NEW U
    PROVE  /\ PlacesOf(s, U) \subseteq DOMAIN s
           /\ AtPlaces(s, PlacesOf(s, U)) \in Seq(S)
           /\ ToSet(AtPlaces(s, PlacesOf(s, U))) = ToSet(s) \cap U
<1> DEFINE places == PlacesOf(s, U)
<1>1. places \subseteq DOMAIN s /\ places = {k \in DOMAIN s : s[k] \in U}
  BY DEF PlacesOf
<1> HIDE DEF places
<1>2. places \subseteq DOMAIN s
  BY <1>1
<1>3. AtPlaces(s, places) \in Seq(S)
  BY <1>2, AtPlacesAre
<1>4. PICK g \in [1 .. Cardinality(places) -> places] : Visits(g, s, places)
  BY <1>2, AtPlacesAre
<1>5. /\ \A x, y \in 1 .. Cardinality(places) : g[x] = g[y] => x = y
      /\ \A i \in places : \E x \in 1 .. Cardinality(places) : g[x] = i
      /\ AtPlaces(s, places) = [x \in 1 .. Cardinality(places) |-> s[g[x]]]
  BY <1>4 DEF Visits
<1>6. ToSet(AtPlaces(s, places)) = {s[g[x]] : x \in 1 .. Cardinality(places)}
  BY <1>5 DEF ToSet
<1>7. ToSet(s) = {s[k] : k \in DOMAIN s}
  BY DEF ToSet
<1>8. QED
  BY <1>1, <1>3, <1>5, <1>6, <1>7 DEF places

-----------------------------------------------------------------------------
LEMMA SequenceOf ==
    ASSUME NEW d \in Nat, NEW S, NEW f \in [1 .. d -> S]
    PROVE  f \in Seq(S) /\ Len(f) = d /\ DOMAIN f = 1 .. d
OBVIOUS

\* A list from which some were taken out.
LessOf(s, u) ==
    \E h \in [DOMAIN s -> DOMAIN u] :
        /\ \A k, l \in DOMAIN s : h[k] = h[l] => k = l
        /\ \A k \in DOMAIN s : s[k] = u[h[k]]

LEMMA AtPlacesLess ==
    ASSUME NEW S, NEW s \in Seq(S), NEW U
    PROVE  LessOf(AtPlaces(s, PlacesOf(s, U)), s)
<1> DEFINE places == PlacesOf(s, U)
<1>1. places \subseteq DOMAIN s
  BY DEF PlacesOf
<1> HIDE DEF places
<1>2. PICK g \in [1 .. Cardinality(places) -> places] : Visits(g, s, places)
  BY <1>1, AtPlacesAre
<1>3. /\ \A x, y \in 1 .. Cardinality(places) : g[x] = g[y] => x = y
      /\ \A i \in places : \E x \in 1 .. Cardinality(places) : g[x] = i
      /\ AtPlaces(s, places) = [x \in 1 .. Cardinality(places) |-> s[g[x]]]
  BY <1>2 DEF Visits
<1>4. DOMAIN AtPlaces(s, places) = 1 .. Cardinality(places)
  BY <1>3
<1>5. \A x \in 1 .. Cardinality(places) : AtPlaces(s, places)[x] = s[g[x]]
  BY <1>3
<1>6. g \in [DOMAIN AtPlaces(s, places) -> DOMAIN s]
  BY <1>1, <1>3, <1>4
<1>7. LessOf(AtPlaces(s, places), s)
  BY <1>3, <1>4, <1>5, <1>6 DEF LessOf
<1>8. QED
  BY <1>7 DEF places

\* A team of those there are.
LEMMA TeamIs ==
    ASSUME NEW n \in Nat, NEW ts \in Seq(TeamUpTo(n)), NEW i \in DOMAIN ts
    PROVE  /\ ts[i] \in TeamUpTo(n)
           /\ ts[i].id \in TeamIds /\ ts[i].members \in Seq(1 .. n) /\ ts[i].lore \in Seq(ArenaIds)
           /\ ToSet(ts[i].members) = {ts[i].members[k] : k \in DOMAIN ts[i].members}
           /\ ToSet(ts[i].members) \subseteq 1 .. n
<1>1. i \in 1 .. Len(ts)
  OBVIOUS
<1>2. ts[i] \in TeamUpTo(n)
  BY <1>1, ElementOfSeq, Zenon
<1>3. ts[i].id \in TeamIds /\ ts[i].members \in Seq(1 .. n) /\ ts[i].lore \in Seq(ArenaIds)
  BY <1>2 DEF TeamUpTo
<1>4. ToSet(ts[i].members) = {ts[i].members[k] : k \in DOMAIN ts[i].members}
  BY DEF ToSet
<1>5. \A k \in DOMAIN ts[i].members : ts[i].members[k] \in 1 .. n
  BY <1>3
<1>6. QED
  BY <1>2, <1>3, <1>4, <1>5

\* Fewer teams with shorter lists.
LEMMA FewerStand ==
    ASSUME NEW us, NEW ts, NEW g \in [DOMAIN ts -> DOMAIN us],
           \A i, j \in DOMAIN ts : g[i] = g[j] => i = j,
           \A i \in DOMAIN ts : LessOf(ts[i].members, us[g[i]].members),
           NEW a, StandsOnce(us, a)
    PROVE  StandsOnce(ts, a)
<1>1. SUFFICES ASSUME NEW i \in DOMAIN ts, NEW j \in DOMAIN ts,
                      NEW k \in DOMAIN ts[i].members, NEW l \in DOMAIN ts[j].members,
                      ts[i].members[k] = a, ts[j].members[l] = a
               PROVE  i = j /\ k = l
  BY DEF StandsOnce
<1>2. PICK h \in [DOMAIN ts[i].members -> DOMAIN us[g[i]].members] :
         /\ \A x, y \in DOMAIN ts[i].members : h[x] = h[y] => x = y
         /\ \A x \in DOMAIN ts[i].members : ts[i].members[x] = us[g[i]].members[h[x]]
  BY DEF LessOf
<1>3. PICK f \in [DOMAIN ts[j].members -> DOMAIN us[g[j]].members] :
         \A x \in DOMAIN ts[j].members : ts[j].members[x] = us[g[j]].members[f[x]]
  BY DEF LessOf
<1>4. i = j
  <2>1. us[g[i]].members[h[k]] = a /\ us[g[j]].members[f[l]] = a
    BY <1>1, <1>2, <1>3
  <2>2. g[i] = g[j]
    BY <1>2, <1>3, <2>1 DEF StandsOnce
  <2>3. QED
    BY <2>2
<1>5. k = l
  <2>1. l \in DOMAIN ts[i].members /\ ts[i].members[l] = a
    BY <1>1, <1>4
  <2>2. us[g[i]].members[h[k]] = a /\ us[g[i]].members[h[l]] = a
    BY <1>1, <1>2, <2>1
  <2>3. h[k] = h[l]
    BY <1>2, <2>1, <2>2 DEF StandsOnce
  <2>4. QED
    BY <1>2, <2>1, <2>3
<1>6. QED
  BY <1>4, <1>5

\* Team_id of an agent after it is written back from the lists.
LEMMA EnrolledPoints ==
    ASSUME NEW n \in Nat, NEW ts, TeamsUpTo(ts, n), NEW rs, rs \in [DOMAIN rs -> Agent],
           NEW a \in DOMAIN rs, StandsOnce(ts, a),
           ~Listed(ts, a) => rs[a].team = NoTeam
    PROVE  /\ Enrolled(rs, ts)[a] \in Agent
           /\ Points(Enrolled(rs, ts)[a].team, ts, a)
<1> DEFINE r == rs[a]
           id == IF TeamsOf(ts, a) = {} THEN r.team ELSE ts[Min(TeamsOf(ts, a))].id
<1>1. r \in Agent
  OBVIOUS
<1>2. Enrolled(rs, ts)[a] = [r EXCEPT !.team = id]
  BY DEF Enrolled
<1>3. ts \in Seq(TeamUpTo(n)) /\ \A i, j \in DOMAIN ts : ts[i].id = ts[j].id => i = j
  BY DEF TeamsUpTo
<1>4. \A i \in DOMAIN ts : ts[i].id \in TeamIds
  BY <1>3, TeamIs
<1>5. CASE TeamsOf(ts, a) = {}
  <2>1. \A i \in DOMAIN ts : a \notin ToSet(ts[i].members)
    BY <1>5 DEF TeamsOf
  <2>2. id = NoTeam
    BY <1>5, <2>1 DEF Listed
  <2>3. \A i \in DOMAIN ts : ts[i].id # NoTeam
    BY <1>4, SocietyConstants
  <2>4. [r EXCEPT !.team = NoTeam] \in Agent /\ [r EXCEPT !.team = NoTeam].team = NoTeam
    BY <1>1 DEF Agent
  <2> HIDE DEF id, r
  <2>5. QED
    BY <1>2, <2>1, <2>2, <2>3, <2>4 DEF Points
<1>6. CASE TeamsOf(ts, a) # {}
  <2>1. PICK i \in TeamsOf(ts, a) : TRUE
    BY <1>6
  <2>2. i \in DOMAIN ts /\ a \in ToSet(ts[i].members) /\ i \in Nat
    BY <1>3, <2>1 DEF TeamsOf
  <2>3. \A j \in DOMAIN ts : a \in ToSet(ts[j].members) => j = i
    BY <2>2 DEF StandsOnce, ToSet
  <2>4. TeamsOf(ts, a) = {i}
    BY <2>1, <2>3 DEF TeamsOf
  <2>5. Min({i}) = i
    BY <2>2 DEF Min
  <2>6. id = ts[i].id /\ id \in TeamIds
    BY <1>4, <1>6, <2>2, <2>4, <2>5
  <2> HIDE DEF id
  <2>7. [r EXCEPT !.team = id] \in Agent /\ [r EXCEPT !.team = id].team = id
    BY <1>1, <2>6 DEF Agent
  <2>8. id \in TeamIdsOf(ts)
    BY <2>2, <2>6 DEF TeamIdsOf
  <2>9. \A j \in DOMAIN ts : a \in ToSet(ts[j].members) <=> id = ts[j].id
    BY <1>3, <2>2, <2>3, <2>6
  <2> HIDE DEF r
  <2>10. QED
    BY <1>2, <2>7, <2>8, <2>9 DEF Points
<1>7. QED
  BY <1>5, <1>6

LEMMA EnrolledWell ==
    ASSUME NEW n \in Nat, NEW ts, TeamsUpTo(ts, n), NEW rs, RosterUpTo(rs, n),
           \A a \in DOMAIN rs : StandsOnce(ts, a) /\ (~Listed(ts, a) => rs[a].team = NoTeam)
    PROVE  Arranged(Enrolled(rs, ts), n, ts) /\ AllPoint(Enrolled(rs, ts), ts)
<1> DEFINE es == Enrolled(rs, ts)
<1>1. rs \in [DOMAIN rs -> Agent] /\ DOMAIN rs \subseteq 1 .. n
  BY DEF RosterUpTo
<1>2. ASSUME NEW a \in DOMAIN rs
      PROVE  es[a] \in Agent /\ Points(es[a].team, ts, a)
  BY <1>1, EnrolledPoints
<1>3. DOMAIN es = DOMAIN rs /\ es = [a \in DOMAIN rs |-> es[a]]
  BY DEF Enrolled
<1> HIDE DEF es
<1>4. RosterUpTo(es, n)
  BY <1>1, <1>2, <1>3 DEF RosterUpTo
<1>5. QED
  BY <1>2, <1>3, <1>4 DEF Arranged, AllPoint, es

-----------------------------------------------------------------------------
LEMMA TimesMore ==
    ASSUME NEW x \in Nat, NEW y \in Nat, x <= y, NEW n \in Nat
    PROVE  x * n <= y * n
<1>1. (y - x) * n >= 0
  OBVIOUS
<1>2. (y - x) * n = y * n - x * n
  OBVIOUS
<1>3. x * n \in Int /\ y * n \in Int
  OBVIOUS
<1>4. QED
  BY <1>1, <1>2, <1>3

\* Who is dealt in one round of n to the same as in another is the same.
LEMMA DealtApart ==
    ASSUME NEW n \in Nat, NEW k \in 1 .. n, NEW l \in 1 .. n, NEW x \in Nat, NEW y \in Nat,
           k + x * n = l + y * n
    PROVE  k = l /\ x = y
<1>1. x * n \in Int /\ y * n \in Int
  OBVIOUS
<1>2. ASSUME x < y PROVE FALSE
  <2>1. (x + 1) * n <= y * n
    BY <1>2, TimesMore
  <2>2. (x + 1) * n = x * n + n
    OBVIOUS
  <2>3. QED
    BY <1>1, <2>1, <2>2
<1>3. ASSUME y < x PROVE FALSE
  <2>1. (y + 1) * n <= x * n
    BY <1>3, TimesMore
  <2>2. (y + 1) * n = y * n + n
    OBVIOUS
  <2>3. QED
    BY <1>1, <2>1, <2>2
<1>4. x = y
  BY <1>2, <1>3
<1>5. QED
  BY <1>1, <1>4

LEMMA QuotientIs ==
    ASSUME NEW x \in Nat, NEW n \in Nat \ {0}
    PROVE  x \div n \in Nat /\ (x \div n) * n <= x
<1>1. (x \div n) * n <= x
  OBVIOUS
<1>2. x \div n \in Nat
  OBVIOUS
<1>3. QED
  BY <1>1, <1>2

LEMMA RoundsFit ==
    ASSUME NEW n \in Nat, NEW k \in 1 .. n, NEW m \in Nat, n <= m, NEW j \in 1 .. ((m - k) \div n + 1)
    PROVE  k + (j - 1) * n \in 1 .. m
<1>1. n > 0 /\ m - k \in Nat
  OBVIOUS
<1> DEFINE q == (m - k) \div n
<1>2. q \in Nat /\ q * n <= m - k
  BY <1>1, QuotientIs
<1>3. j - 1 \in Nat /\ j - 1 <= q
  BY <1>2
<1> HIDE DEF q
<1>4. (j - 1) * n <= q * n
  BY <1>2, <1>3, TimesMore
<1>5. (j - 1) * n \in Nat /\ q * n \in Nat
  BY <1>2, <1>3
<1>6. (j - 1) * n <= m - k
  BY <1>1, <1>2, <1>4, <1>5
<1>7. QED
  BY <1>1, <1>5, <1>6

\* New teams of the agents in an order in which each one is once.
LEMMA DealtWell ==
    ASSUME NEW m \in Nat, NEW n \in Nat, NEW stay, NEW order \in Seq(1 .. m),
           \A x, y \in DOMAIN order : order[x] = order[y] => x = y,
           n <= Len(order), FreshIds(stay, n) # {}
    PROVE  /\ TeamsUpTo(Dealt(stay, n, order), m)
           /\ \A i \in DOMAIN Dealt(stay, n, order) :
                 /\ Dealt(stay, n, order)[i].id \notin TeamIdsOf(stay)
                 /\ ToSet(Dealt(stay, n, order)[i].members) \subseteq ToSet(order)
           /\ \A a : StandsOnce(Dealt(stay, n, order), a)
<1> DEFINE ids == CHOOSE f \in FreshIds(stay, n) : TRUE
           rounds(k) == (Len(order) - k) \div n + 1
           list(k) == [j \in 1 .. rounds(k) |-> order[k + (j - 1) * n]]
           team(k) == [id |-> ids[k], lore |-> <<>>, members |-> list(k)]
           ds == [k \in 1 .. n |-> team(k)]
<1>1. ids \in FreshIds(stay, n)
  OBVIOUS
<1>2. ids \in [1 .. n -> TeamIds \ TeamIdsOf(stay)] /\ \A k, l \in 1 .. n : ids[k] = ids[l] => k = l
  BY <1>1, Zenon DEF FreshIds
<1>3. Dealt(stay, n, order) = ds
  BY Zenon DEF Dealt
<1> HIDE DEF ids
<1>4. Len(order) \in Nat /\ DOMAIN order = 1 .. Len(order)
  OBVIOUS
<1>5. ASSUME NEW k \in 1 .. n
      PROVE  /\ rounds(k) \in Nat
             /\ \A j \in 1 .. rounds(k) : k + (j - 1) * n \in DOMAIN order
  <2>1. rounds(k) \in Nat
    <3>1. n \in Nat \ {0} /\ Len(order) - k \in Nat
      BY <1>4
    <3>2. (Len(order) - k) \div n \in Nat
      BY ONLY <3>1, QuotientIs
    <3>3. QED
      BY <3>2
  <2>2. QED
    BY <1>4, <2>1, RoundsFit
<1>6. ASSUME NEW k \in 1 .. n
      PROVE  /\ list(k) \in Seq(1 .. m) /\ DOMAIN list(k) = 1 .. rounds(k)
             /\ \A j \in 1 .. rounds(k) : list(k)[j] = order[k + (j - 1) * n]
  <2> HIDE DEF rounds
  <2>1. \A j \in 1 .. rounds(k) : order[k + (j - 1) * n] \in 1 .. m
    BY <1>5, ElementOfSeq
  <2>2. list(k) \in [1 .. rounds(k) -> 1 .. m]
    BY <2>1
  <2>3. PICK r \in Nat : r = rounds(k)
    BY <1>5
  <2>4. list(k) \in [1 .. r -> 1 .. m]
    BY <2>2, <2>3
  <2>5. list(k) \in Seq(1 .. m)
    <3> HIDE DEF list
    <3>1. QED
      BY <2>4
  <2>6. QED
    BY <2>5
<1> HIDE DEF list
<1>7. ASSUME NEW k \in 1 .. n
      PROVE  team(k) \in TeamUpTo(m)
  <2>1. <<>> \in Seq(ArenaIds)
    OBVIOUS
  <2>2. ids[k] \in TeamIds
    BY <1>2
  <2>3. QED
    BY <1>6, <2>1, <2>2 DEF TeamUpTo
<1>8. \A k \in 1 .. n : ds[k] = team(k) /\ ds[k].id = ids[k] /\ ds[k].members = list(k)
  OBVIOUS
<1>9. DOMAIN ds = 1 .. n
  OBVIOUS
<1>10. ds \in Seq(TeamUpTo(m))
  <2>1. ds \in [1 .. n -> TeamUpTo(m)]
    BY <1>7
  <2> HIDE DEF ds
  <2>2. QED
    BY <2>1
<1> HIDE DEF ds, team
<1>11. TeamsUpTo(ds, m)
  BY <1>2, <1>8, <1>9, <1>10 DEF TeamsUpTo
<1>12. ASSUME NEW i \in DOMAIN ds
       PROVE  ds[i].id \notin TeamIdsOf(stay) /\ ToSet(ds[i].members) \subseteq ToSet(order)
  <2>1. i \in 1 .. n /\ ds[i].id = ids[i] /\ ds[i].members = list(i)
    BY <1>8, <1>9
  <2>2. ds[i].id \notin TeamIdsOf(stay)
    BY <1>2, <2>1
  <2>3. ToSet(list(i)) = {list(i)[j] : j \in 1 .. rounds(i)}
    BY <1>6, <2>1 DEF ToSet
  <2>4. ToSet(order) = {order[j] : j \in DOMAIN order}
    BY DEF ToSet
  <2> HIDE DEF rounds
  <2>5. QED
    BY <1>5, <1>6, <2>1, <2>2, <2>3, <2>4
<1>13. ASSUME NEW a
       PROVE  StandsOnce(ds, a)
  <2>1. SUFFICES ASSUME NEW i \in DOMAIN ds, NEW j \in DOMAIN ds,
                        NEW k \in DOMAIN ds[i].members, NEW l \in DOMAIN ds[j].members,
                        ds[i].members[k] = a, ds[j].members[l] = a
                 PROVE  i = j /\ k = l
    BY DEF StandsOnce
  <2>2. i \in 1 .. n /\ j \in 1 .. n /\ k \in 1 .. rounds(i) /\ l \in 1 .. rounds(j)
    BY <1>6, <1>8, <1>9, ZenonT(40)
  <2> HIDE DEF rounds
  <2>3. a = order[i + (k - 1) * n] /\ a = order[j + (l - 1) * n]
    BY <1>6, <1>8, <2>1, <2>2, ZenonT(40)
  <2>4. i + (k - 1) * n = j + (l - 1) * n
    BY <1>5, <2>2, <2>3
  <2>5. k - 1 \in Nat /\ l - 1 \in Nat
    <3>1. rounds(i) \in Nat /\ rounds(j) \in Nat
      BY <1>5, <2>2
    <3>2. QED
      BY <2>2, <3>1
  <2>6. i = j /\ k - 1 = l - 1
    <3>1. \A x, y \in Nat : i + x * n = j + y * n => i = j /\ x = y
      BY <2>2, DealtApart
    <3>2. QED
      BY <2>4, <2>5, <3>1, Zenon
  <2>7. QED
    BY <1>5, <2>2, <2>6
<1>14. QED
  BY <1>3, <1>11, <1>12, <1>13

-----------------------------------------------------------------------------
\* An order of some agents has each of them once.
LEMMA OrderIs ==
    ASSUME NEW n \in Nat, NEW U, U \subseteq 1 .. n, NEW order \in SetToSeqs(U)
    PROVE  /\ order \in Seq(1 .. n) /\ Len(order) = Cardinality(U) /\ Cardinality(U) \in Nat
           /\ \A x, y \in DOMAIN order : order[x] = order[y] => x = y
           /\ ToSet(order) \subseteq U
<1> DEFINE c == Cardinality(U)
<1>1. c \in Nat
  BY PlacesAre
<1>2. order \in [1 .. c -> U] /\ \A i, j \in 1 .. c : i # j => order[i] # order[j]
  BY Zenon DEF SetToSeqs
<1> HIDE DEF c
<1>3. order \in [1 .. c -> 1 .. n]
  BY <1>2
<1>4. order \in Seq(1 .. n) /\ Len(order) = c /\ DOMAIN order = 1 .. c
  BY <1>1, <1>3
<1>5. \A x, y \in DOMAIN order : order[x] = order[y] => x = y
  BY <1>2, <1>4
<1>6. ToSet(order) \subseteq U
  BY <1>2, <1>4 DEF ToSet
<1>7. QED
  BY <1>1, <1>4, <1>5, <1>6 DEF c

LEMMA HomelessIs ==
    ASSUME NEW n \in Nat, NEW rs, RosterUpTo(rs, n)
    PROVE  /\ RosterUpTo(Homeless(rs), n) /\ DOMAIN Homeless(rs) = DOMAIN rs
           /\ \A a \in DOMAIN rs : Homeless(rs)[a].team = NoTeam
<1>1. ASSUME NEW a \in DOMAIN rs
      PROVE  [rs[a] EXCEPT !.team = NoTeam] \in Agent /\ [rs[a] EXCEPT !.team = NoTeam].team = NoTeam
  <2>1. rs[a] \in Agent
    BY DEF RosterUpTo
  <2>2. QED
    BY <2>1 DEF Agent
<1>2. /\ Homeless(rs) = [a \in DOMAIN rs |-> Homeless(rs)[a]] /\ DOMAIN Homeless(rs) = DOMAIN rs
      /\ \A a \in DOMAIN rs : Homeless(rs)[a] = [rs[a] EXCEPT !.team = NoTeam]
  BY DEF Homeless
<1>3. QED
  BY <1>1, <1>2 DEF RosterUpTo

\* The teams there were are dissolved, and the willing are dealt new ones.
LEMMA AssignedWell ==
    ASSUME NEW m \in Nat, NEW rs, RosterUpTo(rs, m), NEW n \in Nat, n <= MaxTeams,
           n <= Cardinality(Willing(rs)), NEW order \in SetToSeqs(Willing(rs))
    PROVE  /\ Arranged(Assigned(rs, n, order).roster, m, Assigned(rs, n, order).teams)
           /\ AllPoint(Assigned(rs, n, order).roster, Assigned(rs, n, order).teams)
<1> DEFINE ts == Dealt(<<>>, n, order)
<1>1. Willing(rs) \subseteq 1 .. m
  BY DEF Willing, RosterUpTo
<1>2. /\ order \in Seq(1 .. m) /\ Len(order) = Cardinality(Willing(rs))
      /\ \A x, y \in DOMAIN order : order[x] = order[y] => x = y
  BY <1>1, OrderIs
<1>3. FreshIds(<<>>, n) # {}
  <2>1. TeamIdsOf(<<>>) = {}
    BY DEF TeamIdsOf
  <2>2. [k \in 1 .. n |-> k] \in [1 .. n -> TeamIds \ {}]
    BY SocietyConstants DEF TeamIds
  <2>3. \A k, l \in 1 .. n : [x \in 1 .. n |-> x][k] = [x \in 1 .. n |-> x][l] => k = l
    OBVIOUS
  <2>4. [k \in 1 .. n |-> k] \in FreshIds(<<>>, n)
    BY <2>1, <2>2, <2>3 DEF FreshIds
  <2>5. QED
    BY <2>4
<1>4. TeamsUpTo(ts, m) /\ \A a : StandsOnce(ts, a)
  BY <1>2, <1>3, DealtWell
<1> HIDE DEF ts
<1>5. /\ RosterUpTo(Homeless(rs), m)
      /\ \A a \in DOMAIN Homeless(rs) : Homeless(rs)[a].team = NoTeam
  BY HomelessIs
<1>6. Arranged(Enrolled(Homeless(rs), ts), m, ts) /\ AllPoint(Enrolled(Homeless(rs), ts), ts)
  BY <1>4, <1>5, EnrolledWell
<1>7. Assigned(rs, n, order) = [roster |-> Enrolled(Homeless(rs), ts), teams |-> ts]
  BY DEF Assigned, ts
<1>8. QED
  BY <1>6, <1>7

-----------------------------------------------------------------------------
\* What changes of agents is not their team.
SameHomes(rs, qs) ==
    /\ qs \in [DOMAIN rs -> Agent]
    /\ \A a \in DOMAIN rs : qs[a].team = rs[a].team

LEMMA HomesKept ==
    ASSUME NEW rs, NEW qs, NEW n, NEW ts, Arranged(rs, n, ts), SameHomes(rs, qs)
    PROVE  Arranged(qs, n, ts) /\ (AllPoint(rs, ts) => AllPoint(qs, ts))
<1>1. DOMAIN qs = DOMAIN rs /\ qs \in [DOMAIN qs -> Agent]
  BY DEF SameHomes
<1>2. RosterUpTo(qs, n)
  BY <1>1 DEF Arranged, RosterUpTo
<1>3. Arranged(qs, n, ts)
  BY <1>1, <1>2 DEF Arranged
<1>4. AllPoint(rs, ts) => AllPoint(qs, ts)
  BY <1>1 DEF AllPoint, SameHomes
<1>5. QED
  BY <1>3, <1>4

\* Some of the agents are gone.
LEMMA FewerAgents ==
    ASSUME NEW rs, NEW n, NEW ts, Arranged(rs, n, ts), NEW S, S \subseteq DOMAIN rs
    PROVE  /\ Arranged([a \in S |-> rs[a]], n, ts)
           /\ AllPoint(rs, ts) => AllPoint([a \in S |-> rs[a]], ts)
<1> DEFINE qs == [a \in S |-> rs[a]]
<1>1. DOMAIN qs = S /\ \A a \in S : qs[a] = rs[a]
  OBVIOUS
<1>2. RosterUpTo(qs, n)
  BY DEF Arranged, RosterUpTo
<1> HIDE DEF qs
<1>3. Arranged(qs, n, ts)
  BY <1>1, <1>2 DEF Arranged
<1>4. AllPoint(rs, ts) => AllPoint(qs, ts)
  BY <1>1 DEF AllPoint
<1>5. QED
  BY <1>3, <1>4 DEF qs

\* What changes of teams is not their lists.
LEMMA ListsKept ==
    ASSUME NEW rs, NEW n, NEW ts, NEW us, Arranged(rs, n, ts),
           us \in Seq(TeamUpTo(n)), DOMAIN us = DOMAIN ts,
           \A i \in DOMAIN ts : us[i].id = ts[i].id /\ us[i].members = ts[i].members
    PROVE  Arranged(rs, n, us) /\ (AllPoint(rs, ts) => AllPoint(rs, us))
<1>1. TeamsUpTo(us, n)
  BY DEF Arranged, TeamsUpTo
<1>2. \A a : StandsOnce(ts, a) => StandsOnce(us, a)
  BY DEF StandsOnce
<1>3. TeamIdsOf(us) = TeamIdsOf(ts)
  BY DEF TeamIdsOf
<1>4. \A a, team : Points(team, ts, a) => Points(team, us, a)
  BY <1>3 DEF Points
<1>5. QED
  BY <1>1, <1>2, <1>4 DEF Arranged, AllPoint

-----------------------------------------------------------------------------
\* Two lists of teams one after the other.
LEMMA TeamsConcat ==
    ASSUME NEW n \in Nat, NEW js, TeamsUpTo(js, n), NEW ds, TeamsUpTo(ds, n),
           \A i \in DOMAIN ds : ds[i].id \notin TeamIdsOf(js)
    PROVE  /\ TeamsUpTo(js \o ds, n)
           /\ \A a : Listed(js, a) => Listed(js \o ds, a)
           /\ \A a : StandsOnce(js, a) /\ StandsOnce(ds, a) /\ ~(Listed(js, a) /\ Listed(ds, a)) =>
                     StandsOnce(js \o ds, a)
<1> DEFINE ts == js \o ds
           m == Len(js)
<1>1. /\ js \in Seq(TeamUpTo(n)) /\ ds \in Seq(TeamUpTo(n))
      /\ \A i, j \in DOMAIN js : js[i].id = js[j].id => i = j
      /\ \A i, j \in DOMAIN ds : ds[i].id = ds[j].id => i = j
  BY DEF TeamsUpTo
<1>2. /\ m \in Nat /\ DOMAIN js = 1 .. m /\ Len(ds) \in Nat /\ DOMAIN ds = 1 .. Len(ds)
  BY <1>1
<1>3. /\ ts \in Seq(TeamUpTo(n)) /\ DOMAIN ts = 1 .. m + Len(ds)
      /\ \A i \in 1 .. m + Len(ds) : ts[i] = IF i <= m THEN js[i] ELSE ds[i - m]
  <2>1. ts \in Seq(TeamUpTo(n)) /\ Len(ts) = m + Len(ds)
    BY <1>1
  <2>2. \A i \in 1 .. m + Len(ds) : ts[i] = IF i <= m THEN js[i] ELSE ds[i - m]
    BY <1>1, <1>2
  <2> HIDE DEF ts, m
  <2>3. QED
    BY <1>2, <2>1, <2>2
<1> HIDE DEF ts, m
<1>4. ASSUME NEW i \in DOMAIN ts
      PROVE  \/ i \in DOMAIN js /\ ts[i] = js[i]
             \/ i > m /\ i - m \in DOMAIN ds /\ ts[i] = ds[i - m]
  BY <1>2, <1>3
<1>5. \A i \in DOMAIN js : js[i].id \in TeamIdsOf(js)
  BY DEF TeamIdsOf
<1>6. \A i, j \in DOMAIN ts : ts[i].id = ts[j].id => i = j
  <2>1. SUFFICES ASSUME NEW i \in DOMAIN ts, NEW j \in DOMAIN ts, ts[i].id = ts[j].id
                 PROVE  i = j
    OBVIOUS
  <2>2. CASE i \in DOMAIN js /\ ts[i] = js[i]
    BY <1>1, <1>4, <1>5, <2>1, <2>2
  <2>3. CASE i > m /\ i - m \in DOMAIN ds /\ ts[i] = ds[i - m]
    <3>1. CASE j \in DOMAIN js /\ ts[j] = js[j]
      BY <1>5, <2>1, <2>3, <3>1
    <3>2. CASE j > m /\ j - m \in DOMAIN ds /\ ts[j] = ds[j - m]
      <4>1. i - m = j - m
        BY <1>1, <2>1, <2>3, <3>2
      <4>2. QED
        BY <1>2, <1>3, <4>1
    <3>3. QED
      BY <1>4, <3>1, <3>2
  <2>4. QED
    BY <1>4, <2>2, <2>3
<1>7. TeamsUpTo(ts, n)
  BY <1>3, <1>6 DEF TeamsUpTo
<1>8. ASSUME NEW a, Listed(js, a)
      PROVE  Listed(ts, a)
  <2>1. PICK i \in DOMAIN js : a \in ToSet(js[i].members)
    BY <1>8 DEF Listed
  <2>2. i \in DOMAIN ts /\ ts[i] = js[i]
    BY <1>2, <1>3
  <2>3. QED
    BY <2>1, <2>2 DEF Listed
<1>9. ASSUME NEW a, StandsOnce(js, a), StandsOnce(ds, a), ~(Listed(js, a) /\ Listed(ds, a))
      PROVE  StandsOnce(ts, a)
  <2>1. SUFFICES ASSUME NEW i \in DOMAIN ts, NEW j \in DOMAIN ts,
                        NEW k \in DOMAIN ts[i].members, NEW l \in DOMAIN ts[j].members,
                        ts[i].members[k] = a, ts[j].members[l] = a
                 PROVE  i = j /\ k = l
    BY DEF StandsOnce
  <2>2. a \in ToSet(ts[i].members) /\ a \in ToSet(ts[j].members)
    BY <2>1 DEF ToSet
  <2>3. CASE i \in DOMAIN js /\ ts[i] = js[i]
    <3>1. Listed(js, a)
      BY <2>2, <2>3 DEF Listed
    <3>2. ~(j > m /\ j - m \in DOMAIN ds /\ ts[j] = ds[j - m])
      BY <1>9, <2>2, <3>1 DEF Listed
    <3>3. j \in DOMAIN js /\ ts[j] = js[j]
      BY <1>4, <3>2
    <3>4. k \in DOMAIN js[i].members /\ l \in DOMAIN js[j].members
           /\ js[i].members[k] = a /\ js[j].members[l] = a
      BY <2>1, <2>3, <3>3
    <3>5. QED
      BY <1>9, <2>3, <3>3, <3>4 DEF StandsOnce
  <2>4. CASE i > m /\ i - m \in DOMAIN ds /\ ts[i] = ds[i - m]
    <3>1. Listed(ds, a)
      BY <2>2, <2>4 DEF Listed
    <3>2. ~(j \in DOMAIN js /\ ts[j] = js[j])
      BY <1>9, <2>2, <3>1 DEF Listed
    <3>3. j > m /\ j - m \in DOMAIN ds /\ ts[j] = ds[j - m]
      BY <1>4, <3>2
    <3> DEFINE x == i - m
               y == j - m
    <3>4. k \in DOMAIN ds[x].members /\ l \in DOMAIN ds[y].members
           /\ ds[x].members[k] = a /\ ds[y].members[l] = a /\ x \in DOMAIN ds /\ y \in DOMAIN ds
      BY <2>1, <2>4, <3>3
    <3> HIDE DEF x, y
    <3>5. x = y /\ k = l
      BY <1>9, <3>4 DEF StandsOnce
    <3>6. QED
      BY <1>2, <1>3, <3>5 DEF x, y
  <2>5. QED
    BY <1>4, <2>3, <2>4
<1>10. QED
  BY <1>7, <1>8, <1>9 DEF ts

\* Some join a team each, who were in none.
LEMMA JoinedWell ==
    ASSUME NEW n \in Nat, NEW ks, TeamsUpTo(ks, n), NEW order \in Seq(1 .. n),
           \A x, y \in DOMAIN order : order[x] = order[y] => x = y,
           \A x \in DOMAIN order : ~Listed(ks, order[x])
    PROVE  /\ TeamsUpTo(JoinedTeams(ks, order), n)
           /\ TeamIdsOf(JoinedTeams(ks, order)) = TeamIdsOf(ks)
           /\ \A a : Listed(ks, a) => Listed(JoinedTeams(ks, order), a)
           /\ \A a : Listed(JoinedTeams(ks, order), a) =>
                     Listed(ks, a) \/ \E x \in DOMAIN order : x <= Len(ks) /\ order[x] = a
           /\ \A a : StandsOnce(ks, a) => StandsOnce(JoinedTeams(ks, order), a)
<1> DEFINE js == JoinedTeams(ks, order)
<1>1. /\ ks \in Seq(TeamUpTo(n)) /\ \A i, j \in DOMAIN ks : ks[i].id = ks[j].id => i = j
      /\ Len(ks) \in Nat /\ DOMAIN ks = 1 .. Len(ks)
      /\ Len(order) \in Nat /\ DOMAIN order = 1 .. Len(order)
  BY DEF TeamsUpTo
<1>2. /\ DOMAIN js = DOMAIN ks /\ js = [i \in DOMAIN ks |-> js[i]]
      /\ \A i \in DOMAIN ks : js[i] =
            IF i <= Len(order) THEN [ks[i] EXCEPT !.members = Append(@, order[i])] ELSE ks[i]
  BY DEF JoinedTeams
<1> HIDE DEF js
<1>3. ASSUME NEW i \in DOMAIN ks
      PROVE  /\ js[i] \in TeamUpTo(n) /\ js[i].id = ks[i].id
             /\ \A k \in DOMAIN ks[i].members :
                   k \in DOMAIN js[i].members /\ js[i].members[k] = ks[i].members[k]
             /\ \A k \in DOMAIN js[i].members :
                   \/ k \in DOMAIN ks[i].members
                   \/ /\ k = Len(ks[i].members) + 1
                      /\ i \in DOMAIN order /\ js[i].members[k] = order[i]
  <2>1. ks[i] \in TeamUpTo(n) /\ ks[i].members \in Seq(1 .. n)
    BY <1>1, TeamIs
  <2>2. CASE i <= Len(order)
    <3>1. i \in DOMAIN order /\ order[i] \in 1 .. n
      BY <1>1, <2>2
    <3>2. js[i] = [ks[i] EXCEPT !.members = Append(ks[i].members, order[i])]
      BY <1>2, <2>2
    <3>3. Append(ks[i].members, order[i]) \in Seq(1 .. n)
      BY <2>1, <3>1
    <3>4. /\ js[i] \in TeamUpTo(n) /\ js[i].id = ks[i].id
          /\ js[i].members = Append(ks[i].members, order[i])
      BY <2>1, <3>2, <3>3 DEF TeamUpTo
    <3> DEFINE ms == ks[i].members
    <3>5. /\ \A k \in DOMAIN ms : k \in DOMAIN Append(ms, order[i]) /\ Append(ms, order[i])[k] = ms[k]
          /\ \A k \in DOMAIN Append(ms, order[i]) :
                k \in DOMAIN ms \/ (k = Len(ms) + 1 /\ Append(ms, order[i])[k] = order[i])
      <4>1. ms \in Seq(1 .. n)
        BY <2>1
      <4> HIDE DEF ms
      <4>2. /\ Len(Append(ms, order[i])) = Len(ms) + 1 /\ Append(ms, order[i])[Len(ms) + 1] = order[i]
            /\ Append(ms, order[i]) \in Seq(1 .. n)
            /\ \A k \in 1 .. Len(ms) : Append(ms, order[i])[k] = ms[k]
        BY <3>1, <4>1, AppendProperties
      <4>3. DOMAIN Append(ms, order[i]) = 1 .. Len(ms) + 1 /\ DOMAIN ms = 1 .. Len(ms) /\ Len(ms) \in Nat
        BY <4>1, <4>2
      <4> DEFINE app == Append(ms, order[i])
      <4>4. PICK q \in Nat : q = Len(ms)
        BY <4>3
      <4>5. DOMAIN app = 1 .. q + 1 /\ DOMAIN ms = 1 .. q /\ app[q + 1] = order[i]
            /\ \A k \in 1 .. q : app[k] = ms[k]
        BY <4>2, <4>3, <4>4
      <4> HIDE DEF app
      <4>6. \A k \in DOMAIN app : k \in DOMAIN ms \/ (k = q + 1 /\ app[k] = order[i])
        BY <4>4, <4>5
      <4>7. \A k \in DOMAIN ms : k \in DOMAIN app /\ app[k] = ms[k]
        BY <4>4, <4>5
      <4>8. QED
        BY <4>4, <4>6, <4>7 DEF app
    <3>6. QED
      BY <3>1, <3>4, <3>5
  <2>3. CASE ~(i <= Len(order))
    BY <1>2, <2>1, <2>3
  <2>4. QED
    BY <2>2, <2>3
<1>4. js \in Seq(TeamUpTo(n))
  <2>1. js \in [1 .. Len(ks) -> TeamUpTo(n)]
    BY <1>1, <1>2, <1>3
  <2>2. QED
    BY <1>1, <2>1
<1>5. TeamsUpTo(js, n)
  BY <1>1, <1>2, <1>3, <1>4 DEF TeamsUpTo
<1>6. TeamIdsOf(js) = TeamIdsOf(ks)
  BY <1>2, <1>3 DEF TeamIdsOf
<1>7. ASSUME NEW a, Listed(ks, a)
      PROVE  Listed(js, a)
  <2>1. PICK i \in DOMAIN ks : \E k \in DOMAIN ks[i].members : ks[i].members[k] = a
    BY <1>7 DEF Listed, ToSet
  <2>2. \E k \in DOMAIN js[i].members : js[i].members[k] = a
    BY <1>3, <2>1
  <2>3. QED
    BY <1>2, <2>2 DEF Listed, ToSet
<1>8. ASSUME NEW a, Listed(js, a)
      PROVE  Listed(ks, a) \/ \E x \in DOMAIN order : x <= Len(ks) /\ order[x] = a
  <2>1. PICK i \in DOMAIN ks : \E k \in DOMAIN js[i].members : js[i].members[k] = a
    BY <1>2, <1>8 DEF Listed, ToSet
  <2>2. PICK k \in DOMAIN js[i].members : js[i].members[k] = a
    BY <2>1
  <2>3. CASE k \in DOMAIN ks[i].members
    <3>1. ks[i].members[k] = a
      BY <1>3, <2>2, <2>3
    <3>2. QED
      BY <2>3, <3>1 DEF Listed, ToSet
  <2>4. CASE i \in DOMAIN order /\ js[i].members[k] = order[i]
    BY <1>1, <2>2, <2>4
  <2>5. QED
    BY <1>3, <2>3, <2>4
<1>9. ASSUME NEW a, StandsOnce(ks, a)
      PROVE  StandsOnce(js, a)
  <2>1. SUFFICES ASSUME NEW i \in DOMAIN ks, NEW j \in DOMAIN ks,
                        NEW k \in DOMAIN js[i].members, NEW l \in DOMAIN js[j].members,
                        js[i].members[k] = a, js[j].members[l] = a
                 PROVE  i = j /\ k = l
    BY <1>2 DEF StandsOnce
  <2>2. ASSUME NEW x \in DOMAIN ks, NEW y \in DOMAIN ks[x].members, ks[x].members[y] = a
        PROVE  Listed(ks, a)
    BY <2>2 DEF Listed, ToSet
  <2>3. CASE k \in DOMAIN ks[i].members
    <3>1. ks[i].members[k] = a
      BY <1>3, <2>1, <2>3
    <3>2. Listed(ks, a)
      BY <2>2, <2>3, <3>1
    <3>3. ~(j \in DOMAIN order /\ js[j].members[l] = order[j])
      BY <2>1, <3>2
    <3>4. l \in DOMAIN ks[j].members
      BY <1>3, <3>3
    <3>5. ks[j].members[l] = a
      BY <1>3, <2>1, <3>4
    <3>6. QED
      BY <1>9, <2>3, <3>1, <3>4, <3>5 DEF StandsOnce
  <2>4. CASE k = Len(ks[i].members) + 1 /\ i \in DOMAIN order /\ js[i].members[k] = order[i]
    <3>1. ~Listed(ks, a)
      BY <2>1, <2>4
    <3>2. l \notin DOMAIN ks[j].members
      BY <1>3, <2>1, <2>2, <3>1
    <3>3. l = Len(ks[j].members) + 1 /\ j \in DOMAIN order /\ js[j].members[l] = order[j]
      BY <1>3, <3>2
    <3>4. i = j
      BY <2>1, <2>4, <3>3
    <3>5. QED
      BY <2>4, <3>3, <3>4
  <2>5. QED
    BY <1>3, <2>3, <2>4
<1>10. QED
  BY <1>5, <1>6, <1>7, <1>8, <1>9 DEF js

-----------------------------------------------------------------------------
\* The teams that stay, without whom they exile.
LEMMA KeptWell ==
    ASSUME NEW n \in Nat, NEW rs, NEW ts, TeamsUpTo(ts, n),
           NEW w, w = [roster |-> rs, teams |-> ts]
    PROVE  /\ TeamsUpTo(KeptTeams(w), n)
           /\ \A a : StandsOnce(ts, a) => StandsOnce(KeptTeams(w), a)
           /\ \A a \in DOMAIN rs : Listed(KeptTeams(w), a) <=> a \in Payers(w)
           /\ \A a \in DOMAIN rs : Listed(ts, a) <=> a \in Payers(w) \cup Expelled(w)
           /\ Expelled(w) \subseteq DOMAIN rs /\ Expelled(w) \cap Payers(w) = {}
<1> DEFINE P == {i \in DOMAIN ts : Strong(w, ts[i])}
           c == Cardinality(P)
           ss == Survivors(w)
           ks == KeptTeams(w)
<1>1. w.roster = rs /\ w.teams = ts
  OBVIOUS
<1>2. ts \in Seq(TeamUpTo(n)) /\ \A i, j \in DOMAIN ts : ts[i].id = ts[j].id => i = j
  BY DEF TeamsUpTo
<1>3. ss = AtPlaces(ts, P)
  BY <1>1, Zenon DEF Survivors
<1>4. P \subseteq DOMAIN ts
  OBVIOUS
<1> HIDE DEF P, ss
<1>5. c \in Nat
  BY <1>2, <1>4, AtPlacesAre
<1>6. PICK g \in [1 .. c -> P] : Visits(g, ts, P)
  BY <1>2, <1>4, AtPlacesAre
<1>7. /\ \A x, y \in 1 .. c : g[x] = g[y] => x = y
      /\ \A i \in P : \E x \in 1 .. c : g[x] = i
      /\ AtPlaces(ts, P) = [x \in 1 .. c |-> ts[g[x]]]
  BY <1>6 DEF Visits, c
<1> HIDE DEF c
<1>8. DOMAIN ss = 1 .. c /\ \A i \in 1 .. c : ss[i] = ts[g[i]] /\ g[i] \in DOMAIN ts
  BY <1>3, <1>4, <1>7
<1>9. ASSUME NEW t, t.members \in Seq(1 .. n)
      PROVE  ToSet(Present(w, t)) = ToSet(t.members) \cap DOMAIN rs
  BY <1>1, <1>9, ToSetAtPlaces DEF Present
<1>10. DOMAIN ks = 1 .. c /\ ks = [i \in 1 .. c |-> ks[i]] /\ \A i \in 1 .. c : ks[i] = Kept(w, ts[g[i]])
  BY <1>8 DEF KeptTeams, ss
<1> HIDE DEF ks
<1>11. ASSUME NEW i \in 1 .. c
       PROVE  /\ ks[i] \in TeamUpTo(n) /\ ks[i].id = ts[g[i]].id
              /\ ToSet(ks[i].members) = ToSet(ts[g[i]].members) \ Excess(w, ts[g[i]])
              /\ LessOf(ks[i].members, ts[g[i]].members)
  <2> DEFINE t == ts[g[i]]
             U == ToSet(t.members) \ Excess(w, t)
             ms == AtPlaces(t.members, PlacesOf(t.members, U))
  <2>1. t \in TeamUpTo(n) /\ t.members \in Seq(1 .. n)
    BY <1>2, <1>8, TeamIs
  <2>2. ks[i] = [t EXCEPT !.members = ms]
    BY <1>10, Zenon DEF Kept
  <2> HIDE DEF U, t
  <2>3. ms \in Seq(1 .. n) /\ ToSet(ms) = ToSet(t.members) \cap U
    BY <2>1, ToSetAtPlaces
  <2>4. LessOf(ms, t.members)
    BY <2>1, AtPlacesLess
  <2> HIDE DEF ms
  <2>5. ks[i] \in TeamUpTo(n) /\ ks[i].id = t.id /\ ks[i].members = ms
    BY <2>1, <2>2, <2>3 DEF TeamUpTo
  <2>6. ToSet(t.members) \cap U = ToSet(t.members) \ Excess(w, t)
    BY DEF U
  <2>7. QED
    BY <2>3, <2>4, <2>5, <2>6 DEF t
<1>12. TeamsUpTo(ks, n)
  <2>1. ks \in [1 .. c -> TeamUpTo(n)]
    BY <1>10, <1>11
  <2>2. ks \in Seq(TeamUpTo(n))
    BY <1>5, <2>1
  <2>3. \A i, j \in DOMAIN ks : ks[i].id = ks[j].id => i = j
    <3>1. SUFFICES ASSUME NEW i \in 1 .. c, NEW j \in 1 .. c, ks[i].id = ks[j].id
                   PROVE  i = j
      BY <1>10
    <3>2. ts[g[i]].id = ts[g[j]].id
      BY <1>11, <3>1
    <3>3. g[i] = g[j]
      BY <1>2, <1>8, <3>2
    <3>4. QED
      BY <1>7, <3>3
  <2>4. QED
    BY <2>2, <2>3 DEF TeamsUpTo
<1>13. ASSUME NEW a, StandsOnce(ts, a)
       PROVE  StandsOnce(ks, a)
  <2>1. g \in [DOMAIN ks -> DOMAIN ts]
    BY <1>4, <1>7, <1>10
  <2>2. \A i, j \in DOMAIN ks : g[i] = g[j] => i = j
    BY <1>7, <1>10
  <2>3. \A i \in DOMAIN ks : LessOf(ks[i].members, ts[g[i]].members)
    BY <1>10, <1>11
  <2>4. QED
    BY <1>13, <2>1, <2>2, <2>3, FewerStand
<1>14. \A i \in DOMAIN ts : ts[i].members \in Seq(1 .. n)
  BY <1>2, TeamIs
<1>15. ASSUME NEW a \in DOMAIN rs
       PROVE  Listed(ks, a) <=> a \in Payers(w)
  <2>1. Payers(w) = UNION {ToSet(Present(w, ss[i])) \ Excess(w, ss[i]) : i \in DOMAIN ss}
    BY Zenon DEF Payers, ss
  <2>2. a \in Payers(w) <=> \E i \in 1 .. c : a \in ToSet(Present(w, ss[i])) \ Excess(w, ss[i])
    BY <1>8, <2>1
  <2>3. \A i \in 1 .. c : ToSet(Present(w, ss[i])) = ToSet(ts[g[i]].members) \cap DOMAIN rs
    BY <1>8, <1>9, <1>14
  <2>4. \A i \in 1 .. c : a \in ToSet(ks[i].members) <=> a \in ToSet(Present(w, ss[i])) \ Excess(w, ss[i])
    BY <1>8, <1>11, <2>3
  <2>5. QED
    BY <1>10, <2>2, <2>4 DEF Listed
<1>16. \A a : a \in Expelled(w) <=>
          a \notin Payers(w) /\ \E i \in DOMAIN ts : a \in ToSet(Present(w, ts[i]))
  BY <1>1 DEF Expelled
<1>17. \A i \in DOMAIN ts : ToSet(Present(w, ts[i])) = ToSet(ts[i].members) \cap DOMAIN rs
  BY <1>9, <1>14
<1>18. \A a : a \in Expelled(w) <=> a \notin Payers(w) /\ a \in DOMAIN rs /\ Listed(ts, a)
  BY <1>16, <1>17 DEF Listed
<1>19. ASSUME NEW a \in DOMAIN rs, a \in Payers(w)
       PROVE  Listed(ts, a)
  <2>1. PICK i \in 1 .. c : a \in ToSet(ks[i].members)
    BY <1>10, <1>15, <1>19 DEF Listed
  <2>2. g[i] \in DOMAIN ts /\ a \in ToSet(ts[g[i]].members)
    BY <1>8, <1>11, <2>1
  <2>3. QED
    BY <2>2 DEF Listed
<1>20. /\ \A a \in DOMAIN rs : Listed(ts, a) <=> a \in Payers(w) \cup Expelled(w)
       /\ Expelled(w) \subseteq DOMAIN rs /\ Expelled(w) \cap Payers(w) = {}
  BY <1>18, <1>19
<1>21. QED
  BY <1>12, <1>13, <1>15, <1>20 DEF ks

LEMMA PaidIs ==
    ASSUME NEW n \in Nat, NEW rs, RosterUpTo(rs, n), NEW w, w.roster = rs
    PROVE  /\ RosterUpTo(Paid(w), n) /\ DOMAIN Paid(w) = DOMAIN rs
           /\ \A a \in DOMAIN rs \ Payers(w) :
                 Paid(w)[a].team = IF a \in Expelled(w) THEN NoTeam ELSE rs[a].team
<1>1. rs \in [DOMAIN rs -> Agent] /\ DOMAIN rs \subseteq 1 .. n
  BY DEF RosterUpTo
<1>2. /\ DOMAIN Paid(w) = DOMAIN rs /\ Paid(w) = [a \in DOMAIN rs |-> Paid(w)[a]]
      /\ \A a \in DOMAIN rs : Paid(w)[a] =
            IF a \in Payers(w) THEN [rs[a] EXCEPT !.balance = Charged(rs[a].balance)]
            ELSE IF a \in Expelled(w) THEN [rs[a] EXCEPT !.team = NoTeam] ELSE rs[a]
  BY DEF Paid
<1>3. ASSUME NEW a \in DOMAIN rs
      PROVE  /\ [rs[a] EXCEPT !.balance = Charged(rs[a].balance)] \in Agent
             /\ [rs[a] EXCEPT !.team = NoTeam] \in Agent
             /\ [rs[a] EXCEPT !.team = NoTeam].team = NoTeam
  <2>1. rs[a] \in Agent
    BY <1>1
  <2>2. rs[a].balance \in Int /\ CostStay \in Int
    BY <2>1, SocietyConstants DEF Agent
  <2>3. Charged(rs[a].balance) \in Int
    BY <2>2 DEF Charged
  <2>4. QED
    BY <2>1, <2>3 DEF Agent
<1>4. \A a \in DOMAIN rs : Paid(w)[a] \in Agent
  BY <1>1, <1>2, <1>3
<1>5. RosterUpTo(Paid(w), n)
  BY <1>1, <1>2, <1>4 DEF RosterUpTo
<1>6. QED
  BY <1>2, <1>3, <1>5

\* After a reorganization the agents and the lists agree.
LEMMA ReorganizedWell ==
    ASSUME NEW n, NEW rs, NEW ts, Arranged(rs, n, ts), AllPoint(rs, ts),
           NEW w, w = [roster |-> rs, teams |-> ts],
           NEW order \in SetToSeqs(Refugees(w)), HasIds(KeptTeams(w), order)
    PROVE  /\ Arranged(Reorganized(w, order).roster, n, Reorganized(w, order).teams)
           /\ AllPoint(Reorganized(w, order).roster, Reorganized(w, order).teams)
<1> DEFINE ks == KeptTeams(w)
           js == JoinedTeams(ks, order)
           rest == Unplaced(ks, order)
           count == Founding(rest)
           ds == Dealt(ks, count, rest)
<1>1. /\ n \in Nat /\ RosterUpTo(rs, n) /\ TeamsUpTo(ts, n) /\ DOMAIN rs \subseteq 1 .. n
      /\ \A a \in DOMAIN rs : StandsOnce(ts, a) /\ Points(rs[a].team, ts, a)
  BY DEF Arranged, AllPoint, RosterUpTo
<1>2. /\ TeamsUpTo(ks, n)
      /\ \A a \in DOMAIN rs : StandsOnce(ks, a)
      /\ \A a \in DOMAIN rs : Listed(ks, a) <=> a \in Payers(w)
      /\ \A a \in DOMAIN rs : Listed(ts, a) <=> a \in Payers(w) \cup Expelled(w)
      /\ Expelled(w) \subseteq DOMAIN rs /\ Expelled(w) \cap Payers(w) = {}
  BY <1>1, KeptWell
<1>3. Refugees(w) \subseteq Expelled(w) /\ Refugees(w) \subseteq 1 .. n
  BY <1>1, <1>2 DEF Refugees
<1>4. /\ order \in Seq(1 .. n) /\ ToSet(order) \subseteq Refugees(w)
      /\ \A x, y \in DOMAIN order : order[x] = order[y] => x = y
  BY <1>1, <1>3, OrderIs
<1>5. \A x \in DOMAIN order : order[x] \in DOMAIN rs /\ order[x] \in Expelled(w)
  BY <1>2, <1>3, <1>4 DEF ToSet
<1> HIDE DEF ks
<1>6. \A x \in DOMAIN order : ~Listed(ks, order[x])
  BY <1>2, <1>5
<1>7. /\ TeamsUpTo(js, n) /\ TeamIdsOf(js) = TeamIdsOf(ks)
      /\ \A a : Listed(ks, a) => Listed(js, a)
      /\ \A a : Listed(js, a) => Listed(ks, a) \/ \E x \in DOMAIN order : x <= Len(ks) /\ order[x] = a
      /\ \A a : StandsOnce(ks, a) => StandsOnce(js, a)
  BY <1>1, <1>2, <1>4, <1>6, JoinedWell
<1>8. Len(ks) \in Nat /\ Len(order) \in Nat /\ DOMAIN order = 1 .. Len(order)
  BY <1>2, <1>4 DEF TeamsUpTo
<1>9. /\ rest \in Seq(1 .. n)
      /\ \A x \in DOMAIN rest : x + Len(ks) \in DOMAIN order /\ rest[x] = order[x + Len(ks)]
  <2>1. rest = SubSeq(order, Len(ks) + 1, Len(order))
    BY DEF Unplaced
  <2>2. Len(ks) + 1 <= Len(order) + 1 \/ Len(ks) + 1 > Len(order)
    BY <1>8
  <2>3. CASE Len(ks) + 1 <= Len(order) + 1
    <3>1. SubSeq(order, Len(ks) + 1, Len(order)) = [i \in 1 .. Len(order) - Len(ks) |-> order[Len(ks) + i]]
      BY <1>4, <1>8, <2>3
    <3>2. \A i \in 1 .. Len(order) - Len(ks) : Len(ks) + i \in DOMAIN order /\ Len(ks) + i = i + Len(ks)
      BY <1>8, <2>3
    <3>3. \A i \in DOMAIN order : order[i] \in 1 .. n
      BY <1>4, <1>8, ElementOfSeq
    <3>4. rest \in [1 .. Len(order) - Len(ks) -> 1 .. n]
      BY <2>1, <3>1, <3>2, <3>3
    <3>5. Len(order) - Len(ks) \in Nat
      BY <1>8, <2>3
    <3>6. rest \in Seq(1 .. n) /\ DOMAIN rest = 1 .. Len(order) - Len(ks)
      <4>1. PICK d \in Nat : d = Len(order) - Len(ks)
        BY <3>5
      <4>2. rest \in [1 .. d -> 1 .. n]
        BY <3>4, <4>1
      <4> HIDE DEF rest
      <4>3. rest \in Seq(1 .. n) /\ DOMAIN rest = 1 .. d
        BY <4>1, <4>2, SequenceOf
      <4>4. QED
        BY <4>1, <4>3
    <3> HIDE DEF rest
    <3>7. QED
      BY <2>1, <3>1, <3>2, <3>6
  <2>4. CASE Len(ks) > Len(order)
    <3>1. SubSeq(order, Len(ks) + 1, Len(order)) = <<>>
      BY <1>4, <1>8, <2>4
    <3>2. <<>> \in Seq(1 .. n) /\ DOMAIN <<>> = {}
      OBVIOUS
    <3>3. rest = <<>>
      BY <2>1, <3>1
    <3> HIDE DEF rest
    <3>4. QED
      BY <3>2, <3>3
  <2>5. QED
    BY <1>8, <2>3, <2>4
<1> HIDE DEF rest, js
<1>10. \A x, y \in DOMAIN rest : rest[x] = rest[y] => x = y
  <2>1. SUFFICES ASSUME NEW x \in DOMAIN rest, NEW y \in DOMAIN rest, rest[x] = rest[y]
                 PROVE  x = y
    OBVIOUS
  <2>2. x + Len(ks) = y + Len(ks)
    BY <1>4, <1>9, <2>1
  <2>3. x \in Int /\ y \in Int
    BY <1>9
  <2>4. QED
    BY <1>8, <2>2, <2>3
<1>11. count \in Nat /\ count <= Len(rest)
  <2>1. Len(rest) \in Nat
    BY <1>9
  <2>2. QED
    BY <2>1 DEF Founding
<1>12. FreshIds(ks, count) # {}
  BY Zenon DEF HasIds, ks, rest
<1> HIDE DEF count
<1>13. /\ TeamsUpTo(ds, n)
       /\ \A i \in DOMAIN ds : ds[i].id \notin TeamIdsOf(ks) /\ ToSet(ds[i].members) \subseteq ToSet(rest)
       /\ \A a : StandsOnce(ds, a)
  BY <1>1, <1>9, <1>10, <1>11, <1>12, DealtWell
<1> HIDE DEF ds
<1>14. ASSUME NEW a, Listed(ds, a), Listed(js, a)
       PROVE  FALSE
  <2>1. a \in ToSet(rest)
    BY <1>13, <1>14 DEF Listed
  <2>2. PICK x \in DOMAIN rest : rest[x] = a
    BY <2>1 DEF ToSet
  <2>3. x + Len(ks) \in DOMAIN order /\ order[x + Len(ks)] = a /\ x \in Nat /\ x > 0
    BY <1>9, <2>2
  <2>4. ~Listed(ks, a)
    BY <1>6, <2>3
  <2>5. PICK y \in DOMAIN order : y <= Len(ks) /\ order[y] = a
    BY <1>7, <1>14, <2>4
  <2>6. y = x + Len(ks)
    BY <1>4, <2>3, <2>5
  <2>7. QED
    BY <1>8, <2>3, <2>5, <2>6
<1> DEFINE us == js \o ds
<1>15. /\ TeamsUpTo(us, n) /\ \A a : Listed(js, a) => Listed(us, a)
       /\ \A a : StandsOnce(js, a) /\ StandsOnce(ds, a) /\ ~(Listed(js, a) /\ Listed(ds, a)) => StandsOnce(us, a)
  BY <1>1, <1>7, <1>13, TeamsConcat
<1> HIDE DEF us
<1>16. /\ RosterUpTo(Paid(w), n) /\ DOMAIN Paid(w) = DOMAIN rs
       /\ \A a \in DOMAIN rs \ Payers(w) :
             Paid(w)[a].team = IF a \in Expelled(w) THEN NoTeam ELSE rs[a].team
  BY <1>1, PaidIs
<1>17. ASSUME NEW a \in DOMAIN Paid(w)
       PROVE  StandsOnce(us, a) /\ (~Listed(us, a) => Paid(w)[a].team = NoTeam)
  <2>1. a \in DOMAIN rs
    BY <1>16
  <2>2. StandsOnce(us, a)
    BY <1>2, <1>7, <1>13, <1>14, <1>15, <2>1
  <2>3. ASSUME ~Listed(us, a)
        PROVE  Paid(w)[a].team = NoTeam
    <3>1. a \notin Payers(w)
      BY <1>2, <1>7, <1>15, <2>1, <2>3
    <3>2. CASE a \in Expelled(w)
      BY <1>16, <2>1, <3>1, <3>2
    <3>3. CASE a \notin Expelled(w)
      <4>1. ~Listed(ts, a)
        BY <1>2, <2>1, <3>1, <3>3
      <4>2. rs[a].team = NoTeam
        BY <1>1, <2>1, <4>1 DEF Points, Listed, TeamIdsOf
      <4>3. QED
        BY <1>16, <2>1, <3>1, <3>3, <4>2
    <3>4. QED
      BY <3>2, <3>3
  <2>4. QED
    BY <2>2, <2>3
<1>18. Arranged(Enrolled(Paid(w), us), n, us) /\ AllPoint(Enrolled(Paid(w), us), us)
  BY <1>1, <1>15, <1>16, <1>17, EnrolledWell
<1>19. Reorganized(w, order) = [roster |-> Enrolled(Paid(w), us), teams |-> us]
  BY Zenon DEF Reorganized, us, js, ds, count, rest, ks
<1>20. QED
  BY <1>18, <1>19

-----------------------------------------------------------------------------
\* Some of the teams.
LEMMA TeamsAtPlaces ==
    ASSUME NEW n \in Nat, NEW us, TeamsUpTo(us, n), NEW Q, Q \subseteq DOMAIN us
    PROVE  /\ TeamsUpTo(AtPlaces(us, Q), n)
           /\ \A a : StandsOnce(us, a) => StandsOnce(AtPlaces(us, Q), a)
<1> DEFINE c == Cardinality(Q)
           ts == AtPlaces(us, Q)
<1>1. us \in Seq(TeamUpTo(n)) /\ \A i, j \in DOMAIN us : us[i].id = us[j].id => i = j
  BY DEF TeamsUpTo
<1>2. ts \in Seq(TeamUpTo(n))
  BY <1>1, AtPlacesAre
<1> HIDE DEF c
<1>3. PICK g \in [1 .. Cardinality(Q) -> Q] : Visits(g, us, Q)
  BY <1>1, AtPlacesAre
<1>4. /\ \A x, y \in 1 .. Cardinality(Q) : g[x] = g[y] => x = y
      /\ \A i \in Q : \E x \in 1 .. Cardinality(Q) : g[x] = i
      /\ AtPlaces(us, Q) = [x \in 1 .. Cardinality(Q) |-> us[g[x]]]
  BY <1>3 DEF Visits
<1> HIDE DEF ts
<1>5. DOMAIN ts = 1 .. c /\ \A i \in 1 .. c : ts[i] = us[g[i]] /\ g[i] \in DOMAIN us
  BY <1>4 DEF c, ts
<1>6. \A x, y \in 1 .. c : g[x] = g[y] => x = y
  BY <1>4 DEF c
<1>7. TeamsUpTo(ts, n)
  BY <1>1, <1>2, <1>5, <1>6 DEF TeamsUpTo
<1>8. ASSUME NEW a, StandsOnce(us, a)
      PROVE  StandsOnce(ts, a)
  <2>1. SUFFICES ASSUME NEW i \in 1 .. c, NEW j \in 1 .. c,
                        NEW k \in DOMAIN ts[i].members, NEW l \in DOMAIN ts[j].members,
                        ts[i].members[k] = a, ts[j].members[l] = a
                 PROVE  i = j /\ k = l
    BY <1>5 DEF StandsOnce
  <2>2. ts[i] = us[g[i]] /\ ts[j] = us[g[j]] /\ g[i] \in DOMAIN us /\ g[j] \in DOMAIN us
    BY <1>5
  <2>3. g[i] = g[j] /\ k = l
    BY <1>8, <2>1, <2>2 DEF StandsOnce
  <2>4. QED
    BY <1>6, <2>3
<1>9. QED
  BY <1>7, <1>8 DEF ts

\* The teams with those in their lists who are there again.
LEMMA RestoredTeamsWell ==
    ASSUME NEW ids, Arranged(disk.roster, disk.lastId, disk.teams)
    PROVE  /\ TeamsUpTo(RestoredTeams(ids), disk.lastId)
           /\ \A a : StandsOnce(disk.teams, a) => StandsOnce(RestoredTeams(ids), a)
<1> DEFINE ds == disk.teams
           n == disk.lastId
           us == CutTeams(ids)
<1>1. /\ n \in Nat /\ TeamsUpTo(ds, n)
      /\ ds \in Seq(TeamUpTo(n)) /\ \A i, j \in DOMAIN ds : ds[i].id = ds[j].id => i = j
  BY DEF Arranged, TeamsUpTo
<1>2. /\ DOMAIN us = DOMAIN ds /\ us = [i \in DOMAIN ds |-> us[i]]
      /\ \A i \in DOMAIN ds : us[i] =
            [ds[i] EXCEPT !.members = AtPlaces(ds[i].members, PlacesOf(ds[i].members, ids))]
  BY DEF CutTeams
<1> HIDE DEF us, ds, n
<1>3. ASSUME NEW i \in DOMAIN ds
      PROVE  us[i] \in TeamUpTo(n) /\ us[i].id = ds[i].id /\ LessOf(us[i].members, ds[i].members)
  <2> DEFINE t == ds[i]
             ms == AtPlaces(t.members, PlacesOf(t.members, ids))
  <2>1. t \in TeamUpTo(n) /\ t.members \in Seq(1 .. n)
    BY <1>1, TeamIs
  <2>2. us[i] = [t EXCEPT !.members = ms]
    BY <1>2
  <2> HIDE DEF t
  <2>3. ms \in Seq(1 .. n) /\ LessOf(ms, t.members)
    BY <2>1, ToSetAtPlaces, AtPlacesLess
  <2> HIDE DEF ms
  <2>4. us[i] \in TeamUpTo(n) /\ us[i].id = t.id /\ us[i].members = ms
    BY <2>1, <2>2, <2>3 DEF TeamUpTo
  <2>5. QED
    BY <2>3, <2>4 DEF t
<1>4. us \in Seq(TeamUpTo(n))
  <2>1. DOMAIN us = 1 .. Len(ds) /\ Len(ds) \in Nat
    BY <1>1, <1>2
  <2>2. us \in [1 .. Len(ds) -> TeamUpTo(n)]
    BY <1>2, <1>3, <2>1
  <2>3. QED
    BY <2>1, <2>2, SequenceOf
<1>5. TeamsUpTo(us, n)
  BY <1>1, <1>2, <1>3, <1>4 DEF TeamsUpTo
<1>6. ASSUME NEW a, StandsOnce(ds, a)
      PROVE  StandsOnce(us, a)
  <2> DEFINE g == [i \in DOMAIN us |-> i]
  <2>1. g \in [DOMAIN us -> DOMAIN ds] /\ \A i \in DOMAIN us : g[i] = i
    BY <1>2
  <2> HIDE DEF g
  <2>2. \A i, j \in DOMAIN us : g[i] = g[j] => i = j
    BY <2>1
  <2>3. \A i \in DOMAIN us : LessOf(us[i].members, ds[g[i]].members)
    BY <1>2, <1>3, <2>1
  <2>4. QED
    BY <1>6, <2>1, <2>2, <2>3, FewerStand
<1> DEFINE Q == {i \in DOMAIN us : us[i].members # <<>>}
<1>7. RestoredTeams(ids) = AtPlaces(us, Q)
  BY Zenon DEF RestoredTeams, us
<1>8. Q \subseteq DOMAIN us
  OBVIOUS
<1> HIDE DEF Q
<1>9. TeamsUpTo(AtPlaces(us, Q), n) /\ \A a : StandsOnce(us, a) => StandsOnce(AtPlaces(us, Q), a)
  BY <1>1, <1>5, <1>8, TeamsAtPlaces
<1>10. QED
  BY <1>6, <1>7, <1>9 DEF ds, n

LEMMA RestoredIs ==
    ASSUME NEW ids, ids \subseteq DOMAIN disk.roster, RosterUpTo(disk.roster, disk.lastId)
    PROVE  /\ RosterUpTo([a \in ids |-> Restored(disk.roster[a])], disk.lastId)
           /\ \A a \in ids : Restored(disk.roster[a]).team = NoTeam
<1>1. ASSUME NEW a \in ids
      PROVE  Restored(disk.roster[a]) \in Agent /\ Restored(disk.roster[a]).team = NoTeam
  <2> DEFINE r == disk.roster[a]
  <2>1. r \in Agent
    BY DEF RosterUpTo
  <2> HIDE DEF r
  <2>2. Initial \in Int
    BY SocietyConstants
  <2>3. Restored(r) \in Agent /\ Restored(r).team = NoTeam
    BY <2>1, <2>2 DEF Restored, Agent
  <2>4. QED
    BY <2>3 DEF r
<1>2. QED
  BY <1>1 DEF RosterUpTo

-----------------------------------------------------------------------------
\* What changes of one agent is not its team.
LEMMA BalanceChanged ==
    ASSUME NEW rs, rs \in [DOMAIN rs -> Agent], NEW a \in DOMAIN rs, NEW b \in Int
    PROVE  SameHomes(rs, [rs EXCEPT ![a].balance = b])
<1> DEFINE qs == [rs EXCEPT ![a].balance = b]
           r == [rs[a] EXCEPT !.balance = b]
<1>1. rs[a] \in Agent
  OBVIOUS
<1>2. r \in Agent /\ r.team = rs[a].team
  BY <1>1 DEF Agent
<1>3. /\ DOMAIN qs = DOMAIN rs /\ qs = [x \in DOMAIN rs |-> qs[x]]
      /\ \A x \in DOMAIN rs : x # a => qs[x] = rs[x]
      /\ qs[a] = r
  OBVIOUS
<1> HIDE DEF qs, r
<1>4. \A x \in DOMAIN rs : qs[x] \in Agent /\ qs[x].team = rs[x].team
  BY <1>2, <1>3
<1>5. SameHomes(rs, qs)
  BY <1>3, <1>4 DEF SameHomes
<1>6. QED
  BY <1>5 DEF qs

LEMMA LoyaltyChanged ==
    ASSUME NEW rs, rs \in [DOMAIN rs -> Agent], NEW a \in DOMAIN rs, NEW l \in Int
    PROVE  SameHomes(rs, [rs EXCEPT ![a].loyalty = l])
<1> DEFINE qs == [rs EXCEPT ![a].loyalty = l]
           r == [rs[a] EXCEPT !.loyalty = l]
<1>1. rs[a] \in Agent
  OBVIOUS
<1>2. r \in Agent /\ r.team = rs[a].team
  BY <1>1 DEF Agent
<1>3. /\ DOMAIN qs = DOMAIN rs /\ qs = [x \in DOMAIN rs |-> qs[x]]
      /\ \A x \in DOMAIN rs : x # a => qs[x] = rs[x]
      /\ qs[a] = r
  OBVIOUS
<1> HIDE DEF qs, r
<1>4. \A x \in DOMAIN rs : qs[x] \in Agent /\ qs[x].team = rs[x].team
  BY <1>2, <1>3
<1>5. SameHomes(rs, qs)
  BY <1>3, <1>4 DEF SameHomes
<1>6. QED
  BY <1>5 DEF qs

LEMMA SoloChanged ==
    ASSUME NEW rs, rs \in [DOMAIN rs -> Agent], NEW a \in DOMAIN rs, NEW solo \in BOOLEAN
    PROVE  SameHomes(rs, [rs EXCEPT ![a].solo = solo])
<1> DEFINE qs == [rs EXCEPT ![a].solo = solo]
           r == [rs[a] EXCEPT !.solo = solo]
<1>1. rs[a] \in Agent
  OBVIOUS
<1>2. r \in Agent /\ r.team = rs[a].team
  BY <1>1 DEF Agent
<1>3. /\ DOMAIN qs = DOMAIN rs /\ qs = [x \in DOMAIN rs |-> qs[x]]
      /\ \A x \in DOMAIN rs : x # a => qs[x] = rs[x]
      /\ qs[a] = r
  OBVIOUS
<1> HIDE DEF qs, r
<1>4. \A x \in DOMAIN rs : qs[x] \in Agent /\ qs[x].team = rs[x].team
  BY <1>2, <1>3
<1>5. SameHomes(rs, qs)
  BY <1>3, <1>4 DEF SameHomes
<1>6. QED
  BY <1>5 DEF qs

LEMMA StoodChanged ==
    ASSUME NEW rs, rs \in [DOMAIN rs -> Agent], NEW a \in DOMAIN rs
    PROVE  SameHomes(rs, [rs EXCEPT ![a].stood = TRUE, ![a].balance = LastStand])
<1> DEFINE qs == [rs EXCEPT ![a].stood = TRUE, ![a].balance = LastStand]
           r == [[rs[a] EXCEPT !.stood = TRUE] EXCEPT !.balance = LastStand]
<1>1. rs[a] \in Agent /\ LastStand \in Int
  BY SocietyConstants
<1>2. r \in Agent /\ r.team = rs[a].team
  BY <1>1 DEF Agent
<1>3. /\ DOMAIN qs = DOMAIN rs /\ qs = [x \in DOMAIN rs |-> qs[x]]
      /\ \A x \in DOMAIN rs : x # a => qs[x] = rs[x]
      /\ qs[a] = r
  OBVIOUS
<1> HIDE DEF qs, r
<1>4. \A x \in DOMAIN rs : qs[x] \in Agent /\ qs[x].team = rs[x].team
  BY <1>2, <1>3
<1>5. SameHomes(rs, qs)
  BY <1>3, <1>4 DEF SameHomes
<1>6. QED
  BY <1>5 DEF qs

LEMMA HomesTwice ==
    ASSUME NEW rs, NEW ps, NEW qs, SameHomes(rs, ps), SameHomes(ps, qs)
    PROVE  SameHomes(rs, qs)
BY DEF SameHomes

LEMMA FeltIs ==
    ASSUME NEW l \in Int, NEW event \in {"success", "fail", "given", "received"}
    PROVE  Felt(l, event) \in Int
<1>1. LoyaltyDelta[event] \in Int /\ LoyaltyMax \in Int
  BY SocietyConstants
<1>2. QED
  BY <1>1 DEF Felt

\* What is in the pools of a team is nothing to its list.
LEMMA SharedKeeps ==
    ASSUME NEW n \in Nat, NEW ts \in Seq(TeamUpTo(n)), NEW a \in ArenaIds
    PROVE  /\ Shared(ts, a) \in Seq(TeamUpTo(n)) /\ DOMAIN Shared(ts, a) = DOMAIN ts
           /\ \A i \in DOMAIN ts : /\ Shared(ts, a)[i].id = ts[i].id
                                   /\ Shared(ts, a)[i].members = ts[i].members
<1> DEFINE us == Shared(ts, a)
           own(i) == a \in DOMAIN roster /\ roster[a].team = ts[i].id
<1>1. /\ DOMAIN us = DOMAIN ts /\ us = [i \in DOMAIN ts |-> us[i]]
      /\ \A i \in DOMAIN ts : us[i] =
            IF own(i) THEN [ts[i] EXCEPT !.lore = Pooled(ts[i].lore, a)] ELSE ts[i]
  BY DEF Shared
<1> HIDE DEF us, own
<1>2. ASSUME NEW known \in Seq(ArenaIds)
      PROVE  Pooled(known, a) \in Seq(ArenaIds)
  <2>1. Append(known, a) \in Seq(ArenaIds) /\ Append(known, a) # <<>>
    OBVIOUS
  <2>2. Tail(Append(known, a)) \in Seq(ArenaIds)
    BY <2>1
  <2>3. QED
    BY <2>1, <2>2 DEF Pooled
<1>3. ASSUME NEW i \in DOMAIN ts
      PROVE  us[i] \in TeamUpTo(n) /\ us[i].id = ts[i].id /\ us[i].members = ts[i].members
  <2>1. ts[i] \in TeamUpTo(n) /\ ts[i].lore \in Seq(ArenaIds)
    BY TeamIs
  <2>2. Pooled(ts[i].lore, a) \in Seq(ArenaIds)
    BY <1>2, <2>1
  <2>3. \A p \in Seq(ArenaIds) :
           LET t == [ts[i] EXCEPT !.lore = p]
           IN t \in TeamUpTo(n) /\ t.id = ts[i].id /\ t.members = ts[i].members
    BY <2>1 DEF TeamUpTo
  <2>4. QED
    BY <1>1, <2>1, <2>2, <2>3
<1>4. us \in Seq(TeamUpTo(n))
  <2>1. DOMAIN us = 1 .. Len(ts) /\ Len(ts) \in Nat
    BY <1>1
  <2>2. us \in [1 .. Len(ts) -> TeamUpTo(n)]
    BY <1>1, <1>3, <2>1
  <2>3. QED
    BY <2>1, <2>2, SequenceOf
<1>5. QED
  BY <1>1, <1>3, <1>4 DEF us

-----------------------------------------------------------------------------
LEMMA SavesKeeps ==
    ASSUME NEW image, SavesAs(image), SavedArranged,
           Arranged(image.roster, image.lastId, image.teams)
    PROVE  SavedArranged'
<1>1. disk' = image \/ disk' = disk
  BY DEF SavesAs
<1>2. CASE disk' = image
  BY <1>2 DEF SavedArranged
<1>3. CASE disk' = disk
  BY <1>3 DEF SavedArranged
<1>4. QED
  BY <1>1, <1>2, <1>3

LEMMA SavedKeeps ==
    ASSUME Saved, SavedArranged, LivingAgree'
    PROVE  SavedArranged'
<1> DEFINE image == [roster |-> roster', lastId |-> lastId', teams |-> teams', tally |-> tally']
<1>1. SavesAs(image)
  BY DEF Saved
<1>2. image.roster = roster' /\ image.lastId = lastId' /\ image.teams = teams'
  OBVIOUS
<1> HIDE DEF image
<1>3. Arranged(image.roster, image.lastId, image.teams)
  BY <1>2 DEF LivingAgree
<1>4. QED
  BY <1>1, <1>3, SavesKeeps

LEMMA SnapshotIs ==
    Snapshot.roster = roster /\ Snapshot.lastId = lastId /\ Snapshot.teams = teams
BY DEF Snapshot

LEMMA SnapshotOf ==
    ASSUME NEW rs
    PROVE  LET image == [Snapshot EXCEPT !.roster = rs]
           IN image.roster = rs /\ image.lastId = lastId /\ image.teams = teams
BY DEF Snapshot

LEMMA UnsavedKeeps == SavedArranged /\ UNCHANGED disk => SavedArranged'
BY DEF SavedArranged

LEMMA LivingKeeps == LivingAgree /\ UNCHANGED <<roster, lastId, teams>> => LivingAgree'
BY DEF LivingAgree

LEMMA RosterIs ==
    ASSUME LivingAgree
    PROVE  /\ roster \in [DOMAIN roster -> Agent] /\ lastId \in Nat /\ RosterUpTo(roster, lastId)
           /\ TeamsUpTo(teams, lastId) /\ DOMAIN roster \subseteq 1 .. lastId
           /\ teams \in Seq(TeamUpTo(lastId))
BY DEF LivingAgree, Arranged, RosterUpTo, TeamsUpTo

LEMMA HomesKeep ==
    ASSUME LivingAgree, SameHomes(roster, roster'), UNCHANGED <<lastId, teams>>
    PROVE  LivingAgree'
<1>1. Arranged(roster', lastId, teams) /\ AllPoint(roster', teams)
  BY HomesKept DEF LivingAgree
<1>2. QED
  BY <1>1 DEF LivingAgree

LEMMA SharedStays ==
    ASSUME LivingAgree, NEW a \in ArenaIds, teams' = Shared(teams, a), UNCHANGED <<roster, lastId>>
    PROVE  LivingAgree'
<1> DEFINE us == Shared(teams, a)
<1>1. lastId \in Nat /\ teams \in Seq(TeamUpTo(lastId))
  BY RosterIs
<1>2. /\ us \in Seq(TeamUpTo(lastId)) /\ DOMAIN us = DOMAIN teams
      /\ \A i \in DOMAIN teams : us[i].id = teams[i].id /\ us[i].members = teams[i].members
  BY <1>1, SharedKeeps
<1> HIDE DEF us
<1>3. Arranged(roster, lastId, us) /\ AllPoint(roster, us)
  BY <1>2, ListsKept DEF LivingAgree
<1>4. QED
  BY <1>3 DEF LivingAgree, us

\* Agents that come, go, or are changed from outside.
LEMMA NewAgentStays == LivingAgree /\ NewAgent => LivingAgree'
<1>1. SUFFICES ASSUME LivingAgree, NewAgent
               PROVE  LivingAgree'
  OBVIOUS
<1>2. /\ roster \in [DOMAIN roster -> Agent] /\ lastId \in Nat /\ DOMAIN roster \subseteq 1 .. lastId
      /\ teams \in Seq(TeamUpTo(lastId))
  BY <1>1, RosterIs
<1>3. /\ roster' = [a \in DOMAIN roster \cup {lastId + 1} |->
                      IF a \in DOMAIN roster THEN roster[a] ELSE Newcomer]
      /\ lastId' = lastId + 1 /\ teams' = teams
  BY <1>1 DEF NewAgent
<1>4. Newcomer \in Agent /\ Newcomer.team = NoTeam
  BY SocietyConstants DEF Newcomer, Agent
<1>5. RosterUpTo(roster', lastId + 1)
  <2>1. DOMAIN roster' = DOMAIN roster \cup {lastId + 1}
    BY <1>3
  <2>2. roster' \in [DOMAIN roster' -> Agent]
    BY <1>2, <1>3, <1>4
  <2>3. DOMAIN roster' \subseteq 1 .. lastId + 1
    BY <1>2, <2>1
  <2>4. QED
    BY <2>2, <2>3 DEF RosterUpTo
<1>6. TeamsUpTo(teams, lastId + 1)
  <2>1. \A i \in DOMAIN teams : teams[i] \in TeamUpTo(lastId + 1)
    <3>1. SUFFICES ASSUME NEW i \in DOMAIN teams
                   PROVE  teams[i] \in TeamUpTo(lastId + 1)
      OBVIOUS
    <3>2. teams[i] \in TeamUpTo(lastId) /\ teams[i].members \in Seq(1 .. lastId)
      BY <1>2, TeamIs
    <3>3. teams[i].members \in Seq(1 .. lastId + 1)
      BY <1>2, <3>2
    <3>4. QED
      BY <3>2, <3>3 DEF TeamUpTo
  <2>2. DOMAIN teams = 1 .. Len(teams) /\ Len(teams) \in Nat /\ teams = [i \in 1 .. Len(teams) |-> teams[i]]
    BY <1>2
  <2>3. teams \in [1 .. Len(teams) -> TeamUpTo(lastId + 1)]
    BY <2>1, <2>2
  <2>4. teams \in Seq(TeamUpTo(lastId + 1))
    BY <2>2, <2>3, SequenceOf
  <2>5. QED
    BY <1>1, <2>4 DEF LivingAgree, Arranged, TeamsUpTo
<1>7. ~Listed(teams, lastId + 1)
  <2>1. \A i \in DOMAIN teams : ToSet(teams[i].members) \subseteq 1 .. lastId
    BY <1>2, TeamIs
  <2>2. QED
    BY <1>2, <2>1 DEF Listed
<1>8. StandsOnce(teams, lastId + 1) /\ Points(NoTeam, teams, lastId + 1)
  <2>1. \A i \in DOMAIN teams : lastId + 1 \notin ToSet(teams[i].members)
    BY <1>7 DEF Listed
  <2>2. \A i \in DOMAIN teams : \A k \in DOMAIN teams[i].members : teams[i].members[k] # lastId + 1
    BY <2>1 DEF ToSet
  <2>3. \A i \in DOMAIN teams : teams[i].id # NoTeam
    BY <1>2, TeamIs, SocietyConstants
  <2>4. QED
    BY <2>1, <2>2, <2>3 DEF StandsOnce, Points
<1>9. ASSUME NEW a \in DOMAIN roster'
      PROVE  StandsOnce(teams, a) /\ Points(roster'[a].team, teams, a)
  <2>1. CASE a \in DOMAIN roster
    <3>1. roster'[a] = roster[a]
      BY <1>3, <2>1
    <3>2. QED
      BY <1>1, <2>1, <3>1 DEF LivingAgree, Arranged, AllPoint
  <2>2. CASE a \notin DOMAIN roster
    <3>1. a = lastId + 1 /\ roster'[a] = Newcomer
      BY <1>3, <2>2
    <3>2. QED
      BY <1>4, <1>8, <3>1
  <2>3. QED
    BY <2>1, <2>2
<1>10. lastId + 1 \in Nat
  BY <1>2
<1>11. QED
  BY <1>3, <1>5, <1>6, <1>9, <1>10 DEF LivingAgree, Arranged, AllPoint

LEMMA GoneStays ==
    ASSUME LivingAgree, NEW a, roster' = RosterWithout(a), UNCHANGED <<lastId, teams>>
    PROVE  LivingAgree'
<1> DEFINE S == DOMAIN roster \ {a}
<1>1. roster' = [b \in S |-> roster[b]]
  BY DEF RosterWithout
<1>2. S \subseteq DOMAIN roster
  OBVIOUS
<1> HIDE DEF S
<1>3. Arranged([b \in S |-> roster[b]], lastId, teams) /\ AllPoint([b \in S |-> roster[b]], teams)
  BY <1>2, FewerAgents DEF LivingAgree
<1>4. QED
  BY <1>1, <1>3 DEF LivingAgree

LEMMA RosterStays ==
    ASSUME SocietyInv, NEW a \in ArenaIds, RosterNext(a)
    PROVE  SocietyInv'
<1>1. LivingAgree /\ SavedArranged /\ roster \in [DOMAIN roster -> Agent]
  BY RosterIs DEF SocietyInv
<1>2. CASE DeleteAgent(a)
  <2>1. roster' = RosterWithout(a) /\ UNCHANGED <<lastId, teams>> /\ UNCHANGED disk
    BY <1>2 DEF DeleteAgent
  <2>2. QED
    BY <1>1, <2>1, GoneStays, UnsavedKeeps DEF SocietyInv
<1>3. ASSUME NEW solo \in BOOLEAN, SetPreference(a, solo)
      PROVE  SocietyInv'
  <2>1. a \in DOMAIN roster /\ roster' = [roster EXCEPT ![a].solo = solo]
        /\ UNCHANGED <<lastId, teams>> /\ Saved
    BY <1>3 DEF SetPreference
  <2>2. SameHomes(roster, roster')
    BY <1>1, <2>1, SoloChanged
  <2>3. LivingAgree'
    BY <1>1, <2>1, <2>2, HomesKeep
  <2>4. QED
    BY <1>1, <2>1, <2>3, SavedKeeps DEF SocietyInv
<1>4. ASSUME NEW r \in Gifts, EvolutionReward(a, r)
      PROVE  SocietyInv'
  <2>1. a \in DOMAIN roster /\ roster' = [roster EXCEPT ![a].balance = roster[a].balance + r]
        /\ UNCHANGED <<lastId, teams>> /\ Saved
    BY <1>4 DEF EvolutionReward
  <2>2. roster[a].balance + r \in Int
    <3>1. roster[a] \in Agent /\ r \in Int
      BY <1>1, <2>1, SocietyConstants
    <3>2. roster[a].balance \in Int
      BY <3>1 DEF Agent
    <3>3. QED
      BY <3>1, <3>2
  <2>3. SameHomes(roster, roster')
    BY <1>1, <2>1, <2>2, BalanceChanged
  <2>4. LivingAgree'
    BY <1>1, <2>1, <2>3, HomesKeep
  <2>5. QED
    BY <1>1, <2>1, <2>4, SavedKeeps DEF SocietyInv
<1>5. QED
  BY <1>2, <1>3, <1>4 DEF RosterNext

\* What becomes of agents and teams as one.
LEMMA BecomesWell ==
    ASSUME NEW w, Become(w), UNCHANGED lastId, Arranged(w.roster, lastId, w.teams),
           AllPoint(w.roster, w.teams)
    PROVE  LivingAgree'
<1>1. roster' = w.roster /\ teams' = w.teams /\ lastId' = lastId
  BY DEF Become
<1>2. QED
  BY <1>1 DEF LivingAgree

LEMMA ReorganizeStays ==
    ASSUME LivingAgree, Reorganize, UNCHANGED lastId
    PROVE  LivingAgree'
<1>1. PICK order \in SetToSeqs(Refugees(Society)) :
         HasIds(KeptTeams(Society), order) /\ Become(Reorganized(Society, order))
  BY DEF Reorganize
<1> DEFINE w == Society
<1>2. w = [roster |-> roster, teams |-> teams]
  BY DEF Society
<1> HIDE DEF w
<1>3. order \in SetToSeqs(Refugees(w)) /\ HasIds(KeptTeams(w), order) /\ Become(Reorganized(w, order))
  BY <1>1 DEF w
<1>4. Arranged(roster, lastId, teams) /\ AllPoint(roster, teams)
  BY DEF LivingAgree
<1>5. /\ Arranged(Reorganized(w, order).roster, lastId, Reorganized(w, order).teams)
      /\ AllPoint(Reorganized(w, order).roster, Reorganized(w, order).teams)
  BY <1>2, <1>3, <1>4, ReorganizedWell
<1>6. QED
  BY <1>3, <1>5, BecomesWell

LEMMA RescueStays ==
    ASSUME SocietyInv, NEW donor, NEW target, NEW amount \in Int, Rescue(donor, target, amount)
    PROVE  SocietyInv'
<1>1. LivingAgree /\ SavedArranged /\ roster \in [DOMAIN roster -> Agent]
  BY RosterIs DEF SocietyInv
<1> DEFINE paid == [roster EXCEPT ![donor].balance = roster[donor].balance - amount]
           moved == [paid EXCEPT ![target].balance = paid[target].balance + amount]
           given == [moved EXCEPT ![donor].loyalty = Felt(moved[donor].loyalty, "given")]
           got == [given EXCEPT ![target].loyalty = Felt(given[target].loyalty, "received")]
<1>2. /\ donor \in DOMAIN roster /\ target \in DOMAIN roster
      /\ SavesAs([Snapshot EXCEPT !.roster = moved])
      /\ roster' = got /\ UNCHANGED <<lastId, teams>>
  BY DEF Rescue
<1>3. ASSUME NEW rs, rs \in [DOMAIN roster -> Agent]
      PROVE  /\ rs \in [DOMAIN rs -> Agent] /\ DOMAIN rs = DOMAIN roster
             /\ rs[donor].balance \in Int /\ rs[target].balance \in Int
             /\ rs[donor].loyalty \in Int /\ rs[target].loyalty \in Int
  <2>1. DOMAIN rs = DOMAIN roster /\ rs[donor] \in Agent /\ rs[target] \in Agent
    BY <1>2, <1>3
  <2>2. QED
    BY <1>3, <2>1 DEF Agent
<1>4. \A rs, qs : rs \in [DOMAIN roster -> Agent] /\ SameHomes(rs, qs) => qs \in [DOMAIN roster -> Agent]
  BY DEF SameHomes
<1>5. SameHomes(roster, paid)
  <2>1. roster[donor].balance - amount \in Int
    BY <1>1, <1>3
  <2>2. QED
    BY <1>1, <1>2, <2>1, BalanceChanged
<1> HIDE DEF paid
<1>6. SameHomes(paid, moved)
  <2>1. /\ paid \in [DOMAIN paid -> Agent] /\ target \in DOMAIN paid
        /\ paid[target].balance + amount \in Int
    BY <1>1, <1>2, <1>3, <1>4, <1>5
  <2>2. QED
    BY <2>1, BalanceChanged
<1> HIDE DEF moved
<1>7. SameHomes(roster, moved)
  BY <1>5, <1>6, HomesTwice
<1>8. SameHomes(moved, given)
  <2>1. moved \in [DOMAIN moved -> Agent] /\ donor \in DOMAIN moved /\ moved[donor].loyalty \in Int
    BY <1>1, <1>2, <1>3, <1>4, <1>7
  <2>2. Felt(moved[donor].loyalty, "given") \in Int
    BY <2>1, FeltIs
  <2>3. QED
    BY <2>1, <2>2, LoyaltyChanged
<1> HIDE DEF given
<1>9. SameHomes(roster, given)
  BY <1>7, <1>8, HomesTwice
<1>10. SameHomes(given, got)
  <2>1. given \in [DOMAIN given -> Agent] /\ target \in DOMAIN given /\ given[target].loyalty \in Int
    BY <1>1, <1>2, <1>3, <1>4, <1>9
  <2>2. Felt(given[target].loyalty, "received") \in Int
    BY <2>1, FeltIs
  <2>3. QED
    BY <2>1, <2>2, LoyaltyChanged
<1> HIDE DEF got
<1>11. SameHomes(roster, got)
  BY <1>9, <1>10, HomesTwice
<1>12. LivingAgree'
  BY <1>1, <1>2, <1>11, HomesKeep
<1>13. SavedArranged'
  <2> DEFINE image == [Snapshot EXCEPT !.roster = moved]
  <2>1. image.roster = moved /\ image.lastId = lastId /\ image.teams = teams
    BY SnapshotOf
  <2>2. SavesAs(image)
    BY <1>2
  <2> HIDE DEF image
  <2>3. Arranged(moved, lastId, teams)
    BY <1>1, <1>7, HomesKept DEF LivingAgree
  <2>4. QED
    BY <1>1, <2>1, <2>2, <2>3, SavesKeeps
<1>14. QED
  BY <1>12, <1>13 DEF SocietyInv

LEMMA TeamsStay ==
    ASSUME SocietyInv, TeamsNext(ArenaIds)
    PROVE  SocietyInv'
<1>1. LivingAgree /\ SavedArranged /\ RosterUpTo(roster, lastId) /\ lastId \in Nat
  BY RosterIs DEF SocietyInv
<1>2. ASSUME NEW n \in 2 .. MaxTeams, AssignTeams(n)
      PROVE  SocietyInv'
  <2>1. /\ Cardinality(Willing(roster)) >= n /\ n \in Nat /\ n <= MaxTeams
        /\ UNCHANGED lastId /\ UNCHANGED disk
    BY <1>2, SocietyConstants DEF AssignTeams
  <2>2. PICK order \in SetToSeqs(Willing(roster)) : Become(Assigned(roster, n, order))
    BY <1>2 DEF AssignTeams
  <2>3. Willing(roster) \subseteq 1 .. lastId
    BY <1>1 DEF Willing, RosterUpTo
  <2>4. n <= Cardinality(Willing(roster))
    <3>1. Cardinality(Willing(roster)) \in Nat
      BY <1>1, <2>2, <2>3, OrderIs
    <3>2. QED
      BY <2>1, <3>1
  <2>5. /\ Arranged(Assigned(roster, n, order).roster, lastId, Assigned(roster, n, order).teams)
        /\ AllPoint(Assigned(roster, n, order).roster, Assigned(roster, n, order).teams)
    BY <1>1, <2>1, <2>2, <2>4, AssignedWell
  <2>6. LivingAgree'
    BY <2>1, <2>2, <2>5, BecomesWell
  <2>7. QED
    BY <1>1, <2>1, <2>6, UnsavedKeeps DEF SocietyInv
<1>3. CASE DissolveTeams
  <2> DEFINE hs == Homeless(roster)
             w == [roster |-> hs, teams |-> <<>>]
  <2>1. Become(w) /\ UNCHANGED lastId /\ UNCHANGED disk /\ w.roster = hs /\ w.teams = <<>>
    BY <1>3 DEF DissolveTeams
  <2>2. RosterUpTo(hs, lastId) /\ \A a \in DOMAIN hs : hs[a].team = NoTeam
    BY <1>1, HomelessIs
  <2> HIDE DEF w, hs
  <2>3. TeamsUpTo(<<>>, lastId) /\ \A a : StandsOnce(<<>>, a) /\ Points(NoTeam, <<>>, a)
    <3>1. <<>> \in Seq(TeamUpTo(lastId)) /\ DOMAIN <<>> = {}
      OBVIOUS
    <3>2. QED
      BY <3>1 DEF TeamsUpTo, StandsOnce, Points
  <2>4. Arranged(hs, lastId, <<>>) /\ AllPoint(hs, <<>>)
    BY <1>1, <2>2, <2>3 DEF Arranged, AllPoint
  <2>5. LivingAgree'
    BY <2>1, <2>4, BecomesWell
  <2>6. QED
    BY <1>1, <2>1, <2>5, UnsavedKeeps DEF SocietyInv
<1>4. CASE ReorganizeByHand
  <2>1. Reorganize /\ UNCHANGED lastId /\ Saved
    BY <1>4 DEF ReorganizeByHand
  <2>2. LivingAgree'
    BY <1>1, <2>1, ReorganizeStays
  <2>3. QED
    BY <1>1, <2>1, <2>2, SavedKeeps DEF SocietyInv
<1>5. CASE ReorganizeWhenDue
  <2>1. (UNCHANGED <<roster, teams>> \/ Reorganize) /\ UNCHANGED lastId /\ Saved
    BY <1>5 DEF ReorganizeWhenDue
  <2>2. LivingAgree'
    BY <1>1, <2>1, ReorganizeStays, LivingKeeps
  <2>3. QED
    BY <1>1, <2>1, <2>2, SavedKeeps DEF SocietyInv
<1>6. ASSUME NEW a \in ArenaIds, NEW b \in ArenaIds, Rescue(a, b, 1)
      PROVE  SocietyInv'
  BY <1>6, RescueStays
<1>7. QED
  BY <1>2, <1>3, <1>4, <1>5, <1>6 DEF TeamsNext

LEMMA PipelineStays ==
    ASSUME SocietyInv, NEW a \in ArenaIds, NEW kinds, PipelineNext(a, kinds)
    PROVE  SocietyInv'
<1>1. LivingAgree /\ SavedArranged /\ roster \in [DOMAIN roster -> Agent]
  BY RosterIs DEF SocietyInv
<1>2. ASSUME NEW r \in Rewards, NEW score \in Scores, Pay(a, r, score)
      PROVE  SocietyInv'
  <2>1. a \in DOMAIN roster /\ roster' = [roster EXCEPT ![a].balance = roster[a].balance + r]
        /\ UNCHANGED <<lastId, teams>> /\ UNCHANGED disk
    BY <1>2 DEF Pay
  <2>2. roster[a].balance + r \in Int
    <3>1. roster[a] \in Agent /\ r \in Int
      BY <1>1, <2>1, SocietyConstants
    <3>2. roster[a].balance \in Int
      BY <3>1 DEF Agent
    <3>3. QED
      BY <3>1, <3>2
  <2>3. SameHomes(roster, roster')
    BY <1>1, <2>1, <2>2, BalanceChanged
  <2>4. LivingAgree'
    BY <1>1, <2>1, <2>3, HomesKeep
  <2>5. QED
    BY <1>1, <2>1, <2>4, UnsavedKeeps DEF SocietyInv
<1>3. CASE Record(a, kinds)
  <2>1. /\ UNCHANGED lastId
        /\ teams' = IF "skill" \in kinds THEN Shared(teams, a) ELSE teams
        /\ \/ /\ a \in DOMAIN roster
              /\ roster' = [roster EXCEPT ![a].stood = TRUE, ![a].balance = LastStand]
              /\ Saved
           \/ UNCHANGED roster /\ SavesAs(Snapshot)
    BY <1>3 DEF Record, Ruined
  <2>2. SameHomes(roster, roster')
    <3>1. CASE UNCHANGED roster
      BY <1>1, <3>1 DEF SameHomes
    <3>2. CASE a \in DOMAIN roster /\ roster' = [roster EXCEPT ![a].stood = TRUE, ![a].balance = LastStand]
      BY <1>1, <3>2, StoodChanged
    <3>3. QED
      BY <2>1, <3>1, <3>2
  <2>3. /\ teams' \in Seq(TeamUpTo(lastId)) /\ DOMAIN teams' = DOMAIN teams
        /\ \A i \in DOMAIN teams : teams'[i].id = teams[i].id /\ teams'[i].members = teams[i].members
    <3>1. lastId \in Nat /\ teams \in Seq(TeamUpTo(lastId))
      BY <1>1, RosterIs
    <3>2. QED
      BY <2>1, <3>1, SharedKeeps
  <2>4. Arranged(roster', lastId, teams) /\ AllPoint(roster', teams)
    BY <1>1, <2>2, HomesKept DEF LivingAgree
  <2>5. Arranged(roster', lastId, teams') /\ AllPoint(roster', teams')
    BY <2>3, <2>4, ListsKept
  <2>6. LivingAgree'
    BY <2>1, <2>5 DEF LivingAgree
  <2>7. SavedArranged'
    <3>1. CASE Saved
      BY <1>1, <2>6, <3>1, SavedKeeps
    <3>2. CASE SavesAs(Snapshot)
      <4>1. Arranged(Snapshot.roster, Snapshot.lastId, Snapshot.teams)
        BY <1>1, SnapshotIs DEF LivingAgree
      <4>2. QED
        BY <1>1, <3>2, <4>1, SavesKeeps
    <3>3. QED
      BY <2>1, <3>1, <3>2
  <2>8. QED
    BY <2>6, <2>7 DEF SocietyInv
<1>4. CASE GoOn(a, kinds)
  <2>1. /\ (roster' = RosterWithout(a) \/ UNCHANGED roster)
        /\ UNCHANGED <<lastId, teams>> /\ UNCHANGED disk
    BY <1>4 DEF GoOn
  <2>2. LivingAgree'
    BY <1>1, <2>1, GoneStays, LivingKeeps
  <2>3. QED
    BY <1>1, <2>1, <2>2, UnsavedKeeps DEF SocietyInv
<1>5. QED
  BY <1>2, <1>3, <1>4 DEF PipelineNext

LEMMA ThoughtsStay ==
    ASSUME SocietyInv, NEW a \in ArenaIds, ThoughtsNext(a)
    PROVE  SocietyInv'
<1>1. LivingAgree /\ SavedArranged /\ roster \in [DOMAIN roster -> Agent]
  BY RosterIs DEF SocietyInv
<1>2. ASSUME NEW score \in Scores, Belief(a, score)
      PROVE  SocietyInv'
  <2>1. UNCHANGED <<lastId, disk>>
    BY <1>2 DEF Belief
  <2>2. CASE a \notin DOMAIN roster
    <3>1. UNCHANGED <<roster, lastId, teams>>
      BY <1>2, <2>2 DEF Belief
    <3>2. QED
      BY <1>1, <2>1, <3>1, LivingKeeps, UnsavedKeeps DEF SocietyInv
  <2>3. CASE a \in DOMAIN roster
    <3> DEFINE l == Felt(roster[a].loyalty, IF score = "fail" THEN "fail" ELSE "success")
    <3>1. roster' = [roster EXCEPT ![a].loyalty = l] /\ teams' = teams
      BY <1>2, <2>3 DEF Belief, Become, Defected, Society
    <3>2. l \in Int
      <4>1. roster[a].loyalty \in Int
        BY <1>1, <2>3 DEF Agent
      <4>2. QED
        BY <4>1, FeltIs
    <3> HIDE DEF l
    <3>3. SameHomes(roster, roster')
      BY <1>1, <2>3, <3>1, <3>2, LoyaltyChanged
    <3>4. LivingAgree'
      BY <1>1, <2>1, <3>1, <3>3, HomesKeep
    <3>5. QED
      BY <1>1, <2>1, <3>4, UnsavedKeeps DEF SocietyInv
  <2>4. QED
    BY <2>2, <2>3
<1>3. CASE Decide(a)
  <2>1. /\ UNCHANGED <<lastId, teams>>
        /\ \/ UNCHANGED <<roster, disk>>
           \/ /\ a \in DOMAIN roster
              /\ \E solo \in BOOLEAN : roster' = [roster EXCEPT ![a].solo = solo]
              /\ SavesAs([Snapshot EXCEPT !.roster = roster'])
    BY <1>3 DEF Decide
  <2>2. CASE UNCHANGED <<roster, disk>>
    BY <1>1, <2>1, <2>2, LivingKeeps, UnsavedKeeps DEF SocietyInv
  <2>3. CASE /\ a \in DOMAIN roster
             /\ \E solo \in BOOLEAN : roster' = [roster EXCEPT ![a].solo = solo]
             /\ SavesAs([Snapshot EXCEPT !.roster = roster'])
    <3>1. SameHomes(roster, roster')
      <4>1. PICK solo \in BOOLEAN : roster' = [roster EXCEPT ![a].solo = solo]
        BY <2>3
      <4>2. SameHomes(roster, [roster EXCEPT ![a].solo = solo])
        BY <1>1, <2>3, SoloChanged
      <4>3. QED
        BY <4>1, <4>2
    <3>2. LivingAgree'
      BY <1>1, <2>1, <3>1, HomesKeep
    <3> DEFINE image == [Snapshot EXCEPT !.roster = roster']
    <3>3. image.roster = roster' /\ image.lastId = lastId /\ image.teams = teams
      BY SnapshotOf
    <3>4. SavesAs(image)
      BY <2>3
    <3> HIDE DEF image
    <3>5. Arranged(image.roster, image.lastId, image.teams)
      BY <2>1, <3>2, <3>3 DEF LivingAgree
    <3>6. SavedArranged'
      BY <1>1, <3>4, <3>5, SavesKeeps
    <3>7. QED
      BY <3>2, <3>6 DEF SocietyInv
  <2>4. QED
    BY <2>1, <2>2, <2>3
<1>4. CASE Wisdom(a)
  <2>1. (teams' = Shared(teams, a) \/ UNCHANGED teams) /\ UNCHANGED <<roster, lastId>> /\ UNCHANGED disk
    BY <1>4 DEF Wisdom
  <2>2. LivingAgree'
    BY <1>1, <2>1, SharedStays, LivingKeeps
  <2>3. QED
    BY <1>1, <2>1, <2>2, UnsavedKeeps DEF SocietyInv
<1>5. ASSUME Write(a) \/ (\E b \in ArenaIds : Deliver(a, b)) \/ ReadLetters(a)
      PROVE  SocietyInv'
  <2>1. UNCHANGED <<roster, lastId, teams>> /\ UNCHANGED disk
    BY <1>5 DEF Write, Deliver, ReadLetters
  <2>2. QED
    BY <1>1, <2>1, LivingKeeps, UnsavedKeeps DEF SocietyInv
<1>6. QED
  BY <1>2, <1>3, <1>4, <1>5 DEF ThoughtsNext

\* The process ends, and what was saved is restored.
LEMMA RestartStays ==
    ASSUME SocietyInv, RestartNext
    PROVE  SocietyInv'
<1>1. LivingAgree /\ SavedArranged
  BY DEF SocietyInv
<1>2. CASE Checkpoint
  <2>1. UNCHANGED <<roster, lastId, teams>> /\ Saved
    BY <1>2 DEF Checkpoint
  <2>2. LivingAgree'
    BY <1>1, <2>1, LivingKeeps
  <2>3. QED
    BY <1>1, <2>1, <2>2, SavedKeeps DEF SocietyInv
<1>3. ASSUME NEW ids \in SUBSET DOMAIN disk.roster, RestartArena(ids)
      PROVE  SocietyInv'
  <2> DEFINE rs == [a \in ids |-> Restored(disk.roster[a])]
             ts == RestoredTeams(ids)
             n == disk.lastId
  <2>1. /\ n \in Nat /\ RosterUpTo(disk.roster, n) /\ TeamsUpTo(disk.teams, n)
        /\ \A a \in DOMAIN disk.roster : StandsOnce(disk.teams, a)
    BY <1>1 DEF SavedArranged, Arranged
  <2>2. RosterUpTo(rs, n) /\ DOMAIN rs = ids /\ \A a \in ids : rs[a].team = NoTeam
    BY <2>1, RestoredIs
  <2>3. TeamsUpTo(ts, n) /\ \A a \in ids : StandsOnce(ts, a)
    BY <1>1, <2>1, RestoredTeamsWell DEF SavedArranged
  <2>4. /\ IF ts = <<>> /\ Cardinality(Willing(rs)) >= 2
           THEN \E order \in SetToSeqs(Willing(rs)) : Become(Assigned(rs, 2, order))
           ELSE Become([roster |-> Enrolled(rs, ts), teams |-> ts])
        /\ lastId' = n
        /\ IF ids = {} THEN UNCHANGED disk ELSE Saved
    BY <1>3 DEF RestartArena
  <2> HIDE DEF rs, ts, n
  <2>5. \E w : Become(w) /\ Arranged(w.roster, n, w.teams) /\ AllPoint(w.roster, w.teams)
    <3>1. CASE ts = <<>> /\ Cardinality(Willing(rs)) >= 2
      <4>1. PICK order \in SetToSeqs(Willing(rs)) : Become(Assigned(rs, 2, order))
        BY <2>4, <3>1
      <4>2. Willing(rs) \subseteq 1 .. n
        BY <2>2 DEF Willing, RosterUpTo
      <4>3. Cardinality(Willing(rs)) \in Nat
        BY <2>1, <4>1, <4>2, OrderIs
      <4>4. 2 \in Nat /\ 2 <= MaxTeams /\ 2 <= Cardinality(Willing(rs))
        BY <3>1, <4>3, SocietyConstants
      <4>5. /\ Arranged(Assigned(rs, 2, order).roster, n, Assigned(rs, 2, order).teams)
            /\ AllPoint(Assigned(rs, 2, order).roster, Assigned(rs, 2, order).teams)
        BY <2>1, <2>2, <4>1, <4>4, AssignedWell
      <4>6. QED
        BY <4>1, <4>5
    <3>2. CASE ~(ts = <<>> /\ Cardinality(Willing(rs)) >= 2)
      <4> DEFINE w == [roster |-> Enrolled(rs, ts), teams |-> ts]
      <4>1. Become(w) /\ w.roster = Enrolled(rs, ts) /\ w.teams = ts
        BY <2>4, <3>2
      <4> HIDE DEF w
      <4>2. Arranged(Enrolled(rs, ts), n, ts) /\ AllPoint(Enrolled(rs, ts), ts)
        BY <2>1, <2>2, <2>3, EnrolledWell
      <4>3. QED
        BY <4>1, <4>2
    <3>3. QED
      BY <3>1, <3>2
  <2>6. LivingAgree'
    <3>1. PICK w : Become(w) /\ Arranged(w.roster, n, w.teams) /\ AllPoint(w.roster, w.teams)
      BY <2>5
    <3>2. QED
      BY <2>4, <3>1 DEF LivingAgree, Become
  <2>7. SavedArranged'
    BY <1>1, <2>4, <2>6, SavedKeeps, UnsavedKeeps
  <2>8. QED
    BY <2>6, <2>7 DEF SocietyInv
<1>4. QED
  BY <1>2, <1>3 DEF RestartNext

LEMMA SocietyStarts == SocietyInit => SocietyInv
<1>1. SUFFICES ASSUME SocietyInit
               PROVE  SocietyInv
  OBVIOUS
<1>2. /\ roster = <<>> /\ lastId = 0 /\ teams = <<>>
      /\ disk.roster = roster /\ disk.lastId = lastId /\ disk.teams = teams
  BY <1>1 DEF SocietyInit, Snapshot
<1>3. Arranged(<<>>, 0, <<>>) /\ AllPoint(<<>>, <<>>)
  <2>1. DOMAIN <<>> = {} /\ <<>> \in Seq(TeamUpTo(0)) /\ 0 \in Nat
    OBVIOUS
  <2>2. <<>> \in [{} -> Agent]
    OBVIOUS
  <2>3. RosterUpTo(<<>>, 0)
    BY <2>1, <2>2 DEF RosterUpTo
  <2>4. TeamsUpTo(<<>>, 0)
    BY <2>1 DEF TeamsUpTo
  <2>5. QED
    BY <2>1, <2>3, <2>4 DEF Arranged, AllPoint
<1>4. QED
  BY <1>2, <1>3 DEF SocietyInv, LivingAgree, SavedArranged

LEMMA SocietyStays == SocietyInv /\ [SocietyNext]_societyVars => SocietyInv'
<1>1. SUFFICES ASSUME SocietyInv, [SocietyNext]_societyVars
               PROVE  SocietyInv'
  OBVIOUS
<1>2. CASE NewAgent
  <2>1. UNCHANGED disk
    BY <1>2 DEF NewAgent
  <2>2. QED
    BY <1>1, <1>2, <2>1, NewAgentStays, UnsavedKeeps DEF SocietyInv
<1>3. ASSUME NEW a \in ArenaIds,
             RosterNext(a) \/ ThoughtsNext(a) \/ \E kinds \in SUBSET Chores : PipelineNext(a, kinds)
      PROVE  SocietyInv'
  BY <1>1, <1>3, RosterStays, ThoughtsStay, PipelineStays
<1>4. CASE TeamsNext(ArenaIds)
  BY <1>1, <1>4, TeamsStay
<1>5. CASE RestartNext
  BY <1>1, <1>5, RestartStays
<1>6. CASE UNCHANGED societyVars
  <2>1. UNCHANGED <<roster, lastId, teams>> /\ UNCHANGED disk
    BY <1>6 DEF societyVars
  <2>2. QED
    BY <1>1, <2>1, LivingKeeps, UnsavedKeeps DEF SocietyInv
<1>7. QED
  BY <1>1, <1>2, <1>3, <1>4, <1>5, <1>6 DEF SocietyNext

LEMMA SocietyImplies == SocietyInv => MembersAgree
<1>1. SUFFICES ASSUME SocietyInv, NEW a \in DOMAIN roster
               PROVE  /\ roster[a].team \in TeamIdsOf(teams) \cup {NoTeam}
                      /\ \A i \in DOMAIN teams :
                            Cardinality({k \in DOMAIN teams[i].members : teams[i].members[k] = a}) =
                               IF roster[a].team = teams[i].id THEN 1 ELSE 0
  BY DEF MembersAgree
<1>2. StandsOnce(teams, a) /\ Points(roster[a].team, teams, a)
  BY <1>1 DEF SocietyInv, LivingAgree, Arranged, AllPoint
<1>3. ASSUME NEW i \in DOMAIN teams
      PROVE  Cardinality({k \in DOMAIN teams[i].members : teams[i].members[k] = a}) =
                IF roster[a].team = teams[i].id THEN 1 ELSE 0
  <2> DEFINE at == {k \in DOMAIN teams[i].members : teams[i].members[k] = a}
  <2>1. CASE a \in ToSet(teams[i].members)
    <3>1. PICK k \in DOMAIN teams[i].members : teams[i].members[k] = a
      BY <2>1 DEF ToSet
    <3>2. at = {k}
      BY <1>2, <3>1 DEF StandsOnce
    <3>3. Cardinality({k}) = 1
      BY FS_Singleton
    <3>4. roster[a].team = teams[i].id
      BY <1>2, <2>1 DEF Points
    <3>5. QED
      BY <3>2, <3>3, <3>4
  <2>2. CASE a \notin ToSet(teams[i].members)
    <3>1. at = {}
      BY <2>2 DEF ToSet
    <3>2. Cardinality({}) = 0
      BY FS_EmptySet
    <3>3. roster[a].team # teams[i].id
      BY <1>2, <2>2 DEF Points
    <3>4. QED
      BY <3>1, <3>2, <3>3
  <2>3. QED
    BY <2>1, <2>2
<1>4. QED
  BY <1>2, <1>3 DEF Points

\* Every agent is once in the list of the team it says it is in and in no other,
\* however teams are formed, reorganized, dissolved or restored, for any number
\* of agents and teams (domain/arena.py:290-420).
THEOREM MembersAreInTheirTeam == SocietySpec => []MembersAgree
<1>1. SocietyInit => SocietyInv
  BY SocietyStarts
<1>2. SocietyInv /\ [SocietyNext]_societyVars => SocietyInv'
  BY SocietyStays
<1>3. SocietyInv => MembersAgree
  BY SocietyImplies
<1>4. QED
  BY <1>1, <1>2, <1>3, PTL DEF SocietySpec

===============================================================================

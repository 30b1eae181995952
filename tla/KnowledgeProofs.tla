----------------------------- MODULE KnowledgeProofs -----------------------------
(***************************************************************************)
(* What Knowledge promises, for any sources, spaces, documents and texts,  *)
(* and ResponsesBridge, for any requests, streams and bounds.              *)
(***************************************************************************)
EXTENDS Knowledge, ResponsesBridge, RegistryProofs

-----------------------------------------------------------------------------
(* Folds.                                                                  *)

LEMMA UpTo ==
    ASSUME NEW n \in Nat, NEW T, 0 \in T, \A i \in 0 .. n - 1 : i \in T => i + 1 \in T
    PROVE  \A i \in 0 .. n : i \in T
<1> DEFINE U == {i \in Nat : i <= n => i \in T}
<1>1. 0 \in U
  OBVIOUS
<1>2. \A i \in Nat : i \in U => i + 1 \in U
  OBVIOUS
<1> HIDE DEF U
<1>3. Nat \subseteq U
  BY <1>1, <1>2, NatSetInduction
<1>4. QED
  BY <1>3 DEF U

LEMMA GreatestIs ==
    ASSUME NEW n \in Nat, NEW s \in SUBSET (1 .. n), s # {}
    PROVE  Max(s) \in s /\ \A y \in s : Max(s) >= y
<1> DEFINE U == {n - x : x \in s}
<1>1. U \subseteq Nat /\ U # {}
  <2>1. \A x \in 1 .. n : n - x \in Nat
    OBVIOUS
  <2>2. \A x \in s : x \in 1 .. n
    OBVIOUS
  <2>3. QED
    BY <2>1, <2>2
<1>2. PICK u \in U : \A m \in U : u <= m
  BY <1>1, LeastNat
<1>3. PICK x \in s : u = n - x
  OBVIOUS
<1>4. \A y \in s : x >= y
  <2>1. SUFFICES ASSUME NEW y \in s
                 PROVE  x >= y
    OBVIOUS
  <2>2. n - y \in U
    OBVIOUS
  <2>3. u <= n - y
    BY <1>2, <2>2
  <2>4. x \in Nat /\ y \in Nat
    OBVIOUS
  <2>5. QED
    BY <1>3, <2>3, <2>4
<1>5. \E z \in s : \A y \in s : z >= y
  BY <1>4
<1>6. QED
  BY <1>5, Zenon DEF Max

LEMMA GreatestOfFirst ==
    ASSUME NEW n \in Nat, NEW i \in 1 .. n
    PROVE  /\ 1 .. i \in SUBSET (1 .. n) /\ 1 .. i # {}
           /\ Max(1 .. i) = i /\ (1 .. i) \ {i} = 1 .. i - 1
<1>1. 1 .. i \in SUBSET (1 .. n) /\ i \in 1 .. i
  OBVIOUS
<1>2. 1 .. i # {}
  BY <1>1
<1>3. Max(1 .. i) \in 1 .. i /\ Max(1 .. i) >= i
  BY <1>1, <1>2, GreatestIs
<1>4. Max(1 .. i) = i
  BY <1>3
<1>5. QED
  BY <1>1, <1>2, <1>4

\* What a fold over 1 .. n is of each subset: the greatest is folded last.
IsFoldOf(f, X, b, n, step) ==
    /\ f \in [SUBSET (1 .. n) -> X]
    /\ \A s \in SUBSET (1 .. n) : f[s] = IF s = {} THEN b ELSE step[Max(s)][f[s \ {Max(s)}]]

LEMMA SequenceFoldExists ==
    ASSUME NEW X, NEW b \in X, NEW n \in Nat, NEW step \in [1 .. n -> [X -> X]]
    PROVE  \E f : IsFoldOf(f, X, b, n, step)
<1> DEFINE T == {m \in Nat : \E f : IsFoldOf(f, X, b, m, step)}
<1>1. 0 \in T
  <2> DEFINE f == [s \in SUBSET (1 .. 0) |-> b]
  <2>1. \A s \in SUBSET (1 .. 0) : s = {}
    OBVIOUS
  <2>2. IsFoldOf(f, X, b, 0, step)
    BY <2>1 DEF IsFoldOf
  <2> HIDE DEF f
  <2>3. QED
    BY <2>2
<1>2. ASSUME NEW m \in 0 .. n - 1, m \in T
      PROVE  m + 1 \in T
  <2>1. PICK f : IsFoldOf(f, X, b, m, step)
    BY <1>2
  <2> DEFINE g == [s \in SUBSET (1 .. m + 1) |->
                     IF m + 1 \in s THEN step[m + 1][f[s \ {m + 1}]] ELSE f[s]]
  <2>2. ASSUME NEW s \in SUBSET (1 .. m + 1)
        PROVE  s \ {m + 1} \in SUBSET (1 .. m)
    OBVIOUS
  <2>3. ASSUME NEW s \in SUBSET (1 .. m)
        PROVE  s \in SUBSET (1 .. m + 1) /\ m + 1 \notin s
    OBVIOUS
  <2>4. f \in [SUBSET (1 .. m) -> X] /\ step[m + 1] \in [X -> X] /\ m + 1 \in Nat
    BY <2>1 DEF IsFoldOf
  <2>5. \A s \in SUBSET (1 .. m) : g[s] = f[s]
    BY <2>3
  <2>6. ASSUME NEW s \in SUBSET (1 .. m + 1)
        PROVE  g[s] \in X
    <3>1. CASE m + 1 \in s
      <4>1. f[s \ {m + 1}] \in X
        BY <2>2, <2>4
      <4>2. QED
        BY <2>4, <3>1, <4>1
    <3>2. CASE m + 1 \notin s
      <4>1. s \in SUBSET (1 .. m)
        BY <2>2, <3>2
      <4>2. QED
        BY <2>4, <2>5, <4>1
    <3>3. QED
      BY <3>1, <3>2
  <2>7. ASSUME NEW s \in SUBSET (1 .. m + 1)
        PROVE  g[s] = IF s = {} THEN b ELSE step[Max(s)][g[s \ {Max(s)}]]
    <3>1. CASE m + 1 \in s
      <4>1. Max(s) \in s /\ Max(s) >= m + 1
        BY <2>4, <3>1, GreatestIs
      <4>2. Max(s) = m + 1
        <5>1. Max(s) \in 1 .. m + 1
          BY <4>1
        <5>2. QED
          BY <4>1, <5>1
      <4>3. g[s \ {m + 1}] = f[s \ {m + 1}]
        BY <2>2, <2>5
      <4>4. g[s] = step[m + 1][f[s \ {m + 1}]]
        BY <3>1
      <4> HIDE DEF g
      <4>5. QED
        BY <3>1, <4>2, <4>3, <4>4
    <3>2. CASE m + 1 \notin s
      <4>1. s \in SUBSET (1 .. m) /\ s \ {Max(s)} \in SUBSET (1 .. m)
        BY <2>2, <3>2
      <4>2. f[s] = IF s = {} THEN b ELSE step[Max(s)][f[s \ {Max(s)}]]
        BY <2>1, <4>1 DEF IsFoldOf
      <4>3. g[s] = f[s] /\ g[s \ {Max(s)}] = f[s \ {Max(s)}]
        BY <2>5, <4>1
      <4> HIDE DEF g
      <4>4. QED
        BY <4>2, <4>3
    <3>3. QED
      BY <3>1, <3>2
  <2>8. g \in [SUBSET (1 .. m + 1) -> X]
    BY <2>6
  <2> HIDE DEF g
  <2>9. IsFoldOf(g, X, b, m + 1, step)
    BY <2>7, <2>8 DEF IsFoldOf
  <2>10. QED
    BY <2>9
<1> HIDE DEF T
<1>3. \A m \in 0 .. n : m \in T
  BY <1>1, <1>2, UpTo, Zenon
<1>4. n \in T
  BY <1>3
<1>5. QED
  BY <1>4 DEF T

LEMMA SeqInduction ==
    ASSUME NEW E, NEW T, <<>> \in T, \A s \in Seq(E), e \in E : s \in T => Append(s, e) \in T
    PROVE  \A s \in Seq(E) : s \in T
<1> DEFINE U == {n \in Nat : \A s \in Seq(E) : Len(s) = n => s \in T}
<1>1. 0 \in U
  <2>1. \A s \in Seq(E) : Len(s) = 0 => s = <<>>
    OBVIOUS
  <2>2. QED
    BY <2>1
<1>2. ASSUME NEW n \in Nat, n \in U
      PROVE  n + 1 \in U
  <2>1. SUFFICES ASSUME NEW s \in Seq(E), Len(s) = n + 1
                 PROVE  s \in T
    OBVIOUS
  <2>2. PICK r \in Seq(E), e \in E : s = Append(r, e)
    <3>1. s # <<>>
      BY <2>1
    <3>2. QED
      BY <3>1, SequenceEmptyOrAppend
  <2>3. Len(r) = n
    BY <2>1, <2>2
  <2>4. r \in T
    BY <1>2, <2>3
  <2>5. QED
    BY <2>2, <2>4
<1> HIDE DEF U
<1>3. Nat \subseteq U
  BY <1>1, <1>2, NatSetInduction
<1>4. QED
  BY <1>3, LenProperties DEF U

Steps(E, X) == [X \X E -> X]

CanFold(E, X, b, step) == b \in X /\ step \in Steps(E, X)

\* What a fold over a sequence of E is, with values in X, as a function of the sequence.
IsFolding(F, E, X, b, step) ==
    /\ F \in [Seq(E) -> X] /\ F[<<>>] = b
    /\ \A s \in Seq(E), e \in E : F[Append(s, e)] = step[<<F[s], e>>]

Folding(E, X, b, step) == CHOOSE F : IsFolding(F, E, X, b, step)

\* Its values on the way: after none, one, ..., all of the elements.
AreValues(f, s, X, b, step) ==
    /\ f \in [0 .. Len(s) -> X] /\ f[0] = b
    /\ \A i \in 1 .. Len(s) : f[i] = step[<<f[i - 1], s[i]>>]

LEMMA ValuesExist ==
    ASSUME NEW E, NEW X, NEW b, NEW step, CanFold(E, X, b, step)
    PROVE  \A s \in Seq(E) : \E f : AreValues(f, s, X, b, step)
<1>0. b \in X /\ step \in [X \X E -> X]
  BY DEF CanFold, Steps
<1> DEFINE T == {s \in Seq(E) : \E f : AreValues(f, s, X, b, step)}
<1>1. <<>> \in T
  <2> DEFINE f == [i \in 0 .. 0 |-> b]
  <2>1. Len(<<>>) = 0 /\ <<>> \in Seq(E)
    OBVIOUS
  <2>2. AreValues(f, <<>>, X, b, step)
    BY <1>0, <2>1 DEF AreValues
  <2> HIDE DEF f
  <2>3. QED
    BY <2>1, <2>2
<1>2. ASSUME NEW s \in Seq(E), NEW e \in E, s \in T
      PROVE  Append(s, e) \in T
  <2>1. PICK f : AreValues(f, s, X, b, step)
    BY <1>2
  <2> DEFINE n == Len(s)
             t == Append(s, e)
             g == [i \in 0 .. n + 1 |-> IF i = n + 1 THEN step[<<f[n], e>>] ELSE f[i]]
  <2>2. /\ n \in Nat /\ t \in Seq(E) /\ Len(t) = n + 1
        /\ \A i \in 1 .. n : t[i] = s[i]
        /\ t[n + 1] = e
    BY AppendProperties
  <2>3. f[n] \in X /\ \A i \in 0 .. n : f[i] \in X
    BY <2>1, <2>2 DEF AreValues
  <2>4. step[<<f[n], e>>] \in X
    BY <1>0, <2>3
  <2>5. g \in [0 .. n + 1 -> X]
    <3>1. \A i \in 0 .. n + 1 : i = n + 1 \/ i \in 0 .. n
      BY <2>2
    <3> HIDE DEF n
    <3>2. QED
      BY <2>3, <2>4, <3>1
  <2>6. g[0] = b
    BY <2>1, <2>2 DEF AreValues
  <2>7. ASSUME NEW i \in 1 .. n + 1
        PROVE  g[i] = step[<<g[i - 1], t[i]>>]
    <3>1. CASE i = n + 1
      <4>1. i - 1 = n /\ n \in 0 .. n + 1 /\ n + 1 \in 0 .. n + 1 /\ n # n + 1
        BY <2>2, <3>1
      <4>2. g[i] = step[<<f[n], e>>] /\ g[i - 1] = f[n]
        BY <3>1, <4>1, ZenonT(40)
      <4> HIDE DEF g, t
      <4>3. QED
        BY <2>2, <3>1, <4>2
    <3>2. CASE i # n + 1
      <4>1. i \in 1 .. n /\ i \in 0 .. n + 1 /\ i - 1 \in 0 .. n + 1 /\ i - 1 # n + 1
        BY <2>2, <3>2
      <4>2. g[i] = f[i] /\ g[i - 1] = f[i - 1]
        BY <3>2, <4>1
      <4>3. f[i] = step[<<f[i - 1], s[i]>>]
        BY <2>1, <4>1 DEF AreValues
      <4> HIDE DEF g, t
      <4>4. QED
        BY <2>2, <4>1, <4>2, <4>3
    <3>3. QED
      BY <3>1, <3>2
  <2> HIDE DEF g, n, t
  <2>8. AreValues(g, t, X, b, step)
    BY <2>2, <2>5, <2>6, <2>7 DEF AreValues
  <2>9. QED
    BY <2>2, <2>8 DEF t
<1> HIDE DEF T
<1>3. \A s \in Seq(E) : s \in T
  BY <1>1, <1>2, SeqInduction
<1>4. QED
  BY <1>3 DEF T

\* The values of a sequence are those of one with an element more, as far as they go.
LEMMA ValuesAgree ==
    ASSUME NEW E, NEW X, NEW b, NEW step, NEW s \in Seq(E), NEW e \in E,
           NEW f, AreValues(f, s, X, b, step), NEW g, AreValues(g, Append(s, e), X, b, step)
    PROVE  g[Len(s)] = f[Len(s)]
<1> DEFINE n == Len(s)
           t == Append(s, e)
           T == {i \in 0 .. n : g[i] = f[i]}
<1>1. n \in Nat /\ Len(t) = n + 1 /\ \A i \in 1 .. n : t[i] = s[i]
  BY AppendProperties
<1> HIDE DEF t
<1>2. 0 \in T
  BY <1>1 DEF AreValues, t
<1>3. ASSUME NEW i \in 0 .. n - 1, i \in T
      PROVE  i + 1 \in T
  <2>1. i + 1 \in 1 .. n /\ i + 1 \in 1 .. Len(t) /\ i + 1 \in 0 .. n /\ (i + 1) - 1 = i
    BY <1>1
  <2>2. f[i + 1] = step[<<f[i], s[i + 1]>>]
    BY <2>1 DEF AreValues
  <2>3. g[i + 1] = step[<<g[i], t[i + 1]>>]
    BY <2>1 DEF AreValues, t
  <2>4. g[i] = f[i]
    BY <1>3
  <2>5. g[i + 1] = f[i + 1]
    BY <1>1, <2>1, <2>2, <2>3, <2>4
  <2>6. QED
    BY <2>1, <2>5
<1>4. \A i \in 0 .. n : i \in T
  <2> HIDE DEF T, n
  <2>1. QED
    BY <1>1, <1>2, <1>3, UpTo, Zenon
<1>5. n \in 0 .. n
  BY <1>1
<1>6. QED
  BY <1>4, <1>5

LEMMA FoldingIs ==
    ASSUME NEW E, NEW X, NEW b, NEW step, CanFold(E, X, b, step)
    PROVE  IsFolding(Folding(E, X, b, step), E, X, b, step)
<1>0. b \in X /\ step \in [X \X E -> X]
  BY DEF CanFold, Steps
<1> DEFINE V(s) == CHOOSE f : AreValues(f, s, X, b, step)
           F == [s \in Seq(E) |-> V(s)[Len(s)]]
<1>1. ASSUME NEW s \in Seq(E)
      PROVE  AreValues(V(s), s, X, b, step)
  BY ValuesExist
<1>2. ASSUME NEW s \in Seq(E)
      PROVE  F[s] = V(s)[Len(s)] /\ V(s)[Len(s)] \in X
  <2>1. Len(s) \in 0 .. Len(s)
    OBVIOUS
  <2>2. V(s)[Len(s)] \in X
    BY <1>1, <2>1 DEF AreValues
  <2>3. QED
    BY <2>2
<1> HIDE DEF V
<1>3. F \in [Seq(E) -> X]
  BY <1>2
<1>4. F[<<>>] = b
  <2>1. <<>> \in Seq(E) /\ Len(<<>>) = 0
    OBVIOUS
  <2>2. V(<<>>)[0] = b
    BY <1>1, <2>1 DEF AreValues
  <2> HIDE DEF F
  <2>3. QED
    BY <1>2, <2>1, <2>2
<1>5. ASSUME NEW s \in Seq(E), NEW e \in E
      PROVE  F[Append(s, e)] = step[<<F[s], e>>]
  <2> DEFINE t == Append(s, e)
             n == Len(s)
  <2>1. /\ n \in Nat /\ t \in Seq(E) /\ Len(t) = n + 1
        /\ \A i \in 1 .. n : t[i] = s[i]
        /\ t[n + 1] = e
    BY AppendProperties
  <2> HIDE DEF t
  <2>2. V(t)[n] = V(s)[n]
    <3>1. AreValues(V(s), s, X, b, step) /\ AreValues(V(t), t, X, b, step)
      BY <1>1, <2>1
    <3>2. QED
      BY <3>1, ValuesAgree DEF t
  <2>3. V(t)[n + 1] = step[<<V(t)[n], t[n + 1]>>]
    <3>1. n + 1 \in 1 .. Len(t) /\ (n + 1) - 1 = n
      BY <2>1
    <3>2. AreValues(V(t), t, X, b, step)
      BY <1>1, <2>1
    <3>3. QED
      BY <3>1, <3>2 DEF AreValues
  <2>4. F[t] = V(t)[n + 1] /\ F[s] = V(s)[n]
    BY <1>2, <2>1
  <2> HIDE DEF F
  <2>5. F[t] = step[<<F[s], e>>]
    BY <2>1, <2>2, <2>3, <2>4
  <2>6. QED
    BY <2>5 DEF t
<1> HIDE DEF F
<1>6. IsFolding(F, E, X, b, step)
  BY <1>3, <1>4, <1>5 DEF IsFolding
<1>7. QED
  BY <1>6, Zenon DEF Folding

LEMMA FoldingValue ==
    ASSUME NEW E, NEW X, NEW b, NEW step, CanFold(E, X, b, step)
    PROVE  \A s \in Seq(E) : \A f : AreValues(f, s, X, b, step) =>
              f[Len(s)] = Folding(E, X, b, step)[s]
<1>0. b \in X /\ step \in [X \X E -> X]
  BY DEF CanFold, Steps
<1> DEFINE F == Folding(E, X, b, step)
           T == {r \in Seq(E) : \A v : AreValues(v, r, X, b, step) => v[Len(r)] = F[r]}
<1>1. IsFolding(F, E, X, b, step)
  BY FoldingIs
<1> HIDE DEF F
<1>2. <<>> \in T
  <2>1. <<>> \in Seq(E) /\ Len(<<>>) = 0
    OBVIOUS
  <2>2. QED
    BY <1>1, <2>1 DEF IsFolding, AreValues
<1>3. ASSUME NEW r \in Seq(E), NEW e \in E, r \in T
      PROVE  Append(r, e) \in T
  <2> DEFINE t == Append(r, e)
             n == Len(r)
  <2>1. /\ n \in Nat /\ t \in Seq(E) /\ Len(t) = n + 1
        /\ \A i \in 1 .. n : t[i] = r[i]
        /\ t[n + 1] = e
    BY AppendProperties
  <2>2. SUFFICES ASSUME NEW v, AreValues(v, t, X, b, step)
                 PROVE  v[n + 1] = F[t]
    BY <2>1
  <2>3. PICK u : AreValues(u, r, X, b, step)
    BY ValuesExist
  <2> HIDE DEF t
  <2>4. v[n] = u[n]
    BY <2>2, <2>3, ValuesAgree DEF t
  <2>5. u[n] = F[r]
    BY <1>3, <2>3
  <2>6. v[n + 1] = step[<<v[n], t[n + 1]>>]
    <3>1. n + 1 \in 1 .. Len(t) /\ (n + 1) - 1 = n
      BY <2>1
    <3>2. QED
      BY <2>2, <3>1 DEF AreValues
  <2>7. F[t] = step[<<F[r], e>>]
    BY <1>1 DEF IsFolding, t
  <2>8. QED
    BY <2>1, <2>4, <2>5, <2>6, <2>7
<1> HIDE DEF T
<1>4. \A r \in Seq(E) : r \in T
  BY <1>2, <1>3, SeqInduction
<1>5. QED
  BY <1>4 DEF T, F

OnPositions(g, s, X, b, step) ==
    /\ g = [t \in SUBSET (1 .. Len(s)) |-> g[t]] /\ g[{}] = b
    /\ \A t \in SUBSET (1 .. Len(s)) : t # {} =>
          /\ Max(t) \in 1 .. Len(s) /\ g[t \ {Max(t)}] \in X
          /\ g[t] = step[<<g[t \ {Max(t)}], s[Max(t)]>>]

OnPositionsIn(g, s, X, b, step) ==
    /\ g[{}] = b
    /\ \A t \in SUBSET (1 .. Len(s)) : t # {} /\ g[t \ {Max(t)}] \in X =>
          g[t] = step[<<g[t \ {Max(t)}], s[Max(t)]>>]

\* The fold of a library operator is a function of the sets of positions: there is
\* one, and what it is of all positions is the value of the fold.
LEMMA FoldOfPositions ==
    ASSUME NEW E, NEW X, NEW b, NEW step, CanFold(E, X, b, step), NEW s \in Seq(E)
    PROVE  \E g : OnPositions(g, s, X, b, step)
<1>0. b \in X /\ step \in [X \X E -> X]
  BY DEF CanFold, Steps
<1> DEFINE n == Len(s)
           along == [i \in 1 .. n |-> [x \in X |-> step[<<x, s[i]>>]]]
<1>1. n \in Nat /\ \A i \in 1 .. n : s[i] \in E
  OBVIOUS
<1>2. along \in [1 .. n -> [X -> X]]
  BY <1>0, <1>1
<1>3. PICK g : IsFoldOf(g, X, b, n, along)
  BY <1>0, <1>1, <1>2, SequenceFoldExists
<1>4. ASSUME NEW t \in SUBSET (1 .. n), t # {}
      PROVE  /\ Max(t) \in 1 .. n /\ g[t \ {Max(t)}] \in X
             /\ g[t] = step[<<g[t \ {Max(t)}], s[Max(t)]>>]
  <2>1. Max(t) \in 1 .. n
    BY <1>1, <1>4, GreatestIs
  <2>2. g[t \ {Max(t)}] \in X
    BY <1>3 DEF IsFoldOf
  <2>3. g[t] = along[Max(t)][g[t \ {Max(t)}]]
    BY <1>3, <1>4 DEF IsFoldOf
  <2>4. QED
    BY <2>1, <2>2, <2>3
<1>5. g[{}] = b /\ g = [t \in SUBSET (1 .. n) |-> g[t]]
  BY <1>3 DEF IsFoldOf
<1>6. QED
  BY <1>4, <1>5 DEF OnPositions

LEMMA FoldOfAll ==
    ASSUME NEW E, NEW X, NEW b, NEW step, CanFold(E, X, b, step), NEW s \in Seq(E), NEW g,
           OnPositionsIn(g, s, X, b, step)
    PROVE  g[1 .. Len(s)] = Folding(E, X, b, step)[s]
<1>0. b \in X /\ step \in [X \X E -> X]
  BY DEF CanFold, Steps
<1> DEFINE n == Len(s)
           f == [i \in 0 .. n |-> g[1 .. i]]
           T == {i \in 0 .. n : g[1 .. i] \in X}
<1>1. n \in Nat /\ \A i \in 1 .. n : s[i] \in E
  OBVIOUS
<1>2. ASSUME NEW i \in 1 .. n, g[1 .. i - 1] \in X
      PROVE  g[1 .. i] = step[<<g[1 .. i - 1], s[i]>>]
  <2>1. /\ 1 .. i \in SUBSET (1 .. n) /\ 1 .. i # {}
        /\ Max(1 .. i) = i /\ (1 .. i) \ {i} = 1 .. i - 1
    BY <1>1, GreatestOfFirst
  <2>2. QED
    BY <1>2, <2>1 DEF OnPositionsIn
<1>3. 0 \in T
  BY <1>0, <1>1 DEF OnPositionsIn
<1>4. ASSUME NEW i \in 0 .. n - 1, i \in T
      PROVE  i + 1 \in T
  <2>1. i + 1 \in 1 .. n /\ i + 1 \in 0 .. n /\ (i + 1) - 1 = i
    BY <1>1
  <2>2. g[1 .. i + 1] = step[<<g[1 .. i], s[i + 1]>>]
    BY <1>2, <1>4, <2>1
  <2>3. <<g[1 .. i], s[i + 1]>> \in X \X E
    BY <1>1, <1>4, <2>1
  <2>4. g[1 .. i + 1] \in X
    BY <1>0, <2>2, <2>3
  <2>5. QED
    BY <2>1, <2>4
<1>5. \A i \in 0 .. n : i \in T
  <2> HIDE DEF T, n
  <2>1. QED
    BY <1>1, <1>3, <1>4, UpTo, Zenon
<1>6. AreValues(f, s, X, b, step)
  <2>1. f \in [0 .. n -> X]
    BY <1>5
  <2>2. f[0] = b
    <3>1. 0 \in 0 .. n /\ 1 .. 0 = {}
      BY <1>1
    <3>2. QED
      BY <3>1 DEF OnPositionsIn
  <2>3. ASSUME NEW i \in 1 .. n
        PROVE  f[i] = step[<<f[i - 1], s[i]>>]
    <3>1. i \in 0 .. n /\ i - 1 \in 0 .. n
      BY <1>1
    <3>2. f[i] = g[1 .. i] /\ f[i - 1] = g[1 .. i - 1] /\ g[1 .. i - 1] \in X
      BY <1>5, <3>1
    <3> HIDE DEF f
    <3>3. QED
      BY <1>2, <3>2
  <2> HIDE DEF f
  <2>4. QED
    BY <2>1, <2>2, <2>3 DEF AreValues
<1>7. f[n] = Folding(E, X, b, step)[s]
  <2>1. PICK v : v = f
    OBVIOUS
  <2> HIDE DEF f
  <2>2. AreValues(v, s, X, b, step)
    BY <1>6, <2>1
  <2>4. v[Len(s)] = Folding(E, X, b, step)[s]
    BY <2>2, FoldingValue
  <2>5. QED
    BY <2>1, <2>4
<1>8. f[n] = g[1 .. n]
  <2>1. n \in 0 .. n
    BY <1>1
  <2>2. QED
    BY <2>1
<1>9. QED
  BY <1>7, <1>8

\* The library's folds: a sum, and sequences that are joined.
LEMMA TotalIsFolding ==
    ASSUME NEW ns \in Seq(Int)
    PROVE  Total(ns) = Folding(Int, Int, 0, [p \in Int \X Int |-> p[1] + p[2]])[ns]
<1> DEFINE n == Len(ns)
           step == [p \in Int \X Int |-> p[1] + p[2]]
           IsIter(g) == g = [t \in SUBSET (1 .. n) |->
                               IF t = {} THEN 0 ELSE g[t \ {Max(t)}] + ns[Max(t)]]
           chosen == CHOOSE g : IsIter(g)
<1>1. CanFold(Int, Int, 0, step)
  BY DEF CanFold, Steps
<1>2. n \in Nat /\ DOMAIN ns = 1 .. n /\ \A i \in 1 .. n : ns[i] \in Int
  OBVIOUS
<1>3. Total(ns) = chosen[1 .. n]
  BY <1>2, Zenon DEF Total, FoldLeft, MapThenFoldSet
<1>4. ASSUME NEW t \in SUBSET (1 .. n), t # {}
      PROVE  Max(t) \in 1 .. n
  BY <1>2, <1>4, GreatestIs
<1>5. ASSUME NEW x \in Int, NEW i \in 1 .. n
      PROVE  step[<<x, ns[i]>>] = x + ns[i]
  BY <1>2
<1> HIDE DEF step
<1>6. \E g : IsIter(g)
  <2>1. PICK g : OnPositions(g, ns, Int, 0, step)
    BY <1>1, FoldOfPositions
  <2>2. \A t \in SUBSET (1 .. n) : t # {} => g[t] = g[t \ {Max(t)}] + ns[Max(t)]
    BY <1>5, <2>1 DEF OnPositions
  <2>3. IsIter(g)
    BY <2>1, <2>2 DEF OnPositions
  <2>4. QED
    BY <2>3
<1>7. IsIter(chosen)
  <2> HIDE DEF IsIter
  <2>1. QED
    BY <1>6
<1> HIDE DEF chosen
<1>8. chosen[{}] = 0
  BY <1>7
<1>9. ASSUME NEW t \in SUBSET (1 .. n), t # {}, chosen[t \ {Max(t)}] \in Int
      PROVE  chosen[t] = step[<<chosen[t \ {Max(t)}], ns[Max(t)]>>]
  BY <1>4, <1>5, <1>7, <1>9
<1>10. OnPositionsIn(chosen, ns, Int, 0, step)
  BY <1>8, <1>9 DEF OnPositionsIn
<1>11. chosen[1 .. n] = Folding(Int, Int, 0, step)[ns]
  BY <1>1, <1>10, FoldOfAll
<1>12. QED
  BY <1>3, <1>11 DEF step

LEMMA TotalIs ==
    /\ Total(<<>>) = 0
    /\ \A ns \in Seq(Int) : Total(ns) \in Int
    /\ \A ns \in Seq(Int), n \in Int : Total(Append(ns, n)) = Total(ns) + n
<1> DEFINE step == [p \in Int \X Int |-> p[1] + p[2]]
           F == Folding(Int, Int, 0, step)
<1>1. CanFold(Int, Int, 0, step)
  BY DEF CanFold, Steps
<1>2. IsFolding(F, Int, Int, 0, step)
  <2> HIDE DEF step
  <2>1. QED
    BY <1>1, FoldingIs
<1>3. \A ns \in Seq(Int) : Total(ns) = F[ns]
  BY TotalIsFolding
<1> HIDE DEF F
<1>4. <<>> \in Seq(Int) /\ \A ns \in Seq(Int), n \in Int : Append(ns, n) \in Seq(Int)
  OBVIOUS
<1>5. \A ns \in Seq(Int) : F[ns] \in Int
  BY <1>2 DEF IsFolding
<1>6. \A ns \in Seq(Int), n \in Int : F[Append(ns, n)] = F[ns] + n
  BY <1>2, <1>5 DEF IsFolding
<1>7. F[<<>>] = 0
  BY <1>2 DEF IsFolding
<1>8. QED
  BY <1>3, <1>4, <1>5, <1>6, <1>7

LEMMA FlattenIsFolding ==
    ASSUME NEW S, NEW ss \in Seq(Seq(S))
    PROVE  FlattenSeq(ss) = Folding(Seq(S), Seq(S), <<>>, [p \in Seq(S) \X Seq(S) |-> p[1] \o p[2]])[ss]
<1> DEFINE n == Len(ss)
           X == Seq(S)
           step == [p \in X \X X |-> p[1] \o p[2]]
           IsJoin(f) == f = [i \in 1 .. n |-> IF i = 1 THEN ss[i] ELSE f[i - 1] \o ss[i]]
           chosen == CHOOSE f : IsJoin(f)
           v == [i \in 0 .. n |-> IF i = 0 THEN <<>> ELSE chosen[i]]
<1>1. CanFold(X, X, <<>>, step)
  <2>1. <<>> \in X /\ \A x, y \in X : x \o y \in X
    OBVIOUS
  <2> HIDE DEF X
  <2>2. QED
    BY <2>1 DEF CanFold, Steps
<1>2. n \in Nat /\ \A i \in 1 .. n : ss[i] \in X
  OBVIOUS
<1>3. FlattenSeq(ss) = IF n = 0 THEN ss ELSE chosen[n]
  BY Zenon DEF FlattenSeq
<1>4. \A x, y \in X : step[<<x, y>>] = x \o y
  BY Zenon
<1> HIDE DEF step
<1>5. \E f : IsJoin(f)
  <2>1. PICK f : AreValues(f, ss, X, <<>>, step)
    BY <1>1, ValuesExist
  <2> DEFINE g == [i \in 1 .. n |-> f[i]]
  <2>2. ASSUME NEW i \in 1 .. n
        PROVE  g[i] = IF i = 1 THEN ss[i] ELSE g[i - 1] \o ss[i]
    <3>1. i - 1 \in 0 .. n /\ ss[i] \in X
      BY <1>2
    <3>2. f[i - 1] \in X /\ f[i] = step[<<f[i - 1], ss[i]>>]
      BY <2>1, <3>1 DEF AreValues
    <3>3. f[i] = f[i - 1] \o ss[i]
      BY <1>4, <3>1, <3>2
    <3>4. CASE i = 1
      <4>1. f[i - 1] = <<>>
        BY <2>1, <3>4 DEF AreValues
      <4>2. f[i] = ss[i]
        BY <3>1, <3>3, <4>1
      <4>3. QED
        BY <3>4, <4>2
    <3>5. CASE i # 1
      <4>1. i - 1 \in 1 .. n
        BY <1>2, <3>5
      <4>2. g[i - 1] = f[i - 1] /\ g[i] = f[i]
        BY <4>1
      <4>3. QED
        BY <3>3, <3>5, <4>2
    <3>6. QED
      BY <3>4, <3>5
  <2>3. IsJoin(g)
    <3>1. g = [i \in 1 .. n |-> g[i]]
      OBVIOUS
    <3> HIDE DEF g
    <3>2. QED
      BY <2>2, <3>1
  <2>4. QED
    BY <2>3
<1>6. IsJoin(chosen)
  <2> HIDE DEF IsJoin
  <2>1. QED
    BY <1>5
<1> HIDE DEF chosen
<1> DEFINE T == {i \in 0 .. n : v[i] \in X}
<1>7. ASSUME NEW i \in 1 .. n, v[i - 1] \in X
      PROVE  v[i] = step[<<v[i - 1], ss[i]>>] /\ v[i] \in X
  <2>1. i \in 0 .. n /\ i - 1 \in 0 .. n /\ ss[i] \in X /\ i # 0
    BY <1>2
  <2>2. v[i] = chosen[i] /\ chosen[i] = IF i = 1 THEN ss[i] ELSE chosen[i - 1] \o ss[i]
    BY <1>6, <2>1
  <2>3. v[i] = v[i - 1] \o ss[i]
    <3>1. CASE i = 1
      <4>1. v[i - 1] = <<>>
        BY <2>1, <3>1
      <4>2. <<>> \o ss[i] = ss[i]
        BY <2>1
      <4>3. QED
        BY <2>2, <3>1, <4>1, <4>2
    <3>2. CASE i # 1
      <4>1. v[i - 1] = chosen[i - 1]
        BY <2>1, <3>2
      <4>2. QED
        BY <2>2, <3>2, <4>1
    <3>3. QED
      BY <3>1, <3>2
  <2>4. v[i - 1] \o ss[i] \in X
    BY <1>7, <2>1
  <2> HIDE DEF v
  <2>5. QED
    BY <1>4, <1>7, <2>1, <2>3, <2>4
<1>8. 0 \in T
  BY <1>2
<1>9. ASSUME NEW i \in 0 .. n - 1, i \in T
      PROVE  i + 1 \in T
  <2>1. i + 1 \in 1 .. n /\ i + 1 \in 0 .. n /\ (i + 1) - 1 = i
    BY <1>2
  <2> HIDE DEF v
  <2>2. QED
    BY <1>7, <1>9, <2>1
<1>10. \A i \in 0 .. n : i \in T
  <2> HIDE DEF T, n
  <2>1. QED
    BY <1>2, <1>8, <1>9, UpTo, Zenon
<1>11. AreValues(v, ss, X, <<>>, step)
  <2>1. v \in [0 .. n -> X]
    BY <1>10
  <2>2. v[0] = <<>>
    BY <1>2
  <2>3. ASSUME NEW i \in 1 .. n
        PROVE  v[i] = step[<<v[i - 1], ss[i]>>]
    <3>1. i - 1 \in 0 .. n
      BY <1>2
    <3> HIDE DEF v
    <3>2. QED
      BY <1>7, <1>10, <3>1
  <2> HIDE DEF v
  <2>4. QED
    BY <2>1, <2>2, <2>3 DEF AreValues
<1>12. FlattenSeq(ss) = v[n]
  <2>1. CASE n = 0
    BY <1>3, <2>1
  <2>2. CASE n # 0
    BY <1>2, <1>3, <2>2
  <2>3. QED
    BY <2>1, <2>2
<1>13. PICK u : u = v
  OBVIOUS
<1> HIDE DEF v
<1>14. AreValues(u, ss, X, <<>>, step)
  BY <1>11, <1>13
<1>15. u[n] = Folding(X, X, <<>>, step)[ss]
  <2> HIDE DEF X
  <2>1. ss \in Seq(X)
    BY DEF X
  <2>2. QED
    BY <1>1, <1>14, <2>1, FoldingValue
<1>16. QED
  BY <1>12, <1>13, <1>15 DEF step

LEMMA FlattenIs ==
    ASSUME NEW S
    PROVE  /\ FlattenSeq(<<>>) = <<>>
           /\ \A ss \in Seq(Seq(S)) : FlattenSeq(ss) \in Seq(S)
           /\ \A ss \in Seq(Seq(S)), s \in Seq(S) :
                 FlattenSeq(Append(ss, s)) = FlattenSeq(ss) \o s
<1> DEFINE X == Seq(S)
           step == [p \in X \X X |-> p[1] \o p[2]]
           F == Folding(X, X, <<>>, step)
<1>1. CanFold(X, X, <<>>, step)
  <2>1. <<>> \in X /\ \A x, y \in X : x \o y \in X
    OBVIOUS
  <2> HIDE DEF X
  <2>2. QED
    BY <2>1 DEF CanFold, Steps
<1>2. IsFolding(F, X, X, <<>>, step)
  <2> HIDE DEF step, X
  <2>1. QED
    BY <1>1, FoldingIs
<1>3. \A ss \in Seq(X) : FlattenSeq(ss) = F[ss]
  BY FlattenIsFolding
<1> HIDE DEF F
<1>4. <<>> \in Seq(X) /\ \A ss \in Seq(X), s \in X : Append(ss, s) \in Seq(X)
  <2> HIDE DEF X
  <2>1. QED
    OBVIOUS
<1>5. \A ss \in Seq(X) : F[ss] \in X
  BY <1>2 DEF IsFolding
<1>6. \A x, y \in X : step[<<x, y>>] = x \o y
  BY Zenon
<1> HIDE DEF step
<1>7. \A ss \in Seq(X), s \in X : F[Append(ss, s)] = F[ss] \o s
  <2> HIDE DEF X
  <2>1. QED
    BY <1>2, <1>5, <1>6 DEF IsFolding
<1>8. F[<<>>] = <<>>
  BY <1>2 DEF IsFolding
<1>9. QED
  BY <1>3, <1>4, <1>5, <1>7, <1>8

\* What is joined is joined piece by piece.
LEMMA FlattenConcat ==
    ASSUME NEW S, NEW ss \in Seq(Seq(S))
    PROVE  \A tt \in Seq(Seq(S)) : FlattenSeq(ss \o tt) = FlattenSeq(ss) \o FlattenSeq(tt)
<1> DEFINE X == Seq(S)
           T == {tt \in Seq(X) : FlattenSeq(ss \o tt) = FlattenSeq(ss) \o FlattenSeq(tt)}
<1>1. FlattenSeq(ss) \in X
  BY FlattenIs
<1>2. <<>> \in T
  <2>1. ss \o <<>> = ss /\ FlattenSeq(ss) \o <<>> = FlattenSeq(ss) /\ <<>> \in Seq(X)
    BY <1>1
  <2>2. FlattenSeq(<<>>) = <<>>
    BY FlattenIs
  <2>3. QED
    BY <2>1, <2>2
<1>3. ASSUME NEW tt \in Seq(X), NEW t \in X, tt \in T
      PROVE  Append(tt, t) \in T
  <2>1. ss \in Seq(X)
    OBVIOUS
  <2>2. ss \o Append(tt, t) = Append(ss \o tt, t) /\ ss \o tt \in Seq(X) /\ Append(tt, t) \in Seq(X)
    <3> HIDE DEF X
    <3>1. QED
      BY <2>1
  <2>3. /\ FlattenSeq(Append(ss \o tt, t)) = FlattenSeq(ss \o tt) \o t
        /\ FlattenSeq(Append(tt, t)) = FlattenSeq(tt) \o t
        /\ FlattenSeq(tt) \in X
    BY <2>2, FlattenIs
  <2>4. FlattenSeq(ss \o tt) = FlattenSeq(ss) \o FlattenSeq(tt)
    BY <1>3
  <2>5. (FlattenSeq(ss) \o FlattenSeq(tt)) \o t = FlattenSeq(ss) \o (FlattenSeq(tt) \o t)
    BY <1>1, <2>3, ConcatAssociative
  <2>6. QED
    BY <2>2, <2>3, <2>4, <2>5
<1>4. \A tt \in Seq(X) : tt \in T
  <2> HIDE DEF T, X
  <2>1. QED
    BY <1>2, <1>3, SeqInduction
<1>5. QED
  BY <1>4

\* Elements that each give a sequence, those joined.
Joined(each, s) == FlattenSeq([i \in DOMAIN s |-> each[s[i]]])

LEMMA JoinedMore ==
    ASSUME NEW E, NEW S, NEW each \in [E -> Seq(S)], NEW s \in Seq(E), NEW e \in E
    PROVE  Joined(each, Append(s, e)) = Joined(each, s) \o each[e]
<1> DEFINE t == Append(s, e)
           ss == [i \in DOMAIN s |-> each[s[i]]]
           tt == [i \in DOMAIN t |-> each[t[i]]]
<1>1. /\ Len(s) \in Nat /\ t \in Seq(E) /\ Len(t) = Len(s) + 1
      /\ \A i \in 1 .. Len(s) : t[i] = s[i] /\ s[i] \in E
      /\ t[Len(s) + 1] = e /\ DOMAIN s = 1 .. Len(s) /\ DOMAIN t = 1 .. Len(s) + 1
  BY AppendProperties
<1> HIDE DEF t
<1>2. ss \in Seq(Seq(S)) /\ Len(ss) = Len(s)
  BY <1>1
<1>3. tt \in Seq(Seq(S)) /\ Len(tt) = Len(s) + 1
  <2>1. \A i \in 1 .. Len(s) + 1 : t[i] \in E
    BY <1>1
  <2>2. QED
    BY <1>1, <2>1
<1>4. each[e] \in Seq(S)
  OBVIOUS
<1>5. tt = Append(ss, each[e])
  <2> DEFINE uu == Append(ss, each[e])
  <2>1. /\ uu \in Seq(Seq(S)) /\ Len(uu) = Len(s) + 1
        /\ \A i \in 1 .. Len(s) : uu[i] = ss[i]
        /\ uu[Len(s) + 1] = each[e]
    BY <1>2, <1>4, AppendProperties
  <2>2. \A i \in 1 .. Len(s) : ss[i] = each[s[i]]
    BY <1>1
  <2>3. \A i \in 1 .. Len(s) + 1 : tt[i] = each[t[i]]
    BY <1>1
  <2> HIDE DEF uu, ss, tt
  <2>4. ASSUME NEW i \in 1 .. Len(s) + 1
        PROVE  uu[i] = tt[i]
    <3>1. CASE i = Len(s) + 1
      BY <1>1, <2>1, <2>3, <3>1
    <3>2. CASE i # Len(s) + 1
      <4>1. i \in 1 .. Len(s)
        BY <1>1, <3>2
      <4>2. QED
        BY <1>1, <2>1, <2>2, <2>3, <4>1
    <3>3. QED
      BY <3>1, <3>2
  <2>5. uu = tt
    <3>1. Len(uu) = Len(tt) /\ \A i \in 1 .. Len(uu) : uu[i] = tt[i]
      BY <1>3, <2>1, <2>4
    <3>2. QED
      BY <1>3, <2>1, <3>1, SeqEqual
  <2>6. QED
    BY <2>5 DEF uu
<1> HIDE DEF ss, tt
<1>6. FlattenSeq(tt) = FlattenSeq(ss) \o each[e]
  BY <1>2, <1>4, <1>5, FlattenIs
<1>7. QED
  BY <1>6 DEF ss, tt, t, Joined

LEMMA JoinedIs ==
    ASSUME NEW E, NEW S, NEW each \in [E -> Seq(S)]
    PROVE  /\ Joined(each, <<>>) = <<>>
           /\ \A s \in Seq(E) : Joined(each, s) \in Seq(S)
           /\ \A s \in Seq(E), e \in E : Joined(each, Append(s, e)) = Joined(each, s) \o each[e]
<1>1. Joined(each, <<>>) = <<>>
  <2>1. [i \in DOMAIN <<>> |-> each[<<>>[i]]] = <<>>
    OBVIOUS
  <2>2. QED
    BY <2>1, FlattenIs DEF Joined
<1>2. ASSUME NEW s \in Seq(E)
      PROVE  Joined(each, s) \in Seq(S)
  <2>1. Len(s) \in Nat /\ DOMAIN s = 1 .. Len(s) /\ \A i \in 1 .. Len(s) : s[i] \in E
    OBVIOUS
  <2>2. [i \in DOMAIN s |-> each[s[i]]] \in Seq(Seq(S))
    BY <2>1
  <2>3. QED
    BY <2>2, FlattenIs DEF Joined
<1>3. ASSUME NEW s \in Seq(E), NEW e \in E
      PROVE  Joined(each, Append(s, e)) = Joined(each, s) \o each[e]
  BY JoinedMore
<1>4. QED
  BY <1>1, <1>2, <1>3

LEMMA JoinedConcat ==
    ASSUME NEW E, NEW S, NEW each \in [E -> Seq(S)], NEW s \in Seq(E)
    PROVE  \A t \in Seq(E) : Joined(each, s \o t) = Joined(each, s) \o Joined(each, t)
<1> DEFINE T == {t \in Seq(E) : Joined(each, s \o t) = Joined(each, s) \o Joined(each, t)}
<1>1. Joined(each, s) \in Seq(S)
  BY JoinedIs
<1>2. <<>> \in T
  <2>1. <<>> \in Seq(E) /\ s \o <<>> = s /\ Joined(each, s) \o <<>> = Joined(each, s)
    BY <1>1
  <2>2. Joined(each, <<>>) = <<>>
    BY JoinedIs
  <2>3. QED
    BY <2>1, <2>2
<1>3. ASSUME NEW t \in Seq(E), NEW e \in E, t \in T
      PROVE  Append(t, e) \in T
  <2>1. /\ s \o t \in Seq(E) /\ Append(t, e) \in Seq(E)
        /\ s \o Append(t, e) = Append(s \o t, e)
    OBVIOUS
  <2>2. /\ Joined(each, Append(s \o t, e)) = Joined(each, s \o t) \o each[e]
        /\ Joined(each, Append(t, e)) = Joined(each, t) \o each[e]
        /\ Joined(each, t) \in Seq(S)
    <3>1. \A u \in Seq(E) : Joined(each, u) \in Seq(S)
      BY JoinedIs
    <3>2. \A u \in Seq(E), x \in E : Joined(each, Append(u, x)) = Joined(each, u) \o each[x]
      BY JoinedIs
    <3> HIDE DEF T
    <3>3. QED
      BY <2>1, <3>1, <3>2
  <2>3. Joined(each, s \o t) = Joined(each, s) \o Joined(each, t)
    BY <1>3
  <2>4. (Joined(each, s) \o Joined(each, t)) \o each[e] =
           Joined(each, s) \o (Joined(each, t) \o each[e])
    <3>1. PICK x, y, z \in Seq(S) : x = Joined(each, s) /\ y = Joined(each, t) /\ z = each[e]
      BY <1>1, <2>2
    <3>2. (x \o y) \o z = x \o (y \o z)
      OBVIOUS
    <3>3. QED
      BY <3>1, <3>2
  <2>5. Joined(each, s \o Append(t, e)) = Joined(each, s) \o Joined(each, Append(t, e))
    BY <2>1, <2>2, <2>3, <2>4
  <2>6. QED
    BY <2>1, <2>5
<1> HIDE DEF T
<1>4. \A t \in Seq(E) : t \in T
  BY <1>2, <1>3, SeqInduction
<1>5. QED
  BY <1>4 DEF T

-----------------------------------------------------------------------------
(* Lines.                                                                  *)

Lines == [kind : {"heading", "blank", "text"}, chars : Nat]

\* What LineRuns folds.
RunsAlso(rows, line, kind) ==
    IF rows = <<>> \/ line.kind = kind THEN Append(rows, <<line>>)
    ELSE [rows EXCEPT ![Len(rows)] = Append(@, line)]

LEMMA RunsSteps ==
    ASSUME NEW kind
    PROVE  /\ <<>> \in Seq(Seq(Lines))
           /\ [p \in Seq(Seq(Lines)) \X Lines |-> RunsAlso(p[1], p[2], kind)]
                 \in [Seq(Seq(Lines)) \X Lines -> Seq(Seq(Lines))]
<1>1. ASSUME NEW rows \in Seq(Seq(Lines)), NEW line \in Lines
      PROVE  RunsAlso(rows, line, kind) \in Seq(Seq(Lines))
  <2>1. <<line>> \in Seq(Lines)
    OBVIOUS
  <2>2. CASE rows = <<>> \/ line.kind = kind
    BY <2>1, <2>2 DEF RunsAlso
  <2>3. CASE ~(rows = <<>> \/ line.kind = kind)
    <3>1. Len(rows) \in 1 .. Len(rows)
      BY <2>3
    <3>2. Append(rows[Len(rows)], line) \in Seq(Lines)
      BY <3>1
    <3>3. [rows EXCEPT ![Len(rows)] = Append(rows[Len(rows)], line)] \in Seq(Seq(Lines))
      BY <3>1, <3>2, ExceptSeq
    <3>4. QED
      BY <2>3, <3>3 DEF RunsAlso
  <2>4. QED
    BY <2>2, <2>3
<1>2. QED
  BY <1>1

LEMMA RunsIsFolding ==
    ASSUME NEW kind, NEW ls \in Seq(Lines)
    PROVE  LineRuns(ls, kind) =
              Folding(Lines, Seq(Seq(Lines)), <<>>, [p \in Seq(Seq(Lines)) \X Lines |-> RunsAlso(p[1], p[2], kind)])[ls]
<1> DEFINE n == Len(ls)
           step == [p \in Seq(Seq(Lines)) \X Lines |-> RunsAlso(p[1], p[2], kind)]
           IsIter(g) == g = [t \in SUBSET (1 .. n) |->
                               IF t = {} THEN <<>>
                               ELSE RunsAlso(g[t \ {Max(t)}], ls[Max(t)], kind)]
           chosen == CHOOSE g : IsIter(g)
<1>1. CanFold(Lines, Seq(Seq(Lines)), <<>>, step)
  BY RunsSteps DEF CanFold, Steps
<1>2. n \in Nat /\ DOMAIN ls = 1 .. n /\ \A i \in 1 .. n : ls[i] \in Lines
  OBVIOUS
<1>3. LineRuns(ls, kind) = chosen[1 .. n]
  BY <1>2, Zenon DEF LineRuns, RunsAlso, FoldLeft, MapThenFoldSet
<1>4. ASSUME NEW t \in SUBSET (1 .. n), t # {}
      PROVE  Max(t) \in 1 .. n
  BY <1>2, <1>4, GreatestIs
<1>5. ASSUME NEW x \in Seq(Seq(Lines)), NEW i \in 1 .. n
      PROVE  step[<<x, ls[i]>>] = RunsAlso(x, ls[i], kind)
  BY <1>2, Zenon
<1> HIDE DEF step
<1>6. \E g : IsIter(g)
  <2>1. PICK g : OnPositions(g, ls, Seq(Seq(Lines)), <<>>, step)
    BY <1>1, FoldOfPositions
  <2>2. \A t \in SUBSET (1 .. n) :
           t # {} => g[t] = RunsAlso(g[t \ {Max(t)}], ls[Max(t)], kind)
    BY <1>5, <2>1, Zenon DEF OnPositions
  <2>3. IsIter(g)
    BY <2>1, <2>2 DEF OnPositions
  <2>4. QED
    BY <2>3
<1>7. IsIter(chosen)
  <2> HIDE DEF IsIter
  <2>1. QED
    BY <1>6
<1> HIDE DEF chosen
<1>8. chosen[{}] = <<>>
  BY <1>7
<1>9. ASSUME NEW t \in SUBSET (1 .. n), t # {}, chosen[t \ {Max(t)}] \in Seq(Seq(Lines))
      PROVE  chosen[t] = step[<<chosen[t \ {Max(t)}], ls[Max(t)]>>]
  <2>1. chosen[t] = RunsAlso(chosen[t \ {Max(t)}], ls[Max(t)], kind)
    BY <1>7, <1>9
  <2>2. QED
    BY <1>4, <1>5, <1>9, <2>1, Zenon
<1>10. OnPositionsIn(chosen, ls, Seq(Seq(Lines)), <<>>, step)
  BY <1>8, <1>9 DEF OnPositionsIn
<1>11. chosen[1 .. n] = Folding(Lines, Seq(Seq(Lines)), <<>>, step)[ls]
  BY <1>1, <1>10, FoldOfAll
<1>12. QED
  BY <1>3, <1>11 DEF step

LEMMA LineRunsIs ==
    ASSUME NEW kind
    PROVE  /\ LineRuns(<<>>, kind) = <<>>
           /\ \A ls \in Seq(Lines) : LineRuns(ls, kind) \in Seq(Seq(Lines))
           /\ \A ls \in Seq(Lines), line \in Lines :
                 LineRuns(Append(ls, line), kind) = RunsAlso(LineRuns(ls, kind), line, kind)
<1> DEFINE X == Seq(Seq(Lines))
           step == [p \in X \X Lines |-> RunsAlso(p[1], p[2], kind)]
           F == Folding(Lines, X, <<>>, step)
<1>1. CanFold(Lines, X, <<>>, step)
  BY RunsSteps DEF CanFold, Steps
<1>2. IsFolding(F, Lines, X, <<>>, step)
  <2> HIDE DEF step, X
  <2>1. QED
    BY <1>1, FoldingIs
<1>3. \A ls \in Seq(Lines) : LineRuns(ls, kind) = F[ls]
  BY RunsIsFolding
<1> HIDE DEF F
<1>4. <<>> \in Seq(Lines) /\ \A ls \in Seq(Lines), line \in Lines : Append(ls, line) \in Seq(Lines)
  OBVIOUS
<1>5. \A ls \in Seq(Lines) : F[ls] \in X
  BY <1>2 DEF IsFolding
<1>6. \A x \in X, line \in Lines : step[<<x, line>>] = RunsAlso(x, line, kind)
  BY Zenon
<1> HIDE DEF step, X
<1>7. \A ls \in Seq(Lines), line \in Lines : F[Append(ls, line)] = RunsAlso(F[ls], line, kind)
  BY <1>2, <1>5, <1>6 DEF IsFolding
<1>8. F[<<>>] = <<>>
  BY <1>2 DEF IsFolding
<1>9. QED
  BY <1>3, <1>4, <1>5, <1>7, <1>8 DEF X

\* The runs of a text are the text.
LEMMA RunsAreText ==
    ASSUME NEW kind
    PROVE  \A ls \in Seq(Lines) : FlattenSeq(LineRuns(ls, kind)) = ls
<1> DEFINE T == {ls \in Seq(Lines) : FlattenSeq(LineRuns(ls, kind)) = ls}
<1>1. <<>> \in T
  BY LineRunsIs, FlattenIs
<1>2. ASSUME NEW ls \in Seq(Lines), NEW line \in Lines, ls \in T
      PROVE  Append(ls, line) \in T
  <2> DEFINE rows == LineRuns(ls, kind)
  <2>1. /\ rows \in Seq(Seq(Lines)) /\ FlattenSeq(rows) = ls
        /\ LineRuns(Append(ls, line), kind) = RunsAlso(rows, line, kind)
    BY <1>2, LineRunsIs
  <2> HIDE DEF rows
  <2>2. /\ <<line>> \in Seq(Lines) /\ ls \o <<line>> = Append(ls, line)
        /\ Append(ls, line) \in Seq(Lines)
    OBVIOUS
  <2>3. CASE rows = <<>> \/ line.kind = kind
    <3>1. RunsAlso(rows, line, kind) = Append(rows, <<line>>)
      BY <2>3 DEF RunsAlso
    <3>2. FlattenSeq(Append(rows, <<line>>)) = FlattenSeq(rows) \o <<line>>
      BY <2>1, <2>2, FlattenIs
    <3>3. FlattenSeq(LineRuns(Append(ls, line), kind)) = Append(ls, line)
      BY <2>1, <2>2, <3>1, <3>2
    <3>4. QED
      BY <2>2, <3>3
  <2>4. CASE ~(rows = <<>> \/ line.kind = kind)
    <3>1. PICK front \in Seq(Seq(Lines)), last \in Seq(Lines) : rows = Append(front, last)
      BY <2>1, <2>4, SequenceEmptyOrAppend
    <3>2. RunsAlso(rows, line, kind) = Append(front, Append(last, line))
      <4> DEFINE more == [rows EXCEPT ![Len(rows)] = Append(rows[Len(rows)], line)]
                 also == Append(front, Append(last, line))
      <4>1. RunsAlso(rows, line, kind) = more
        BY <2>4 DEF RunsAlso
      <4>2. /\ Len(rows) = Len(front) + 1 /\ rows[Len(rows)] = last /\ Len(front) \in Nat
            /\ \A i \in 1 .. Len(front) : rows[i] = front[i]
        BY <3>1, AppendProperties
      <4>3. Append(last, line) \in Seq(Lines) /\ Len(rows) \in 1 .. Len(rows)
        BY <4>2
      <4>4. /\ more \in Seq(Seq(Lines)) /\ Len(more) = Len(rows)
            /\ \A i \in 1 .. Len(rows) :
                  more[i] = IF i = Len(rows) THEN Append(last, line) ELSE rows[i]
        BY <2>1, <4>2, <4>3, ExceptSeq
      <4>5. /\ also \in Seq(Seq(Lines)) /\ Len(also) = Len(front) + 1
            /\ also[Len(front) + 1] = Append(last, line)
            /\ \A i \in 1 .. Len(front) : also[i] = front[i]
        BY <4>3, AppendProperties
      <4> HIDE DEF more, also
      <4>6. ASSUME NEW i \in 1 .. Len(more)
            PROVE  more[i] = also[i]
        <5>1. CASE i = Len(rows)
          BY <4>2, <4>4, <4>5, <5>1
        <5>2. CASE i # Len(rows)
          <6>1. i \in 1 .. Len(front)
            BY <4>2, <4>4, <5>2
          <6>2. QED
            BY <4>2, <4>4, <4>5, <5>2, <6>1
        <5>3. QED
          BY <5>1, <5>2
      <4>7. more = also
        <5>1. Len(more) = Len(also)
          BY <4>2, <4>4, <4>5
        <5>2. QED
          BY <4>4, <4>5, <4>6, <5>1, SeqEqual
      <4>8. QED
        BY <4>1, <4>7 DEF also
    <3>3. Append(last, line) \in Seq(Lines)
      OBVIOUS
    <3>4. /\ FlattenSeq(Append(front, Append(last, line))) = FlattenSeq(front) \o Append(last, line)
          /\ FlattenSeq(rows) = FlattenSeq(front) \o last
          /\ FlattenSeq(front) \in Seq(Lines)
      BY <3>1, <3>3, FlattenIs
    <3>5. FlattenSeq(front) \o Append(last, line) = Append(FlattenSeq(front) \o last, line)
      BY <3>4
    <3>6. FlattenSeq(LineRuns(Append(ls, line), kind)) = Append(ls, line)
      BY <2>1, <3>2, <3>4, <3>5
    <3>7. QED
      BY <2>2, <3>6
  <2>5. QED
    BY <2>3, <2>4
<1> HIDE DEF T
<1>3. \A ls \in Seq(Lines) : ls \in T
  BY <1>1, <1>2, SeqInduction
<1>4. QED
  BY <1>3 DEF T

\* What a line is of the lines that are not blank.
WordOf == [line \in Lines |-> IF Blank(line) THEN <<>> ELSE <<line>>]

LEMMA WordsAre ==
    /\ Words(<<>>) = <<>>
    /\ \A ls \in Seq(Lines) : Words(ls) \in Seq(Lines)
    /\ \A ls \in Seq(Lines), line \in Lines : Words(Append(ls, line)) = Words(ls) \o WordOf[line]
<1>1. WordOf \in [Lines -> Seq(Lines)]
  <2>1. \A line \in Lines : <<line>> \in Seq(Lines) /\ <<>> \in Seq(Lines)
    OBVIOUS
  <2>2. QED
    BY <2>1 DEF WordOf
<1>2. ASSUME NEW ls \in Seq(Lines)
      PROVE  Words(ls) = Joined(WordOf, ls)
  <2>1. \A i \in DOMAIN ls : ls[i] \in Lines
    OBVIOUS
  <2>2. [i \in DOMAIN ls |-> IF Blank(ls[i]) THEN <<>> ELSE <<ls[i]>>] =
           [i \in DOMAIN ls |-> WordOf[ls[i]]]
    BY <2>1 DEF WordOf
  <2>3. QED
    BY <2>2 DEF Words, Joined
<1>3. Words(<<>>) = <<>>
  <2>1. <<>> \in Seq(Lines)
    OBVIOUS
  <2>2. QED
    BY <1>1, <1>2, <2>1, JoinedIs
<1>4. ASSUME NEW ls \in Seq(Lines)
      PROVE  Words(ls) \in Seq(Lines)
  BY <1>1, <1>2, JoinedIs
<1>5. ASSUME NEW ls \in Seq(Lines), NEW line \in Lines
      PROVE  Words(Append(ls, line)) = Words(ls) \o WordOf[line]
  <2>1. Append(ls, line) \in Seq(Lines)
    OBVIOUS
  <2>2. Joined(WordOf, Append(ls, line)) = Joined(WordOf, ls) \o WordOf[line]
    BY <1>1, JoinedIs
  <2>3. QED
    BY <1>2, <2>1, <2>2
<1>6. QED
  BY <1>3, <1>4, <1>5

LEMMA WordsOfOne ==
    ASSUME NEW line \in Lines
    PROVE  WordOf[line] \in Seq(Lines) /\ Words(WordOf[line]) = WordOf[line]
<1>1. <<>> \in Seq(Lines) /\ <<line>> \in Seq(Lines) /\ Append(<<>>, line) = <<line>>
  OBVIOUS
<1>2. WordOf[line] = IF Blank(line) THEN <<>> ELSE <<line>>
  BY DEF WordOf
<1>3. CASE Blank(line)
  BY <1>1, <1>2, <1>3, WordsAre
<1>4. CASE ~Blank(line)
  <2>1. Words(<<line>>) = Words(<<>>) \o WordOf[line]
    BY <1>1, WordsAre
  <2>2. <<>> \o <<line>> = <<line>>
    OBVIOUS
  <2>3. QED
    BY <1>1, <1>2, <1>4, <2>1, <2>2, WordsAre
<1>5. QED
  BY <1>3, <1>4

\* Where a text is cut in three.
LEMMA CutPoints ==
    ASSUME NEW n \in Nat, NEW f \in 1 .. n, NEW l \in 1 .. n, f <= l
    PROVE  /\ 1 \in 1 .. n + 1 /\ f - 1 \in 1 - 1 .. n /\ f - 1 + 1 - 1 = f - 1
           /\ f \in 1 .. n + 1 /\ l \in f - 1 .. n
           /\ l + 1 \in 1 .. n + 1 /\ n \in l + 1 - 1 .. n
           /\ n + 1 - (l + 1) = n - l /\ l + 1 - 1 = l
OBVIOUS

LEMMA WordsConcat ==
    ASSUME NEW ls \in Seq(Lines)
    PROVE  \A ms \in Seq(Lines) : Words(ls \o ms) = Words(ls) \o Words(ms)
<1> DEFINE T == {ms \in Seq(Lines) : Words(ls \o ms) = Words(ls) \o Words(ms)}
<1>1. Words(ls) \in Seq(Lines)
  BY WordsAre
<1>2. <<>> \in T
  <2>1. <<>> \in Seq(Lines) /\ ls \o <<>> = ls /\ Words(ls) \o <<>> = Words(ls)
    BY <1>1
  <2>2. QED
    BY <2>1, WordsAre
<1>3. ASSUME NEW ms \in Seq(Lines), NEW line \in Lines, ms \in T
      PROVE  Append(ms, line) \in T
  <2>1. /\ ls \o ms \in Seq(Lines) /\ Append(ms, line) \in Seq(Lines)
        /\ ls \o Append(ms, line) = Append(ls \o ms, line)
    OBVIOUS
  <2>2. /\ Words(Append(ls \o ms, line)) = Words(ls \o ms) \o WordOf[line]
        /\ Words(Append(ms, line)) = Words(ms) \o WordOf[line]
        /\ Words(ms) \in Seq(Lines)
    BY <2>1, WordsAre
  <2>3. Words(ls \o ms) = Words(ls) \o Words(ms)
    BY <1>3
  <2>4. (Words(ls) \o Words(ms)) \o WordOf[line] = Words(ls) \o (Words(ms) \o WordOf[line])
    <3>1. WordOf[line] \in Seq(Lines)
      BY WordsOfOne
    <3>2. PICK x, y, z \in Seq(Lines) : x = Words(ls) /\ y = Words(ms) /\ z = WordOf[line]
      BY <1>1, <2>2, <3>1
    <3>3. (x \o y) \o z = x \o (y \o z)
      OBVIOUS
    <3>4. QED
      BY <3>2, <3>3
  <2>5. Words(ls \o Append(ms, line)) = Words(ls) \o Words(Append(ms, line))
    BY <2>1, <2>2, <2>3, <2>4
  <2>6. QED
    BY <2>1, <2>5
<1> HIDE DEF T
<1>4. \A ms \in Seq(Lines) : ms \in T
  BY <1>2, <1>3, SeqInduction
<1>5. QED
  BY <1>4 DEF T

LEMMA WordsTwice == \A ls \in Seq(Lines) : Words(Words(ls)) = Words(ls)
<1> DEFINE T == {ls \in Seq(Lines) : Words(Words(ls)) = Words(ls)}
<1>1. <<>> \in T
  BY WordsAre
<1>2. ASSUME NEW ls \in Seq(Lines), NEW line \in Lines, ls \in T
      PROVE  Append(ls, line) \in T
  <2>1. Append(ls, line) \in Seq(Lines) /\ Words(Words(ls)) = Words(ls)
    BY <1>2
  <2>2. Words(Append(ls, line)) = Words(ls) \o WordOf[line] /\ Words(ls) \in Seq(Lines)
    BY WordsAre
  <2>3. Words(Words(ls) \o WordOf[line]) = Words(Words(ls)) \o Words(WordOf[line])
    BY <2>2, WordsOfOne, WordsConcat
  <2>4. Words(Words(Append(ls, line))) = Words(Append(ls, line))
    BY <2>1, <2>2, <2>3, WordsOfOne
  <2>5. QED
    BY <2>1, <2>4
<1> HIDE DEF T
<1>3. \A ls \in Seq(Lines) : ls \in T
  BY <1>1, <1>2, SeqInduction
<1>4. QED
  BY <1>3 DEF T

LEMMA NoWords ==
    \A ls \in Seq(Lines) : (\A i \in 1 .. Len(ls) : Blank(ls[i])) => Words(ls) = <<>>
<1> DEFINE T == {ls \in Seq(Lines) : (\A i \in 1 .. Len(ls) : Blank(ls[i])) => Words(ls) = <<>>}
<1>1. <<>> \in T
  BY WordsAre
<1>2. ASSUME NEW ls \in Seq(Lines), NEW line \in Lines, ls \in T
      PROVE  Append(ls, line) \in T
  <2> DEFINE t == Append(ls, line)
  <2>1. /\ t \in Seq(Lines) /\ Len(t) = Len(ls) + 1 /\ Len(ls) \in Nat
        /\ t[Len(ls) + 1] = line /\ \A i \in 1 .. Len(ls) : t[i] = ls[i]
    BY AppendProperties
  <2>2. Words(t) = Words(ls) \o WordOf[line]
    BY WordsAre
  <2> HIDE DEF t
  <2>3. ASSUME \A i \in 1 .. Len(t) : Blank(t[i])
        PROVE  Words(t) = <<>>
    <3>1. Len(ls) + 1 \in 1 .. Len(t) /\ \A i \in 1 .. Len(ls) : i \in 1 .. Len(t)
      BY <2>1
    <3>2. Blank(line) /\ \A i \in 1 .. Len(ls) : Blank(ls[i])
      BY <2>1, <2>3, <3>1
    <3>3. Words(ls) = <<>>
      BY <1>2, <3>2
    <3>4. WordOf[line] = <<>>
      BY <3>2 DEF WordOf
    <3>5. QED
      BY <2>2, <3>3, <3>4
  <2>4. t \in T
    BY <2>1, <2>3
  <2>5. QED
    BY <2>4 DEF t
<1> HIDE DEF T
<1>3. \A ls \in Seq(Lines) : ls \in T
  BY <1>1, <1>2, SeqInduction
<1>4. QED
  BY <1>3 DEF T

LEMMA PartIs ==
    ASSUME NEW ls \in Seq(Lines), NEW k \in 1 .. Len(ls) + 1, NEW m \in k - 1 .. Len(ls)
    PROVE  /\ SubSeq(ls, k, m) \in Seq(Lines) /\ Len(SubSeq(ls, k, m)) = m + 1 - k
           /\ \A i \in 1 .. m + 1 - k : SubSeq(ls, k, m)[i] = ls[k - 1 + i]
<1>1. /\ Len(ls) \in Nat /\ k \in Int /\ m \in Int /\ m - k + 1 = m + 1 - k
      /\ \A i \in k .. m : ls[i] \in Lines
  OBVIOUS
<1> DEFINE part == SubSeq(ls, k, m)
<1>2. /\ part \in Seq(Lines) /\ Len(part) = IF k <= m THEN m - k + 1 ELSE 0
      /\ \A i \in 1 .. m - k + 1 : part[i] = ls[k + i - 1]
  BY <1>1, SubSeqProperties
<1> HIDE DEF part
<1>3. Len(part) = m + 1 - k /\ \A i \in 1 .. m + 1 - k : part[i] = ls[k - 1 + i]
  <2>1. Len(part) = m + 1 - k
    BY <1>1, <1>2
  <2>2. ASSUME NEW i \in 1 .. m + 1 - k
        PROVE  part[i] = ls[k - 1 + i]
    <3>1. k + i - 1 = k - 1 + i /\ i \in 1 .. m - k + 1
      BY <1>1
    <3>2. part[i] = ls[k + i - 1]
      BY <1>2, <3>1
    <3>3. QED
      BY <3>1, <3>2
  <2>3. QED
    BY <2>1, <2>2
<1>4. QED
  BY <1>2, <1>3 DEF part

LEMMA PartsJoin ==
    ASSUME NEW ls \in Seq(Lines), NEW k \in 1 .. Len(ls) + 1, NEW l \in k - 1 .. Len(ls),
           NEW m \in l .. Len(ls)
    PROVE  SubSeq(ls, k, l) \o SubSeq(ls, l + 1, m) = SubSeq(ls, k, m)
BY ConcatAdjacentSubSeq, Zenon

\* Nothing but blank lines is stripped.
LEMMA StripIs ==
    ASSUME NEW ls \in Seq(Lines)
    PROVE  Strip(ls) \in Seq(Lines) /\ Words(Strip(ls)) = Words(ls)
<1> DEFINE full == {i \in DOMAIN ls : ~Blank(ls[i])}
           first == CHOOSE i \in full : \A j \in full : i <= j
           last == CHOOSE i \in full : \A j \in full : i >= j
           n == Len(ls)
<1>1. n \in Nat /\ DOMAIN ls = 1 .. n /\ \A i \in 1 .. n : ls[i] \in Lines
  OBVIOUS
<1>2. CASE full = {}
  <2>1. Strip(ls) = <<>>
    BY <1>2 DEF Strip
  <2>2. Words(ls) = <<>>
    <3>1. \A i \in 1 .. n : Blank(ls[i])
      BY <1>1, <1>2
    <3>2. QED
      BY <3>1, NoWords
  <2>3. QED
    BY <2>1, <2>2, WordsAre
<1>3. CASE full # {}
  <2>1. Strip(ls) = SubSeq(ls, first, last)
    BY <1>3 DEF Strip
  <2>2. full \in SUBSET (1 .. n) /\ full \subseteq Nat
    BY <1>1
  <2>3. first \in full /\ \A j \in full : first <= j
    <3>1. \E i \in full : \A j \in full : i <= j
      BY <1>3, <2>2, LeastNat
    <3> HIDE DEF full
    <3>2. QED
      BY <3>1, Zenon
  <2>4. last \in full /\ \A j \in full : last >= j
    <3>1. Max(full) \in full /\ \A j \in full : Max(full) >= j
      BY <1>1, <1>3, <2>2, GreatestIs
    <3>2. \E i \in full : \A j \in full : i >= j
      BY <3>1
    <3> HIDE DEF full
    <3>3. QED
      BY <3>2, Zenon
  <2>5. ASSUME NEW i \in 1 .. n, i < first \/ i > last
        PROVE  Blank(ls[i])
    <3> HIDE DEF first, last
    <3>1. i \notin full
      BY <1>1, <2>2, <2>3, <2>4, <2>5
    <3>2. QED
      BY <1>1, <3>1
  <2> HIDE DEF first, last
  <2>6. first \in 1 .. n /\ last \in 1 .. n /\ first <= last
    BY <2>2, <2>3, <2>4
  <2> DEFINE a == SubSeq(ls, 1, first - 1)
             b == SubSeq(ls, first, last)
             c == SubSeq(ls, last + 1, n)
  <2>7. /\ a \in Seq(Lines) /\ Len(a) = first - 1 /\ \A i \in 1 .. first - 1 : a[i] = ls[i]
        /\ b \in Seq(Lines)
        /\ c \in Seq(Lines) /\ Len(c) = n - last /\ \A i \in 1 .. n - last : c[i] = ls[last + i]
    <3>1. /\ 1 \in 1 .. Len(ls) + 1 /\ first - 1 \in 1 - 1 .. Len(ls) /\ first - 1 + 1 - 1 = first - 1
          /\ first \in 1 .. Len(ls) + 1 /\ last \in first - 1 .. Len(ls)
          /\ last + 1 \in 1 .. Len(ls) + 1 /\ n \in last + 1 - 1 .. Len(ls)
          /\ n + 1 - (last + 1) = n - last /\ last + 1 - 1 = last
      BY <1>1, <2>6, CutPoints, ZenonT(40)
    <3>2. a \in Seq(Lines) /\ Len(a) = first - 1 /\ \A i \in 1 .. first - 1 : a[i] = ls[i]
      <4>1. /\ a \in Seq(Lines) /\ Len(a) = first - 1 + 1 - 1
            /\ \A i \in 1 .. first - 1 + 1 - 1 : a[i] = ls[1 - 1 + i]
        BY <3>1, PartIs
      <4>2. \A i \in 1 .. first - 1 : 1 - 1 + i = i
        BY <2>6
      <4> HIDE DEF a
      <4>3. QED
        BY <3>1, <4>1, <4>2
    <3>3. b \in Seq(Lines)
      BY <3>1, PartIs
    <3>4. c \in Seq(Lines) /\ Len(c) = n - last /\ \A i \in 1 .. n - last : c[i] = ls[last + i]
      <4>1. /\ c \in Seq(Lines) /\ Len(c) = n + 1 - (last + 1)
            /\ \A i \in 1 .. n + 1 - (last + 1) : c[i] = ls[last + 1 - 1 + i]
        BY <3>1, PartIs
      <4> HIDE DEF c
      <4>2. QED
        BY <3>1, <4>1
    <3>5. QED
      BY <3>2, <3>3, <3>4
  <2>8. ls = (a \o b) \o c
    <3>1. a \o b = SubSeq(ls, 1, last)
      <4>1. /\ 1 \in 1 .. Len(ls) + 1 /\ first - 1 \in 1 - 1 .. Len(ls)
            /\ last \in first - 1 .. Len(ls) /\ (first - 1) + 1 = first
        BY <1>1, <2>6
      <4>2. SubSeq(ls, 1, first - 1) \o SubSeq(ls, (first - 1) + 1, last) = SubSeq(ls, 1, last)
        BY <4>1, PartsJoin
      <4>3. QED
        BY <4>1, <4>2
    <3>2. SubSeq(ls, 1, last) \o c = SubSeq(ls, 1, n)
      <4>1. 1 \in 1 .. Len(ls) + 1 /\ last \in 1 - 1 .. Len(ls) /\ n \in last .. Len(ls)
        BY <1>1, <2>6
      <4>2. QED
        BY <4>1, PartsJoin
    <3>3. SubSeq(ls, 1, n) = ls
      BY SubSeqFull
    <3>4. QED
      BY <3>1, <3>2, <3>3
  <2>9. Words(a) = <<>> /\ Words(c) = <<>>
    <3>1. \A i \in 1 .. Len(a) : Blank(a[i])
      <4>1. SUFFICES ASSUME NEW i \in 1 .. first - 1
                     PROVE  Blank(ls[i])
        BY <2>7
      <4>2. i \in 1 .. n /\ i < first
        BY <1>1, <2>6
      <4>3. QED
        BY <2>5, <4>2
    <3>2. \A i \in 1 .. Len(c) : Blank(c[i])
      <4>1. SUFFICES ASSUME NEW i \in 1 .. n - last
                     PROVE  Blank(ls[last + i])
        BY <2>7
      <4>2. last + i \in 1 .. n /\ last + i > last
        BY <1>1, <2>6
      <4>3. QED
        BY <2>5, <4>2
    <3>3. QED
      BY <2>7, <3>1, <3>2, NoWords
  <2> HIDE DEF a, b, c
  <2>10. Words((a \o b) \o c) = Words(b)
    <3>1. a \o b \in Seq(Lines)
      BY <2>7
    <3>2. Words((a \o b) \o c) = Words(a \o b) \o Words(c) /\ Words(a \o b) = Words(a) \o Words(b)
      BY <2>7, <3>1, WordsConcat
    <3>3. Words(b) \in Seq(Lines)
      BY <2>7, WordsAre
    <3>4. (<<>> \o Words(b)) \o <<>> = Words(b)
      BY <3>3
    <3>5. QED
      BY <2>9, <3>2, <3>4
  <2>11. QED
    BY <2>1, <2>7, <2>8, <2>10 DEF b
<1>4. QED
  BY <1>2, <1>3

\* The words of a text in parts are those of its parts, stripped or not.
LEMMA WordsOfParts ==
    \A ss \in Seq(Seq(Lines)) :
       LET strips == [i \in DOMAIN ss |-> Strip(ss[i])]
       IN /\ strips \in Seq(Seq(Lines))
          /\ Words(FlattenSeq(strips)) = Words(FlattenSeq(ss))
<1> DEFINE stripOf == [s \in Seq(Lines) |-> <<Strip(s)>>]
           strips(ss) == [i \in DOMAIN ss |-> Strip(ss[i])]
           OK(ss) == /\ strips(ss) \in Seq(Seq(Lines))
                     /\ Words(FlattenSeq(strips(ss))) = Words(FlattenSeq(ss))
           T == {ss \in Seq(Seq(Lines)) : OK(ss)}
<1>1. <<>> \in T
  <2>1. strips(<<>>) = <<>> /\ <<>> \in Seq(Seq(Lines))
    OBVIOUS
  <2>2. QED
    BY <2>1
<1>2. ASSUME NEW ss \in Seq(Seq(Lines)), NEW s \in Seq(Lines), ss \in T
      PROVE  Append(ss, s) \in T
  <2> DEFINE tt == Append(ss, s)
  <2>1. /\ tt \in Seq(Seq(Lines)) /\ Len(tt) = Len(ss) + 1 /\ Len(ss) \in Nat
        /\ tt[Len(ss) + 1] = s /\ \A i \in 1 .. Len(ss) : tt[i] = ss[i]
        /\ DOMAIN tt = 1 .. Len(ss) + 1 /\ DOMAIN ss = 1 .. Len(ss)
    BY AppendProperties
  <2>2. /\ strips(ss) \in Seq(Seq(Lines)) /\ Len(strips(ss)) = Len(ss)
        /\ Words(FlattenSeq(strips(ss))) = Words(FlattenSeq(ss))
    <3>1. OK(ss)
      BY <1>2
    <3>2. QED
      BY <2>1, <3>1
  <2>3. Strip(s) \in Seq(Lines) /\ Words(Strip(s)) = Words(s)
    BY StripIs
  <2> DEFINE uu == Append(strips(ss), Strip(s))
  <2>4. /\ uu \in Seq(Seq(Lines)) /\ Len(uu) = Len(ss) + 1
        /\ uu[Len(ss) + 1] = Strip(s) /\ \A i \in 1 .. Len(ss) : uu[i] = strips(ss)[i]
    BY <2>2, <2>3, AppendProperties
  <2> HIDE DEF tt
  <2>5. \A i \in 1 .. Len(ss) + 1 : strips(tt)[i] = Strip(tt[i])
    BY <2>1
  <2>6. \A i \in 1 .. Len(ss) : strips(ss)[i] = Strip(ss[i])
    BY <2>1
  <2> HIDE DEF uu
  <2>7. \A i \in 1 .. Len(ss) + 1 : strips(tt)[i] = uu[i]
    <3>1. SUFFICES ASSUME NEW i \in 1 .. Len(ss) + 1
                   PROVE  strips(tt)[i] = uu[i]
      OBVIOUS
    <3> HIDE DEF strips
    <3>2. CASE i = Len(ss) + 1
      BY <2>1, <2>4, <2>5, <3>2
    <3>3. CASE i # Len(ss) + 1
      <4>1. i \in 1 .. Len(ss)
        BY <2>1, <3>3
      <4>2. QED
        BY <2>1, <2>4, <2>5, <2>6, <4>1
    <3>4. QED
      BY <3>2, <3>3
  <2>8. strips(tt) = uu
    <3>1. DOMAIN strips(tt) = 1 .. Len(ss) + 1 /\ DOMAIN uu = 1 .. Len(ss) + 1
      BY <2>1, <2>4
    <3>2. strips(tt) = [i \in 1 .. Len(ss) + 1 |-> strips(tt)[i]]
      BY <2>1
    <3>3. uu = [i \in 1 .. Len(ss) + 1 |-> uu[i]]
      BY <2>4, <3>1
    <3> HIDE DEF strips
    <3>4. QED
      BY <2>7, <3>2, <3>3
  <2> HIDE DEF strips
  <2>9. /\ FlattenSeq(uu) = FlattenSeq(strips(ss)) \o Strip(s)
        /\ FlattenSeq(tt) = FlattenSeq(ss) \o s
        /\ FlattenSeq(strips(ss)) \in Seq(Lines) /\ FlattenSeq(ss) \in Seq(Lines)
    <3>1. /\ FlattenSeq(Append(strips(ss), Strip(s))) = FlattenSeq(strips(ss)) \o Strip(s)
          /\ FlattenSeq(strips(ss)) \in Seq(Lines)
      BY <2>2, <2>3, FlattenIs
    <3>2. FlattenSeq(Append(ss, s)) = FlattenSeq(ss) \o s /\ FlattenSeq(ss) \in Seq(Lines)
      BY FlattenIs
    <3>3. QED
      BY <3>1, <3>2 DEF uu, tt
  <2>10. Words(FlattenSeq(uu)) = Words(FlattenSeq(tt))
    <3>1. Words(FlattenSeq(uu)) = Words(FlattenSeq(strips(ss))) \o Words(Strip(s))
      BY <2>3, <2>9, WordsConcat
    <3>2. Words(FlattenSeq(tt)) = Words(FlattenSeq(ss)) \o Words(s)
      BY <2>9, WordsConcat
    <3>3. QED
      BY <2>2, <2>3, <3>1, <3>2
  <2>11. QED
    BY <2>1, <2>4, <2>8, <2>10 DEF tt
<1>3. \A ss \in Seq(Seq(Lines)) : ss \in T
  <2> HIDE DEF T
  <2>1. QED
    BY <1>1, <1>2, SeqInduction
<1>4. QED
  BY <1>3

LEMMA FlattenOne ==
    ASSUME NEW S, NEW s \in Seq(S)
    PROVE  <<s>> \in Seq(Seq(S)) /\ FlattenSeq(<<s>>) = s
<1>1. <<>> \in Seq(Seq(S)) /\ Append(<<>>, s) = <<s>> /\ <<s>> \in Seq(Seq(S))
  OBVIOUS
<1>2. FlattenSeq(Append(<<>>, s)) = FlattenSeq(<<>>) \o s /\ FlattenSeq(<<>>) = <<>>
  BY <1>1, FlattenIs
<1>3. <<>> \o s = s
  OBVIOUS
<1>4. QED
  BY <1>1, <1>2, <1>3

\* The sections of a text are the text, without blank lines at their ends.
LEMMA SectionsAreText ==
    ASSUME NEW ls \in Seq(Lines)
    PROVE  /\ Sections(ls) \in Seq(Seq(Lines))
           /\ Words(FlattenSeq(Sections(ls))) = Words(ls)
<1> DEFINE rows == LineRuns(Strip(ls), "heading")
<1>1. Strip(ls) \in Seq(Lines) /\ Words(Strip(ls)) = Words(ls)
  BY StripIs
<1>2. rows \in Seq(Seq(Lines)) /\ FlattenSeq(rows) = Strip(ls)
  BY <1>1, LineRunsIs, RunsAreText
<1>3. Sections(ls) = [i \in DOMAIN rows |-> Strip(rows[i])]
  BY DEF Sections
<1> HIDE DEF rows
<1>4. QED
  BY <1>1, <1>2, <1>3, WordsOfParts

\* What a row of lines gives to the paragraphs.
ParagraphOf == [row \in Seq(Lines) |-> IF Words(row) = <<>> THEN <<>> ELSE <<Words(row)>>]

LEMMA ParagraphOfIs ==
    /\ ParagraphOf \in [Seq(Lines) -> Seq(Seq(Lines))]
    /\ \A row \in Seq(Lines) : FlattenSeq(ParagraphOf[row]) = Words(row)
<1>1. ASSUME NEW row \in Seq(Lines)
      PROVE  /\ ParagraphOf[row] = IF Words(row) = <<>> THEN <<>> ELSE <<Words(row)>>
             /\ <<>> \in Seq(Seq(Lines)) /\ <<Words(row)>> \in Seq(Seq(Lines))
             /\ FlattenSeq(<<>>) = <<>> /\ FlattenSeq(<<Words(row)>>) = Words(row)
  <2>1. Words(row) \in Seq(Lines)
    BY WordsAre
  <2>2. ParagraphOf[row] = IF Words(row) = <<>> THEN <<>> ELSE <<Words(row)>>
    BY Zenon DEF ParagraphOf
  <2>3. <<>> \in Seq(Seq(Lines))
    OBVIOUS
  <2>4. FlattenSeq(<<>>) = <<>>
    BY FlattenIs
  <2>5. QED
    BY <2>1, <2>2, <2>3, <2>4, FlattenOne
<1>2. \A row \in Seq(Lines) : FlattenSeq(ParagraphOf[row]) = Words(row)
  BY <1>1
<1>3. \A row \in Seq(Lines) : ParagraphOf[row] \in Seq(Seq(Lines))
  BY <1>1
<1>4. ParagraphOf = [row \in Seq(Lines) |-> ParagraphOf[row]]
  BY DEF ParagraphOf
<1>5. QED
  BY <1>2, <1>3, <1>4

LEMMA ParagraphsOfRows ==
    \A rows \in Seq(Seq(Lines)) :
       /\ Joined(ParagraphOf, rows) \in Seq(Seq(Lines))
       /\ FlattenSeq(Joined(ParagraphOf, rows)) = Words(FlattenSeq(rows))
<1> DEFINE P(rows) == Joined(ParagraphOf, rows)
           T == {rows \in Seq(Seq(Lines)) :
                   P(rows) \in Seq(Seq(Lines)) /\ FlattenSeq(P(rows)) = Words(FlattenSeq(rows))}
<1>1. <<>> \in T
  <2>1. <<>> \in Seq(Seq(Lines))
    OBVIOUS
  <2>2. FlattenSeq(<<>>) = <<>> /\ Words(<<>>) = <<>>
    BY FlattenIs, WordsAre
  <2>3. P(<<>>) = <<>>
    BY ParagraphOfIs, JoinedIs
  <2> HIDE DEF P
  <2>4. QED
    BY <2>1, <2>2, <2>3
<1>2. ASSUME NEW rows \in Seq(Seq(Lines)), NEW row \in Seq(Lines), rows \in T
      PROVE  Append(rows, row) \in T
  <2>1. P(rows) \in Seq(Seq(Lines)) /\ FlattenSeq(P(rows)) = Words(FlattenSeq(rows))
    BY <1>2
  <2>2. P(Append(rows, row)) = P(rows) \o ParagraphOf[row]
    BY ParagraphOfIs, JoinedIs, ZenonT(40)
  <2> HIDE DEF P
  <2>3. /\ ParagraphOf[row] \in Seq(Seq(Lines)) /\ FlattenSeq(ParagraphOf[row]) = Words(row)
        /\ Append(rows, row) \in Seq(Seq(Lines))
    BY ParagraphOfIs
  <2>4. P(rows) \o ParagraphOf[row] \in Seq(Seq(Lines))
    BY <2>1, <2>3
  <2>5. FlattenSeq(P(rows) \o ParagraphOf[row]) = FlattenSeq(P(rows)) \o FlattenSeq(ParagraphOf[row])
    BY <2>1, <2>3, FlattenConcat
  <2>6. /\ FlattenSeq(Append(rows, row)) = FlattenSeq(rows) \o row
        /\ FlattenSeq(rows) \in Seq(Lines)
    BY FlattenIs
  <2>7. Words(FlattenSeq(rows) \o row) = Words(FlattenSeq(rows)) \o Words(row)
    BY <2>6, WordsConcat
  <2>8. QED
    BY <2>1, <2>2, <2>3, <2>4, <2>5, <2>6, <2>7
<1> HIDE DEF T
<1>3. \A rows \in Seq(Seq(Lines)) : rows \in T
  BY <1>1, <1>2, SeqInduction
<1>4. QED
  BY <1>3 DEF T

\* The paragraphs of a text are its lines that are not blank.
LEMMA ParagraphsAreWords ==
    ASSUME NEW ls \in Seq(Lines)
    PROVE  Paragraphs(ls) \in Seq(Seq(Lines)) /\ FlattenSeq(Paragraphs(ls)) = Words(ls)
<1> DEFINE rows == LineRuns(ls, "blank")
<1>1. rows \in Seq(Seq(Lines)) /\ FlattenSeq(rows) = ls
  BY LineRunsIs, RunsAreText
<1>2. Paragraphs(ls) = FlattenSeq([i \in DOMAIN rows |->
                          IF Words(rows[i]) = <<>> THEN <<>> ELSE <<Words(rows[i])>>])
  BY DEF Paragraphs
<1> HIDE DEF rows
<1>3. [i \in DOMAIN rows |-> IF Words(rows[i]) = <<>> THEN <<>> ELSE <<Words(rows[i])>>] =
         [i \in DOMAIN rows |-> ParagraphOf[rows[i]]]
  <2>1. \A i \in DOMAIN rows : rows[i] \in Seq(Lines)
    BY <1>1
  <2>2. QED
    BY <2>1, Zenon DEF ParagraphOf
<1>4. QED
  BY <1>1, <1>2, <1>3, ParagraphsOfRows DEF Joined

-----------------------------------------------------------------------------
(* Chunks.                                                                 *)

LEMMA LengthIs == \A ls \in Seq(Lines) : Length(ls) \in Int
<1>1. SUFFICES ASSUME NEW ls \in Seq(Lines)
               PROVE  Length(ls) \in Int
  OBVIOUS
<1> DEFINE ns == [i \in DOMAIN ls |-> ls[i].chars]
<1>2. Len(ls) \in Nat /\ DOMAIN ls = 1 .. Len(ls) /\ \A i \in 1 .. Len(ls) : ls[i].chars \in Int
  <2>1. \A line \in Lines : line.chars \in Int
    BY DEF Lines
  <2>2. Len(ls) \in Nat /\ DOMAIN ls = 1 .. Len(ls) /\ \A i \in 1 .. Len(ls) : ls[i] \in Lines
    OBVIOUS
  <2>3. QED
    BY <2>1, <2>2
<1>3. ns \in Seq(Int)
  BY <1>2
<1>4. Total(ns) \in Int
  BY <1>3, TotalIs
<1> HIDE DEF ns
<1>5. Length(ls) = Total(ns) + Len(ls) - 1
  BY DEF Length, ns
<1>6. QED
  BY <1>2, <1>4, <1>5

\* What the paragraphs of a chunk count for.
Weight(c) == Total([j \in DOMAIN c |-> Length(c[j]) + 2])

LEMMA WeightIs ==
    /\ Weight(<<>>) = 0
    /\ \A c \in Seq(Seq(Lines)) : Weight(c) \in Int
    /\ \A c \in Seq(Seq(Lines)), p \in Seq(Lines) : Weight(Append(c, p)) = Weight(c) + Length(p) + 2
<1> DEFINE ns(c) == [j \in DOMAIN c |-> Length(c[j]) + 2]
<1>1. ASSUME NEW c \in Seq(Seq(Lines))
      PROVE  /\ ns(c) \in Seq(Int) /\ Len(ns(c)) = Len(c)
             /\ \A j \in 1 .. Len(c) : ns(c)[j] = Length(c[j]) + 2
  <2>1. /\ Len(c) \in Nat /\ DOMAIN c = 1 .. Len(c)
        /\ \A j \in 1 .. Len(c) : c[j] \in Seq(Lines) /\ Length(c[j]) + 2 \in Int
    <3>1. Len(c) \in Nat /\ DOMAIN c = 1 .. Len(c) /\ \A j \in 1 .. Len(c) : c[j] \in Seq(Lines)
      OBVIOUS
    <3>2. \A j \in 1 .. Len(c) : Length(c[j]) \in Int
      BY <3>1, LengthIs
    <3>3. QED
      BY <3>1, <3>2
  <2>2. QED
    BY <2>1
<1>2. Weight(<<>>) = 0
  <2>1. ns(<<>>) = <<>>
    OBVIOUS
  <2>2. Weight(<<>>) = Total(ns(<<>>))
    BY DEF Weight
  <2>3. QED
    BY <2>1, <2>2, TotalIs
<1>3. ASSUME NEW c \in Seq(Seq(Lines))
      PROVE  Weight(c) = Total(ns(c)) /\ Weight(c) \in Int
  <2>1. Weight(c) = Total(ns(c))
    BY DEF Weight
  <2>2. ns(c) \in Seq(Int)
    BY <1>1
  <2> HIDE DEF ns
  <2>3. QED
    BY <2>1, <2>2, TotalIs
<1>4. ASSUME NEW c \in Seq(Seq(Lines)), NEW p \in Seq(Lines)
      PROVE  Weight(Append(c, p)) = Weight(c) + Length(p) + 2
  <2> DEFINE t == Append(c, p)
             w == Length(p) + 2
  <2>1. /\ t \in Seq(Seq(Lines)) /\ Len(t) = Len(c) + 1 /\ Len(c) \in Nat
        /\ t[Len(c) + 1] = p /\ \A i \in 1 .. Len(c) : t[i] = c[i]
    BY AppendProperties
  <2>2. w \in Int /\ Length(p) \in Int
    BY LengthIs
  <2> HIDE DEF t
  <2>3. /\ ns(c) \in Seq(Int) /\ Len(ns(c)) = Len(c)
        /\ \A j \in 1 .. Len(c) : ns(c)[j] = Length(c[j]) + 2
    BY <1>1
  <2>4. /\ ns(t) \in Seq(Int) /\ Len(ns(t)) = Len(t)
        /\ \A j \in 1 .. Len(t) : ns(t)[j] = Length(t[j]) + 2
    BY <1>1, <2>1
  <2> HIDE DEF ns
  <2> DEFINE u == Append(ns(c), w)
  <2>5. /\ u \in Seq(Int) /\ Len(u) = Len(c) + 1 /\ u[Len(c) + 1] = w
        /\ \A j \in 1 .. Len(c) : u[j] = ns(c)[j]
    BY <2>2, <2>3, AppendProperties
  <2> HIDE DEF u
  <2>6. ns(t) = u
    <3>1. ASSUME NEW j \in 1 .. Len(ns(t))
          PROVE  ns(t)[j] = u[j]
      <4>1. CASE j = Len(c) + 1
        BY <2>1, <2>4, <2>5, <4>1 DEF w
      <4>2. CASE j # Len(c) + 1
        <5>1. j \in 1 .. Len(c)
          BY <2>1, <2>4, <4>2
        <5>2. QED
          BY <2>1, <2>3, <2>4, <2>5, <5>1
      <4>3. QED
        BY <4>1, <4>2
    <3>2. Len(ns(t)) = Len(u)
      BY <2>1, <2>4, <2>5
    <3>3. QED
      BY <2>4, <2>5, <3>1, <3>2, SeqEqual
  <2>7. Total(u) = Total(ns(c)) + w
    <3> HIDE DEF w
    <3>1. QED
      BY <2>2, <2>3, TotalIs DEF u
  <2>8. Weight(t) = Total(ns(t)) /\ Weight(c) = Total(ns(c)) /\ Weight(c) \in Int
    BY <1>3, <2>1
  <2>9. Weight(t) = Weight(c) + (Length(p) + 2)
    BY <2>6, <2>7, <2>8
  <2>10. QED
    BY <2>2, <2>8, <2>9 DEF t
<1>5. QED
  BY <1>2, <1>3, <1>4

\* What Packed folds, and the fold.
Packs == [chunks : Seq(Seq(Seq(Lines))), part : Seq(Seq(Lines)), size : Int]

NoPack == [chunks |-> <<>>, part |-> <<>>, size |-> 0]

PackedSoFar(ps) == FoldLeft(PackedAlso, NoPack, ps)

LEMMA PackedAlsoIs ==
    ASSUME NEW acc \in Packs, NEW p \in Seq(Lines)
    PROVE  /\ PackedAlso(acc, p) \in Packs
           /\ \/ /\ acc.size + Length(p) + 2 > MaxChars /\ acc.part # <<>>
                 /\ PackedAlso(acc, p).chunks = Append(acc.chunks, acc.part)
                 /\ PackedAlso(acc, p).part = <<p>>
                 /\ PackedAlso(acc, p).size = Length(p)
              \/ /\ ~(acc.size + Length(p) + 2 > MaxChars /\ acc.part # <<>>)
                 /\ PackedAlso(acc, p).chunks = acc.chunks
                 /\ PackedAlso(acc, p).part = Append(acc.part, p)
                 /\ PackedAlso(acc, p).size = acc.size + Length(p) + 2
<1> DEFINE more == [chunks |-> Append(acc.chunks, acc.part), part |-> <<p>>, size |-> Length(p)]
           same == [acc EXCEPT !.part = Append(acc.part, p), !.size = acc.size + Length(p) + 2]
           over == acc.size + Length(p) + 2 > MaxChars /\ acc.part # <<>>
<1>1. PackedAlso(acc, p) = IF over THEN more ELSE same
  BY DEF PackedAlso
<1>2. /\ acc.chunks \in Seq(Seq(Seq(Lines))) /\ acc.part \in Seq(Seq(Lines)) /\ acc.size \in Int
      /\ Length(p) \in Int
  BY LengthIs DEF Packs
<1>3. /\ Append(acc.chunks, acc.part) \in Seq(Seq(Seq(Lines))) /\ <<p>> \in Seq(Seq(Lines))
      /\ Append(acc.part, p) \in Seq(Seq(Lines)) /\ acc.size + Length(p) + 2 \in Int
  BY <1>2
<1>4. /\ more \in Packs /\ more.chunks = Append(acc.chunks, acc.part) /\ more.part = <<p>>
      /\ more.size = Length(p)
  BY <1>2, <1>3 DEF Packs
<1>5. /\ same \in Packs /\ same.chunks = acc.chunks /\ same.part = Append(acc.part, p)
      /\ same.size = acc.size + Length(p) + 2
  <2>1. PICK r \in Seq(Seq(Lines)), y \in Int :
           r = Append(acc.part, p) /\ y = acc.size + Length(p) + 2
    BY <1>3
  <2>2. same = [acc EXCEPT !.part = r, !.size = y]
    BY <2>1
  <2>3. PICK m : m = [acc EXCEPT !.part = r, !.size = y]
    OBVIOUS
  <2>4. m \in Packs /\ m.chunks = acc.chunks /\ m.part = r /\ m.size = y
    BY <2>3 DEF Packs
  <2> HIDE DEF same
  <2>5. QED
    BY <2>1, <2>2, <2>3, <2>4
<1> HIDE DEF more, same
<1>6. CASE over
  BY <1>1, <1>4, <1>6
<1>7. CASE ~over
  BY <1>1, <1>5, <1>7
<1>8. QED
  BY <1>6, <1>7

LEMMA PackedSteps ==
    /\ NoPack \in Packs
    /\ [p \in Packs \X Seq(Lines) |-> PackedAlso(p[1], p[2])] \in [Packs \X Seq(Lines) -> Packs]
<1>1. <<>> \in Seq(Seq(Seq(Lines))) /\ <<>> \in Seq(Seq(Lines)) /\ 0 \in Int
  OBVIOUS
<1>2. NoPack \in Packs
  BY <1>1 DEF NoPack, Packs
<1>3. \A x \in Packs, e \in Seq(Lines) : PackedAlso(x, e) \in Packs
  BY PackedAlsoIs
<1>4. QED
  BY <1>2, <1>3

LEMMA PackedIsFolding ==
    ASSUME NEW ps \in Seq(Seq(Lines))
    PROVE  PackedSoFar(ps) =
              Folding(Seq(Lines), Packs, NoPack, [p \in Packs \X Seq(Lines) |-> PackedAlso(p[1], p[2])])[ps]
<1> DEFINE n == Len(ps)
           step == [p \in Packs \X Seq(Lines) |-> PackedAlso(p[1], p[2])]
           IsIter(g) == g = [t \in SUBSET (1 .. n) |->
                               IF t = {} THEN NoPack
                               ELSE PackedAlso(g[t \ {Max(t)}], ps[Max(t)])]
           chosen == CHOOSE g : IsIter(g)
<1>1. CanFold(Seq(Lines), Packs, NoPack, step)
  BY PackedSteps DEF CanFold, Steps
<1>2. n \in Nat /\ DOMAIN ps = 1 .. n /\ \A i \in 1 .. n : ps[i] \in Seq(Lines)
  OBVIOUS
<1>3. PackedSoFar(ps) = chosen[1 .. n]
  BY <1>2, Zenon DEF PackedSoFar, FoldLeft, MapThenFoldSet
<1>4. ASSUME NEW t \in SUBSET (1 .. n), t # {}
      PROVE  Max(t) \in 1 .. n
  BY <1>2, <1>4, GreatestIs
<1>5. ASSUME NEW x \in Packs, NEW i \in 1 .. n
      PROVE  step[<<x, ps[i]>>] = PackedAlso(x, ps[i])
  BY <1>2, Zenon
<1> HIDE DEF step
<1>6. \E g : IsIter(g)
  <2>1. PICK g : OnPositions(g, ps, Packs, NoPack, step)
    BY <1>1, FoldOfPositions
  <2>2. \A t \in SUBSET (1 .. n) :
           t # {} => g[t] = PackedAlso(g[t \ {Max(t)}], ps[Max(t)])
    BY <1>5, <2>1, Zenon DEF OnPositions
  <2>3. IsIter(g)
    BY <2>1, <2>2 DEF OnPositions
  <2>4. QED
    BY <2>3
<1>7. IsIter(chosen)
  <2> HIDE DEF IsIter
  <2>1. QED
    BY <1>6
<1> HIDE DEF chosen
<1>8. chosen[{}] = NoPack
  BY <1>7
<1>9. ASSUME NEW t \in SUBSET (1 .. n), t # {}, chosen[t \ {Max(t)}] \in Packs
      PROVE  chosen[t] = step[<<chosen[t \ {Max(t)}], ps[Max(t)]>>]
  <2>1. chosen[t] = PackedAlso(chosen[t \ {Max(t)}], ps[Max(t)])
    BY <1>7, <1>9
  <2>2. QED
    BY <1>4, <1>5, <1>9, <2>1, Zenon
<1>10. OnPositionsIn(chosen, ps, Packs, NoPack, step)
  BY <1>8, <1>9 DEF OnPositionsIn
<1>11. chosen[1 .. n] = Folding(Seq(Lines), Packs, NoPack, step)[ps]
  BY <1>1, <1>10, FoldOfAll
<1>12. QED
  BY <1>3, <1>11 DEF step

LEMMA PackedSoFarIs ==
    /\ PackedSoFar(<<>>) = NoPack
    /\ \A ps \in Seq(Seq(Lines)) : PackedSoFar(ps) \in Packs
    /\ \A ps \in Seq(Seq(Lines)), p \in Seq(Lines) :
          PackedSoFar(Append(ps, p)) = PackedAlso(PackedSoFar(ps), p)
<1> DEFINE E == Seq(Lines)
           step == [p \in Packs \X E |-> PackedAlso(p[1], p[2])]
           F == Folding(E, Packs, NoPack, step)
<1>1. CanFold(E, Packs, NoPack, step)
  BY PackedSteps DEF CanFold, Steps
<1>2. IsFolding(F, E, Packs, NoPack, step)
  <2> HIDE DEF step, E
  <2>1. QED
    BY <1>1, FoldingIs
<1>3. \A ps \in Seq(E) : PackedSoFar(ps) = F[ps]
  BY PackedIsFolding
<1> HIDE DEF F
<1>4. <<>> \in Seq(E) /\ \A ps \in Seq(E), p \in E : Append(ps, p) \in Seq(E)
  OBVIOUS
<1>6. \A x \in Packs, p \in E : step[<<x, p>>] = PackedAlso(x, p)
  BY Zenon
<1> HIDE DEF step, E
<1>5. \A ps \in Seq(E) : F[ps] \in Packs
  BY <1>2 DEF IsFolding
<1>7. \A ps \in Seq(E), p \in E : F[Append(ps, p)] = PackedAlso(F[ps], p)
  BY <1>2, <1>5, <1>6 DEF IsFolding
<1>8. F[<<>>] = NoPack
  BY <1>2 DEF IsFolding
<1>9. QED
  BY <1>3, <1>4, <1>5, <1>7, <1>8 DEF E

\* A chunk of one paragraph is of any size, one of more is within the limit.
GoodChunks == {c \in Seq(Seq(Lines)) : Len(c) = 1 \/ Weight(c) - 2 <= MaxChars}

\* What is packed so far is all there was; what is open is a chunk too.
PackedWell(ps, acc) ==
    /\ acc \in Packs
    /\ acc.chunks \in Seq(GoodChunks)
    /\ acc.part = <<>> \/ acc.part \in GoodChunks
    /\ FlattenSeq(acc.chunks) \o acc.part = ps
    /\ acc.size >= Weight(acc.part) - 2

LEMMA PackedAlsoWell ==
    ASSUME NEW ps \in Seq(Seq(Lines)), NEW p \in Seq(Lines), NEW acc, PackedWell(ps, acc)
    PROVE  PackedWell(Append(ps, p), PackedAlso(acc, p))
<1> DEFINE next == PackedAlso(acc, p)
<1>0. MaxChars \in Nat
  BY KnowledgeConstants
<1>1. PICK c \in Seq(GoodChunks), q \in Seq(Seq(Lines)), z \in Int :
         c = acc.chunks /\ q = acc.part /\ z = acc.size /\ c \in Seq(Seq(Seq(Lines)))
  BY DEF PackedWell, Packs
<1>2. q = <<>> \/ q \in GoodChunks
  BY <1>1 DEF PackedWell
<1>3. FlattenSeq(c) \o q = ps /\ FlattenSeq(c) \in Seq(Seq(Lines))
  BY <1>1, FlattenIs DEF PackedWell
<1>4. z >= Weight(q) - 2
  BY <1>1 DEF PackedWell
<1>5. Length(p) \in Int /\ Weight(q) \in Int /\ Weight(Append(q, p)) = Weight(q) + Length(p) + 2
  BY <1>1, LengthIs, WeightIs
<1>6. /\ <<p>> \in Seq(Seq(Lines)) /\ Len(<<p>>) = 1 /\ <<p>> = Append(<<>>, p)
      /\ <<>> \in Seq(Seq(Lines)) /\ Append(q, p) \in Seq(Seq(Lines))
  OBVIOUS
<1>7. Weight(<<p>>) = Length(p) + 2 /\ <<p>> \in GoodChunks
  <2>1. Weight(Append(<<>>, p)) = Weight(<<>>) + Length(p) + 2 /\ Weight(<<>>) = 0
    BY <1>6, WeightIs
  <2>2. QED
    BY <1>5, <1>6, <2>1 DEF GoodChunks
<1>8. next \in Packs
  BY PackedAlsoIs DEF PackedWell
<1>9. CASE z + Length(p) + 2 > MaxChars /\ q # <<>>
  <2>1. next.chunks = Append(c, q) /\ next.part = <<p>> /\ next.size = Length(p)
    BY <1>1, <1>9, PackedAlsoIs DEF PackedWell
  <2>2. Append(c, q) \in Seq(GoodChunks)
    BY <1>1, <1>2, <1>9
  <2>3. FlattenSeq(Append(c, q)) \o <<p>> = Append(ps, p)
    <3>1. FlattenSeq(Append(c, q)) = FlattenSeq(c) \o q
      BY <1>1, FlattenIs
    <3>2. ps \o <<p>> = Append(ps, p)
      OBVIOUS
    <3>3. QED
      BY <1>3, <3>1, <3>2
  <2>4. Length(p) >= Weight(<<p>>) - 2
    BY <1>5, <1>7
  <2> HIDE DEF next
  <2>5. PackedWell(Append(ps, p), next)
    BY <1>7, <1>8, <2>1, <2>2, <2>3, <2>4 DEF PackedWell
  <2>6. QED
    BY <2>5 DEF next
<1>10. CASE ~(z + Length(p) + 2 > MaxChars /\ q # <<>>)
  <2>1. next.chunks = c /\ next.part = Append(q, p) /\ next.size = z + Length(p) + 2
    BY <1>1, <1>10, PackedAlsoIs DEF PackedWell
  <2>2. Append(q, p) \in GoodChunks
    <3>1. CASE q = <<>>
      BY <1>6, <1>7, <3>1
    <3>2. CASE q # <<>>
      <4>1. Weight(Append(q, p)) - 2 <= MaxChars
        BY <1>0, <1>4, <1>5, <1>10, <3>2
      <4>2. QED
        BY <1>6, <4>1 DEF GoodChunks
    <3>3. QED
      BY <3>1, <3>2
  <2>3. FlattenSeq(c) \o Append(q, p) = Append(ps, p)
    <3>1. PICK f \in Seq(Seq(Lines)) : f = FlattenSeq(c)
      BY <1>3
    <3>2. f \o Append(q, p) = Append(f \o q, p)
      OBVIOUS
    <3>3. QED
      BY <1>3, <3>1, <3>2
  <2>4. z + Length(p) + 2 >= Weight(Append(q, p)) - 2
    BY <1>4, <1>5
  <2> HIDE DEF next
  <2>5. PackedWell(Append(ps, p), next)
    BY <1>1, <1>8, <2>1, <2>2, <2>3, <2>4 DEF PackedWell
  <2>6. QED
    BY <2>5 DEF next
<1>11. QED
  BY <1>1, <1>9, <1>10

LEMMA PackedSoFarWell == \A ps \in Seq(Seq(Lines)) : PackedWell(ps, PackedSoFar(ps))
<1> DEFINE T == {ps \in Seq(Seq(Lines)) : PackedWell(ps, PackedSoFar(ps))}
<1>1. <<>> \in T
  <2>1. /\ NoPack.chunks = <<>> /\ NoPack.part = <<>> /\ NoPack.size = 0
        /\ <<>> \in Seq(GoodChunks) /\ <<>> \in Seq(Seq(Lines)) /\ <<>> \o <<>> = <<>>
    BY DEF NoPack
  <2>2. FlattenSeq(<<>>) = <<>> /\ Weight(<<>>) = 0 /\ 0 >= 0 - 2
    BY FlattenIs, WeightIs
  <2>3. PackedWell(<<>>, NoPack)
    BY <2>1, <2>2, PackedSteps DEF PackedWell
  <2>4. QED
    BY <2>1, <2>3, PackedSoFarIs
<1>2. ASSUME NEW ps \in Seq(Seq(Lines)), NEW p \in Seq(Lines), ps \in T
      PROVE  Append(ps, p) \in T
  <2>1. PackedWell(ps, PackedSoFar(ps))
    BY <1>2
  <2>2. PackedWell(Append(ps, p), PackedAlso(PackedSoFar(ps), p))
    BY <2>1, PackedAlsoWell
  <2>3. PackedSoFar(Append(ps, p)) = PackedAlso(PackedSoFar(ps), p) /\ Append(ps, p) \in Seq(Seq(Lines))
    BY PackedSoFarIs
  <2>4. QED
    BY <2>2, <2>3
<1> HIDE DEF T
<1>3. \A ps \in Seq(Seq(Lines)) : ps \in T
  BY <1>1, <1>2, SeqInduction
<1>4. QED
  BY <1>3 DEF T

LEMMA PackedIs ==
    ASSUME NEW ps \in Seq(Seq(Lines))
    PROVE  Packed(ps) \in Seq(GoodChunks) /\ FlattenSeq(Packed(ps)) = ps
<1> DEFINE end == PackedSoFar(ps)
<1>1. PackedWell(ps, end)
  BY PackedSoFarWell
<1>2. Packed(ps) = IF end.part = <<>> THEN end.chunks ELSE Append(end.chunks, end.part)
  BY DEF Packed, PackedSoFar, NoPack
<1> HIDE DEF end
<1>3. PICK c \in Seq(GoodChunks), q \in Seq(Seq(Lines)) :
         c = end.chunks /\ q = end.part /\ c \in Seq(Seq(Seq(Lines)))
  BY <1>1 DEF PackedWell, Packs
<1>4. /\ q = <<>> \/ q \in GoodChunks
      /\ FlattenSeq(c) \o q = ps /\ FlattenSeq(c) \in Seq(Seq(Lines))
  BY <1>1, <1>3, FlattenIs DEF PackedWell
<1>5. CASE q = <<>>
  BY <1>2, <1>3, <1>4, <1>5
<1>6. CASE q # <<>>
  <2>1. FlattenSeq(Append(c, q)) = FlattenSeq(c) \o q
    BY <1>3, FlattenIs
  <2>2. Append(c, q) \in Seq(GoodChunks)
    BY <1>4, <1>6
  <2>3. QED
    BY <1>2, <1>3, <1>4, <1>6, <2>1, <2>2
<1>7. QED
  BY <1>5, <1>6

\* What a section gives to the chunks.
PiecesOf ==
    [sec \in Seq(Lines) |->
        IF Length(sec) <= MaxChars THEN <<<<sec>>>> ELSE Packed(Paragraphs(sec))]

LEMMA GoodChunksAre == Seq(GoodChunks) \subseteq Seq(Seq(Seq(Lines)))
<1>1. GoodChunks \subseteq Seq(Seq(Lines))
  BY DEF GoodChunks
<1> HIDE DEF GoodChunks
<1>2. QED
  BY <1>1

LEMMA PiecesOfIs ==
    /\ PiecesOf \in [Seq(Lines) -> Seq(GoodChunks)]
    /\ \A sec \in Seq(Lines) : Words(FlattenSeq(FlattenSeq(PiecesOf[sec]))) = Words(sec)
<1>1. ASSUME NEW sec \in Seq(Lines)
      PROVE  /\ PiecesOf[sec] \in Seq(GoodChunks)
             /\ Words(FlattenSeq(FlattenSeq(PiecesOf[sec]))) = Words(sec)
  <2>1. PiecesOf[sec] = IF Length(sec) <= MaxChars THEN <<<<sec>>>> ELSE Packed(Paragraphs(sec))
    BY Zenon DEF PiecesOf
  <2>2. CASE Length(sec) <= MaxChars
    <3>1. <<sec>> \in Seq(Seq(Lines)) /\ FlattenSeq(<<sec>>) = sec
      BY FlattenOne
    <3>2. FlattenSeq(<<<<sec>>>>) = <<sec>>
      BY <3>1, FlattenOne
    <3>3. <<sec>> \in GoodChunks
      BY <3>1 DEF GoodChunks
    <3>4. <<<<sec>>>> \in Seq(GoodChunks)
      BY <3>3
    <3>5. QED
      BY <2>1, <2>2, <3>1, <3>2, <3>4
  <2>3. CASE ~(Length(sec) <= MaxChars)
    <3>1. Paragraphs(sec) \in Seq(Seq(Lines)) /\ FlattenSeq(Paragraphs(sec)) = Words(sec)
      BY ParagraphsAreWords
    <3>2. /\ Packed(Paragraphs(sec)) \in Seq(GoodChunks)
          /\ FlattenSeq(Packed(Paragraphs(sec))) = Paragraphs(sec)
      BY <3>1, PackedIs
    <3>3. Words(Words(sec)) = Words(sec)
      BY WordsTwice
    <3>4. QED
      BY <2>1, <2>3, <3>1, <3>2, <3>3
  <2>4. QED
    BY <2>2, <2>3
<1>2. PiecesOf = [sec \in Seq(Lines) |-> PiecesOf[sec]]
  BY DEF PiecesOf
<1>3. \A sec \in Seq(Lines) : PiecesOf[sec] \in Seq(GoodChunks)
  BY <1>1
<1>4. QED
  BY <1>1, <1>2, <1>3

LEMMA PiecesOfSections ==
    \A secs \in Seq(Seq(Lines)) :
       /\ Joined(PiecesOf, secs) \in Seq(GoodChunks)
       /\ Words(FlattenSeq(FlattenSeq(Joined(PiecesOf, secs)))) = Words(FlattenSeq(secs))
<1> DEFINE Q(secs) == Joined(PiecesOf, secs)
           T == {secs \in Seq(Seq(Lines)) :
                   /\ Q(secs) \in Seq(GoodChunks)
                   /\ Words(FlattenSeq(FlattenSeq(Q(secs)))) = Words(FlattenSeq(secs))}
<1>1. <<>> \in T
  <2>1. <<>> \in Seq(Seq(Lines)) /\ <<>> \in Seq(GoodChunks)
    OBVIOUS
  <2>2. FlattenSeq(<<>>) = <<>> /\ Words(<<>>) = <<>>
    BY FlattenIs, WordsAre
  <2>3. Q(<<>>) = <<>>
    BY PiecesOfIs, JoinedIs
  <2> HIDE DEF Q
  <2>4. QED
    BY <2>1, <2>2, <2>3
<1>2. ASSUME NEW secs \in Seq(Seq(Lines)), NEW sec \in Seq(Lines), secs \in T
      PROVE  Append(secs, sec) \in T
  <2>1. Q(secs) \in Seq(GoodChunks) /\ Words(FlattenSeq(FlattenSeq(Q(secs)))) = Words(FlattenSeq(secs))
    BY <1>2
  <2>2. Q(Append(secs, sec)) = Q(secs) \o PiecesOf[sec]
    BY PiecesOfIs, JoinedIs, ZenonT(40)
  <2> HIDE DEF Q
  <2>3. /\ PiecesOf[sec] \in Seq(GoodChunks)
        /\ Words(FlattenSeq(FlattenSeq(PiecesOf[sec]))) = Words(sec)
        /\ Append(secs, sec) \in Seq(Seq(Lines))
    BY PiecesOfIs
  <2>4. PICK x, y \in Seq(GoodChunks) : x = Q(secs) /\ y = PiecesOf[sec]
    BY <2>1, <2>3
  <2>5. x \o y \in Seq(GoodChunks)
    OBVIOUS
  <2>6. x \in Seq(Seq(Seq(Lines))) /\ y \in Seq(Seq(Seq(Lines)))
    BY GoodChunksAre
  <2>7. /\ FlattenSeq(x \o y) = FlattenSeq(x) \o FlattenSeq(y)
        /\ FlattenSeq(x) \in Seq(Seq(Lines)) /\ FlattenSeq(y) \in Seq(Seq(Lines))
    BY <2>6, FlattenConcat, FlattenIs
  <2>8. /\ FlattenSeq(FlattenSeq(x) \o FlattenSeq(y)) =
              FlattenSeq(FlattenSeq(x)) \o FlattenSeq(FlattenSeq(y))
        /\ FlattenSeq(FlattenSeq(x)) \in Seq(Lines) /\ FlattenSeq(FlattenSeq(y)) \in Seq(Lines)
    BY <2>7, FlattenConcat, FlattenIs
  <2>9. Words(FlattenSeq(FlattenSeq(x \o y))) =
           Words(FlattenSeq(FlattenSeq(x))) \o Words(FlattenSeq(FlattenSeq(y)))
    BY <2>7, <2>8, WordsConcat
  <2>10. /\ FlattenSeq(Append(secs, sec)) = FlattenSeq(secs) \o sec
         /\ FlattenSeq(secs) \in Seq(Lines)
    BY FlattenIs
  <2>11. Words(FlattenSeq(secs) \o sec) = Words(FlattenSeq(secs)) \o Words(sec)
    BY <2>10, WordsConcat
  <2>12. QED
    BY <2>1, <2>2, <2>3, <2>4, <2>5, <2>9, <2>10, <2>11
<1> HIDE DEF T
<1>3. \A secs \in Seq(Seq(Lines)) : secs \in T
  BY <1>1, <1>2, SeqInduction
<1>4. QED
  BY <1>3 DEF T

\* A chunk of SplitIntoChunks is of one paragraph or within the limit, and the
\* words of all of them in turn are those of the text.
LEMMA SplitIs ==
    ASSUME NEW ls \in Seq(Lines)
    PROVE  /\ SplitIntoChunks(ls) \in Seq(GoodChunks)
           /\ Words(FlattenSeq(FlattenSeq(SplitIntoChunks(ls)))) = Words(ls)
<1> DEFINE secs == Sections(ls)
<1>1. secs \in Seq(Seq(Lines)) /\ Words(FlattenSeq(secs)) = Words(ls)
  BY SectionsAreText
<1>2. SplitIntoChunks(ls) =
         FlattenSeq([i \in DOMAIN secs |->
            IF Length(secs[i]) <= MaxChars THEN <<<<secs[i]>>>> ELSE Packed(Paragraphs(secs[i]))])
  BY DEF SplitIntoChunks
<1> HIDE DEF secs
<1>3. [i \in DOMAIN secs |->
         IF Length(secs[i]) <= MaxChars THEN <<<<secs[i]>>>> ELSE Packed(Paragraphs(secs[i]))] =
      [i \in DOMAIN secs |-> PiecesOf[secs[i]]]
  <2>1. \A i \in DOMAIN secs : secs[i] \in Seq(Lines)
    BY <1>1
  <2>2. QED
    BY <2>1, Zenon DEF PiecesOf
<1>4. QED
  BY <1>1, <1>2, <1>3, PiecesOfSections DEF Joined

-----------------------------------------------------------------------------
(* The text that is cut.                                                   *)

CutInv ==
    /\ page \in Seq(Lines)
    /\ cut # NoPlace => cut = SplitIntoChunks(page)

LEMMA CutFromStart == KnowledgeInit => CutInv
BY KnowledgeConstants DEF KnowledgeInit, CutInv, Lines

LEMMA CutStays ==
    ASSUME CutInv, [KnowledgeNext]_knowledgeVars
    PROVE  CutInv'
<1>1. CASE UNCHANGED <<page, cut>>
  BY <1>1 DEF CutInv
<1>2. CASE Split
  BY <1>2 DEF CutInv, Split
<1>3. ASSUME KnowledgeNext, ~Split
      PROVE  UNCHANGED <<page, cut>>
  BY <1>3, ZenonT(40) DEF KnowledgeNext, TornNext, DeleteSource, CreateSource, UpdateSource,
     IngestDocuments, SyncSource, CreateSpace, CreateFolder, CreateNativeDoc, UpdateNativeDoc, TornSave, TornDelete,
     TornSpace
<1>4. CASE UNCHANGED knowledgeVars
  BY <1>1, <1>4 DEF knowledgeVars
<1>5. QED
  BY <1>1, <1>2, <1>3, <1>4

LEMMA CutCovers == CutInv => ChunksCover
<1> SUFFICES ASSUME CutInv, cut # NoPlace
             PROVE  /\ Words(FlattenSeq(FlattenSeq(cut))) = Words(page)
                    /\ \A i \in DOMAIN cut :
                          Len(cut[i]) = 1 \/
                          Total([j \in DOMAIN cut[i] |-> Length(cut[i][j]) + 2]) - 2 <= MaxChars
  BY DEF ChunksCover
<1>1. cut \in Seq(GoodChunks) /\ Words(FlattenSeq(FlattenSeq(cut))) = Words(page)
  BY SplitIs DEF CutInv
<1>2. \A i \in DOMAIN cut : cut[i] \in GoodChunks
  BY <1>1
<1>3. QED
  BY <1>1, <1>2 DEF GoodChunks, Weight

-----------------------------------------------------------------------------
(* What is true of the shelves: sources, spaces, documents and their index. *)

Records ==
    [source : SourceIds, ext : {a[2] : a \in Addresses}, text : Contents, space : Spaces \cup {NoPlace},
     folder : Folders \cup {NoPlace}, published : BOOLEAN]

SourceRows == [kind : {"custom", "native"}, status : {"active", "paused"}, count : Nat]

Maps(D, R) == UNION {[S -> R] : S \in SUBSET D}

\* Chunks are of documents, and those of what was saved to its end are current.
Indexed(docs, ix, T) ==
    /\ ix \in Maps(Docs, Contents)
    /\ DOMAIN ix \subseteq DOMAIN docs
    /\ \A d \in DOMAIN docs \ T :
          IF docs[d].published THEN d \in DOMAIN ix /\ ix[d] = docs[d].text ELSE d \notin DOMAIN ix

\* A document keeps an address that gives its id.
Addressed(docs) ==
    /\ docs \in Maps(Docs, Records)
    /\ \A d \in DOMAIN docs :
          /\ <<docs[d].source, docs[d].ext>> \in Addresses
          /\ DocOf[<<docs[d].source, docs[d].ext>>] = d

\* A document in a space is of the space's source, or its id is that of another too.
Housed(docs) ==
    \A d \in DOMAIN docs :
       docs[d].space # NoPlace /\ ~IsShared(d) => docs[d].source = NativeOf[docs[d].space]

SpacesAreNative(sps) == DOMAIN sps \subseteq Spaces /\ \A sp \in DOMAIN sps : sps[sp] = NativeOf[sp]

DocsOf(docs, s) == {d \in DOMAIN docs : docs[d].source = s}

\* What is not a source's, and not marked, has no documents and no spaces: a new
\* source may begin with none.
CountsAgree(lib, docs, sps, U) ==
    /\ \A s \in DOMAIN lib : lib[s] \in SourceRows
    /\ \A s \in DOMAIN lib \ U : lib[s].count = Cardinality(DocsOf(docs, s))
    /\ \A d \in DOMAIN docs : docs[d].source \in DOMAIN lib \cup U
    /\ \A sp \in DOMAIN sps : sps[sp] \in DOMAIN lib \cup U

ShelvesInv ==
    /\ Indexed(documents, index, torn)
    /\ Addressed(documents)
    /\ Housed(documents)
    /\ SpacesAreNative(spaces)
    /\ CountsAgree(library, documents, spaces, uncounted)

-----------------------------------------------------------------------------
(* The pieces of a step.                                                   *)

LEMMA LessIs ==
    ASSUME NEW f, NEW S
    PROVE  /\ DOMAIN Less(f, S) = DOMAIN f \ S
           /\ \A x \in DOMAIN f \ S : Less(f, S)[x] = f[x]
BY DEF Less

LEMMA MapIs ==
    ASSUME NEW D, NEW R, NEW f \in Maps(D, R)
    PROVE  DOMAIN f \subseteq D /\ f \in [DOMAIN f -> R] /\ \A x \in DOMAIN f : f[x] \in R
BY DEF Maps

LEMMA PutIn ==
    ASSUME NEW D, NEW R, NEW f \in Maps(D, R), NEW k \in D, NEW v \in R
    PROVE  Put(f, k, v) \in Maps(D, R)
<1>1. DOMAIN f \cup {k} \in SUBSET D /\ \A x \in DOMAIN f : f[x] \in R
  BY MapIs
<1>2. Put(f, k, v) \in [DOMAIN f \cup {k} -> R]
  BY <1>1 DEF Put
<1>3. QED
  BY <1>1, <1>2 DEF Maps

LEMMA LessIn ==
    ASSUME NEW D, NEW R, NEW f \in Maps(D, R), NEW S
    PROVE  Less(f, S) \in Maps(D, R)
<1>1. DOMAIN f \ S \in SUBSET D /\ \A x \in DOMAIN f : f[x] \in R
  BY MapIs
<1>2. Less(f, S) \in [DOMAIN f \ S -> R]
  BY <1>1 DEF Less
<1>3. QED
  BY <1>1, <1>2 DEF Maps

LEMMA AddressIs ==
    ASSUME NEW a \in Addresses
    PROVE  a = <<a[1], a[2]>> /\ a[1] \in SourceIds /\ DocOf[a] \in Docs
<1>1. a \in SourceIds \X {b[2] : b \in Addresses}
  BY KnowledgeConstants
<1>2. a = <<a[1], a[2]>> /\ a[1] \in SourceIds
  BY <1>1
<1>3. QED
  BY <1>2 DEF Docs

LEMMA OnlyAddress ==
    ASSUME NEW a \in Addresses, NEW b \in Addresses, DocOf[a] = DocOf[b], ~IsShared(DocOf[a])
    PROVE  a = b
<1> SUFFICES ASSUME a # b
             PROVE  FALSE
  OBVIOUS
<1> DEFINE S == {c \in Addresses : DocOf[c] = DocOf[a]}
<1>1. IsFiniteSet(S)
  BY KnowledgeConstants, FS_Subset
<1>2. a \in S /\ b \in S
  OBVIOUS
<1>3. ~(Cardinality(S) > 1)
  BY DEF IsShared
<1> HIDE DEF S
<1>4. IsFiniteSet({a}) /\ Cardinality({a}) = 1
  BY FS_Singleton
<1>5. Cardinality({a} \cup {b}) = 2
  BY <1>4, FS_AddElement
<1>6. {a} \cup {b} \in SUBSET S
  BY <1>2
<1>7. Cardinality({a} \cup {b}) <= Cardinality(S) /\ Cardinality(S) \in Nat
  BY <1>1, <1>6, FS_Subset, FS_CardinalityType
<1>8. QED
  BY <1>3, <1>5, <1>7

LEMMA CountIsNat ==
    ASSUME NEW docs, Addressed(docs), NEW s
    PROVE  Cardinality(DocsOf(docs, s)) \in Nat
<1> DEFINE f == [a \in Addresses |-> DocOf[a]]
<1>1. f \in Surjection(Addresses, Docs)
  BY DEF Surjection, Docs
<1>2. IsFiniteSet(Docs)
  <2> HIDE DEF f
  <2>1. QED
    BY <1>1, KnowledgeConstants, FS_Surjection
<1>3. DocsOf(docs, s) \in SUBSET Docs
  BY MapIs DEF DocsOf, Addressed
<1>4. QED
  BY <1>2, <1>3, FS_Subset, FS_CardinalityType

\* A save changes no document's source, and one that it makes is of the source.
Grown(docs, more, s) ==
    /\ DOMAIN docs \subseteq DOMAIN more
    /\ \A d \in DOMAIN docs : more[d].source = docs[d].source
    /\ \A d \in DOMAIN more \ DOMAIN docs : more[d].source = s

LEMMA UpsertedIs ==
    ASSUME NEW docs \in Maps(Docs, Records), NEW addr \in Addresses, NEW doc \in Records,
           doc.source = addr[1], doc.ext = addr[2]
    PROVE  LET more == Upserted(docs, addr, doc)
               d == DocOf[addr]
           IN /\ more \in Maps(Docs, Records)
              /\ DOMAIN more = DOMAIN docs \cup {d}
              /\ \A x \in DOMAIN docs : x # d => more[x] = docs[x]
              /\ more[d] \in Records
              /\ more[d].text = doc.text /\ more[d].space = doc.space
              /\ more[d].published = doc.published
              /\ d \in DOMAIN docs => more[d].source = docs[d].source /\ more[d].ext = docs[d].ext
              /\ d \notin DOMAIN docs => more[d].source = addr[1] /\ more[d].ext = addr[2]
<1> DEFINE more == Upserted(docs, addr, doc)
           d == DocOf[addr]
           row == IF d \in DOMAIN docs
                  THEN [doc EXCEPT !.source = docs[d].source, !.ext = docs[d].ext] ELSE doc
<1>1. more = Put(docs, d, row)
  BY DEF Upserted
<1>2. /\ row \in Records /\ row.text = doc.text /\ row.space = doc.space /\ row.published = doc.published
      /\ d \in DOMAIN docs => row.source = docs[d].source /\ row.ext = docs[d].ext
      /\ d \notin DOMAIN docs => row.source = addr[1] /\ row.ext = addr[2]
  <2>1. CASE d \in DOMAIN docs
    <3>1. docs[d] \in Records
      BY <2>1, MapIs
    <3>2. PICK s \in SourceIds, e \in {a[2] : a \in Addresses} : s = docs[d].source /\ e = docs[d].ext
      BY <3>1 DEF Records
    <3>3. PICK m : m = [doc EXCEPT !.source = s, !.ext = e]
      OBVIOUS
    <3>4. /\ m \in Records /\ m.text = doc.text /\ m.space = doc.space /\ m.published = doc.published
          /\ m.source = s /\ m.ext = e
      BY <3>3 DEF Records
    <3>5. row = m
      BY <2>1, <3>2, <3>3
    <3>6. QED
      BY <2>1, <3>2, <3>4, <3>5
  <2>2. CASE d \notin DOMAIN docs
    BY <2>2
  <2>3. QED
    BY <2>1, <2>2
<1> HIDE DEF row, more
<1>3. DOMAIN more = DOMAIN docs \cup {d} /\ more[d] = row /\ \A x \in DOMAIN docs : x # d => more[x] = docs[x]
  BY <1>1 DEF Put
<1>4. more \in Maps(Docs, Records)
  <2>1. d \in Docs
    BY AddressIs
  <2>2. QED
    BY <1>1, <1>2, <2>1, PutIn
<1>5. QED
  BY <1>2, <1>3, <1>4 DEF more

LEMMA SaveGrows ==
    ASSUME NEW docs, Addressed(docs), NEW addr \in Addresses, NEW doc \in Records,
           doc.source = addr[1], doc.ext = addr[2]
    PROVE  Addressed(Upserted(docs, addr, doc)) /\ Grown(docs, Upserted(docs, addr, doc), addr[1])
<1> DEFINE more == Upserted(docs, addr, doc)
           d == DocOf[addr]
<1>1. /\ more \in Maps(Docs, Records) /\ DOMAIN more = DOMAIN docs \cup {d}
      /\ \A x \in DOMAIN docs : x # d => more[x] = docs[x]
      /\ d \in DOMAIN docs => more[d].source = docs[d].source /\ more[d].ext = docs[d].ext
      /\ d \notin DOMAIN docs => more[d].source = addr[1] /\ more[d].ext = addr[2]
  BY UpsertedIs DEF Addressed
<1> HIDE DEF more
<1>2. addr = <<addr[1], addr[2]>> /\ d \in Docs
  BY AddressIs
<1>3. Addressed(more)
  <2>2. ASSUME NEW x \in DOMAIN more
        PROVE  /\ <<more[x].source, more[x].ext>> \in Addresses
               /\ DocOf[<<more[x].source, more[x].ext>>] = x
    <3>1. CASE x # d
      BY <1>1, <3>1 DEF Addressed
    <3>2. CASE x = d /\ d \in DOMAIN docs
      BY <1>1, <3>2 DEF Addressed
    <3>3. CASE x = d /\ d \notin DOMAIN docs
      BY <1>1, <1>2, <3>3
    <3>4. QED
      BY <1>1, <3>1, <3>2, <3>3
  <2>3. QED
    BY <1>1, <2>2 DEF Addressed
<1>4. Grown(docs, more, addr[1])
  BY <1>1 DEF Grown
<1>5. QED
  BY <1>3, <1>4 DEF more

LEMMA SaveHouses ==
    ASSUME NEW docs, Addressed(docs), NEW addr \in Addresses, NEW doc \in Records,
           doc.source = addr[1], doc.ext = addr[2], Housed(docs),
           doc.space # NoPlace /\ ~IsShared(DocOf[addr]) => addr[1] = NativeOf[doc.space]
    PROVE  Housed(Upserted(docs, addr, doc))
<1> DEFINE more == Upserted(docs, addr, doc)
           d == DocOf[addr]
<1>1. /\ DOMAIN more = DOMAIN docs \cup {d}
      /\ \A x \in DOMAIN docs : x # d => more[x] = docs[x]
      /\ more[d].space = doc.space
      /\ d \in DOMAIN docs => more[d].source = docs[d].source
      /\ d \notin DOMAIN docs => more[d].source = addr[1]
  <2>1. docs \in Maps(Docs, Records)
    BY DEF Addressed
  <2>2. QED
    BY <2>1, UpsertedIs
<1> HIDE DEF more
<1>2. ASSUME NEW x \in DOMAIN more, more[x].space # NoPlace, ~IsShared(x)
      PROVE  more[x].source = NativeOf[more[x].space]
  <2>1. CASE x # d
    BY <1>1, <1>2, <2>1 DEF Housed
  <2>2. CASE x = d
    <3>1. addr[1] = NativeOf[doc.space]
      BY <1>1, <1>2, <2>2
    <3>2. CASE d \in DOMAIN docs
      <4>1. PICK b \in Addresses : b = <<docs[d].source, docs[d].ext>> /\ DocOf[b] = d
        BY <3>2 DEF Addressed
      <4>2. b = addr
        BY <1>2, <2>2, <4>1, OnlyAddress
      <4>3. docs[d].source = addr[1]
        BY <4>1, <4>2
      <4>4. QED
        BY <1>1, <2>2, <3>1, <3>2, <4>3
    <3>3. CASE d \notin DOMAIN docs
      BY <1>1, <2>2, <3>1, <3>3
    <3>4. QED
      BY <3>2, <3>3
  <2>3. QED
    BY <2>1, <2>2
<1>3. Housed(more)
  BY <1>2 DEF Housed
<1>4. QED
  BY <1>3 DEF more

LEMMA SaveIndexes ==
    ASSUME NEW docs \in Maps(Docs, Records), NEW addr \in Addresses, NEW doc \in Records,
           doc.source = addr[1], doc.ext = addr[2], NEW ix, NEW T, Indexed(docs, ix, T)
    PROVE  LET more == Upserted(docs, addr, doc)
           IN Indexed(more, Reindexed(ix, DocOf[addr], more[DocOf[addr]]), T \ {DocOf[addr]})
<1> DEFINE more == Upserted(docs, addr, doc)
           d == DocOf[addr]
           ix1 == Reindexed(ix, d, more[d])
<1>1. /\ DOMAIN more = DOMAIN docs \cup {d}
      /\ \A x \in DOMAIN docs : x # d => more[x] = docs[x]
      /\ more[d].text \in Contents
  <2>1. more[d] \in Records
    BY UpsertedIs
  <2>2. more[d].text \in Contents
    BY <2>1 DEF Records
  <2>3. QED
    BY <2>2, UpsertedIs
<1> HIDE DEF more
<1>0. ix1 \in Maps(Docs, Contents)
  <2>1. ix \in Maps(Docs, Contents) /\ d \in Docs
    BY AddressIs DEF Indexed
  <2>2. QED
    BY <1>1, <2>1, PutIn, LessIn DEF Reindexed
<1>2. /\ DOMAIN ix1 \ {d} = DOMAIN ix \ {d}
      /\ \A x \in DOMAIN ix : x # d => ix1[x] = ix[x]
      /\ IF more[d].published THEN d \in DOMAIN ix1 /\ ix1[d] = more[d].text ELSE d \notin DOMAIN ix1
  <2>1. CASE more[d].published
    <3>1. ix1 = Put(ix, d, more[d].text)
      BY <2>1 DEF Reindexed
    <3> HIDE DEF ix1
    <3>2. QED
      BY <2>1, <3>1 DEF Put
  <2>2. CASE ~more[d].published
    <3>1. ix1 = Less(ix, {d})
      BY <2>2 DEF Reindexed
    <3> HIDE DEF ix1
    <3>2. QED
      BY <2>2, <3>1 DEF Less
  <2>3. QED
    BY <2>1, <2>2
<1> HIDE DEF ix1
<1>3. DOMAIN ix1 \subseteq DOMAIN more
  BY <1>1, <1>2 DEF Indexed
<1>4. ASSUME NEW x \in DOMAIN more \ (T \ {d})
      PROVE  IF more[x].published THEN x \in DOMAIN ix1 /\ ix1[x] = more[x].text ELSE x \notin DOMAIN ix1
  <2>1. CASE x = d
    BY <1>2, <2>1
  <2>2. CASE x # d
    BY <1>1, <1>2, <2>2 DEF Indexed
  <2>3. QED
    BY <2>1, <2>2
<1>5. Indexed(more, ix1, T \ {d})
  BY <1>0, <1>3, <1>4 DEF Indexed
<1>6. QED
  BY <1>5 DEF more, ix1

\* What SavedDocs folds, and the fold.
Shelves == [docs : Maps(Docs, Records), ix : Maps(Docs, Contents)]

SavedFrom(base, addrs, text) == FoldLeft(LAMBDA acc, a : SavedAlso(acc, a, text), base, addrs)

LEMMA PushedIs ==
    ASSUME NEW a \in Addresses, NEW text \in Contents
    PROVE  /\ Pushed(a, text) \in Records /\ Pushed(a, text).source = a[1]
           /\ Pushed(a, text).ext = a[2] /\ Pushed(a, text).space = NoPlace
<1>1. a[1] \in SourceIds /\ a[2] \in {b[2] : b \in Addresses}
  BY AddressIs
<1>2. QED
  BY <1>1 DEF Pushed, Records

LEMMA SavedAlsoIs ==
    ASSUME NEW acc \in Shelves, NEW a \in Addresses, NEW text \in Contents
    PROVE  SavedAlso(acc, a, text) \in Shelves
<1> DEFINE docs == Upserted(acc.docs, a, Pushed(a, text))
           ix == Reindexed(acc.ix, DocOf[a], docs[DocOf[a]])
<1>1. acc.docs \in Maps(Docs, Records) /\ acc.ix \in Maps(Docs, Contents)
  BY DEF Shelves
<1>2. docs \in Maps(Docs, Records) /\ docs[DocOf[a]] \in Records
  BY <1>1, PushedIs, UpsertedIs
<1> HIDE DEF docs
<1>3. docs[DocOf[a]].text \in Contents /\ DocOf[a] \in Docs
  BY <1>2, AddressIs DEF Records
<1>4. ix \in Maps(Docs, Contents)
  BY <1>1, <1>3, PutIn, LessIn DEF Reindexed
<1> HIDE DEF ix
<1>5. [docs |-> docs, ix |-> ix] \in Shelves
  BY <1>2, <1>4 DEF Shelves
<1>6. QED
  BY <1>5 DEF SavedAlso, docs, ix

LEMMA SavedSteps ==
    ASSUME NEW text \in Contents
    PROVE  [p \in Shelves \X Addresses |-> SavedAlso(p[1], p[2], text)] \in [Shelves \X Addresses -> Shelves]
<1>1. \A x \in Shelves, a \in Addresses : SavedAlso(x, a, text) \in Shelves
  BY SavedAlsoIs
<1>2. QED
  BY <1>1

LEMMA SavedIsFolding ==
    ASSUME NEW text \in Contents, NEW base \in Shelves, NEW xs \in Seq(Addresses)
    PROVE  SavedFrom(base, xs, text) =
              Folding(Addresses, Shelves, base, [p \in Shelves \X Addresses |-> SavedAlso(p[1], p[2], text)])[xs]
<1> DEFINE n == Len(xs)
           step == [p \in Shelves \X Addresses |-> SavedAlso(p[1], p[2], text)]
           IsIter(g) == g = [t \in SUBSET (1 .. n) |->
                               IF t = {} THEN base
                               ELSE SavedAlso(g[t \ {Max(t)}], xs[Max(t)], text)]
           chosen == CHOOSE g : IsIter(g)
<1>1. CanFold(Addresses, Shelves, base, step)
  BY SavedSteps DEF CanFold, Steps
<1>2. n \in Nat /\ DOMAIN xs = 1 .. n /\ \A i \in 1 .. n : xs[i] \in Addresses
  OBVIOUS
<1>3. SavedFrom(base, xs, text) = chosen[1 .. n]
  BY <1>2, Zenon DEF SavedFrom, FoldLeft, MapThenFoldSet
<1>4. ASSUME NEW t \in SUBSET (1 .. n), t # {}
      PROVE  Max(t) \in 1 .. n
  BY <1>2, <1>4, GreatestIs
<1>5. ASSUME NEW x \in Shelves, NEW i \in 1 .. n
      PROVE  step[<<x, xs[i]>>] = SavedAlso(x, xs[i], text)
  BY <1>2, Zenon
<1> HIDE DEF step
<1>6. \E g : IsIter(g)
  <2>1. PICK g : OnPositions(g, xs, Shelves, base, step)
    BY <1>1, FoldOfPositions
  <2>2. \A t \in SUBSET (1 .. n) :
           t # {} => g[t] = SavedAlso(g[t \ {Max(t)}], xs[Max(t)], text)
    BY <1>5, <2>1, Zenon DEF OnPositions
  <2>3. IsIter(g)
    BY <2>1, <2>2 DEF OnPositions
  <2>4. QED
    BY <2>3
<1>7. IsIter(chosen)
  <2> HIDE DEF IsIter
  <2>1. QED
    BY <1>6
<1> HIDE DEF chosen
<1>8. chosen[{}] = base
  BY <1>7
<1>9. ASSUME NEW t \in SUBSET (1 .. n), t # {}, chosen[t \ {Max(t)}] \in Shelves
      PROVE  chosen[t] = step[<<chosen[t \ {Max(t)}], xs[Max(t)]>>]
  <2>1. chosen[t] = SavedAlso(chosen[t \ {Max(t)}], xs[Max(t)], text)
    BY <1>7, <1>9
  <2>2. QED
    BY <1>4, <1>5, <1>9, <2>1, Zenon
<1>10. OnPositionsIn(chosen, xs, Shelves, base, step)
  BY <1>8, <1>9 DEF OnPositionsIn
<1>11. chosen[1 .. n] = Folding(Addresses, Shelves, base, step)[xs]
  BY <1>1, <1>10, FoldOfAll
<1>12. QED
  BY <1>3, <1>11 DEF step

LEMMA SavedFromIs ==
    ASSUME NEW text \in Contents, NEW base \in Shelves
    PROVE  /\ SavedFrom(base, <<>>, text) = base
           /\ \A xs \in Seq(Addresses) : SavedFrom(base, xs, text) \in Shelves
           /\ \A xs \in Seq(Addresses), a \in Addresses :
                 SavedFrom(base, Append(xs, a), text) = SavedAlso(SavedFrom(base, xs, text), a, text)
<1> DEFINE step == [p \in Shelves \X Addresses |-> SavedAlso(p[1], p[2], text)]
           F == Folding(Addresses, Shelves, base, step)
<1>1. CanFold(Addresses, Shelves, base, step)
  BY SavedSteps DEF CanFold, Steps
<1>2. IsFolding(F, Addresses, Shelves, base, step)
  <2> HIDE DEF step
  <2>1. QED
    BY <1>1, FoldingIs
<1>3. \A xs \in Seq(Addresses) : SavedFrom(base, xs, text) = F[xs]
  BY SavedIsFolding
<1> HIDE DEF F
<1>4. <<>> \in Seq(Addresses) /\ \A xs \in Seq(Addresses), a \in Addresses : Append(xs, a) \in Seq(Addresses)
  OBVIOUS
<1>6. \A x \in Shelves, a \in Addresses : step[<<x, a>>] = SavedAlso(x, a, text)
  BY Zenon
<1> HIDE DEF step
<1>5. \A xs \in Seq(Addresses) : F[xs] \in Shelves
  BY <1>2 DEF IsFolding
<1>7. \A xs \in Seq(Addresses), a \in Addresses : F[Append(xs, a)] = SavedAlso(F[xs], a, text)
  BY <1>2, <1>5, <1>6 DEF IsFolding
<1>8. F[<<>>] = base
  BY <1>2 DEF IsFolding
<1>9. QED
  BY <1>3, <1>4, <1>5, <1>7, <1>8

LEMMA GrownMore ==
    ASSUME NEW x, NEW y, NEW z, NEW s, Grown(x, y, s), Grown(y, z, s)
    PROVE  Grown(x, z, s)
BY DEF Grown

IdsOf(xs) == {DocOf[xs[i]] : i \in DOMAIN xs}

\* The documents that are saved in turn, as far as they got.
SavedWell(base, T, s, xs, acc) ==
    /\ acc \in Shelves /\ Addressed(acc.docs) /\ Housed(acc.docs)
    /\ Indexed(acc.docs, acc.ix, T \ IdsOf(xs)) /\ Grown(base.docs, acc.docs, s)

LEMMA SavedAlsoWell ==
    ASSUME NEW base, NEW T, NEW s, NEW xs \in Seq(Addresses), NEW acc, SavedWell(base, T, s, xs, acc),
           NEW a \in Addresses, a[1] = s, NEW text \in Contents
    PROVE  SavedWell(base, T, s, Append(xs, a), SavedAlso(acc, a, text))
<1> DEFINE docs == Upserted(acc.docs, a, Pushed(a, text))
           ix == Reindexed(acc.ix, DocOf[a], docs[DocOf[a]])
           next == SavedAlso(acc, a, text)
<1>1. next = [docs |-> docs, ix |-> ix]
  BY DEF SavedAlso
<1>2. next \in Shelves
  BY SavedAlsoIs DEF SavedWell
<1>3. Addressed(docs) /\ Grown(acc.docs, docs, s)
  BY PushedIs, SaveGrows DEF SavedWell
<1>4. Housed(docs)
  BY PushedIs, SaveHouses DEF SavedWell
<1>5. Indexed(docs, ix, (T \ IdsOf(xs)) \ {DocOf[a]})
  BY PushedIs, SaveIndexes DEF SavedWell, Addressed
<1>6. IdsOf(Append(xs, a)) = IdsOf(xs) \cup {DocOf[a]}
  <2>1. /\ DOMAIN xs = 1 .. Len(xs) /\ Len(xs) \in Nat /\ DOMAIN Append(xs, a) = 1 .. Len(xs) + 1
        /\ \A i \in 1 .. Len(xs) : Append(xs, a)[i] = xs[i]
        /\ Append(xs, a)[Len(xs) + 1] = a
    BY AppendProperties
  <2>2. \A i \in 1 .. Len(xs) + 1 : i \in 1 .. Len(xs) \/ i = Len(xs) + 1
    BY <2>1
  <2>3. \A i \in 1 .. Len(xs) : i \in 1 .. Len(xs) + 1
    BY <2>1
  <2>4. Len(xs) + 1 \in 1 .. Len(xs) + 1
    BY <2>1
  <2>5. IdsOf(Append(xs, a)) \subseteq IdsOf(xs) \cup {DocOf[a]}
    BY <2>1, <2>2 DEF IdsOf
  <2>6. IdsOf(xs) \cup {DocOf[a]} \subseteq IdsOf(Append(xs, a))
    BY <2>1, <2>3, <2>4 DEF IdsOf
  <2>7. QED
    BY <2>5, <2>6
<1>7. (T \ IdsOf(xs)) \ {DocOf[a]} = T \ IdsOf(Append(xs, a))
  BY <1>6
<1>8. Grown(base.docs, docs, s)
  BY <1>3, GrownMore DEF SavedWell
<1> HIDE DEF docs, ix, next
<1>9. next.docs = docs /\ next.ix = ix
  BY <1>1
<1>10. SavedWell(base, T, s, Append(xs, a), next)
  BY <1>2, <1>3, <1>4, <1>5, <1>7, <1>8, <1>9 DEF SavedWell
<1>11. QED
  BY <1>10 DEF next

LEMMA SavedFromWell ==
    ASSUME NEW T, NEW s, NEW text \in Contents, NEW base \in Shelves, Addressed(base.docs),
           Housed(base.docs), Indexed(base.docs, base.ix, T)
    PROVE  \A xs \in Seq(OfSource(s)) : SavedWell(base, T, s, xs, SavedFrom(base, xs, text))
<1> DEFINE E == OfSource(s)
           U == {xs \in Seq(E) : SavedWell(base, T, s, xs, SavedFrom(base, xs, text))}
<1>1. \A a \in E : a \in Addresses /\ a[1] = s
  BY DEF OfSource
<1>2. \A xs \in Seq(E) : xs \in Seq(Addresses)
  <2>1. E \subseteq Addresses
    BY <1>1
  <2> HIDE DEF E
  <2>2. QED
    BY <2>1
<1> HIDE DEF E
<1>3. <<>> \in U
  <2>1. IdsOf(<<>>) = {} /\ T \ {} = T /\ <<>> \in Seq(E)
    BY DEF IdsOf
  <2>2. SavedFrom(base, <<>>, text) = base
    BY SavedFromIs
  <2>3. Grown(base.docs, base.docs, s)
    BY DEF Grown
  <2>4. SavedWell(base, T, s, <<>>, base)
    BY <2>1, <2>3 DEF SavedWell
  <2>5. QED
    BY <2>1, <2>2, <2>4
<1>4. ASSUME NEW xs \in Seq(E), NEW a \in E, xs \in U
      PROVE  Append(xs, a) \in U
  <2>1. SavedWell(base, T, s, xs, SavedFrom(base, xs, text)) /\ xs \in Seq(Addresses)
    BY <1>2, <1>4
  <2>2. a \in Addresses /\ a[1] = s
    BY <1>1
  <2>3. SavedWell(base, T, s, Append(xs, a), SavedAlso(SavedFrom(base, xs, text), a, text))
    BY <2>1, <2>2, SavedAlsoWell
  <2>4. SavedFrom(base, Append(xs, a), text) = SavedAlso(SavedFrom(base, xs, text), a, text)
    BY <2>1, <2>2, SavedFromIs
  <2>5. Append(xs, a) \in Seq(E)
    OBVIOUS
  <2>6. QED
    BY <2>3, <2>4, <2>5
<1> HIDE DEF U
<1>5. \A xs \in Seq(E) : xs \in U
  BY <1>3, <1>4, SeqInduction
<1>6. QED
  BY <1>5 DEF U, E

LEMMA SetToSeqIs ==
    ASSUME NEW S, IsFiniteSet(S)
    PROVE  SetToSeq(S) \in Seq(S) /\ S = {SetToSeq(S)[i] : i \in DOMAIN SetToSeq(S)}
<1> DEFINE n == Cardinality(S)
           f == SetToSeq(S)
<1>1. n \in Nat /\ ExistsBijection(1 .. n, S)
  BY FS_CardinalityType
<1>2. \E g \in [1 .. n -> S] : IsInjective(g)
  BY <1>1 DEF ExistsBijection, Bijection, Injection
<1>3. f \in [1 .. n -> S] /\ IsInjective(f)
  <2>1. f = CHOOSE g \in [1 .. n -> S] : IsInjective(g)
    BY DEF SetToSeq
  <2> HIDE DEF f
  <2>2. QED
    BY <1>2, <2>1, Zenon
<1> HIDE DEF f
<1>4. f \in Injection(1 .. n, S)
  BY <1>3 DEF Injection
<1>5. Cardinality(1 .. n) = n
  BY <1>1, FS_Interval
<1>6. f \in Surjection(1 .. n, S)
  BY <1>4, <1>5, FS_Injection
<1>7. f \in Seq(S) /\ DOMAIN f = 1 .. n
  BY <1>1, <1>3
<1>8. S = {f[i] : i \in 1 .. n}
  BY <1>3, <1>6 DEF Surjection
<1>9. QED
  BY <1>7, <1>8 DEF f

LEMMA StoredIs ==
    ASSUME NEW s, NEW addrs \in SUBSET OfSource(s), NEW text \in Contents, Stored(addrs, text),
           Addressed(documents), Housed(documents), Indexed(documents, index, torn)
    PROVE  /\ Addressed(documents') /\ Housed(documents')
           /\ Indexed(documents', index', torn')
           /\ Grown(documents, documents', s)
<1> DEFINE base == [docs |-> documents, ix |-> index]
           xs == SetToSeq(addrs)
           acc == SavedFrom(base, xs, text)
<1>1. base \in Shelves /\ base.docs = documents /\ base.ix = index
  BY DEF Shelves, Addressed, Indexed
<1>2. xs \in Seq(addrs) /\ addrs = {xs[i] : i \in DOMAIN xs}
  <2>1. addrs \subseteq Addresses
    BY DEF OfSource
  <2>2. IsFiniteSet(addrs)
    BY <2>1, KnowledgeConstants, FS_Subset
  <2>3. QED
    BY <2>2, SetToSeqIs
<1>3. SavedDocs(addrs, text) = acc
  BY DEF SavedDocs, SavedFrom
<1> HIDE DEF base, xs
<1>4. xs \in Seq(OfSource(s))
  <2>1. addrs \subseteq OfSource(s)
    OBVIOUS
  <2> HIDE DEF xs
  <2>2. QED
    BY <1>2, <2>1
<1>5. SavedWell(base, torn, s, xs, acc)
  BY <1>1, <1>4, SavedFromWell
<1>6. IdsOf(xs) = {DocOf[a] : a \in addrs}
  BY <1>2 DEF IdsOf
<1> HIDE DEF acc
<1>7. documents' = acc.docs /\ index' = acc.ix /\ torn' = torn \ IdsOf(xs)
  BY <1>3, <1>6 DEF Stored
<1>8. QED
  BY <1>1, <1>5, <1>7 DEF SavedWell

-----------------------------------------------------------------------------
(* Documents that come and go, and what is counted.                         *)

LEMMA GrownOf ==
    ASSUME NEW docs, NEW more, NEW s, Grown(docs, more, s), NEW x, x # s
    PROVE  DocsOf(more, x) = DocsOf(docs, x)
BY DEF Grown, DocsOf

LEMMA CountedKeeps ==
    ASSUME NEW lib, NEW docs, NEW sps, NEW U, CountsAgree(lib, docs, sps, U),
           NEW more, Addressed(more), NEW s \in DOMAIN lib, Grown(docs, more, s)
    PROVE  CountsAgree(Counted(lib, more, s), more, sps, U \ {s})
<1> DEFINE n == Cardinality(DocsOf(more, s))
           lib1 == [lib EXCEPT ![s].count = n]
<1>1. Counted(lib, more, s) = lib1
  BY DEF Counted, DocsOf
<1>2. n \in Nat
  BY CountIsNat
<1>3. lib[s] \in SourceRows
  BY DEF CountsAgree
<1> HIDE DEF n
<1>4. PICK row : row = [lib[s] EXCEPT !.count = n]
  OBVIOUS
<1>5. row \in SourceRows /\ row.count = n
  BY <1>2, <1>3, <1>4 DEF SourceRows
<1>6. DOMAIN lib1 = DOMAIN lib /\ lib1[s] = row /\ \A x \in DOMAIN lib : x # s => lib1[x] = lib[x]
  BY <1>4
<1> HIDE DEF lib1
<1>7. \A x \in DOMAIN lib1 : lib1[x] \in SourceRows
  BY <1>5, <1>6 DEF CountsAgree
<1>8. ASSUME NEW x \in DOMAIN lib1 \ (U \ {s})
      PROVE  lib1[x].count = Cardinality(DocsOf(more, x))
  <2>1. CASE x = s
    BY <1>5, <1>6, <2>1 DEF n
  <2>2. CASE x # s
    <3>1. DocsOf(more, x) = DocsOf(docs, x)
      BY <2>2, GrownOf
    <3>2. lib[x].count = Cardinality(DocsOf(docs, x))
      BY <1>6, <1>8, <2>2 DEF CountsAgree
    <3>3. QED
      BY <1>6, <2>2, <3>1, <3>2
  <2>3. QED
    BY <2>1, <2>2
<1>9. \A d \in DOMAIN more : more[d].source \in DOMAIN lib \cup (U \ {s})
  BY DEF Grown, CountsAgree
<1>10. \A sp \in DOMAIN sps : sps[sp] \in DOMAIN lib \cup (U \ {s})
  BY DEF CountsAgree
<1>11. CountsAgree(lib1, more, sps, U \ {s})
  BY <1>6, <1>7, <1>8, <1>9, <1>10 DEF CountsAgree
<1>12. QED
  BY <1>1, <1>11

LEMMA MarkedKeeps ==
    ASSUME NEW lib, NEW docs, NEW sps, NEW U, CountsAgree(lib, docs, sps, U),
           NEW more, NEW s, Grown(docs, more, s)
    PROVE  CountsAgree(lib, more, sps, U \cup {s})
<1>1. ASSUME NEW x \in DOMAIN lib \ (U \cup {s})
      PROVE  lib[x].count = Cardinality(DocsOf(more, x))
  <2>1. DocsOf(more, x) = DocsOf(docs, x)
    BY <1>1, GrownOf
  <2>2. QED
    BY <2>1 DEF CountsAgree
<1>2. \A d \in DOMAIN more : more[d].source \in DOMAIN lib \cup (U \cup {s})
  BY DEF Grown, CountsAgree
<1>3. QED
  BY <1>1, <1>2 DEF CountsAgree

LEMMA RemovedOf ==
    ASSUME NEW docs, NEW s
    PROVE  /\ DocsOf(Less(docs, DocsOf(docs, s)), s) = {}
           /\ \A x : x # s => DocsOf(Less(docs, DocsOf(docs, s)), x) = DocsOf(docs, x)
           /\ \A d \in DOMAIN Less(docs, DocsOf(docs, s)) :
                 d \in DOMAIN docs /\ Less(docs, DocsOf(docs, s))[d] = docs[d] /\ docs[d].source # s
<1> DEFINE left == Less(docs, DocsOf(docs, s))
<1>1. /\ DOMAIN left = DOMAIN docs \ DocsOf(docs, s)
      /\ \A x \in DOMAIN docs \ DocsOf(docs, s) : left[x] = docs[x]
  BY LessIs
<1> HIDE DEF left
<1>2. \A d \in DOMAIN left : d \in DOMAIN docs /\ left[d] = docs[d] /\ docs[d].source # s
  BY <1>1 DEF DocsOf
<1>3. \A d \in DOMAIN docs : docs[d].source # s => d \in DOMAIN left
  BY <1>1 DEF DocsOf
<1>4. DocsOf(left, s) = {}
  BY <1>2 DEF DocsOf
<1>5. ASSUME NEW x, x # s
      PROVE  DocsOf(left, x) = DocsOf(docs, x)
  BY <1>2, <1>3, <1>5 DEF DocsOf
<1>6. QED
  BY <1>2, <1>4, <1>5 DEF left

LEMMA RemovedKeeps ==
    ASSUME NEW docs, NEW ix, NEW T, NEW S,
           Addressed(docs), Housed(docs), Indexed(docs, ix, T)
    PROVE  /\ Addressed(Less(docs, S)) /\ Housed(Less(docs, S))
           /\ Indexed(Less(docs, S), Less(ix, S), T \ S)
           /\ Indexed(docs, Less(ix, S), T \cup S)
<1> DEFINE left == Less(docs, S)
           kept == Less(ix, S)
<1>1. /\ DOMAIN left = DOMAIN docs \ S /\ \A x \in DOMAIN left : left[x] = docs[x]
      /\ DOMAIN kept = DOMAIN ix \ S /\ \A x \in DOMAIN kept : kept[x] = ix[x]
  BY DEF Less
<1>2. left \in Maps(Docs, Records) /\ kept \in Maps(Docs, Contents)
  BY LessIn DEF Addressed, Indexed
<1> HIDE DEF left, kept
<1>3. Addressed(left)
  BY <1>1, <1>2 DEF Addressed
<1>4. Housed(left)
  BY <1>1 DEF Housed
<1>5. Indexed(left, kept, T \ S)
  BY <1>1, <1>2 DEF Indexed
<1>6. Indexed(docs, kept, T \cup S)
  BY <1>1, <1>2 DEF Indexed
<1>7. QED
  BY <1>3, <1>4, <1>5, <1>6 DEF left, kept

LEMMA FewerSpaces ==
    ASSUME SpacesAreNative(spaces), NEW s
    PROVE  /\ SpacesAreNative(Less(spaces, SpacesOf(s)))
           /\ \A sp \in DOMAIN Less(spaces, SpacesOf(s)) :
                 sp \in DOMAIN spaces /\ Less(spaces, SpacesOf(s))[sp] = spaces[sp] /\ spaces[sp] # s
BY DEF SpacesAreNative, Less, SpacesOf

LEMMA MoreSpaces ==
    ASSUME SpacesAreNative(spaces), NEW sp \in Spaces
    PROVE  SpacesAreNative(Put(spaces, sp, NativeOf[sp]))
BY DEF SpacesAreNative, Put

LEMMA NewSource ==
    ASSUME NEW lib, NEW docs, NEW sps, NEW U, CountsAgree(lib, docs, sps, U), NEW s, s \notin DOMAIN lib,
           NEW kind \in {"custom", "native"}
    PROVE  CountsAgree(Put(lib, s, Source(kind)), docs, sps, U)
<1> DEFINE lib1 == Put(lib, s, Source(kind))
<1>1. /\ DOMAIN lib1 = DOMAIN lib \cup {s} /\ lib1[s] = Source(kind)
      /\ \A x \in DOMAIN lib : lib1[x] = lib[x]
  BY DEF Put
<1> HIDE DEF lib1
<1>2. Source(kind) \in SourceRows /\ Source(kind).count = 0
  BY DEF Source, SourceRows
<1>3. ASSUME s \notin U
      PROVE  Cardinality(DocsOf(docs, s)) = 0
  <2>1. DocsOf(docs, s) = {}
    BY <1>3 DEF DocsOf, CountsAgree
  <2>2. QED
    BY <2>1, FS_EmptySet
<1>4. \A x \in DOMAIN lib1 : lib1[x] \in SourceRows
  BY <1>1, <1>2 DEF CountsAgree
<1>5. \A x \in DOMAIN lib1 \ U : lib1[x].count = Cardinality(DocsOf(docs, x))
  BY <1>1, <1>2, <1>3 DEF CountsAgree
<1>6. CountsAgree(lib1, docs, sps, U)
  BY <1>1, <1>4, <1>5 DEF CountsAgree
<1>7. QED
  BY <1>6 DEF lib1

-----------------------------------------------------------------------------
(* The steps.                                                              *)

LEMMA NothingStored ==
    ASSUME NEW text \in Contents, Stored({}, text), Addressed(documents), Indexed(documents, index, torn)
    PROVE  documents' = documents
<1> DEFINE base == [docs |-> documents, ix |-> index]
           xs == SetToSeq({})
<1>1. base \in Shelves /\ base.docs = documents
  BY DEF Shelves, Addressed, Indexed
<1>2. xs = <<>>
  <2>1. xs \in Seq({}) /\ {} = {xs[i] : i \in DOMAIN xs}
    BY FS_EmptySet, SetToSeqIs
  <2> HIDE DEF xs
  <2>2. DOMAIN xs = {}
    BY <2>1
  <2>3. QED
    BY <2>1, <2>2
<1>3. SavedDocs({}, text) = SavedFrom(base, xs, text)
  BY DEF SavedDocs, SavedFrom
<1> HIDE DEF base, xs
<1>4. SavedFrom(base, xs, text) = base
  BY <1>1, <1>2, SavedFromIs
<1>5. QED
  BY <1>1, <1>3, <1>4 DEF Stored

LEMMA IngestStays ==
    ASSUME ShelvesInv, NEW s, NEW addrs \in SUBSET OfSource(s), NEW text \in Contents,
           IngestDocuments(s, addrs, text)
    PROVE  ShelvesInv'
<1>1. /\ Addressed(documents') /\ Housed(documents') /\ Indexed(documents', index', torn')
      /\ Grown(documents, documents', s)
  BY StoredIs DEF ShelvesInv, IngestDocuments
<1>2. CountsAgree(Counted(library, documents', s), documents', spaces, uncounted \ {s})
  BY <1>1, CountedKeeps DEF ShelvesInv, IngestDocuments
<1>3. /\ library' = Counted(library, documents', s) /\ uncounted' = uncounted \ {s}
      /\ spaces' = spaces
  BY DEF IngestDocuments
<1>4. QED
  BY <1>1, <1>2, <1>3 DEF ShelvesInv

LEMMA SyncStays ==
    ASSUME ShelvesInv, NEW s, NEW addrs \in SUBSET OfSource(s), NEW text \in Contents,
           NEW fails, SyncSource(s, addrs, text, fails)
    PROVE  ShelvesInv'
<1>1. /\ Addressed(documents') /\ Housed(documents') /\ Indexed(documents', index', torn')
      /\ Grown(documents, documents', s)
  BY StoredIs DEF ShelvesInv, SyncSource
<1>2. spaces' = spaces
  BY DEF SyncSource
<1>3. CASE fails /\ addrs = {}
  <2>1. documents' = documents /\ library' = library /\ uncounted' = uncounted
    BY <1>3, NothingStored DEF SyncSource, ShelvesInv
  <2>2. QED
    BY <1>1, <1>2, <2>1 DEF ShelvesInv
<1>4. CASE fails /\ addrs # {}
  <2>1. library' = library /\ uncounted' = uncounted \cup {s}
    BY <1>4 DEF SyncSource
  <2>2. CountsAgree(library, documents', spaces, uncounted \cup {s})
    BY <1>1, MarkedKeeps DEF ShelvesInv
  <2>3. QED
    BY <1>1, <1>2, <2>1, <2>2 DEF ShelvesInv
<1>5. CASE ~fails
  <2>1. CountsAgree(Counted(library, documents', s), documents', spaces, uncounted \ {s})
    BY <1>1, CountedKeeps DEF ShelvesInv, SyncSource
  <2>2. library' = Counted(library, documents', s) /\ uncounted' = uncounted \ {s}
    BY <1>5 DEF SyncSource
  <2>3. QED
    BY <1>1, <1>2, <2>1, <2>2 DEF ShelvesInv
<1>6. QED
  BY <1>3, <1>4, <1>5

LEMMA SourceStays ==
    ASSUME ShelvesInv, NEW s,
           \/ \E kind \in {"custom", "native"} : CreateSource(s, kind)
           \/ \E status \in {"active", "paused"} : UpdateSource(s, status)
    PROVE  ShelvesInv'
<1>1. ASSUME NEW kind \in {"custom", "native"}, CreateSource(s, kind)
      PROVE  ShelvesInv'
  <2>1. CountsAgree(Put(library, s, Source(kind)), documents, spaces, uncounted)
    BY <1>1, NewSource DEF ShelvesInv, CreateSource
  <2>2. QED
    BY <1>1, <2>1 DEF ShelvesInv, CreateSource
<1>2. ASSUME NEW status \in {"active", "paused"}, UpdateSource(s, status)
      PROVE  ShelvesInv'
  <2>1. library[s] \in SourceRows /\ s \in DOMAIN library
    BY <1>2 DEF UpdateSource, ShelvesInv, CountsAgree
  <2>2. PICK row : row = [library[s] EXCEPT !.status = status]
    OBVIOUS
  <2>3. row \in SourceRows /\ row.count = library[s].count
    BY <2>1, <2>2 DEF SourceRows
  <2>4. /\ DOMAIN library' = DOMAIN library /\ library'[s] = row
        /\ \A x \in DOMAIN library : x # s => library'[x] = library[x]
    BY <1>2, <2>2 DEF UpdateSource
  <2>5. CountsAgree(library', documents, spaces, uncounted)
    BY <2>1, <2>3, <2>4 DEF CountsAgree, ShelvesInv
  <2>6. QED
    BY <1>2, <2>5 DEF ShelvesInv, UpdateSource
<1>3. QED
  BY <1>1, <1>2

LEMMA DeleteStays ==
    ASSUME ShelvesInv, NEW s, DeleteSource(s)
    PROVE  ShelvesInv'
<1> DEFINE gone == DocsOf(documents, s)
           left == Less(documents, gone)
           sps == Less(spaces, SpacesOf(s))
           lib == Less(library, {s})
<1>1. /\ documents' = left /\ index' = Less(index, gone) /\ torn' = torn \ gone
      /\ spaces' = sps /\ library' = lib /\ uncounted' = uncounted \ {s}
  BY DEF DeleteSource, DocsOf
<1>2. Addressed(left) /\ Housed(left) /\ Indexed(left, Less(index, gone), torn \ gone)
  BY RemovedKeeps DEF ShelvesInv
<1>3. /\ SpacesAreNative(sps)
      /\ \A sp \in DOMAIN sps : sp \in DOMAIN spaces /\ sps[sp] = spaces[sp] /\ spaces[sp] # s
  BY FewerSpaces DEF ShelvesInv
<1>4. /\ \A x : x # s => DocsOf(left, x) = DocsOf(documents, x)
      /\ \A d \in DOMAIN left : d \in DOMAIN documents /\ left[d] = documents[d] /\ documents[d].source # s
  BY RemovedOf
<1>5. DOMAIN lib = DOMAIN library \ {s} /\ \A x \in DOMAIN lib : lib[x] = library[x]
  BY DEF Less
<1> HIDE DEF left, sps, lib
<1>6. CountsAgree(lib, left, sps, uncounted \ {s})
  <2>1. CountsAgree(library, documents, spaces, uncounted)
    BY DEF ShelvesInv
  <2>2. \A x \in DOMAIN lib : lib[x] \in SourceRows
    BY <1>5, <2>1 DEF CountsAgree
  <2>3. \A x \in DOMAIN lib \ (uncounted \ {s}) : lib[x].count = Cardinality(DocsOf(left, x))
    BY <1>4, <1>5, <2>1 DEF CountsAgree
  <2>4. \A d \in DOMAIN left : left[d].source \in DOMAIN lib \cup (uncounted \ {s})
    BY <1>4, <1>5, <2>1 DEF CountsAgree
  <2>5. \A sp \in DOMAIN sps : sps[sp] \in DOMAIN lib \cup (uncounted \ {s})
    BY <1>3, <1>5, <2>1 DEF CountsAgree
  <2>6. QED
    BY <2>2, <2>3, <2>4, <2>5 DEF CountsAgree
<1>7. QED
  BY <1>1, <1>2, <1>3, <1>6 DEF ShelvesInv

LEMMA CreateSpaceStays ==
    ASSUME ShelvesInv, NEW sp \in Spaces, CreateSpace(sp)
    PROVE  ShelvesInv'
<1> DEFINE s == NativeOf[sp]
           sps == Put(spaces, sp, s)
<1>1. SpacesAreNative(sps)
  BY MoreSpaces DEF ShelvesInv
<1>2. CountsAgree(library', documents, spaces, uncounted)
  <2>1. CASE s \in DOMAIN library
    BY <2>1 DEF CreateSpace, ShelvesInv
  <2>2. CASE s \notin DOMAIN library
    BY <2>2, NewSource DEF CreateSpace, ShelvesInv
  <2>3. QED
    BY <2>1, <2>2
<1>3. s \in DOMAIN library'
  BY DEF CreateSpace, Put
<1>4. CountsAgree(library', documents, sps, uncounted)
  <2>1. \A x \in DOMAIN sps : x = sp \/ (x \in DOMAIN spaces /\ sps[x] = spaces[x])
    BY DEF Put
  <2>2. sps[sp] = s
    BY DEF Put
  <2> HIDE DEF s, sps
  <2>3. QED
    BY <1>2, <1>3, <2>1, <2>2 DEF CountsAgree
<1>5. QED
  BY <1>1, <1>4 DEF ShelvesInv, CreateSpace

LEMMA NativeStays ==
    ASSUME ShelvesInv, NEW addr \in Addresses, NEW doc \in Records,
           doc.source = addr[1], doc.ext = addr[2],
           doc.space # NoPlace /\ ~IsShared(DocOf[addr]) => addr[1] = NativeOf[doc.space],
           addr[1] \in DOMAIN library \cup uncounted, SaveNative(addr, doc), UNCHANGED spaces
    PROVE  ShelvesInv'
<1> DEFINE more == Upserted(documents, addr, doc)
           s == addr[1]
<1>1. /\ documents' = more /\ index' = Reindexed(index, DocOf[addr], more[DocOf[addr]])
      /\ torn' = torn \ {DocOf[addr]} /\ library' = Counted(library, more, s)
      /\ uncounted' = uncounted \ ({s} \cap DOMAIN library)
  BY DEF SaveNative
<1>2. Addressed(more) /\ Grown(documents, more, s)
  BY SaveGrows DEF ShelvesInv
<1>3. Housed(more)
  BY SaveHouses DEF ShelvesInv
<1>4. Indexed(more, Reindexed(index, DocOf[addr], more[DocOf[addr]]), torn \ {DocOf[addr]})
  BY SaveIndexes DEF ShelvesInv, Addressed
<1> HIDE DEF more
<1>5. CountsAgree(library', documents', spaces, uncounted')
  <2>1. CASE s \in DOMAIN library
    <3>1. CountsAgree(Counted(library, more, s), more, spaces, uncounted \ {s})
      BY <1>2, <2>1, CountedKeeps DEF ShelvesInv
    <3>2. {s} \cap DOMAIN library = {s}
      BY <2>1
    <3>3. QED
      BY <1>1, <3>1, <3>2
  <2>2. CASE s \notin DOMAIN library
    <3>1. CountsAgree(library, more, spaces, uncounted \cup {s})
      BY <1>2, MarkedKeeps DEF ShelvesInv
    <3>2. uncounted \cup {s} = uncounted /\ uncounted' = uncounted
      BY <1>1, <2>2
    <3>3. library' = library
      BY <1>1, <2>2 DEF Counted
    <3>4. QED
      BY <1>1, <3>1, <3>2, <3>3
  <2>3. QED
    BY <2>1, <2>2
<1>6. QED
  BY <1>1, <1>2, <1>3, <1>4, <1>5 DEF ShelvesInv

LEMMA CreateNativeStays ==
    ASSUME ShelvesInv, NEW sp \in Spaces, NEW addr \in Addresses, NEW text \in Contents,
           NEW f \in Folders \cup {NoPlace}, NEW shown \in BOOLEAN,
           CreateNativeDoc(sp, addr, text, f, shown)
    PROVE  ShelvesInv'
<1> DEFINE doc == [source |-> addr[1], ext |-> addr[2], text |-> text, space |-> sp,
                   folder |-> f, published |-> shown]
<1>1. addr[1] \in SourceIds /\ addr[2] \in {b[2] : b \in Addresses}
  BY AddressIs
<1>2. doc \in Records /\ doc.source = addr[1] /\ doc.ext = addr[2] /\ doc.space = sp
  BY <1>1 DEF Records
<1>3. /\ SaveNative(addr, doc) /\ sp \in DOMAIN spaces /\ spaces[sp] = addr[1] /\ UNCHANGED spaces
  BY DEF CreateNativeDoc
<1> HIDE DEF doc
<1>4. addr[1] = NativeOf[sp]
  BY <1>3 DEF ShelvesInv, SpacesAreNative
<1>5. addr[1] \in DOMAIN library \cup uncounted
  BY <1>3 DEF ShelvesInv, CountsAgree
<1>6. QED
  BY <1>2, <1>3, <1>4, <1>5, NativeStays

LEMMA UpdateNativeStays ==
    ASSUME ShelvesInv, NEW addr \in Addresses, NEW text \in Contents,
           NEW f \in Folders \cup {NoPlace}, NEW shown \in BOOLEAN,
           UpdateNativeDoc(addr, text, f, shown)
    PROVE  ShelvesInv'
<1> DEFINE d == DocOf[addr]
<1>1. /\ d \in DOMAIN documents /\ documents[d].source = addr[1] /\ documents[d].ext = addr[2]
      /\ addr[1] \in DOMAIN library
      /\ SaveNative(addr, [documents[d] EXCEPT !.text = text, !.folder = f, !.published = shown])
      /\ UNCHANGED spaces
  BY DEF UpdateNativeDoc
<1>2. documents[d] \in Records
  BY <1>1, MapIs DEF ShelvesInv, Addressed
<1>3. PICK doc : doc = [documents[d] EXCEPT !.text = text, !.folder = f, !.published = shown]
  OBVIOUS
<1>4. /\ doc \in Records /\ doc.source = documents[d].source /\ doc.ext = documents[d].ext
      /\ doc.space = documents[d].space
  BY <1>2, <1>3 DEF Records
<1>5. doc.space # NoPlace /\ ~IsShared(DocOf[addr]) => addr[1] = NativeOf[doc.space]
  BY <1>1, <1>4 DEF ShelvesInv, Housed
<1>6. QED
  BY <1>1, <1>3, <1>4, <1>5, NativeStays

LEMMA TornSaveStays ==
    ASSUME ShelvesInv, NEW addr \in Addresses, NEW doc \in Records,
           doc.source = addr[1], doc.ext = addr[2],
           doc.space # NoPlace /\ ~IsShared(DocOf[addr]) => addr[1] = NativeOf[doc.space],
           TornSave(addr, doc)
    PROVE  ShelvesInv'
<1> DEFINE more == Upserted(documents, addr, doc)
           d == DocOf[addr]
           less == Less(index, {d})
<1>1. /\ documents' = more /\ (index' = index \/ index' = less) /\ torn' = torn \cup {d}
      /\ uncounted' = uncounted \cup {addr[1]} /\ UNCHANGED <<library, spaces>>
  BY DEF TornSave
<1>2. Addressed(more) /\ Grown(documents, more, addr[1])
  BY SaveGrows DEF ShelvesInv
<1>3. Housed(more)
  BY SaveHouses DEF ShelvesInv
<1>4. CountsAgree(library, more, spaces, uncounted \cup {addr[1]})
  BY <1>2, MarkedKeeps DEF ShelvesInv
<1>5. /\ DOMAIN more = DOMAIN documents \cup {d}
      /\ \A x \in DOMAIN documents : x # d => more[x] = documents[x]
  BY UpsertedIs DEF ShelvesInv, Addressed
<1> HIDE DEF more
<1>6. Indexed(more, index, torn \cup {d})
  BY <1>5 DEF ShelvesInv, Indexed
<1>7. Indexed(more, less, torn \cup {d})
  <2>1. less \in Maps(Docs, Contents)
    BY LessIn DEF ShelvesInv, Indexed
  <2>2. DOMAIN less = DOMAIN index \ {d} /\ \A x \in DOMAIN less : less[x] = index[x]
    BY DEF Less
  <2> HIDE DEF less
  <2>3. QED
    BY <1>5, <2>1, <2>2 DEF ShelvesInv, Indexed
<1>8. Indexed(more, index', torn \cup {d})
  BY <1>1, <1>6, <1>7
<1>9. QED
  BY <1>1, <1>2, <1>3, <1>4, <1>8 DEF ShelvesInv

LEMMA TornDeleteStays ==
    ASSUME ShelvesInv, NEW s, TornDelete(s)
    PROVE  ShelvesInv'
<1> DEFINE gone == DocsOf(documents, s)
           left == Less(documents, gone)
           sps == Less(spaces, SpacesOf(s))
<1>1. /\ index' = Less(index, gone) /\ library' = library
      /\ \/ torn' = torn \cup gone /\ documents' = documents /\ spaces' = spaces /\ uncounted' = uncounted
         \/ /\ documents' = left /\ torn' = torn \ gone /\ uncounted' = uncounted \cup {s}
            /\ spaces' = spaces \/ spaces' = sps
  BY DEF TornDelete, DocsOf
<1>2. /\ Addressed(left) /\ Housed(left) /\ Indexed(left, Less(index, gone), torn \ gone)
      /\ Indexed(documents, Less(index, gone), torn \cup gone)
  BY RemovedKeeps DEF ShelvesInv
<1>3. /\ SpacesAreNative(sps)
      /\ \A sp \in DOMAIN sps : sp \in DOMAIN spaces /\ sps[sp] = spaces[sp] /\ spaces[sp] # s
  BY FewerSpaces DEF ShelvesInv
<1>4. /\ \A x : x # s => DocsOf(left, x) = DocsOf(documents, x)
      /\ \A d \in DOMAIN left : d \in DOMAIN documents /\ left[d] = documents[d] /\ documents[d].source # s
  BY RemovedOf
<1> HIDE DEF left, sps
<1>5. /\ CountsAgree(library, left, spaces, uncounted \cup {s})
      /\ CountsAgree(library, left, sps, uncounted \cup {s})
  <2>1. CountsAgree(library, documents, spaces, uncounted)
    BY DEF ShelvesInv
  <2>2. \A x \in DOMAIN library : library[x] \in SourceRows
    BY <2>1 DEF CountsAgree
  <2>3. \A x \in DOMAIN library \ (uncounted \cup {s}) : library[x].count = Cardinality(DocsOf(left, x))
    BY <1>4, <2>1 DEF CountsAgree
  <2>4. \A d \in DOMAIN left : left[d].source \in DOMAIN library \cup (uncounted \cup {s})
    BY <1>4, <2>1 DEF CountsAgree
  <2>5. \A sp \in DOMAIN spaces : spaces[sp] \in DOMAIN library \cup (uncounted \cup {s})
    BY <2>1 DEF CountsAgree
  <2>6. \A sp \in DOMAIN sps : sps[sp] \in DOMAIN library \cup (uncounted \cup {s})
    BY <1>3, <2>5
  <2>7. QED
    BY <2>2, <2>3, <2>4, <2>5, <2>6 DEF CountsAgree
<1> HIDE DEF gone
<1>6. CASE torn' = torn \cup gone /\ documents' = documents /\ spaces' = spaces /\ uncounted' = uncounted
  BY <1>1, <1>2, <1>6 DEF ShelvesInv
<1>7. CASE /\ documents' = left /\ torn' = torn \ gone /\ uncounted' = uncounted \cup {s}
           /\ spaces' = spaces
  BY <1>1, <1>2, <1>5, <1>7 DEF ShelvesInv
<1>8. CASE /\ documents' = left /\ torn' = torn \ gone /\ uncounted' = uncounted \cup {s}
           /\ spaces' = sps
  BY <1>1, <1>2, <1>3, <1>5, <1>8 DEF ShelvesInv
<1>9. QED
  BY <1>1, <1>6, <1>7, <1>8

LEMMA TornSpaceStays ==
    ASSUME ShelvesInv, NEW sp \in Spaces, TornSpace(sp)
    PROVE  ShelvesInv'
<1> DEFINE s == NativeOf[sp]
           sps == Put(spaces, sp, s)
<1>1. /\ spaces' = sps /\ uncounted' = uncounted \cup ({s} \ DOMAIN library)
      /\ UNCHANGED <<library, documents, index, torn>>
  BY DEF TornSpace
<1>2. SpacesAreNative(sps)
  BY MoreSpaces DEF ShelvesInv
<1>3. \A x \in DOMAIN sps : x = sp \/ (x \in DOMAIN spaces /\ sps[x] = spaces[x])
  BY DEF Put
<1>4. sps[sp] = s
  BY DEF Put
<1> HIDE DEF s, sps
<1>5. CountsAgree(library, documents, sps, uncounted')
  BY <1>1, <1>3, <1>4 DEF ShelvesInv, CountsAgree
<1>6. QED
  BY <1>1, <1>2, <1>5 DEF ShelvesInv

LEMMA DraftsIs ==
    ASSUME ShelvesInv, NEW addr \in Addresses, NEW text \in Contents, NEW shown \in BOOLEAN,
           \E sp \in DOMAIN spaces : spaces[sp] = addr[1]
    PROVE  LET doc == Drafts(addr, text, shown)
           IN /\ doc \in Records /\ doc.source = addr[1] /\ doc.ext = addr[2]
              /\ addr[1] = NativeOf[doc.space]
<1> DEFINE sp == CHOOSE x \in DOMAIN spaces : spaces[x] = addr[1]
           doc == Drafts(addr, text, shown)
<1>1. sp \in DOMAIN spaces /\ spaces[sp] = addr[1]
  OBVIOUS
<1>2. doc = [source |-> addr[1], ext |-> addr[2], text |-> text, published |-> shown,
             folder |-> NoPlace, space |-> sp]
  BY DEF Drafts
<1> HIDE DEF sp, doc
<1>3. sp \in Spaces /\ NativeOf[sp] = addr[1]
  BY <1>1 DEF ShelvesInv, SpacesAreNative
<1>4. addr[1] \in SourceIds /\ addr[2] \in {b[2] : b \in Addresses}
  BY AddressIs
<1>5. doc \in Records /\ doc.source = addr[1] /\ doc.ext = addr[2] /\ doc.space = sp
  BY <1>2, <1>3, <1>4 DEF Records
<1>6. QED
  BY <1>3, <1>5 DEF doc

LEMMA TornStays ==
    ASSUME ShelvesInv, TornNext
    PROVE  ShelvesInv'
<1>1. ASSUME NEW a \in Addresses, NEW t \in Contents, TornSave(a, Pushed(a, t))
      PROVE  ShelvesInv'
  BY <1>1, PushedIs, TornSaveStays
<1>2. ASSUME NEW a \in Addresses, NEW t \in Contents, NEW p \in BOOLEAN,
             \E sp \in DOMAIN spaces : spaces[sp] = a[1], TornSave(a, Drafts(a, t, p))
      PROVE  ShelvesInv'
  BY <1>2, DraftsIs, TornSaveStays
<1>3. QED
  BY <1>1, <1>2, TornDeleteStays, TornSpaceStays DEF TornNext

LEMMA ShelvesFromStart == KnowledgeInit => ShelvesInv
<1> SUFFICES ASSUME KnowledgeInit
             PROVE  ShelvesInv
  OBVIOUS
<1>1. /\ library = <<>> /\ documents = <<>> /\ index = <<>> /\ spaces = <<>>
      /\ DOMAIN <<>> = {}
  BY DEF KnowledgeInit
<1>2. \A D, R : <<>> \in Maps(D, R)
  <2>1. ASSUME NEW D, NEW R
        PROVE  <<>> \in [{} -> R]
    OBVIOUS
  <2>2. QED
    BY <2>1 DEF Maps
<1>3. Indexed(documents, index, torn) /\ Addressed(documents) /\ Housed(documents)
  BY <1>1, <1>2 DEF Indexed, Addressed, Housed
<1>4. SpacesAreNative(spaces) /\ CountsAgree(library, documents, spaces, uncounted)
  BY <1>1 DEF SpacesAreNative, CountsAgree
<1>5. QED
  BY <1>3, <1>4 DEF ShelvesInv

LEMMA ShelvesStay ==
    ASSUME ShelvesInv, [KnowledgeNext]_knowledgeVars
    PROVE  ShelvesInv'
<1>1. CASE UNCHANGED <<library, documents, index, spaces, torn, uncounted>>
  BY <1>1 DEF ShelvesInv
<1>2. ASSUME NEW s \in SourceIds,
             DeleteSource(s) \/ \E kind \in {"custom", "native"} : CreateSource(s, kind)
      PROVE  ShelvesInv'
  BY <1>2, DeleteStays, SourceStays
<1>3. ASSUME NEW s \in SourceIds, NEW status \in {"active", "paused"}, UpdateSource(s, status)
      PROVE  ShelvesInv'
  BY <1>3, SourceStays
<1>4. ASSUME NEW s \in SourceIds, NEW t \in Contents, NEW addrs \in SUBSET OfSource(s),
             \/ IngestDocuments(s, addrs, t)
             \/ \E fails \in BOOLEAN : SyncSource(s, addrs, t, fails)
      PROVE  ShelvesInv'
  BY <1>4, IngestStays, SyncStays
<1>5. ASSUME NEW sp \in Spaces, CreateSpace(sp)
      PROVE  ShelvesInv'
  BY <1>5, CreateSpaceStays
<1>6. ASSUME NEW sp \in Spaces, NEW f \in Folders, NEW p \in Folders \cup {NoPlace}, CreateFolder(sp, f, p)
      PROVE  ShelvesInv'
  BY <1>1, <1>6 DEF CreateFolder
<1>7. ASSUME NEW sp \in Spaces, NEW a \in Addresses, NEW t \in Contents,
             NEW f \in Folders \cup {NoPlace}, NEW p \in BOOLEAN, CreateNativeDoc(sp, a, t, f, p)
      PROVE  ShelvesInv'
  BY <1>7, CreateNativeStays
<1>8. ASSUME NEW a \in Addresses, NEW t \in Contents,
             NEW f \in Folders \cup {NoPlace}, NEW p \in BOOLEAN, UpdateNativeDoc(a, t, f, p)
      PROVE  ShelvesInv'
  BY <1>8, UpdateNativeStays
<1>9. CASE TornNext
  BY <1>9, TornStays
<1>10. CASE Split
  BY <1>1, <1>10 DEF Split
<1>11. CASE UNCHANGED knowledgeVars
  BY <1>1, <1>11 DEF knowledgeVars
<1>12. QED
  BY <1>2, <1>3, <1>4, <1>5, <1>6, <1>7, <1>8, <1>9, <1>10, <1>11, ZenonT(40)
     DEF KnowledgeNext

LEMMA ShelvesAreCurrent == ShelvesInv => IndexIsCurrent
<1> SUFFICES ASSUME ShelvesInv
             PROVE  IndexIsCurrent
  OBVIOUS
<1>1. /\ DOMAIN index \subseteq DOMAIN documents
      /\ \A d \in DOMAIN documents \ torn :
            IF documents[d].published THEN d \in DOMAIN index /\ index[d] = documents[d].text
            ELSE d \notin DOMAIN index
  BY DEF ShelvesInv, Indexed
<1>2. ASSUME NEW d \in DOMAIN documents, NEW sp \in DOMAIN spaces, documents[d].space = sp, ~IsShared(d)
      PROVE  documents[d].source = spaces[sp]
  <2>1. sp \in Spaces /\ spaces[sp] = NativeOf[sp]
    BY DEF ShelvesInv, SpacesAreNative
  <2>2. documents[d].space # NoPlace
    BY <1>2, <2>1, KnowledgeConstants
  <2>3. QED
    BY <1>2, <2>1, <2>2 DEF ShelvesInv, Housed
<1>3. \A s \in DOMAIN library \ uncounted :
         library[s].count = Cardinality({d \in DOMAIN documents : documents[d].source = s})
  BY DEF ShelvesInv, CountsAgree, DocsOf
<1>4. QED
  BY <1>1, <1>2, <1>3 DEF IndexIsCurrent

-----------------------------------------------------------------------------
(* Always.                                                                 *)

LEMMA ShelvesAlways == KnowledgeSpec => []ShelvesInv
<1>1. ShelvesInv /\ [KnowledgeNext]_knowledgeVars => ShelvesInv'
  BY ShelvesStay
<1>2. QED
  BY <1>1, ShelvesFromStart, PTL DEF KnowledgeSpec

LEMMA CutAlways == KnowledgeSpec => []CutInv
<1>1. CutInv /\ [KnowledgeNext]_knowledgeVars => CutInv'
  BY CutStays
<1>2. QED
  BY <1>1, CutFromStart, PTL DEF KnowledgeSpec

(* What is searched is what is published, for any sources, spaces, documents  *)
(* and any order of saves, removals and ends in the middle of one; and for     *)
(* any text and any limit, its chunks hold its lines, each of them once, and  *)
(* none but a single paragraph is longer than the limit.                      *)
THEOREM KnowledgeIsCurrent == KnowledgeSpec => []KnowledgeAgrees
<1>1. ShelvesInv /\ CutInv => KnowledgeAgrees
  BY ShelvesAreCurrent, CutCovers DEF KnowledgeAgrees
<1>2. QED
  BY <1>1, ShelvesAlways, CutAlways, PTL

-----------------------------------------------------------------------------
(* Events.                                                                 *)

Pieces == {"word", "blank", "thought", "call1", "call2"}

Outputs == [item : Nat, text : Seq(Pieces)]

EventTypes == {"created", "added", "delta", "done", "failed", "completed", "response"}

Events == [response : Nat, type : EventTypes, item : Nat, text : Seq(Pieces), output : Seq(Outputs)]

LEMMA EventIs ==
    ASSUME NEW tr, tr.id \in Nat, NEW type \in EventTypes, NEW item \in Nat, NEW text \in Seq(Pieces)
    PROVE  /\ Event(tr, type, item, text) \in Events
           /\ Event(tr, type, item, text).response = tr.id
           /\ Event(tr, type, item, text).type = type
           /\ Event(tr, type, item, text).item = item
           /\ Event(tr, type, item, text).text = text
           /\ Event(tr, type, item, text).output = <<>>
<1>1. <<>> \in Seq(Outputs)
  OBVIOUS
<1>2. QED
  BY <1>1 DEF Event, Events

LEMMA BareEventIs ==
    ASSUME NEW tr, tr.id \in Nat, NEW type \in EventTypes, NEW item \in Nat
    PROVE  /\ Event(tr, type, item, <<>>) \in Events
           /\ Event(tr, type, item, <<>>).response = tr.id
           /\ Event(tr, type, item, <<>>).type = type
           /\ Event(tr, type, item, <<>>).item = item
           /\ Event(tr, type, item, <<>>).output = <<>>
<1> DEFINE none == <<>>
<1>1. none \in Seq(Pieces)
  OBVIOUS
<1> HIDE DEF none
<1>2. /\ Event(tr, type, item, none) \in Events
      /\ Event(tr, type, item, none).response = tr.id
      /\ Event(tr, type, item, none).type = type
      /\ Event(tr, type, item, none).item = item
      /\ Event(tr, type, item, none).output = <<>>
  BY <1>1, EventIs
<1>3. QED
  BY <1>2 DEF none

LEMMA MoreIs ==
    ASSUME NEW S, NEW s \in Seq(S), NEW a \in S, NEW b \in S
    PROVE  /\ s \o <<a>> = Append(s, a)
           /\ s \o <<a, b>> = Append(Append(s, a), b)
           /\ <<a>> \in Seq(S) /\ <<a, b>> \in Seq(S)
OBVIOUS

SeenOf == [p \in Pieces |-> IF p = "blank" THEN <<>> ELSE <<p>>]

LEMMA OneBehind ==
    ASSUME NEW S, NEW s \in Seq(S), NEW a \in S
    PROVE  s \o <<a>> = Append(s, a)
OBVIOUS

LEMMA TwoAre ==
    ASSUME NEW S, NEW a \in S, NEW b \in S
    PROVE  <<a>> \o <<b>> = <<a, b>>
<1> DEFINE one == <<a>>
           t == Append(one, b)
           u == <<a, b>>
<1>1. one \in Seq(S) /\ Len(one) = 1 /\ one[1] = a
  OBVIOUS
<1>2. u \in Seq(S) /\ Len(u) = 2 /\ u[1] = a /\ u[2] = b
  OBVIOUS
<1> HIDE DEF one, u
<1>3. one \o <<b>> = t
  BY <1>1, OneBehind
<1>4. t \in Seq(S) /\ Len(t) = 2 /\ t[1] = a /\ t[2] = b
  <2>1. /\ Append(one, b) \in Seq(S) /\ Len(Append(one, b)) = Len(one) + 1
        /\ \A i \in 1 .. Len(one) : Append(one, b)[i] = one[i]
        /\ Append(one, b)[Len(one) + 1] = b
    BY <1>1, AppendProperties, ZenonT(40)
  <2>2. QED
    BY <1>1, <2>1
<1> HIDE DEF t
<1>5. \A i \in 1 .. Len(t) : t[i] = u[i]
  BY <1>2, <1>4
<1>6. t = u
  BY <1>2, <1>4, <1>5, SeqEqual
<1>7. QED
  BY <1>3, <1>6 DEF one, u

LEMMA SeenIs == SeenOf \in [Pieces -> Seq(Pieces)]
<1>1. \A p \in Pieces : <<p>> \in Seq(Pieces) /\ <<>> \in Seq(Pieces)
  OBVIOUS
<1> HIDE DEF Pieces
<1>2. QED
  BY <1>1 DEF SeenOf

LEMMA VisibleIs ==
    ASSUME NEW t \in Seq(Pieces)
    PROVE  Visible(t) = Joined(SeenOf, t)
<1>1. \A i \in DOMAIN t : t[i] \in Pieces
  OBVIOUS
<1>2. [i \in DOMAIN t |-> IF t[i] = "blank" THEN <<>> ELSE <<t[i]>>] = [i \in DOMAIN t |-> SeenOf[t[i]]]
  BY <1>1 DEF SeenOf
<1>3. QED
  BY <1>2 DEF Visible, Joined

LEMMA VisibleConcat ==
    ASSUME NEW t \in Seq(Pieces), NEW u \in Seq(Pieces)
    PROVE  /\ Visible(t) \in Seq(Pieces)
           /\ Visible(t \o u) = Visible(t) \o Visible(u)
<1>1. t \o u \in Seq(Pieces)
  BY ConcatProperties
<1>2. Joined(SeenOf, t \o u) = Joined(SeenOf, t) \o Joined(SeenOf, u)
  BY SeenIs, JoinedConcat
<1>3. Joined(SeenOf, t) \in Seq(Pieces)
  BY SeenIs, JoinedIs
<1>4. QED
  BY <1>1, <1>2, <1>3, VisibleIs

-----------------------------------------------------------------------------
(* Another event.                                                          *)

LEMMA AppendedAt ==
    ASSUME NEW s \in Seq(Events), NEW e \in Events
    PROVE  LET t == Append(s, e)
           IN /\ t \in Seq(Events) /\ Len(s) \in Nat /\ Len(t) = Len(s) + 1
              /\ DOMAIN s = 1 .. Len(s) /\ DOMAIN t = 1 .. Len(s) + 1
              /\ \A i \in 1 .. Len(s) : t[i] = s[i] /\ s[i] \in Events
              /\ t[Len(s) + 1] = e
              /\ \A r, type :
                    /\ At(s, r, type) \subseteq 1 .. Len(s)
                    /\ At(t, r, type) = At(s, r, type) \cup
                          (IF e.response = r /\ e.type = type THEN {Len(s) + 1} ELSE {})
<1> DEFINE t == Append(s, e)
<1>1. /\ t \in Seq(Events) /\ Len(s) \in Nat /\ Len(t) = Len(s) + 1
      /\ DOMAIN s = 1 .. Len(s) /\ DOMAIN t = 1 .. Len(s) + 1
      /\ \A i \in 1 .. Len(s) : t[i] = s[i] /\ s[i] \in Events
      /\ t[Len(s) + 1] = e
  BY AppendProperties
<1> HIDE DEF t
<1>2. ASSUME NEW r, NEW type
      PROVE  /\ At(s, r, type) \subseteq 1 .. Len(s)
             /\ At(t, r, type) = At(s, r, type) \cup
                   (IF e.response = r /\ e.type = type THEN {Len(s) + 1} ELSE {})
  <2>1. At(s, r, type) = {i \in 1 .. Len(s) : s[i].response = r /\ s[i].type = type}
    BY <1>1 DEF At
  <2>2. At(t, r, type) = {i \in 1 .. Len(s) + 1 : t[i].response = r /\ t[i].type = type}
    BY <1>1 DEF At
  <2>3. 1 .. Len(s) + 1 = (1 .. Len(s)) \cup {Len(s) + 1}
    BY <1>1
  <2>4. QED
    BY <1>1, <2>1, <2>2, <2>3
<1>3. QED
  BY <1>1, <1>2 DEF t

DeltaOf(r) == [e \in Events |-> IF e.response = r /\ e.type = "delta" THEN e.text ELSE <<>>]

LEMMA DeltaIs == \A r : DeltaOf(r) \in [Events -> Seq(Pieces)]
<1>1. \A e \in Events : e.text \in Seq(Pieces)
  BY DEF Events
<1>2. <<>> \in Seq(Pieces)
  OBVIOUS
<1>3. QED
  BY <1>1, <1>2 DEF DeltaOf

LEMMA StreamedIs ==
    ASSUME NEW s \in Seq(Events), NEW r
    PROVE  Streamed(s, r) = Joined(DeltaOf(r), s)
<1>1. \A i \in DOMAIN s : s[i] \in Events
  OBVIOUS
<1>2. \A i \in DOMAIN s : i \in At(s, r, "delta") <=> s[i].response = r /\ s[i].type = "delta"
  BY DEF At
<1>3. [i \in DOMAIN s |-> IF i \in At(s, r, "delta") THEN s[i].text ELSE <<>>] =
         [i \in DOMAIN s |-> DeltaOf(r)[s[i]]]
  BY <1>1, <1>2 DEF DeltaOf
<1>4. QED
  BY <1>3 DEF Streamed, Joined

LEMMA StreamedMore ==
    ASSUME NEW s \in Seq(Events), NEW e \in Events, NEW r
    PROVE  /\ Streamed(s, r) \in Seq(Pieces)
           /\ Streamed(Append(s, e), r) =
                 IF e.response = r /\ e.type = "delta" THEN Streamed(s, r) \o e.text ELSE Streamed(s, r)
<1>1. Append(s, e) \in Seq(Events)
  BY AppendProperties
<1>2. /\ Joined(DeltaOf(r), s) \in Seq(Pieces)
      /\ Joined(DeltaOf(r), Append(s, e)) = Joined(DeltaOf(r), s) \o DeltaOf(r)[e]
  BY DeltaIs, JoinedIs
<1>3. DeltaOf(r)[e] = IF e.response = r /\ e.type = "delta" THEN e.text ELSE <<>>
  BY DEF DeltaOf
<1>4. Joined(DeltaOf(r), s) \o <<>> = Joined(DeltaOf(r), s)
  BY <1>2
<1>5. QED
  BY <1>1, <1>2, <1>3, <1>4, StreamedIs

CreatedOnce(s) ==
    \A i, j \in DOMAIN s : s[i].type = "created" /\ s[j].type = "created" => i = j

\* What the client got is well formed so far.
Fine(s) ==
    /\ CreatedOnce(s)
    /\ \A r \in Nat : ItemsAgree(s, r) /\ EndsWell(s, r)

\* An event that may follow.
May(s, e) ==
    /\ At(s, e.response, "completed") = {}
    /\ e.type = "created" => \A i \in DOMAIN s : s[i].type # "created"
    /\ e.type = "added" => \A i \in At(s, e.response, "added") : s[i].item # e.item
    /\ e.type = "delta" => \A i \in At(s, e.response, "done") : s[i].item # 0
    /\ e.type = "done" =>
          /\ \E o \in At(s, e.response, "added") : s[o].item = e.item
          /\ e.item = 0 => Visible(e.text) = Visible(Streamed(s, e.response))
    /\ e.type = "completed" =>
          \A k \in DOMAIN e.output :
             \E d \in At(s, e.response, "done") :
                s[d].item = e.output[k].item /\ s[d].text = e.output[k].text

LEMMA ItemsAgreeMore ==
    ASSUME NEW s \in Seq(Events), NEW e \in Events, NEW r, ItemsAgree(s, r), May(s, e)
    PROVE  ItemsAgree(Append(s, e), r)
<1> DEFINE t == Append(s, e)
<1>1. /\ t \in Seq(Events) /\ Len(s) \in Nat
      /\ \A i \in 1 .. Len(s) : t[i] = s[i] /\ s[i] \in Events
      /\ t[Len(s) + 1] = e
      /\ \A type :
            /\ At(s, r, type) \subseteq 1 .. Len(s)
            /\ At(t, r, type) = At(s, r, type) \cup
                  (IF e.response = r /\ e.type = type THEN {Len(s) + 1} ELSE {})
  BY AppendedAt
<1>2. Streamed(t, r) =
         IF e.response = r /\ e.type = "delta" THEN Streamed(s, r) \o e.text ELSE Streamed(s, r)
  BY StreamedMore
<1> HIDE DEF t
<1>3. ASSUME NEW i \in At(t, r, "added"), NEW j \in At(t, r, "added"), t[i].item = t[j].item
      PROVE  i = j
  <2>1. i \in At(s, r, "added") \/ (i = Len(s) + 1 /\ e.response = r /\ e.type = "added")
    BY <1>1, <1>3
  <2>2. j \in At(s, r, "added") \/ (j = Len(s) + 1 /\ e.response = r /\ e.type = "added")
    BY <1>1, <1>3
  <2>3. CASE i \in At(s, r, "added") /\ j \in At(s, r, "added")
    <3>1. t[i] = s[i] /\ t[j] = s[j]
      BY <1>1, <2>3
    <3>2. QED
      BY <1>3, <2>3, <3>1 DEF ItemsAgree
  <2>4. CASE i \in At(s, r, "added") /\ j = Len(s) + 1 /\ e.response = r /\ e.type = "added"
    <3>1. t[i] = s[i] /\ t[j] = e
      BY <1>1, <2>4
    <3>2. QED
      BY <1>3, <2>4, <3>1 DEF May
  <2>5. CASE j \in At(s, r, "added") /\ i = Len(s) + 1 /\ e.response = r /\ e.type = "added"
    <3>1. t[j] = s[j] /\ t[i] = e
      BY <1>1, <2>5
    <3>2. QED
      BY <1>3, <2>5, <3>1 DEF May
  <2>6. QED
    BY <2>1, <2>2, <2>3, <2>4, <2>5
<1>4. ASSUME NEW i \in At(t, r, "done")
      PROVE  /\ \E o \in At(t, r, "added") : o < i /\ t[o].item = t[i].item
             /\ t[i].item = 0 => Visible(t[i].text) = Visible(Streamed(t, r))
  <2>1. i \in At(s, r, "done") \/ (i = Len(s) + 1 /\ e.response = r /\ e.type = "done")
    BY <1>1, <1>4
  <2>2. CASE i \in At(s, r, "done")
    <3>1. t[i] = s[i]
      BY <1>1, <2>2
    <3>2. PICK o \in At(s, r, "added") : o < i /\ s[o].item = s[i].item
      BY <2>2 DEF ItemsAgree
    <3>3. o \in At(t, r, "added") /\ t[o] = s[o]
      BY <1>1
    <3>4. s[i].item = 0 => Streamed(t, r) = Streamed(s, r)
      BY <1>2, <2>2 DEF May
    <3>5. s[i].item = 0 => Visible(s[i].text) = Visible(Streamed(s, r))
      BY <2>2 DEF ItemsAgree
    <3>6. QED
      BY <3>1, <3>2, <3>3, <3>4, <3>5
  <2>3. CASE i = Len(s) + 1 /\ e.response = r /\ e.type = "done"
    <3>1. t[i] = e /\ Streamed(t, r) = Streamed(s, r)
      BY <1>1, <1>2, <2>3
    <3>2. PICK o \in At(s, r, "added") : s[o].item = e.item
      BY <2>3 DEF May
    <3>3. o \in At(t, r, "added") /\ t[o] = s[o] /\ o < Len(s) + 1
      BY <1>1
    <3>4. e.item = 0 => Visible(e.text) = Visible(Streamed(s, r))
      BY <2>3 DEF May
    <3>5. QED
      BY <2>3, <3>1, <3>2, <3>3, <3>4
  <2>4. QED
    BY <2>1, <2>2, <2>3
<1>5. QED
  BY <1>3, <1>4 DEF ItemsAgree, t

LEMMA EndsWellMore ==
    ASSUME NEW s \in Seq(Events), NEW e \in Events, NEW r, EndsWell(s, r), May(s, e)
    PROVE  EndsWell(Append(s, e), r)
<1> DEFINE t == Append(s, e)
<1>1. /\ t \in Seq(Events) /\ Len(s) \in Nat /\ Len(t) = Len(s) + 1
      /\ \A i \in 1 .. Len(s) : t[i] = s[i] /\ s[i] \in Events
      /\ t[Len(s) + 1] = e
      /\ \A type :
            /\ At(s, r, type) \subseteq 1 .. Len(s)
            /\ At(t, r, type) = At(s, r, type) \cup
                  (IF e.response = r /\ e.type = type THEN {Len(s) + 1} ELSE {})
  BY AppendedAt
<1> HIDE DEF t
<1>2. SUFFICES ASSUME NEW i \in At(t, r, "completed")
               PROVE  /\ \A j \in i + 1 .. Len(t) : t[j].response # r
                      /\ \A k \in DOMAIN t[i].output :
                            \E d \in At(t, r, "done") :
                               /\ t[d].item = t[i].output[k].item
                               /\ t[d].text = t[i].output[k].text
  BY DEF EndsWell, t
<1>3. i \in At(s, r, "completed") \/ (i = Len(s) + 1 /\ e.response = r /\ e.type = "completed")
  BY <1>1, <1>2
<1>4. CASE i \in At(s, r, "completed")
  <2>1. t[i] = s[i] /\ i \in 1 .. Len(s)
    BY <1>1, <1>4
  <2>2. e.response # r
    BY <1>4 DEF May
  <2>3. \A j \in i + 1 .. Len(s) : s[j].response # r
    BY <1>4 DEF EndsWell
  <2>4. \A j \in i + 1 .. Len(t) : t[j].response # r
    BY <1>1, <2>1, <2>2, <2>3
  <2>5. ASSUME NEW k \in DOMAIN s[i].output
        PROVE  \E d \in At(t, r, "done") :
                  t[d].item = s[i].output[k].item /\ t[d].text = s[i].output[k].text
    <3>1. PICK d \in At(s, r, "done") :
                  s[d].item = s[i].output[k].item /\ s[d].text = s[i].output[k].text
      BY <1>4, <2>5 DEF EndsWell
    <3>2. d \in At(t, r, "done") /\ t[d] = s[d]
      BY <1>1
    <3>3. QED
      BY <3>1, <3>2
  <2>6. QED
    BY <2>1, <2>4, <2>5
<1>5. CASE i = Len(s) + 1 /\ e.response = r /\ e.type = "completed"
  <2>1. t[i] = e
    BY <1>1, <1>5
  <2>2. i + 1 .. Len(t) = {}
    BY <1>1, <1>5
  <2>3. ASSUME NEW k \in DOMAIN e.output
        PROVE  \E d \in At(t, r, "done") :
                  t[d].item = e.output[k].item /\ t[d].text = e.output[k].text
    <3>1. PICK d \in At(s, r, "done") :
                  s[d].item = e.output[k].item /\ s[d].text = e.output[k].text
      BY <1>5, <2>3 DEF May
    <3>2. d \in At(t, r, "done") /\ t[d] = s[d]
      BY <1>1
    <3>3. QED
      BY <3>1, <3>2
  <2>4. QED
    BY <2>1, <2>2, <2>3
<1>6. QED
  BY <1>3, <1>4, <1>5

LEMMA FineMore ==
    ASSUME NEW s \in Seq(Events), NEW e \in Events, Fine(s), May(s, e)
    PROVE  Append(s, e) \in Seq(Events) /\ Fine(Append(s, e))
<1> DEFINE t == Append(s, e)
<1>1. \A r \in Nat : ItemsAgree(t, r) /\ EndsWell(t, r)
  BY ItemsAgreeMore, EndsWellMore DEF Fine
<1>2. CreatedOnce(t)
  <2>1. /\ Len(s) \in Nat /\ DOMAIN s = 1 .. Len(s) /\ DOMAIN t = 1 .. Len(s) + 1
        /\ \A i \in 1 .. Len(s) : t[i] = s[i]
        /\ t[Len(s) + 1] = e
    BY AppendedAt
  <2> HIDE DEF t
  <2>2. ASSUME NEW i \in DOMAIN t, NEW j \in DOMAIN t, t[i].type = "created", t[j].type = "created"
        PROVE  i = j
    <3>1. (i \in DOMAIN s /\ t[i] = s[i]) \/ (i = Len(s) + 1 /\ t[i] = e)
      BY <2>1
    <3>2. (j \in DOMAIN s /\ t[j] = s[j]) \/ (j = Len(s) + 1 /\ t[j] = e)
      BY <2>1
    <3>3. e.type = "created" => \A k \in DOMAIN s : s[k].type # "created"
      BY DEF May
    <3>4. \A k, l \in DOMAIN s : s[k].type = "created" /\ s[l].type = "created" => k = l
      BY DEF Fine, CreatedOnce
    <3>5. QED
      BY <2>2, <3>1, <3>2, <3>3, <3>4
  <2>3. QED
    BY <2>2 DEF CreatedOnce
<1>3. QED
  BY <1>1, <1>2, AppendProperties DEF Fine

-----------------------------------------------------------------------------
(* A response under way.                                                   *)

\* Of one response only: the items that were opened, those that were closed with
\* their texts, and the text that was streamed.
Underway(s, r, opened, closed, text) ==
    /\ s \in Seq(Events) /\ Fine(s) /\ r \in Nat /\ text \in Seq(Pieces)
    /\ \A i \in DOMAIN s : s[i].response = r
    /\ At(s, r, "completed") = {}
    /\ \A i \in At(s, r, "added") : s[i].item \in opened
    /\ \A k \in opened : \E i \in At(s, r, "added") : s[i].item = k
    /\ \A i \in At(s, r, "done") : <<s[i].item, s[i].text>> \in closed
    /\ \A c \in closed : \E i \in At(s, r, "done") : s[i].item = c[1] /\ s[i].text = c[2]
    /\ Streamed(s, r) = text

LEMMA NothingToldYet ==
    ASSUME NEW r \in Nat
    PROVE  Underway(<<>>, r, {}, {}, <<>>)
<1>1. /\ <<>> \in Seq(Events) /\ <<>> \in Seq(Pieces) /\ DOMAIN <<>> = {}
      /\ \A q, type : At(<<>>, q, type) = {}
  BY DEF At
<1>2. Streamed(<<>>, r) = <<>>
  BY <1>1, StreamedIs, DeltaIs, JoinedIs
<1>3. Fine(<<>>)
  BY <1>1 DEF Fine, CreatedOnce, ItemsAgree, EndsWell
<1>4. QED
  BY <1>1, <1>2, <1>3 DEF Underway

LEMMA ToldMore ==
    ASSUME NEW s, NEW r, NEW opened, NEW closed, NEW text, Underway(s, r, opened, closed, text),
           NEW e \in Events, e.response = r, e.type # "completed",
           e.type = "created" => s = <<>>,
           e.type = "added" => e.item \notin opened,
           e.type = "delta" => \A c \in closed : c[1] # 0,
           e.type = "done" =>
              e.item \in opened /\ (e.item = 0 => Visible(e.text) = Visible(text))
    PROVE  Underway(Append(s, e), r,
                IF e.type = "added" THEN opened \cup {e.item} ELSE opened,
                IF e.type = "done" THEN closed \cup {<<e.item, e.text>>} ELSE closed,
                IF e.type = "delta" THEN text \o e.text ELSE text)
<1> DEFINE t == Append(s, e)
           o2 == IF e.type = "added" THEN opened \cup {e.item} ELSE opened
           c2 == IF e.type = "done" THEN closed \cup {<<e.item, e.text>>} ELSE closed
           t2 == IF e.type = "delta" THEN text \o e.text ELSE text
<1>1. /\ s \in Seq(Events) /\ Fine(s) /\ r \in Nat /\ text \in Seq(Pieces)
      /\ \A i \in DOMAIN s : s[i].response = r
      /\ At(s, r, "completed") = {}
      /\ \A i \in At(s, r, "added") : s[i].item \in opened
      /\ \A k \in opened : \E i \in At(s, r, "added") : s[i].item = k
      /\ \A i \in At(s, r, "done") : <<s[i].item, s[i].text>> \in closed
      /\ \A c \in closed : \E i \in At(s, r, "done") : s[i].item = c[1] /\ s[i].text = c[2]
      /\ Streamed(s, r) = text
  BY DEF Underway
<1>2. /\ t \in Seq(Events) /\ Len(s) \in Nat /\ DOMAIN s = 1 .. Len(s)
      /\ DOMAIN t = 1 .. Len(s) + 1
      /\ \A i \in 1 .. Len(s) : t[i] = s[i]
      /\ t[Len(s) + 1] = e
      /\ \A type :
            /\ At(s, r, type) \subseteq 1 .. Len(s)
            /\ At(t, r, type) = At(s, r, type) \cup
                  (IF e.response = r /\ e.type = type THEN {Len(s) + 1} ELSE {})
  <2> HIDE DEF o2, c2, t2
  <2>1. s \in Seq(Events)
    BY <1>1
  <2>2. QED
    BY <2>1, AppendedAt
<1>3. Streamed(t, r) = t2
  <2>1. s \in Seq(Events)
    BY <1>1
  <2>2. Streamed(Append(s, e), r) =
           IF e.response = r /\ e.type = "delta" THEN Streamed(s, r) \o e.text ELSE Streamed(s, r)
    BY <2>1, StreamedMore
  <2>3. Streamed(s, r) = text
    BY <1>1
  <2>4. QED
    BY <2>2, <2>3
<1>4. May(s, e)
  <2>1. e.type = "created" => \A i \in DOMAIN s : s[i].type # "created"
    OBVIOUS
  <2>2. e.type = "added" => \A i \in At(s, r, "added") : s[i].item # e.item
    BY <1>1
  <2>3. e.type = "delta" => \A i \in At(s, r, "done") : s[i].item # 0
    BY <1>1
  <2>4. QED
    BY <1>1, <2>1, <2>2, <2>3 DEF May
<1>5. Fine(t)
  BY <1>1, <1>4, FineMore
<1> HIDE DEF t
<1>6. \A i \in DOMAIN t : t[i].response = r
  <2>1. \A i \in DOMAIN t : i \in DOMAIN s \/ i = Len(s) + 1
    BY <1>2
  <2>2. QED
    BY <1>1, <1>2, <2>1
<1>7. At(t, r, "completed") = {}
  BY <1>1, <1>2
<1>8. /\ \A i \in At(t, r, "added") : t[i].item \in o2
      /\ \A k \in o2 : \E i \in At(t, r, "added") : t[i].item = k
  <2>1. \A i \in At(s, r, "added") : t[i] = s[i] /\ i \in At(t, r, "added")
    BY <1>2
  <2>2. e.type = "added" => Len(s) + 1 \in At(t, r, "added")
    BY <1>2
  <2>3. \A i \in At(t, r, "added") :
           i \in At(s, r, "added") \/ (i = Len(s) + 1 /\ e.type = "added")
    BY <1>2
  <2>4. t[Len(s) + 1] = e
    BY <1>2
  <2>5. \A i \in At(t, r, "added") : t[i].item \in o2
    BY <1>1, <2>1, <2>3, <2>4
  <2>6. \A k \in o2 : \E i \in At(t, r, "added") : t[i].item = k
    BY <1>1, <2>1, <2>2, <2>4
  <2>7. QED
    BY <2>5, <2>6
<1>9. /\ \A i \in At(t, r, "done") : <<t[i].item, t[i].text>> \in c2
      /\ \A c \in c2 : \E i \in At(t, r, "done") : t[i].item = c[1] /\ t[i].text = c[2]
  <2>1. \A i \in At(s, r, "done") : t[i] = s[i] /\ i \in At(t, r, "done")
    BY <1>2
  <2>2. e.type = "done" => Len(s) + 1 \in At(t, r, "done")
    BY <1>2
  <2>3. \A i \in At(t, r, "done") :
           i \in At(s, r, "done") \/ (i = Len(s) + 1 /\ e.type = "done")
    BY <1>2
  <2>4. t[Len(s) + 1] = e
    BY <1>2
  <2>5. \A i \in At(t, r, "done") : <<t[i].item, t[i].text>> \in c2
    <3>1. SUFFICES ASSUME NEW i \in At(t, r, "done")
                   PROVE  <<t[i].item, t[i].text>> \in c2
      OBVIOUS
    <3>2. CASE i \in At(s, r, "done")
      BY <1>1, <2>1, <3>2
    <3>3. CASE i = Len(s) + 1 /\ e.type = "done"
      BY <2>4, <3>3
    <3>4. QED
      BY <2>3, <3>1, <3>2, <3>3
  <2>6. \A c \in c2 : \E i \in At(t, r, "done") : t[i].item = c[1] /\ t[i].text = c[2]
    <3>1. SUFFICES ASSUME NEW c \in c2
                   PROVE  \E i \in At(t, r, "done") : t[i].item = c[1] /\ t[i].text = c[2]
      OBVIOUS
    <3>2. CASE c \in closed
      <4>1. PICK i \in At(s, r, "done") : s[i].item = c[1] /\ s[i].text = c[2]
        BY <1>1, <3>2
      <4>2. QED
        BY <2>1, <4>1
    <3>3. CASE e.type = "done" /\ c = <<e.item, e.text>>
      BY <2>2, <2>4, <3>3
    <3>4. QED
      BY <3>1, <3>2, <3>3
  <2>7. QED
    BY <2>5, <2>6
<1>10. t2 \in Seq(Pieces)
  <2>1. e.text \in Seq(Pieces)
    BY DEF Events
  <2>2. QED
    BY <1>1, <2>1, ConcatProperties
<1> HIDE DEF o2, c2, t2
<1>11. Underway(t, r, o2, c2, t2)
  BY <1>1, <1>2, <1>3, <1>5, <1>6, <1>7, <1>8, <1>9, <1>10 DEF Underway
<1>12. QED
  BY <1>11 DEF t, o2, c2, t2

\* The client has its terminal event.
Concluded(s) ==
    /\ s \in Seq(Events) /\ Fine(s)
    /\ s # <<>> /\ s[Len(s)].type \in {"completed", "response"}

LEMMA CompletedEnds ==
    ASSUME NEW s, NEW r, NEW opened, NEW closed, NEW text, Underway(s, r, opened, closed, text),
           NEW e \in Events, e.response = r, e.type = "completed",
           \A k \in DOMAIN e.output : <<e.output[k].item, e.output[k].text>> \in closed
    PROVE  Concluded(Append(s, e)) /\ \A i \in DOMAIN Append(s, e) : Append(s, e)[i].response = r
<1>1. s \in Seq(Events) /\ Fine(s) /\ \A i \in DOMAIN s : s[i].response = r
  BY DEF Underway
<1>2. May(s, e)
  <2>1. ASSUME NEW k \in DOMAIN e.output
        PROVE  \E d \in At(s, r, "done") :
                  s[d].item = e.output[k].item /\ s[d].text = e.output[k].text
    <3>1. <<e.output[k].item, e.output[k].text>> \in closed
      OBVIOUS
    <3>2. \A c \in closed : \E i \in At(s, r, "done") : s[i].item = c[1] /\ s[i].text = c[2]
      BY DEF Underway
    <3>3. QED
      BY <3>1, <3>2
  <2>2. At(s, r, "completed") = {}
    BY DEF Underway
  <2>3. QED
    BY <2>1, <2>2 DEF May
<1>3. /\ Len(Append(s, e)) = Len(s) + 1 /\ Append(s, e)[Len(s) + 1] = e /\ Append(s, e) # <<>>
      /\ \A i \in DOMAIN Append(s, e) : Append(s, e)[i].response = r
  <2>1. /\ Len(s) \in Nat /\ DOMAIN s = 1 .. Len(s) /\ DOMAIN Append(s, e) = 1 .. Len(s) + 1
        /\ \A i \in 1 .. Len(s) : Append(s, e)[i] = s[i]
        /\ Append(s, e)[Len(s) + 1] = e
        /\ Len(Append(s, e)) = Len(s) + 1
    BY <1>1, AppendedAt
  <2>2. Append(s, e) # <<>>
    BY <1>1, AppendProperties
  <2>3. ASSUME NEW i \in DOMAIN Append(s, e)
        PROVE  Append(s, e)[i].response = r
    <3>1. i \in 1 .. Len(s) \/ i = Len(s) + 1
      BY <2>1
    <3>2. QED
      BY <1>1, <2>1, <3>1
  <2>4. QED
    BY <2>1, <2>2, <2>3
<1>4. QED
  BY <1>1, <1>2, <1>3, FineMore DEF Concluded

LEMMA FailureEnds ==
    ASSUME NEW s \in Seq(Events), Fine(s), NEW tr, tr.id \in Nat, At(s, tr.id, "completed") = {}
    PROVE  /\ Concluded(s \o Failure(tr))
           /\ \A r : (\A i \in DOMAIN s : s[i].response = r) /\ tr.id = r =>
                 \A i \in DOMAIN (s \o Failure(tr)) : (s \o Failure(tr))[i].response = r
<1> DEFINE f == Event(tr, "failed", 0, <<>>)
           c == Event(tr, "completed", 0, <<>>)
           t == Append(s, f)
           u == Append(t, c)
<1>1. /\ f \in Events /\ f.response = tr.id /\ f.type = "failed"
      /\ c \in Events /\ c.response = tr.id /\ c.type = "completed" /\ c.output = <<>>
  <2>1. "failed" \in EventTypes /\ "completed" \in EventTypes
    BY DEF EventTypes
  <2>2. QED
    BY <2>1, BareEventIs
<1> HIDE DEF f, c
<1>2. s \o Failure(tr) = u
  BY <1>1, MoreIs DEF Failure, f, c
<1>3. May(s, f)
  BY <1>1 DEF May
<1>4. t \in Seq(Events) /\ Fine(t)
  BY <1>1, <1>3, FineMore
<1>5. At(t, tr.id, "completed") = {}
  BY <1>1, AppendedAt
<1>6. May(t, c)
  <2>1. DOMAIN c.output = {}
    BY <1>1
  <2>2. QED
    BY <1>1, <1>5, <2>1 DEF May
<1>7. /\ Len(s) \in Nat /\ DOMAIN s = 1 .. Len(s) /\ DOMAIN t = 1 .. Len(s) + 1
      /\ \A i \in 1 .. Len(s) : t[i] = s[i]
      /\ t[Len(s) + 1] = f /\ Len(t) = Len(s) + 1
  BY <1>1, AppendedAt
<1>8. /\ Len(t) \in Nat /\ DOMAIN t = 1 .. Len(t) /\ DOMAIN u = 1 .. Len(t) + 1
      /\ \A i \in 1 .. Len(t) : u[i] = t[i]
      /\ u[Len(t) + 1] = c /\ Len(u) = Len(t) + 1
  <2> HIDE DEF t
  <2>1. QED
    BY <1>1, <1>4, AppendedAt
<1>9. u \in Seq(Events) /\ Fine(u) /\ u # <<>>
  <2> HIDE DEF t
  <2>1. u \in Seq(Events) /\ Fine(u)
    BY <1>1, <1>4, <1>6, FineMore
  <2>2. u # <<>>
    BY <1>1, <1>4, AppendProperties
  <2>3. QED
    BY <2>1, <2>2
<1> HIDE DEF t, u
<1>10. Concluded(u)
  BY <1>1, <1>8, <1>9 DEF Concluded
<1>11. ASSUME NEW r, \A i \in DOMAIN s : s[i].response = r, tr.id = r,
              NEW i \in DOMAIN u
       PROVE  u[i].response = r
  <2>1. i \in 1 .. Len(s) \/ i = Len(s) + 1 \/ i = Len(s) + 2
    BY <1>7, <1>8
  <2>2. CASE i \in 1 .. Len(s)
    BY <1>7, <1>8, <1>11, <2>2
  <2>3. CASE i = Len(s) + 1
    BY <1>1, <1>7, <1>8, <1>11, <2>3
  <2>4. CASE i = Len(s) + 2
    BY <1>1, <1>7, <1>8, <1>11, <2>4
  <2>5. QED
    BY <2>1, <2>2, <2>3, <2>4
<1>12. QED
  BY <1>2, <1>10, <1>11

-----------------------------------------------------------------------------
(* The translator.                                                         *)

Translators == [id : Nat, started : BOOLEAN, finished : BOOLEAN, text : Seq(Pieces),
                reasoning : Seq(Pieces), calls : Maps(CallLines, Seq(Pieces))]

\* What the client got of the response that a translator makes.
Follows(s, tr) ==
    /\ Underway(s, tr.id, IF tr.started THEN {0} ELSE {}, {}, tr.text)
    /\ ~tr.started => s = <<>>

LEMMA FreshIs ==
    ASSUME NEW id \in Nat
    PROVE  /\ Fresh(id) \in Translators /\ Fresh(id).id = id /\ ~Fresh(id).finished
           /\ Follows(<<>>, Fresh(id))
<1>1. [i \in {} |-> <<>>] \in Maps(CallLines, Seq(Pieces))
  <2>1. [i \in {} |-> <<>>] \in [{} -> Seq(Pieces)]
    OBVIOUS
  <2>2. QED
    BY <2>1 DEF Maps
<1>2. Fresh(id) \in Translators
  BY <1>1 DEF Fresh, Translators
<1>3. /\ Fresh(id).id = id /\ Fresh(id).finished = FALSE /\ Fresh(id).started = FALSE
      /\ Fresh(id).text = <<>>
  BY DEF Fresh
<1>4. QED
  BY <1>2, <1>3, NothingToldYet DEF Follows

LEMMA GatheredIs ==
    ASSUME NEW tr \in Translators, NEW line \in Pieces
    PROVE  /\ Gathered(tr, line) \in Translators
           /\ Gathered(tr, line).id = tr.id /\ Gathered(tr, line).started = TRUE
           /\ Gathered(tr, line).finished = tr.finished
           /\ Gathered(tr, line).text =
                 IF line \in {"word", "blank"} THEN Append(tr.text, line) ELSE tr.text
<1> DEFINE calls == IF line \in CallLines
                    THEN [c \in DOMAIN tr.calls \cup {line} |->
                             IF c \notin DOMAIN tr.calls THEN <<line>>
                             ELSE IF c = line THEN Append(tr.calls[c], line) ELSE tr.calls[c]]
                    ELSE tr.calls
           reasoning == IF line = "thought" THEN Append(tr.reasoning, line) ELSE tr.reasoning
           text == IF line \in {"word", "blank"} THEN Append(tr.text, line) ELSE tr.text
<1>1. /\ tr.id \in Nat /\ tr.started \in BOOLEAN /\ tr.finished \in BOOLEAN
      /\ tr.text \in Seq(Pieces) /\ tr.reasoning \in Seq(Pieces)
      /\ tr.calls \in Maps(CallLines, Seq(Pieces))
      /\ tr = [id |-> tr.id, started |-> tr.started, finished |-> tr.finished, text |-> tr.text,
               reasoning |-> tr.reasoning, calls |-> tr.calls]
  BY DEF Translators
<1>2. calls \in Maps(CallLines, Seq(Pieces))
  <2>1. PICK D \in SUBSET CallLines : tr.calls \in [D -> Seq(Pieces)]
    BY <1>1 DEF Maps
  <2>2. DOMAIN tr.calls = D /\ \A c \in D : tr.calls[c] \in Seq(Pieces)
    BY <2>1
  <2>3. CASE line \in CallLines
    <3>1. D \cup {line} \in SUBSET CallLines
      BY <2>3
    <3>2. \A c \in D : Append(tr.calls[c], line) \in Seq(Pieces)
      BY <2>2, AppendProperties
    <3>3. <<line>> \in Seq(Pieces)
      OBVIOUS
    <3>4. calls \in [D \cup {line} -> Seq(Pieces)]
      BY <2>2, <2>3, <3>2, <3>3
    <3>5. QED
      BY <3>1, <3>4 DEF Maps
  <2>4. CASE line \notin CallLines
    BY <1>1, <2>4
  <2>5. QED
    BY <2>3, <2>4
<1>3. reasoning \in Seq(Pieces) /\ text \in Seq(Pieces)
  BY <1>1, AppendProperties
<1> DEFINE g == [id |-> tr.id, started |-> TRUE, finished |-> tr.finished, text |-> text,
                 reasoning |-> reasoning, calls |-> calls]
<1>4. Gathered(tr, line) = g
  <2>1. Gathered(tr, line) = [tr EXCEPT !.started = TRUE, !.reasoning = reasoning, !.text = text,
                                        !.calls = calls]
    BY DEF Gathered
  <2> HIDE DEF calls, reasoning, text
  <2>2. QED
    BY <1>1, <2>1
<1> HIDE DEF calls, reasoning
<1>5. g \in Translators
  BY <1>1, <1>2, <1>3 DEF Translators
<1>6. QED
  BY <1>4, <1>5

\* A response is opened with its message.
LEMMA StartedIs ==
    ASSUME NEW tr \in Translators, NEW s, Follows(s, tr)
    PROVE  /\ EnsureStarted(tr) \in Seq(Events)
           /\ Underway(s \o EnsureStarted(tr), tr.id, {0}, {}, tr.text)
<1>1. tr.id \in Nat /\ tr.started \in BOOLEAN
  BY DEF Translators
<1>2. CASE tr.started
  <2>1. EnsureStarted(tr) = <<>> /\ <<>> \in Seq(Events)
    BY <1>2 DEF EnsureStarted
  <2>2. Underway(s, tr.id, {0}, {}, tr.text) /\ s \in Seq(Events)
    BY <1>2 DEF Follows, Underway
  <2>3. s \o <<>> = s
    BY <2>2
  <2>4. QED
    BY <2>1, <2>2, <2>3
<1>3. CASE ~tr.started
  <2> DEFINE c == Event(tr, "created", 0, <<>>)
             a == Event(tr, "added", 0, <<>>)
  <2>1. /\ c \in Events /\ c.response = tr.id /\ c.type = "created"
        /\ a \in Events /\ a.response = tr.id /\ a.type = "added" /\ a.item = 0
    <3>1. "created" \in EventTypes /\ "added" \in EventTypes
      BY DEF EventTypes
    <3>2. QED
      BY <1>1, <3>1, BareEventIs
  <2>2. EnsureStarted(tr) = <<c, a>>
    BY <1>3 DEF EnsureStarted
  <2> HIDE DEF c, a
  <2>3. Underway(s, tr.id, {}, {}, tr.text) /\ s = <<>> /\ s \in Seq(Events)
    BY <1>3 DEF Follows, Underway
  <2>4. Underway(Append(s, c), tr.id, {}, {}, tr.text)
    <3>1. c.type # "added" /\ c.type # "done" /\ c.type # "delta" /\ c.type # "completed"
      BY <2>1
    <3>2. Underway(Append(s, c), tr.id,
                IF c.type = "added" THEN {} \cup {c.item} ELSE {},
                IF c.type = "done" THEN {} \cup {<<c.item, c.text>>} ELSE {},
                IF c.type = "delta" THEN tr.text \o c.text ELSE tr.text)
      BY <2>1, <2>3, <3>1, ToldMore
    <3>3. QED
      BY <3>1, <3>2
  <2>5. Underway(Append(Append(s, c), a), tr.id, {0}, {}, tr.text)
    <3>1. a.type # "created" /\ a.type # "done" /\ a.type # "delta" /\ a.type # "completed"
      BY <2>1
    <3>2. Underway(Append(Append(s, c), a), tr.id,
                IF a.type = "added" THEN {} \cup {a.item} ELSE {},
                IF a.type = "done" THEN {} \cup {<<a.item, a.text>>} ELSE {},
                IF a.type = "delta" THEN tr.text \o a.text ELSE tr.text)
      BY <2>1, <2>4, <3>1, ToldMore
    <3>3. {} \cup {a.item} = {0}
      BY <2>1
    <3>4. QED
      BY <2>1, <3>1, <3>2, <3>3
  <2>6. s \o <<c, a>> = Append(Append(s, c), a) /\ <<c, a>> \in Seq(Events)
    BY <2>1, <2>3, MoreIs
  <2>7. QED
    BY <2>2, <2>5, <2>6
<1>4. QED
  BY <1>1, <1>2, <1>3

LEMMA FeedIs ==
    ASSUME NEW tr \in Translators, ~tr.finished, NEW s, Follows(s, tr), NEW line \in Pieces
    PROVE  /\ FeedLine(tr, line).tr = Gathered(tr, line)
           /\ Follows(s \o FeedLine(tr, line).events, Gathered(tr, line))
<1> DEFINE g == Gathered(tr, line)
           d == Event(tr, "delta", 0, <<line>>)
           es == EnsureStarted(tr)
           ds == IF line \in {"word", "blank"} THEN <<d>> ELSE <<>>
<1>1. /\ FeedLine(tr, line).tr = g
      /\ FeedLine(tr, line).events = es \o ds
  <2>1. line \notin Noise /\ line # "error"
    BY DEF Pieces, Noise
  <2>2. QED
    BY <2>1 DEF FeedLine
<1>2. /\ g.id = tr.id /\ g.started = TRUE
      /\ g.text = IF line \in {"word", "blank"} THEN Append(tr.text, line) ELSE tr.text
  BY GatheredIs
<1>3. es \in Seq(Events) /\ Underway(s \o es, tr.id, {0}, {}, tr.text)
  BY StartedIs
<1>4. tr.id \in Nat /\ tr.text \in Seq(Pieces) /\ s \in Seq(Events)
  BY DEF Translators, Follows, Underway
<1>5. d \in Events /\ d.response = tr.id /\ d.type = "delta" /\ d.item = 0 /\ d.text = <<line>>
  <2>1. "delta" \in EventTypes
    BY DEF EventTypes
  <2> DEFINE piece == <<line>>
  <2>2. piece \in Seq(Pieces)
    OBVIOUS
  <2> HIDE DEF piece
  <2>3. /\ Event(tr, "delta", 0, piece) \in Events
        /\ Event(tr, "delta", 0, piece).response = tr.id
        /\ Event(tr, "delta", 0, piece).type = "delta"
        /\ Event(tr, "delta", 0, piece).item = 0
        /\ Event(tr, "delta", 0, piece).text = piece
    BY <1>4, <2>1, <2>2, EventIs
  <2>4. QED
    BY <2>3 DEF piece
<1> HIDE DEF d, es, g
<1>6. CASE line \in {"word", "blank"}
  <2>1. /\ d.type # "added" /\ d.type # "done" /\ d.type # "created" /\ d.type # "completed"
    BY <1>5
  <2>2. Underway(Append(s \o es, d), tr.id,
              IF d.type = "added" THEN {0} \cup {d.item} ELSE {0},
              IF d.type = "done" THEN {} \cup {<<d.item, d.text>>} ELSE {},
              IF d.type = "delta" THEN tr.text \o d.text ELSE tr.text)
    BY <1>3, <1>5, <2>1, ToldMore
  <2>3. tr.text \o d.text = Append(tr.text, line)
    BY <1>4, <1>5
  <2>4. Underway(Append(s \o es, d), tr.id, {0}, {}, g.text)
    BY <1>2, <1>5, <1>6, <2>1, <2>2, <2>3
  <2>5. s \o (es \o <<d>>) = Append(s \o es, d)
    <3>1. PICK x, y \in Seq(Events), z \in Events : x = s /\ y = es /\ z = d
      BY <1>3, <1>4, <1>5
    <3>2. x \o (y \o <<z>>) = Append(x \o y, z)
      OBVIOUS
    <3>3. QED
      BY <3>1, <3>2
  <2>6. QED
    BY <1>1, <1>2, <1>6, <2>4, <2>5 DEF Follows, g
<1>7. CASE line \notin {"word", "blank"}
  <2>1. es \o <<>> = es
    BY <1>3
  <2>2. QED
    BY <1>1, <1>2, <1>3, <1>7, <2>1 DEF Follows, g
<1>8. QED
  BY <1>6, <1>7

\* The calls of an answer, as its items 1, 2, ...
LEMMA CallItemsAre ==
    ASSUME NEW tr \in Translators
    PROVE  /\ CallItems(tr) \in Seq(Outputs)
           /\ \A k \in DOMAIN CallItems(tr) : CallItems(tr)[k].item = k
<1>1. PICK D \in SUBSET CallLines : tr.calls \in [D -> Seq(Pieces)]
  BY DEF Translators, Maps
<1>2. Order(tr) \in Seq(D)
  <2>1. DOMAIN tr.calls = D
    BY <1>1
  <2>2. "call1" \in D => <<"call1">> \in Seq(D)
    OBVIOUS
  <2>3. "call2" \in D => <<"call2">> \in Seq(D)
    OBVIOUS
  <2>4. <<>> \in Seq(D)
    OBVIOUS
  <2>5. QED
    BY <2>1, <2>2, <2>3, <2>4, ConcatProperties DEF Order
<1> DEFINE o == Order(tr)
<1>3. Len(o) \in Nat /\ DOMAIN o = 1 .. Len(o) /\ \A k \in 1 .. Len(o) : o[k] \in D
  BY <1>2
<1> HIDE DEF o
<1>4. \A k \in 1 .. Len(o) : [item |-> k, text |-> tr.calls[o[k]]] \in Outputs
  <2>1. \A k \in 1 .. Len(o) : tr.calls[o[k]] \in Seq(Pieces)
    BY <1>1, <1>3
  <2>2. \A k \in 1 .. Len(o) : k \in Nat
    BY <1>3
  <2>3. QED
    BY <2>1, <2>2 DEF Outputs
<1>5. CallItems(tr) = [k \in 1 .. Len(o) |-> [item |-> k, text |-> tr.calls[o[k]]]]
  BY <1>3 DEF CallItems, o
<1>6. QED
  BY <1>3, <1>4, <1>5

\* Each call is opened and closed in turn.
LEMMA CallsAreTold ==
    ASSUME NEW tr, tr.id \in Nat, NEW items \in Seq(Outputs),
           NEW s, NEW text, Underway(s, tr.id, {0}, {}, text), s # <<>>
    PROVE  LET pair == [k \in DOMAIN items |->
                          <<Event(tr, "added", k, items[k].text), Event(tr, "done", k, items[k].text)>>]
           IN /\ pair \in Seq(Seq(Events))
              /\ Underway(s \o FlattenSeq(pair), tr.id, {0} \cup DOMAIN items,
                      {<<k, items[k].text>> : k \in DOMAIN items}, text)
<1> DEFINE n == Len(items)
           a(k) == Event(tr, "added", k, items[k].text)
           d(k) == Event(tr, "done", k, items[k].text)
           pairs(m) == [k \in 1 .. m |-> <<a(k), d(k)>>]
           closed(m) == {<<k, items[k].text>> : k \in 1 .. m}
           OK(m) == Underway(s \o FlattenSeq(pairs(m)), tr.id, {0} \cup (1 .. m), closed(m), text)
           T == {m \in 0 .. n : OK(m)}
<1>1. n \in Nat /\ DOMAIN items = 1 .. n /\ s \in Seq(Events)
  BY DEF Underway
<1>2. ASSUME NEW k \in 1 .. n
      PROVE  /\ a(k) \in Events /\ a(k).response = tr.id /\ a(k).type = "added" /\ a(k).item = k
             /\ d(k) \in Events /\ d(k).response = tr.id /\ d(k).type = "done" /\ d(k).item = k
             /\ d(k).text = items[k].text
             /\ <<a(k), d(k)>> \in Seq(Events)
  <2>1. k \in Nat /\ items[k] \in Outputs
    BY <1>1
  <2>2. items[k].text \in Seq(Pieces)
    BY <2>1 DEF Outputs
  <2>3. "added" \in EventTypes /\ "done" \in EventTypes
    BY DEF EventTypes
  <2>4. /\ a(k) \in Events /\ a(k).response = tr.id /\ a(k).type = "added" /\ a(k).item = k
        /\ d(k) \in Events /\ d(k).response = tr.id /\ d(k).type = "done" /\ d(k).item = k
        /\ d(k).text = items[k].text
    BY <2>1, <2>2, <2>3, EventIs
  <2> HIDE DEF a, d
  <2>5. QED
    BY <2>4, MoreIs
<1> HIDE DEF n
<1>3. 0 \in T
  <2>1. pairs(0) = <<>> /\ closed(0) = {} /\ {0} \cup (1 .. 0) = {0} /\ 0 \in 0 .. n
    BY <1>1
  <2>2. FlattenSeq(<<>>) = <<>> /\ s \o <<>> = s
    BY <1>1, FlattenIs
  <2> HIDE DEF pairs, closed
  <2>3. OK(0)
    BY <2>1, <2>2
  <2>4. QED
    BY <2>1, <2>3
<1> HIDE DEF a, d
<1>4. ASSUME NEW m \in 0 .. n - 1, m \in T
      PROVE  m + 1 \in T
  <2>1. m + 1 \in 1 .. n /\ m \in Nat /\ 1 .. m \subseteq 1 .. n
    BY <1>1
  <2> DEFINE p == pairs(m)
             q == pairs(m + 1)
             b == <<a(m + 1), d(m + 1)>>
             u == s \o FlattenSeq(p)
  <2>2. p \in Seq(Seq(Events)) /\ b \in Seq(Events) /\ q = Append(p, b)
    <3>1. \A k \in 1 .. m : <<a(k), d(k)>> \in Seq(Events)
      BY <1>2, <2>1
    <3>2. p \in Seq(Seq(Events)) /\ Len(p) = m /\ \A k \in 1 .. m : p[k] = <<a(k), d(k)>>
      BY <2>1, <3>1
    <3>3. b \in Seq(Events)
      BY <1>2, <2>1
    <3>4. q \in Seq(Seq(Events)) /\ Len(q) = m + 1 /\ \A k \in 1 .. m + 1 : q[k] = <<a(k), d(k)>>
      <4>1. \A k \in 1 .. m + 1 : <<a(k), d(k)>> \in Seq(Events)
        BY <1>2, <2>1
      <4>2. QED
        BY <2>1, <4>1
    <3> HIDE DEF p, q, b
    <3>5. /\ Append(p, b) \in Seq(Seq(Events)) /\ Len(Append(p, b)) = m + 1
          /\ \A k \in 1 .. m : Append(p, b)[k] = p[k]
          /\ Append(p, b)[m + 1] = b
      BY <3>2, <3>3, AppendProperties
    <3>6. \A k \in 1 .. m + 1 : Append(p, b)[k] = q[k]
      <4>1. SUFFICES ASSUME NEW k \in 1 .. m + 1
                     PROVE  Append(p, b)[k] = q[k]
        OBVIOUS
      <4>2. CASE k = m + 1
        BY <3>4, <3>5, <4>2 DEF b
      <4>3. CASE k # m + 1
        <5>1. k \in 1 .. m
          BY <2>1, <4>3
        <5>2. QED
          BY <3>2, <3>4, <3>5, <5>1
      <4>4. QED
        BY <4>2, <4>3
    <3>7. q = Append(p, b)
      BY <3>4, <3>5, <3>6, SeqEqual
    <3>8. QED
      BY <3>2, <3>3, <3>7
  <2> HIDE DEF p, q
  <2>3. FlattenSeq(q) = FlattenSeq(p) \o b /\ FlattenSeq(p) \in Seq(Events)
    BY <2>2, FlattenIs
  <2>4. s \o FlattenSeq(q) = Append(Append(u, a(m + 1)), d(m + 1))
    <3> DEFINE y == FlattenSeq(p)
               v == a(m + 1)
               w == d(m + 1)
    <3>1. s \in Seq(Events) /\ y \in Seq(Events) /\ v \in Events /\ w \in Events
      BY <1>1, <1>2, <2>1, <2>3
    <3> HIDE DEF y, v, w
    <3>2. b = <<v, w>>
      BY DEF v, w
    <3>3. FlattenSeq(q) = y \o b
      BY <2>3 DEF y
    <3>4. u = s \o y
      BY DEF y
    <3> HIDE DEF u
    <3>5. (s \o y) \o b = Append(Append(s \o y, v), w) /\ b \in Seq(Events)
      <4>1. s \o y \in Seq(Events)
        BY <3>1, ConcatProperties
      <4> DEFINE sy == s \o y
      <4>2. sy \o <<v, w>> = Append(Append(sy, v), w) /\ <<v, w>> \in Seq(Events)
        <5> HIDE DEF sy
        <5>1. sy \in Seq(Events)
          BY <4>1 DEF sy
        <5>2. QED
          BY <3>1, <5>1, MoreIs
      <4>3. QED
        BY <3>2, <4>2
    <3> HIDE DEF b
    <3>6. s \o FlattenSeq(q) = Append(Append(u, v), w)
      <4>1. s \o (y \o b) = (s \o y) \o b
        <5>1. s \in Seq(Events) /\ y \in Seq(Events) /\ b \in Seq(Events)
          BY <3>1, <3>5
        <5>2. QED
          BY ONLY <5>1
      <4>2. QED
        BY <3>3, <3>4, <3>5, <4>1
    <3>7. QED
      BY <3>6 DEF v, w
  <2>5. u # <<>>
    <3>1. PICK x, y \in Seq(Events) : x = s /\ y = FlattenSeq(p)
      BY <1>1, <2>3
    <3>2. x # <<>> => x \o y # <<>>
      OBVIOUS
    <3>3. QED
      BY <3>1, <3>2
  <2>6. Underway(u, tr.id, {0} \cup (1 .. m), closed(m), text)
    BY <1>4 DEF p
  <2> HIDE DEF u, b
  <2> DEFINE e == a(m + 1)
             f == d(m + 1)
  <2>7. /\ e \in Events /\ e.response = tr.id /\ e.type = "added" /\ e.item = m + 1
        /\ f \in Events /\ f.response = tr.id /\ f.type = "done" /\ f.item = m + 1
        /\ f.text = items[m + 1].text
    BY <1>2, <2>1
  <2> HIDE DEF e, f
  <2>8. Underway(Append(u, e), tr.id, {0} \cup (1 .. m + 1), closed(m), text)
    <3>1. /\ e.type # "created" /\ e.type # "done" /\ e.type # "delta" /\ e.type # "completed"
          /\ e.item \notin {0} \cup (1 .. m)
      BY <2>1, <2>7
    <3> HIDE DEF closed
    <3>2. Underway(Append(u, e), tr.id,
                IF e.type = "added" THEN ({0} \cup (1 .. m)) \cup {e.item} ELSE {0} \cup (1 .. m),
                IF e.type = "done" THEN closed(m) \cup {<<e.item, e.text>>} ELSE closed(m),
                IF e.type = "delta" THEN text \o e.text ELSE text)
      BY <2>6, <2>7, <3>1, ToldMore
    <3>3. ({0} \cup (1 .. m)) \cup {e.item} = {0} \cup (1 .. m + 1)
      BY <2>1, <2>7
    <3>4. QED
      BY <2>7, <3>1, <3>2, <3>3
  <2>9. Underway(Append(Append(u, e), f), tr.id, {0} \cup (1 .. m + 1), closed(m + 1), text)
    <3>1. /\ f.type # "created" /\ f.type # "added" /\ f.type # "delta" /\ f.type # "completed"
          /\ f.item \in {0} \cup (1 .. m + 1) /\ f.item # 0
      BY <2>1, <2>7
    <3>2. closed(m) \cup {<<f.item, f.text>>} = closed(m + 1)
      <4>1. 1 .. m + 1 = (1 .. m) \cup {m + 1}
        BY <2>1
      <4>2. QED
        BY <2>7, <4>1
    <3> HIDE DEF closed
    <3>3. Underway(Append(Append(u, e), f), tr.id,
                IF f.type = "added" THEN ({0} \cup (1 .. m + 1)) \cup {f.item} ELSE {0} \cup (1 .. m + 1),
                IF f.type = "done" THEN closed(m) \cup {<<f.item, f.text>>} ELSE closed(m),
                IF f.type = "delta" THEN text \o f.text ELSE text)
      BY <2>7, <2>8, <3>1, ToldMore
    <3>4. QED
      BY <2>7, <3>1, <3>2, <3>3
  <2>10. OK(m + 1)
    BY <2>4, <2>9 DEF e, f, q
  <2>11. QED
    BY <2>1, <2>10
<1>5. OK(n)
  <2> HIDE DEF T, OK
  <2>1. \A m \in 0 .. n : m \in T
    BY <1>1, <1>3, <1>4, UpTo
  <2>2. n \in T
    BY <1>1, <2>1
  <2>3. QED
    BY <2>2 DEF T
<1>6. pairs(n) \in Seq(Seq(Events))
  BY <1>1, <1>2
<1>7. QED
  BY <1>1, <1>5, <1>6 DEF a, d

LEMMA FinishIs ==
    ASSUME NEW tr \in Translators, ~tr.finished, NEW s, Follows(s, tr)
    PROVE  Concluded(s \o FinishAnswer(tr).events)
<1> DEFINE lonely == Visible(tr.text) = <<>> /\ tr.reasoning # <<>>
           text   == IF lonely THEN tr.reasoning ELSE tr.text
           items  == CallItems(tr)
           listed == IF Visible(text) = <<>> /\ items # <<>> THEN items
                     ELSE <<[item |-> 0, text |-> text]>> \o items
           es     == EnsureStarted(tr)
           l      == Event(tr, "delta", 0, text)
           ls     == IF lonely THEN <<l>> ELSE <<>>
           pair   == [k \in DOMAIN items |->
                        <<Event(tr, "added", k, items[k].text), Event(tr, "done", k, items[k].text)>>]
           d      == Event(tr, "done", 0, text)
           c      == [Event(tr, "completed", 0, <<>>) EXCEPT !.output = listed]
           shown  == IF lonely THEN tr.text \o text ELSE tr.text
           closed == {<<k, items[k].text>> : k \in DOMAIN items}
<1>1. FinishAnswer(tr).events = es \o ls \o FlattenSeq(pair) \o <<d, c>>
  BY DEF FinishAnswer
<1>2. /\ tr.id \in Nat /\ tr.text \in Seq(Pieces) /\ tr.reasoning \in Seq(Pieces)
      /\ s \in Seq(Events)
  BY DEF Translators, Follows, Underway
<1>3. text \in Seq(Pieces) /\ shown \in Seq(Pieces)
  BY <1>2, ConcatProperties
<1>4. items \in Seq(Outputs) /\ \A k \in DOMAIN items : items[k].item = k
  BY CallItemsAre
<1>5. Visible(text) = Visible(shown)
  <2>1. CASE lonely
    <3>1. Visible(tr.text \o text) = Visible(tr.text) \o Visible(text) /\ Visible(text) \in Seq(Pieces)
      BY <1>2, <1>3, VisibleConcat
    <3>2. <<>> \o Visible(text) = Visible(text)
      BY <3>1
    <3>3. QED
      BY <2>1, <3>1, <3>2
  <2>2. CASE ~lonely
    BY <2>2
  <2>3. QED
    BY <2>1, <2>2
<1>6. /\ listed \in Seq(Outputs)
      /\ \A k \in DOMAIN listed : <<listed[k].item, listed[k].text>> \in closed \cup {<<0, text>>}
  <2>1. \A k \in DOMAIN items : <<items[k].item, items[k].text>> \in closed
    BY <1>4
  <2> HIDE DEF closed, items, text
  <2>2. [item |-> 0, text |-> text] \in Outputs
    BY <1>3 DEF Outputs
  <2> DEFINE first == [item |-> 0, text |-> text]
  <2>3. first \in Outputs /\ first.item = 0 /\ first.text = text
    BY <2>2
  <2> HIDE DEF first
  <2>4. /\ <<first>> \o items \in Seq(Outputs)
        /\ \A k \in DOMAIN (<<first>> \o items) :
              (<<first>> \o items)[k] = first \/ \E j \in DOMAIN items : (<<first>> \o items)[k] = items[j]
    <3>1. /\ <<first>> \in Seq(Outputs) /\ Len(<<first>>) = 1 /\ <<first>>[1] = first
      BY <2>3
    <3>2. /\ <<first>> \o items \in Seq(Outputs)
          /\ Len(<<first>> \o items) = 1 + Len(items)
          /\ \A i \in 1 .. 1 + Len(items) :
                (<<first>> \o items)[i] = IF i <= 1 THEN <<first>>[i] ELSE items[i - 1]
      BY <1>4, <3>1, ConcatProperties
    <3>3. SUFFICES ASSUME NEW k \in 1 .. 1 + Len(items)
                   PROVE  \/ (<<first>> \o items)[k] = first
                          \/ \E j \in DOMAIN items : (<<first>> \o items)[k] = items[j]
      BY <3>2
    <3>4. Len(items) \in Nat /\ DOMAIN items = 1 .. Len(items)
      BY <1>4
    <3>5. CASE k = 1
      BY <3>1, <3>2, <3>5
    <3>6. CASE k # 1
      <4>1. k - 1 \in DOMAIN items /\ ~(k <= 1)
        BY <3>4, <3>6
      <4>2. QED
        BY <3>2, <4>1
    <3>7. QED
      BY <3>5, <3>6
  <2>5. CASE Visible(text) = <<>> /\ items # <<>>
    BY <1>4, <2>1, <2>5
  <2>6. CASE ~(Visible(text) = <<>> /\ items # <<>>)
    <3>1. listed = <<first>> \o items
      BY <2>6 DEF first
    <3> HIDE DEF listed
    <3>2. ASSUME NEW k \in DOMAIN listed
          PROVE  <<listed[k].item, listed[k].text>> \in closed \cup {<<0, text>>}
      <4>1. listed[k] = first \/ \E j \in DOMAIN items : listed[k] = items[j]
        BY <2>4, <3>1
      <4>2. QED
        BY <2>1, <2>3, <4>1
    <3>3. QED
      BY <2>4, <3>1, <3>2
  <2>7. QED
    BY <2>5, <2>6
<1>7. es \in Seq(Events) /\ Underway(s \o es, tr.id, {0}, {}, tr.text)
  BY StartedIs
<1>8. s \o es # <<>>
  <2>1. PICK i \in At(s \o es, tr.id, "added") : (s \o es)[i].item = 0
    BY <1>7 DEF Underway
  <2>2. i \in DOMAIN (s \o es)
    BY <2>1 DEF At
  <2>3. QED
    BY <2>2
<1>9. /\ l \in Events /\ l.response = tr.id /\ l.type = "delta" /\ l.item = 0 /\ l.text = text
      /\ d \in Events /\ d.response = tr.id /\ d.type = "done" /\ d.item = 0 /\ d.text = text
  <2>1. "delta" \in EventTypes /\ "done" \in EventTypes
    BY DEF EventTypes
  <2> HIDE DEF text
  <2>2. QED
    BY <1>2, <1>3, <2>1, EventIs
<1>10. c \in Events /\ c.response = tr.id /\ c.type = "completed" /\ c.output = listed
  <2>1. "completed" \in EventTypes
    BY DEF EventTypes
  <2>2. /\ Event(tr, "completed", 0, <<>>) \in Events
        /\ Event(tr, "completed", 0, <<>>).response = tr.id
        /\ Event(tr, "completed", 0, <<>>).type = "completed"
    BY <1>2, <2>1, BareEventIs
  <2> HIDE DEF listed
  <2>3. PICK e \in Events : e = Event(tr, "completed", 0, <<>>)
    BY <2>2
  <2>4. PICK f : f = [e EXCEPT !.output = listed]
    OBVIOUS
  <2>5. f \in Events /\ f.response = e.response /\ f.type = e.type /\ f.output = listed
    BY <1>6, <2>4 DEF Events
  <2>6. QED
    BY <2>2, <2>3, <2>4, <2>5
<1> HIDE DEF l, c, d, es, items, listed
<1>11. ls \in Seq(Events) /\ Underway((s \o es) \o ls, tr.id, {0}, {}, shown) /\ (s \o es) \o ls # <<>>
  <2> DEFINE u == s \o es
  <2>1. u \in Seq(Events) /\ u # <<>> /\ Underway(u, tr.id, {0}, {}, tr.text)
    BY <1>2, <1>7, <1>8, ConcatProperties
  <2> HIDE DEF u
  <2>2. CASE lonely
    <3>1. l.type # "added" /\ l.type # "done" /\ l.type # "created" /\ l.type # "completed"
      BY <1>9
    <3>2. Underway(Append(u, l), tr.id,
                IF l.type = "added" THEN {0} \cup {l.item} ELSE {0},
                IF l.type = "done" THEN {} \cup {<<l.item, l.text>>} ELSE {},
                IF l.type = "delta" THEN tr.text \o l.text ELSE tr.text)
      BY <1>9, <2>1, <3>1, ToldMore
    <3>3. Underway(Append(u, l), tr.id, {0}, {}, shown)
      BY <1>9, <2>2, <3>1, <3>2
    <3>4. u \o <<l>> = Append(u, l) /\ <<l>> \in Seq(Events) /\ Append(u, l) # <<>>
      BY <1>9, <2>1, MoreIs, AppendProperties
    <3>5. ls = <<l>>
      BY <2>2
    <3> HIDE DEF ls, shown
    <3>6. QED
      BY <3>3, <3>4, <3>5 DEF u
  <2>3. CASE ~lonely
    <3>1. ls = <<>> /\ shown = tr.text /\ u \o <<>> = u /\ <<>> \in Seq(Events)
      BY <2>1, <2>3
    <3> HIDE DEF ls, shown
    <3>2. QED
      BY <2>1, <3>1 DEF u
  <2>4. QED
    BY <2>2, <2>3
<1> HIDE DEF ls, shown, text
<1> DEFINE v == (s \o es) \o ls
           w == v \o FlattenSeq(pair)
<1> HIDE DEF v
<1>12. /\ pair \in Seq(Seq(Events))
       /\ Underway(w, tr.id, {0} \cup DOMAIN items, closed, shown)
  <2>1. Underway(v, tr.id, {0}, {}, shown) /\ v # <<>>
    BY <1>11 DEF v
  <2>2. QED
    BY <1>2, <1>4, <2>1, CallsAreTold
<1> HIDE DEF pair
<1>13. FlattenSeq(pair) \in Seq(Events)
  BY <1>12, FlattenIs
<1>14. s \o FinishAnswer(tr).events = Append(Append(w, d), c)
  <2>1. PICK x, y, z, p \in Seq(Events) : x = s /\ y = es /\ z = ls /\ p = FlattenSeq(pair)
    BY <1>2, <1>7, <1>11, <1>13
  <2>2. PICK m, q \in Events : m = d /\ q = c
    BY <1>9, <1>10
  <2>3. x \o (((y \o z) \o p) \o <<m, q>>) = Append(Append(((x \o y) \o z) \o p, m), q)
    <3>1. x \o (y \o z) = (x \o y) \o z
      OBVIOUS
    <3>2. (y \o z) \in Seq(Events) /\ x \o y \in Seq(Events)
      OBVIOUS
    <3>3. PICK yz \in Seq(Events) : yz = y \o z
      BY <3>2
    <3>4. x \o (yz \o p) = (x \o yz) \o p /\ yz \o p \in Seq(Events)
      OBVIOUS
    <3>5. PICK yzp \in Seq(Events) : yzp = yz \o p
      BY <3>4
    <3>6. x \o (yzp \o <<m, q>>) = Append(Append(x \o yzp, m), q)
      OBVIOUS
    <3>7. QED
      BY <3>1, <3>3, <3>4, <3>5, <3>6
  <2>4. QED
    BY <1>1, <2>1, <2>2, <2>3 DEF w, v
<1> HIDE DEF w, closed
<1>15. Underway(Append(w, d), tr.id, {0} \cup DOMAIN items, closed \cup {<<0, text>>}, shown)
  <2>1. d.type # "added" /\ d.type # "delta" /\ d.type # "created" /\ d.type # "completed"
    BY <1>9
  <2>2. d.item \in {0} \cup DOMAIN items /\ Visible(d.text) = Visible(shown)
    BY <1>5, <1>9
  <2>3. Underway(Append(w, d), tr.id,
              IF d.type = "added" THEN ({0} \cup DOMAIN items) \cup {d.item} ELSE {0} \cup DOMAIN items,
              IF d.type = "done" THEN closed \cup {<<d.item, d.text>>} ELSE closed,
              IF d.type = "delta" THEN shown \o d.text ELSE shown)
    BY <1>9, <1>12, <2>1, <2>2, ToldMore
  <2>4. QED
    BY <1>9, <2>1, <2>3
<1>16. Concluded(Append(Append(w, d), c))
  <2>1. \A k \in DOMAIN c.output :
           <<c.output[k].item, c.output[k].text>> \in closed \cup {<<0, text>>}
    BY <1>6, <1>10
  <2>2. QED
    BY <1>10, <1>15, <2>1, CompletedEnds
<1>17. QED
  BY <1>14, <1>16

-----------------------------------------------------------------------------
(* The generator.                                                          *)

\* While an upstream is read the client has what its translator has told, and
\* once the response is finished, its terminal event.
StreamInv ==
    /\ attempt \in Nat /\ lines \in Nat
    /\ phase \in {"asked", "calling", "reading", "ended"}
    /\ sent \in Seq(Events) /\ Fine(sent)
    /\ phase \in {"asked", "calling"} => sent = <<>>
    /\ phase = "ended" => Concluded(sent)
    /\ phase = "reading" =>
          /\ translator \in Translators /\ translator.id = attempt
          /\ \A i \in DOMAIN sent : sent[i].response = attempt
          /\ lines = 0 => sent = <<>>
          /\ IF translator.finished THEN Concluded(sent) ELSE Follows(sent, translator)

LEMMA StreamStarts ==
    ASSUME BridgeInit
    PROVE  StreamInv
<1>1. attempt = 0 /\ lines = 0 /\ phase = "asked" /\ sent = <<>>
  BY DEF BridgeInit
<1>2. <<>> \in Seq(Events) /\ Fine(<<>>)
  BY NothingToldYet DEF Underway
<1>3. QED
  BY <1>1, <1>2 DEF StreamInv

LEMMA FailsConcludes ==
    ASSUME StreamInv, Fails, \A i \in DOMAIN sent : sent[i].response = attempt
    PROVE  Concluded(sent') /\ phase' = "ended"
<1>1. sent \in Seq(Events) /\ Fine(sent) /\ attempt \in Nat
  BY DEF StreamInv
<1> DEFINE tr == Fresh(attempt + 1)
<1>2. tr.id = attempt + 1 /\ tr.id \in Nat
  BY <1>1, FreshIs
<1>3. At(sent, tr.id, "completed") = {}
  BY <1>1, <1>2 DEF At
<1> HIDE DEF tr
<1>4. Concluded(sent \o Failure(tr))
  BY <1>1, <1>2, <1>3, FailureEnds
<1>5. QED
  BY <1>4 DEF Fails, tr

LEMMA ConcludedIs ==
    ASSUME NEW s, Concluded(s)
    PROVE  s \in Seq(Events) /\ Fine(s)
BY DEF Concluded

LEMMA ConvertStreams ==
    ASSUME StreamInv, Convert
    PROVE  StreamInv'
<1>1. /\ phase = "asked" /\ phase' = "calling"
      /\ attempt' = attempt /\ lines' = lines /\ sent' = sent
  BY DEF Convert
<1>2. QED
  BY <1>1 DEF StreamInv

LEMMA OpenStreams ==
    ASSUME StreamInv, OpenUpstream
    PROVE  StreamInv'
<1>1. /\ phase = "calling" /\ phase' = "reading" /\ attempt' = attempt + 1 /\ lines' = 0
      /\ translator' = Fresh(attempt + 1) /\ sent' = sent
  BY DEF OpenUpstream
<1>2. sent = <<>> /\ attempt \in Nat /\ sent \in Seq(Events) /\ Fine(sent)
  BY <1>1 DEF StreamInv
<1>3. attempt' \in Nat
  BY <1>1, <1>2
<1>4. /\ translator' \in Translators /\ translator'.id = attempt' /\ ~translator'.finished
      /\ Follows(sent', translator')
  BY <1>1, <1>2, <1>3, FreshIs
<1>5. \A i \in DOMAIN sent' : sent'[i].response = attempt'
  <2>1. DOMAIN sent' = {}
    BY <1>1, <1>2
  <2>2. QED
    BY <2>1
<1>6. QED
  BY <1>1, <1>2, <1>3, <1>4, <1>5 DEF StreamInv

LEMMA FailureStreams ==
    ASSUME StreamInv, OutOfBudget \/ NoAnswer
    PROVE  StreamInv'
<1>1. attempt' = attempt /\ lines' = lines /\ translator' = translator
  BY DEF OutOfBudget, NoAnswer
<1>2. sent = <<>>
  BY DEF StreamInv, OutOfBudget, NoAnswer
<1>3. \A i \in DOMAIN sent : sent[i].response = attempt
  <2>1. DOMAIN sent = {}
    BY <1>2
  <2>2. QED
    BY <2>1
<1>4. CASE Fails
  <2>1. Concluded(sent') /\ phase' = "ended"
    BY <1>3, <1>4, FailsConcludes
  <2>2. QED
    BY <1>1, <2>1, ConcludedIs DEF StreamInv
<1>5. CASE phase' = "calling" /\ UNCHANGED sent
  BY <1>1, <1>2, <1>5 DEF StreamInv
<1>6. QED
  BY <1>4, <1>5 DEF OutOfBudget, NoAnswer

\* What an error of the upstream, or the loss of it, tells of an unfinished
\* response.
LEMMA ErrorConcludes ==
    ASSUME NEW tr \in Translators, ~tr.finished, NEW s, Follows(s, tr)
    PROVE  LET t == FeedLine(tr, "error")
           IN /\ t.tr \in Translators /\ t.tr.id = tr.id /\ t.tr.finished
              /\ Concluded(s \o t.events)
              /\ \A i \in DOMAIN (s \o t.events) : (s \o t.events)[i].response = tr.id
<1>1. FeedLine(tr, "error") = [tr |-> [tr EXCEPT !.finished = TRUE], events |-> Failure(tr)]
  BY DEF FeedLine, Noise
<1>2. /\ [tr EXCEPT !.finished = TRUE] \in Translators
      /\ [tr EXCEPT !.finished = TRUE].id = tr.id
      /\ [tr EXCEPT !.finished = TRUE].finished
  BY DEF Translators
<1>3. /\ s \in Seq(Events) /\ Fine(s) /\ tr.id \in Nat
      /\ At(s, tr.id, "completed") = {}
      /\ \A i \in DOMAIN s : s[i].response = tr.id
  BY DEF Follows, Underway
<1>4. /\ Concluded(s \o Failure(tr))
      /\ \A i \in DOMAIN (s \o Failure(tr)) : (s \o Failure(tr))[i].response = tr.id
  BY <1>3, FailureEnds
<1> DEFINE n == [tr EXCEPT !.finished = TRUE]
           f == Failure(tr)
<1>5. FeedLine(tr, "error").tr = n /\ FeedLine(tr, "error").events = f
  <2> HIDE DEF f, n
  <2>1. FeedLine(tr, "error") = [tr |-> n, events |-> f]
    BY <1>1 DEF f, n
  <2>2. QED
    BY <2>1
<1>6. /\ n \in Translators /\ n.id = tr.id /\ n.finished
      /\ Concluded(s \o f)
      /\ \A i \in DOMAIN (s \o f) : (s \o f)[i].response = tr.id
  BY <1>2, <1>4
<1> HIDE DEF f, n
<1>7. QED
  BY <1>5, <1>6

LEMMA ReadStreams ==
    ASSUME StreamInv, NEW line \in {"word", "blank", "thought", "error"} \cup CallLines \cup Noise,
           ReadLine(line)
    PROVE  StreamInv'
<1>1. /\ phase = "reading" /\ phase' = "reading" /\ attempt' = attempt /\ lines' = lines + 1
      /\ translator' = FeedLine(translator, line).tr
      /\ sent' = sent \o FeedLine(translator, line).events
  BY DEF ReadLine
<1>2. /\ attempt \in Nat /\ lines \in Nat /\ sent \in Seq(Events) /\ Fine(sent)
      /\ translator \in Translators /\ translator.id = attempt
      /\ \A i \in DOMAIN sent : sent[i].response = attempt
      /\ IF translator.finished THEN Concluded(sent) ELSE Follows(sent, translator)
  BY <1>1 DEF StreamInv
<1>3. lines' \in Nat /\ lines' # 0
  BY <1>1, <1>2
<1>4. SUFFICES /\ sent' \in Seq(Events) /\ Fine(sent')
               /\ translator' \in Translators /\ translator'.id = attempt
               /\ \A i \in DOMAIN sent' : sent'[i].response = attempt
               /\ IF translator'.finished THEN Concluded(sent') ELSE Follows(sent', translator')
  BY <1>1, <1>2, <1>3 DEF StreamInv
<1>5. CASE translator.finished \/ line \in Noise
  <2>1. FeedLine(translator, line).tr = translator /\ FeedLine(translator, line).events = <<>>
    BY <1>5 DEF FeedLine
  <2>2. sent \o <<>> = sent
    BY <1>2
  <2>3. sent' = sent /\ translator' = translator
    BY <1>1, <2>1, <2>2
  <2>4. QED
    BY <1>2, <2>3
<1>6. CASE ~translator.finished /\ line = "error"
  <2>1. Follows(sent, translator)
    BY <1>2, <1>6
  <2>2. /\ translator' \in Translators /\ translator'.id = translator.id /\ translator'.finished
        /\ Concluded(sent')
        /\ \A i \in DOMAIN sent' : sent'[i].response = translator.id
    BY <1>1, <1>2, <1>6, <2>1, ErrorConcludes
  <2>3. QED
    BY <1>2, <2>2, ConcludedIs
<1>7. CASE ~translator.finished /\ line \notin Noise /\ line # "error"
  <2>1. line \in Pieces
    BY <1>7 DEF Pieces, CallLines
  <2>2. Follows(sent, translator)
    BY <1>2, <1>7
  <2>3. /\ FeedLine(translator, line).tr = Gathered(translator, line)
        /\ Follows(sent \o FeedLine(translator, line).events, Gathered(translator, line))
    BY <1>2, <1>7, <2>1, <2>2, FeedIs
  <2>4. /\ Gathered(translator, line) \in Translators
        /\ Gathered(translator, line).id = translator.id
        /\ Gathered(translator, line).finished = translator.finished
    BY <1>2, <2>1, GatheredIs
  <2>5. translator' \in Translators /\ translator'.id = attempt /\ ~translator'.finished
    BY <1>1, <1>2, <1>7, <2>3, <2>4
  <2>6. Follows(sent', translator')
    BY <1>1, <2>3
  <2>7. Underway(sent', attempt, IF translator'.started THEN {0} ELSE {}, {}, translator'.text)
    BY <2>5, <2>6 DEF Follows
  <2>8. QED
    BY <2>5, <2>6, <2>7 DEF Underway
<1>8. QED
  BY <1>5, <1>6, <1>7

LEMMA EndStreams ==
    ASSUME StreamInv, EndOfUpstream \/ CutOff
    PROVE  StreamInv'
<1>1. phase = "reading" /\ attempt' = attempt /\ lines' = lines
  BY DEF EndOfUpstream, CutOff
<1>2. /\ attempt \in Nat /\ lines \in Nat /\ sent \in Seq(Events) /\ Fine(sent)
      /\ translator \in Translators /\ translator.id = attempt
      /\ \A i \in DOMAIN sent : sent[i].response = attempt
      /\ IF translator.finished THEN Concluded(sent) ELSE Follows(sent, translator)
  BY <1>1 DEF StreamInv
<1>3. SUFFICES phase' = "ended" /\ Concluded(sent')
  BY <1>1, <1>2, ConcludedIs DEF StreamInv
<1>4. CASE EndOfUpstream
  <2>1. /\ phase' = "ended"
        /\ sent' = sent \o FinishAnswer(translator).events
    BY <1>4 DEF EndOfUpstream
  <2>2. CASE translator.finished
    <3>1. FinishAnswer(translator).events = <<>>
      BY <2>2 DEF FinishAnswer
    <3>2. sent \o <<>> = sent
      BY <1>2
    <3>3. sent' = sent
      BY <2>1, <3>1, <3>2
    <3>4. QED
      BY <1>2, <2>1, <2>2, <3>3
  <2>3. CASE ~translator.finished
    <3>1. Concluded(sent \o FinishAnswer(translator).events)
      BY <1>2, <2>3, FinishIs
    <3>2. QED
      BY <2>1, <3>1
  <2>4. QED
    BY <2>2, <2>3
<1>5. CASE CutOff
  <2>1. CASE translator.finished
    <3>1. Fails
      BY <1>5, <2>1 DEF CutOff
    <3>2. QED
      BY <1>2, <3>1, FailsConcludes
  <2>2. CASE ~translator.finished
    <3>1. phase' = "ended" /\ sent' = sent \o FeedLine(translator, "error").events
      BY <1>5, <2>2 DEF CutOff
    <3>2. Follows(sent, translator)
      BY <1>2, <2>2
    <3>3. Concluded(sent \o FeedLine(translator, "error").events)
      BY <1>2, <2>2, <3>2, ErrorConcludes
    <3>4. QED
      BY <3>1, <3>3
  <2>3. QED
    BY <2>1, <2>2
<1>6. QED
  BY <1>4, <1>5

LEMMA CompletionIs ==
    ASSUME NEW text \in {<<>>, <<"word">>},
           NEW calls \in {<<>>, <<"call1">>, <<"call1", "call2">>}
    PROVE  CompletionToResponse(text, calls) \in Seq(Outputs)
<1>1. text \in Seq(Pieces) /\ calls \in Seq(Pieces)
  <2>1. "word" \in Pieces /\ "call1" \in Pieces /\ "call2" \in Pieces
    BY DEF Pieces
  <2>2. <<>> \in Seq(Pieces)
    OBVIOUS
  <2>3. <<"word">> \in Seq(Pieces)
    BY <2>1
  <2>4. <<"call1">> \in Seq(Pieces)
    BY <2>1
  <2>5. <<"call1", "call2">> \in Seq(Pieces)
    BY <2>1
  <2>6. QED
    BY <2>2, <2>3, <2>4, <2>5
<1>2. CASE calls = <<>>
  <2>1. [item |-> 0, text |-> text] \in Outputs
    BY <1>1 DEF Outputs
  <2>2. <<[item |-> 0, text |-> text]>> \in Seq(Outputs)
    BY <2>1
  <2>3. QED
    BY <1>2, <2>2 DEF CompletionToResponse
<1>3. CASE calls # <<>>
  <2>1. Len(calls) \in Nat /\ DOMAIN calls = 1 .. Len(calls) /\ \A k \in 1 .. Len(calls) : calls[k] \in Pieces
    BY <1>1
  <2>2. \A k \in 1 .. Len(calls) : <<calls[k]>> \in Seq(Pieces) /\ k \in Nat
    BY <2>1
  <2>3. \A k \in 1 .. Len(calls) : [item |-> k, text |-> <<calls[k]>>] \in Outputs
    BY <2>2 DEF Outputs
  <2>4. [k \in 1 .. Len(calls) |-> [item |-> k, text |-> <<calls[k]>>]] \in Seq(Outputs)
    BY <2>1, <2>3
  <2>5. QED
    BY <1>3, <2>1, <2>4 DEF CompletionToResponse
<1>4. QED
  BY <1>2, <1>3

LEMMA AnswerStreams ==
    ASSUME StreamInv, AnswerWhole
    PROVE  StreamInv'
<1>1. /\ phase = "calling" /\ phase' = "ended" /\ attempt' = attempt + 1 /\ lines' = lines
  BY DEF AnswerWhole
<1>2. attempt \in Nat /\ lines \in Nat /\ attempt' \in Nat
  BY <1>1 DEF StreamInv
<1>3. PICK text \in {<<>>, <<"word">>}, calls \in {<<>>, <<"call1">>, <<"call1", "call2">>} :
          sent' = <<[Event(Fresh(attempt'), "response", 0, <<>>)
                       EXCEPT !.output = CompletionToResponse(text, calls)]>>
  BY DEF AnswerWhole
<1> DEFINE output == CompletionToResponse(text, calls)
           r == Event(Fresh(attempt'), "response", 0, <<>>)
<1>4. output \in Seq(Outputs)
  BY CompletionIs
<1>5. r \in Events /\ r.type = "response"
  <2>1. "response" \in EventTypes
    BY DEF EventTypes
  <2>2. Fresh(attempt').id \in Nat
    BY <1>2, FreshIs
  <2>3. QED
    BY <2>1, <2>2, BareEventIs
<1> HIDE DEF output, r
<1>6. PICK e : e = [r EXCEPT !.output = output]
  OBVIOUS
<1>7. e \in Events /\ e.type = "response"
  BY <1>4, <1>5, <1>6 DEF Events
<1>8. sent' = <<e>>
  BY <1>3, <1>6 DEF output, r
<1>9. <<>> \in Seq(Events) /\ Fine(<<>>) /\ <<e>> = Append(<<>>, e)
  <2>1. Underway(<<>>, 0, {}, {}, <<>>)
    BY NothingToldYet
  <2>2. <<>> \in Seq(Events) /\ <<e>> = Append(<<>>, e)
    BY <1>7
  <2>3. QED
    BY <2>1, <2>2 DEF Underway
<1>10. May(<<>>, e)
  BY <1>7 DEF May, At
<1>11. Fine(Append(<<>>, e)) /\ Append(<<>>, e) \in Seq(Events)
  BY <1>7, <1>9, <1>10, FineMore
<1>12. Concluded(<<e>>)
  <2>1. <<e>> # <<>> /\ Len(<<e>>) = 1 /\ <<e>>[1] = e
    OBVIOUS
  <2>2. QED
    BY <1>7, <1>9, <1>11, <2>1 DEF Concluded
<1>13. QED
  BY <1>1, <1>2, <1>8, <1>12, ConcludedIs DEF StreamInv

LEMMA StreamStays ==
    ASSUME StreamInv, [BridgeNext]_bridgeVars
    PROVE  StreamInv'
<1>1. CASE BridgeNext
  BY <1>1, ConvertStreams, AnswerStreams, OpenStreams, FailureStreams, ReadStreams, EndStreams
     DEF BridgeNext
<1>2. CASE UNCHANGED bridgeVars
  BY <1>2 DEF bridgeVars, StreamInv
<1>3. QED
  BY <1>1, <1>2

LEMMA StreamIsWellFormed ==
    ASSUME StreamInv
    PROVE  StreamWellFormed
<1>1. sent \in Seq(Events) /\ Fine(sent)
  BY DEF StreamInv
<1>2. \A i \in DOMAIN sent : sent[i].response \in Nat
  <2>1. \A i \in DOMAIN sent : sent[i] \in Events
    BY <1>1
  <2>2. QED
    BY <2>1 DEF Events
<1>3. \A r \in {sent[i].response : i \in DOMAIN sent} : ItemsAgree(sent, r) /\ EndsWell(sent, r)
  BY <1>1, <1>2 DEF Fine
<1>4. phase = "ended" => sent[Len(sent)].type \in {"completed", "response"}
  BY DEF StreamInv, Concluded
<1>5. \A i, j \in DOMAIN sent : sent[i].type = "created" /\ sent[j].type = "created" => i = j
  BY <1>1 DEF Fine, CreatedOnce
<1>6. QED
  BY <1>3, <1>4, <1>5 DEF StreamWellFormed

-----------------------------------------------------------------------------
(* The messages of a request.                                              *)

CallIds == {item.call : item \in Items}

Msgs == {Message("tool", <<c>>) : c \in CallIds} \cup {Message("assistant", <<c>>) : c \in CallIds}
           \cup {Message(role, <<>>) : role \in {"assistant", "system", "user"}}

LEMMA MsgIs ==
    ASSUME NEW m \in Msgs
    PROVE  /\ IsTool(m) => \E c \in CallIds : m = Message("tool", <<c>>) /\ m.calls[1] = c
           /\ \A c : Calls(m, c) <=> (m.role = "assistant" /\ m.calls = <<c>>)
           /\ \A c : Calls(m, c) => c \in CallIds
           /\ m.role = "assistant" => m.calls = <<>> \/ \E c \in CallIds : m.calls = <<c>>
<1>1. CASE \E c \in CallIds : m = Message("tool", <<c>>)
  <2>1. PICK c \in CallIds : m = Message("tool", <<c>>)
    BY <1>1
  <2>2. m.role = "tool" /\ m.calls = <<c>> /\ m.calls[1] = c
    BY <2>1 DEF Message
  <2>3. QED
    BY <2>1, <2>2 DEF Calls
<1>2. CASE \E c \in CallIds : m = Message("assistant", <<c>>)
  <2>1. PICK c \in CallIds : m = Message("assistant", <<c>>)
    BY <1>2
  <2>2. m.role = "assistant" /\ m.calls = <<c>>
    BY <2>1 DEF Message
  <2>3. \A d : Contains(<<c>>, d) <=> c = d
    BY DEF Contains
  <2>4. \A d : Calls(m, d) <=> c = d
    BY <2>2, <2>3 DEF Calls
  <2>5. \A d : <<c>> = <<d>> <=> c = d
    OBVIOUS
  <2>6. QED
    BY <2>2, <2>4, <2>5 DEF IsTool
<1>3. CASE \E role \in {"assistant", "system", "user"} : m = Message(role, <<>>)
  <2>1. PICK role \in {"assistant", "system", "user"} : m = Message(role, <<>>)
    BY <1>3
  <2>2. m.role = role /\ m.calls = <<>>
    BY <2>1 DEF Message
  <2>3. \A d : ~Contains(<<>>, d)
    BY DEF Contains
  <2>4. \A d : ~Calls(m, d)
    BY <2>2, <2>3 DEF Calls
  <2>5. \A d : <<>> # <<d>>
    OBVIOUS
  <2>6. QED
    BY <2>2, <2>4, <2>5 DEF IsTool
<1>4. QED
  BY <1>1, <1>2, <1>3 DEF Msgs

MessagesOf == [item \in Items |-> Messages(item)]

LEMMA MessagesAre == MessagesOf \in [Items -> Seq(Msgs)]
<1>1. ASSUME NEW item \in Items
      PROVE  Messages(item) \in Seq(Msgs)
  <2>1. item.call \in CallIds
    BY DEF CallIds
  <2>2. Message("tool", <<item.call>>) \in Msgs /\ Message("assistant", <<item.call>>) \in Msgs
    BY <2>1 DEF Msgs
  <2>3. \A role \in {"assistant", "system", "user"} : Message(role, <<>>) \in Msgs
    BY DEF Msgs
  <2>4. \A m \in Msgs : <<m>> \in Seq(Msgs)
    OBVIOUS
  <2>5. <<>> \in Seq(Msgs)
    OBVIOUS
  <2> HIDE DEF Msgs
  <2>6. CASE item.type = "function_call_output"
    BY <2>2, <2>4, <2>6 DEF Messages
  <2>7. CASE item.type = "function_call"
    BY <2>2, <2>4, <2>7 DEF Messages
  <2>8. CASE item.type \in {"system", "developer"}
    <3>1. Messages(item) = <<Message("system", <<>>)>>
      BY <2>8 DEF Messages
    <3>2. QED
      BY <2>3, <2>4, <3>1
  <2>9. CASE item.type \in {"user", "assistant"}
    <3>1. Messages(item) = <<Message(item.type, <<>>)>>
      BY <2>9 DEF Messages
    <3>2. QED
      BY <2>3, <2>4, <2>9, <3>1
  <2>10. CASE item.type = "message"
    <3>1. Messages(item) = <<Message("user", <<>>)>>
      BY <2>10 DEF Messages
    <3>2. QED
      BY <2>3, <2>4, <3>1
  <2>11. CASE item.type \notin {"function_call_output", "function_call", "system", "developer",
                               "user", "assistant", "message"}
    <3>1. Messages(item) = <<>>
      BY <2>11 DEF Messages
    <3>2. QED
      BY <2>5, <3>1
  <2>12. QED
    BY <2>6, <2>7, <2>8, <2>9, <2>10, <2>11
<1>2. QED
  BY <1>1 DEF MessagesOf

LEMMA AskedIs ==
    ASSUME NEW items \in Seq(Items)
    PROVE  FlattenSeq([i \in DOMAIN items |-> Messages(items[i])]) \in Seq(Msgs)
<1>1. [i \in DOMAIN items |-> Messages(items[i])] = [i \in DOMAIN items |-> MessagesOf[items[i]]]
  <2>1. \A i \in DOMAIN items : items[i] \in Items
    OBVIOUS
  <2>2. QED
    BY <2>1 DEF MessagesOf
<1>2. Joined(MessagesOf, items) \in Seq(Msgs)
  BY MessagesAre, JoinedIs
<1>3. QED
  BY <1>1, <1>2 DEF Joined

OtherOf == [m \in Msgs |-> IF IsTool(m) THEN <<>> ELSE <<m>>]

LEMMA OtherIs == OtherOf \in [Msgs -> Seq(Msgs)]
<1>1. \A m \in Msgs : <<m>> \in Seq(Msgs) /\ <<>> \in Seq(Msgs)
  OBVIOUS
<1> HIDE DEF Msgs
<1>2. QED
  BY <1>1 DEF OtherOf

LEMMA OthersAre ==
    ASSUME NEW s \in Seq(Msgs)
    PROVE  Others(s) = Joined(OtherOf, s)
<1>1. \A i \in DOMAIN s : s[i] \in Msgs
  OBVIOUS
<1>2. [i \in DOMAIN s |-> IF IsTool(s[i]) THEN <<>> ELSE <<s[i]>>] = [i \in DOMAIN s |-> OtherOf[s[i]]]
  BY <1>1 DEF OtherOf
<1>3. QED
  BY <1>2 DEF Others, Joined

LEMMA OthersMore ==
    ASSUME NEW s \in Seq(Msgs), NEW m \in Msgs
    PROVE  /\ Others(s) \in Seq(Msgs) /\ Others(<<>>) = <<>>
           /\ Others(Append(s, m)) = IF IsTool(m) THEN Others(s) ELSE Append(Others(s), m)
<1>1. Append(s, m) \in Seq(Msgs) /\ <<>> \in Seq(Msgs)
  OBVIOUS
<1>2. /\ Joined(OtherOf, s) \in Seq(Msgs) /\ Joined(OtherOf, <<>>) = <<>>
      /\ Joined(OtherOf, Append(s, m)) = Joined(OtherOf, s) \o OtherOf[m]
  BY OtherIs, JoinedIs, ZenonT(40)
<1>3. OtherOf[m] = IF IsTool(m) THEN <<>> ELSE <<m>>
  BY DEF OtherOf
<1>4. \A t \in Seq(Msgs) : t \o <<>> = t /\ t \o <<m>> = Append(t, m)
  OBVIOUS
<1>5. /\ Others(s) = Joined(OtherOf, s) /\ Others(<<>>) = Joined(OtherOf, <<>>)
      /\ Others(Append(s, m)) = Joined(OtherOf, Append(s, m))
  BY <1>1, OthersAre
<1>6. CASE IsTool(m)
  <2>1. Joined(OtherOf, s) \o OtherOf[m] = Joined(OtherOf, s)
    BY <1>2, <1>3, <1>4, <1>6
  <2>2. QED
    BY <1>2, <1>5, <1>6, <2>1
<1>7. CASE ~IsTool(m)
  <2>1. Joined(OtherOf, s) \o OtherOf[m] = Append(Joined(OtherOf, s), m)
    BY <1>2, <1>3, <1>4, <1>7
  <2>2. QED
    BY <1>2, <1>5, <1>7, <2>1
<1>8. QED
  BY <1>6, <1>7

-----------------------------------------------------------------------------
(* Where the answers go.                                                   *)

Called(ms) == {c \in CallIds : \E i \in DOMAIN ms : Calls(ms[i], c)}

Block(ms, i) ==
    IF IsTool(ms[i])
    THEN IF \E m \in ToSet(ms) : Calls(m, ms[i].calls[1]) THEN <<>> ELSE <<ms[i]>>
    ELSE IF ms[i].role = "assistant" THEN <<ms[i]>> \o AnswersAt(ms, i) ELSE <<ms[i]>>

LEMMA AnswerIs ==
    ASSUME NEW ms \in Seq(Msgs), NEW c, AnswerTo(ms, c) # 0
    PROVE  ms[AnswerTo(ms, c)] = Message("tool", <<c>>) /\ Message("tool", <<c>>) \in Msgs
<1> DEFINE I == {i \in 1 .. Len(ms) : IsTool(ms[i]) /\ ms[i].calls = <<c>>}
<1>1. AnswerTo(ms, c) = IF I # {} THEN Max(I) ELSE 0
  BY Zenon DEF AnswerTo, SelectLastInSeq
<1>2. I # {} /\ Len(ms) \in Nat /\ I \in SUBSET (1 .. Len(ms))
  BY <1>1
<1>3. Max(I) \in I
  <2> HIDE DEF I
  <2>1. QED
    BY <1>2, GreatestIs
<1>4. AnswerTo(ms, c) \in I
  BY <1>1, <1>2, <1>3
<1>5. PICK i \in 1 .. Len(ms) : i = AnswerTo(ms, c) /\ IsTool(ms[i]) /\ ms[i].calls = <<c>>
  BY <1>4
<1>6. ms[i] \in Msgs
  OBVIOUS
<1>7. PICK d \in CallIds : ms[i] = Message("tool", <<d>>)
  BY <1>5, <1>6, MsgIs
<1>8. ms[i].calls = <<d>>
  BY <1>7 DEF Message
<1>9. c = d
  BY <1>5, <1>8
<1>10. QED
  BY <1>5, <1>6, <1>7, <1>9

LEMMA BlockIs ==
    ASSUME NEW ms \in Seq(Msgs), NEW i \in DOMAIN ms
    PROVE  \/ IsTool(ms[i]) /\ Block(ms, i) = <<>>
           \/ /\ IsTool(ms[i]) /\ ms[i].calls[1] \notin Called(ms)
              /\ Block(ms, i) = <<ms[i]>>
           \/ ~IsTool(ms[i]) /\ Block(ms, i) = <<ms[i]>>
           \/ \E c \in CallIds :
                 /\ ms[i] = Message("assistant", <<c>>) /\ MadeAt(ms, c) = i
                 /\ Message("tool", <<c>>) \in Msgs
                 /\ Block(ms, i) = <<ms[i], Message("tool", <<c>>)>>
<1>1. ms[i] \in Msgs
  OBVIOUS
<1>2. CASE IsTool(ms[i])
  <2>1. CASE \E m \in ToSet(ms) : Calls(m, ms[i].calls[1])
    BY <1>2, <2>1 DEF Block
  <2>2. CASE ~\E m \in ToSet(ms) : Calls(m, ms[i].calls[1])
    <3>1. Block(ms, i) = <<ms[i]>>
      BY <1>2, <2>2 DEF Block
    <3>2. ms[i].calls[1] \notin Called(ms)
      BY <2>2 DEF Called, ToSet
    <3>3. QED
      BY <1>2, <3>1, <3>2
  <2>3. QED
    BY <2>1, <2>2
<1>3. CASE ~IsTool(ms[i]) /\ ms[i].role # "assistant"
  BY <1>3 DEF Block
<1>4. CASE ms[i].role = "assistant"
  <2>1. ~IsTool(ms[i]) /\ Block(ms, i) = <<ms[i]>> \o AnswersAt(ms, i)
    BY <1>4 DEF Block, IsTool
  <2>2. <<ms[i]>> \in Seq(Msgs) /\ <<>> \in Seq(Msgs) /\ <<ms[i]>> \o <<>> = <<ms[i]>>
    BY <1>1
  <2>3. CASE ms[i].calls = <<>>
    <3>1. AnswersAt(ms, i) = <<>>
      <4>1. AnswersAt(ms, i) = FlattenSeq(<<>>)
        <5> DEFINE a(k) == IF MadeAt(ms, ms[i].calls[k]) = i /\ AnswerTo(ms, ms[i].calls[k]) # 0
                           THEN <<ms[AnswerTo(ms, ms[i].calls[k])]>> ELSE <<>>
        <5>1. AnswersAt(ms, i) = FlattenSeq([k \in DOMAIN ms[i].calls |-> a(k)])
          BY DEF AnswersAt
        <5> HIDE DEF a
        <5>2. [k \in DOMAIN ms[i].calls |-> a(k)] = <<>>
          BY <2>3
        <5>3. QED
          BY <5>1, <5>2
      <4>2. QED
        BY <4>1, FlattenIs
    <3>2. QED
      BY <2>1, <2>2, <3>1
  <2>4. CASE \E c \in CallIds : ms[i].calls = <<c>>
    <3>1. PICK c \in CallIds : ms[i].calls = <<c>>
      BY <2>4
    <3>2. ms[i] = Message("assistant", <<c>>)
      <4>1. CASE \E d \in CallIds : ms[i] = Message("assistant", <<d>>)
        <5>1. PICK d \in CallIds : ms[i] = Message("assistant", <<d>>)
          BY <4>1
        <5>2. ms[i].calls = <<d>>
          BY <5>1 DEF Message
        <5>3. c = d
          BY <3>1, <5>2
        <5>4. QED
          BY <5>1, <5>3
      <4>2. CASE \E d \in CallIds : ms[i] = Message("tool", <<d>>)
        BY <1>4, <4>2 DEF Message
      <4>3. CASE \E role \in {"assistant", "system", "user"} : ms[i] = Message(role, <<>>)
        <5>1. ms[i].calls = <<>>
          BY <4>3 DEF Message
        <5>2. <<>> # <<c>>
          OBVIOUS
        <5>3. QED
          BY <3>1, <5>1, <5>2
      <4>4. QED
        BY <1>1, <4>1, <4>2, <4>3 DEF Msgs
    <3> DEFINE x == IF MadeAt(ms, c) = i /\ AnswerTo(ms, c) # 0 THEN <<ms[AnswerTo(ms, c)]>> ELSE <<>>
    <3>3. x \in Seq(Msgs)
      <4>1. AnswerTo(ms, c) # 0 => ms[AnswerTo(ms, c)] \in Msgs
        BY AnswerIs
      <4>2. \A m \in Msgs : <<m>> \in Seq(Msgs)
        OBVIOUS
      <4>3. QED
        BY <2>2, <4>1, <4>2
    <3>4. AnswersAt(ms, i) = x
      <4> DEFINE a(k) == IF MadeAt(ms, ms[i].calls[k]) = i /\ AnswerTo(ms, ms[i].calls[k]) # 0
                         THEN <<ms[AnswerTo(ms, ms[i].calls[k])]>> ELSE <<>>
      <4>1. AnswersAt(ms, i) = FlattenSeq([k \in DOMAIN ms[i].calls |-> a(k)])
        BY DEF AnswersAt
      <4>2. ms[i].calls[1] = c /\ DOMAIN ms[i].calls = 1 .. 1
        BY <3>1
      <4>3. a(1) = x
        BY <4>2
      <4> HIDE DEF a, x
      <4>4. [k \in DOMAIN ms[i].calls |-> a(k)] = <<x>>
        BY <4>2, <4>3
      <4>5. FlattenSeq(<<x>>) = x
        BY <3>3, FlattenOne
      <4>6. QED
        BY <4>1, <4>4, <4>5
    <3>5. CASE MadeAt(ms, c) = i /\ AnswerTo(ms, c) # 0
      <4>1. x = <<Message("tool", <<c>>)>> /\ Message("tool", <<c>>) \in Msgs
        BY <3>5, AnswerIs
      <4> DEFINE y == Message("tool", <<c>>)
                 z == ms[i]
      <4> HIDE DEF x, y, z
      <4>2. <<z>> \o <<y>> = <<z, y>>
        <5>1. y \in Msgs /\ z \in Msgs
          BY <1>1, <4>1 DEF y, z
        <5>2. QED
          BY <5>1, TwoAre
      <4>3. Block(ms, i) = <<ms[i], Message("tool", <<c>>)>>
        BY <2>1, <3>4, <4>1, <4>2 DEF y, z
      <4>4. QED
        BY <3>2, <3>5, <4>1, <4>3
    <3>6. CASE ~(MadeAt(ms, c) = i /\ AnswerTo(ms, c) # 0)
      <4>1. AnswersAt(ms, i) = <<>>
        BY <3>4, <3>6
      <4>2. QED
        BY <2>1, <2>2, <4>1
    <3>7. QED
      BY <3>5, <3>6
  <2>5. QED
    BY <1>1, <1>4, <2>3, <2>4, MsgIs
<1>5. QED
  BY <1>2, <1>3, <1>4

\* The first elements of a sequence.
FirstOf(f, m) == [i \in 1 .. m |-> f[i]]

LEMMA FirstIs ==
    ASSUME NEW S, NEW f \in Seq(S)
    PROVE  /\ FirstOf(f, 0) = <<>> /\ FirstOf(f, Len(f)) = f
           /\ \A m \in 0 .. Len(f) - 1 :
                 /\ FirstOf(f, m) \in Seq(S) /\ f[m + 1] \in S
                 /\ FirstOf(f, m + 1) = Append(FirstOf(f, m), f[m + 1])
<1>1. Len(f) \in Nat /\ DOMAIN f = 1 .. Len(f) /\ \A i \in 1 .. Len(f) : f[i] \in S
  OBVIOUS
<1>2. FirstOf(f, 0) = <<>>
  BY DEF FirstOf
<1>3. FirstOf(f, Len(f)) = f
  BY <1>1 DEF FirstOf
<1>4. ASSUME NEW m \in 0 .. Len(f) - 1
      PROVE  /\ FirstOf(f, m) \in Seq(S) /\ f[m + 1] \in S
             /\ FirstOf(f, m + 1) = Append(FirstOf(f, m), f[m + 1])
  <2>1. m \in Nat /\ m + 1 \in 1 .. Len(f) /\ \A i \in 1 .. m + 1 : f[i] \in S
    BY <1>1
  <2> DEFINE p == FirstOf(f, m)
             q == FirstOf(f, m + 1)
             a == f[m + 1]
  <2>2. p \in Seq(S) /\ Len(p) = m /\ \A i \in 1 .. m : p[i] = f[i]
    BY <2>1 DEF FirstOf
  <2>3. q \in Seq(S) /\ Len(q) = m + 1 /\ \A i \in 1 .. m + 1 : q[i] = f[i]
    BY <2>1 DEF FirstOf
  <2>4. a \in S
    BY <2>1
  <2> HIDE DEF p, q
  <2>5. /\ Append(p, a) \in Seq(S) /\ Len(Append(p, a)) = m + 1
        /\ \A i \in 1 .. m : Append(p, a)[i] = p[i]
        /\ Append(p, a)[m + 1] = a
    BY <2>2, <2>4, AppendProperties
  <2>6. ASSUME NEW i \in 1 .. m + 1
        PROVE  Append(p, a)[i] = q[i]
    <3>1. CASE i = m + 1
      BY <2>3, <2>5, <3>1
    <3>2. CASE i # m + 1
      <4>1. i \in 1 .. m
        BY <2>1, <3>2
      <4>2. QED
        BY <2>2, <2>3, <2>5, <4>1
    <3>3. QED
      BY <3>1, <3>2
  <2>7. q = Append(p, a)
    BY <2>3, <2>5, <2>6, SeqEqual
  <2>8. QED
    BY <2>2, <2>4, <2>7 DEF p, q
<1>5. QED
  BY <1>2, <1>3, <1>4

\* An answer behind the message that makes its call, once.
Behind(s, j) ==
    /\ \E i \in 1 .. j - 1 : Calls(s[i], s[j].calls[1]) /\ \A k \in i + 1 .. j : IsTool(s[k])
    /\ \A k \in DOMAIN s : s[k] = s[j] => k = j

LEMMA BehindStays ==
    ASSUME NEW s \in Seq(Msgs), NEW a \in Msgs, NEW j \in DOMAIN s, Behind(s, j), a # s[j]
    PROVE  Behind(Append(s, a), j)
<1> DEFINE t == Append(s, a)
<1>1. /\ Len(s) \in Nat /\ DOMAIN s = 1 .. Len(s) /\ DOMAIN t = 1 .. Len(s) + 1
      /\ \A i \in 1 .. Len(s) : t[i] = s[i]
      /\ t[Len(s) + 1] = a
  BY AppendProperties
<1> HIDE DEF t
<1>2. PICK i \in 1 .. j - 1 : Calls(s[i], s[j].calls[1]) /\ \A k \in i + 1 .. j : IsTool(s[k])
  BY DEF Behind
<1>3. i \in 1 .. Len(s) /\ \A k \in i + 1 .. j : k \in 1 .. Len(s)
  BY <1>1
<1>4. Calls(t[i], t[j].calls[1]) /\ \A k \in i + 1 .. j : IsTool(t[k])
  BY <1>1, <1>2, <1>3
<1>5. ASSUME NEW k \in DOMAIN t, t[k] = t[j]
      PROVE  k = j
  <2>1. k \in DOMAIN s \/ k = Len(s) + 1
    BY <1>1
  <2>2. \A l \in DOMAIN s : s[l] = s[j] => l = j
    BY DEF Behind
  <2>3. QED
    BY <1>1, <1>5, <2>1, <2>2
<1>6. QED
  BY <1>4, <1>5 DEF Behind, t

\* What the first messages became: answers to their calls, behind them.
Placed(ms, s, m) ==
    /\ s \in Seq(Msgs)
    /\ \A j \in DOMAIN s : IsTool(s[j]) /\ s[j].calls[1] \in Called(ms) =>
          Behind(s, j) /\ MadeAt(ms, s[j].calls[1]) \in 1 .. m
    /\ \A j \in DOMAIN s, c \in CallIds : Calls(s[j], c) => c \in Called(ms)

LEMMA PlacedLater ==
    ASSUME NEW ms, NEW s, NEW m \in Nat, Placed(ms, s, m)
    PROVE  Placed(ms, s, m + 1)
<1>1. 1 .. m \subseteq 1 .. m + 1
  OBVIOUS
<1>2. QED
  BY <1>1 DEF Placed

LEMMA PlainPlaced ==
    ASSUME NEW ms, NEW s, NEW m \in Nat, Placed(ms, s, m),
           NEW a \in Msgs, IsTool(a) => a.calls[1] \notin Called(ms),
           \A c \in CallIds : Calls(a, c) => c \in Called(ms)
    PROVE  Placed(ms, Append(s, a), m)
<1> DEFINE t == Append(s, a)
<1>1. s \in Seq(Msgs)
  BY DEF Placed
<1>2. /\ t \in Seq(Msgs) /\ Len(s) \in Nat /\ DOMAIN s = 1 .. Len(s) /\ DOMAIN t = 1 .. Len(s) + 1
      /\ \A i \in 1 .. Len(s) : t[i] = s[i]
      /\ t[Len(s) + 1] = a
  BY <1>1, AppendProperties
<1> HIDE DEF t
<1>3. \A j \in DOMAIN t : (j \in DOMAIN s /\ t[j] = s[j]) \/ t[j] = a
  BY <1>2
<1>4. ASSUME NEW j \in DOMAIN t, IsTool(t[j]), t[j].calls[1] \in Called(ms)
      PROVE  Behind(t, j) /\ MadeAt(ms, t[j].calls[1]) \in 1 .. m
  <2>1. j \in DOMAIN s /\ t[j] = s[j]
    BY <1>3, <1>4
  <2>2. Behind(s, j) /\ MadeAt(ms, s[j].calls[1]) \in 1 .. m
    BY <1>4, <2>1 DEF Placed
  <2>3. a # s[j]
    BY <1>4, <2>1
  <2>4. Behind(t, j)
    BY <1>1, <2>1, <2>2, <2>3, BehindStays DEF t
  <2>5. QED
    BY <2>1, <2>2, <2>4
<1>5. \A j \in DOMAIN t, c \in CallIds : Calls(t[j], c) => c \in Called(ms)
  BY <1>3 DEF Placed
<1>6. QED
  BY <1>2, <1>4, <1>5 DEF Placed, t

LEMMA AnswerPlaced ==
    ASSUME NEW ms, NEW s, NEW m \in Nat, Placed(ms, s, m),
           NEW c \in Called(ms), MadeAt(ms, c) = m + 1,
           NEW a \in Msgs, a = Message("assistant", <<c>>),
           NEW b \in Msgs, b = Message("tool", <<c>>)
    PROVE  Placed(ms, Append(Append(s, a), b), m + 1)
<1> DEFINE t == Append(s, a)
           u == Append(t, b)
<1>1. /\ ~IsTool(a) /\ Calls(a, c) /\ \A d \in CallIds : Calls(a, d) => d \in Called(ms)
      /\ IsTool(b) /\ b.calls[1] = c /\ \A d : ~Calls(b, d)
  <2>1. a.role = "assistant" /\ a.calls = <<c>> /\ b.role = "tool" /\ b.calls = <<c>>
    BY DEF Message
  <2>2. \A d : Calls(a, d) <=> <<c>> = <<d>>
    BY <2>1, MsgIs
  <2>3. \A d : <<c>> = <<d>> <=> c = d
    OBVIOUS
  <2>4. \A d : ~Calls(b, d)
    BY <2>1 DEF Calls
  <2>5. b.calls[1] = c
    BY <2>1
  <2>6. QED
    BY <2>1, <2>2, <2>3, <2>4, <2>5 DEF IsTool
<1>2. Placed(ms, t, m)
  BY <1>1, PlainPlaced
<1>3. s \in Seq(Msgs) /\ t \in Seq(Msgs)
  BY <1>2 DEF Placed
<1>4. Len(t) \in Nat /\ Len(t) \in DOMAIN t /\ t[Len(t)] = a
  BY <1>3, AppendProperties
<1> HIDE DEF t
<1>5. /\ u \in Seq(Msgs) /\ DOMAIN t = 1 .. Len(t) /\ DOMAIN u = 1 .. Len(t) + 1
      /\ \A i \in 1 .. Len(t) : u[i] = t[i]
      /\ u[Len(t) + 1] = b
  BY <1>3, <1>4, AppendProperties
<1> HIDE DEF u
<1>6. \A j \in DOMAIN t : IsTool(t[j]) /\ t[j].calls[1] \in Called(ms) => t[j].calls[1] # c
  BY <1>2 DEF Placed
<1>7. ASSUME NEW j \in DOMAIN u, IsTool(u[j]), u[j].calls[1] \in Called(ms)
      PROVE  Behind(u, j) /\ MadeAt(ms, u[j].calls[1]) \in 1 .. m + 1
  <2>1. CASE j \in DOMAIN t
    <3>1. u[j] = t[j]
      BY <1>5, <2>1
    <3>2. Behind(t, j) /\ MadeAt(ms, t[j].calls[1]) \in 1 .. m
      BY <1>2, <1>7, <2>1, <3>1 DEF Placed
    <3>3. b # t[j]
      BY <1>1, <1>6, <1>7, <2>1, <3>1
    <3>4. Behind(u, j)
      BY <1>3, <2>1, <3>2, <3>3, BehindStays DEF u
    <3>5. QED
      BY <3>1, <3>2, <3>4
  <2>2. CASE j = Len(t) + 1
    <3>1. u[j] = b /\ u[Len(t)] = a /\ Len(t) \in 1 .. j - 1
      BY <1>4, <1>5, <2>2
    <3>2. \A k \in Len(t) + 1 .. j : k = j
      BY <1>4, <2>2
    <3>3. \A k \in Len(t) + 1 .. j : IsTool(u[k])
      BY <1>1, <3>1, <3>2
    <3>4. Calls(u[Len(t)], u[j].calls[1])
      BY <1>1, <3>1
    <3>5. ASSUME NEW k \in DOMAIN u, u[k] = u[j]
          PROVE  k = j
      <4>1. k \in DOMAIN t \/ k = Len(t) + 1
        BY <1>5
      <4>2. k \in DOMAIN t => t[k] = u[k]
        BY <1>5
      <4>3. QED
        BY <1>1, <1>6, <2>2, <3>1, <3>5, <4>1, <4>2
    <3>6. Behind(u, j)
      BY <3>1, <3>3, <3>4, <3>5 DEF Behind
    <3>7. MadeAt(ms, u[j].calls[1]) \in 1 .. m + 1
      BY <1>1, <3>1
    <3>8. QED
      BY <3>6, <3>7
  <2>3. QED
    BY <1>5, <2>1, <2>2
<1>8. ASSUME NEW j \in DOMAIN u, NEW d \in CallIds, Calls(u[j], d)
      PROVE  d \in Called(ms)
  <2>1. (j \in DOMAIN t /\ u[j] = t[j]) \/ u[j] = b
    BY <1>5
  <2>2. QED
    BY <1>1, <1>2, <1>8, <2>1 DEF Placed
<1>9. QED
  BY <1>5, <1>7, <1>8 DEF Placed, u, t

LEMMA ReorderIs ==
    ASSUME NEW ms \in Seq(Msgs)
    PROVE  /\ Placed(ms, ReorderToolMessages(ms), Len(ms))
           /\ Others(ReorderToolMessages(ms)) = Others(ms)
<1> DEFINE n == Len(ms)
           blocks == [i \in DOMAIN ms |-> Block(ms, i)]
           P(m) == FlattenSeq(FirstOf(blocks, m))
           T == {m \in 0 .. n : Placed(ms, P(m), m) /\ Others(P(m)) = Others(FirstOf(ms, m))}
<1>1. n \in Nat /\ DOMAIN ms = 1 .. n /\ \A i \in 1 .. n : ms[i] \in Msgs
  OBVIOUS
<1>2. ReorderToolMessages(ms) = FlattenSeq(blocks)
  BY DEF ReorderToolMessages, Block
<1>3. blocks \in Seq(Seq(Msgs)) /\ Len(blocks) = n /\ \A i \in 1 .. n : blocks[i] = Block(ms, i)
  <2>1. \A i \in 1 .. n : Block(ms, i) \in Seq(Msgs)
    <3>1. SUFFICES ASSUME NEW i \in DOMAIN ms
                   PROVE  Block(ms, i) \in Seq(Msgs)
      BY <1>1
    <3>2. <<>> \in Seq(Msgs) /\ <<ms[i]>> \in Seq(Msgs)
      BY <1>1
    <3>3. \A b \in Msgs : <<ms[i], b>> \in Seq(Msgs)
      BY <1>1, MoreIs
    <3>4. QED
      BY <3>2, <3>3, BlockIs
  <2> HIDE DEF n
  <2>2. QED
    BY <1>1, <2>1
<1> HIDE DEF n, blocks
<1>4. 0 \in T
  <2>1. FirstOf(blocks, 0) = <<>> /\ FirstOf(ms, 0) = <<>>
    BY <1>3, FirstIs
  <2>2. P(0) = <<>>
    BY <2>1, FlattenIs
  <2>3. <<>> \in Seq(Msgs) /\ DOMAIN <<>> = {} /\ 0 \in 0 .. n
    BY <1>1
  <2>4. Placed(ms, <<>>, 0)
    BY <2>3 DEF Placed
  <2> HIDE DEF P
  <2>5. QED
    BY <2>1, <2>2, <2>3, <2>4
<1>5. ASSUME NEW m \in 0 .. n - 1, m \in T
      PROVE  m + 1 \in T
  <2>1. m + 1 \in DOMAIN ms /\ m \in Nat /\ m + 1 \in 0 .. n
    BY <1>1
  <2> DEFINE s == P(m)
             a == ms[m + 1]
             f == FirstOf(ms, m)
  <2>2. Placed(ms, s, m) /\ Others(s) = Others(f) /\ s \in Seq(Msgs)
    BY <1>5 DEF Placed
  <2>3. a \in Msgs /\ f \in Seq(Msgs) /\ FirstOf(ms, m + 1) = Append(f, a)
    BY <1>1, <2>1, FirstIs DEF n
  <2>4. P(m + 1) = s \o Block(ms, m + 1)
    <3>1. /\ FirstOf(blocks, m) \in Seq(Seq(Msgs)) /\ blocks[m + 1] \in Seq(Msgs)
          /\ FirstOf(blocks, m + 1) = Append(FirstOf(blocks, m), blocks[m + 1])
      BY <1>3, FirstIs
    <3>2. blocks[m + 1] = Block(ms, m + 1)
      BY <1>1, <1>3, <2>1
    <3>3. QED
      BY <3>1, <3>2, FlattenIs
  <2> HIDE DEF s, f, P
  <2>5. SUFFICES Placed(ms, P(m + 1), m + 1) /\ Others(P(m + 1)) = Others(Append(f, a))
    BY <2>1, <2>3
  <2>6. \A c \in CallIds : Calls(a, c) => c \in Called(ms)
    BY <2>1 DEF Called
  <2>7. Others(Append(f, a)) = IF IsTool(a) THEN Others(f) ELSE Append(Others(f), a)
    BY <2>3, OthersMore
  <2>8. Others(Append(s, a)) = IF IsTool(a) THEN Others(s) ELSE Append(Others(s), a)
    BY <2>2, <2>3, OthersMore
  <2>9. s \o <<a>> = Append(s, a) /\ s \o <<>> = s
    BY <2>2, <2>3, OneBehind
  <2>10. CASE IsTool(a) /\ Block(ms, m + 1) = <<>>
    <3>1. P(m + 1) = s
      BY <2>4, <2>9, <2>10
    <3>2. QED
      BY <2>1, <2>2, <2>7, <2>10, <3>1, PlacedLater
  <2>11. CASE IsTool(a) /\ a.calls[1] \notin Called(ms) /\ Block(ms, m + 1) = <<a>>
    <3>1. P(m + 1) = Append(s, a)
      BY <2>4, <2>9, <2>11
    <3>2. Placed(ms, Append(s, a), m)
      BY <2>1, <2>2, <2>3, <2>6, <2>11, PlainPlaced
    <3>3. Placed(ms, Append(s, a), m + 1)
      BY <2>1, <3>2, PlacedLater
    <3>4. QED
      BY <2>2, <2>7, <2>8, <2>11, <3>1, <3>3
  <2>12. CASE ~IsTool(a) /\ Block(ms, m + 1) = <<a>>
    <3>1. P(m + 1) = Append(s, a)
      BY <2>4, <2>9, <2>12
    <3>2. Placed(ms, Append(s, a), m)
      BY <2>1, <2>2, <2>3, <2>6, <2>12, PlainPlaced
    <3>3. Placed(ms, Append(s, a), m + 1)
      BY <2>1, <3>2, PlacedLater
    <3>4. QED
      BY <2>2, <2>7, <2>8, <2>12, <3>1, <3>3
  <2>13. CASE \E c \in CallIds :
                 /\ a = Message("assistant", <<c>>) /\ MadeAt(ms, c) = m + 1
                 /\ Message("tool", <<c>>) \in Msgs
                 /\ Block(ms, m + 1) = <<a, Message("tool", <<c>>)>>
    <3>1. PICK c \in CallIds :
                 /\ a = Message("assistant", <<c>>) /\ MadeAt(ms, c) = m + 1
                 /\ Message("tool", <<c>>) \in Msgs
                 /\ Block(ms, m + 1) = <<a, Message("tool", <<c>>)>>
      BY <2>13
    <3> DEFINE b == Message("tool", <<c>>)
    <3>2. b \in Msgs /\ Block(ms, m + 1) = <<a, b>> /\ b = Message("tool", <<c>>)
      BY <3>1
    <3>3. IsTool(b) /\ ~IsTool(a) /\ Calls(a, c)
      <4>1. b.role = "tool" /\ a.role = "assistant" /\ a.calls = <<c>>
        BY <3>1 DEF Message
      <4>2. QED
        BY <2>3, <4>1, MsgIs DEF IsTool
    <3>4. c \in Called(ms)
      BY <2>6, <3>3
    <3> HIDE DEF a, b
    <3>5. P(m + 1) = Append(Append(s, a), b)
      <4>1. s \o <<a, b>> = Append(Append(s, a), b)
        BY <2>2, <2>3, <3>2, MoreIs
      <4>2. QED
        BY <2>4, <3>2, <4>1
    <3>6. Placed(ms, Append(Append(s, a), b), m + 1)
      BY <2>1, <2>2, <2>3, <3>1, <3>2, <3>4, AnswerPlaced
    <3>7. Others(Append(Append(s, a), b)) = Others(Append(s, a))
      <4>1. Append(s, a) \in Seq(Msgs)
        BY <2>2, <2>3, AppendProperties
      <4>2. QED
        BY <3>2, <3>3, <4>1, OthersMore
    <3>8. QED
      BY <2>2, <2>7, <2>8, <3>3, <3>5, <3>6, <3>7
  <2>14. QED
    BY <2>1, <2>10, <2>11, <2>12, <2>13, BlockIs DEF a
<1>6. n \in T
  <2> HIDE DEF T
  <2>1. \A m \in 0 .. n : m \in T
    BY <1>1, <1>4, <1>5, UpTo
  <2>2. QED
    BY <1>1, <2>1
<1>7. FirstOf(blocks, n) = blocks /\ FirstOf(ms, n) = ms
  BY <1>3, FirstIs DEF n
<1>8. QED
  BY <1>2, <1>6, <1>7 DEF n

\* What the messages of a request are.
AnswersStand(ms, sorted) ==
    /\ Others(ms) # <<>> => Others(sorted) = Others(ms)
    /\ \A j \in DOMAIN sorted :
          LET c == sorted[j].calls[1]
          IN IsTool(sorted[j]) /\ (\E m \in ToSet(sorted) : Calls(m, c)) => Behind(sorted, j)

LEMMA RequestIs ==
    ASSUME NEW items \in Seq(Items)
    PROVE  AnswersStand(FlattenSeq([i \in DOMAIN items |-> Messages(items[i])]), RequestToChat(items))
<1> DEFINE ms == FlattenSeq([i \in DOMAIN items |-> Messages(items[i])])
           r  == ReorderToolMessages(ms)
           user == Message("user", <<>>)
<1>1. ms \in Seq(Msgs)
  BY AskedIs
<1>2. RequestToChat(items) = IF r = <<>> THEN <<user>> ELSE r
  BY DEF RequestToChat
<1> HIDE DEF ms
<1>3. Placed(ms, r, Len(ms)) /\ Others(r) = Others(ms)
  BY <1>1, ReorderIs
<1> HIDE DEF r
<1>4. CASE r = <<>>
  <2>1. Others(ms) = <<>>
    <3>1. Others(<<>>) = Joined(OtherOf, <<>>)
      <4>1. <<>> \in Seq(Msgs)
        OBVIOUS
      <4>2. QED
        BY <4>1, OthersAre
    <3>2. Joined(OtherOf, <<>>) = <<>>
      BY OtherIs, JoinedIs
    <3>3. QED
      BY <1>3, <1>4, <3>1, <3>2
  <2>2. ~IsTool(user)
    BY DEF IsTool, Message
  <2> HIDE DEF user
  <2>3. DOMAIN <<user>> = {1} /\ <<user>>[1] = user
    OBVIOUS
  <2>4. AnswersStand(ms, <<user>>)
    BY <2>1, <2>2, <2>3 DEF AnswersStand
  <2>5. QED
    BY <1>2, <1>4, <2>4 DEF ms
<1>5. CASE r # <<>>
  <2>1. ASSUME NEW j \in DOMAIN r, IsTool(r[j]), NEW m \in ToSet(r), Calls(m, r[j].calls[1])
        PROVE  Behind(r, j)
    <3>1. PICK i \in DOMAIN r : m = r[i]
      BY DEF ToSet
    <3>2. r \in Seq(Msgs) /\ r[i] \in Msgs
      BY <1>3 DEF Placed
    <3>3. r[j].calls[1] \in CallIds
      BY <2>1, <3>1, <3>2, MsgIs
    <3>4. r[j].calls[1] \in Called(ms)
      BY <1>3, <2>1, <3>1, <3>3 DEF Placed
    <3>5. QED
      BY <1>3, <2>1, <3>4 DEF Placed
  <2>2. AnswersStand(ms, r)
    BY <1>3, <2>1 DEF AnswersStand
  <2>3. QED
    BY <1>2, <1>5, <2>2 DEF ms
<1>6. QED
  BY <1>4, <1>5

-----------------------------------------------------------------------------
(* The bridge.                                                             *)

BridgeInv ==
    /\ asked \in Seq(Items)
    /\ phase # "asked" => chat = RequestToChat(asked)
    /\ StreamInv

LEMMA BridgeStarts == BridgeInit => BridgeInv
<1> SUFFICES ASSUME BridgeInit
             PROVE  BridgeInv
  OBVIOUS
<1>1. asked \in SeqOf(Items, MaxItems) /\ phase = "asked"
  BY DEF BridgeInit
<1>2. asked \in Seq(Items)
  BY <1>1, BridgeConstants DEF SeqOf
<1>3. QED
  BY <1>1, <1>2, StreamStarts DEF BridgeInv

LEMMA BridgeStays == BridgeInv /\ [BridgeNext]_bridgeVars => BridgeInv'
<1> SUFFICES ASSUME BridgeInv, [BridgeNext]_bridgeVars
             PROVE  BridgeInv'
  OBVIOUS
<1>1. StreamInv'
  BY StreamStays DEF BridgeInv
<1>2. asked' = asked
  BY DEF BridgeNext, bridgeVars, Convert, AnswerWhole, OpenUpstream, OutOfBudget, NoAnswer,
         ReadLine, EndOfUpstream, CutOff
<1>3. chat' = RequestToChat(asked) \/ (chat' = chat /\ (phase' # "asked" => phase # "asked"))
  <2>1. CASE Convert
    BY <2>1 DEF Convert
  <2>2. CASE ~Convert
    BY <2>2 DEF BridgeNext, bridgeVars, AnswerWhole, OpenUpstream, OutOfBudget, NoAnswer,
                ReadLine, EndOfUpstream, CutOff
  <2>3. QED
    BY <2>1, <2>2
<1>4. QED
  BY <1>1, <1>2, <1>3 DEF BridgeInv

LEMMA BridgeKeeps == BridgeInv => BridgeAgrees
<1> SUFFICES ASSUME BridgeInv
             PROVE  BridgeAgrees
  OBVIOUS
<1>1. StreamWellFormed
  BY StreamIsWellFormed DEF BridgeInv
<1>2. AnswersFollowCalls
  <2> DEFINE ms == FlattenSeq([i \in DOMAIN asked |-> Messages(asked[i])])
  <2>1. SUFFICES ASSUME phase # "asked"
                 PROVE  /\ Others(ms) # <<>> => Others(chat) = Others(ms)
                        /\ \A j \in DOMAIN chat :
                              LET c == chat[j].calls[1]
                              IN IsTool(chat[j]) /\ (\E m \in ToSet(chat) : Calls(m, c)) =>
                                  /\ \E i \in 1 .. j - 1 :
                                        Calls(chat[i], c) /\ \A k \in i + 1 .. j : IsTool(chat[k])
                                  /\ \A k \in DOMAIN chat : chat[k] = chat[j] => k = j
    BY DEF AnswersFollowCalls
  <2>2. AnswersStand(ms, chat)
    BY <2>1, RequestIs DEF BridgeInv
  <2> HIDE DEF ms
  <2>3. QED
    BY <2>2 DEF AnswersStand, Behind
<1>3. QED
  BY <1>1, <1>2 DEF BridgeAgrees

(* Of every request the bridge makes messages in which each answer stands  *)
(* behind the message that makes the call, once, and nothing else is lost  *)
(* or moved; and whatever lines the upstreams send and wherever they stop, *)
(* the client's stream is one well-formed response at most, whose items are *)
(* opened, streamed and closed in agreement, and it ends completed.        *)
THEOREM BridgeTellsOneResponse == BridgeSpec => []BridgeAgrees
<1>1. BridgeInit => BridgeInv
  BY BridgeStarts
<1>2. BridgeInv /\ [BridgeNext]_bridgeVars => BridgeInv'
  BY BridgeStays
<1>3. BridgeInv => BridgeAgrees
  BY BridgeKeeps
<1>4. QED
  BY <1>1, <1>2, <1>3, PTL DEF BridgeSpec

=================================================================================

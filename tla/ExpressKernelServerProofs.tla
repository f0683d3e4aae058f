---------------------- MODULE ExpressKernelServerProofs ----------------------
\* Proof that a server which listens has its pipeline in order, and that nothing
\* listens after close(), for any items registered at any time and any number of
\* run() and close(). What a run() has applied is described by the next hook of
\* the next kind that it comes to, and by the lists as they are now.
EXTENDS ExpressKernelServer, SequenceTheorems, FiniteSetTheorems, TLAPS

(***************************************************************************)
(* The eleven kinds, and the place of each.                                    *)
(***************************************************************************)
KindRank(k) == CHOOSE n \in DOMAIN PipelineOrder : PipelineOrder[n] = k

LEMMA OrderForm ==
    /\ Len(PipelineOrder) = 11 /\ DOMAIN PipelineOrder = 1..11
    /\ \A m, n \in 1..11 : PipelineOrder[m] = PipelineOrder[n] => m = n
    /\ Kinds = {PipelineOrder[n] : n \in 1..11}
    /\ Len(Hooks) = 5
<1>1. Len(PipelineOrder) = 11 /\ DOMAIN PipelineOrder = 1..11
  BY DEF PipelineOrder
<1>2. \A m, n \in 1..11 : PipelineOrder[m] = PipelineOrder[n] => m = n
  BY DEF PipelineOrder
<1>3. Kinds = {PipelineOrder[n] : n \in 1..11}
  BY <1>1 DEF Kinds, ToSet
<1>4. Len(Hooks) = 5
  BY DEF Hooks
<1> QED
  BY <1>1, <1>2, <1>3, <1>4

LEMMA RankForm ==
    /\ \A k \in Kinds : KindRank(k) \in 1..11 /\ PipelineOrder[KindRank(k)] = k
    /\ \A n \in 1..11 : PipelineOrder[n] \in Kinds /\ KindRank(PipelineOrder[n]) = n
    /\ \A i, j \in Kinds : KindRank(i) = KindRank(j) => i = j
<1>1. ASSUME NEW k \in Kinds PROVE KindRank(k) \in 1..11 /\ PipelineOrder[KindRank(k)] = k
  <2>1. \E n \in DOMAIN PipelineOrder : PipelineOrder[n] = k
    BY OrderForm
  <2> QED
    BY <2>1, OrderForm DEF KindRank
<1>2. ASSUME NEW n \in 1..11
      PROVE  PipelineOrder[n] \in Kinds /\ KindRank(PipelineOrder[n]) = n
  <2>1. PipelineOrder[n] \in Kinds
    BY OrderForm
  <2> QED
    BY <1>1, <2>1, OrderForm
<1> QED
  BY <1>1, <1>2

\* The places that the model names.
LEMMA Places ==
    /\ KindRank("middlewares") = 1 /\ KindRank("preControllerMiddlewares") = 2
    /\ KindRank("routes") = 5 /\ KindRank("controllers") = 6
    /\ KindRank("postControllerMiddlewares") = 7 /\ KindRank("errorHandlers") = 11
    /\ KindRank(Hooks[1]) = 3 /\ KindRank(Hooks[2]) = 4 /\ KindRank(Hooks[3]) = 8
    /\ KindRank(Hooks[4]) = 9 /\ KindRank(Hooks[5]) = 10
    /\ {"middlewares", "preControllerMiddlewares", "routes", "controllers",
        "postControllerMiddlewares", "errorHandlers"} \subseteq Kinds
    /\ \A l \in 1..5 : Hooks[l] \in Kinds
<1>1. /\ PipelineOrder[1] = "middlewares" /\ PipelineOrder[2] = "preControllerMiddlewares"
      /\ PipelineOrder[5] = "routes" /\ PipelineOrder[6] = "controllers"
      /\ PipelineOrder[7] = "postControllerMiddlewares"
      /\ PipelineOrder[11] = "errorHandlers"
  BY DEF PipelineOrder
<1>2. /\ PipelineOrder[3] = Hooks[1] /\ PipelineOrder[4] = Hooks[2]
      /\ PipelineOrder[8] = Hooks[3] /\ PipelineOrder[9] = Hooks[4]
      /\ PipelineOrder[10] = Hooks[5]
  BY DEF PipelineOrder, Hooks
<1>3. /\ PipelineOrder[1] \in Kinds /\ KindRank(PipelineOrder[1]) = 1
      /\ PipelineOrder[2] \in Kinds /\ KindRank(PipelineOrder[2]) = 2
      /\ PipelineOrder[5] \in Kinds /\ KindRank(PipelineOrder[5]) = 5
      /\ PipelineOrder[6] \in Kinds /\ KindRank(PipelineOrder[6]) = 6
      /\ PipelineOrder[7] \in Kinds /\ KindRank(PipelineOrder[7]) = 7
      /\ PipelineOrder[11] \in Kinds /\ KindRank(PipelineOrder[11]) = 11
  BY RankForm
<1>4. /\ PipelineOrder[3] \in Kinds /\ KindRank(PipelineOrder[3]) = 3
      /\ PipelineOrder[4] \in Kinds /\ KindRank(PipelineOrder[4]) = 4
      /\ PipelineOrder[8] \in Kinds /\ KindRank(PipelineOrder[8]) = 8
      /\ PipelineOrder[9] \in Kinds /\ KindRank(PipelineOrder[9]) = 9
      /\ PipelineOrder[10] \in Kinds /\ KindRank(PipelineOrder[10]) = 10
  BY RankForm
<1>5. /\ KindRank("middlewares") = 1 /\ KindRank("preControllerMiddlewares") = 2
      /\ KindRank("routes") = 5 /\ KindRank("controllers") = 6
      /\ KindRank("postControllerMiddlewares") = 7 /\ KindRank("errorHandlers") = 11
      /\ {"middlewares", "preControllerMiddlewares", "routes", "controllers",
          "postControllerMiddlewares", "errorHandlers"} \subseteq Kinds
  BY <1>1, <1>3
<1>6. /\ KindRank(Hooks[1]) = 3 /\ KindRank(Hooks[2]) = 4 /\ KindRank(Hooks[3]) = 8
      /\ KindRank(Hooks[4]) = 9 /\ KindRank(Hooks[5]) = 10
      /\ Hooks[1] \in Kinds /\ Hooks[2] \in Kinds /\ Hooks[3] \in Kinds
      /\ Hooks[4] \in Kinds /\ Hooks[5] \in Kinds
  BY <1>2, <1>4
<1>7. \A l \in 1..5 : Hooks[l] \in Kinds
  BY <1>6
<1> QED
  BY <1>5, <1>6, <1>7

LEMMA ItemRank ==
    /\ \A i \in Items : KindOf[i] \in Kinds /\ Rank(i) = KindRank(KindOf[i]) /\ Rank(i) \in 1..11
    /\ Rank(Default) = 11
<1>1. \A i \in Items : KindOf[i] \in Kinds /\ i # Default
  BY KindOfAssumption, DistinctAssumption
<1> QED
  BY <1>1, OrderForm, RankForm DEF Rank, KindRank

(***************************************************************************)
(* What an application holds.                                               *)
(***************************************************************************)
\* Lists in which every item is once, in that of its kind.
Proper(ls) ==
    /\ ls \in [Kinds -> Seq(Items)]
    /\ \A k \in Kinds : \A n \in DOMAIN ls[k] :
          /\ KindOf[ls[k][n]] = k
          /\ \A m \in DOMAIN ls[k] : ls[k][m] = ls[k][n] => m = n

\* i is before j in the pipeline; the default error handler is before nothing.
Precedes(ls, i, j) ==
    \/ Rank(i) < Rank(j)
    \/ /\ i \in Items /\ Rank(i) = Rank(j)
       /\ \E m, n \in DOMAIN ls[KindOf[i]] :
             m < n /\ ls[KindOf[i]][m] = i /\ ls[KindOf[i]][n] = j

Sorted(ls, a) == \A m, n \in DOMAIN a : m < n => Precedes(ls, a[m], a[n])

\* i comes before the n-th item of the kind at place rank.
Below(ls, i, rank, n) ==
    \/ Rank(i) < rank
    \/ /\ Rank(i) = rank
       /\ \E m \in DOMAIN ls[KindOf[i]] : m < n /\ ls[KindOf[i]][m] = i

\* An application a, of a run() that was called with the lists snap, to which the
\* n-th item in ls of the kind at place rank is the next to be applied.
Reached(ls, a, snap, rank, n) ==
    /\ \A m \in DOMAIN a : a[m] \in Items /\ Below(ls, a[m], rank, n)
    /\ Sorted(ls, a)
    /\ \A k \in Kinds : KindRank(k) < rank => ToSet(snap[k]) \subseteq ToSet(a)
    /\ \A k \in Kinds : KindRank(k) = rank =>
          n - 1 <= Len(ls[k]) /\ \A m \in 1..n - 1 : ls[k][m] \in ToSet(a)

Complete(ls, a, snap) == Sorted(ls, a) /\ \A k \in Kinds : ToSet(snap[k]) \subseteq ToSet(a)

Prefix(s, t) == Len(s) <= Len(t) /\ \A n \in 1..Len(s) : s[n] = t[n]

Snap(ls, snap) ==
    /\ snap \in [Kinds -> Seq(Items)]
    /\ \A k \in Kinds : Prefix(snap[k], ls[k])

LEMMA PrefixForm ==
  ASSUME NEW s \in Seq(Items), NEW t \in Seq(Items), Prefix(s, t)
  PROVE  Prefix(t, t) /\ ToSet(s) \subseteq ToSet(t)
<1>1. /\ DOMAIN s = 1..Len(s) /\ DOMAIN t = 1..Len(t)
      /\ Len(s) \in Nat /\ Len(t) \in Nat
  OBVIOUS
<1>2. \A n \in DOMAIN s : n \in DOMAIN t /\ t[n] = s[n]
  BY <1>1 DEF Prefix
<1> QED
  BY <1>1, <1>2 DEF Prefix, ToSet

LEMMA AppendForm ==
  ASSUME NEW S, NEW a \in Seq(S), NEW e \in S
  PROVE  /\ Append(a, e) \in Seq(S) /\ Len(Append(a, e)) = Len(a) + 1
         /\ DOMAIN Append(a, e) = 1..Len(a) + 1 /\ DOMAIN a = 1..Len(a)
         /\ \A m \in 1..Len(a) : Append(a, e)[m] = a[m]
         /\ Append(a, e)[Len(a) + 1] = e
         /\ ToSet(Append(a, e)) = ToSet(a) \cup {e}
<1>1. /\ Append(a, e) \in Seq(S) /\ Len(Append(a, e)) = Len(a) + 1
      /\ DOMAIN Append(a, e) = 1..Len(a) + 1 /\ DOMAIN a = 1..Len(a)
      /\ \A m \in 1..Len(a) : Append(a, e)[m] = a[m]
      /\ Append(a, e)[Len(a) + 1] = e
      /\ Len(a) \in Nat
  OBVIOUS
<1>2. ToSet(Append(a, e)) = ToSet(a) \cup {e}
  <2>1. \A m \in 1..Len(a) + 1 : m \in 1..Len(a) \/ m = Len(a) + 1
    BY <1>1
  <2>2. Len(a) + 1 \in 1..Len(a) + 1 /\ \A m \in 1..Len(a) : m \in 1..Len(a) + 1
    BY <1>1
  <2> QED
    BY <1>1, <2>1, <2>2 DEF ToSet
<1> QED
  BY <1>1, <1>2

\* The next item is applied.
LEMMA ReachesNext ==
  ASSUME NEW ls, Proper(ls), NEW a \in Seq(Items), NEW snap, NEW k \in Kinds, NEW n \in 1..Len(ls[k]),
         Reached(ls, a, snap, KindRank(k), n)
  PROVE  /\ Append(a, ls[k][n]) \in Seq(Items)
         /\ Reached(ls, Append(a, ls[k][n]), snap, KindRank(k), n + 1)
<1> DEFINE e == ls[k][n]
           b == Append(a, e)
           rank == KindRank(k)
<1>1. /\ e \in Items /\ KindOf[e] = k /\ Rank(e) = rank /\ n \in DOMAIN ls[k]
      /\ ls[k] \in Seq(Items) /\ Len(ls[k]) \in Nat /\ DOMAIN ls[k] = 1..Len(ls[k])
  <2>1. ls[k] \in Seq(Items)
    BY DEF Proper
  <2>2. /\ Len(ls[k]) \in Nat /\ DOMAIN ls[k] = 1..Len(ls[k])
        /\ e \in Items /\ n \in DOMAIN ls[k]
    BY <2>1
  <2>3. KindOf[e] = k
    BY <2>2 DEF Proper
  <2> QED
    BY <2>1, <2>2, <2>3, ItemRank
<1>2. /\ b \in Seq(Items) /\ DOMAIN b = 1..Len(a) + 1 /\ DOMAIN a = 1..Len(a)
      /\ \A m \in 1..Len(a) : b[m] = a[m]
      /\ b[Len(a) + 1] = e /\ ToSet(b) = ToSet(a) \cup {e} /\ Len(a) \in Nat
  BY <1>1, AppendForm
<1>3. rank \in 1..11
  BY RankForm
<1>4. \A m \in DOMAIN a : a[m] \in Items /\ Below(ls, a[m], rank, n)
  BY DEF Reached
<1> HIDE DEF b
<1>5. ASSUME NEW m \in DOMAIN b PROVE b[m] \in Items /\ Below(ls, b[m], rank, n + 1)
  <2>1. CASE m = Len(a) + 1
    BY <1>1, <1>2, <2>1 DEF Below
  <2>2. CASE m \in DOMAIN a
    <3>1. b[m] = a[m] /\ a[m] \in Items /\ Below(ls, a[m], rank, n)
      BY <1>2, <1>4, <2>2
    <3>2. DOMAIN ls[KindOf[a[m]]] \subseteq Nat
      <4>1. ls[KindOf[a[m]]] \in Seq(Items)
        BY <3>1, ItemRank DEF Proper
      <4> QED
        BY <4>1
    <3> QED
      BY <3>1, <3>2 DEF Below
  <2> QED
    BY <1>2, <2>1, <2>2
<1>6. Sorted(ls, b)
  <2> SUFFICES ASSUME NEW m \in DOMAIN b, NEW j \in DOMAIN b, m < j
               PROVE  Precedes(ls, b[m], b[j])
    BY DEF Sorted
  <2>1. CASE j \in DOMAIN a
    <3>1. m \in DOMAIN a /\ b[m] = a[m] /\ b[j] = a[j]
      BY <1>2, <2>1
    <3> QED
      BY <2>1, <3>1 DEF Reached, Sorted
  <2>2. CASE j = Len(a) + 1
    <3>1. m \in DOMAIN a /\ b[m] = a[m] /\ b[j] = e
      BY <1>2, <2>2
    <3>2. a[m] \in Items /\ Below(ls, a[m], rank, n) /\ KindOf[a[m]] \in Kinds
          /\ Rank(a[m]) = KindRank(KindOf[a[m]])
      BY <1>4, <3>1, ItemRank
    <3>3. Rank(a[m]) = rank => KindOf[a[m]] = k
      BY <3>2, RankForm
    <3> QED
      BY <1>1, <3>1, <3>2, <3>3 DEF Below, Precedes
  <2> QED
    BY <1>2, <2>1, <2>2
<1>7. \A q \in Kinds : KindRank(q) < rank => ToSet(snap[q]) \subseteq ToSet(b)
  BY <1>2 DEF Reached
<1>8. ASSUME NEW q \in Kinds, KindRank(q) = rank
      PROVE  n + 1 - 1 <= Len(ls[q]) /\ \A m \in 1..n + 1 - 1 : ls[q][m] \in ToSet(b)
  <2>1. q = k
    BY <1>8, RankForm
  <2>2. \A m \in 1..n - 1 : ls[k][m] \in ToSet(a)
    BY DEF Reached
  <2>3. \A m \in 1..n + 1 - 1 : m \in 1..n - 1 \/ m = n
    BY <1>1
  <2> QED
    BY <1>1, <1>2, <2>1, <2>2, <2>3
<1>9. Reached(ls, b, snap, rank, n + 1)
  BY <1>5, <1>6, <1>7, <1>8 DEF Reached
<1> QED
  BY <1>2, <1>9 DEF b

\* The items of a kind are through, and the next kind begins.
LEMMA ReachesKind ==
  ASSUME NEW ls, Proper(ls), NEW a \in Seq(Items), NEW snap, Snap(ls, snap),
         NEW k \in Kinds, NEW n \in Nat \ {0}, n > Len(ls[k]),
         Reached(ls, a, snap, KindRank(k), n)
  PROVE  Reached(ls, a, snap, KindRank(k) + 1, 1)
<1> DEFINE rank == KindRank(k)
<1>1. rank \in 1..11 /\ Len(ls[k]) \in Nat /\ ls[k] \in Seq(Items)
  BY RankForm DEF Proper
<1>2. \A m \in 1..Len(ls[k]) : ls[k][m] \in ToSet(a)
  <2>1. n - 1 <= Len(ls[k]) /\ \A m \in 1..n - 1 : ls[k][m] \in ToSet(a)
    BY DEF Reached
  <2>2. n - 1 = Len(ls[k])
    BY <1>1, <2>1
  <2> QED
    BY <2>1, <2>2
<1>3. ToSet(snap[k]) \subseteq ToSet(a)
  <2>1. snap[k] \in Seq(Items) /\ Len(snap[k]) <= Len(ls[k])
        /\ \A m \in 1..Len(snap[k]) : snap[k][m] = ls[k][m]
    BY DEF Snap, Prefix
  <2>2. DOMAIN snap[k] = 1..Len(snap[k]) /\ Len(snap[k]) \in Nat
    BY <2>1
  <2>3. ASSUME NEW m \in DOMAIN snap[k] PROVE snap[k][m] \in ToSet(a)
    BY <1>1, <1>2, <2>1, <2>2
  <2> QED
    BY <2>3 DEF ToSet
<1>4. \A m \in DOMAIN a : a[m] \in Items /\ Below(ls, a[m], rank, n)
  BY DEF Reached
<1>5. \A m \in DOMAIN a : Below(ls, a[m], rank + 1, 1)
  BY <1>1, <1>4, ItemRank DEF Below
<1>6. ASSUME NEW q \in Kinds, KindRank(q) < rank + 1 PROVE ToSet(snap[q]) \subseteq ToSet(a)
  <2>1. CASE KindRank(q) < rank
    BY <2>1 DEF Reached
  <2>2. CASE KindRank(q) = rank
    BY <1>3, <2>2, RankForm
  <2> QED
    BY <1>1, <1>6, <2>1, <2>2, RankForm
<1>7. ASSUME NEW q \in Kinds
      PROVE  1 - 1 <= Len(ls[q]) /\ \A m \in 1..1 - 1 : ls[q][m] \in ToSet(a)
  <2>1. Len(ls[q]) \in Nat
    BY DEF Proper
  <2> QED
    BY <2>1
<1> QED
  BY <1>4, <1>5, <1>6, <1>7 DEF Reached

LEMMA ConcatThree ==
  \A s, t, u \in Seq(Items) : (s \o t) \o u = s \o (t \o u)
<1> SUFFICES ASSUME NEW s \in Seq(Items), NEW t \in Seq(Items), NEW u \in Seq(Items)
             PROVE  (s \o t) \o u = s \o (t \o u)
  OBVIOUS
<1> QED
  BY ConcatAssociative

LEMMA ConcatForm ==
  ASSUME NEW S, NEW a \in Seq(S), NEW s \in Seq(S)
  PROVE  /\ a \o s \in Seq(S)
         /\ DOMAIN (a \o s) = 1..Len(a) + Len(s)
         /\ DOMAIN a = 1..Len(a) /\ DOMAIN s = 1..Len(s)
         /\ Len(a) \in Nat /\ Len(s) \in Nat
         /\ \A m \in 1..Len(a) : (a \o s)[m] = a[m]
         /\ \A m \in 1..Len(s) : (a \o s)[Len(a) + m] = s[m]
         /\ \A m \in 1..Len(a) + Len(s) : m \in 1..Len(a) \/ m - Len(a) \in 1..Len(s)
         /\ ToSet(a \o s) = ToSet(a) \cup ToSet(s)
<1> DEFINE b == a \o s
<1>1. /\ b \in Seq(S) /\ Len(b) = Len(a) + Len(s)
      /\ \A m \in 1..Len(a) + Len(s) : b[m] = IF m <= Len(a) THEN a[m] ELSE s[m - Len(a)]
  BY ConcatProperties
<1>2. /\ DOMAIN a = 1..Len(a) /\ DOMAIN s = 1..Len(s) /\ DOMAIN b = 1..Len(b)
      /\ Len(a) \in Nat /\ Len(s) \in Nat
  BY <1>1
<1> HIDE DEF b
<1>3. \A m \in 1..Len(a) : m \in 1..Len(a) + Len(s) /\ b[m] = a[m]
  BY <1>1, <1>2
<1>4. \A m \in 1..Len(s) : Len(a) + m \in 1..Len(a) + Len(s) /\ b[Len(a) + m] = s[m]
  <2> SUFFICES ASSUME NEW m \in 1..Len(s)
               PROVE  Len(a) + m \in 1..Len(a) + Len(s) /\ b[Len(a) + m] = s[m]
    OBVIOUS
  <2>1. Len(a) + m \in 1..Len(a) + Len(s) /\ ~(Len(a) + m <= Len(a)) /\ Len(a) + m - Len(a) = m
    BY <1>2
  <2>2. b[Len(a) + m] = s[Len(a) + m - Len(a)]
    BY <1>1, <2>1
  <2> QED
    BY <2>1, <2>2
<1>5. \A m \in 1..Len(a) + Len(s) : m \in 1..Len(a) \/ m - Len(a) \in 1..Len(s)
  BY <1>2
<1>6. \A m \in 1..Len(a) + Len(s) : m \in 1..Len(a) \/ \E j \in 1..Len(s) : m = Len(a) + j
  <2> SUFFICES ASSUME NEW m \in 1..Len(a) + Len(s), m \notin 1..Len(a)
               PROVE  \E j \in 1..Len(s) : m = Len(a) + j
    OBVIOUS
  <2>1. m - Len(a) \in 1..Len(s) /\ m = Len(a) + (m - Len(a))
    BY <1>2
  <2> QED
    BY <2>1
<1>7. ToSet(b) = ToSet(a) \cup ToSet(s)
  <2>1. ASSUME NEW e \in ToSet(b) PROVE e \in ToSet(a) \cup ToSet(s)
    <3>1. PICK m \in 1..Len(a) + Len(s) : b[m] = e
      BY <1>1, <1>2, <2>1 DEF ToSet
    <3> QED
      BY <1>2, <1>3, <1>4, <1>6, <3>1 DEF ToSet
  <2>2. ToSet(a) \subseteq ToSet(b)
    BY <1>1, <1>2, <1>3 DEF ToSet
  <2>3. ASSUME NEW e \in ToSet(s) PROVE e \in ToSet(b)
    <3>1. PICK m \in 1..Len(s) : s[m] = e
      BY <1>2, <2>3 DEF ToSet
    <3>2. Len(a) + m \in DOMAIN b /\ b[Len(a) + m] = e
      BY <1>1, <1>2, <1>4, <3>1
    <3> QED
      BY <3>2 DEF ToSet
  <2> QED
    BY <2>1, <2>2, <2>3
<1> QED
  BY <1>1, <1>2, <1>3, <1>4, <1>5, <1>7 DEF b

\* All items of a kind are applied at once: those in its list, or the copy s of a
\* prefix that holds what the list had when run() was called.
LEMMA ReachesAll ==
  ASSUME NEW ls, Proper(ls), NEW a \in Seq(Items), NEW snap, NEW k \in Kinds,
         NEW s \in Seq(Items), Prefix(s, ls[k]), ToSet(snap[k]) \subseteq ToSet(s),
         Reached(ls, a, snap, KindRank(k), 1)
  PROVE  a \o s \in Seq(Items) /\ Reached(ls, a \o s, snap, KindRank(k) + 1, 1)
<1> DEFINE rank == KindRank(k)
           b == a \o s
<1>1. /\ b \in Seq(Items) /\ DOMAIN b = 1..Len(a) + Len(s)
      /\ DOMAIN a = 1..Len(a) /\ DOMAIN s = 1..Len(s)
      /\ Len(a) \in Nat /\ Len(s) \in Nat
      /\ \A m \in 1..Len(a) : b[m] = a[m]
      /\ \A m \in 1..Len(s) : b[Len(a) + m] = s[m]
      /\ \A m \in 1..Len(a) + Len(s) : m \in 1..Len(a) \/ m - Len(a) \in 1..Len(s)
      /\ ToSet(b) = ToSet(a) \cup ToSet(s)
  BY ConcatForm
<1> HIDE DEF b
<1>2. rank \in 1..11 /\ ls[k] \in Seq(Items)
  BY RankForm DEF Proper
<1>3. \A m \in 1..Len(s) :
         /\ m \in DOMAIN ls[k] /\ s[m] = ls[k][m]
         /\ s[m] \in Items /\ KindOf[s[m]] = k /\ Rank(s[m]) = rank
  <2> SUFFICES ASSUME NEW m \in 1..Len(s)
               PROVE  /\ m \in DOMAIN ls[k] /\ s[m] = ls[k][m]
                      /\ s[m] \in Items /\ KindOf[s[m]] = k /\ Rank(s[m]) = rank
    OBVIOUS
  <2>1. m \in DOMAIN ls[k] /\ s[m] = ls[k][m]
    BY <1>1, <1>2 DEF Prefix
  <2>2. s[m] \in Items /\ KindOf[s[m]] = k
    BY <1>2, <2>1 DEF Proper
  <2> QED
    BY <2>1, <2>2, ItemRank
<1>4. \A m \in 1..Len(a) : a[m] \in Items /\ Rank(a[m]) \in 1..11 /\ Rank(a[m]) < rank
  <2> SUFFICES ASSUME NEW m \in 1..Len(a)
               PROVE  a[m] \in Items /\ Rank(a[m]) \in 1..11 /\ Rank(a[m]) < rank
    OBVIOUS
  <2>1. a[m] \in Items /\ Below(ls, a[m], rank, 1)
    BY <1>1 DEF Reached
  <2>2. ls[KindOf[a[m]]] \in Seq(Items)
    BY <2>1, ItemRank DEF Proper
  <2>3. \A j \in DOMAIN ls[KindOf[a[m]]] : ~(j < 1)
    BY <2>2
  <2> QED
    BY <2>1, <2>3, ItemRank DEF Below
<1>5. ASSUME NEW m \in DOMAIN b PROVE b[m] \in Items /\ Below(ls, b[m], rank + 1, 1)
  <2>1. CASE m \in 1..Len(a)
    <3>1. b[m] \in Items /\ Rank(b[m]) < rank /\ Rank(b[m]) \in 1..11
      BY <1>1, <1>4, <2>1
    <3>2. Rank(b[m]) < rank + 1
      BY <1>2, <3>1
    <3> QED
      BY <3>1, <3>2 DEF Below
  <2>2. CASE m - Len(a) \in 1..Len(s)
    <3>1. m = Len(a) + (m - Len(a))
      BY <1>1
    <3>2. b[m] = s[m - Len(a)]
      BY <1>1, <2>2, <3>1
    <3>3. b[m] \in Items /\ Rank(b[m]) = rank
      BY <1>3, <2>2, <3>2
    <3>4. Rank(b[m]) < rank + 1
      BY <1>2, <3>3
    <3> QED
      BY <3>3, <3>4 DEF Below
  <2> QED
    BY <1>1, <2>1, <2>2
<1>6. Sorted(ls, b)
  <2> SUFFICES ASSUME NEW m \in DOMAIN b, NEW j \in DOMAIN b, m < j
               PROVE  Precedes(ls, b[m], b[j])
    BY DEF Sorted
  <2>0. m \in Int /\ j \in Int
    BY <1>1
  <2>1. CASE j \in 1..Len(a)
    <3>1. m \in 1..Len(a) /\ b[m] = a[m] /\ b[j] = a[j]
      BY <1>1, <2>1
    <3> QED
      BY <1>1, <2>1, <3>1 DEF Reached, Sorted
  <2>2. CASE m \in 1..Len(a) /\ j - Len(a) \in 1..Len(s)
    <3>1. j = Len(a) + (j - Len(a))
      BY <1>1, <2>0
    <3>2. b[m] = a[m] /\ b[j] = s[j - Len(a)]
      BY <1>1, <2>2, <3>1
    <3>3. Rank(b[m]) < Rank(b[j])
      BY <1>3, <1>4, <2>2, <3>2
    <3> QED
      BY <3>3 DEF Precedes
  <2>3. CASE m - Len(a) \in 1..Len(s) /\ j - Len(a) \in 1..Len(s)
    <3>1. j = Len(a) + (j - Len(a)) /\ m = Len(a) + (m - Len(a))
          /\ m - Len(a) < j - Len(a)
      BY <1>1, <2>0
    <3>2. b[m] = s[m - Len(a)] /\ b[j] = s[j - Len(a)]
      BY <1>1, <2>3, <3>1
    <3>3. /\ m - Len(a) \in DOMAIN ls[k] /\ b[m] = ls[k][m - Len(a)]
          /\ b[m] \in Items /\ KindOf[b[m]] = k /\ Rank(b[m]) = rank
      BY <1>3, <2>3, <3>2
    <3>4. /\ j - Len(a) \in DOMAIN ls[k] /\ b[j] = ls[k][j - Len(a)]
          /\ Rank(b[j]) = rank
      BY <1>3, <2>3, <3>2
    <3> QED
      BY <3>1, <3>3, <3>4 DEF Precedes
  <2> QED
    BY <1>1, <2>1, <2>2, <2>3
<1>7. ASSUME NEW q \in Kinds, KindRank(q) < rank + 1 PROVE ToSet(snap[q]) \subseteq ToSet(b)
  <2>1. CASE KindRank(q) < rank
    <3>1. ToSet(snap[q]) \subseteq ToSet(a)
      BY <2>1 DEF Reached
    <3> QED
      BY <1>1, <3>1
  <2>2. CASE KindRank(q) = rank
    <3>1. q = k
      BY <2>2, RankForm
    <3> QED
      BY <1>1, <3>1
  <2> QED
    BY <1>2, <1>7, <2>1, <2>2, RankForm
<1>8. ASSUME NEW q \in Kinds
      PROVE  1 - 1 <= Len(ls[q]) /\ \A m \in 1..1 - 1 : ls[q][m] \in ToSet(b)
  <2>1. Len(ls[q]) \in Nat
    BY DEF Proper
  <2> QED
    BY <2>1
<1>9. Reached(ls, b, snap, rank + 1, 1)
  BY <1>5, <1>6, <1>7, <1>8 DEF Reached
<1> QED
  BY <1>1, <1>9 DEF b

\* With no kind left, everything that snap holds is applied.
LEMMA ReachesEnd ==
  ASSUME NEW ls, NEW a, NEW snap, Reached(ls, a, snap, 12, 1)
  PROVE  Complete(ls, a, snap)
<1>1. \A k \in Kinds : KindRank(k) < 12
  BY RankForm
<1> QED
  BY <1>1 DEF Reached, Complete

\* Without error handlers the default one ends the pipeline.
LEMMA DefaultEnds ==
  ASSUME NEW ls, Proper(ls), NEW a \in Seq(Items), NEW snap, Snap(ls, snap),
         ls["errorHandlers"] = <<>>, Reached(ls, a, snap, 11, 1),
         NEW d \in Seq(Items \cup {Default}), Len(d) = 1, d[1] = Default
  PROVE  Complete(ls, a \o d, snap)
<1> DEFINE b == a \o d
           all == Items \cup {Default}
<1>1. a \in Seq(all) /\ d \in Seq(all)
  OBVIOUS
<1> HIDE DEF all
<1>2. /\ DOMAIN b = 1..Len(a) + 1 /\ DOMAIN a = 1..Len(a) /\ Len(a) \in Nat
      /\ \A m \in 1..Len(a) : b[m] = a[m]
      /\ b[Len(a) + 1] = Default
      /\ ToSet(a) \subseteq ToSet(b)
  <2>1. /\ DOMAIN b = 1..Len(a) + Len(d) /\ DOMAIN a = 1..Len(a) /\ Len(a) \in Nat
        /\ \A m \in 1..Len(a) : b[m] = a[m]
        /\ \A m \in 1..Len(d) : b[Len(a) + m] = d[m]
        /\ ToSet(b) = ToSet(a) \cup ToSet(d)
    BY ONLY <1>1, ConcatForm
  <2> HIDE DEF b
  <2>2. b[Len(a) + 1] = d[1]
    BY <1>1, <2>1
  <2> QED
    BY <1>1, <2>1, <2>2
<1> HIDE DEF b
<1>3. Reached(ls, a, snap, 12, 1)
  <2>1. Len(ls["errorHandlers"]) = 0
    OBVIOUS
  <2> QED
    BY <2>1, Places, ReachesKind
<1>4. \A m \in 1..Len(a) : Rank(a[m]) < 11
  <2> SUFFICES ASSUME NEW m \in 1..Len(a) PROVE Rank(a[m]) < 11
    OBVIOUS
  <2>1. a[m] \in Items /\ Below(ls, a[m], 11, 1)
    BY <1>2 DEF Reached
  <2>2. ls[KindOf[a[m]]] \in Seq(Items)
    BY <2>1, ItemRank DEF Proper
  <2>3. \A j \in DOMAIN ls[KindOf[a[m]]] : ~(j < 1)
    BY <2>2
  <2> QED
    BY <2>1, <2>3 DEF Below
<1>5. Sorted(ls, b)
  <2> SUFFICES ASSUME NEW m \in DOMAIN b, NEW j \in DOMAIN b, m < j
               PROVE  Precedes(ls, b[m], b[j])
    BY DEF Sorted
  <2>1. m \in 1..Len(a) /\ b[m] = a[m]
    BY <1>2
  <2>2. CASE j = Len(a) + 1
    BY <1>2, <1>4, <2>1, <2>2, ItemRank DEF Precedes
  <2>3. CASE j \in 1..Len(a)
    BY <1>2, <2>1, <2>3 DEF Reached, Sorted
  <2> QED
    BY <1>2, <2>2, <2>3
<1>6. \A k \in Kinds : ToSet(snap[k]) \subseteq ToSet(b)
  BY <1>2, <1>3, ReachesEnd DEF Complete
<1> QED
  BY <1>5, <1>6 DEF Complete, b

\* What was true stays true when the lists grow.
LEMMA Grown ==
  ASSUME NEW ls, Proper(ls), NEW ls2, Proper(ls2), \A k \in Kinds : Prefix(ls[k], ls2[k]),
         NEW a, NEW snap
  PROVE  /\ Sorted(ls, a) => Sorted(ls2, a)
         /\ Complete(ls, a, snap) => Complete(ls2, a, snap)
         /\ Snap(ls, snap) => Snap(ls2, snap)
         /\ \A rank \in Nat, n \in Nat \ {0} :
               Reached(ls, a, snap, rank, n) => Reached(ls2, a, snap, rank, n)
<1>1. ASSUME NEW k \in Kinds
      PROVE  /\ DOMAIN ls[k] = 1..Len(ls[k]) /\ DOMAIN ls2[k] = 1..Len(ls2[k])
             /\ Len(ls[k]) \in Nat /\ Len(ls2[k]) \in Nat
             /\ Len(ls[k]) <= Len(ls2[k])
             /\ \A n \in DOMAIN ls[k] : n \in DOMAIN ls2[k] /\ ls2[k][n] = ls[k][n]
  <2>1. ls[k] \in Seq(Items) /\ ls2[k] \in Seq(Items)
    BY DEF Proper
  <2>2. Len(ls[k]) <= Len(ls2[k]) /\ \A n \in 1..Len(ls[k]) : ls[k][n] = ls2[k][n]
    BY DEF Prefix
  <2> QED
    BY <2>1, <2>2
<1>2. ASSUME NEW i, NEW j, Precedes(ls, i, j) PROVE Precedes(ls2, i, j)
  <2>1. i \in Items => KindOf[i] \in Kinds
    BY ItemRank
  <2> QED
    BY <1>1, <1>2, <2>1 DEF Precedes
<1>3. Sorted(ls, a) => Sorted(ls2, a)
  BY <1>2 DEF Sorted
<1>4. Snap(ls, snap) => Snap(ls2, snap)
  <2> SUFFICES ASSUME Snap(ls, snap), NEW k \in Kinds PROVE Prefix(snap[k], ls2[k])
    BY DEF Snap
  <2>1. snap[k] \in Seq(Items) /\ Len(snap[k]) <= Len(ls[k])
        /\ \A n \in 1..Len(snap[k]) : snap[k][n] = ls[k][n]
    BY DEF Snap, Prefix
  <2>2. Len(snap[k]) \in Nat
    BY <2>1
  <2> QED
    BY <1>1, <2>1, <2>2 DEF Prefix
<1>5. ASSUME NEW rank \in Nat, NEW n \in Nat \ {0}, Reached(ls, a, snap, rank, n)
      PROVE  Reached(ls2, a, snap, rank, n)
  <2>1. ASSUME NEW m \in DOMAIN a PROVE a[m] \in Items /\ Below(ls2, a[m], rank, n)
    <3>1. a[m] \in Items /\ Below(ls, a[m], rank, n) /\ KindOf[a[m]] \in Kinds
      BY <1>5, ItemRank DEF Reached
    <3> QED
      BY <1>1, <3>1 DEF Below
  <2>2. ASSUME NEW k \in Kinds, KindRank(k) = rank
        PROVE  n - 1 <= Len(ls2[k]) /\ \A m \in 1..n - 1 : ls2[k][m] \in ToSet(a)
    <3>1. n - 1 <= Len(ls[k]) /\ \A m \in 1..n - 1 : ls[k][m] \in ToSet(a)
      BY <1>5, <2>2 DEF Reached
    <3>2. \A m \in 1..n - 1 : m \in DOMAIN ls[k]
      BY <1>1, <3>1
    <3> QED
      BY <1>1, <3>1, <3>2
  <2> QED
    BY <1>3, <1>5, <2>1, <2>2 DEF Reached
<1> QED
  BY <1>3, <1>4, <1>5 DEF Complete

LEMMA RegisterGrows ==
  ASSUME Proper(lists), NEW i \in Items, Register(i)
  PROVE  Proper(lists') /\ \A k \in Kinds : Prefix(lists[k], lists'[k])
<1> DEFINE q == KindOf[i]
<1>1. /\ q \in Kinds /\ lists \in [Kinds -> Seq(Items)] /\ lists[q] \in Seq(Items)
      /\ lists' = [lists EXCEPT ![q] = Append(lists[q], i)]
      /\ i \notin ToSet(lists[q])
  BY ItemRank DEF Register, Proper
<1>2. /\ Append(lists[q], i) \in Seq(Items)
      /\ DOMAIN Append(lists[q], i) = 1..Len(lists[q]) + 1
      /\ DOMAIN lists[q] = 1..Len(lists[q])
      /\ Len(Append(lists[q], i)) = Len(lists[q]) + 1 /\ Len(lists[q]) \in Nat
      /\ \A m \in 1..Len(lists[q]) : Append(lists[q], i)[m] = lists[q][m]
      /\ Append(lists[q], i)[Len(lists[q]) + 1] = i
  BY <1>1, AppendForm
<1>3. /\ lists'[q] = Append(lists[q], i)
      /\ \A k \in Kinds \ {q} : lists'[k] = lists[k]
      /\ lists' \in [Kinds -> Seq(Items)]
  BY <1>1, <1>2
<1>4. \A m \in 1..Len(lists[q]) : lists[q][m] # i
  BY <1>1, <1>2 DEF ToSet
<1>5. ASSUME NEW k \in Kinds, NEW n \in DOMAIN lists'[k]
      PROVE  /\ KindOf[lists'[k][n]] = k
             /\ \A m \in DOMAIN lists'[k] : lists'[k][m] = lists'[k][n] => m = n
  <2>1. CASE k # q
    BY <1>3, <1>5, <2>1 DEF Proper
  <2>2. CASE k = q
    <3>1. \A m \in 1..Len(lists[q]) :
             /\ KindOf[lists[q][m]] = q
             /\ \A j \in 1..Len(lists[q]) : lists[q][j] = lists[q][m] => j = m
      BY <1>1, <1>2 DEF Proper
    <3>2. \A m \in DOMAIN lists'[q] : m \in 1..Len(lists[q]) \/ m = Len(lists[q]) + 1
      BY <1>2, <1>3
    <3>3. \A m \in 1..Len(lists[q]) : lists'[q][m] = lists[q][m]
      BY <1>2, <1>3
    <3>4. lists'[q][Len(lists[q]) + 1] = i
      BY <1>2, <1>3
    <3>5. \A m \in DOMAIN lists'[q] : KindOf[lists'[q][m]] = q
      BY <3>1, <3>2, <3>3, <3>4
    <3>6. \A m, j \in DOMAIN lists'[q] : lists'[q][m] = lists'[q][j] => m = j
      BY <1>4, <3>1, <3>2, <3>3, <3>4
    <3> QED
      BY <1>5, <2>2, <3>5, <3>6
  <2> QED
    BY <2>1, <2>2
<1>6. ASSUME NEW k \in Kinds PROVE Prefix(lists[k], lists'[k])
  <2>1. CASE k = q
    BY <1>2, <1>3, <2>1 DEF Prefix
  <2>2. CASE k # q
    <3>1. Len(lists[k]) \in Nat
      BY <1>1
    <3> QED
      BY <1>3, <2>2, <3>1 DEF Prefix
  <2> QED
    BY <2>1, <2>2
<1> QED
  BY <1>3, <1>5, <1>6 DEF Proper

(***************************************************************************)
(* The invariant of the calls of run().                                     *)
(***************************************************************************)
\* A run() in leg l awaits hook h, or is between two loops.
AtHook(ls, a, snap, l, h) ==
    IF h > 0
    THEN /\ l \in 1..5 /\ h <= Len(ls[Hooks[l]])
         /\ Reached(ls, a, snap, KindRank(Hooks[l]), h)
    ELSE /\ l \in 2..6
         /\ Reached(ls, a, snap, KindRank(Hooks[l - 1]) + 1, 1)

Built(r) ==
    /\ run[r] = "building" =>
          /\ app[r] \in Seq(Items) /\ Snap(lists, snapshot[r])
          /\ AtHook(lists, app[r], snapshot[r], leg[r], hook[r])
    /\ socket[r] = "open" => Complete(lists, app[r], snapshot[r])
    /\ socket[r] # "none" => run[r] \in {"listening", "resolved"}

BuildInv == TypeOK /\ Proper(lists) /\ \A r \in Runs : Built(r)

LEMMA InitBuild == Init => BuildInv
<1> SUFFICES ASSUME Init PROVE BuildInv
  OBVIOUS
<1>0. <<>> \in Seq(Items) /\ <<>> \in Seq(Items \cup {Default})
  OBVIOUS
<1>1. lists \in [Kinds -> Seq(Items)] /\ \A k \in Kinds : DOMAIN lists[k] = {}
  BY <1>0 DEF Init
<1>2. Proper(lists)
  BY <1>1 DEF Proper
<1>3. snapshot \in [Runs -> [Kinds -> Seq(Items)]] /\ app \in [Runs -> Seq(Items \cup {Default})]
  BY <1>0, <1>1 DEF Init
<1>4. leg \in [Runs -> 1..Len(Hooks) + 1]
  BY OrderForm DEF Init
<1>5. TypeOK
  BY <1>1, <1>3, <1>4 DEF Init, TypeOK
<1>6. \A r \in Runs : Built(r)
  BY DEF Init, Built
<1> QED
  BY <1>2, <1>5, <1>6 DEF BuildInv

\* The loop over the hooks of a leg takes the next one, or ends.
LEMMA LoopForm ==
  ASSUME Proper(lists), NEW r \in Runs, NEW l \in 1..5, NEW i \in Nat \ {0},
         hook \in [Runs -> Nat], leg \in [Runs -> 1..6], Loop(r, l, i),
         NEW a \in Seq(Items), NEW snap, Snap(lists, snap),
         Reached(lists, a, snap, KindRank(Hooks[l]), i)
  PROVE  /\ AtHook(lists, a, snap, leg'[r], hook'[r])
         /\ hook' \in [Runs -> Nat] /\ leg' \in [Runs -> 1..6]
         /\ \A q \in Runs \ {r} : hook'[q] = hook[q] /\ leg'[q] = leg[q]
<1>0. Hooks[l] \in Kinds
  BY Places
<1>1. Hooks[l] \in Kinds /\ Len(lists[Hooks[l]]) \in Nat
  BY <1>0 DEF Proper
<1>2. CASE i <= Len(lists[Hooks[l]])
  <2>1. hook' = [hook EXCEPT ![r] = i] /\ leg' = [leg EXCEPT ![r] = l]
    BY <1>2 DEF Loop
  <2>2. hook'[r] = i /\ leg'[r] = l /\ i > 0 /\ l \in 1..6
    BY <2>1
  <2>3. AtHook(lists, a, snap, l, i)
    BY <1>2, <2>2 DEF AtHook
  <2> QED
    BY <2>1, <2>2, <2>3
<1>3. CASE ~(i <= Len(lists[Hooks[l]]))
  <2>1. hook' = [hook EXCEPT ![r] = 0] /\ leg' = [leg EXCEPT ![r] = l + 1]
    BY <1>3 DEF Loop
  <2>2. hook'[r] = 0 /\ leg'[r] = l + 1 /\ l + 1 \in 2..6 /\ l + 1 - 1 = l /\ l + 1 \in 1..6
    BY <2>1
  <2>3. Reached(lists, a, snap, KindRank(Hooks[l]) + 1, 1)
    <3>1. i > Len(lists[Hooks[l]])
      BY <1>1, <1>3
    <3> QED
      BY <1>1, <3>1, ReachesKind
  <2>4. AtHook(lists, a, snap, l + 1, 0)
    BY <2>2, <2>3 DEF AtHook
  <2> QED
    BY <2>1, <2>2, <2>4
<1> QED
  BY <1>2, <1>3

\* A step of one run() that builds leaves the others as they are.
LEMMA OneBuilds ==
  ASSUME BuildInv, NEW r \in Runs,
         UNCHANGED <<lists, serverInstance, appInstance, socket, close, target>>,
         run' = run \/ run' = [run EXCEPT ![r] = "building"], run'[r] = "building",
         socket[r] = "none",
         NEW a \in Seq(Items), app' = [app EXCEPT ![r] = a],
         snapshot' \in [Runs -> [Kinds -> Seq(Items)]],
         \A q \in Runs \ {r} : snapshot'[q] = snapshot[q],
         Snap(lists, snapshot'[r]),
         AtHook(lists, a, snapshot'[r], leg'[r], hook'[r]),
         hook' \in [Runs -> Nat], leg' \in [Runs -> 1..6],
         \A q \in Runs \ {r} : hook'[q] = hook[q] /\ leg'[q] = leg[q],
         replaced' \in Nat
  PROVE  BuildInv'
<1> USE DEF BuildInv
<1>0. a \in Seq(Items \cup {Default})
  OBVIOUS
<1>1. app' \in [Runs -> Seq(Items \cup {Default})] /\ app'[r] = a
      /\ \A q \in Runs \ {r} : app'[q] = app[q]
  BY <1>0 DEF TypeOK
<1>2. run' \in [Runs -> {"idle", "refused", "building", "rejected", "listening", "resolved"}]
      /\ \A q \in Runs \ {r} : run'[q] = run[q]
  BY DEF TypeOK
<1>3. leg' \in [Runs -> 1..Len(Hooks) + 1]
  BY OrderForm
<1>4. TypeOK'
  BY <1>1, <1>2, <1>3 DEF TypeOK
<1>5. ASSUME NEW q \in Runs, q # r PROVE Built(q)'
  BY <1>1, <1>2, <1>5 DEF Built
<1>6. Built(r)'
  BY <1>1 DEF Built
<1> QED
  BY <1>4, <1>5, <1>6

LEMMA RegisterBuild ==
  ASSUME BuildInv, NEW i \in Items, Register(i)
  PROVE  BuildInv'
<1> USE DEF BuildInv
<1>1. Proper(lists') /\ \A k \in Kinds : Prefix(lists[k], lists'[k])
  BY RegisterGrows
<1>2. UNCHANGED <<serverInstance, appInstance, run, leg, hook, app, snapshot, replaced,
                  socket, close, target>>
  BY DEF Register, buildVars, closeVars
<1>3. TypeOK'
  <2>1. lists' \in [Kinds -> Seq(Items)]
    BY <1>1 DEF Proper
  <2> QED
    BY <1>2, <2>1 DEF TypeOK
<1>4. ASSUME NEW r \in Runs PROVE Built(r)'
  <2>0. Built(r)
    OBVIOUS
  <2>1. /\ Complete(lists, app[r], snapshot[r]) => Complete(lists', app[r], snapshot[r])
        /\ Snap(lists, snapshot[r]) => Snap(lists', snapshot[r])
        /\ \A rank \in Nat, n \in Nat \ {0} :
              Reached(lists, app[r], snapshot[r], rank, n)
              => Reached(lists', app[r], snapshot[r], rank, n)
    BY <1>1, Grown
  <2>2. ASSUME AtHook(lists, app[r], snapshot[r], leg[r], hook[r])
        PROVE  AtHook(lists', app[r], snapshot[r], leg[r], hook[r])
    <3>0. hook[r] \in Nat
      BY DEF TypeOK
    <3>1. CASE hook[r] > 0
      <4>1. /\ leg[r] \in 1..5 /\ hook[r] <= Len(lists[Hooks[leg[r]]])
            /\ Reached(lists, app[r], snapshot[r], KindRank(Hooks[leg[r]]), hook[r])
        BY <2>2, <3>1 DEF AtHook
      <4>2. Hooks[leg[r]] \in Kinds
        BY <4>1, Places
      <4>3. KindRank(Hooks[leg[r]]) \in Nat
        BY <4>2, RankForm
      <4>4. /\ Len(lists[Hooks[leg[r]]]) \in Nat /\ Len(lists'[Hooks[leg[r]]]) \in Nat
            /\ Len(lists[Hooks[leg[r]]]) <= Len(lists'[Hooks[leg[r]]])
        BY <1>1, <4>2 DEF Proper, Prefix
      <4>5. hook[r] \in Nat \ {0} /\ hook[r] <= Len(lists'[Hooks[leg[r]]])
        BY <3>0, <3>1, <4>1, <4>4
      <4>6. Reached(lists', app[r], snapshot[r], KindRank(Hooks[leg[r]]), hook[r])
        BY <2>1, <4>1, <4>3, <4>5
      <4> QED
        BY <3>1, <4>1, <4>5, <4>6 DEF AtHook
    <3>2. CASE ~(hook[r] > 0)
      <4>1. /\ leg[r] \in 2..6
            /\ Reached(lists, app[r], snapshot[r], KindRank(Hooks[leg[r] - 1]) + 1, 1)
        BY <2>2, <3>2 DEF AtHook
      <4>2. leg[r] - 1 \in 1..5
        BY <4>1
      <4>3. KindRank(Hooks[leg[r] - 1]) \in Nat
        BY <4>2, Places, RankForm
      <4>4. KindRank(Hooks[leg[r] - 1]) + 1 \in Nat /\ 1 \in Nat \ {0}
        BY <4>3
      <4>5. Reached(lists', app[r], snapshot[r], KindRank(Hooks[leg[r] - 1]) + 1, 1)
        BY <2>1, <4>1, <4>4
      <4> QED
        BY <3>2, <4>1, <4>5 DEF AtHook
    <3> QED
      BY <3>1, <3>2
  <2> QED
    BY <1>2, <2>0, <2>1, <2>2 DEF Built
<1> QED
  BY <1>1, <1>3, <1>4

LEMMA AppliedForm ==
  ASSUME NEW copied
  PROVE  /\ Applied(1, copied) = lists["middlewares"] \o lists["preControllerMiddlewares"]
         /\ Applied(3, copied) = (copied["routes"] \o copied["controllers"])
                                    \o lists["postControllerMiddlewares"]
         /\ \A l \in {2, 4, 5} : Applied(l, copied) = <<>>
<1> DEFINE x == lists["middlewares"] \o lists["preControllerMiddlewares"]
           y == (copied["routes"] \o copied["controllers"]) \o lists["postControllerMiddlewares"]
<1>1. \A l : Applied(l, copied) = CASE l = 1 -> x [] l = 3 -> y [] OTHER -> <<>>
  BY Zenon DEF Applied
<1> HIDE DEF x, y
<1>2. Applied(1, copied) = x /\ Applied(3, copied) = y
      /\ \A l \in {2, 4, 5} : Applied(l, copied) = <<>>
  BY <1>1
<1> QED
  BY <1>2 DEF x, y

\* run() is called.
LEMMA RunBuild ==
  ASSUME BuildInv, NEW r \in Runs, Run(r)
  PROVE  BuildInv'
<1> USE DEF BuildInv
<1> DEFINE first == lists["middlewares"]
           second == lists["preControllerMiddlewares"]
<1>1. /\ run[r] = "idle" /\ run' = [run EXCEPT ![r] = "building"]
      /\ snapshot' = [snapshot EXCEPT ![r] = lists]
      /\ app' = [app EXCEPT ![r] = first \o second]
      /\ Loop(r, 1, 1)
      /\ UNCHANGED <<lists, serverInstance, appInstance, socket, close, target>>
  BY AppliedForm DEF Run, closeVars
<1>2. replaced' \in Nat
  BY DEF Run, TypeOK
<1>3. socket[r] = "none" /\ run'[r] = "building"
  BY <1>1 DEF Built, TypeOK
<1>4. /\ lists \in [Kinds -> Seq(Items)] /\ <<>> \in Seq(Items)
      /\ \A k \in Kinds : Len(lists[k]) \in Nat
  BY DEF Proper
<1>5. Snap(lists, lists)
  BY <1>4 DEF Snap, Prefix
<1>6. /\ "middlewares" \in Kinds /\ "preControllerMiddlewares" \in Kinds
      /\ first \in Seq(Items) /\ second \in Seq(Items)
      /\ Prefix(first, first) /\ Prefix(second, second)
  BY <1>4, Places DEF Prefix
<1>7. Reached(lists, <<>>, lists, 1, 1)
  <2>1. \A k \in Kinds : ~(KindRank(k) < 1)
    BY RankForm
  <2>2. \A k \in Kinds : 1 - 1 <= Len(lists[k]) /\ 1..1 - 1 = {}
    BY <1>4
  <2>3. DOMAIN <<>> = {}
    OBVIOUS
  <2> QED
    BY <2>1, <2>2, <2>3 DEF Reached, Sorted
<1> HIDE DEF first, second
<1>8. <<>> \o first \in Seq(Items) /\ Reached(lists, <<>> \o first, lists, 2, 1)
  <2>1. KindRank("middlewares") = 1 /\ first = lists["middlewares"]
    BY Places DEF first
  <2>2. Reached(lists, <<>> \o first, lists, KindRank("middlewares") + 1, 1)
        /\ <<>> \o first \in Seq(Items)
    BY <1>4, <1>6, <1>7, <2>1, ReachesAll
  <2> QED
    BY <2>1, <2>2
<1>9. <<>> \o first = first
  BY <1>6, ConcatEmptySeq
<1>10. first \o second \in Seq(Items) /\ Reached(lists, first \o second, lists, 3, 1)
  <2>1. KindRank("preControllerMiddlewares") = 2 /\ second = lists["preControllerMiddlewares"]
    BY Places DEF second
  <2>2. Reached(lists, first \o second, lists, KindRank("preControllerMiddlewares") + 1, 1)
        /\ first \o second \in Seq(Items)
    BY <1>6, <1>8, <1>9, <2>1, ReachesAll
  <2> QED
    BY <2>1, <2>2
<1>11. hook \in [Runs -> Nat] /\ leg \in [Runs -> 1..6]
  BY OrderForm DEF TypeOK
<1>12. /\ AtHook(lists, first \o second, lists, leg'[r], hook'[r])
       /\ hook' \in [Runs -> Nat] /\ leg' \in [Runs -> 1..6]
       /\ \A q \in Runs \ {r} : hook'[q] = hook[q] /\ leg'[q] = leg[q]
  <2>1. Reached(lists, first \o second, lists, KindRank(Hooks[1]), 1)
    BY <1>10, Places
  <2>2. 1 \in 1..5 /\ 1 \in Nat \ {0}
    OBVIOUS
  <2> QED
    BY <1>1, <1>5, <1>10, <1>11, <2>1, <2>2, LoopForm
<1>13. /\ snapshot' \in [Runs -> [Kinds -> Seq(Items)]] /\ snapshot'[r] = lists
       /\ \A q \in Runs \ {r} : snapshot'[q] = snapshot[q]
  BY <1>1, <1>4 DEF TypeOK
<1> QED
  BY <1>1, <1>2, <1>3, <1>5, <1>10, <1>12, <1>13, OneBuilds

\* The part between two loops.
LEMMA NextLegBuild ==
  ASSUME BuildInv, NEW r \in Runs, NextLeg(r)
  PROVE  BuildInv'
<1> USE DEF BuildInv
<1> DEFINE snap == snapshot[r]
           l == leg[r]
           a == app[r] \o Applied(l, snap)
<1>1. /\ run[r] = "building" /\ hook[r] = 0 /\ l <= 5
      /\ app' = [app EXCEPT ![r] = a] /\ Loop(r, l, 1)
      /\ UNCHANGED <<lists, serverInstance, appInstance, run, snapshot, replaced,
                     socket, close, target>>
  BY OrderForm DEF NextLeg, closeVars, TypeOK
<1>2. /\ app[r] \in Seq(Items) /\ Snap(lists, snap)
      /\ l \in 2..6 /\ Reached(lists, app[r], snap, KindRank(Hooks[l - 1]) + 1, 1)
  BY <1>1 DEF Built, AtHook
<1>3. socket[r] = "none"
  BY <1>1 DEF Built
<1>4. a \in Seq(Items) /\ Reached(lists, a, snap, KindRank(Hooks[l]), 1)
  <2>1. CASE l = 3
    <3> DEFINE routes == snap["routes"]
               copied == snap["controllers"]
               post == lists["postControllerMiddlewares"]
    <3>1. /\ "routes" \in Kinds /\ "controllers" \in Kinds
          /\ "postControllerMiddlewares" \in Kinds
          /\ KindRank("routes") = 5 /\ KindRank("controllers") = 6
          /\ KindRank("postControllerMiddlewares") = 7
      BY Places
    <3>2. /\ routes \in Seq(Items) /\ copied \in Seq(Items) /\ post \in Seq(Items)
          /\ Prefix(routes, lists["routes"]) /\ Prefix(copied, lists["controllers"])
      BY <1>2, <3>1 DEF Snap, Proper
    <3>3. Prefix(post, post) /\ ToSet(snap["postControllerMiddlewares"]) \subseteq ToSet(post)
      <4>1. snap["postControllerMiddlewares"] \in Seq(Items)
            /\ Prefix(snap["postControllerMiddlewares"], post)
        BY <1>2, <3>1 DEF Snap
      <4> QED
        BY <3>2, <4>1, PrefixForm
    <3>4. a = app[r] \o ((routes \o copied) \o post)
      BY <2>1, AppliedForm
    <3>5. Reached(lists, app[r], snap, 5, 1)
      BY <1>2, <2>1, Places
    <3> HIDE DEF routes, copied, post, a, snap, l
    <3>6. app[r] \o routes \in Seq(Items) /\ Reached(lists, app[r] \o routes, snap, 6, 1)
      <4>1. Reached(lists, app[r] \o routes, snap, KindRank("routes") + 1, 1)
            /\ app[r] \o routes \in Seq(Items)
        BY <1>2, <3>1, <3>2, <3>5, ReachesAll DEF routes
      <4> QED
        BY <3>1, <4>1
    <3>7. (app[r] \o routes) \o copied \in Seq(Items)
          /\ Reached(lists, (app[r] \o routes) \o copied, snap, 7, 1)
      <4>1. Reached(lists, (app[r] \o routes) \o copied, snap, KindRank("controllers") + 1, 1)
            /\ (app[r] \o routes) \o copied \in Seq(Items)
        BY <3>1, <3>2, <3>6, ReachesAll DEF copied
      <4> QED
        BY <3>1, <4>1
    <3>8. ((app[r] \o routes) \o copied) \o post \in Seq(Items)
          /\ Reached(lists, ((app[r] \o routes) \o copied) \o post, snap, 8, 1)
      <4>1. Reached(lists, ((app[r] \o routes) \o copied) \o post, snap,
                    KindRank("postControllerMiddlewares") + 1, 1)
            /\ ((app[r] \o routes) \o copied) \o post \in Seq(Items)
        BY <3>1, <3>2, <3>3, <3>7, ReachesAll DEF post
      <4> QED
        BY <3>1, <4>1
    <3>9. a = ((app[r] \o routes) \o copied) \o post
      <4>1. app[r] \in Seq(Items) /\ routes \in Seq(Items) /\ copied \in Seq(Items)
            /\ post \in Seq(Items)
        BY <1>2, <3>2
      <4>2. (app[r] \o routes) \o copied = app[r] \o (routes \o copied)
        BY ONLY <4>1, ConcatThree, Zenon
      <4>3. routes \o copied \in Seq(Items)
        BY ONLY <4>1, ConcatProperties
      <4>4. (app[r] \o (routes \o copied)) \o post = app[r] \o ((routes \o copied) \o post)
        BY ONLY <4>1, <4>3, ConcatThree, Zenon
      <4> QED
        BY ONLY <3>4, <4>2, <4>4, Zenon
    <3> QED
      BY <2>1, <3>8, <3>9, Places
  <2>2. CASE l # 3
    <3>3. l \in {2, 4, 5}
      BY <1>1, <1>2, <2>2
    <3>1. Applied(l, snap) = <<>>
      BY <3>3, AppliedForm
    <3>2. a = app[r]
      BY <1>2, <3>1, ConcatEmptySeq
    <3>4. KindRank(Hooks[l]) = KindRank(Hooks[l - 1]) + 1
      BY <3>3, Places
    <3> QED
      BY <1>2, <3>2, <3>4
  <2> QED
    BY <2>1, <2>2
<1> HIDE DEF a
<1>5. hook \in [Runs -> Nat] /\ leg \in [Runs -> 1..6] /\ l \in 1..5 /\ 1 \in Nat \ {0}
  BY <1>1, <1>2, OrderForm DEF TypeOK
<1> HIDE DEF l, snap
<1>6. /\ AtHook(lists, a, snap, leg'[r], hook'[r])
      /\ hook' \in [Runs -> Nat] /\ leg' \in [Runs -> 1..6]
      /\ \A q \in Runs \ {r} : hook'[q] = hook[q] /\ leg'[q] = leg[q]
  BY <1>1, <1>2, <1>4, <1>5, LoopForm
<1>7. /\ snapshot' \in [Runs -> [Kinds -> Seq(Items)]] /\ snapshot'[r] = snap
      /\ replaced' \in Nat /\ run'[r] = "building" /\ run' = run
      /\ \A q \in Runs \ {r} : snapshot'[q] = snapshot[q]
  BY <1>1 DEF TypeOK, snap
<1> QED
  BY <1>1, <1>2, <1>3, <1>4, <1>6, <1>7, OneBuilds

\* A hook has put what it is for on the application.
LEMMA HookSettlesBuild ==
  ASSUME BuildInv, NEW r \in Runs, HookSettles(r)
  PROVE  BuildInv'
<1> USE DEF BuildInv
<1> DEFINE snap == snapshot[r]
           l == leg[r]
           h == hook[r]
           a == Append(app[r], lists[Hooks[l]][h])
<1>1. /\ run[r] = "building" /\ h > 0
      /\ app' = [app EXCEPT ![r] = a] /\ Loop(r, l, h + 1)
      /\ UNCHANGED <<lists, serverInstance, appInstance, run, snapshot, replaced,
                     socket, close, target>>
  BY DEF HookSettles, closeVars, TypeOK
<1>2. /\ app[r] \in Seq(Items) /\ Snap(lists, snap)
      /\ l \in 1..5 /\ h <= Len(lists[Hooks[l]])
      /\ Reached(lists, app[r], snap, KindRank(Hooks[l]), h)
  BY <1>1 DEF Built, AtHook
<1>3. socket[r] = "none"
  BY <1>1 DEF Built
<1>4. hook \in [Runs -> Nat] /\ leg \in [Runs -> 1..6] /\ h \in Nat /\ h + 1 \in Nat \ {0}
      /\ Hooks[l] \in Kinds
  <2>1. hook \in [Runs -> Nat] /\ leg \in [Runs -> 1..6]
    BY OrderForm DEF TypeOK
  <2>2. h \in Nat /\ h + 1 \in Nat \ {0}
    BY <2>1
  <2>3. Hooks[l] \in Kinds
    BY <1>2, Places
  <2> QED
    BY <2>1, <2>2, <2>3
<1>5. h \in 1..Len(lists[Hooks[l]])
  <2>1. Len(lists[Hooks[l]]) \in Nat
    BY <1>4 DEF Proper
  <2> QED
    BY <1>1, <1>2, <1>4, <2>1
<1>6. a \in Seq(Items) /\ Reached(lists, a, snap, KindRank(Hooks[l]), h + 1)
  BY <1>2, <1>4, <1>5, ReachesNext
<1> HIDE DEF a
<1>7. /\ snapshot' \in [Runs -> [Kinds -> Seq(Items)]] /\ snapshot'[r] = snap
      /\ replaced' \in Nat /\ run'[r] = "building" /\ run' = run
      /\ \A q \in Runs \ {r} : snapshot'[q] = snapshot[q]
  BY <1>1 DEF TypeOK
<1> HIDE DEF snap, l, h
<1>8. /\ AtHook(lists, a, snap, leg'[r], hook'[r])
      /\ hook' \in [Runs -> Nat] /\ leg' \in [Runs -> 1..6]
      /\ \A q \in Runs \ {r} : hook'[q] = hook[q] /\ leg'[q] = leg[q]
  BY <1>1, <1>2, <1>4, <1>6, LoopForm
<1> QED
  BY <1>1, <1>2, <1>3, <1>6, <1>7, <1>8, OneBuilds

\* The setup of a run() fails.
LEMMA SetupFailsBuild ==
  ASSUME BuildInv, NEW r \in Runs, SetupFails(r)
  PROVE  BuildInv'
<1> USE DEF BuildInv
<1>0. <<>> \in Seq(Items \cup {Default}) /\ 1 \in 1..Len(Hooks) + 1
  BY OrderForm
<1>1. /\ run' = [run EXCEPT ![r] = "rejected"] /\ leg' = [leg EXCEPT ![r] = 1]
      /\ hook' = [hook EXCEPT ![r] = 0] /\ app' = [app EXCEPT ![r] = <<>>]
      /\ UNCHANGED <<lists, serverInstance, appInstance, snapshot, replaced, socket,
                     close, target>>
  BY DEF SetupFails, closeVars
<1>2. TypeOK'
  <2>1. app' \in [Runs -> Seq(Items \cup {Default})] /\ leg' \in [Runs -> 1..Len(Hooks) + 1]
    BY <1>0, <1>1 DEF TypeOK
  <2> QED
    BY <1>1, <2>1 DEF TypeOK
<1>3. socket[r] = "none"
  BY DEF SetupFails, Built
<1>4. ASSUME NEW q \in Runs PROVE Built(q)'
  <2>1. CASE q = r
    BY <1>1, <1>3, <2>1 DEF Built, TypeOK
  <2>2. CASE q # r
    <3>1. /\ run'[q] = run[q] /\ leg'[q] = leg[q] /\ hook'[q] = hook[q] /\ app'[q] = app[q]
          /\ snapshot' = snapshot /\ socket' = socket /\ lists' = lists
      BY <1>1, <2>2 DEF TypeOK
    <3> QED
      BY <3>1 DEF Built
  <2> QED
    BY <2>1, <2>2
<1> QED
  BY <1>1, <1>2, <1>4

\* The error handlers end the pipeline, and the server listens or does not.
LEMMA ListenBuild ==
  ASSUME BuildInv, NEW r \in Runs, NEW bound \in BOOLEAN, Listen(r, bound)
  PROVE  BuildInv'
<1> USE DEF BuildInv
<1> DEFINE snap == snapshot[r]
           a == app[r] \o ErrorHandlers
<1>1. /\ run[r] = "building" /\ hook[r] = 0 /\ leg[r] = 6
      /\ app' = [app EXCEPT ![r] = a] /\ appInstance' = r /\ serverInstance' = r
      /\ socket' = [socket EXCEPT ![r] = IF bound THEN "open" ELSE "error"]
      /\ run' = [run EXCEPT ![r] = "listening"]
      /\ UNCHANGED <<lists, leg, hook, snapshot, close, target>>
  BY OrderForm DEF Listen, AllApplied, closeVars
<1>0. replaced' \in Nat
  BY DEF Listen, TypeOK
<1>2. app[r] \in Seq(Items) /\ Snap(lists, snap) /\ Reached(lists, app[r], snap, 11, 1)
  <2>1. /\ app[r] \in Seq(Items) /\ Snap(lists, snap)
        /\ AtHook(lists, app[r], snap, 6, 0)
    BY <1>1 DEF Built
  <2>2. Reached(lists, app[r], snap, KindRank(Hooks[5]) + 1, 1)
    BY <2>1 DEF AtHook
  <2> QED
    BY <2>1, <2>2, Places
<1>3. a \in Seq(Items \cup {Default}) /\ Complete(lists, a, snap)
  <2> DEFINE handlers == lists["errorHandlers"]
  <2>0. "errorHandlers" \in Kinds /\ KindRank("errorHandlers") = 11 /\ handlers \in Seq(Items)
    BY Places DEF Proper
  <2>1. CASE handlers = <<>>
    <3>1. ErrorHandlers = <<Default>>
      BY <2>1 DEF ErrorHandlers
    <3>2. /\ <<Default>> \in Seq(Items \cup {Default}) /\ Len(<<Default>>) = 1
          /\ <<Default>>[1] = Default /\ app[r] \in Seq(Items \cup {Default})
      BY <1>2
    <3>3. /\ ErrorHandlers \in Seq(Items \cup {Default}) /\ Len(ErrorHandlers) = 1
          /\ ErrorHandlers[1] = Default
      BY <3>1, <3>2
    <3>4. Complete(lists, a, snap)
      BY <1>2, <2>1, <3>3, DefaultEnds
    <3>5. a \in Seq(Items \cup {Default})
      BY ONLY <3>2, <3>3, ConcatProperties
    <3> QED
      BY <3>4, <3>5
  <2>2. CASE handlers # <<>>
    <3>1. ErrorHandlers = handlers
      BY <2>2 DEF ErrorHandlers
    <3>2. Prefix(handlers, handlers) /\ ToSet(snap["errorHandlers"]) \subseteq ToSet(handlers)
      <4>1. snap["errorHandlers"] \in Seq(Items) /\ Prefix(snap["errorHandlers"], handlers)
        BY <1>2, <2>0 DEF Snap
      <4> QED
        BY <2>0, <4>1, PrefixForm
    <3> HIDE DEF handlers, snap
    <3>3. Reached(lists, app[r], snap, KindRank("errorHandlers"), 1)
      BY <1>2, <2>0
    <3>4. /\ Reached(lists, app[r] \o handlers, snap, KindRank("errorHandlers") + 1, 1)
          /\ app[r] \o handlers \in Seq(Items)
      BY <1>2, <2>0, <3>2, <3>3, ReachesAll DEF handlers
    <3>5. Reached(lists, a, snap, 12, 1) /\ a \in Seq(Items)
      BY <2>0, <3>1, <3>4
    <3> HIDE DEF a
    <3>6. a \in Seq(Items \cup {Default})
      BY <3>5
    <3> QED
      BY <3>5, <3>6, ReachesEnd
  <2> QED
    BY <2>1, <2>2
<1> HIDE DEF a, snap
<1>4. TypeOK'
  <2>1. app' \in [Runs -> Seq(Items \cup {Default})]
    BY <1>1, <1>3 DEF TypeOK
  <2>2. /\ socket' \in [Runs -> {"none", "error", "open", "closing", "closed"}]
        /\ run' \in [Runs -> {"idle", "refused", "building", "rejected", "listening", "resolved"}]
    BY <1>1 DEF TypeOK
  <2> QED
    BY <1>0, <1>1, <2>1, <2>2 DEF TypeOK
<1>5. ASSUME NEW q \in Runs PROVE Built(q)'
  <2>1. CASE q = r
    <3>1. app'[r] = a /\ run'[r] = "listening" /\ snapshot'[r] = snap /\ lists' = lists
      BY <1>1 DEF TypeOK, snap
    <3> QED
      BY <1>3, <2>1, <3>1 DEF Built
  <2>2. CASE q # r
    <3>1. /\ run'[q] = run[q] /\ leg' = leg /\ hook' = hook /\ app'[q] = app[q]
          /\ snapshot' = snapshot /\ socket'[q] = socket[q] /\ lists' = lists
      BY <1>1, <2>2 DEF TypeOK
    <3> QED
      BY <3>1 DEF Built
  <2> QED
    BY <2>1, <2>2
<1> QED
  BY <1>1, <1>4, <1>5

\* listen() throws, and no server is there for the application.
LEMMA ListenThrowsBuild ==
  ASSUME BuildInv, NEW r \in Runs, ListenThrows(r)
  PROVE  BuildInv'
<1> USE DEF BuildInv
<1> DEFINE a == app[r] \o ErrorHandlers
<1>1. /\ run[r] = "building"
      /\ app' = [app EXCEPT ![r] = a] /\ appInstance' = r
      /\ run' = [run EXCEPT ![r] = "rejected"]
      /\ UNCHANGED <<lists, serverInstance, leg, hook, snapshot, replaced, socket,
                     close, target>>
  BY DEF ListenThrows, AllApplied, closeVars
<1>2. a \in Seq(Items \cup {Default})
  <2>1. lists["errorHandlers"] \in Seq(Items)
    BY Places DEF Proper
  <2>2. ErrorHandlers \in Seq(Items \cup {Default})
    <3>1. <<Default>> \in Seq(Items \cup {Default})
      OBVIOUS
    <3>2. lists["errorHandlers"] \in Seq(Items \cup {Default})
      BY <2>1
    <3> QED
      BY <3>1, <3>2, Zenon DEF ErrorHandlers
  <2>3. app[r] \in Seq(Items \cup {Default})
    BY DEF TypeOK
  <2> QED
    BY ONLY <2>2, <2>3, ConcatProperties
<1> HIDE DEF a
<1>3. socket[r] = "none"
  BY <1>1 DEF Built
<1>4. TypeOK'
  <2>1. /\ app' \in [Runs -> Seq(Items \cup {Default})]
        /\ run' \in [Runs -> {"idle", "refused", "building", "rejected", "listening", "resolved"}]
    BY <1>1, <1>2 DEF TypeOK
  <2> QED
    BY <1>1, <2>1 DEF TypeOK
<1>5. ASSUME NEW q \in Runs PROVE Built(q)'
  <2>1. CASE q = r
    BY <1>1, <1>3, <2>1 DEF Built, TypeOK
  <2>2. CASE q # r
    <3>1. /\ run'[q] = run[q] /\ leg' = leg /\ hook' = hook /\ app'[q] = app[q]
          /\ snapshot' = snapshot /\ socket' = socket /\ lists' = lists
      BY <1>1, <2>2 DEF TypeOK
    <3> QED
      BY <3>1 DEF Built
  <2> QED
    BY <2>1, <2>2
<1> QED
  BY <1>1, <1>4, <1>5

\* The steps that leave the applications alone: no server comes up in them.
LEMMA OthersBuild ==
  ASSUME BuildInv,
         \/ \E r \in Runs : RunRefused(r) \/ Listening(r) \/ Closed(r)
         \/ \E c \in Closes : CloseNothing(c) \/ Close(c)
  PROVE  BuildInv'
<1> USE DEF BuildInv
<1>1. UNCHANGED <<lists, leg, hook, app, snapshot, replaced>>
  BY DEF RunRefused, Listening, Closed, CloseNothing, Close, buildVars
<1>2. /\ run' \in [Runs -> {"idle", "refused", "building", "rejected", "listening", "resolved"}]
      /\ \A r \in Runs : /\ run'[r] = "building" => run[r] = "building"
                         /\ run[r] \in {"listening", "resolved"}
                            => run'[r] \in {"listening", "resolved"}
  BY DEF RunRefused, Listening, Closed, CloseNothing, Close, TypeOK
<1>3. /\ socket' \in [Runs -> {"none", "error", "open", "closing", "closed"}]
      /\ \A r \in Runs : /\ socket'[r] = "open" => socket[r] = "open"
                         /\ socket'[r] # "none" => socket[r] # "none"
  BY DEF RunRefused, Listening, Closed, CloseNothing, Close, TypeOK
<1>4. /\ serverInstance' \in Runs \cup {None} /\ appInstance' \in Runs \cup {None}
  BY DEF RunRefused, Listening, Closed, CloseNothing, Close, TypeOK
<1>5. /\ close' \in [Closes -> {"idle", "closing", "failing", "resolved", "rejected"}]
      /\ target' \in [Closes -> Runs \cup {None}]
  <2>0. /\ close \in [Closes -> {"idle", "closing", "failing", "resolved", "rejected"}]
        /\ target \in [Closes -> Runs \cup {None}] /\ serverInstance \in Runs \cup {None}
    BY DEF TypeOK
  <2>1. ASSUME NEW r \in Runs, RunRefused(r) \/ Listening(r)
        PROVE  close' = close /\ target' = target
    BY <2>1 DEF RunRefused, Listening, closeVars
  <2>2. ASSUME NEW r \in Runs, Closed(r)
        PROVE  /\ close' \in [Closes -> {"idle", "closing", "failing", "resolved", "rejected"}]
               /\ target' = target
    BY <2>0, <2>2 DEF Closed
  <2>3. ASSUME NEW c \in Closes, CloseNothing(c) \/ Close(c)
        PROVE  /\ close' \in [Closes -> {"idle", "closing", "failing", "resolved", "rejected"}]
               /\ target' \in [Closes -> Runs \cup {None}]
    BY <2>0, <2>3 DEF CloseNothing, Close
  <2> QED
    BY <2>0, <2>1, <2>2, <2>3
<1>6. TypeOK'
  BY <1>1, <1>2, <1>3, <1>4, <1>5 DEF TypeOK
<1>7. \A r \in Runs : Built(r)'
  BY <1>1, <1>2, <1>3 DEF Built
<1> QED
  BY <1>1, <1>6, <1>7

LEMMA NextBuild == BuildInv /\ [Next]_vars => BuildInv'
<1> SUFFICES ASSUME BuildInv, [Next]_vars PROVE BuildInv'
  OBVIOUS
<1>1. CASE UNCHANGED vars
  BY <1>1 DEF vars, buildVars, closeVars, BuildInv, TypeOK, Built
<1>2. CASE \E i \in Items : Register(i)
  BY <1>2, RegisterBuild
<1>3. ASSUME NEW r \in Runs, Run(r) \/ RunRefused(r) \/ RunStep(r) \/ Closed(r)
      PROVE  BuildInv'
  BY <1>3, RunBuild, NextLegBuild, HookSettlesBuild, SetupFailsBuild, ListenBuild,
     ListenThrowsBuild, OthersBuild
     DEF RunStep
<1>4. CASE \E c \in Closes : CloseNothing(c) \/ Close(c)
  BY <1>4, OthersBuild
<1> QED
  BY <1>1, <1>2, <1>3, <1>4 DEF Next

\* Every variable keeps its type; the loops never leave their lists.
THEOREM TypeCorrect == Spec => []TypeOK
<1>1. BuildInv => TypeOK
  BY DEF BuildInv
<1> QED
  BY <1>1, InitBuild, NextBuild, PTL DEF Spec

LEMMA SortedIsOrdered ==
  ASSUME BuildInv, NEW i, NEW j, Precedes(lists, i, j)
  PROVE  Before(i, j)
  BY DEF Precedes, Before

\* The pipeline of a server that listens is in order and has every item that was
\* there when its run() was called.
THEOREM PipelineInOrderHolds == Spec => []PipelineInOrder
<1>1. BuildInv => PipelineInOrder
  BY SortedIsOrdered DEF BuildInv, Built, Complete, Sorted, PipelineInOrder
<1> QED
  BY <1>1, InitBuild, NextBuild, PTL DEF Spec

(***************************************************************************)
(* What close() leaves.                                                     *)
(***************************************************************************)
LEMMA NoLarger ==
  ASSUME NEW S, IsFiniteSet(S), NEW T, T \subseteq S
  PROVE  IsFiniteSet(T) /\ Cardinality(T) <= Cardinality(S)
  BY FS_Subset

LEMMA OneMore ==
  ASSUME NEW S, IsFiniteSet(S), NEW T, NEW x, T \subseteq S \cup {x}
  PROVE  IsFiniteSet(T) /\ Cardinality(T) <= Cardinality(S) + 1
<1>1. /\ IsFiniteSet(S \cup {x}) /\ Cardinality(S) \in Nat
      /\ Cardinality(S \cup {x}) <= Cardinality(S) + 1
  <2>1. /\ IsFiniteSet(S \cup {x})
        /\ Cardinality(S \cup {x}) = IF x \in S THEN Cardinality(S) ELSE Cardinality(S) + 1
    BY FS_AddElement
  <2>2. Cardinality(S) \in Nat
    BY FS_CardinalityType
  <2> QED
    BY <2>1, <2>2
<1>2. /\ IsFiniteSet(T) /\ Cardinality(T) <= Cardinality(S \cup {x})
      /\ Cardinality(T) \in Nat /\ Cardinality(S \cup {x}) \in Nat
  BY <1>1, NoLarger, FS_CardinalityType
<1> QED
  BY <1>1, <1>2

LEMMA OneForAnother ==
  ASSUME NEW S, IsFiniteSet(S), NEW T, NEW x, NEW y \in S, T \subseteq (S \ {y}) \cup {x}
  PROVE  IsFiniteSet(T) /\ Cardinality(T) <= Cardinality(S)
<1>1. /\ IsFiniteSet(S \ {y}) /\ Cardinality(S \ {y}) = Cardinality(S) - 1
      /\ Cardinality(S) \in Nat
  BY FS_RemoveElement, FS_CardinalityType
<1>2. IsFiniteSet(T) /\ Cardinality(T) <= Cardinality(S \ {y}) + 1
  BY <1>1, OneMore
<1> QED
  BY <1>1, <1>2

\* The servers that are up and that the field does not know.
Lost == {r \in Runs : socket[r] \in {"open", "closing"} /\ r # serverInstance}

\* Without a server the application is one that never came up; a close() that waits
\* has its server closing; and a server is lost only for one that replaced it.
DownInv ==
    /\ serverInstance = None => appInstance = None \/ run[appInstance] = "rejected"
    /\ \A c \in Closes : close[c] = "closing" =>
          target[c] \in Runs /\ socket[target[c]] = "closing"
    /\ IsFiniteSet(Lost) /\ Cardinality(Lost) <= replaced

LEMMA InitDown == Init => DownInv
<1> SUFFICES ASSUME Init PROVE DownInv
  OBVIOUS
<1>1. Lost = {}
  BY DEF Init, Lost
<1>2. IsFiniteSet({}) /\ Cardinality({}) = 0
  BY FS_EmptySet
<1> QED
  BY <1>1, <1>2 DEF Init, DownInv

\* The steps of a server that is not lost, or stays so.
LEMMA NoneLost ==
  ASSUME BuildInv, DownInv, replaced' = replaced,
         \A r \in Runs : socket'[r] \in {"open", "closing"} /\ r # serverInstance'
                         => socket[r] \in {"open", "closing"} /\ r # serverInstance
  PROVE  IsFiniteSet(Lost') /\ Cardinality(Lost') <= replaced'
<1>1. Lost' \subseteq Lost
  BY DEF Lost
<1>2. IsFiniteSet(Lost) /\ Cardinality(Lost) <= replaced /\ replaced \in Nat
  BY DEF DownInv, BuildInv, TypeOK
<1>3. IsFiniteSet(Lost') /\ Cardinality(Lost') <= Cardinality(Lost)
  BY <1>1, <1>2, NoLarger
<1>4. Cardinality(Lost') \in Nat /\ Cardinality(Lost) \in Nat
  BY <1>2, <1>3, FS_CardinalityType
<1> QED
  BY <1>2, <1>3, <1>4

LEMMA RejectedStays ==
  ASSUME BuildInv, [Next]_vars, NEW r \in Runs, run[r] = "rejected"
  PROVE  run'[r] = "rejected"
<1> USE DEF BuildInv
<1>1. ASSUME NEW q \in Runs, Run(q) \/ RunRefused(q) \/ NextLeg(q) \/ HookSettles(q)
                             \/ SetupFails(q) \/ ListenThrows(q) \/ Listening(q) \/ Closed(q)
      PROVE  run'[r] = "rejected"
  BY <1>1 DEF Run, RunRefused, NextLeg, HookSettles, SetupFails, ListenThrows, AllApplied,
     Listening, Closed, TypeOK
<1>2. ASSUME NEW q \in Runs, NEW bound \in BOOLEAN, Listen(q, bound)
      PROVE  run'[r] = "rejected"
  BY <1>2 DEF Listen, AllApplied, TypeOK
<1>3. ASSUME \/ UNCHANGED vars \/ \E i \in Items : Register(i)
             \/ \E c \in Closes : CloseNothing(c) \/ Close(c)
      PROVE  run' = run
  BY <1>3 DEF vars, Register, CloseNothing, Close
<1> QED
  BY <1>1, <1>2, <1>3 DEF Next, RunStep

LEMMA NextDown == BuildInv /\ DownInv /\ [Next]_vars => DownInv'
<1> SUFFICES ASSUME BuildInv, DownInv, [Next]_vars PROVE DownInv'
  OBVIOUS
<1>0. /\ TypeOK /\ DownInv /\ IsFiniteSet(Lost) /\ Cardinality(Lost) <= replaced
      /\ replaced \in Nat /\ Cardinality(Lost) \in Nat
  BY FS_CardinalityType DEF BuildInv, DownInv, TypeOK
\* What only the fields decide.
<1> DEFINE Fields == serverInstance = None => appInstance = None \/ run[appInstance] = "rejected"
<1>1. ASSUME UNCHANGED <<serverInstance, appInstance>> PROVE Fields'
  <2>1. appInstance \in Runs \cup {None}
    BY <1>0 DEF TypeOK
  <2> QED
    BY <1>1, <2>1, RejectedStays DEF DownInv
<1>2. ASSUME UNCHANGED <<serverInstance, appInstance, socket, close, target, replaced>>
      PROVE  DownInv'
  <2>1. Fields'
    BY <1>1, <1>2
  <2>2. Lost' = Lost
    BY <1>2 DEF Lost
  <2> QED
    BY <1>0, <1>2, <2>1, <2>2 DEF DownInv
<1>3. ASSUME \/ UNCHANGED vars \/ \E i \in Items : Register(i)
             \/ \E r \in Runs : \/ Run(r) \/ RunRefused(r) \/ NextLeg(r) \/ HookSettles(r)
                                \/ SetupFails(r) \/ Listening(r)
      PROVE  DownInv'
  BY <1>2, <1>3 DEF vars, Register, Run, RunRefused, NextLeg, HookSettles, SetupFails, Listening,
     buildVars, closeVars
<1>4. ASSUME NEW r \in Runs, NEW bound \in BOOLEAN, Listen(r, bound) PROVE DownInv'
  <2>1. /\ run[r] = "building" /\ serverInstance' = r
        /\ \A q \in Runs \ {r} : socket'[q] = socket[q]
        /\ replaced' = IF serverInstance = None THEN replaced ELSE replaced + 1
        /\ UNCHANGED <<close, target>>
    BY <1>0, <1>4 DEF Listen, AllApplied, closeVars, TypeOK
  <2>2. socket[r] = "none" /\ r # None
    BY <2>1, DistinctAssumption DEF BuildInv, Built
  <2>3. \A c \in Closes : close'[c] = "closing" =>
           target'[c] \in Runs /\ socket'[target'[c]] = "closing"
    BY <1>0, <2>1, <2>2 DEF DownInv
  <2>4. IsFiniteSet(Lost') /\ Cardinality(Lost') <= replaced'
    <3>1. Lost' \subseteq Lost \cup {serverInstance}
      BY <2>1 DEF Lost
    <3>2. CASE serverInstance = None
      <4>1. Lost' \subseteq Lost
        BY <3>1, <3>2, DistinctAssumption DEF Lost
      <4>2. IsFiniteSet(Lost') /\ Cardinality(Lost') <= Cardinality(Lost)
        BY <1>0, <4>1, NoLarger
      <4>3. Cardinality(Lost') \in Nat
        BY <4>2, FS_CardinalityType
      <4> QED
        BY <1>0, <2>1, <3>2, <4>2, <4>3
    <3>3. CASE serverInstance # None
      <4>1. IsFiniteSet(Lost') /\ Cardinality(Lost') <= Cardinality(Lost) + 1
        BY <1>0, <3>1, OneMore
      <4>2. Cardinality(Lost') \in Nat
        BY <4>1, FS_CardinalityType
      <4> QED
        BY <1>0, <2>1, <3>3, <4>1, <4>2
    <3> QED
      BY <3>2, <3>3
  <2> QED
    BY <2>1, <2>2, <2>3, <2>4 DEF DownInv
<1>5. ASSUME NEW r \in Runs, ListenThrows(r) PROVE DownInv'
  <2>1. /\ appInstance' = r /\ run'[r] = "rejected"
        /\ UNCHANGED <<serverInstance, socket, replaced, close, target>>
    BY <1>0, <1>5 DEF ListenThrows, closeVars, TypeOK
  <2>2. Lost' = Lost
    BY <2>1 DEF Lost
  <2> QED
    BY <1>0, <2>1, <2>2 DEF DownInv
<1>6. ASSUME NEW c \in Closes, CloseNothing(c) PROVE DownInv'
  <2>1. /\ \A d \in Closes : close'[d] = "closing" => close[d] = "closing"
        /\ UNCHANGED <<serverInstance, appInstance, replaced, socket, target>>
    BY <1>0, <1>6 DEF CloseNothing, buildVars, TypeOK
  <2>2. Fields'
    BY <1>1, <2>1
  <2>3. Lost' = Lost
    BY <2>1 DEF Lost
  <2> QED
    BY <1>0, <2>1, <2>2, <2>3 DEF DownInv
<1>7. ASSUME NEW c \in Closes, Close(c) PROVE DownInv'
  <2>1. /\ serverInstance \in Runs
        /\ target'[c] = serverInstance
        /\ \A d \in Closes \ {c} : target'[d] = target[d] /\ close'[d] = close[d]
        /\ close'[c] = IF socket[serverInstance] = "open" THEN "closing" ELSE "failing"
        /\ \A r \in Runs : socket'[r] = IF r = serverInstance /\ socket[r] = "open" THEN "closing"
                                         ELSE socket[r]
        /\ UNCHANGED <<serverInstance, appInstance, replaced>>
    BY <1>0, <1>7 DEF Close, buildVars, TypeOK
  <2>2. \A d \in Closes : close'[d] = "closing" =>
           target'[d] \in Runs /\ socket'[target'[d]] = "closing"
    BY <1>0, <2>1 DEF DownInv
  <2>3. Lost' = Lost
    BY <2>1 DEF Lost
  <2>4. Fields'
    BY <1>1, <2>1
  <2> QED
    BY <1>0, <2>1, <2>2, <2>3, <2>4 DEF DownInv
<1>8. ASSUME NEW s \in Runs, Closed(s) PROVE DownInv'
  <2>1. /\ \A c \in Closes : close'[c] = "closing" => close[c] = "closing" /\ target[c] # s
        /\ \A r \in Runs : socket'[r] = IF r = s /\ socket[r] = "closing" THEN "closed"
                                         ELSE socket[r]
        /\ UNCHANGED <<target, replaced>>
        /\ IF Waiting(s, "closing") # {}
           THEN serverInstance' = None /\ appInstance' = None
           ELSE UNCHANGED <<serverInstance, appInstance>>
    BY <1>0, <1>8 DEF Closed, Waiting, buildVars, TypeOK
  <2>2. \A c \in Closes : close'[c] = "closing" =>
           target'[c] \in Runs /\ socket'[target'[c]] = "closing"
    BY <1>0, <2>1 DEF DownInv
  <2>3. Fields'
    BY <1>1, <2>1
  <2>4. IsFiniteSet(Lost') /\ Cardinality(Lost') <= replaced'
    <3>1. CASE Waiting(s, "closing") = {}
      <4>1. Lost' \subseteq Lost
        BY <2>1, <3>1 DEF Lost
      <4> QED
        BY <2>1, <3>1, NoneLost
    <3>2. CASE Waiting(s, "closing") # {}
      <4>1. socket[s] = "closing" /\ serverInstance' = None
        BY <1>0, <2>1, <3>2 DEF DownInv, Waiting
      <4>2. CASE s = serverInstance
        BY <2>1, <4>1, <4>2, NoneLost
      <4>3. CASE s # serverInstance
        <5>1. s \in Lost /\ Lost' \subseteq (Lost \ {s}) \cup {serverInstance}
          BY <2>1, <4>1, <4>3 DEF Lost
        <5>2. IsFiniteSet(Lost') /\ Cardinality(Lost') <= Cardinality(Lost)
          BY <1>0, <5>1, OneForAnother
        <5>3. Cardinality(Lost') \in Nat
          BY <5>2, FS_CardinalityType
        <5> QED
          BY <1>0, <2>1, <5>2, <5>3
      <4> QED
        BY <4>2, <4>3
    <3> QED
      BY <3>1, <3>2
  <2> QED
    BY <2>2, <2>3, <2>4 DEF DownInv
<1> QED
  BY <1>3, <1>4, <1>5, <1>6, <1>7, <1>8 DEF Next, RunStep

\* A close() that resolves leaves no server in the field, and of an application only
\* one whose listen() threw; what is up was replaced in the field.
THEOREM ClosedIsDownHolds == Spec => ClosedIsDown
<1> DEFINE Down ==
      \A c \in Closes : close[c] # "resolved" /\ close'[c] = "resolved" =>
          /\ serverInstance' = None
          /\ appInstance' # None => run'[appInstance'] = "rejected"
          /\ Cardinality({r \in Runs : socket'[r] = "open"}) <= replaced'
<1>1. BuildInv /\ DownInv /\ [Next]_vars => [Down]_vars
  <2> SUFFICES ASSUME BuildInv, DownInv, Next,
                      NEW c \in Closes, close[c] # "resolved", close'[c] = "resolved"
               PROVE  /\ serverInstance' = None
                      /\ appInstance' # None => run'[appInstance'] = "rejected"
                      /\ Cardinality({r \in Runs : socket'[r] = "open"}) <= replaced'
    OBVIOUS
  <2>0. TypeOK /\ BuildInv' /\ DownInv'
    BY NextBuild, NextDown DEF BuildInv
  <2>1. serverInstance' = None
    <3>1. CASE CloseNothing(c)
      BY <3>1 DEF CloseNothing
    <3>2. ASSUME NEW s \in Runs, Closed(s) PROVE serverInstance' = None
      <4>1. c \in Waiting(s, "closing")
        BY <2>0, <3>2 DEF Closed, TypeOK
      <4> QED
        BY <3>2, <4>1 DEF Closed
    <3>3. ASSUME NEW d \in Closes, CloseNothing(d) \/ Close(d) PROVE d = c /\ ~Close(d)
      BY <2>0, <3>3 DEF CloseNothing, Close, TypeOK
    <3>4. ASSUME \/ \E i \in Items : Register(i)
                 \/ \E r \in Runs : Run(r) \/ RunRefused(r) \/ RunStep(r)
          PROVE  FALSE
      <4>1. close' = close
        BY <3>4 DEF Register, Run, RunRefused, RunStep, NextLeg, HookSettles, SetupFails, Listen,
           ListenThrows, Listening, closeVars
      <4> QED
        BY <4>1
    <3> QED
      BY <3>1, <3>2, <3>3, <3>4 DEF Next
  <2>2. Cardinality({r \in Runs : socket'[r] = "open"}) <= replaced'
    <3> DEFINE up == {r \in Runs : socket'[r] = "open"}
    <3>1. up \subseteq Lost'
      BY <2>1, DistinctAssumption DEF Lost
    <3>2. IsFiniteSet(Lost') /\ Cardinality(Lost') <= replaced' /\ replaced' \in Nat
      BY <2>0 DEF DownInv, BuildInv, TypeOK
    <3> HIDE DEF up
    <3>3. IsFiniteSet(up) /\ Cardinality(up) <= Cardinality(Lost')
      BY <3>1, <3>2, NoLarger
    <3>4. Cardinality(up) \in Nat /\ Cardinality(Lost') \in Nat
      BY <3>2, <3>3, FS_CardinalityType
    <3> QED
      BY <3>2, <3>3, <3>4 DEF up
  <2> QED
    BY <2>0, <2>1, <2>2 DEF DownInv
<1>2. Spec => [][Down]_vars
  BY <1>1, InitBuild, NextBuild, InitDown, NextDown, PTL DEF Spec
<1> QED
  BY <1>2 DEF ClosedIsDown
=============================================================================

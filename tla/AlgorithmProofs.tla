--------------------------- MODULE AlgorithmProofs ---------------------------
(***************************************************************************)
(* The sequential algorithms for every input: the projector against its    *)
(* reference definition, R04 and the stability of its contexts, for every  *)
(* trajectory, node size, budget and set of pins; what a graft may take    *)
(* from a source of any length; redaction of values nested to any depth;   *)
(* and where the paths of an MCP call lead, in every file tree.  Facts     *)
(* about data that is built up are proved from a least counterexample: a   *)
(* number, a set, a value, a prefix of a path.                             *)
(***************************************************************************)
EXTENDS Projector, Graft, Redact, Workspace,
        FiniteSetTheorems, SequenceTheorems, WellFoundedInduction, TLAPS

\* A non-empty set of natural numbers has a least element.
LEMMA LeastNat ==
    ASSUME NEW T, T \subseteq Nat, T # {}
    PROVE  \E x \in T : \A y \in T : x <= y
<1>1. PICK x \in T : \A y \in T : ~(<<y, x>> \in OpToRel(<, Nat))
  BY NatLessThanWellFounded, WFMin
<1>2. \A y \in T : ~(y < x)
  BY <1>1 DEF OpToRel
<1> QED
  BY <1>2

\* And of those with the least f and then the least g one has the least k: what
\* comes first in an order by three keys.
LexFirst(f, g, k, i, j) ==
    \/ f[i] < f[j]
    \/ f[i] = f[j] /\ g[i] < g[j]
    \/ f[i] = f[j] /\ g[i] = g[j] /\ k[i] <= k[j]

LEMMA LexLeast ==
    ASSUME NEW S, S # {}, NEW f \in [S -> Nat], NEW g \in [S -> Nat], NEW k \in [S -> Nat]
    PROVE  \E i \in S : \A j \in S : LexFirst(f, g, k, i, j)
<1>1. \A i \in S : f[i] \in Nat /\ g[i] \in Nat /\ k[i] \in Nat
  OBVIOUS
<1> DEFINE A == {f[i] : i \in S}
<1>2. PICK a \in A : \A y \in A : a <= y
  <2>1. A \subseteq Nat /\ A # {}
    BY <1>1
  <2> HIDE DEF A
  <2> QED
    BY <2>1, LeastNat
<1> DEFINE B == {g[i] : i \in {j \in S : f[j] = a}}
<1>3. PICK b \in B : \A y \in B : b <= y
  <2>1. B \subseteq Nat /\ B # {}
    BY <1>1, <1>2
  <2> HIDE DEF A, B
  <2> QED
    BY <2>1, LeastNat
<1> DEFINE C == {k[i] : i \in {j \in S : f[j] = a /\ g[j] = b}}
<1>4. PICK c \in C : \A y \in C : c <= y
  <2>1. C \subseteq Nat /\ C # {}
    BY <1>1, <1>3
  <2> HIDE DEF A, B, C
  <2> QED
    BY <2>1, LeastNat
<1>5. PICK i \in S : f[i] = a /\ g[i] = b /\ k[i] = c
  BY <1>4
<1>6. ASSUME NEW j \in S PROVE LexFirst(f, g, k, i, j)
  <2>1. a <= f[j]
    BY <1>2
  <2>2. f[j] = a => b <= g[j]
    BY <1>3
  <2>3. f[j] = a /\ g[j] = b => c <= k[j]
    BY <1>4
  <2>4. /\ f[i] \in Nat /\ g[i] \in Nat /\ k[i] \in Nat
        /\ f[j] \in Nat /\ g[j] \in Nat /\ k[j] \in Nat
    BY <1>1
  <2> HIDE DEF A, B, C
  <2> QED
    BY <1>5, <2>1, <2>2, <2>3, <2>4 DEF LexFirst
<1> QED
  BY <1>6

----------------------------------------------------------------------------
(* The projector.  ConstraintsSurvive is not inductive: that the context   *)
(* is complete when ProjectContext returns rests on what its two loops     *)
(* keep, MustCollected.                                                    *)

\* The first loop has taken or has still to visit every CONSTRAINT and pinned
\* node; the second begins when all are taken and fit, and keeps both facts.
MustCollected ==
    /\ pc = "must" => Must = included \cup todo
    /\ pc \in {"fill", "ok"} => Must \subseteq included /\ used <= budget

IInv == TypeOK /\ MustCollected

\* A size counted is a natural number.
LEMMA SizeIsNat ==
    ASSUME TypeOK, NEW i \in Ids
    PROVE  nodes[i] \in Node /\ nodes[i].size \in Nat
<1>1. nodes[i] \in Node
    BY DEF TypeOK
<1> QED
    BY <1>1, SizesAssumption DEF Node

\* ProjectContext's loops and returns do not touch the trajectory, so what
\* must be included stays the same.
LEMMA MustUnchanged ==
    ASSUME UNCHANGED <<nodes, pinned>>
    PROVE  Ids' = Ids /\ Must' = Must
BY DEF Ids, Must

\* The initial state satisfies the invariant.
LEMMA InitIInv == Init => IInv
<1> SUFFICES ASSUME Init PROVE IInv
    OBVIOUS
<1>1. Ids = {} /\ nodes \in [Ids -> Node]
    BY DEF Init, Ids
<1>2. pinned \subseteq 1..MaxNodes
    BY PinsAssumption DEF Init
<1> QED
    BY <1>1, <1>2 DEF Init, IInv, TypeOK, MustCollected

\* Every step of ProjectContext and every append keeps the invariant.
LEMMA NextIInv == IInv /\ [Next]_vars => IInv'
<1> SUFFICES ASSUME IInv, [Next]_vars PROVE IInv'
    OBVIOUS
<1>1. CASE AppendNode
    <2>1. PICK i \in (1..MaxNodes) \ Ids, n \in Node : nodes' = Put(nodes, i, n)
        BY <1>1 DEF AppendNode
    <2>2. Ids' = Ids \cup {i} /\ nodes' \in [Ids' -> Node]
        BY <2>1 DEF IInv, TypeOK, Ids, Put
    <2> QED
        BY <1>1, <2>2 DEF AppendNode, IInv, TypeOK, MustCollected
<1>2. CASE StartProjection
    <2>1. Ids' = Ids /\ Must' = Must /\ Must \subseteq Ids
        BY <1>2, MustUnchanged DEF StartProjection, Must
    <2> QED
        BY <1>2, <2>1 DEF StartProjection, IInv, TypeOK, MustCollected
<1>3. CASE AddMust
    <2>1. Ids' = Ids /\ Must' = Must
        BY <1>3, MustUnchanged DEF AddMust
    <2>2. PICK i \in todo : /\ todo' = todo \ {i}
                            /\ included' = included \cup {i}
                            /\ used' = used + nodes[i].size
        BY <1>3 DEF AddMust
    <2>3. nodes[i].size \in Nat
        BY <2>2, SizeIsNat DEF IInv, TypeOK
    <2>4. used' \in Nat
        BY <2>2, <2>3 DEF IInv, TypeOK
    <2> QED
        BY <1>3, <2>1, <2>2, <2>4 DEF AddMust, IInv, TypeOK, MustCollected
<1>4. CASE CheckMust
    <2>1. Ids' = Ids /\ Must' = Must
        BY <1>4, MustUnchanged DEF CheckMust
    <2>2. budget \in Nat
        BY BudgetsAssumption DEF IInv, TypeOK
    <2>3. CASE used > budget
        BY <1>4, <2>1, <2>3 DEF CheckMust, IInv, TypeOK, MustCollected
    <2>4. CASE ~(used > budget)
        <3>1. used <= budget
            BY <2>2, <2>4 DEF IInv, TypeOK
        <3> QED
            BY <1>4, <2>1, <2>4, <3>1 DEF CheckMust, IInv, TypeOK, MustCollected
    <2> QED
        BY <2>3, <2>4
<1>5. CASE Fill
    <2>1. Ids' = Ids /\ Must' = Must
        BY <1>5, MustUnchanged DEF Fill
    <2>2. PICK i \in todo :
             /\ todo' = todo \ {i}
             /\ IF used + nodes[i].size > budget
                THEN UNCHANGED <<included, used>>
                ELSE included' = included \cup {i} /\ used' = used + nodes[i].size
        BY <1>5 DEF Fill
    <2>3. nodes[i].size \in Nat /\ budget \in Nat
        BY <2>2, SizeIsNat, BudgetsAssumption DEF IInv, TypeOK
    <2>4. used' \in Nat /\ used' <= budget /\ included \subseteq included'
          /\ included' \subseteq included \cup {i}
        BY <1>5, <2>2, <2>3 DEF Fill, IInv, TypeOK, MustCollected
    <2> QED
        BY <1>5, <2>1, <2>2, <2>4 DEF Fill, IInv, TypeOK, MustCollected
<1>6. CASE Finish
    BY <1>6, MustUnchanged DEF Finish, IInv, TypeOK, MustCollected
<1>7. CASE Return
    BY <1>7, MustUnchanged DEF Return, IInv, TypeOK, MustCollected
<1>8. CASE UNCHANGED vars
    BY <1>8, MustUnchanged DEF vars, IInv, TypeOK, MustCollected
<1> QED
    BY <1>1, <1>2, <1>3, <1>4, <1>5, <1>6, <1>7, <1>8 DEF Next

\* The invariant holds in every reachable state.
THEOREM Invariance == Spec => []IInv
BY InitIInv, NextIInv, PTL DEF Spec

\* TypeOK: what ProjectContext holds is about the trajectory it was given, and
\* no node is visited twice.
THEOREM TypeCorrect == Spec => []TypeOK
<1>1. IInv => TypeOK
    BY DEF IInv
<1> QED
    BY <1>1, Invariance, PTL

\* R04: no projection that succeeds leaves out a CONSTRAINT or a pinned node or
\* exceeds its budget (projector.go ProjectContext).
THEOREM ConstraintsNeverDropped == Spec => []ConstraintsSurvive
<1>1. IInv => ConstraintsSurvive
    BY DEF IInv, MustCollected, ConstraintsSurvive
<1> QED
    BY <1>1, Invariance, PTL

----------------------------------------------------------------------------
(* The order of sortNodes.                                                 *)

LEMMA KeysAreNat ==
    ASSUME TypeOK, NEW i \in Ids
    PROVE  i \in Nat /\ nodeSortKey(nodes[i]) \in Nat /\ nodes[i].seq \in Nat
<1>1. nodes[i].step \in StepN /\ nodes[i].seq \in Seqs
  BY SizeIsNat DEF Node
<1>2. i \in 1..MaxNodes
  BY DEF TypeOK
<1>3. AfterSteps \in Nat
  BY SMT DEF AfterSteps
<1>4. nodeSortKey(nodes[i]) \in Nat
  <2>1. CASE nodes[i].step = NoStep
    BY <1>3, <2>1 DEF nodeSortKey
  <2>2. CASE nodes[i].step # NoStep
    BY <1>1, <2>2, SlotsAssumption DEF StepN, nodeSortKey
  <2> QED
    BY <2>1, <2>2
<1>5. i \in Nat
  BY <1>2, NodesAssumption
<1>6. nodes[i].seq \in Nat
  BY <1>1, SlotsAssumption
<1> QED
  BY <1>4, <1>5, <1>6

\* It is a strict linear order.
LEMMA BeforeOrder ==
    ASSUME TypeOK, NEW i \in Ids, NEW j \in Ids, NEW k \in Ids
    PROVE  /\ ~(Before(i, j) /\ Before(j, i))
           /\ i # j => Before(i, j) \/ Before(j, i)
           /\ Before(i, j) /\ Before(j, k) => Before(i, k)
<1>1. /\ i \in Nat /\ nodeSortKey(nodes[i]) \in Nat /\ nodes[i].seq \in Nat
      /\ j \in Nat /\ nodeSortKey(nodes[j]) \in Nat /\ nodes[j].seq \in Nat
      /\ k \in Nat /\ nodeSortKey(nodes[k]) \in Nat /\ nodes[k].seq \in Nat
  BY KeysAreNat
<1> QED
  BY <1>1 DEF Before

\* Of some nodes one comes first.
LEMMA BeforeLeast ==
    ASSUME TypeOK, NEW S \in SUBSET Ids, S # {}
    PROVE  \E i \in S : \A j \in S \ {i} : Before(i, j)
<1>1. PICK f, g, k : /\ f = [i \in S |-> nodeSortKey(nodes[i])]
                     /\ g = [i \in S |-> nodes[i].seq] /\ k = [i \in S |-> i]
  OBVIOUS
<1>2. f \in [S -> Nat] /\ g \in [S -> Nat] /\ k \in [S -> Nat]
  BY <1>1, KeysAreNat
<1>3. PICK i \in S : \A j \in S : LexFirst(f, g, k, i, j)
  BY <1>2, LexLeast
<1>4. \A j \in S : f[j] = nodeSortKey(nodes[j]) /\ g[j] = nodes[j].seq /\ k[j] = j
  BY <1>1
<1>5. \A j \in S : j \in Nat
  BY KeysAreNat
<1> QED
  BY <1>3, <1>4, <1>5 DEF Before, LexFirst

\* The trajectory of the next state orders the nodes there were as before.
LEMMA BeforeKept ==
    ASSUME NEW i \in Ids, NEW j \in Ids, nodes'[i] = nodes[i], nodes'[j] = nodes[j]
    PROVE  Before(i, j)' <=> Before(i, j)
BY DEF Before, nodeSortKey

\* The second loop visits the optional nodes in this order.
Visited == Ids \ todo
OrderInv ==
    /\ pc = "fill" => \A i \in Visited \ Must, j \in todo : Before(i, j)
    /\ pc = "ok" => todo = {}

LEMMA OrderStep ==
    ASSUME IInv, OrderInv, [Next]_vars
    PROVE  OrderInv'
<1>1. CASE AppendNode \/ StartProjection \/ AddMust \/ Return
  <2>1. pc' \in {"idle", "must"}
    BY <1>1 DEF AppendNode, StartProjection, AddMust, Return
  <2> QED
    BY <2>1 DEF OrderInv
<1>2. CASE CheckMust
  <2>1. Ids' = Ids /\ Must' = Must
    BY <1>2, MustUnchanged DEF CheckMust
  <2>2. pc = "must" /\ todo = {} /\ included = Must
    BY <1>2 DEF CheckMust, IInv, MustCollected
  <2>3. pc' = "impossible" \/ (pc' = "fill" /\ todo' = Ids \ Must)
    BY <1>2, <2>2 DEF CheckMust
  <2>4. pc' = "fill" => Visited' \ Must = {}
    BY <2>1, <2>3 DEF Visited
  <2> QED
    BY <2>1, <2>3, <2>4 DEF OrderInv
<1>3. CASE Fill
  <2>1. PICK i \in todo : IsNext(i) /\ todo' = todo \ {i}
    BY <1>3 DEF Fill
  <2>2. pc = "fill" /\ pc' = "fill" /\ UNCHANGED <<nodes, pinned>>
    BY <1>3 DEF Fill
  <2>3. Ids' = Ids /\ Must' = Must /\ todo \subseteq Ids
    BY <2>2, MustUnchanged DEF IInv, TypeOK
  <2>4. Visited' = Visited \cup {i}
    BY <2>1, <2>3 DEF Visited
  <2>5. \A j, k \in Ids : Before(j, k)' <=> Before(j, k)
    BY <2>2, BeforeKept
  <2>6. ASSUME NEW j \in Visited' \ Must, NEW k \in todo' PROVE Before(j, k)'
    <3>1. k \in todo /\ k # i /\ k \in Ids /\ j \in Ids
      BY <2>1, <2>3, <2>4, <2>6 DEF Visited
    <3>2. CASE j = i
      BY <2>1, <2>5, <3>1, <3>2 DEF IsNext
    <3>3. CASE j # i
      BY <2>2, <2>4, <2>5, <2>6, <3>1, <3>3 DEF OrderInv
    <3> QED
      BY <3>2, <3>3
  <2> QED
    BY <2>2, <2>3, <2>6 DEF OrderInv
<1>4. CASE Finish
  BY <1>4 DEF Finish, OrderInv
<1>5. CASE UNCHANGED vars
  <2>1. /\ Ids' = Ids /\ Must' = Must /\ Visited' = Visited
        /\ \A j, k : Before(j, k)' <=> Before(j, k)
    BY <1>5, MustUnchanged DEF vars, Visited, Before, nodeSortKey
  <2> QED
    BY <1>5, <2>1 DEF vars, OrderInv
<1> QED
  BY <1>1, <1>2, <1>3, <1>4, <1>5 DEF Next

LEMMA NodesVisitedInOrder == Spec => []OrderInv
<1>1. Init => OrderInv
  BY DEF Init, OrderInv
<1> QED
  BY <1>1, OrderStep, Invariance, PTL DEF Spec

----------------------------------------------------------------------------
(* The projector against the reference definition of its context.  SizeOf  *)
(* is a fold; the lemmas say what one more node adds to it.  They are      *)
(* proved from a least set for which they fail.                            *)

\* Of some finite sets one contains no other.
LEMMA LeastSet ==
    ASSUME NEW B, B # {}, \A s \in B : IsFiniteSet(s)
    PROVE  \E s \in B : \A t \in B : t \subseteq s => t = s
<1> DEFINE N == {Cardinality(s) : s \in B}
<1>1. N \subseteq Nat /\ N # {}
  BY FS_CardinalityType
<1>2. PICK n \in N : \A m \in N : n <= m
  <2> HIDE DEF N
  <2> QED
    BY <1>1, LeastNat
<1>3. PICK s \in B : n = Cardinality(s)
  BY <1>2
<1>4. ASSUME NEW t \in B, t \subseteq s PROVE t = s
  <2>1. Cardinality(t) <= Cardinality(s) /\ (Cardinality(s) = Cardinality(t) => s = t)
    BY <1>4, FS_Subset
  <2>2. Cardinality(s) <= Cardinality(t)
    BY <1>2, <1>3
  <2>3. Cardinality(s) \in Nat /\ Cardinality(t) \in Nat
    BY FS_CardinalityType
  <2> QED
    BY <2>1, <2>2, <2>3
<1> QED
  BY <1>3, <1>4

Total(ns, S) == MapThenSumSet(LAMBDA i : ns[i].size, S)

\* The node the fold takes from s.
Taken(s) == CHOOSE x \in s : TRUE

\* g gives the sum of each subset of S.
SumOf(ns, S, g) ==
    g = [s \in SUBSET S |-> IF s = {} THEN 0 ELSE ns[Taken(s)].size + g[s \ {Taken(s)}]]

LEMMA TotalIsSum ==
    ASSUME NEW ns, NEW S
    PROVE  Total(ns, S) = (CHOOSE g : SumOf(ns, S, g))[S]
  BY DEF Total, MapThenSumSet, MapThenFoldSet, SumOf, Taken

LEMMA TakenInside == ASSUME NEW s, s # {} PROVE Taken(s) \in s
  BY DEF Taken

\* Two sums agree where both are defined.
LEMMA SumsAgree ==
    ASSUME NEW ns, NEW S, NEW T, IsFiniteSet(S), NEW g, NEW h,
           SumOf(ns, S, g), SumOf(ns, T, h)
    PROVE  \A s \in SUBSET S : s \in SUBSET T => g[s] = h[s]
<1> DEFINE B == {s \in SUBSET S : s \in SUBSET T /\ g[s] # h[s]}
<1>1. SUFFICES ASSUME B # {} PROVE FALSE
  OBVIOUS
<1>2. \A s \in B : IsFiniteSet(s)
  BY FS_Subset
<1>3. PICK s \in B : \A t \in B : t \subseteq s => t = s
  <2> HIDE DEF B
  <2> QED
    BY <1>1, <1>2, LeastSet
<1>4. s \subseteq S /\ s \subseteq T /\ g[s] # h[s]
  BY <1>3
<1>5. /\ g[s] = IF s = {} THEN 0 ELSE ns[Taken(s)].size + g[s \ {Taken(s)}]
      /\ h[s] = IF s = {} THEN 0 ELSE ns[Taken(s)].size + h[s \ {Taken(s)}]
  BY <1>4 DEF SumOf
<1>6. s # {}
  BY <1>4, <1>5
<1>7. s \ {Taken(s)} \notin B
  BY <1>3, <1>6, TakenInside
<1>8. g[s \ {Taken(s)}] = h[s \ {Taken(s)}]
  BY <1>4, <1>7
<1> QED
  BY <1>4, <1>5, <1>8

\* A finite set has a sum.
LEMMA SumExists ==
    ASSUME NEW ns, NEW S, IsFiniteSet(S)
    PROVE  \E g : SumOf(ns, S, g)
<1> DEFINE B == {s \in SUBSET S : ~\E g : SumOf(ns, s, g)}
<1>1. SUFFICES ASSUME B # {} PROVE FALSE
  OBVIOUS
<1>2. \A s \in B : IsFiniteSet(s)
  BY FS_Subset
<1>3. PICK T \in B : \A t \in B : t \subseteq T => t = T
  <2> HIDE DEF B
  <2> QED
    BY <1>1, <1>2, LeastSet
<1>4. T \subseteq S /\ IsFiniteSet(T) /\ ~\E g : SumOf(ns, T, g)
  BY <1>2, <1>3
<1>5. \A t \in SUBSET T : t # T => \E g : SumOf(ns, t, g)
  BY <1>3, <1>4
<1> DEFINE sum(t) == (CHOOSE g : SumOf(ns, t, g))[t]
<1>6. ASSUME NEW s \in SUBSET T, s # T
      PROVE  sum(s) = IF s = {} THEN 0 ELSE ns[Taken(s)].size + sum(s \ {Taken(s)})
  <2>1. PICK g : g = CHOOSE h : SumOf(ns, s, h)
    OBVIOUS
  <2>2. SumOf(ns, s, g)
    BY <1>5, <1>6, <2>1
  <2>3. g[s] = IF s = {} THEN 0 ELSE ns[Taken(s)].size + g[s \ {Taken(s)}]
    BY <2>2 DEF SumOf
  <2>4. CASE s = {}
    BY <2>1, <2>3, <2>4
  <2>5. CASE s # {}
    <3>1. PICK u : u = s \ {Taken(s)}
      OBVIOUS
    <3>2. PICK h : h = CHOOSE k : SumOf(ns, u, k)
      OBVIOUS
    <3>3. u \in SUBSET T /\ u # T /\ u \subseteq s
      BY <2>5, <3>1, TakenInside
    <3>4. SumOf(ns, u, h)
      BY <1>5, <3>2, <3>3
    <3>5. IsFiniteSet(u)
      BY <1>4, <3>3, FS_Subset
    <3>6. h[u] = g[u]
      BY <2>2, <3>3, <3>4, <3>5, SumsAgree
    <3> QED
      BY <2>1, <2>3, <2>5, <3>1, <3>2, <3>6
  <2> QED
    BY <2>4, <2>5
<1>7. T # {}
  <2>1. SumOf(ns, {}, [s \in SUBSET {} |-> 0])
    BY DEF SumOf
  <2> QED
    BY <1>4, <2>1
<1> DEFINE new == ns[Taken(T)].size + sum(T \ {Taken(T)})
           g == [s \in SUBSET T |-> IF s = T THEN new ELSE sum(s)]
<1>8. ASSUME NEW s \in SUBSET T
      PROVE  g[s] = IF s = {} THEN 0 ELSE ns[Taken(s)].size + g[s \ {Taken(s)}]
  <2>1. s # {} => s \ {Taken(s)} # T /\ s \ {Taken(s)} \in SUBSET T
    BY TakenInside
  <2> HIDE DEF sum
  <2>2. s # {} => g[s \ {Taken(s)}] = sum(s \ {Taken(s)})
    BY <2>1
  <2>3. CASE s = T
    BY <1>7, <2>2, <2>3
  <2>4. CASE s # T
    <3>1. g[s] = sum(s)
      BY <2>4
    <3> QED
      BY <1>6, <2>2, <2>4, <3>1
  <2> QED
    BY <2>3, <2>4
<1>9. g = [s \in SUBSET T |-> g[s]]
  OBVIOUS
<1> HIDE DEF g
<1>10. g = [s \in SUBSET T |-> IF s = {} THEN 0 ELSE ns[Taken(s)].size + g[s \ {Taken(s)}]]
  BY <1>8, <1>9
<1> QED
  BY <1>4, <1>10 DEF SumOf

\* The equation that defines the fold holds of Total.
LEMMA TotalStep ==
    ASSUME NEW ns, NEW S, IsFiniteSet(S)
    PROVE  Total(ns, S) = IF S = {} THEN 0
                          ELSE ns[Taken(S)].size + Total(ns, S \ {Taken(S)})
<1>1. PICK g : g = CHOOSE h : SumOf(ns, S, h)
  OBVIOUS
<1>2. SumOf(ns, S, g) /\ Total(ns, S) = g[S]
  BY <1>1, SumExists, TotalIsSum
<1>3. g[S] = IF S = {} THEN 0 ELSE ns[Taken(S)].size + g[S \ {Taken(S)}]
  BY <1>2 DEF SumOf
<1>4. PICK U : U = S \ {Taken(S)}
  OBVIOUS
<1>5. IsFiniteSet(U) /\ U \subseteq S
  BY <1>4, FS_Subset
<1>6. PICK k : k = CHOOSE h : SumOf(ns, U, h)
  OBVIOUS
<1>7. SumOf(ns, U, k) /\ Total(ns, U) = k[U]
  BY <1>5, <1>6, SumExists, TotalIsSum
<1>8. k[U] = g[U]
  BY <1>2, <1>5, <1>7, SumsAgree
<1> QED
  BY <1>2, <1>3, <1>4, <1>7, <1>8

\* A total of natural numbers is one.
LEMMA TotalNat ==
    ASSUME NEW ns, NEW S, IsFiniteSet(S), \A i \in S : ns[i].size \in Nat
    PROVE  Total(ns, S) \in Nat
<1> DEFINE B == {s \in SUBSET S : Total(ns, s) \notin Nat}
<1>1. SUFFICES ASSUME B # {} PROVE FALSE
  OBVIOUS
<1>2. \A s \in B : IsFiniteSet(s)
  BY FS_Subset
<1>3. PICK s \in B : \A t \in B : t \subseteq s => t = s
  <2> HIDE DEF B
  <2> QED
    BY <1>1, <1>2, LeastSet
<1>4. s \subseteq S /\ Total(ns, s) \notin Nat /\ IsFiniteSet(s)
  BY <1>2, <1>3
<1>5. Total(ns, s) = IF s = {} THEN 0 ELSE ns[Taken(s)].size + Total(ns, s \ {Taken(s)})
  BY <1>4, TotalStep
<1>6. s # {}
  BY <1>4, <1>5
<1>7. Taken(s) \in s
  BY <1>6, TakenInside
<1>8. s \ {Taken(s)} \notin B
  BY <1>3, <1>7
<1>9. Total(ns, s \ {Taken(s)}) \in Nat
  BY <1>4, <1>8
<1>10. ns[Taken(s)].size \in Nat
  BY <1>4, <1>7
<1> QED
  BY <1>4, <1>5, <1>6, <1>9, <1>10

\* One more node adds its size, whatever node the fold takes first.
LEMMA TotalAdd ==
    ASSUME NEW ns, NEW S, IsFiniteSet(S), \A i \in S : ns[i].size \in Nat, NEW x \in S
    PROVE  Total(ns, S) = Total(ns, S \ {x}) + ns[x].size
<1> DEFINE Bad(s) == \E i \in s : Total(ns, s) # Total(ns, s \ {i}) + ns[i].size
           B == {s \in SUBSET S : Bad(s)}
<1>1. SUFFICES ASSUME B # {} PROVE FALSE
  OBVIOUS
<1>2. \A s \in B : IsFiniteSet(s)
  BY FS_Subset
<1>3. PICK s \in B : \A t \in B : t \subseteq s => t = s
  <2> HIDE DEF B
  <2> QED
    BY <1>1, <1>2, LeastSet
<1>4. s \subseteq S /\ IsFiniteSet(s)
  BY <1>2, <1>3
<1>5. PICK i \in s : Total(ns, s) # Total(ns, s \ {i}) + ns[i].size
  BY <1>3
<1>6. PICK c : c = Taken(s)
  OBVIOUS
<1>7. c \in s /\ Total(ns, s) = ns[c].size + Total(ns, s \ {c})
  BY <1>4, <1>5, <1>6, TotalStep, TakenInside
<1>8. \A t \in SUBSET s : IsFiniteSet(t) /\ \A k \in t : ns[k].size \in Nat
  BY <1>4, FS_Subset
<1>9. ns[c].size \in Nat /\ ns[i].size \in Nat
  BY <1>4, <1>5, <1>7
<1>10. \A t \in SUBSET s : Total(ns, t) \in Nat
  BY <1>8, TotalNat
<1>11. c # i
  <2>1. s \ {c} \in SUBSET s
    OBVIOUS
  <2>2. PICK a, b : a = Total(ns, s \ {c}) /\ b = ns[c].size
    OBVIOUS
  <2>3. a \in Nat /\ b \in Nat /\ Total(ns, s) = b + a
    BY <1>7, <1>9, <1>10, <2>1, <2>2
  <2>4. Total(ns, s) = a + b
    BY <2>3
  <2> QED
    BY <1>5, <2>2, <2>4
<1>12. PICK u, v, w : u = s \ {c} /\ v = s \ {i} /\ w = s \ {c, i}
  OBVIOUS
<1>13. u \notin B /\ v \notin B
  BY <1>3, <1>5, <1>7, <1>12
<1>14. u \ {i} = w /\ v \ {c} = w /\ i \in u /\ c \in v /\ u \in SUBSET S /\ v \in SUBSET S
       /\ u \in SUBSET s /\ v \in SUBSET s /\ w \in SUBSET s
  BY <1>4, <1>5, <1>7, <1>11, <1>12
<1>15. Total(ns, u) = Total(ns, w) + ns[i].size
  BY <1>13, <1>14
<1>16. Total(ns, v) = Total(ns, w) + ns[c].size
  BY <1>13, <1>14
<1>17. Total(ns, w) \in Nat
  BY <1>10, <1>14
<1>18. Total(ns, s) # Total(ns, v) + ns[i].size /\ Total(ns, s) = ns[c].size + Total(ns, u)
  BY <1>5, <1>7, <1>12
<1> QED
  BY <1>9, <1>15, <1>16, <1>17, <1>18

\* Projector's SizeOf is this total.
LEMMA SizeOfIsTotal == \A S : SizeOf(S) = Total(nodes, S)
  BY DEF SizeOf, Total, MapThenSumSet, MapThenFoldSet

\* The optional nodes taken that sort before i.
Earlier(i) == {j \in included \ Must : Before(j, i)}

\* What the loops keep of the reference definition: the size used is the size
\* of what is taken, what must be taken and the rest counted apart, and each
\* optional node visited was taken exactly if it fitted.
SizeInv ==
    /\ pc = "must" => used = Total(nodes, included)
    /\ pc = "impossible" => included = Must /\ used > budget /\ used = Total(nodes, Must)
    /\ pc \in {"fill", "ok"} =>
          /\ used = Total(nodes, included)
          /\ used = Total(nodes, Must) + Total(nodes, included \ Must)
          /\ Total(nodes, Must) <= budget
          /\ \A i \in Visited \ Must :
                i \in included <=>
                   Total(nodes, Must) + Total(nodes, Earlier(i)) + nodes[i].size <= budget

\* Every set of nodes has a total, to which one more adds its size.
LEMMA TotalOfIds ==
    ASSUME TypeOK, NEW S \in SUBSET Ids
    PROVE  /\ Total(nodes, S) \in Nat
           /\ \A i \in Ids \ S : Total(nodes, S \cup {i}) = Total(nodes, S) + nodes[i].size
<1>1. IsFiniteSet(1..MaxNodes) /\ Ids \subseteq 1..MaxNodes
  BY NodesAssumption, FS_Interval DEF TypeOK
<1>2. IsFiniteSet(Ids)
  BY <1>1, FS_Subset
<1>3. PICK ns, D : ns = nodes /\ D = Ids
  OBVIOUS
<1>4. \A i \in D : ns[i].size \in Nat
  BY <1>3, SizeIsNat
<1>5. \A T \in SUBSET D : IsFiniteSet(T)
  BY <1>2, <1>3, FS_Subset
<1>6. Total(ns, S) \in Nat
  BY <1>3, <1>4, <1>5, TotalNat
<1>7. ASSUME NEW i \in D \ S PROVE Total(ns, S \cup {i}) = Total(ns, S) + ns[i].size
  <2>1. PICK T : T = S \cup {i}
    OBVIOUS
  <2>2. IsFiniteSet(T) /\ i \in T /\ T \ {i} = S /\ \A k \in T : ns[k].size \in Nat
    BY <1>3, <1>4, <1>5, <2>1
  <2> QED
    BY <2>1, <2>2, TotalAdd
<1> QED
  BY <1>3, <1>6, <1>7

\* Taking or passing over one optional node keeps the invariant: the nodes
\* visited before it have the same ones before them as they had, and for it those
\* are all the ones taken.
LEMMA FillSizes ==
    ASSUME IInv, OrderInv, SizeInv, Fill
    PROVE  SizeInv'
<1>1. PICK i \in todo :
         /\ IsNext(i) /\ todo' = todo \ {i}
         /\ IF used + nodes[i].size > budget
            THEN UNCHANGED <<included, used>>
            ELSE included' = included \cup {i} /\ used' = used + nodes[i].size
  BY DEF Fill
<1>2. pc = "fill" /\ pc' = "fill" /\ UNCHANGED <<nodes, budget, pinned>>
  BY DEF Fill
<1>3. Ids' = Ids /\ Must' = Must
  BY <1>2, MustUnchanged
<1>4. /\ i \in Ids \ Must /\ i \notin included /\ used \in Nat /\ budget \in Nat
      /\ Must \subseteq included /\ included \subseteq Ids /\ todo \subseteq Ids
      /\ todo \cap included = {}
  BY <1>1, <1>2, BudgetsAssumption DEF IInv, TypeOK, MustCollected
<1>5. nodes[i].size \in Nat
  BY <1>4, SizeIsNat DEF IInv
<1>6. /\ i \in included' <=> used + nodes[i].size <= budget
      /\ included' = IF i \in included' THEN included \cup {i} ELSE included
      /\ used' = IF i \in included' THEN used + nodes[i].size ELSE used
  BY <1>1, <1>4, <1>5
<1>7. Visited = Ids \ todo /\ Visited' = Visited \cup {i} /\ included \subseteq Visited
  BY <1>1, <1>2, <1>3, <1>4 DEF Visited
<1>8. \A k \in Visited \ Must : Before(k, i) /\ ~Before(i, k)
  <2>1. \A k \in Visited \ Must : Before(k, i)
    BY <1>1, <1>2 DEF OrderInv
  <2>2. \A k \in Visited : ~(Before(k, i) /\ Before(i, k))
    BY <1>4, <1>7, BeforeOrder DEF IInv
  <2> QED
    BY <2>1, <2>2
<1>9. ~Before(i, i)
  BY <1>4, BeforeOrder DEF IInv
<1>10. /\ \A k \in Visited \ Must : Earlier(k)' = Earlier(k)
       /\ Earlier(i)' = included \ Must
  <2>1. \A j, k : Before(j, k)' <=> Before(j, k)
    BY <1>2 DEF Before, nodeSortKey
  <2>2. \A k : Earlier(k)' = {j \in included' \ Must : Before(j, k)}
    BY <1>3, <2>1 DEF Earlier
  <2>3. ASSUME NEW k \in Visited \ Must PROVE Earlier(k)' = Earlier(k)
    BY <1>6, <1>8, <2>2 DEF Earlier
  <2>4. \A j \in included \ Must : Before(j, i)
    BY <1>7, <1>8
  <2>5. Earlier(i)' = included \ Must
    BY <1>6, <1>9, <2>2, <2>4
  <2> QED
    BY <2>3, <2>5
<1>11. /\ Total(nodes, included \cup {i}) = Total(nodes, included) + nodes[i].size
       /\ Total(nodes, included) \in Nat
  BY <1>4, TotalOfIds DEF IInv
<1>12. /\ Total(nodes, (included \ Must) \cup {i})
             = Total(nodes, included \ Must) + nodes[i].size
       /\ Total(nodes, included \ Must) \in Nat
  <2>1. included \ Must \in SUBSET Ids /\ i \in Ids \ (included \ Must)
    BY <1>4
  <2> QED
    BY <2>1, TotalOfIds DEF IInv
<1>13. Total(nodes, Must) \in Nat
  BY TotalOfIds DEF IInv, Must
<1>14. /\ used = Total(nodes, included)
       /\ used = Total(nodes, Must) + Total(nodes, included \ Must)
       /\ Total(nodes, Must) <= budget
       /\ \A k \in Visited \ Must :
             k \in included <=>
                Total(nodes, Must) + Total(nodes, Earlier(k)) + nodes[k].size <= budget
  BY <1>2 DEF SizeInv
<1>15. included' \ Must = IF i \in included' THEN (included \ Must) \cup {i} ELSE included \ Must
  BY <1>4, <1>6
<1>16. used' = Total(nodes, included')
  BY <1>6, <1>11, <1>14
<1>17. used' = Total(nodes, Must) + Total(nodes, included' \ Must)
  <2>1. CASE i \notin included'
    BY <1>6, <1>14, <1>15, <2>1
  <2>2. CASE i \in included'
    <3>1. PICK a, b, c : /\ a = Total(nodes, Must) /\ b = Total(nodes, included \ Must)
                         /\ c = nodes[i].size
      OBVIOUS
    <3>2. used' = (a + b) + c /\ Total(nodes, included' \ Must) = b + c
      BY <1>6, <1>12, <1>14, <1>15, <2>2, <3>1
    <3>3. a \in Nat /\ b \in Nat /\ c \in Nat
      BY <1>5, <1>12, <1>13, <3>1
    <3>4. (a + b) + c = a + (b + c)
      BY <3>3
    <3> QED
      BY <3>1, <3>2, <3>4
  <2> QED
    BY <2>1, <2>2
<1>18. ASSUME NEW k \in Visited' \ Must
       PROVE  k \in included' <=>
                 Total(nodes, Must) + Total(nodes, Earlier(k)') + nodes[k].size <= budget
  <2>1. CASE k = i
    BY <1>6, <1>10, <1>14, <2>1
  <2>2. CASE k # i
    <3>1. k \in Visited \ Must /\ (k \in included' <=> k \in included)
      BY <1>6, <1>7, <2>2
    <3> QED
      BY <1>10, <1>14, <3>1
  <2> QED
    BY <2>1, <2>2
<1> QED
  BY <1>2, <1>3, <1>14, <1>16, <1>17, <1>18 DEF SizeInv

LEMMA SizeStep ==
    ASSUME IInv, OrderInv, SizeInv, [Next]_vars
    PROVE  SizeInv'
<1>1. CASE AppendNode \/ Return
  <2>1. pc' = "idle"
    BY <1>1 DEF AppendNode, Return
  <2> QED
    BY <2>1 DEF SizeInv
<1>2. CASE StartProjection
  <2>1. pc' = "must" /\ included' = {} /\ used' = 0
    BY <1>2 DEF StartProjection
  <2>2. \A ns : Total(ns, {}) = 0
    BY TotalStep, FS_EmptySet
  <2> QED
    BY <2>1, <2>2 DEF SizeInv
<1>3. CASE AddMust
  <2>1. PICK i \in todo : /\ included' = included \cup {i}
                          /\ used' = used + nodes[i].size
    BY <1>3 DEF AddMust
  <2>2. pc = "must" /\ pc' = "must" /\ nodes' = nodes
    BY <1>3 DEF AddMust
  <2>3. included \in SUBSET Ids /\ i \in Ids \ included
    BY <2>1 DEF IInv, TypeOK
  <2>4. Total(nodes, included \cup {i}) = Total(nodes, included) + nodes[i].size
    BY <2>3, TotalOfIds DEF IInv
  <2> QED
    BY <2>1, <2>2, <2>4 DEF SizeInv
<1>4. CASE CheckMust
  <2>1. /\ pc = "must" /\ todo = {} /\ included = Must /\ used = Total(nodes, Must)
        /\ UNCHANGED <<nodes, budget, pinned, included, used>>
    BY <1>4 DEF CheckMust, IInv, MustCollected, SizeInv
  <2>2. Ids' = Ids /\ Must' = Must
    BY <2>1, MustUnchanged
  <2>3. CASE used > budget
    <3>1. pc' = "impossible"
      BY <1>4, <2>3 DEF CheckMust
    <3> QED
      BY <2>1, <2>2, <2>3, <3>1 DEF SizeInv
  <2>4. CASE ~(used > budget)
    <3>1. pc' = "fill" /\ todo' = Ids \ Must
      BY <1>4, <2>1, <2>4 DEF CheckMust
    <3>2. used <= budget /\ used \in Nat
      BY <2>4, BudgetsAssumption DEF IInv, TypeOK
    <3>3. Visited' \ Must = {}
      BY <2>2, <3>1 DEF Visited
    <3>4. Total(nodes, Must \ Must) = 0
      <4>1. Must \ Must = {}
        OBVIOUS
      <4> QED
        BY <4>1, TotalStep, FS_EmptySet
    <3> QED
      BY <2>1, <2>2, <3>1, <3>2, <3>3, <3>4 DEF SizeInv
  <2> QED
    BY <2>3, <2>4
<1>5. CASE Fill
  BY <1>5, FillSizes
<1>6. CASE Finish \/ UNCHANGED vars
  <2>1. /\ UNCHANGED <<nodes, budget, pinned, todo, included, used>>
        /\ pc' = pc \/ (pc = "fill" /\ pc' = "ok")
    BY <1>6 DEF Finish, vars
  <2>2. Ids' = Ids /\ Must' = Must /\ Visited' = Visited
    BY <2>1, MustUnchanged DEF Visited
  <2>3. \A k : Earlier(k)' = Earlier(k)
    BY <2>1, <2>2 DEF Earlier, Before, nodeSortKey
  <2> QED
    BY <2>1, <2>2, <2>3 DEF SizeInv
<1> QED
  BY <1>1, <1>2, <1>3, <1>4, <1>5, <1>6 DEF Next

\* The sizes are counted right in every reachable state.
THEOREM SizesCounted == Spec => []SizeInv
<1>1. Init => SizeInv
  BY DEF Init, SizeInv
<1> QED
  BY <1>1, SizeStep, Invariance, NodesVisitedInOrder, PTL DEF Spec

\* projector.go ProjectContext against its reference definition:
\* BUDGET_IMPOSSIBLE is raised only when what must be included does not fit, and
\* a context holds an optional node exactly if it fits beside what must be there
\* and the optional nodes taken that sort before it.
THEOREM ContextIsTheReference == Spec => []TakenIffItFits
<1>1. ASSUME IInv, OrderInv, SizeInv PROVE TakenIffItFits
  <2>1. pc = "impossible" => SizeOf(Must) > budget
    BY <1>1, SizeOfIsTotal DEF SizeInv
  <2>2. ASSUME pc = "ok"
        PROVE  /\ SizeOf(Must) <= budget /\ used = SizeOf(included)
               /\ \A i \in Ids \ Must :
                     i \in included <=>
                        SizeOf(Must) + SizeOf({j \in included \ Must : Before(j, i)})
                           + nodes[i].size <= budget
    <3>1. Visited = Ids
      BY <1>1, <2>2 DEF Visited, OrderInv
    <3> QED
      BY <1>1, <2>2, <3>1, SizeOfIsTotal DEF SizeInv, Earlier
  <2> QED
    BY <2>1, <2>2 DEF TakenIffItFits
<1> QED
  BY <1>1, Invariance, NodesVisitedInOrder, SizesCounted, PTL

----------------------------------------------------------------------------
(* The projector, from one projection to the next.  Of the context before  *)
(* the reference definition still holds, whatever has been appended since; *)
(* so the first node that is in one context and not in the other would     *)
(* find the same size used in both.                                        *)

LEMMA TotalSame ==
    ASSUME NEW ns, NEW ms, NEW S, IsFiniteSet(S), \A i \in S : ns[i] = ms[i]
    PROVE  Total(ns, S) = Total(ms, S)
<1> DEFINE B == {s \in SUBSET S : Total(ns, s) # Total(ms, s)}
<1>1. SUFFICES ASSUME B # {} PROVE FALSE
  OBVIOUS
<1>2. \A s \in B : IsFiniteSet(s)
  BY FS_Subset
<1>3. PICK s \in B : \A t \in B : t \subseteq s => t = s
  <2> HIDE DEF B
  <2> QED
    BY <1>1, <1>2, LeastSet
<1>4. s \subseteq S /\ Total(ns, s) # Total(ms, s) /\ IsFiniteSet(s)
  BY <1>2, <1>3
<1>5. /\ Total(ns, s) = IF s = {} THEN 0 ELSE ns[Taken(s)].size + Total(ns, s \ {Taken(s)})
      /\ Total(ms, s) = IF s = {} THEN 0 ELSE ms[Taken(s)].size + Total(ms, s \ {Taken(s)})
  BY <1>4, TotalStep
<1>6. s # {}
  BY <1>4, <1>5
<1>7. Taken(s) \in s
  BY <1>6, TakenInside
<1>8. s \ {Taken(s)} \notin B
  BY <1>3, <1>7
<1>9. Total(ns, s \ {Taken(s)}) = Total(ms, s \ {Taken(s)})
  BY <1>4, <1>8
<1>10. ns[Taken(s)] = ms[Taken(s)]
  BY <1>4, <1>7
<1> QED
  BY <1>4, <1>5, <1>6, <1>9, <1>10

\* The optional nodes the projection before took that sort before i.
EarlierKept(i) == {j \in last.kept \ Must : Before(j, i)}

\* What the projection before kept is what the reference definition says of the
\* nodes it was given.
LastInv ==
    /\ last.given \subseteq Ids /\ last.kept \subseteq last.given
    /\ Must \cap last.given \subseteq last.kept
    /\ \A i \in last.given \ Must :
          i \in last.kept <=>
             Total(nodes, Must \cap last.given) + Total(nodes, EarlierKept(i)) + nodes[i].size
                <= budget

\* An append changes nothing of it: no node there was is altered.
LEMMA AppendKeepsLast ==
    ASSUME IInv, LastInv, AppendNode
    PROVE  LastInv'
<1>1. PICK i \in (1..MaxNodes) \ Ids, n \in Node : nodes' = Put(nodes, i, n)
  BY DEF AppendNode
<1>2. UNCHANGED <<budget, pinned, last>>
  BY DEF AppendNode
<1>3. Ids' = Ids \cup {i} /\ \A k \in Ids : nodes'[k] = nodes[k]
  BY <1>1 DEF Ids, Put
<1>4. \A k \in Ids : k \in Must' <=> k \in Must
  BY <1>2, <1>3 DEF Must
<1>5. last.given \subseteq Ids /\ last.kept \subseteq last.given
  BY DEF LastInv
<1>6. Must' \cap last.given = Must \cap last.given
  BY <1>4, <1>5
<1>7. \A j, k \in Ids : Before(j, k)' <=> Before(j, k)
  BY <1>3, BeforeKept
<1>8. \A k \in Ids : EarlierKept(k)' = EarlierKept(k)
  BY <1>2, <1>4, <1>5, <1>7 DEF EarlierKept
<1>9. ASSUME NEW S \in SUBSET Ids PROVE Total(nodes', S) = Total(nodes, S)
  <2>1. IsFiniteSet(1..MaxNodes) /\ S \subseteq 1..MaxNodes
    BY NodesAssumption, FS_Interval DEF IInv, TypeOK
  <2>2. IsFiniteSet(S)
    BY <2>1, FS_Subset
  <2>3. PICK ns, ms : ns = nodes' /\ ms = nodes
    OBVIOUS
  <2>4. \A k \in S : ns[k] = ms[k]
    BY <1>3, <2>3
  <2> QED
    BY <2>2, <2>3, <2>4, TotalSame
<1>10. ASSUME NEW k \in last.given \ Must'
       PROVE  k \in last.kept <=>
                 Total(nodes', Must' \cap last.given) + Total(nodes', EarlierKept(k)')
                    + nodes'[k].size <= budget
  <2>1. k \in last.given \ Must /\ k \in Ids
    BY <1>4, <1>5
  <2>2. EarlierKept(k) \in SUBSET Ids /\ Must \cap last.given \in SUBSET Ids
    BY <1>5 DEF EarlierKept
  <2> QED
    BY <1>3, <1>6, <1>8, <1>9, <2>1, <2>2 DEF LastInv
<1> QED
  BY <1>2, <1>3, <1>5, <1>6, <1>10 DEF LastInv

LEMMA LastStep ==
    ASSUME IInv, OrderInv, SizeInv, LastInv, [Next]_vars
    PROVE  LastInv'
<1>1. CASE AppendNode
  BY <1>1, AppendKeepsLast
<1>2. CASE Return /\ pc = "ok"
  <2>1. /\ last' = [given |-> Ids, kept |-> included]
        /\ UNCHANGED <<nodes, budget, pinned>>
    BY <1>2 DEF Return
  <2>2. last'.given = Ids /\ last'.kept = included
    BY <2>1
  <2>3. Ids' = Ids /\ Must' = Must /\ Must \subseteq Ids /\ Must \cap Ids = Must
    BY <2>1, MustUnchanged DEF Must
  <2>4. Visited = Ids /\ included \subseteq Ids /\ Must \subseteq included
    BY <1>2 DEF Visited, OrderInv, IInv, TypeOK, MustCollected
  <2>5. \A k \in Ids : EarlierKept(k)' = Earlier(k)
    <3>1. \A j, k \in Ids : Before(j, k)' <=> Before(j, k)
      BY <2>1, BeforeKept
    <3> QED
      BY <2>2, <2>3, <2>4, <3>1 DEF EarlierKept, Earlier
  <2>6. \A k \in Ids \ Must :
           k \in included <=>
              Total(nodes, Must) + Total(nodes, Earlier(k)) + nodes[k].size <= budget
    BY <1>2, <2>4 DEF SizeInv
  <2> QED
    BY <2>1, <2>2, <2>3, <2>4, <2>5, <2>6 DEF LastInv
<1>3. CASE UNCHANGED <<nodes, budget, pinned, last>>
  <2>1. Ids' = Ids /\ Must' = Must
    BY <1>3, MustUnchanged
  <2>2. \A k : EarlierKept(k)' = EarlierKept(k)
    BY <1>3, <2>1 DEF EarlierKept, Before, nodeSortKey
  <2> QED
    BY <1>3, <2>1, <2>2 DEF LastInv
<1>4. \/ AppendNode
      \/ Return /\ pc = "ok"
      \/ UNCHANGED <<nodes, budget, pinned, last>>
  BY DEF Next, vars, StartProjection, AddMust, CheckMust, Fill, Finish, Return
<1> QED
  BY <1>1, <1>2, <1>3, <1>4

LEMMA LastIsTheReference == Spec => []LastInv
<1>1. Init => LastInv
  BY DEF Init, LastInv
<1> QED
  BY <1>1, LastStep, Invariance, NodesVisitedInOrder, SizesCounted, PTL DEF Spec

\* projector.go ProjectContext, from one projection to the next: a node stays in, or
\* out of, the context unless a CONSTRAINT or pinned node has come or one was taken
\* that sorts before it, wherever in the order of (step, seq, id) the new nodes are.
THEOREM ContextStaysStable == Spec => []ContextIsStable
<1>1. ASSUME IInv, OrderInv, SizeInv, LastInv PROVE ContextIsStable
  <2> DEFINE Undisturbed(k) == \A j \in included \ last.given : Before(k, j)
             Bad == {k \in last.given : Undisturbed(k) /\ ~(k \in included <=> k \in last.kept)}
  <2>1. SUFFICES ASSUME pc = "ok", Must \subseteq last.given, Bad # {} PROVE FALSE
    BY DEF ContextIsStable
  <2>2. /\ last.given \subseteq Ids /\ last.kept \subseteq last.given
        /\ Must \subseteq last.kept /\ Must \cap last.given = Must
    BY <1>1, <2>1 DEF LastInv
  <2>3. Visited = Ids /\ included \subseteq Ids /\ Must \subseteq included
    BY <1>1, <2>1 DEF Visited, OrderInv, IInv, TypeOK, MustCollected
  <2>4. PICK b \in Bad : \A k \in Bad \ {b} : Before(b, k)
    <3>1. Bad \in SUBSET Ids
      BY <2>2
    <3> HIDE DEF Bad
    <3> QED
      BY <1>1, <2>1, <3>1, BeforeLeast DEF IInv
  <2>5. b \in last.given \ Must /\ b \in Ids /\ Undisturbed(b)
    BY <2>2, <2>3, <2>4
  <2>6. ASSUME NEW k \in last.given, Before(k, b) PROVE k \in included <=> k \in last.kept
    <3>1. k \in Ids
      BY <2>2
    <3>2. k # b /\ ~Before(b, k)
      BY <1>1, <2>5, <2>6, <3>1, BeforeOrder DEF IInv
    <3>3. k \notin Bad
      BY <2>4, <3>2
    <3>4. Undisturbed(k)
      <4>1. TAKE j \in included \ last.given
      <4>2. Before(b, j) /\ j \in Ids
        BY <2>3, <2>5
      <4> QED
        BY <1>1, <2>5, <2>6, <3>1, <4>2, BeforeOrder DEF IInv
    <3> QED
      BY <3>3, <3>4
  <2>7. ASSUME NEW k \in included, Before(k, b) PROVE k \in last.given
    <3>1. SUFFICES ASSUME k \notin last.given PROVE FALSE
      OBVIOUS
    <3>2. Before(b, k) /\ k \in Ids
      BY <2>3, <2>5, <3>1
    <3> QED
      BY <1>1, <2>5, <2>7, <3>2, BeforeOrder DEF IInv
  <2>8. Earlier(b) = EarlierKept(b)
    BY <2>2, <2>6, <2>7 DEF Earlier, EarlierKept
  <2>9. b \in last.kept <=>
           Total(nodes, Must) + Total(nodes, EarlierKept(b)) + nodes[b].size <= budget
    BY <1>1, <2>2, <2>5 DEF LastInv
  <2>10. b \in included <=>
           Total(nodes, Must) + Total(nodes, Earlier(b)) + nodes[b].size <= budget
    BY <1>1, <2>1, <2>3, <2>5 DEF SizeInv
  <2> QED
    BY <2>4, <2>8, <2>9, <2>10
<1> QED
  BY <1>1, Invariance, NodesVisitedInOrder, SizesCounted, LastIsTheReference, PTL

----------------------------------------------------------------------------
(* Grafts.                                                                 *)

LEMMA NodeKeys ==
    ASSUME NEW n \in SourceNode
    PROVE  Rank(n) \in Nat /\ n.seq \in Nat /\ n.step \in Int /\ n.step + 1 \in Nat
<1>1. n.seq \in Seqs /\ n.step \in StepN
  BY DEF SourceNode
<1>2. Rank(n) \in Nat
  BY DEF Rank
<1>3. n.seq \in Nat
  BY <1>1, SlotsAssumption
<1>4. n.step \in Int /\ n.step + 1 \in Nat
  <2>1. CASE n.step \in StepNumbers
    <3>1. PICK t : t = n.step
      OBVIOUS
    <3>2. t \in Nat
      BY <2>1, <3>1, SlotsAssumption
    <3> QED
      BY <3>1, <3>2
  <2>2. CASE n.step = NoStep
    BY <2>2 DEF NoStep
  <2> QED
    BY <1>1, <2>1, <2>2 DEF StepN
<1> QED
  BY <1>2, <1>3, <1>4

\* idx_nodes_slot: no two nodes have one slot.
SlotsTaken ==
    /\ source \subseteq SourceNode
    /\ \A m, n \in source : SameSlot(m, n) => m = n

\* Of the artifact nodes that are sorted, one comes first.
LEMMA FirstNode ==
    ASSUME SlotsTaken, NEW S \in SUBSET source, \A n \in S : n.kind \in ArtifactKinds, S # {}
    PROVE  \E m \in S : \A n \in S \ {m} : Ahead(m, n)
<1>1. \A n \in S : n \in SourceNode
  BY DEF SlotsTaken
<1>2. PICK f, g, k : /\ f = [n \in S |-> Rank(n)]
                     /\ g = [n \in S |-> n.seq] /\ k = [n \in S |-> n.step + 1]
  OBVIOUS
<1>3. f \in [S -> Nat] /\ g \in [S -> Nat] /\ k \in [S -> Nat]
  BY <1>1, <1>2, NodeKeys
<1>4. PICK m \in S : \A n \in S : LexFirst(f, g, k, m, n)
  BY <1>3, LexLeast
<1>5. \A n \in S : f[n] = Rank(n) /\ g[n] = n.seq /\ k[n] = n.step + 1
  BY <1>2
<1>6. ASSUME NEW n \in S, n # m PROVE Ahead(m, n)
  <2>1. m.step \in Int /\ n.step \in Int
    BY <1>1, NodeKeys
  <2>2. Rank(m) = Rank(n) => m.kind = n.kind
    BY DEF Rank, ArtifactKinds
  <2>3. ~(Rank(m) = Rank(n) /\ m.seq = n.seq /\ m.step = n.step)
    BY <1>6, <2>2 DEF SlotsTaken, SameSlot
  <2>4. \/ Rank(m) < Rank(n)
        \/ Rank(m) = Rank(n) /\ m.seq < n.seq
        \/ Rank(m) = Rank(n) /\ m.seq = n.seq /\ m.step + 1 <= n.step + 1
    BY <1>4, <1>5 DEF LexFirst
  <2>5. m.step + 1 <= n.step + 1 => m.step < n.step \/ m.step = n.step
    BY <2>1
  <2> QED
    BY <2>3, <2>4, <2>5 DEF Ahead
<1> QED
  BY <1>6

\* Only one does.
LEMMA OneFirst ==
    ASSUME NEW m \in SourceNode, NEW n \in SourceNode, Ahead(m, n), Ahead(n, m)
    PROVE  FALSE
<1>1. /\ Rank(m) \in Nat /\ m.seq \in Nat /\ m.step \in Int
      /\ Rank(n) \in Nat /\ n.seq \in Nat /\ n.step \in Int
  BY NodeKeys
<1> QED
  BY <1>1 DEF Ahead

\* FindArtifactRef returns the first of the matches.
LEMMA FindIsFirst ==
    ASSUME SlotsTaken, NEW h, Matches(h) # {}
    PROVE  /\ FindArtifactRef(h) \in Matches(h)
           /\ \A n \in Matches(h) \ {FindArtifactRef(h)} : Ahead(FindArtifactRef(h), n)
<1>1. Matches(h) \in SUBSET source /\ \A n \in Matches(h) : n.kind \in ArtifactKinds
  BY DEF Matches, Holders
<1>2. \E m \in Matches(h) : \A n \in Matches(h) \ {m} : Ahead(m, n)
  BY <1>1, FirstNode
<1> QED
  BY <1>2 DEF FindArtifactRef

\* What stands behind the node in the target's slot: a call that saw no source, or
\* one that saw no thought with this content and took the first match there was.
Behind(src) ==
    /\ target["slot"] = <<graft.opts.hash, RefPath(graft.opts, src)>>
    /\ graft.opts \in Options
    /\ graft.had \subseteq source /\ \A n \in graft.had : n.hash = graft.opts.hash
    /\ graft.opts.nodes =>
          /\ \A n \in graft.had : n.kind \notin PrivateKinds
          /\ src \in graft.had /\ src.kind \in ArtifactKinds
          /\ \A n \in graft.had \ {src} : n.kind \in ArtifactKinds => Ahead(src, n)

GraftInv ==
    /\ SlotsTaken
    /\ DOMAIN graft = {"ans", "again", "opts", "had"}
    /\ "slot" \in DOMAIN target => \E src : Behind(src)

\* What AppendRef puts behind the node when the slot is free.
LEMMA StoredIsBehind ==
    ASSUME GraftInv, NEW opts \in Options, AppendRef(opts), "slot" \notin DOMAIN target
    PROVE  GraftInv' /\ graft'.ans # "conflict"
<1>1. PICK src : src = FindArtifactRef(opts.hash)
  OBVIOUS
<1>2. PICK payload : payload = <<opts.hash, RefPath(opts, src)>>
  OBVIOUS
<1>3. source' = source /\ target' = Put(target, "slot", payload)
  BY <1>1, <1>2 DEF AppendRef, PutIfAbsent
<1>4. target'["slot"] = payload
  BY <1>3 DEF Put
<1>5. Answered(opts, "stored")
  BY DEF AppendRef, SlotConflict
<1>6. PICK had : had = {n \in source : n.hash = opts.hash}
  OBVIOUS
<1>7. /\ graft'.ans = "stored" /\ graft'.opts = opts /\ graft'.had = had
      /\ DOMAIN graft' = {"ans", "again", "opts", "had"}
  BY <1>5, <1>6 DEF Answered
<1>8. ASSUME opts.nodes
      PROVE  /\ \A n \in had : n.kind \notin PrivateKinds
             /\ src \in had /\ src.kind \in ArtifactKinds
             /\ \A n \in had \ {src} : n.kind \in ArtifactKinds => Ahead(src, n)
  <2>1. Holders(PrivateKinds, opts.hash) = {} /\ Matches(opts.hash) # {}
    BY <1>8 DEF AppendRef
  <2>2. src \in Matches(opts.hash) /\ \A n \in Matches(opts.hash) \ {src} : Ahead(src, n)
    BY <1>1, <2>1, FindIsFirst DEF GraftInv
  <2> QED
    BY <1>6, <2>1, <2>2 DEF Holders, Matches
<1>9. Behind(src)'
  BY <1>2, <1>3, <1>4, <1>6, <1>7, <1>8 DEF Behind
<1>10. SlotsTaken'
  BY <1>3 DEF GraftInv, SlotsTaken
<1> QED
  BY <1>7, <1>9, <1>10 DEF GraftInv

\* A step that leaves the slot, and the call that is kept, alone.
Idle ==
    /\ source \subseteq source' /\ target' = target
    /\ graft'.opts = graft.opts /\ graft'.had = graft.had
    /\ DOMAIN graft' = {"ans", "again", "opts", "had"}

LEMMA IdleKeeps ==
    ASSUME GraftInv, Idle, SlotsTaken'
    PROVE  GraftInv'
<1>1. \A src : Behind(src) => Behind(src)'
  BY DEF Idle, Behind
<1> QED
  BY <1>1 DEF GraftInv, Idle

\* Every other call does.
LEMMA OtherCallsIdle ==
    ASSUME GraftInv, NEW opts \in Options,
           Refuse(opts) \/ (AppendRef(opts) /\ "slot" \in DOMAIN target)
    PROVE  Idle /\ source' = source
<1>1. \E ans \in {"private", "notFound", "conflict", "replayed"} : Answered(opts, ans)
  BY DEF Refuse, AppendRef
<1>2. source' = source /\ target' = target
  BY DEF Refuse, AppendRef, PutIfAbsent
<1>3. PICK ans : graft' = [graft EXCEPT !.ans = ans, !.again = opts = graft.opts]
  BY <1>1 DEF Answered
<1> QED
  BY <1>2, <1>3 DEF Idle, GraftInv

LEMMA GraftStep ==
    ASSUME GraftInv, [GraftNext]_graftVars
    PROVE  GraftInv'
<1>1. CASE SourceAppend
  <2>1. PICK n \in SourceNode : /\ \A m \in source : ~SameSlot(m, n)
                               /\ source' = source \cup {n}
    BY <1>1 DEF SourceAppend
  <2>2. target' = target /\ graft' = [graft EXCEPT !.ans = "none", !.again = FALSE]
    BY <1>1 DEF SourceAppend
  <2>3. Idle
    BY <2>1, <2>2 DEF Idle, GraftInv
  <2>4. \A m \in source : SameSlot(n, m) => SameSlot(m, n)
    BY DEF SameSlot
  <2>5. SlotsTaken'
    BY <2>1, <2>4 DEF GraftInv, SlotsTaken
  <2> QED
    BY <2>3, <2>5, IdleKeeps
<1>2. ASSUME NEW opts \in Options, Refuse(opts) \/ AppendRef(opts) PROVE GraftInv'
  <2>1. CASE AppendRef(opts) /\ "slot" \notin DOMAIN target
    BY <2>1, StoredIsBehind
  <2>2. CASE Refuse(opts) \/ (AppendRef(opts) /\ "slot" \in DOMAIN target)
    <3>1. Idle /\ source' = source
      BY <2>2, OtherCallsIdle
    <3>2. SlotsTaken'
      BY <3>1 DEF GraftInv, SlotsTaken
    <3> QED
      BY <3>1, <3>2, IdleKeeps
  <2> QED
    BY <1>2, <2>1, <2>2
<1>3. CASE UNCHANGED graftVars
  <2>1. Idle /\ SlotsTaken'
    BY <1>3 DEF graftVars, Idle, GraftInv, SlotsTaken
  <2> QED
    BY <2>1, IdleKeeps
<1> QED
  BY <1>1, <1>2, <1>3 DEF GraftNext, GraftArtifactRef

\* The inductive invariant of grafts: for as long as the source grows and calls
\* are repeated, what is in the slot is what the first call found there.
THEOREM GraftInvariant == GraftSpec => []GraftInv
<1>1. GraftInit => GraftInv
  BY DEF GraftInit, GraftInv, SlotsTaken
<1> QED
  BY <1>1, GraftStep, PTL DEF GraftSpec

\* graft.go, "Never copies THOUGHT": what a graft that looked at the source put
\* into the target came from an artifact node, and from no content a thought of
\* the source had, whatever is appended to the source later.
THEOREM GraftNeverCopiesThoughts == GraftSpec => []GraftIsPublic
<1>1. ASSUME GraftInv PROVE GraftIsPublic
  <2> SUFFICES ASSUME "slot" \in DOMAIN target, graft.opts.nodes
               PROVE  /\ \A n \in graft.had : n.kind \notin PrivateKinds
                      /\ \E n \in graft.had :
                            /\ n.kind \in ArtifactKinds
                            /\ target["slot"][2] \in {graft.opts.path, n.path, Missing}
    BY DEF GraftIsPublic
  <2>1. PICK src : Behind(src)
    BY <1>1 DEF GraftInv
  <2>2. RefPath(graft.opts, src) \in {graft.opts.path, src.path, Missing}
    BY DEF RefPath
  <2>3. target["slot"][2] = RefPath(graft.opts, src)
    BY <2>1 DEF Behind
  <2> QED
    BY <2>1, <2>2, <2>3 DEF Behind
<1> QED
  BY <1>1, GraftInvariant, PTL

\* A call that conflicts with the earlier call with the same options has found
\* a node in the source that the earlier call did not find.
LEMMA ConflictHasNewer ==
    ASSUME GraftInv, NEW opts \in Options, AppendRef(opts),
           graft'.ans = "conflict", opts = graft.opts
    PROVE  /\ opts.nodes /\ ~opts.has
           /\ \E n \in Matches(opts.hash) \ graft.had :
                 \A m \in Matches(opts.hash) \cap graft.had : Ahead(n, m)
<1>1. PICK new : new = FindArtifactRef(opts.hash)
  OBVIOUS
<1>2. PICK payload : payload = <<opts.hash, RefPath(opts, new)>>
  OBVIOUS
<1>3. SlotConflict(target, "slot", payload)
  <2>1. SUFFICES ASSUME ~SlotConflict(target, "slot", payload) PROVE FALSE
    OBVIOUS
  <2>2. PICK ans \in {"stored", "replayed"} : Answered(opts, ans)
    BY <1>1, <1>2, <2>1 DEF AppendRef
  <2> QED
    BY <2>2 DEF Answered, GraftInv
<1>4. "slot" \in DOMAIN target /\ target["slot"] # payload
  BY <1>3 DEF SlotConflict
<1>5. PICK src : Behind(src)
  BY <1>4 DEF GraftInv
<1>6. RefPath(opts, src) # RefPath(opts, new)
  BY <1>2, <1>4, <1>5 DEF Behind
<1>7. opts.nodes /\ ~opts.has /\ src # new
  BY <1>6 DEF RefPath
<1>8. new \in Matches(opts.hash) /\ \A n \in Matches(opts.hash) \ {new} : Ahead(new, n)
  BY <1>1, <1>7, FindIsFirst DEF GraftInv, AppendRef
<1>9. /\ src \in graft.had /\ src.kind \in ArtifactKinds /\ src \in source
      /\ src.hash = opts.hash
      /\ \A n \in graft.had \ {src} : n.kind \in ArtifactKinds => Ahead(src, n)
  BY <1>5, <1>7 DEF Behind
<1>10. new \in SourceNode /\ src \in SourceNode /\ new.kind \in ArtifactKinds
  BY <1>8, <1>9 DEF GraftInv, SlotsTaken, Matches, Holders
<1>11. Ahead(new, src)
  BY <1>7, <1>8, <1>9 DEF Matches, Holders
<1>12. new \notin graft.had
  BY <1>7, <1>9, <1>10, <1>11, OneFirst
<1> QED
  BY <1>7, <1>8, <1>12

\* A repeated graft is a replay unless the source has got a node that takes
\* precedence over all the nodes it had (graft.go FindArtifactRef, over the listing
\* of log.go listNodes): a reference, a lower seq, or the same seq at an earlier
\* step or none.  A source that only grows behind these never turns a retry into a
\* conflict.
THEOREM RetriedGraftReplays == GraftSpec => []RetryConflictsOnlyWithNewer
<1>1. ASSUME GraftInit PROVE RetryConflictsOnlyWithNewer
  BY <1>1 DEF GraftInit, RetryConflictsOnlyWithNewer
<1>2. ASSUME GraftInv, RetryConflictsOnlyWithNewer, [GraftNext]_graftVars
      PROVE  RetryConflictsOnlyWithNewer'
  <2>1. CASE SourceAppend
    <3>1. graft'.ans = "none"
      BY <1>2, <2>1 DEF SourceAppend, GraftInv
    <3> QED
      BY <3>1 DEF RetryConflictsOnlyWithNewer
  <2>2. ASSUME NEW opts \in Options, Refuse(opts)
        PROVE  RetryConflictsOnlyWithNewer'
    <3>1. PICK ans \in {"private", "notFound"} : Answered(opts, ans)
      BY <2>2 DEF Refuse
    <3>2. graft'.ans = ans
      BY <1>2, <3>1 DEF Answered, GraftInv
    <3> QED
      BY <3>1, <3>2 DEF RetryConflictsOnlyWithNewer
  <2>3. ASSUME NEW opts \in Options, AppendRef(opts)
        PROVE  RetryConflictsOnlyWithNewer'
    <3>1. SUFFICES ASSUME graft'.ans = "conflict", graft'.again PROVE RetryConflictsOnlyWithNewer'
      BY DEF RetryConflictsOnlyWithNewer
    <3>2. "slot" \in DOMAIN target
      BY <1>2, <2>3, <3>1, StoredIsBehind
    <3>3. Idle /\ source' = source
      BY <1>2, <2>3, <3>2, OtherCallsIdle
    <3>4. opts = graft.opts
      <4>1. PICK ans \in {"conflict", "replayed"} : Answered(opts, ans)
        BY <2>3, <3>2 DEF AppendRef
      <4>2. graft' = [graft EXCEPT !.ans = ans, !.again = opts = graft.opts]
        BY <4>1 DEF Answered
      <4>3. graft'.again = (opts = graft.opts)
        BY <1>2, <4>2 DEF GraftInv
      <4> QED
        BY <3>1, <4>3
    <3>5. /\ opts.nodes /\ ~opts.has
          /\ \E n \in Matches(opts.hash) \ graft.had :
                \A m \in Matches(opts.hash) \cap graft.had : Ahead(n, m)
      BY <1>2, <2>3, <3>1, <3>4, ConflictHasNewer
    <3>6. graft'.opts = opts /\ graft'.had = graft.had /\ Matches(opts.hash)' = Matches(opts.hash)
      BY <3>3, <3>4 DEF Idle, Matches, Holders
    <3> QED
      BY <3>3, <3>5, <3>6 DEF RetryConflictsOnlyWithNewer, Matches, Holders
  <2>4. CASE UNCHANGED graftVars
    BY <1>2, <2>4 DEF graftVars, RetryConflictsOnlyWithNewer, Matches, Holders
  <2> QED
    BY <1>2, <2>1, <2>2, <2>3, <2>4 DEF GraftNext, GraftArtifactRef
<1> QED
  BY <1>1, <1>2, GraftInvariant, PTL DEF GraftSpec

----------------------------------------------------------------------------
(* Redaction, of values nested to any depth.  What holds of the values a   *)
(* value is made of and hence of itself holds of all; what is defined of a *)
(* value from those it is made of is defined for all.                      *)

KidSet(v) == {v.kids[k] : k \in DOMAIN v.kids}

LEMMA KidsAreValues ==
    ASSUME NEW v \in Values, NEW k \in DOMAIN v.kids
    PROVE  /\ v.kids[k] \in Values /\ v.kids[k] \in KidSet(v)
           /\ Nesting[v.kids[k]] \in Nat /\ Nesting[v] \in Nat
           /\ Nesting[v.kids[k]] < Nesting[v]
<1>1. v.kids \in [DOMAIN v.kids -> Values] /\ Nesting[v.kids[k]] < Nesting[v]
  BY ValuesAssumption
<1>2. v.kids[k] \in Values
  BY <1>1
<1>3. Nesting \in [Values -> Nat]
  BY ValuesAssumption
<1> QED
  BY <1>1, <1>2, <1>3 DEF KidSet

\* A value of B made of none.
LEMMA LeastValue ==
    ASSUME NEW B, B \subseteq Values, B # {}
    PROVE  \E v \in B : \A k \in DOMAIN v.kids : v.kids[k] \notin B
<1> DEFINE N == {Nesting[v] : v \in B}
<1>1. N \subseteq Nat /\ N # {}
  <2>1. Nesting \in [Values -> Nat]
    BY ValuesAssumption
  <2> QED
    BY <2>1
<1>2. PICK n \in N : \A m \in N : n <= m
  <2> HIDE DEF N
  <2> QED
    BY <1>1, LeastNat
<1>3. PICK v \in B : n = Nesting[v]
  BY <1>2
<1>4. ASSUME NEW k \in DOMAIN v.kids, v.kids[k] \in B PROVE FALSE
  <2>1. Nesting[v] <= Nesting[v.kids[k]]
    BY <1>2, <1>3, <1>4
  <2>2. v \in Values
    OBVIOUS
  <2>3. /\ Nesting[v.kids[k]] \in Nat /\ Nesting[v] \in Nat
        /\ Nesting[v.kids[k]] < Nesting[v]
    BY <2>2, KidsAreValues
  <2> QED
    BY <2>1, <2>3
<1> QED
  BY <1>3, <1>4

Shallow(n) == {v \in Values : Nesting[v] < n}

\* f gives for each value of V what G makes of what f gives for its kids.
Solves(G, R, V, f) ==
    f \in [V -> R] /\ \A v \in V : f[v] = G[v][[w \in KidSet(v) |-> f[w]]]

\* G takes what is given for the kids of a value.
OnKids(G, R) == \A v \in Values : G[v] \in [[KidSet(v) -> R] -> R]

LEMMA SolutionsAgree ==
    ASSUME NEW G, NEW R, NEW n \in Nat, NEW m \in Nat, NEW f, NEW g,
           Solves(G, R, Shallow(n), f), Solves(G, R, Shallow(m), g)
    PROVE  \A v \in Shallow(n) : v \in Shallow(m) => f[v] = g[v]
<1> DEFINE B == {v \in Shallow(n) : v \in Shallow(m) /\ f[v] # g[v]}
<1>1. SUFFICES ASSUME B # {} PROVE FALSE
  OBVIOUS
<1>2. B \subseteq Values
  BY DEF Shallow
<1>3. PICK v \in B : \A k \in DOMAIN v.kids : v.kids[k] \notin B
  <2> HIDE DEF B
  <2> QED
    BY <1>1, <1>2, LeastValue
<1>4. v \in Values /\ v \in Shallow(n) /\ v \in Shallow(m) /\ f[v] # g[v]
  BY <1>2, <1>3
<1>5. ASSUME NEW k \in DOMAIN v.kids PROVE f[v.kids[k]] = g[v.kids[k]]
  <2>1. v.kids[k] \in Shallow(n) /\ v.kids[k] \in Shallow(m)
    BY <1>4, KidsAreValues DEF Shallow
  <2> QED
    BY <1>3, <2>1
<1>6. [w \in KidSet(v) |-> f[w]] = [w \in KidSet(v) |-> g[w]]
  BY <1>5 DEF KidSet
<1> QED
  BY <1>4, <1>6 DEF Solves

LEMMA ShallowSolution ==
    ASSUME NEW G, NEW R, OnKids(G, R), NEW n \in Nat
    PROVE  \E f : Solves(G, R, Shallow(n), f)
<1> DEFINE B == {k \in Nat : ~\E f : Solves(G, R, Shallow(k), f)}
<1>1. SUFFICES ASSUME B # {} PROVE FALSE
  OBVIOUS
<1>2. PICK m \in B : \A k \in B : m <= k
  <2>1. B \subseteq Nat
    OBVIOUS
  <2> HIDE DEF B
  <2> QED
    BY <1>1, <2>1, LeastNat
<1>3. m \in Nat /\ ~\E f : Solves(G, R, Shallow(m), f)
  BY <1>2
<1>4. \A v \in Values : Nesting[v] \in Nat
  BY ValuesAssumption
<1>5. m # 0
  <2>1. Shallow(0) = {}
    BY <1>4 DEF Shallow
  <2>2. Solves(G, R, {}, [v \in {} |-> R])
    BY DEF Solves
  <2> QED
    BY <1>3, <2>1, <2>2
<1>6. m - 1 \in Nat /\ m - 1 \notin B
  BY <1>2, <1>3, <1>5
<1>7. PICK f : Solves(G, R, Shallow(m - 1), f)
  BY <1>6
<1> DEFINE of(v) == [w \in KidSet(v) |-> f[w]]
           g == [v \in Shallow(m) |-> G[v][of(v)]]
<1>8. \A v \in Shallow(m) : KidSet(v) \subseteq Shallow(m - 1)
  BY <1>3, <1>4, KidsAreValues DEF Shallow, KidSet
<1>9. ASSUME NEW v \in Shallow(m) PROVE g[v] \in R
  <2>1. of(v) \in [KidSet(v) -> R]
    BY <1>7, <1>8 DEF Solves
  <2>2. v \in Values
    BY DEF Shallow
  <2> HIDE DEF of
  <2>3. G[v] \in [[KidSet(v) -> R] -> R]
    BY <2>2 DEF OnKids
  <2> QED
    BY <2>1, <2>3
<1>10. \A w \in Shallow(m - 1) : w \in Shallow(m) /\ g[w] = f[w]
  <2>1. \A w \in Shallow(m - 1) : w \in Shallow(m)
    BY <1>3, <1>4 DEF Shallow
  <2> QED
    BY <1>7, <2>1 DEF Solves
<1>11. ASSUME NEW v \in Shallow(m) PROVE g[v] = G[v][[w \in KidSet(v) |-> g[w]]]
  <2>1. \A w \in KidSet(v) : g[w] = f[w]
    BY <1>8, <1>10
  <2> HIDE DEF g
  <2>2. [w \in KidSet(v) |-> g[w]] = of(v)
    BY <2>1
  <2> HIDE DEF of
  <2>3. g[v] = G[v][of(v)]
    BY DEF g
  <2> QED
    BY <2>2, <2>3
<1>12. g \in [Shallow(m) -> R]
  BY <1>9
<1> HIDE DEF g
<1>13. Solves(G, R, Shallow(m), g)
  BY <1>11, <1>12 DEF Solves
<1> QED
  BY <1>3, <1>13

\* What is defined from the kids is defined for every value.
LEMMA Recursion ==
    ASSUME NEW G, NEW R, OnKids(G, R)
    PROVE  \E f : Solves(G, R, Values, f)
<1> DEFINE at(v) == Nesting[v] + 1
           sol(v) == CHOOSE f : Solves(G, R, Shallow(at(v)), f)
           F == [v \in Values |-> sol(v)[v]]
<1>1. ASSUME NEW v \in Values
      PROVE  /\ at(v) \in Nat /\ v \in Shallow(at(v))
             /\ Solves(G, R, Shallow(at(v)), sol(v))
  <2>1. at(v) \in Nat /\ v \in Shallow(at(v))
    BY ValuesAssumption DEF Shallow
  <2> HIDE DEF at
  <2>2. \E f : Solves(G, R, Shallow(at(v)), f)
    BY <2>1, ShallowSolution
  <2> QED
    BY <2>1, <2>2
<1> HIDE DEF at, sol
<1>2. ASSUME NEW v \in Values, NEW w \in KidSet(v)
      PROVE  w \in Values /\ F[w] = sol(v)[w]
  <2>1. PICK k \in DOMAIN v.kids : w = v.kids[k]
    BY <1>2 DEF KidSet
  <2>2. w \in Values /\ w \in Shallow(at(v))
    BY <2>1, KidsAreValues DEF Shallow, at
  <2>3. sol(w)[w] = sol(v)[w]
    <3>1. PICK n, m, f, g : n = at(w) /\ m = at(v) /\ f = sol(w) /\ g = sol(v)
      OBVIOUS
    <3>2. /\ n \in Nat /\ m \in Nat /\ w \in Shallow(n) /\ w \in Shallow(m)
          /\ Solves(G, R, Shallow(n), f) /\ Solves(G, R, Shallow(m), g)
      BY <1>1, <2>2, <3>1
    <3>3. f[w] = g[w]
      BY <3>2, SolutionsAgree
    <3> QED
      BY <3>1, <3>3
  <2> QED
    BY <2>2, <2>3
<1>3. ASSUME NEW v \in Values
      PROVE  F[v] \in R /\ F[v] = G[v][[w \in KidSet(v) |-> F[w]]]
  <2>1. F[v] = sol(v)[v]
    OBVIOUS
  <2>2. sol(v)[v] \in R /\ sol(v)[v] = G[v][[w \in KidSet(v) |-> sol(v)[w]]]
    BY <1>1 DEF Solves
  <2>3. \A w \in KidSet(v) : F[w] = sol(v)[w]
    BY <1>2
  <2> HIDE DEF F
  <2>4. [w \in KidSet(v) |-> F[w]] = [w \in KidSet(v) |-> sol(v)[w]]
    BY <2>3
  <2> QED
    BY <2>1, <2>2, <2>4
<1>4. F \in [Values -> R]
  BY <1>3
<1> HIDE DEF F
<1> QED
  BY <1>3, <1>4 DEF Solves

----------------------------------------------------------------------------
(* The three definitions by recursion.                                     *)

\* One level of Clean.
CleanLevel(clean, v) ==
    /\ v.tag # "secret"
    /\ v.tag # "typed" =>
         \A k \in DOMAIN v.kids :
            IF v.tag = "map" /\ k \in SecretKeys THEN v.kids[k] = Redacted ELSE clean[v.kids[k]]

LEMMA CleanDef ==
    /\ Clean \in [Values -> BOOLEAN]
    /\ \A v \in Values : Clean[v] = CleanLevel(Clean, v)
<1> DEFINE G == [v \in Values |-> [h \in [KidSet(v) -> BOOLEAN] |-> CleanLevel(h, v)]]
<1>1. OnKids(G, BOOLEAN)
  BY DEF OnKids, CleanLevel
<1>2. PICK f : Solves(G, BOOLEAN, Values, f)
  <2> HIDE DEF G
  <2> QED
    BY <1>1, Recursion
<1>3. ASSUME NEW v \in Values PROVE f[v] = CleanLevel(f, v)
  <2> DEFINE h == [w \in KidSet(v) |-> f[w]]
  <2>1. h \in [KidSet(v) -> BOOLEAN]
    <3>1. KidSet(v) \subseteq Values
      BY KidsAreValues DEF KidSet
    <3> QED
      BY <1>2, <3>1 DEF Solves
  <2>2. \A k \in DOMAIN v.kids : h[v.kids[k]] = f[v.kids[k]]
    BY KidsAreValues
  <2>3. f[v] = G[v][h]
    BY <1>2 DEF Solves
  <2> HIDE DEF h
  <2>4. f[v] = CleanLevel(h, v)
    BY <2>1, <2>3
  <2>5. CleanLevel(h, v) = CleanLevel(f, v)
    BY <2>2 DEF CleanLevel
  <2> QED
    BY <2>4, <2>5
<1>4. f \in [Values -> BOOLEAN]
  BY <1>2 DEF Solves
<1>5. f = [v \in Values |-> CleanLevel(f, v)]
  BY <1>3, <1>4
<1>6. Clean = [v \in Values |-> CleanLevel(Clean, v)]
  <2>1. Clean = CHOOSE c : c = [v \in Values |-> CleanLevel(c, v)]
    BY DEF Clean, CleanLevel
  <2> QED
    BY <1>5, <2>1
<1>7. \A v \in Values : Clean[v] = CleanLevel(Clean, v)
  BY <1>6
<1>8. \A v \in Values : CleanLevel(Clean, v) \in BOOLEAN
  BY DEF CleanLevel
<1> QED
  BY <1>6, <1>7, <1>8

\* One level of OnlySecretsGone.
GoneLevel(gone, a, b) ==
    \/ a.tag = "secret" /\ b = Redacted
    \/ a.tag = "typed" /\ b = a
    \/ /\ a.tag = b.tag /\ a.tag # "typed"
       /\ DOMAIN a.kids = DOMAIN b.kids
       /\ \A k \in DOMAIN a.kids :
             \/ a.tag = "map" /\ k \in SecretKeys
             \/ gone[a.kids[k]][b.kids[k]]

LEMMA OnlySecretsGoneDef ==
    /\ OnlySecretsGone \in [Values -> [Values -> BOOLEAN]]
    /\ \A a, b \in Values : OnlySecretsGone[a][b] = GoneLevel(OnlySecretsGone, a, b)
<1> DEFINE R == [Values -> BOOLEAN]
           G == [a \in Values |-> [h \in [KidSet(a) -> R] |-> [b \in Values |-> GoneLevel(h, a, b)]]]
<1>1. OnKids(G, R)
  BY DEF OnKids, GoneLevel
<1>2. PICK f : Solves(G, R, Values, f)
  <2> HIDE DEF G, R
  <2> QED
    BY <1>1, Recursion
<1>3. ASSUME NEW a \in Values PROVE f[a] = [b \in Values |-> GoneLevel(f, a, b)]
  <2> DEFINE h == [w \in KidSet(a) |-> f[w]]
  <2>1. h \in [KidSet(a) -> R]
    <3>1. KidSet(a) \subseteq Values
      BY KidsAreValues DEF KidSet
    <3> HIDE DEF R
    <3> QED
      BY <1>2, <3>1 DEF Solves
  <2>2. \A k \in DOMAIN a.kids : h[a.kids[k]] = f[a.kids[k]]
    BY KidsAreValues
  <2>3. f[a] = G[a][h]
    BY <1>2 DEF Solves
  <2> HIDE DEF h
  <2>4. f[a] = [b \in Values |-> GoneLevel(h, a, b)]
    BY <2>1, <2>3
  <2>5. \A b \in Values : GoneLevel(h, a, b) = GoneLevel(f, a, b)
    BY <2>2 DEF GoneLevel
  <2> QED
    BY <2>4, <2>5
<1>4. f \in [Values -> R]
  <2> HIDE DEF R
  <2> QED
    BY <1>2 DEF Solves
<1>5. f = [a \in Values |-> [b \in Values |-> GoneLevel(f, a, b)]]
  BY <1>3, <1>4
<1>6. OnlySecretsGone = [a \in Values |-> [b \in Values |-> GoneLevel(OnlySecretsGone, a, b)]]
  <2>1. OnlySecretsGone = CHOOSE c : c = [a \in Values |-> [b \in Values |-> GoneLevel(c, a, b)]]
    BY DEF OnlySecretsGone, GoneLevel
  <2> QED
    BY <1>5, <2>1
<1>7. \A a, b \in Values : OnlySecretsGone[a][b] = GoneLevel(OnlySecretsGone, a, b)
  BY <1>6
<1>8. \A a, b \in Values : GoneLevel(OnlySecretsGone, a, b) \in BOOLEAN
  BY DEF GoneLevel
<1> QED
  BY <1>6, <1>7, <1>8

\* What one level of RedactValue returns, given values no deeper for the kids,
\* is a value no deeper.
LEMMA LevelIsValue ==
    ASSUME NEW v \in Values, NEW key \in FieldNames, NEW f,
           \A k \in DOMAIN v.kids, n \in FieldNames :
              f[v.kids[k]][n] \in Values /\ Nesting[f[v.kids[k]][n]] <= Nesting[v.kids[k]]
    PROVE  RedactLevel(f, key, v) \in Values /\ Nesting[RedactLevel(f, key, v)] <= Nesting[v]
<1> DEFINE r == RedactLevel(f, key, v)
<1>1. /\ v.tag \in {"map", "list"} =>
            \A g \in [DOMAIN v.kids -> Values] :
               (\A k \in DOMAIN g : Nesting[g[k]] <= Nesting[v.kids[k]]) =>
                  Tree(v.tag, g) \in Values /\ Nesting[Tree(v.tag, g)] <= Nesting[v]
      /\ v.tag = "map" => DOMAIN v.kids \subseteq FieldNames
      /\ Redacted \in Values /\ Nesting[Redacted] <= Nesting[v]
      /\ Nesting[v] \in Nat
  BY ValuesAssumption
<1>2. CASE key \in SecretKeys
  BY <1>1, <1>2 DEF RedactLevel
<1>3. CASE key \notin SecretKeys /\ v.tag = "map"
  <2> DEFINE g == [k \in DOMAIN v.kids |-> f[v.kids[k]][k]]
  <2>1. g \in [DOMAIN v.kids -> Values] /\ \A k \in DOMAIN g : Nesting[g[k]] <= Nesting[v.kids[k]]
    BY <1>1, <1>3
  <2>2. r = Tree(v.tag, g)
    BY <1>3 DEF RedactLevel
  <2> HIDE DEF g, r
  <2> QED
    BY <1>1, <1>3, <2>1, <2>2 DEF r
<1>4. CASE key \notin SecretKeys /\ v.tag = "list"
  <2> DEFINE g == [k \in DOMAIN v.kids |-> f[v.kids[k]][key]]
  <2>1. g \in [DOMAIN v.kids -> Values] /\ \A k \in DOMAIN g : Nesting[g[k]] <= Nesting[v.kids[k]]
    OBVIOUS
  <2>2. r = Tree(v.tag, g)
    BY <1>4 DEF RedactLevel
  <2> HIDE DEF g, r
  <2> QED
    BY <1>1, <1>4, <2>1, <2>2 DEF r
<1>5. CASE key \notin SecretKeys /\ v.tag \notin {"map", "list"}
  <2>1. RedactLevel(f, key, v) \in {Redacted, v}
    BY <1>5 DEF RedactLevel
  <2> QED
    BY <1>1, <2>1
<1> QED
  BY <1>2, <1>3, <1>4, <1>5

\* One level needs the kids' results only.
LEMMA LevelNeedsKids ==
    ASSUME NEW v \in Values, NEW key \in FieldNames, NEW f, NEW g,
           \A k \in DOMAIN v.kids : f[v.kids[k]] = g[v.kids[k]]
    PROVE  RedactLevel(f, key, v) = RedactLevel(g, key, v)
  BY DEF RedactLevel

\* RedactValue is what its definition says, and returns values.
LEMMA RedactValueDef ==
    \A v \in Values, key \in FieldNames :
       /\ RedactValue[v][key] = RedactLevel(RedactValue, key, v)
       /\ RedactValue[v][key] \in Values
<1> DEFINE R == [FieldNames -> Values]
           val(r) == IF r \in Values THEN r ELSE Redacted
           G == [v \in Values |->
                   [h \in [KidSet(v) -> R] |->
                      [key \in FieldNames |-> val(RedactLevel(h, key, v))]]]
<1>1. OnKids(G, R)
  <2>1. \A r : val(r) \in Values
    BY ValuesAssumption
  <2> HIDE DEF val
  <2> QED
    BY <2>1 DEF OnKids
<1>2. PICK f : Solves(G, R, Values, f)
  <2> HIDE DEF G, R
  <2> QED
    BY <1>1, Recursion
<1>3. f \in [Values -> R]
  <2> HIDE DEF R
  <2> QED
    BY <1>2 DEF Solves
<1>4. ASSUME NEW v \in Values, NEW key \in FieldNames
      PROVE  f[v][key] = val(RedactLevel(f, key, v))
  <2> DEFINE h == [w \in KidSet(v) |-> f[w]]
  <2>1. h \in [KidSet(v) -> R]
    <3>1. KidSet(v) \subseteq Values
      BY KidsAreValues DEF KidSet
    <3> HIDE DEF R
    <3> QED
      BY <1>3, <3>1
  <2>2. \A k \in DOMAIN v.kids : h[v.kids[k]] = f[v.kids[k]]
    BY KidsAreValues
  <2>3. f[v] = G[v][h]
    BY <1>2 DEF Solves
  <2> HIDE DEF h, val
  <2>4. f[v][key] = val(RedactLevel(h, key, v))
    BY <2>1, <2>3
  <2>5. RedactLevel(h, key, v) = RedactLevel(f, key, v)
    BY <2>2, LevelNeedsKids
  <2> QED
    BY <2>4, <2>5
<1> DEFINE good(v) == \A key \in FieldNames :
                         /\ f[v][key] = RedactLevel(f, key, v)
                         /\ f[v][key] \in Values /\ Nesting[f[v][key]] <= Nesting[v]
           B == {v \in Values : ~good(v)}
<1>5. B = {}
  <2> SUFFICES ASSUME B # {} PROVE FALSE
    OBVIOUS
  <2>1. B \subseteq Values
    OBVIOUS
  <2>2. PICK v \in B : \A k \in DOMAIN v.kids : v.kids[k] \notin B
    <3> HIDE DEF B
    <3> QED
      BY <2>1, LeastValue
  <2>3. v \in Values /\ ~good(v)
    BY <2>2
  <2>4. \A k \in DOMAIN v.kids : good(v.kids[k])
    <3> HIDE DEF good
    <3> QED
      BY <2>2, <2>3, KidsAreValues
  <2>5. \A k \in DOMAIN v.kids, n \in FieldNames :
           f[v.kids[k]][n] \in Values /\ Nesting[f[v.kids[k]][n]] <= Nesting[v.kids[k]]
    BY <2>4
  <2>6. ASSUME NEW key \in FieldNames
        PROVE  /\ f[v][key] = RedactLevel(f, key, v)
               /\ f[v][key] \in Values /\ Nesting[f[v][key]] <= Nesting[v]
    <3>1. RedactLevel(f, key, v) \in Values /\ Nesting[RedactLevel(f, key, v)] <= Nesting[v]
      BY <2>3, <2>5, LevelIsValue
    <3>2. f[v][key] = val(RedactLevel(f, key, v))
      BY <1>4, <2>3
    <3> QED
      BY <3>1, <3>2
  <2> QED
    BY <2>3, <2>6
<1>6. \A v \in Values : good(v)
  BY <1>5
<1>7. f = [v \in Values |-> [key \in FieldNames |-> RedactLevel(f, key, v)]]
  <2>1. \A v \in Values : f[v] = [key \in FieldNames |-> RedactLevel(f, key, v)]
    BY <1>3, <1>6
  <2> QED
    BY <1>3, <2>1
<1>8. RedactValue = CHOOSE c : c = [v \in Values |-> [key \in FieldNames |-> RedactLevel(c, key, v)]]
  BY DEF RedactValue
<1>9. RedactValue = [v \in Values |-> [key \in FieldNames |-> RedactLevel(RedactValue, key, v)]]
  BY <1>7, <1>8
<1>10. \A v \in Values, key \in FieldNames : RedactValue[v][key] = RedactLevel(RedactValue, key, v)
  BY <1>9
<1> QED
  <2> DEFINE S(v) == \A key \in FieldNames :
                        RedactValue[v][key] \in Values /\ Nesting[RedactValue[v][key]] <= Nesting[v]
             C == {v \in Values : ~S(v)}
  <2>1. C = {}
    <3> SUFFICES ASSUME C # {} PROVE FALSE
      OBVIOUS
    <3>1. C \subseteq Values
      OBVIOUS
    <3>2. PICK v \in C : \A k \in DOMAIN v.kids : v.kids[k] \notin C
      <4> HIDE DEF C
      <4> QED
        BY <3>1, LeastValue
    <3>3. v \in Values /\ ~S(v)
      BY <3>2
    <3>4. \A k \in DOMAIN v.kids : S(v.kids[k])
      <4> HIDE DEF S
      <4> QED
        BY <3>2, <3>3, KidsAreValues
    <3>5. \A key \in FieldNames :
             /\ RedactLevel(RedactValue, key, v) \in Values
             /\ Nesting[RedactLevel(RedactValue, key, v)] <= Nesting[v]
      BY <3>3, <3>4, LevelIsValue
    <3> QED
      BY <1>10, <3>3, <3>5
  <2> QED
    BY <1>10, <2>1

----------------------------------------------------------------------------
(* What RedactValue does with a value of any depth.                        *)

\* The cases of RedactValue.
LEMMA RedactCases ==
    ASSUME NEW v \in Values, NEW key \in FieldNames, NEW r, r = RedactValue[v][key]
    PROVE  /\ r \in Values
           /\ \/ (key \in SecretKeys \/ v.tag = "secret") /\ r = Redacted
              \/ /\ key \notin SecretKeys /\ v.tag = "map" /\ r.tag = "map"
                 /\ DOMAIN r.kids = DOMAIN v.kids /\ DOMAIN v.kids \subseteq FieldNames
                 /\ \A k \in DOMAIN v.kids : r.kids[k] = RedactValue[v.kids[k]][k]
              \/ /\ key \notin SecretKeys /\ v.tag = "list" /\ r.tag = "list"
                 /\ DOMAIN r.kids = DOMAIN v.kids
                 /\ \A k \in DOMAIN v.kids : r.kids[k] = RedactValue[v.kids[k]][key]
              \/ /\ key \notin SecretKeys /\ v.tag \notin {"map", "list", "secret"}
                 /\ (v.tag = "typed" \/ DOMAIN v.kids = {}) /\ r = v
<1>1. r \in Values /\ r = RedactLevel(RedactValue, key, v)
  BY RedactValueDef
<1>2. /\ v.tag = "map" => DOMAIN v.kids \subseteq FieldNames
      /\ v.tag \notin {"map", "list", "typed"} => DOMAIN v.kids = {}
  BY ValuesAssumption
<1>3. CASE key \in SecretKeys
  BY <1>1, <1>3 DEF RedactLevel
<1>4. CASE key \notin SecretKeys /\ v.tag = "map"
  <2>1. r = Tree("map", [k \in DOMAIN v.kids |-> RedactValue[v.kids[k]][k]])
    BY <1>1, <1>4 DEF RedactLevel
  <2> QED
    BY <1>1, <1>2, <1>4, <2>1 DEF Tree
<1>5. CASE key \notin SecretKeys /\ v.tag = "list"
  <2>1. r = Tree("list", [k \in DOMAIN v.kids |-> RedactValue[v.kids[k]][key]])
    BY <1>1, <1>5 DEF RedactLevel
  <2> QED
    BY <1>1, <1>5, <2>1 DEF Tree
<1>6. CASE key \notin SecretKeys /\ v.tag \notin {"map", "list"}
  BY <1>1, <1>2, <1>6 DEF RedactLevel
<1> QED
  BY <1>3, <1>4, <1>5, <1>6

\* The two leaves that scrubbing puts into a context.
LEMMA LeavesStay ==
    ASSUME NEW v \in {Redacted, Flag}
    PROVE  /\ v \in Values /\ DOMAIN v.kids = {} /\ v.tag \in {"[REDACTED]", "true"}
           /\ Clean[v] /\ OnlySecretsGone[v][v]
           /\ \A key \in FieldNames \ SecretKeys : RedactValue[v][key] = v
<1>1. v \in Values
  BY ValuesAssumption
<1>2. DOMAIN v.kids = {} /\ v.tag \in {"[REDACTED]", "true"}
  BY DEF Redacted, Flag, Leaf, Tree
<1>3. Clean[v]
  BY <1>1, <1>2, CleanDef DEF CleanLevel
<1>4. OnlySecretsGone[v][v]
  BY <1>1, <1>2, OnlySecretsGoneDef DEF GoneLevel
<1>5. ASSUME NEW key \in FieldNames \ SecretKeys PROVE RedactValue[v][key] = v
  BY <1>1, <1>2, RedactCases
<1> QED
  BY <1>1, <1>2, <1>3, <1>4, <1>5

\* No secret is left.
LEMMA RedactedIsClean == \A v \in Values, key \in FieldNames : Clean[RedactValue[v][key]]
<1> DEFINE B == {v \in Values : \E key \in FieldNames : ~Clean[RedactValue[v][key]]}
<1>1. SUFFICES ASSUME B # {} PROVE FALSE
  OBVIOUS
<1>2. B \subseteq Values
  OBVIOUS
<1>3. PICK v \in B : \A k \in DOMAIN v.kids : v.kids[k] \notin B
  <2> HIDE DEF B
  <2> QED
    BY <1>1, <1>2, LeastValue
<1>4. PICK key \in FieldNames : ~Clean[RedactValue[v][key]]
  BY <1>3
<1>5. v \in Values
  BY <1>2, <1>3
<1>6. \A k \in DOMAIN v.kids, n \in FieldNames : Clean[RedactValue[v.kids[k]][n]]
  BY <1>3, <1>5, KidsAreValues
<1>7. PICK r : r = RedactValue[v][key]
  OBVIOUS
<1>8. r \in Values /\ ~Clean[r]
  BY <1>4, <1>5, <1>7, RedactCases
<1>9. ~CleanLevel(Clean, r)
  BY <1>8, CleanDef
<1>10. CASE r = Redacted
  BY <1>8, <1>10, LeavesStay
<1>11. CASE /\ v.tag = "map" /\ r.tag = "map"
            /\ DOMAIN r.kids = DOMAIN v.kids /\ DOMAIN v.kids \subseteq FieldNames
            /\ \A k \in DOMAIN v.kids : r.kids[k] = RedactValue[v.kids[k]][k]
  <2>1. ASSUME NEW k \in DOMAIN r.kids, k \in SecretKeys PROVE r.kids[k] = Redacted
    <3>1. v.kids[k] \in Values /\ k \in FieldNames /\ r.kids[k] = RedactValue[v.kids[k]][k]
      BY <1>5, <1>11, KidsAreValues
    <3>2. RedactValue[v.kids[k]][k] = RedactLevel(RedactValue, k, v.kids[k])
      BY <3>1, RedactValueDef
    <3> QED
      BY <2>1, <3>1, <3>2 DEF RedactLevel
  <2>2. \A k \in DOMAIN r.kids : Clean[r.kids[k]]
    BY <1>6, <1>11
  <2> QED
    BY <1>9, <1>11, <2>1, <2>2 DEF CleanLevel
<1>12. CASE /\ v.tag = "list" /\ r.tag = "list" /\ DOMAIN r.kids = DOMAIN v.kids
            /\ \A k \in DOMAIN v.kids : r.kids[k] = RedactValue[v.kids[k]][key]
  BY <1>6, <1>9, <1>12 DEF CleanLevel
<1>13. CASE /\ v.tag \notin {"map", "list", "secret"}
            /\ (v.tag = "typed" \/ DOMAIN v.kids = {}) /\ r = v
  BY <1>9, <1>13 DEF CleanLevel
<1> QED
  BY <1>5, <1>7, <1>10, <1>11, <1>12, <1>13, RedactCases

\* Nothing else is changed.
LEMMA RedactedIsSame ==
    \A v \in Values, key \in FieldNames \ SecretKeys : OnlySecretsGone[v][RedactValue[v][key]]
<1> DEFINE B == {v \in Values : \E key \in FieldNames \ SecretKeys :
                                   ~OnlySecretsGone[v][RedactValue[v][key]]}
<1>1. SUFFICES ASSUME B # {} PROVE FALSE
  OBVIOUS
<1>2. B \subseteq Values
  OBVIOUS
<1>3. PICK v \in B : \A k \in DOMAIN v.kids : v.kids[k] \notin B
  <2> HIDE DEF B
  <2> QED
    BY <1>1, <1>2, LeastValue
<1>4. PICK key \in FieldNames \ SecretKeys : ~OnlySecretsGone[v][RedactValue[v][key]]
  BY <1>3
<1>5. v \in Values
  BY <1>2, <1>3
<1>6. \A k \in DOMAIN v.kids, n \in FieldNames \ SecretKeys :
         OnlySecretsGone[v.kids[k]][RedactValue[v.kids[k]][n]]
  BY <1>3, <1>5, KidsAreValues
<1>7. PICK r : r = RedactValue[v][key]
  OBVIOUS
<1>8. r \in Values /\ ~OnlySecretsGone[v][r]
  BY <1>4, <1>5, <1>7, RedactCases
<1>9. ~GoneLevel(OnlySecretsGone, v, r)
  BY <1>5, <1>8, OnlySecretsGoneDef
<1>10. CASE v.tag = "secret" /\ r = Redacted
  BY <1>9, <1>10 DEF GoneLevel
<1>11. CASE /\ v.tag = "map" /\ r.tag = "map"
            /\ DOMAIN r.kids = DOMAIN v.kids /\ DOMAIN v.kids \subseteq FieldNames
            /\ \A k \in DOMAIN v.kids : r.kids[k] = RedactValue[v.kids[k]][k]
  BY <1>6, <1>9, <1>11 DEF GoneLevel
<1>12. CASE /\ v.tag = "list" /\ r.tag = "list" /\ DOMAIN r.kids = DOMAIN v.kids
            /\ \A k \in DOMAIN v.kids : r.kids[k] = RedactValue[v.kids[k]][key]
  BY <1>6, <1>9, <1>12 DEF GoneLevel
<1>13. CASE (v.tag = "typed" \/ DOMAIN v.kids = {}) /\ r = v
  BY <1>9, <1>13 DEF GoneLevel
<1> QED
  BY <1>4, <1>5, <1>7, <1>10, <1>11, <1>12, <1>13, RedactCases

\* Scrubbing again changes nothing.
LEMMA RedactedTwice ==
    \A v \in Values, key \in FieldNames : RedactValue[RedactValue[v][key]][key] = RedactValue[v][key]
<1> DEFINE B == {v \in Values : \E key \in FieldNames :
                                   RedactValue[RedactValue[v][key]][key] # RedactValue[v][key]}
<1>1. SUFFICES ASSUME B # {} PROVE FALSE
  OBVIOUS
<1>2. B \subseteq Values
  OBVIOUS
<1>3. PICK v \in B : \A k \in DOMAIN v.kids : v.kids[k] \notin B
  <2> HIDE DEF B
  <2> QED
    BY <1>1, <1>2, LeastValue
<1>4. PICK key \in FieldNames : RedactValue[RedactValue[v][key]][key] # RedactValue[v][key]
  BY <1>3
<1>5. v \in Values
  BY <1>2, <1>3
<1>6. \A k \in DOMAIN v.kids, n \in FieldNames :
         RedactValue[RedactValue[v.kids[k]][n]][n] = RedactValue[v.kids[k]][n]
  BY <1>3, <1>5, KidsAreValues
<1>7. PICK r : r = RedactValue[v][key]
  OBVIOUS
<1>8. r \in Values /\ RedactLevel(RedactValue, key, r) # r
  BY <1>4, <1>5, <1>7, RedactValueDef
<1>9. r = Tree(r.tag, r.kids) /\ r.kids = [k \in DOMAIN r.kids |-> r.kids[k]]
  <2>1. r = Tree(r.tag, r.kids) /\ r.kids \in [DOMAIN r.kids -> Values]
    BY <1>8, ValuesAssumption
  <2> QED
    BY <2>1
<1>10. CASE key \in SecretKeys
  BY <1>5, <1>7, <1>8, <1>10, RedactValueDef DEF RedactLevel
<1>11. CASE key \notin SecretKeys /\ r = Redacted
  BY <1>8, <1>11, LeavesStay, RedactValueDef
<1>12. CASE /\ key \notin SecretKeys /\ v.tag = "map" /\ r.tag = "map"
            /\ DOMAIN r.kids = DOMAIN v.kids /\ DOMAIN v.kids \subseteq FieldNames
            /\ \A k \in DOMAIN v.kids : r.kids[k] = RedactValue[v.kids[k]][k]
  <2>1. RedactLevel(RedactValue, key, r)
           = Tree("map", [k \in DOMAIN r.kids |-> RedactValue[r.kids[k]][k]])
    BY <1>12 DEF RedactLevel
  <2>2. \A k \in DOMAIN r.kids : RedactValue[r.kids[k]][k] = r.kids[k]
    BY <1>6, <1>12
  <2>3. [k \in DOMAIN r.kids |-> RedactValue[r.kids[k]][k]] = r.kids
    BY <1>9, <2>2
  <2> QED
    BY <1>8, <1>9, <1>12, <2>1, <2>3
<1>13. CASE /\ key \notin SecretKeys /\ v.tag = "list" /\ r.tag = "list"
            /\ DOMAIN r.kids = DOMAIN v.kids
            /\ \A k \in DOMAIN v.kids : r.kids[k] = RedactValue[v.kids[k]][key]
  <2>1. RedactLevel(RedactValue, key, r)
           = Tree("list", [k \in DOMAIN r.kids |-> RedactValue[r.kids[k]][key]])
    BY <1>13 DEF RedactLevel
  <2>2. \A k \in DOMAIN r.kids : RedactValue[r.kids[k]][key] = r.kids[k]
    BY <1>6, <1>13
  <2>3. [k \in DOMAIN r.kids |-> RedactValue[r.kids[k]][key]] = r.kids
    BY <1>9, <2>2
  <2> QED
    BY <1>8, <1>9, <1>13, <2>1, <2>3
<1>14. CASE key \notin SecretKeys /\ v.tag \notin {"map", "list", "secret"} /\ r = v
  BY <1>8, <1>14 DEF RedactLevel
<1> QED
  BY <1>5, <1>7, <1>10, <1>11, <1>12, <1>13, <1>14, RedactCases

----------------------------------------------------------------------------
(* Maps: contexts and payloads.                                            *)

Map   == [tag : {"map"}, kids : UNION {[D -> Values] : D \in SUBSET FieldNames}]
Item  == [kind : {"THOUGHT", "TOOL_RESULT", "none"}, payload : Map \cup Values]
Forms == [form : {"nil", "map", "items"}, map : Map, items : Seq(Item)]

LEMMA MapFacts ==
    ASSUME NEW m
    PROVE  m \in Map <=> /\ m = Tree("map", m.kids) /\ DOMAIN m.kids \subseteq FieldNames
                         /\ m.kids \in [DOMAIN m.kids -> Values]
  BY DEF Map, Tree

\* The contexts are of these forms.
LEMMA ContextForms ==
    ASSUME NEW c \in Contexts
    PROVE  c \in Forms /\ (c.form # "items" => c.items = << >>)
<1>1. IsContext(c)
  BY ContextsAssumption
<1>2. c.map \in Map
  BY <1>1, MapFacts DEF IsContext, IsMap
<1>3. CASE c.form = "items"
  <2>1. PICK s : s = c.items
    OBVIOUS
  <2>2. Len(s) \in Nat /\ s = [i \in 1..Len(s) |-> s[i]] /\ \A i \in 1..Len(s) : IsItem(s[i])
    BY <1>1, <1>3, <2>1 DEF IsContext
  <2>3. \A i \in 1..Len(s) : s[i] \in Item
    <3>1. TAKE i \in 1..Len(s)
    <3>2. PICK it : it = s[i]
      OBVIOUS
    <3>3. IsItem(it)
      BY <2>2, <3>2
    <3>4. it.payload \in Map \cup Values
      BY <3>3, MapFacts DEF IsItem, IsMap
    <3>5. it \in Item
      BY <3>3, <3>4 DEF IsItem, Item
    <3> QED
      BY <3>2, <3>5
  <2>4. PICK n : n = Len(s)
    OBVIOUS
  <2>5. n \in Nat /\ s \in [1..n -> Item]
    BY <2>2, <2>3, <2>4
  <2>6. s \in Seq(Item)
    BY <2>5
  <2> QED
    BY <1>1, <1>2, <1>3, <2>1, <2>6 DEF IsContext, Context, Forms
<1>4. CASE c.form # "items"
  <2>1. c.items = << >> /\ c.form \in {"nil", "map"} /\ << >> \in Seq(Item)
    BY <1>1, <1>4 DEF IsContext
  <2> QED
    BY <1>1, <1>2, <2>1 DEF IsContext, Context, Forms
<1> QED
  BY <1>3, <1>4

LEMMA MapOf ==
    ASSUME NEW D \in SUBSET FieldNames, NEW f \in [D -> Values]
    PROVE  /\ Tree("map", f) \in Map /\ Tree("map", f).kids = f
           /\ Tree("map", f).tag = "map" /\ DOMAIN f = D
  BY DEF Map, Tree

LEMMA RedactMapFacts ==
    ASSUME NEW m \in Map
    PROVE  /\ RedactMap(m) \in Map /\ CleanMap(RedactMap(m))
           /\ OnlySecretsGoneInMap(m, RedactMap(m))
           /\ RedactMap(RedactMap(m)) = RedactMap(m)
<1> DEFINE D == DOMAIN m.kids
           f == [k \in D |-> RedactValue[m.kids[k]][k]]
<1>1. D \in SUBSET FieldNames /\ m.tag = "map" /\ \A k \in D : m.kids[k] \in Values /\ k \in FieldNames
  BY MapFacts DEF Tree
<1>2. f \in [D -> Values]
  BY <1>1, RedactValueDef
<1>3. \A k \in D : f[k] = RedactValue[m.kids[k]][k]
  OBVIOUS
<1>4. PICK r : r = RedactMap(m)
  OBVIOUS
<1>5. r = Tree("map", f)
  BY <1>4 DEF RedactMap
<1> HIDE DEF f
<1>6. r \in Map /\ r.kids = f /\ r.tag = "map" /\ DOMAIN f = D
  BY <1>1, <1>2, <1>5, MapOf
<1>7. ASSUME NEW k \in D, k \in SecretKeys PROVE f[k] = Redacted
  BY <1>1, <1>3, <1>7, RedactValueDef DEF RedactLevel
<1>8. CleanMap(r)
  BY <1>1, <1>3, <1>6, <1>7, RedactedIsClean DEF CleanMap
<1>9. OnlySecretsGoneInMap(m, r)
  BY <1>1, <1>3, <1>6, RedactedIsSame DEF OnlySecretsGoneInMap
<1>10. \A k \in D : RedactValue[f[k]][k] = f[k]
  BY <1>1, <1>3, RedactedTwice
<1>11. [k \in D |-> RedactValue[f[k]][k]] = f
  BY <1>2, <1>10
<1>12. RedactMap(r) = r
  BY <1>5, <1>6, <1>11 DEF RedactMap
<1> QED
  BY <1>4, <1>6, <1>8, <1>9, <1>12

\* The flag that is set on every scrubbed context.
LEMMA WithFacts ==
    ASSUME NEW m \in Map
    PROVE  /\ With(m, "redacted", Flag) \in Map
           /\ With(m, "redacted", Flag).tag = "map"
           /\ DOMAIN With(m, "redacted", Flag).kids = DOMAIN m.kids \cup {"redacted"}
           /\ \A k \in DOMAIN m.kids \cup {"redacted"} :
                 With(m, "redacted", Flag).kids[k] = IF k = "redacted" THEN Flag ELSE m.kids[k]
<1> DEFINE D == DOMAIN m.kids \cup {"redacted"}
           f == [k \in D |-> IF k = "redacted" THEN Flag ELSE m.kids[k]]
<1>1. D \in SUBSET FieldNames /\ m.tag = "map" /\ \A k \in DOMAIN m.kids : m.kids[k] \in Values
  BY MapFacts, KeysAssumption DEF Tree
<1>2. f \in [D -> Values]
  BY <1>1, LeavesStay
<1>3. With(m, "redacted", Flag) = Tree("map", f)
  BY <1>1 DEF With
<1>4. \A k \in D : f[k] = IF k = "redacted" THEN Flag ELSE m.kids[k]
  OBVIOUS
<1> HIDE DEF f, D
<1>5. Tree("map", f) \in Map /\ Tree("map", f).kids = f /\ Tree("map", f).tag = "map" /\ DOMAIN f = D
  BY <1>1, <1>2, MapOf
<1> QED
  BY <1>3, <1>4, <1>5 DEF D

\* A map is known by its fields.
LEMMA SameMap ==
    ASSUME NEW a \in Map, NEW b \in Map, DOMAIN a.kids = DOMAIN b.kids,
           \A k \in DOMAIN a.kids : a.kids[k] = b.kids[k]
    PROVE  a = b
<1>1. /\ a = Tree("map", a.kids) /\ b = Tree("map", b.kids)
      /\ a.kids \in [DOMAIN a.kids -> Values] /\ b.kids \in [DOMAIN b.kids -> Values]
  BY MapFacts
<1>2. a.kids = b.kids
  BY <1>1
<1> QED
  BY <1>1, <1>2

LEMMA MarkerFacts ==
    /\ Marker \in Map /\ CleanMap(Marker) /\ Marker.tag = "map" /\ RedactMap(Marker) = Marker
    /\ With(Marker, "redacted", Flag) = Marker
<1>1. "redacted" \in FieldNames \ SecretKeys
  BY KeysAssumption
<1> DEFINE f == [k \in {"redacted"} |-> Flag]
<1>2. f \in [{"redacted"} -> Values] /\ f["redacted"] = Flag
  BY LeavesStay
<1>3. Marker = Tree("map", f)
  BY DEF Marker
<1> HIDE DEF f
<1>4. Marker \in Map /\ Marker.kids = f /\ Marker.tag = "map" /\ DOMAIN f = {"redacted"}
  BY <1>1, <1>2, <1>3, MapOf
<1>5. CleanMap(Marker)
  BY <1>1, <1>2, <1>4, LeavesStay DEF CleanMap
<1>6. RedactValue[Flag]["redacted"] = Flag
  BY <1>1, LeavesStay
<1>7. [k \in {"redacted"} |-> RedactValue[f[k]][k]] = f
  BY <1>2, <1>6
<1>8. RedactMap(Marker) = Marker
  BY <1>3, <1>4, <1>7 DEF RedactMap
<1>9. With(Marker, "redacted", Flag) = Marker
  <2>1. PICK w : w = With(Marker, "redacted", Flag)
    OBVIOUS
  <2>2. w \in Map /\ DOMAIN w.kids = {"redacted"} /\ w.kids["redacted"] = Flag
    BY <1>4, <2>1, WithFacts
  <2>3. w = Marker
    BY <1>2, <1>4, <2>2, SameMap
  <2> QED
    BY <2>1, <2>3
<1> QED
  BY <1>4, <1>5, <1>8, <1>9

\* A free-form context, scrubbed.
LEMMA FieldsFacts ==
    ASSUME NEW m \in Map, NEW r, r = With(RedactMap(m), "redacted", Flag)
    PROVE  /\ r \in Map /\ CleanMap(r)
           /\ OnlySecretsGoneInMap(With(m, "redacted", Flag), r)
           /\ With(RedactMap(r), "redacted", Flag) = r
<1>1. "redacted" \in FieldNames \ SecretKeys
  BY KeysAssumption
<1>2. PICK s : s = RedactMap(m)
  OBVIOUS
<1>3. s \in Map /\ CleanMap(s) /\ OnlySecretsGoneInMap(m, s) /\ RedactMap(s) = s
  BY <1>2, RedactMapFacts
<1>4. DOMAIN s.kids = DOMAIN m.kids /\ m.tag = "map"
  BY <1>3, MapFacts DEF OnlySecretsGoneInMap, Tree
<1>5. /\ r \in Map /\ r.tag = "map" /\ DOMAIN r.kids = DOMAIN s.kids \cup {"redacted"}
      /\ \A k \in DOMAIN s.kids \cup {"redacted"} :
            r.kids[k] = IF k = "redacted" THEN Flag ELSE s.kids[k]
  BY <1>2, <1>3, WithFacts
<1>6. CleanMap(r)
  BY <1>1, <1>3, <1>5, LeavesStay DEF CleanMap
<1>7. OnlySecretsGoneInMap(With(m, "redacted", Flag), r)
  <2>1. PICK w : w = With(m, "redacted", Flag)
    OBVIOUS
  <2>2. /\ w.tag = "map" /\ DOMAIN w.kids = DOMAIN m.kids \cup {"redacted"}
        /\ \A k \in DOMAIN m.kids \cup {"redacted"} :
              w.kids[k] = IF k = "redacted" THEN Flag ELSE m.kids[k]
    BY <2>1, WithFacts
  <2>3. ASSUME NEW k \in DOMAIN w.kids, k \notin SecretKeys
        PROVE  OnlySecretsGone[w.kids[k]][r.kids[k]]
    <3>1. CASE k = "redacted"
      BY <1>5, <2>2, <3>1, LeavesStay
    <3>2. CASE k # "redacted"
      BY <1>3, <1>4, <1>5, <2>2, <2>3, <3>2 DEF OnlySecretsGoneInMap
    <3> QED
      BY <3>1, <3>2
  <2>4. OnlySecretsGoneInMap(w, r)
    BY <1>4, <1>5, <2>2, <2>3 DEF OnlySecretsGoneInMap
  <2> QED
    BY <2>1, <2>4
<1>8. With(RedactMap(r), "redacted", Flag) = r
  <2>1. PICK t : t = RedactMap(r)
    OBVIOUS
  <2>2. t \in Map
    BY <1>5, <2>1, RedactMapFacts
  <2>3. t = Tree("map", [k \in DOMAIN r.kids |-> RedactValue[r.kids[k]][k]])
    BY <2>1 DEF RedactMap
  <2>4. DOMAIN t.kids = DOMAIN r.kids /\ \A k \in DOMAIN r.kids : t.kids[k] = RedactValue[r.kids[k]][k]
    BY <2>3 DEF Tree
  <2>5. s = Tree("map", [k \in DOMAIN s.kids |-> RedactValue[s.kids[k]][k]])
    BY <1>3 DEF RedactMap
  <2>6. \A k \in DOMAIN s.kids : s.kids[k] = RedactValue[s.kids[k]][k]
    BY <2>5 DEF Tree
  <2>7. PICK w : w = With(t, "redacted", Flag)
    OBVIOUS
  <2>8. /\ w \in Map /\ DOMAIN w.kids = DOMAIN t.kids \cup {"redacted"}
        /\ \A k \in DOMAIN t.kids \cup {"redacted"} :
              w.kids[k] = IF k = "redacted" THEN Flag ELSE t.kids[k]
    BY <2>2, <2>7, WithFacts
  <2>9. ASSUME NEW k \in DOMAIN w.kids PROVE w.kids[k] = r.kids[k]
    <3>1. k \in DOMAIN s.kids \cup {"redacted"}
      BY <1>5, <2>4, <2>8
    <3>2. CASE k = "redacted"
      BY <1>5, <2>8, <3>1, <3>2
    <3>3. CASE k # "redacted"
      BY <1>5, <2>4, <2>6, <2>8, <3>1, <3>3
    <3> QED
      BY <3>2, <3>3
  <2>10. DOMAIN w.kids = DOMAIN r.kids
    BY <1>5, <2>4, <2>8
  <2>11. w = r
    BY <1>5, <2>8, <2>9, <2>10, SameMap
  <2> QED
    BY <2>1, <2>7, <2>11
<1> QED
  BY <1>5, <1>6, <1>7, <1>8

\* The other fields of a context with items.
LEMMA FlagTwice ==
    ASSUME NEW m \in Map
    PROVE  With(With(m, "redacted", Flag), "redacted", Flag) = With(m, "redacted", Flag)
<1>1. PICK r : r = With(m, "redacted", Flag)
  OBVIOUS
<1>2. /\ r \in Map /\ DOMAIN r.kids = DOMAIN m.kids \cup {"redacted"}
      /\ r.kids["redacted"] = Flag
  BY <1>1, WithFacts
<1>3. PICK w : w = With(r, "redacted", Flag)
  OBVIOUS
<1>4. /\ w \in Map /\ DOMAIN w.kids = DOMAIN r.kids \cup {"redacted"}
      /\ \A k \in DOMAIN r.kids \cup {"redacted"} :
            w.kids[k] = IF k = "redacted" THEN Flag ELSE r.kids[k]
  BY <1>2, <1>3, WithFacts
<1>5. w = r
  BY <1>2, <1>4, SameMap
<1> QED
  BY <1>1, <1>3, <1>5

\* A payload.
LEMMA PayloadFacts ==
    ASSUME NEW kind, NEW p \in Map \cup Values, NEW r, r = RedactPayload(kind, p)
    PROVE  /\ r \in Map /\ CleanMap(r)
           /\ IF kind # "THOUGHT" /\ p.tag = "map" THEN OnlySecretsGoneInMap(p, r) ELSE r = Marker
           /\ RedactPayload(kind, r) = r
<1>1. CASE kind # "THOUGHT" /\ p.tag = "map"
  <2>1. p \in Map
    <3>1. CASE p \in Values
      <4>1. /\ p = Tree("map", p.kids) /\ DOMAIN p.kids \subseteq FieldNames
            /\ p.kids \in [DOMAIN p.kids -> Values]
        BY <1>1, <3>1, ValuesAssumption
      <4> QED
        BY <4>1, MapFacts
    <3> QED
      BY <3>1
  <2>2. r = RedactMap(p)
    BY <1>1 DEF RedactPayload
  <2>3. /\ r \in Map /\ CleanMap(r) /\ OnlySecretsGoneInMap(p, r) /\ RedactMap(r) = r
    BY <2>1, <2>2, RedactMapFacts
  <2>4. r.tag = "map"
    BY <2>3 DEF Map
  <2> QED
    BY <1>1, <2>3, <2>4 DEF RedactPayload
<1>2. CASE ~(kind # "THOUGHT" /\ p.tag = "map")
  <2>1. r = Marker
    BY <1>2 DEF RedactPayload
  <2> QED
    BY <1>2, <2>1, MarkerFacts DEF RedactPayload
<1> QED
  BY <1>1, <1>2

----------------------------------------------------------------------------
(* RedactProjectionContext.                                                *)

\* The context is one that was scrubbed.
Scrubbed(c) ==
    /\ c.form \in {"map", "items"}
    /\ c.form = "map" => c.map = With(RedactMap(c.map), "redacted", Flag)
    /\ c.form = "items" => c.map = With(c.map, "redacted", Flag)
    /\ \A i \in DOMAIN c.items :
          /\ c.items[i].kind # "none"
          /\ c.items[i].payload = RedactPayload(c.items[i].kind, c.items[i].payload)

WellFormed(c) == c \in Forms /\ (c.form # "items" => c.items = << >>)

\* An item, scrubbed.
NewItem(it) == [kind |-> it.kind, payload |-> RedactPayload(it.kind, it.payload)]

\* What is returned for a context and the items the loop has put together.
Returned(c, items) ==
    IF c.form = "items" THEN Context("items", With(c.map, "redacted", Flag), items)
    ELSE Context("map", IF c.form = "nil" THEN Marker
                        ELSE With(RedactMap(c.map), "redacted", Flag), << >>)

RedactType ==
    /\ WellFormed(ctx)
    /\ pass \in {1, 2}
    /\ stage \in {"items", "done"}
    /\ past \in 0..Len(ctx.items)
    /\ newItems \in Seq(Item) /\ from \in Seq(Nat) /\ Len(from) = Len(newItems)

\* The loop has put together the items it came past, scrubbed, in their order.
LoopInv ==
    /\ \A i \in DOMAIN from : from[i] \in 1..past
    /\ \A i, j \in DOMAIN from : i < j => from[i] < from[j]
    /\ \A k \in 1..past : ctx.items[k].kind # "none" => \E i \in DOMAIN from : from[i] = k
    /\ \A i \in DOMAIN from : /\ ctx.items[from[i]].kind # "none"
                              /\ newItems[i] = NewItem(ctx.items[from[i]])

\* The second time it keeps each of them.
AgainInv ==
    pass = 2 => Scrubbed(ctx) /\ Len(from) = past /\ \A i \in DOMAIN from : from[i] = i

RedactInv ==
    /\ RedactType /\ LoopInv /\ AgainInv
    /\ stage = "done" => past = Len(ctx.items) /\ out = Returned(ctx, newItems)

\* What is returned is a context that was scrubbed.
LEMMA ReturnedFacts ==
    ASSUME RedactInv, stage = "done"
    PROVE  WellFormed(out) /\ Scrubbed(out)
<1>1. out = Returned(ctx, newItems) /\ WellFormed(ctx) /\ newItems \in Seq(Item)
  BY DEF RedactInv, RedactType
<1>2. ctx.map \in Map /\ ctx.form \in {"nil", "map", "items"}
  BY <1>1 DEF WellFormed, Forms
<1>3. CASE ctx.form = "items"
  <2>1. out = Context("items", With(ctx.map, "redacted", Flag), newItems)
    BY <1>1, <1>3 DEF Returned
  <2>2. out.form = "items" /\ out.map = With(ctx.map, "redacted", Flag) /\ out.items = newItems
    BY <2>1 DEF Context
  <2>3. With(ctx.map, "redacted", Flag) \in Map
    BY <1>2, WithFacts
  <2>4. out \in Forms
    BY <1>1, <2>1, <2>3 DEF Forms, Context
  <2>5. out.map = With(out.map, "redacted", Flag)
    BY <1>2, <2>2, FlagTwice
  <2>6. ASSUME NEW i \in DOMAIN newItems
        PROVE  /\ newItems[i].kind # "none"
               /\ newItems[i].payload = RedactPayload(newItems[i].kind, newItems[i].payload)
    <3>1. i \in DOMAIN from
      BY <1>1, <2>6 DEF RedactInv, RedactType
    <3>2. PICK it : it = ctx.items[from[i]]
      OBVIOUS
    <3>3. it.kind # "none" /\ newItems[i] = NewItem(it) /\ from[i] \in 1..past
      BY <3>1, <3>2 DEF RedactInv, LoopInv
    <3>4. it \in Item
      <4>1. ctx.items \in Seq(Item) /\ past \in 0..Len(ctx.items)
        BY <1>1 DEF WellFormed, Forms, RedactInv, RedactType
      <4> QED
        BY <3>2, <3>3, <4>1
    <3>5. it.payload \in Map \cup Values
      BY <3>4 DEF Item
    <3>6. RedactPayload(it.kind, RedactPayload(it.kind, it.payload)) = RedactPayload(it.kind, it.payload)
      BY <3>5, PayloadFacts
    <3> QED
      BY <3>3, <3>6 DEF NewItem
  <2> QED
    BY <2>2, <2>4, <2>5, <2>6 DEF WellFormed, Scrubbed
<1>4. CASE ctx.form # "items"
  <2>1. PICK m : m = IF ctx.form = "nil" THEN Marker ELSE With(RedactMap(ctx.map), "redacted", Flag)
    OBVIOUS
  <2>2. out = Context("map", m, << >>)
    BY <1>1, <1>4, <2>1 DEF Returned
  <2>3. out.form = "map" /\ out.map = m /\ out.items = << >>
    BY <2>2 DEF Context
  <2>4. m \in Map /\ With(RedactMap(m), "redacted", Flag) = m
    BY <1>2, <2>1, MarkerFacts, FieldsFacts
  <2>5. << >> \in Seq(Item) /\ DOMAIN << >> = {}
    OBVIOUS
  <2>6. out \in Forms
    BY <2>2, <2>4, <2>5 DEF Forms, Context
  <2> QED
    BY <2>3, <2>4, <2>5, <2>6 DEF WellFormed, Scrubbed
<1> QED
  BY <1>3, <1>4

\* The loop goes past one item.
LEMMA ItemStep ==
    ASSUME RedactInv, RedactItem
    PROVE  RedactInv'
<1>1. /\ stage = "items" /\ ctx.form = "items" /\ past < Len(ctx.items) /\ past' = past + 1
      /\ UNCHANGED <<ctx, pass, stage, out>>
  BY DEF RedactItem
<1>2. PICK it : it = ctx.items[past + 1]
  OBVIOUS
<1>3. /\ WellFormed(ctx) /\ ctx.items \in Seq(Item) /\ past \in 0..Len(ctx.items)
      /\ newItems \in Seq(Item) /\ from \in Seq(Nat) /\ Len(from) = Len(newItems)
      /\ pass \in {1, 2}
  BY DEF RedactInv, RedactType, WellFormed, Forms
<1>4. /\ past \in Nat /\ past' \in 0..Len(ctx.items) /\ past + 1 \in 1..Len(ctx.items)
      /\ Len(ctx.items) \in Nat
  BY <1>1, <1>3
<1>5. it \in Item
  BY <1>2, <1>3, <1>4
<1>6. /\ \A i \in DOMAIN from : from[i] \in 1..past
      /\ \A i, j \in DOMAIN from : i < j => from[i] < from[j]
      /\ \A k \in 1..past : ctx.items[k].kind # "none" => \E i \in DOMAIN from : from[i] = k
      /\ \A i \in DOMAIN from : /\ ctx.items[from[i]].kind # "none"
                                /\ newItems[i] = NewItem(ctx.items[from[i]])
  BY DEF RedactInv, LoopInv
<1>7. pass = 2 => Scrubbed(ctx) /\ Len(from) = past /\ \A i \in DOMAIN from : from[i] = i
  BY DEF RedactInv, AgainInv
<1>8. CASE it.kind = "none" /\ UNCHANGED <<newItems, from>>
  <2>1. pass # 2
    <3>1. past + 1 \in DOMAIN ctx.items
      BY <1>3, <1>4
    <3> QED
      BY <1>2, <1>7, <1>8, <3>1 DEF Scrubbed
  <2>2. RedactType'
    BY <1>1, <1>3, <1>4, <1>8 DEF RedactType
  <2>3. \A k \in 1..(past + 1) : k \in 1..past \/ k = past + 1
    BY <1>4
  <2>4. LoopInv'
    <3>1. \A i \in DOMAIN from : from[i] \in 1..(past + 1)
      BY <1>4, <1>6
    <3> QED
      BY <1>1, <1>2, <1>6, <1>8, <2>3, <3>1 DEF LoopInv
  <2> QED
    BY <1>1, <2>1, <2>2, <2>4 DEF RedactInv, AgainInv
<1>9. CASE /\ it.kind # "none"
           /\ newItems' = Append(newItems, [it EXCEPT !.payload = RedactPayload(it.kind, it.payload)])
           /\ from' = Append(from, past + 1)
  <2>1. [it EXCEPT !.payload = RedactPayload(it.kind, it.payload)] = NewItem(it)
    BY <1>5 DEF Item, NewItem
  <2>2. NewItem(it) \in Item
    <3>1. it.payload \in Map \cup Values
      BY <1>5 DEF Item
    <3>2. RedactPayload(it.kind, it.payload) \in Map
      BY <3>1, PayloadFacts
    <3> QED
      BY <1>5, <3>2 DEF Item, NewItem
  <2>3. PICK n : n = Len(from)
    OBVIOUS
  <2>4. n \in Nat /\ DOMAIN from = 1..n /\ DOMAIN newItems = 1..n
    BY <1>3, <2>3
  <2>5. /\ from' \in Seq(Nat) /\ Len(from') = n + 1 /\ DOMAIN from' = 1..(n + 1)
        /\ from'[n + 1] = past + 1 /\ \A i \in 1..n : from'[i] = from[i]
    BY <1>3, <1>4, <1>9, <2>3
  <2>6. PICK x : x = NewItem(it)
    OBVIOUS
  <2>7. newItems' = Append(newItems, x) /\ x \in Item
    BY <1>9, <2>1, <2>2, <2>6
  <2>8. /\ newItems' \in Seq(Item) /\ Len(newItems') = n + 1
        /\ newItems'[n + 1] = x /\ \A i \in 1..n : newItems'[i] = newItems[i]
    BY <1>3, <2>3, <2>7
  <2>9. RedactType'
    BY <1>1, <1>3, <1>4, <2>5, <2>8 DEF RedactType
  <2>10. \A i \in 1..(n + 1) : i \in 1..n \/ i = n + 1
    BY <2>4
  <2>11. \A i \in DOMAIN from' : from'[i] \in 1..past'
    <3>1. \A i \in 1..n : from[i] \in 1..(past + 1)
      BY <1>4, <1>6, <2>4
    <3> QED
      BY <1>1, <1>4, <2>5, <2>10, <3>1
  <2>12. ASSUME NEW i \in DOMAIN from', NEW j \in DOMAIN from', i < j PROVE from'[i] < from'[j]
    <3>1. i \in 1..n
      BY <2>4, <2>5, <2>12
    <3>2. CASE j \in 1..n
      BY <1>6, <2>4, <2>5, <2>12, <3>1, <3>2
    <3>3. CASE j = n + 1
      <4>1. from[i] \in 1..past
        BY <1>6, <2>4, <3>1
      <4>2. from[i] < past + 1
        BY <1>4, <4>1
      <4> QED
        BY <2>5, <3>1, <3>3, <4>2
    <3> QED
      BY <2>5, <2>10, <3>2, <3>3
  <2>13. ASSUME NEW k \in 1..past', ctx.items[k].kind # "none"
         PROVE  \E i \in DOMAIN from' : from'[i] = k
    <3>1. CASE k \in 1..past
      <4>1. PICK i \in DOMAIN from : from[i] = k
        BY <1>6, <2>13, <3>1
      <4>2. i \in 1..n /\ i \in 1..(n + 1)
        BY <2>4, <4>1
      <4> QED
        BY <2>5, <4>1, <4>2
    <3>2. CASE k = past + 1
      <4>1. n + 1 \in 1..(n + 1)
        BY <2>4
      <4> QED
        BY <2>5, <3>2, <4>1
    <3> QED
      BY <1>1, <1>4, <3>1, <3>2
  <2>14. ASSUME NEW i \in DOMAIN from'
         PROVE  /\ ctx.items[from'[i]].kind # "none"
                /\ newItems'[i] = NewItem(ctx.items[from'[i]])
    <3>1. CASE i \in 1..n
      BY <1>6, <2>4, <2>5, <2>8, <3>1
    <3>2. CASE i = n + 1
      BY <1>2, <1>9, <2>5, <2>6, <2>8, <3>2
    <3> QED
      BY <2>5, <2>10, <3>1, <3>2
  <2>15. LoopInv'
    BY <1>1, <2>11, <2>12, <2>13, <2>14 DEF LoopInv
  <2>16. AgainInv'
    <3> SUFFICES ASSUME pass = 2
                 PROVE  Scrubbed(ctx) /\ Len(from') = past' /\ \A i \in DOMAIN from' : from'[i] = i
      BY <1>1 DEF AgainInv
    <3>1. Scrubbed(ctx) /\ n = past /\ \A i \in DOMAIN from : from[i] = i
      BY <1>7, <2>3
    <3> QED
      BY <1>1, <2>4, <2>5, <2>10, <3>1
  <2> QED
    BY <1>1, <2>9, <2>15, <2>16 DEF RedactInv
<1> QED
  BY <1>2, <1>8, <1>9 DEF RedactItem

\* The loop begins.
LEMMA LoopBegins ==
    ASSUME NEW c, WellFormed(c), ctx = c, past = 0, newItems = << >>, from = << >>,
           pass \in {1, 2}, stage = "items", pass = 2 => Scrubbed(c)
    PROVE  RedactInv
<1>1. Len(c.items) \in Nat /\ 0 \in 0..Len(c.items)
  <2>1. c.items \in Seq(Item)
    BY DEF WellFormed, Forms
  <2> QED
    BY <2>1
<1>2. << >> \in Seq(Item) /\ << >> \in Seq(Nat) /\ Len(<< >>) = 0 /\ DOMAIN << >> = {} /\ 1..0 = {}
  OBVIOUS
<1>3. RedactType
  BY <1>1, <1>2 DEF RedactType
<1>4. LoopInv
  BY <1>2 DEF LoopInv
<1>5. AgainInv
  BY <1>2 DEF AgainInv
<1> QED
  BY <1>3, <1>4, <1>5 DEF RedactInv

LEMMA RedactStep ==
    ASSUME RedactInv, [RedactNext]_redactVars
    PROVE  RedactInv'
<1>1. CASE RedactFields
  <2>1. /\ stage = "items" /\ ctx.form # "items" /\ stage' = "done"
        /\ out' = Returned(ctx, newItems) /\ UNCHANGED <<ctx, pass, newItems, from, past>>
    BY <1>1 DEF RedactFields, Returned
  <2>2. past = Len(ctx.items)
    <3>1. ctx.items = << >> /\ past \in 0..Len(ctx.items)
      BY <2>1 DEF RedactInv, RedactType, WellFormed
    <3>2. Len(<< >>) = 0
      OBVIOUS
    <3> QED
      BY <3>1, <3>2
  <2> QED
    BY <2>1, <2>2 DEF RedactInv, RedactType, LoopInv, AgainInv
<1>2. CASE RedactItem
  BY <1>2, ItemStep
<1>3. CASE ReturnItems
  <2>1. /\ stage' = "done" /\ past = Len(ctx.items)
        /\ out' = Returned(ctx, newItems) /\ UNCHANGED <<ctx, pass, newItems, from, past>>
    BY <1>3 DEF ReturnItems, Returned
  <2> QED
    BY <2>1 DEF RedactInv, RedactType, LoopInv, AgainInv
<1>4. CASE RedactAgain
  <2>1. /\ stage = "done" /\ ctx' = out /\ pass' = 2 /\ stage' = "items"
        /\ newItems' = << >> /\ from' = << >> /\ past' = 0
    BY <1>4 DEF RedactAgain
  <2>2. WellFormed(out) /\ Scrubbed(out)
    BY <2>1, ReturnedFacts
  <2>3. Len(out.items) \in Nat /\ 0 \in 0..Len(out.items)
    <3>1. out.items \in Seq(Item)
      BY <2>2 DEF WellFormed, Forms
    <3> QED
      BY <3>1
  <2>4. << >> \in Seq(Item) /\ << >> \in Seq(Nat) /\ Len(<< >>) = 0 /\ DOMAIN << >> = {} /\ 1..0 = {}
    OBVIOUS
  <2>5. RedactType'
    BY <2>1, <2>2, <2>3, <2>4 DEF RedactType
  <2>6. LoopInv'
    BY <2>1, <2>4 DEF LoopInv
  <2>7. AgainInv'
    BY <2>1, <2>2, <2>4 DEF AgainInv
  <2> QED
    BY <2>1, <2>5, <2>6, <2>7 DEF RedactInv
<1>5. CASE UNCHANGED redactVars
  BY <1>5 DEF redactVars, RedactInv, RedactType, LoopInv, AgainInv
<1> QED
  BY <1>1, <1>2, <1>3, <1>4, <1>5 DEF RedactNext

\* The loop over the items keeps each of them in its place.
THEOREM RedactInvariant == RedactSpec => []RedactInv
<1>1. ASSUME RedactInit PROVE RedactInv
  <2>1. ctx \in Contexts /\ RedactStart
    BY <1>1 DEF RedactInit
  <2>2. WellFormed(ctx)
    BY <2>1, ContextForms DEF WellFormed
  <2> QED
    BY <2>1, <2>2, LoopBegins DEF RedactStart
<1> QED
  BY <1>1, RedactStep, PTL DEF RedactSpec

\* redact.go (R08): no secret is left in a scrubbed context, for values nested
\* to any depth and any number of items, nothing else is changed, and scrubbing
\* again changes nothing.
THEOREM NoSecretLeaves == RedactSpec => []SecretsRedacted
<1>1. ASSUME RedactInv PROVE SecretsRedacted
  <2> SUFFICES ASSUME stage = "done"
               PROVE  /\ out.form = "map" => CleanMap(out.map)
                      /\ ctx.form = "map" =>
                            OnlySecretsGoneInMap(With(ctx.map, "redacted", Flag), out.map)
                      /\ DOMAIN out.items = DOMAIN from
                      /\ \A i, j \in DOMAIN from : i < j => from[i] < from[j]
                      /\ {from[i] : i \in DOMAIN from}
                            = {i \in DOMAIN ctx.items : ctx.items[i].kind # "none"}
                      /\ \A i \in DOMAIN from :
                            LET it == ctx.items[from[i]]  new == out.items[i]
                            IN  /\ new.kind = it.kind /\ CleanMap(new.payload)
                                /\ IF it.kind # "THOUGHT" /\ it.payload.tag = "map"
                                   THEN OnlySecretsGoneInMap(it.payload, new.payload)
                                   ELSE new.payload = Marker
                      /\ pass = 2 => out = ctx
    BY DEF SecretsRedacted
  <2>1. out = Returned(ctx, newItems) /\ past = Len(ctx.items)
    BY <1>1 DEF RedactInv
  <2>2. /\ ctx \in Forms /\ ctx.map \in Map /\ ctx.items \in Seq(Item)
        /\ ctx.form \in {"nil", "map", "items"} /\ (ctx.form # "items" => ctx.items = << >>)
        /\ newItems \in Seq(Item) /\ from \in Seq(Nat) /\ Len(from) = Len(newItems)
    BY <1>1 DEF RedactInv, RedactType, WellFormed, Forms
  <2>3. DOMAIN ctx.items = 1..past /\ past \in Nat
    BY <2>1, <2>2
  <2>4. /\ \A i \in DOMAIN from : from[i] \in 1..past
        /\ \A i, j \in DOMAIN from : i < j => from[i] < from[j]
        /\ \A k \in 1..past : ctx.items[k].kind # "none" => \E i \in DOMAIN from : from[i] = k
        /\ \A i \in DOMAIN from : /\ ctx.items[from[i]].kind # "none"
                                  /\ newItems[i] = NewItem(ctx.items[from[i]])
    BY <1>1 DEF RedactInv, LoopInv
  <2>5. {from[i] : i \in DOMAIN from} = {i \in DOMAIN ctx.items : ctx.items[i].kind # "none"}
    BY <2>3, <2>4
  <2>6. out.items = newItems
    <3>1. CASE ctx.form = "items"
      BY <2>1, <3>1 DEF Returned, Context
    <3>2. CASE ctx.form # "items"
      <4>1. past = 0
        BY <2>1, <2>2, <3>2
      <4>2. DOMAIN from = {}
        BY <2>4, <4>1
      <4>3. newItems = << >>
        BY <2>2, <4>2
      <4> QED
        BY <2>1, <3>2, <4>3 DEF Returned, Context
    <3> QED
      BY <3>1, <3>2
  <2>7. DOMAIN out.items = DOMAIN from
    BY <2>2, <2>6
  <2>8. ASSUME NEW i \in DOMAIN from, NEW it, it = ctx.items[from[i]], NEW new, new = out.items[i]
        PROVE  /\ new.kind = it.kind /\ CleanMap(new.payload)
               /\ IF it.kind # "THOUGHT" /\ it.payload.tag = "map"
                  THEN OnlySecretsGoneInMap(it.payload, new.payload)
                  ELSE new.payload = Marker
    <3>1. new = NewItem(it) /\ from[i] \in DOMAIN ctx.items
      BY <2>3, <2>4, <2>6, <2>8
    <3>2. it \in Item
      BY <2>2, <2>8, <3>1
    <3>3. it.payload \in Map \cup Values
      BY <3>2 DEF Item
    <3>4. new.kind = it.kind /\ new.payload = RedactPayload(it.kind, it.payload)
      BY <3>1 DEF NewItem
    <3> QED
      BY <3>3, <3>4, PayloadFacts
  <2>9. out.form = "map" => CleanMap(out.map)
    <3>1. CASE ctx.form = "items"
      BY <2>1, <3>1 DEF Returned, Context
    <3>2. CASE ctx.form = "nil"
      BY <2>1, <3>2, MarkerFacts DEF Returned, Context
    <3>3. CASE ctx.form = "map"
      <4>1. out.map = With(RedactMap(ctx.map), "redacted", Flag)
        BY <2>1, <3>3 DEF Returned, Context
      <4> QED
        BY <2>2, <4>1, FieldsFacts
    <3> QED
      BY <2>2, <3>1, <3>2, <3>3
  <2>10. ctx.form = "map" => OnlySecretsGoneInMap(With(ctx.map, "redacted", Flag), out.map)
    <3>1. ctx.form = "map" => out.map = With(RedactMap(ctx.map), "redacted", Flag)
      BY <2>1 DEF Returned, Context
    <3> QED
      BY <2>2, <3>1, FieldsFacts
  <2>11. ASSUME pass = 2 PROVE out = ctx
    <3>1. Scrubbed(ctx) /\ Len(from) = past /\ \A i \in DOMAIN from : from[i] = i
      BY <1>1, <2>11 DEF RedactInv, AgainInv
    <3>2. ctx = Context(ctx.form, ctx.map, ctx.items)
      BY <2>2 DEF Forms, Context
    <3>3. CASE ctx.form = "map"
      <4>1. out = Context("map", ctx.map, << >>) /\ ctx.items = << >>
        BY <2>1, <2>2, <3>1, <3>3 DEF Returned, Scrubbed
      <4> QED
        BY <3>2, <3>3, <4>1
    <3>4. CASE ctx.form = "items"
      <4>1. \A i \in 1..past : newItems[i] = ctx.items[i]
        <5>1. ASSUME NEW i \in 1..past PROVE newItems[i] = ctx.items[i]
          <6>1. i \in DOMAIN from /\ from[i] = i /\ i \in DOMAIN ctx.items
            BY <2>2, <2>3, <3>1
          <6>2. newItems[i] = NewItem(ctx.items[i])
            BY <2>4, <6>1
          <6>3. ctx.items[i].payload = RedactPayload(ctx.items[i].kind, ctx.items[i].payload)
            BY <3>1, <6>1 DEF Scrubbed
          <6>4. ctx.items[i] \in Item
            BY <2>2, <6>1
          <6>5. ctx.items[i] = [kind |-> ctx.items[i].kind, payload |-> ctx.items[i].payload]
            BY <6>4 DEF Item
          <6> QED
            BY <6>2, <6>3, <6>5 DEF NewItem
        <5> QED
          BY <5>1
      <4>2. newItems = ctx.items
        <5>1. Len(newItems) = past /\ Len(ctx.items) = past
          BY <2>1, <2>2, <3>1
        <5> QED
          BY <2>2, <4>1, <5>1
      <4>3. out = Context("items", ctx.map, newItems)
        BY <2>1, <3>1, <3>4 DEF Returned, Scrubbed
      <4> QED
        BY <3>2, <3>4, <4>2, <4>3
    <3> QED
      BY <3>1, <3>3, <3>4 DEF Scrubbed
  <2> QED
    BY <2>4, <2>5, <2>7, <2>8, <2>9, <2>10, <2>11
<1> QED
  BY <1>1, RedactInvariant, PTL


----------------------------------------------------------------------------
(* Where paths lead: a path is followed name by name.                      *)

\* What SubSeq takes from the front of a sequence.
LEMMA PrefixFacts ==
    ASSUME NEW S, NEW p \in Seq(S), NEW i \in 0..Len(p)
    PROVE  /\ SubSeq(p, 1, i) \in Seq(S) /\ Len(SubSeq(p, 1, i)) = i
           /\ \A j \in 1..i : SubSeq(p, 1, i)[j] = p[j]
<1>1. Len(p) \in Nat /\ \A j \in 1..i : p[j] \in S
  BY LenProperties, ElementOfSeq
<1>2. i \in Nat /\ (1 <= i \/ i = 0)
  BY <1>1
<1> QED
  BY <1>1, <1>2, SubSeqProperties

\* The front of a front is a front.
LEMMA PrefixOfPrefix ==
    ASSUME NEW S, NEW p \in Seq(S), NEW i \in 0..Len(p), NEW j \in 0..i
    PROVE  SubSeq(SubSeq(p, 1, i), 1, j) = SubSeq(p, 1, j)
<1>1. Len(p) \in Nat /\ i \in Nat /\ j \in Nat /\ j \in 0..Len(p)
  BY LenProperties
<1> DEFINE q == SubSeq(p, 1, i)
<1>2. q \in Seq(S) /\ Len(q) = i /\ \A k \in 1..i : q[k] = p[k]
  BY PrefixFacts
<1> HIDE DEF q
<1>3. SubSeq(q, 1, j) \in Seq(S) /\ Len(SubSeq(q, 1, j)) = j /\ \A k \in 1..j : SubSeq(q, 1, j)[k] = q[k]
  BY <1>2, PrefixFacts
<1>4. SubSeq(p, 1, j) \in Seq(S) /\ Len(SubSeq(p, 1, j)) = j /\ \A k \in 1..j : SubSeq(p, 1, j)[k] = p[k]
  BY <1>1, PrefixFacts
<1>5. \A k \in 1..j : SubSeq(q, 1, j)[k] = SubSeq(p, 1, j)[k]
  BY <1>1, <1>2, <1>3, <1>4
<1>6. SubSeq(q, 1, j) = SubSeq(p, 1, j)
  BY <1>3, <1>4, <1>5, SeqEqual
<1> QED
  BY <1>6 DEF q

\* A sequence is its front and its last element.
LEMMA FrontFacts ==
    ASSUME NEW S, NEW p \in Seq(S), p # << >>
    PROVE  /\ Len(p) \in Nat /\ Len(p) >= 1
           /\ Front(p) \in Seq(S) /\ Len(Front(p)) = Len(p) - 1
           /\ \A j \in 1..(Len(p) - 1) : Front(p)[j] = p[j]
           /\ Last(p) \in S /\ Last(p) = p[Len(p)]
           /\ Append(Front(p), Last(p)) = p
<1>1. Len(p) \in Nat /\ Len(p) >= 1
  BY EmptySeq
<1>2. Front(p) \in Seq(S) /\ Len(Front(p)) = Len(p) - 1 /\ \A j \in 1..(Len(p) - 1) : Front(p)[j] = p[j]
  <2>1. Len(p) - 1 \in 0..Len(p)
    BY <1>1
  <2> QED
    BY <2>1, PrefixFacts DEF Front
<1>3. Last(p) \in S /\ Last(p) = p[Len(p)]
  BY <1>1, ElementOfSeq DEF Last
<1> DEFINE a == Append(Front(p), Last(p))
<1>4. /\ a \in Seq(S) /\ Len(a) = Len(p)
      /\ \A j \in 1..(Len(p) - 1) : a[j] = Front(p)[j]
      /\ a[Len(p)] = Last(p)
  <2>1. /\ a \in Seq(S) /\ Len(a) = Len(Front(p)) + 1
        /\ \A j \in 1..Len(Front(p)) : a[j] = Front(p)[j]
        /\ a[Len(Front(p)) + 1] = Last(p)
    BY <1>2, <1>3, AppendProperties
  <2> HIDE DEF a
  <2> QED
    BY <1>1, <1>2, <2>1
<1> HIDE DEF a
<1>5. \A j \in 1..Len(p) : a[j] = p[j]
  <2>1. \A j \in 1..Len(p) : j \in 1..(Len(p) - 1) \/ j = Len(p)
    BY <1>1
  <2> QED
    BY <1>2, <1>3, <1>4, <2>1
<1>6. a = p
  BY <1>4, <1>5, SeqEqual
<1> QED
  BY <1>1, <1>2, <1>3, <1>6 DEF a

\* And appending is undone by Front and Last.
LEMMA AppendFacts ==
    ASSUME NEW S, NEW d \in Seq(S), NEW n \in S
    PROVE  /\ Append(d, n) \in Seq(S) /\ Append(d, n) # << >> /\ Len(Append(d, n)) = Len(d) + 1
           /\ Front(Append(d, n)) = d /\ Last(Append(d, n)) = n
<1> DEFINE a == Append(d, n)
<1>1. a \in Seq(S) /\ a # << >> /\ Len(a) = Len(d) + 1
  BY AppendProperties
<1>2. Append(Front(a), Last(a)) = a /\ Front(a) \in Seq(S) /\ Last(a) \in S
  BY <1>1, FrontFacts
<1>3. Front(a) = d /\ Last(a) = n
  <2> PICK f, l : f = Front(a) /\ l = Last(a)
    OBVIOUS
  <2>1. f \in Seq(S) /\ l \in S /\ Append(f, l) = Append(d, n)
    BY <1>2
  <2>2. f = d /\ l = n
    BY <2>1, AppendInjective
  <2> QED
    BY <2>2
<1> QED
  BY <1>1, <1>3

\* The parent of a path that begins p begins p too.
LEMMA FrontOfPrefix ==
    ASSUME NEW S, NEW p \in Seq(S), NEW i \in 1..Len(p)
    PROVE  /\ SubSeq(p, 1, i) # << >>
           /\ Front(SubSeq(p, 1, i)) = SubSeq(p, 1, i - 1) /\ Last(SubSeq(p, 1, i)) = p[i]
<1>1. Len(p) \in Nat /\ i \in Nat /\ i >= 1 /\ i \in 0..Len(p) /\ i - 1 \in 0..i /\ i \in 1..i
  BY LenProperties
<1>2. Len(SubSeq(p, 1, i)) = i /\ SubSeq(p, 1, i)[i] = p[i]
  BY <1>1, PrefixFacts
<1>3. Front(SubSeq(p, 1, i)) = SubSeq(p, 1, i - 1)
  BY <1>1, <1>2, PrefixOfPrefix DEF Front
<1>4. SubSeq(p, 1, i) # << >>
  BY <1>1, <1>2, EmptySeq
<1> QED
  BY <1>2, <1>3, <1>4 DEF Last

\* The steps of a path that is followed.
Steps(t, p) ==
    {g \in [0..Len(p) -> Real(t) \cup {Nowhere}] :
        g[0] = << >> /\ \A i \in 1..Len(p) : g[i] = Entry(t, g[i - 1], p[i])}

\* Where an entry leads is no link.
LEMMA EntryIsReal ==
    ASSUME NEW t \in FileTrees, NEW d, NEW n
    PROVE  Entry(t, d, n) \in Real(t) \cup {Nowhere}
  BY TreesAssumption DEF Entry, Real

\* What is no link is a path, in a directory, and never the error.
LEMMA RealFacts ==
    ASSUME NEW t \in FileTrees
    PROVE  /\ Real(t) \subseteq Seq(Name) /\ << >> \in Real(t) /\ Nowhere \notin Seq(Name)
           /\ \A q \in Real(t) : q # << >> => q \in DOMAIN t /\ t[q].kind \in {"dir", "file"}
           /\ \A q \in DOMAIN t : q \in Seq(Name) /\ q # << >> /\ IsDir(t, Front(q))
           /\ \A q : IsDir(t, q) => q \in Real(t)
<1>1. Nowhere \notin Seq(Name)
  <2> SUFFICES ASSUME Nowhere \in Seq(Name) PROVE FALSE
    OBVIOUS
  <2>1. Len(Nowhere) = 1 /\ Nowhere[1] = "?"
    BY DEF Nowhere
  <2>2. "?" \in Name
    BY <2>1, ElementOfSeq
  <2> QED
    BY <2>2, NamesAssumption
<1>2. << >> \in Seq(Name)
  BY EmptySeq
<1>3. \A q \in DOMAIN t : /\ q \in Seq(Name) /\ q # << >> /\ IsDir(t, Front(q))
                           /\ t[q].kind \in {"dir", "file", "link"}
  BY TreesAssumption
<1>4. \A q \in Real(t) : q = << >> \/ (q \in DOMAIN t /\ t[q].kind # "link")
  BY DEF Real
<1>5. Real(t) \subseteq Seq(Name)
  BY <1>2, <1>3, <1>4
<1>6. << >> \in Real(t) /\ \A q : IsDir(t, q) => q \in Real(t)
  BY DEF Real, IsDir
<1>7. \A q \in Real(t) : q # << >> => q \in DOMAIN t /\ t[q].kind \in {"dir", "file"}
  BY <1>3, <1>4
<1> QED
  BY <1>1, <1>3, <1>5, <1>6, <1>7

\* Every path can be followed to its end.
LEMMA StepsExist ==
    ASSUME NEW t \in FileTrees, NEW p \in Seq(Name)
    PROVE  Steps(t, p) # {}
<1> DEFINE R == Real(t) \cup {Nowhere}
           Upto(m) == {g \in [0..m -> R] : g[0] = << >> /\ \A i \in 1..m : g[i] = Entry(t, g[i - 1], p[i])}
           Bad == {m \in 0..Len(p) : Upto(m) = {}}
<1>1. Len(p) \in Nat /\ << >> \in R
  BY LenProperties, RealFacts
<1>2. CASE Bad = {}
  <2>1. Upto(Len(p)) # {}
    BY <1>1, <1>2
  <2> QED
    BY <2>1 DEF Steps
<1>3. CASE Bad # {}
  <2>1. PICK m \in Bad : \A y \in Bad : m <= y
    <3>1. Bad \subseteq Nat
      BY <1>1
    <3> HIDE DEF Bad
    <3> QED
      BY <1>3, <3>1, LeastNat
  <2>2. m \in Nat /\ m <= Len(p) /\ Upto(m) = {}
    BY <1>1, <2>1
  <2>3. m # 0
    <3> SUFFICES ASSUME m = 0 PROVE FALSE
      OBVIOUS
    <3> DEFINE g == [i \in 0..0 |-> << >>]
    <3>1. g \in Upto(0)
      BY <1>1
    <3> QED
      BY <2>2, <3>1
  <2>4. m - 1 \in Nat /\ m - 1 \in 0..Len(p) /\ m - 1 \notin Bad
    <3>1. m - 1 \in Nat /\ m - 1 \in 0..Len(p) /\ ~(m <= m - 1)
      BY <1>1, <2>2, <2>3
    <3> HIDE DEF Bad
    <3> QED
      BY <2>1, <3>1
  <2>5. PICK g \in Upto(m - 1) : TRUE
    BY <2>4
  <2> DEFINE e == Entry(t, g[m - 1], p[m])
             h == [i \in 0..m |-> IF i = m THEN e ELSE g[i]]
  <2>6. e \in R
    BY EntryIsReal
  <2>7. \A i \in 0..m : i # m => i \in 0..(m - 1) /\ g[i] \in R
    BY <2>2, <2>5
  <2>8. h \in [0..m -> R] /\ h[0] = << >>
    <3>1. 0 \in 0..m /\ g[0] = << >> /\ h[0] = g[0]
      BY <2>2, <2>3, <2>5
    <3> HIDE DEF e, R
    <3> QED
      BY <2>6, <2>7, <3>1
  <2>9. \A i \in 1..m : h[i] = Entry(t, h[i - 1], p[i])
    <3> SUFFICES ASSUME NEW i \in 1..m PROVE h[i] = Entry(t, h[i - 1], p[i])
      OBVIOUS
    <3>1. i \in 0..m /\ i - 1 \in 0..m /\ i - 1 # m /\ h[i - 1] = g[i - 1]
      BY <2>2
    <3>2. CASE i = m
      BY <3>1, <3>2
    <3>3. CASE i # m
      <4>1. i \in 1..(m - 1) /\ h[i] = g[i]
        BY <2>2, <3>1, <3>3
      <4>2. g[i] = Entry(t, g[i - 1], p[i])
        BY <2>5, <4>1
      <4> QED
        BY <3>1, <4>1, <4>2
    <3> QED
      BY <3>2, <3>3
  <2> HIDE DEF h
  <2>10. h \in Upto(m)
    BY <2>8, <2>9
  <2> QED
    BY <2>2, <2>10
<1> QED
  BY <1>2, <1>3

\* EvalSymlinks is the last of those steps.
LEMMA EvalIsLastStep ==
    ASSUME NEW t \in FileTrees, NEW p \in Seq(Name)
    PROVE  \E g \in Steps(t, p) : EvalSymlinks(t, p) = g[Len(p)]
<1> DEFINE IsTrace(h) == h = [i \in 0..Len(p) |-> IF i = 0 THEN << >> ELSE Entry(t, h[i - 1], p[i])]
           f == CHOOSE h : IsTrace(h)
<1>1. Len(p) \in Nat
  BY LenProperties
<1>2. PICK g \in Steps(t, p) : TRUE
  BY StepsExist
<1>3. IsTrace(g)
  <2>1. /\ g \in [0..Len(p) -> Real(t) \cup {Nowhere}] /\ g[0] = << >>
        /\ \A i \in 1..Len(p) : g[i] = Entry(t, g[i - 1], p[i])
    BY <1>2 DEF Steps
  <2>2. \A i \in 0..Len(p) : i = 0 \/ i \in 1..Len(p)
    BY <1>1
  <2>3. \A i \in 0..Len(p) : g[i] = IF i = 0 THEN << >> ELSE Entry(t, g[i - 1], p[i])
    BY <2>1, <2>2
  <2>4. g = [i \in 0..Len(p) |-> g[i]]
    BY <2>1
  <2> QED
    BY <2>3, <2>4
<1>4. IsTrace(f)
  BY <1>3
<1>5. EvalSymlinks(t, p) = f[Len(p)]
  BY DEF EvalSymlinks
<1> HIDE DEF f
<1>6. f \in Steps(t, p)
  <2>1. DOMAIN f = 0..Len(p) /\ f = [i \in 0..Len(p) |-> f[i]]
    BY <1>4
  <2>2. f[0] = << >> /\ \A i \in 1..Len(p) : f[i] = Entry(t, f[i - 1], p[i])
    BY <1>1, <1>4
  <2>3. \A i \in 0..Len(p) : i = 0 \/ i \in 1..Len(p)
    BY <1>1
  <2>4. \A i \in 0..Len(p) : f[i] \in Real(t) \cup {Nowhere}
    BY <2>2, <2>3, EntryIsReal, RealFacts
  <2> QED
    BY <2>1, <2>2, <2>4 DEF Steps
<1> QED
  BY <1>5, <1>6

\* The steps of a path and of one that begins it are the same.
LEMMA StepsAgree ==
    ASSUME NEW t, NEW p, NEW q, Len(p) \in Nat, Len(q) \in Nat, Len(q) <= Len(p),
           \A i \in 1..Len(q) : q[i] = p[i], NEW g \in Steps(t, p), NEW h \in Steps(t, q)
    PROVE  \A i \in 0..Len(q) : h[i] = g[i]
<1> DEFINE Bad == {i \in 0..Len(q) : h[i] # g[i]}
<1>1. SUFFICES ASSUME Bad # {} PROVE FALSE
  OBVIOUS
<1>2. PICK m \in Bad : \A y \in Bad : m <= y
  <2>1. Bad \subseteq Nat
    OBVIOUS
  <2> HIDE DEF Bad
  <2> QED
    BY <1>1, <2>1, LeastNat
<1>3. m \in Nat /\ m <= Len(q) /\ h[m] # g[m]
  BY <1>2
<1>4. m # 0
  BY <1>3 DEF Steps
<1>5. m - 1 \in 0..Len(q) /\ m \in 1..Len(q) /\ m \in 1..Len(p) /\ ~(m <= m - 1)
  BY <1>3, <1>4
<1>6. h[m - 1] = g[m - 1]
  <2>1. m - 1 \notin Bad
    <3> HIDE DEF Bad
    <3> QED
      BY <1>2, <1>5
  <2> QED
    BY <1>5, <2>1
<1>7. h[m] = Entry(t, h[m - 1], q[m]) /\ g[m] = Entry(t, g[m - 1], p[m]) /\ q[m] = p[m]
  BY <1>5 DEF Steps
<1> QED
  BY <1>3, <1>6, <1>7

\* A path is followed to its parent, and then one entry further.
LEMMA EvalStep ==
    ASSUME NEW t \in FileTrees, NEW p \in Seq(Name)
    PROVE  /\ EvalSymlinks(t, p) \in Real(t) \cup {Nowhere}
           /\ p = << >> => EvalSymlinks(t, p) = << >>
           /\ p # << >> => EvalSymlinks(t, p) = Entry(t, EvalSymlinks(t, Front(p)), Last(p))
<1>1. PICK g \in Steps(t, p) : EvalSymlinks(t, p) = g[Len(p)]
  BY EvalIsLastStep
<1>2. Len(p) \in Nat /\ Len(p) \in 0..Len(p)
  BY LenProperties
<1>3. EvalSymlinks(t, p) \in Real(t) \cup {Nowhere}
  BY <1>1, <1>2 DEF Steps
<1>4. ASSUME p = << >> PROVE EvalSymlinks(t, p) = << >>
  <2>1. Len(p) = 0
    BY <1>4
  <2> QED
    BY <1>1, <2>1 DEF Steps
<1>5. ASSUME p # << >> PROVE EvalSymlinks(t, p) = Entry(t, EvalSymlinks(t, Front(p)), Last(p))
  <2> PICK q : q = Front(p)
    OBVIOUS
  <2>1. /\ q \in Seq(Name) /\ Len(q) = Len(p) - 1 /\ Len(p) >= 1
        /\ \A j \in 1..Len(q) : q[j] = p[j]
    BY <1>5, FrontFacts
  <2>2. PICK h \in Steps(t, q) : EvalSymlinks(t, q) = h[Len(q)]
    BY <2>1, EvalIsLastStep
  <2>3. Len(q) \in Nat /\ Len(q) <= Len(p) /\ Len(q) \in 0..Len(q) /\ Len(p) \in 1..Len(p)
    BY <1>2, <2>1
  <2>4. h[Len(q)] = g[Len(p) - 1]
    BY <1>2, <2>1, <2>3, StepsAgree
  <2>5. g[Len(p)] = Entry(t, g[Len(p) - 1], p[Len(p)])
    BY <2>3 DEF Steps
  <2> QED
    BY <1>1, <2>2, <2>4, <2>5 DEF Last
<1> QED
  BY <1>3, <1>4, <1>5

\* What is no link leads to itself.
LEMMA RealIsItself ==
    ASSUME NEW t \in FileTrees, NEW q \in Real(t)
    PROVE  EvalSymlinks(t, q) = q
<1> DEFINE Odd == {r \in Real(t) : EvalSymlinks(t, r) # r}
           Lens == {Len(r) : r \in Odd}
<1>1. SUFFICES ASSUME Odd # {} PROVE FALSE
  OBVIOUS
<1>2. \A r \in Real(t) : r \in Seq(Name) /\ Len(r) \in Nat
  BY RealFacts, LenProperties
<1>3. PICK m \in Lens : \A y \in Lens : m <= y
  <2>1. Lens \subseteq Nat /\ Lens # {}
    BY <1>1, <1>2
  <2> HIDE DEF Lens
  <2> QED
    BY <2>1, LeastNat
<1>4. PICK r \in Odd : Len(r) = m
  BY <1>3
<1>5. r \in Real(t) /\ r \in Seq(Name) /\ EvalSymlinks(t, r) # r
  BY <1>2, <1>4
<1>6. r # << >>
  BY <1>5, EvalStep
<1>7. r \in DOMAIN t /\ t[r].kind \in {"dir", "file"} /\ Front(r) \in Real(t)
  BY <1>5, <1>6, RealFacts
<1>8. Len(Front(r)) = Len(r) - 1 /\ Len(r) \in Nat /\ Append(Front(r), Last(r)) = r
  BY <1>5, <1>6, FrontFacts
<1>9. EvalSymlinks(t, Front(r)) = Front(r)
  <2> SUFFICES ASSUME Front(r) \in Odd PROVE FALSE
    BY <1>7
  <2>1. Len(Front(r)) \in Lens
    OBVIOUS
  <2>2. m <= Len(Front(r))
    <3> HIDE DEF Lens
    <3> QED
      BY <1>3, <2>1
  <2> QED
    BY <1>4, <1>8, <2>2
<1>10. Front(r) # Nowhere
  BY <1>7, RealFacts
<1>11. EvalSymlinks(t, r) = Entry(t, Front(r), Last(r))
  BY <1>5, <1>6, <1>9, EvalStep
<1>12. Entry(t, Front(r), Last(r)) = r
  BY <1>7, <1>8, <1>10 DEF Entry
<1> QED
  BY <1>5, <1>11, <1>12

\* Below what leads nowhere every path leads nowhere.
LEMMA NowhereStays ==
    ASSUME NEW t \in FileTrees, NEW p \in Seq(Name), NEW i \in 0..Len(p),
           EvalSymlinks(t, SubSeq(p, 1, i)) = Nowhere
    PROVE  EvalSymlinks(t, p) = Nowhere
<1> DEFINE Ends == {j \in i..Len(p) : EvalSymlinks(t, SubSeq(p, 1, j)) # Nowhere}
<1>1. Len(p) \in Nat /\ i \in Nat
  BY LenProperties
<1>2. Ends = {}
  <2> SUFFICES ASSUME Ends # {} PROVE FALSE
    OBVIOUS
  <2>1. PICK m \in Ends : \A y \in Ends : m <= y
    <3>1. Ends \subseteq Nat
      BY <1>1
    <3> HIDE DEF Ends
    <3> QED
      BY <3>1, LeastNat
  <2>2. m \in Nat /\ m >= i /\ m <= Len(p) /\ m # i /\ EvalSymlinks(t, SubSeq(p, 1, m)) # Nowhere
    BY <1>1, <2>1
  <2>3. m \in 1..Len(p) /\ m \in 0..Len(p) /\ m - 1 \in i..Len(p) /\ ~(m <= m - 1)
    BY <1>1, <2>2
  <2>4. EvalSymlinks(t, SubSeq(p, 1, m - 1)) = Nowhere
    <3>1. m - 1 \notin Ends
      <4> HIDE DEF Ends
      <4> QED
        BY <2>1, <2>3
    <3> QED
      BY <2>3, <3>1
  <2>5. /\ SubSeq(p, 1, m) \in Seq(Name) /\ SubSeq(p, 1, m) # << >>
        /\ Front(SubSeq(p, 1, m)) = SubSeq(p, 1, m - 1)
    BY <2>3, PrefixFacts, FrontOfPrefix
  <2>6. EvalSymlinks(t, SubSeq(p, 1, m)) = Entry(t, Nowhere, Last(SubSeq(p, 1, m)))
    BY <2>4, <2>5, EvalStep
  <2> QED
    BY <2>2, <2>6 DEF Entry
<1>3. Len(p) \in i..Len(p) /\ SubSeq(p, 1, Len(p)) = p
  BY <1>1, SubSeqFull
<1>4. EvalSymlinks(t, SubSeq(p, 1, Len(p))) = Nowhere
  BY <1>2, <1>3
<1> QED
  BY <1>3, <1>4

\* The steps of a path that is cleaned.
CleanSteps(p) ==
    {g \in [0..Len(p) -> Seq(Name)] :
        g[0] = << >> /\ \A i \in 1..Len(p) : g[i] = CleanName(g[i - 1], p[i])}

\* Cleaning one name leaves no "..".
LEMMA CleanNameIsPath ==
    ASSUME NEW d \in Seq(Name), NEW n \in Name \cup {".."}
    PROVE  CleanName(d, n) \in Seq(Name)
<1>1. n # ".." => Append(d, n) \in Seq(Name)
  BY AppendProperties
<1>2. d # << >> => Front(d) \in Seq(Name)
  BY FrontFacts
<1>3. << >> \in Seq(Name)
  BY EmptySeq
<1> QED
  BY <1>1, <1>2, <1>3 DEF CleanName

\* Every path can be cleaned name by name.
LEMMA CleanStepsExist ==
    ASSUME NEW p \in Seq(Name \cup {".."})
    PROVE  CleanSteps(p) # {}
<1> DEFINE Upto(m) == {g \in [0..m -> Seq(Name)] : g[0] = << >> /\ \A i \in 1..m : g[i] = CleanName(g[i - 1], p[i])}
           Bad == {m \in 0..Len(p) : Upto(m) = {}}
<1>1. Len(p) \in Nat /\ << >> \in Seq(Name)
  BY LenProperties, EmptySeq
<1>2. CASE Bad = {}
  <2>1. Upto(Len(p)) # {}
    BY <1>1, <1>2
  <2> QED
    BY <2>1 DEF CleanSteps
<1>3. CASE Bad # {}
  <2>1. PICK m \in Bad : \A y \in Bad : m <= y
    <3>1. Bad \subseteq Nat
      BY <1>1
    <3> HIDE DEF Bad
    <3> QED
      BY <1>3, <3>1, LeastNat
  <2>2. m \in Nat /\ m <= Len(p) /\ Upto(m) = {}
    BY <1>1, <2>1
  <2>3. m # 0
    <3> SUFFICES ASSUME m = 0 PROVE FALSE
      OBVIOUS
    <3> DEFINE g == [i \in 0..0 |-> << >>]
    <3>1. g \in Upto(0)
      BY <1>1
    <3> QED
      BY <2>2, <3>1
  <2>4. m - 1 \in Nat /\ m - 1 \in 0..Len(p) /\ m - 1 \notin Bad
    <3>1. m - 1 \in Nat /\ m - 1 \in 0..Len(p) /\ ~(m <= m - 1)
      BY <1>1, <2>2, <2>3
    <3> HIDE DEF Bad
    <3> QED
      BY <2>1, <3>1
  <2>5. PICK g \in Upto(m - 1) : TRUE
    BY <2>4
  <2> DEFINE e == CleanName(g[m - 1], p[m])
             h == [i \in 0..m |-> IF i = m THEN e ELSE g[i]]
  <2>6. e \in Seq(Name)
    <3>1. g[m - 1] \in Seq(Name) /\ m \in 1..Len(p)
      BY <1>1, <2>2, <2>3, <2>4, <2>5
    <3>2. p[m] \in Name \cup {".."}
      BY <3>1, ElementOfSeq
    <3> QED
      BY <3>1, <3>2, CleanNameIsPath
  <2>7. \A i \in 0..m : i # m => i \in 0..(m - 1) /\ g[i] \in Seq(Name)
    BY <2>2, <2>5
  <2>8. h \in [0..m -> Seq(Name)] /\ h[0] = << >>
    <3>1. 0 \in 0..m /\ g[0] = << >> /\ h[0] = g[0]
      BY <2>2, <2>3, <2>5
    <3> HIDE DEF e
    <3> QED
      BY <2>6, <2>7, <3>1
  <2>9. \A i \in 1..m : h[i] = CleanName(h[i - 1], p[i])
    <3> SUFFICES ASSUME NEW i \in 1..m PROVE h[i] = CleanName(h[i - 1], p[i])
      OBVIOUS
    <3>1. i \in 0..m /\ i - 1 \in 0..m /\ i - 1 # m /\ h[i - 1] = g[i - 1]
      BY <2>2
    <3>2. CASE i = m
      BY <3>1, <3>2
    <3>3. CASE i # m
      <4>1. i \in 1..(m - 1) /\ h[i] = g[i]
        BY <2>2, <3>1, <3>3
      <4>2. g[i] = CleanName(g[i - 1], p[i])
        BY <2>5, <4>1
      <4> QED
        BY <3>1, <4>1, <4>2
    <3> QED
      BY <3>2, <3>3
  <2> HIDE DEF h
  <2>10. h \in Upto(m)
    BY <2>8, <2>9
  <2> QED
    BY <2>2, <2>10
<1> QED
  BY <1>2, <1>3

\* Two ways to clean a path name by name are one.
LEMMA CleanStepsAgree ==
    ASSUME NEW p, Len(p) \in Nat, NEW g, NEW h, g[0] = h[0],
           \A i \in 1..Len(p) : g[i] = CleanName(g[i - 1], p[i]),
           \A i \in 1..Len(p) : h[i] = CleanName(h[i - 1], p[i])
    PROVE  \A i \in 0..Len(p) : h[i] = g[i]
<1> DEFINE Bad == {i \in 0..Len(p) : h[i] # g[i]}
<1>1. SUFFICES ASSUME Bad # {} PROVE FALSE
  OBVIOUS
<1>2. PICK m \in Bad : \A y \in Bad : m <= y
  <2>1. Bad \subseteq Nat
    OBVIOUS
  <2> HIDE DEF Bad
  <2> QED
    BY <1>1, <2>1, LeastNat
<1>3. m \in Nat /\ m <= Len(p) /\ h[m] # g[m] /\ m # 0
  BY <1>2
<1>4. m - 1 \in 0..Len(p) /\ m \in 1..Len(p) /\ ~(m <= m - 1)
  BY <1>3
<1>5. h[m - 1] = g[m - 1]
  <2>1. m - 1 \notin Bad
    <3> HIDE DEF Bad
    <3> QED
      BY <1>2, <1>4
  <2> QED
    BY <1>4, <2>1
<1> QED
  BY <1>3, <1>4, <1>5

\* filepath.Clean is the last of those steps.
LEMMA CleanIsLastStep ==
    ASSUME NEW p \in Seq(Name \cup {".."})
    PROVE  \E g \in CleanSteps(p) : CleanPath(p) = g[Len(p)]
<1> DEFINE IsTrace(h) == h = [i \in 0..Len(p) |-> IF i = 0 THEN << >> ELSE CleanName(h[i - 1], p[i])]
           f == CHOOSE h : IsTrace(h)
<1>1. Len(p) \in Nat /\ Len(p) \in 0..Len(p)
  BY LenProperties
<1>2. PICK g \in CleanSteps(p) : TRUE
  BY CleanStepsExist
<1>3. /\ g \in [0..Len(p) -> Seq(Name)] /\ g[0] = << >>
      /\ \A i \in 1..Len(p) : g[i] = CleanName(g[i - 1], p[i])
  BY <1>2 DEF CleanSteps
<1>4. IsTrace(g)
  <2>1. \A i \in 0..Len(p) : i = 0 \/ i \in 1..Len(p)
    BY <1>1
  <2>2. \A i \in 0..Len(p) : g[i] = IF i = 0 THEN << >> ELSE CleanName(g[i - 1], p[i])
    BY <1>3, <2>1
  <2>3. g = [i \in 0..Len(p) |-> g[i]]
    BY <1>3
  <2> QED
    BY <2>2, <2>3
<1>5. IsTrace(f)
  BY <1>4
<1>6. CleanPath(p) = f[Len(p)]
  BY DEF CleanPath
<1> HIDE DEF f
<1>7. f[0] = << >> /\ \A i \in 1..Len(p) : f[i] = CleanName(f[i - 1], p[i])
  BY <1>1, <1>5
<1>8. f[Len(p)] = g[Len(p)]
  BY <1>1, <1>3, <1>7, CleanStepsAgree
<1> QED
  BY <1>2, <1>6, <1>8

\* A clean path has no "..", and cleaning it again changes nothing.
LEMMA CleanFacts ==
    ASSUME NEW p \in Seq(Name \cup {".."})
    PROVE  CleanPath(p) \in Seq(Name) /\ (p \in Seq(Name) => CleanPath(p) = p)
<1>1. PICK g \in CleanSteps(p) : CleanPath(p) = g[Len(p)]
  BY CleanIsLastStep
<1>2. /\ g \in [0..Len(p) -> Seq(Name)] /\ g[0] = << >>
      /\ \A i \in 1..Len(p) : g[i] = CleanName(g[i - 1], p[i])
  BY <1>1 DEF CleanSteps
<1>3. Len(p) \in Nat /\ Len(p) \in 0..Len(p)
  BY LenProperties
<1>4. ASSUME p \in Seq(Name) PROVE CleanPath(p) = p
  <2> DEFINE h == [i \in 0..Len(p) |-> SubSeq(p, 1, i)]
  <2>1. h[0] = << >>
    <3>1. SubSeq(p, 1, 0) = << >>
      BY SubSeqEmpty
    <3> QED
      BY <1>3, <3>1
  <2>2. \A i \in 1..Len(p) : h[i] = CleanName(h[i - 1], p[i])
    <3> SUFFICES ASSUME NEW i \in 1..Len(p) PROVE h[i] = CleanName(h[i - 1], p[i])
      OBVIOUS
    <3> PICK q : q = SubSeq(p, 1, i)
      OBVIOUS
    <3>1. i \in 0..Len(p) /\ i - 1 \in 0..Len(p) /\ h[i] = q /\ h[i - 1] = SubSeq(p, 1, i - 1)
      BY <1>3
    <3>2. q \in Seq(Name) /\ q # << >> /\ Front(q) = SubSeq(p, 1, i - 1) /\ Last(q) = p[i]
      BY <1>4, <3>1, PrefixFacts, FrontOfPrefix
    <3>3. Append(Front(q), Last(q)) = q
      BY <3>2, FrontFacts
    <3>4. p[i] # ".."
      <4>1. p[i] \in Name
        BY <1>4, ElementOfSeq
      <4> QED
        BY <4>1, NamesAssumption
    <3> QED
      BY <3>1, <3>2, <3>3, <3>4 DEF CleanName
  <2>3. h[Len(p)] = p
    BY <1>3, <1>4, SubSeqFull
  <2> HIDE DEF h
  <2>4. h[Len(p)] = g[Len(p)]
    BY <1>2, <1>3, <2>1, <2>2, CleanStepsAgree
  <2> QED
    BY <1>1, <2>3, <2>4
<1> QED
  BY <1>1, <1>2, <1>3, <1>4

\* A prefix, element by element.
LEMMA PrefixIff ==
    ASSUME NEW S, NEW s \in Seq(S), NEW u \in Seq(S)
    PROVE  IsPrefix(s, u) <=> Len(s) <= Len(u) /\ \A i \in 1..Len(s) : s[i] = u[i]
<1>1. Len(s) \in Nat /\ Len(u) \in Nat /\ SubSeq(s, 1, Len(s)) = s
  BY LenProperties, SubSeqFull
<1>2. CASE Len(s) <= Len(u)
  <2>1. Len(s) \in 0..Len(u)
    BY <1>1, <1>2
  <2> PICK v : v = SubSeq(u, 1, Len(s))
    OBVIOUS
  <2>2. v \in Seq(S) /\ Len(v) = Len(s) /\ \A i \in 1..Len(s) : v[i] = u[i]
    BY <2>1, PrefixFacts
  <2>3. s = v <=> \A i \in 1..Len(s) : s[i] = v[i]
    BY <2>2, SeqEqual
  <2> QED
    BY <1>1, <1>2, <2>2, <2>3 DEF IsPrefix
<1>3. CASE ~(Len(s) <= Len(u))
  BY <1>3 DEF IsPrefix
<1> QED
  BY <1>2, <1>3

\* isSubpath is "below", whatever the names: no name is "..".
LEMMA SubpathIffUnder ==
    ASSUME NEW root \in Seq(Name), NEW dest \in Seq(Name)
    PROVE  isSubpath(root, dest) <=> IsPrefix(root, dest)
<1> DEFINE Pre(n) == IsPrefix(SubSeq(root, 1, n), dest)
           Good(n) == Pre(n) /\ (n < Len(root) => ~Pre(n + 1))
           Bad == {n \in 0..Len(root) : ~Pre(n)}
           c == CHOOSE n \in 0..Len(root) : Good(n)
<1>0. ASSUME NEW q \in Seq(Name), IsPrefix(q, dest)
      PROVE  Len(q) <= Len(dest) /\ \A i \in 1..Len(q) : q[i] = dest[i]
  BY <1>0, PrefixIff
<1>1. Len(root) \in Nat /\ Len(dest) \in Nat
  BY LenProperties
<1>2. Pre(0)
  <2> PICK e : e = SubSeq(root, 1, 0)
    OBVIOUS
  <2>1. e \in Seq(Name) /\ Len(e) = 0
    BY <1>1, PrefixFacts
  <2>2. Len(e) <= Len(dest) /\ \A i \in 1..Len(e) : e[i] = dest[i]
    BY <1>1, <2>1
  <2>3. IsPrefix(e, dest)
    BY <2>1, <2>2, PrefixIff
  <2> QED
    BY <2>3
<1>3. \E n \in 0..Len(root) : Good(n)
  <2>1. CASE Bad = {}
    <3>1. Len(root) \in 0..Len(root) /\ Pre(Len(root)) /\ ~(Len(root) < Len(root))
      <4>1. Len(root) \in 0..Len(root) /\ ~(Len(root) < Len(root))
        BY <1>1
      <4> QED
        BY <2>1, <4>1
    <3> QED
      BY <3>1
  <2>2. CASE Bad # {}
    <3>1. PICK m \in Bad : \A y \in Bad : m <= y
      <4>1. Bad \subseteq Nat
        BY <1>1
      <4> HIDE DEF Bad
      <4> QED
        BY <2>2, <4>1, LeastNat
    <3>2. m \in 0..Len(root) /\ ~Pre(m)
      BY <3>1
    <3>3. m # 0
      BY <1>2, <3>2
    <3>4. m - 1 \in 0..Len(root) /\ ~(m <= m - 1) /\ (m - 1) + 1 = m
      BY <1>1, <3>2, <3>3
    <3>5. m - 1 \notin Bad
      <4> HIDE DEF Bad
      <4> QED
        BY <3>1, <3>4
    <3>6. Pre(m - 1)
      BY <3>4, <3>5
    <3>7. ~Pre((m - 1) + 1)
      BY <3>2, <3>4
    <3> QED
      BY <3>4, <3>6, <3>7
  <2> QED
    BY <2>1, <2>2
<1>4. c \in 0..Len(root) /\ Good(c)
  BY <1>3
<1>5. Rel(root, dest) = [i \in 1..(Len(root) - c) |-> ".."] \o SubSeq(dest, c + 1, Len(dest))
  BY DEF Rel
<1> HIDE DEF c
<1> DEFINE dots == [i \in 1..(Len(root) - c) |-> ".."]
           rest == SubSeq(dest, c + 1, Len(dest))
<1>6. c \in Nat /\ c <= Len(root) /\ Len(root) - c \in Nat
  BY <1>1, <1>4
<1>7. c <= Len(dest) /\ \A i \in 1..c : root[i] = dest[i]
  <2> PICK q : q = SubSeq(root, 1, c)
    OBVIOUS
  <2>1. q \in Seq(Name) /\ Len(q) = c /\ \A j \in 1..c : q[j] = root[j]
    BY <1>4, PrefixFacts
  <2>2. IsPrefix(q, dest)
    BY <1>4
  <2>3. Len(q) <= Len(dest) /\ \A j \in 1..Len(q) : q[j] = dest[j]
    BY <2>1, <2>2, <1>0
  <2> QED
    BY <2>1, <2>3
<1>8. rest \in Seq(Name)
  <2>1. \A i \in (c + 1)..Len(dest) : i \in 1..Len(dest) /\ dest[i] \in Name
    BY <1>1, <1>6, ElementOfSeq
  <2> QED
    BY <1>1, <1>6, <2>1, SubSeqProperties
<1>9. dots \in Seq({".."}) /\ Len(dots) = Len(root) - c
  BY <1>6
<1> DEFINE N == Name \cup {".."}
<1>10. rest \in Seq(N) /\ dots \in Seq(N)
  BY <1>8, <1>9, SeqMonotonic
<1>11. CASE c = Len(root)
  <2>1. IsPrefix(root, dest)
    BY <1>7, <1>11, PrefixIff
  <2>2. dots = << >>
    BY <1>9, <1>10, <1>11, <1>1, EmptySeq
  <2>3. Rel(root, dest) = rest
    <3>1. << >> \o rest = rest
      BY <1>8, ConcatEmptySeq
    <3> QED
      BY <1>5, <2>2, <3>1
  <2>4. rest # << >> => Head(rest) # ".."
    <3>1. rest # << >> => Head(rest) \in Name
      BY <1>8, HeadTailProperties
    <3> QED
      BY <3>1, NamesAssumption
  <2> HIDE DEF rest
  <2> QED
    BY <2>1, <2>3, <2>4 DEF isSubpath
<1>12. CASE c # Len(root)
  <2>1. c < Len(root) /\ c + 1 \in 0..Len(root) /\ Len(root) - c \in Nat /\ Len(root) - c >= 1
    BY <1>1, <1>6, <1>12
  <2>2. ~IsPrefix(root, dest)
    <3> SUFFICES ASSUME IsPrefix(root, dest) PROVE FALSE
      OBVIOUS
    <3>1. Len(root) <= Len(dest) /\ \A i \in 1..Len(root) : root[i] = dest[i]
      BY PrefixIff
    <3> PICK q : q = SubSeq(root, 1, c + 1)
      OBVIOUS
    <3>2. q \in Seq(Name) /\ Len(q) = c + 1 /\ \A j \in 1..(c + 1) : q[j] = root[j]
      BY <2>1, PrefixFacts
    <3>3. Len(q) <= Len(dest) /\ \A i \in 1..Len(q) : q[i] = dest[i]
      BY <1>1, <1>6, <2>1, <3>1, <3>2
    <3>4. IsPrefix(q, dest)
      BY <3>2, <3>3, PrefixIff
    <3>5. ~Pre(c + 1)
      BY <1>4, <2>1
    <3> QED
      BY <3>4, <3>5
  <2> PICK rel : rel = Rel(root, dest)
    OBVIOUS
  <2>3. rel = dots \o rest
    BY <1>5
  <2>4. Len(rest) \in Nat /\ 1 \in 1..(Len(dots) + Len(rest)) /\ 1 <= Len(dots) /\ dots[1] = ".."
    <3>1. Len(rest) \in Nat
      BY <1>8, LenProperties
    <3> HIDE DEF rest
    <3> QED
      BY <1>9, <2>1, <3>1
  <2>5. rel \in Seq(N) /\ Len(rel) = Len(dots) + Len(rest) /\ rel[1] = dots[1]
    <3> HIDE DEF rest, dots, N
    <3> QED
      BY <1>10, <2>3, <2>4, ConcatProperties
  <2>6. rel # << >>
    <3>1. Len(rel) >= 1
      <4> HIDE DEF rest, dots, N
      <4> QED
        BY <1>9, <2>1, <2>4, <2>5
    <3> QED
      BY <3>1
  <2>7. Head(rel) = rel[1]
    <3> HIDE DEF rest, dots, N
    <3> QED
      BY <2>5, <2>6
  <2> QED
    BY <2>2, <2>4, <2>5, <2>6, <2>7 DEF isSubpath
<1> QED
  BY <1>11, <1>12

----------------------------------------------------------------------------
(* What a call is given and where it goes.                                 *)

\* os.Lstat, by where the parent leads.
LEMMA LstatFacts ==
    ASSUME NEW t \in FileTrees, NEW p \in Seq(Name), p # << >>,
           NEW d, d = EvalSymlinks(t, Front(p)), NEW q, q = Append(d, Last(p))
    PROVE  /\ d = Nowhere => Lstat(t, p) = "missing"
           /\ d # Nowhere /\ ~IsDir(t, d) => Lstat(t, p) = "error"
           /\ d # Nowhere /\ IsDir(t, d) /\ q \in DOMAIN t =>
                 Lstat(t, p) = t[q].kind /\ t[q].kind \in {"dir", "file", "link"}
           /\ d # Nowhere /\ IsDir(t, d) /\ q \notin DOMAIN t => Lstat(t, p) = "missing"
           /\ d # Nowhere => d \in Real(t)
<1>1. ~IsDir(t, Nowhere)
  BY RealFacts DEF IsDir, Nowhere
<1>2. Front(p) \in Seq(Name)
  BY FrontFacts
<1>3. d \in Real(t) \cup {Nowhere}
  BY <1>2, EvalStep
<1>4. q \in DOMAIN t => t[q].kind \in {"dir", "file", "link"}
  BY TreesAssumption
<1>5. Lstat(t, p) = CASE d = Nowhere                       -> "missing"
                      [] d # Nowhere /\ ~IsDir(t, d)       -> "error"
                      [] IsDir(t, d) /\ q \in DOMAIN t     -> t[q].kind
                      [] IsDir(t, d) /\ q \notin DOMAIN t  -> "missing"
  BY DEF Lstat
<1> HIDE DEF Nowhere
<1> QED
  BY <1>1, <1>3, <1>4, <1>5

\* A path that leads somewhere exists.
LEMMA EvalExists ==
    ASSUME NEW t \in FileTrees, NEW p \in Seq(Name), EvalSymlinks(t, p) # Nowhere
    PROVE  Lstat(t, p) \in {"dir", "file", "link"}
<1>1. CASE p = << >>
  BY <1>1 DEF Lstat
<1>2. CASE p # << >>
  <2> PICK d, q : d = EvalSymlinks(t, Front(p)) /\ q = Append(d, Last(p))
    OBVIOUS
  <2>1. EvalSymlinks(t, p) = Entry(t, d, Last(p))
    BY <1>2, EvalStep
  <2>2. d # Nowhere /\ q \in DOMAIN t
    BY <2>1 DEF Entry
  <2>3. d \in Real(t) /\ d \in Seq(Name) /\ Last(p) \in Name
    BY <1>2, <2>2, LstatFacts, RealFacts, FrontFacts
  <2>4. Front(q) = d
    BY <2>3, AppendFacts
  <2>5. IsDir(t, d)
    BY <2>2, <2>4, RealFacts
  <2> QED
    BY <1>2, <2>2, <2>5, LstatFacts
<1> QED
  BY <1>1, <1>2

\* A bounded set of numbers has a greatest one.
LEMMA MaxFacts ==
    ASSUME NEW N \in Nat, NEW T, T \subseteq 0..N, T # {}
    PROVE  Max(T) \in T /\ \A i \in T : i <= Max(T)
<1> DEFINE D == {N - i : i \in T}
<1>1. PICK m \in D : \A y \in D : m <= y
  <2>1. D \subseteq Nat /\ D # {}
    OBVIOUS
  <2> HIDE DEF D
  <2> QED
    BY <2>1, LeastNat
<1>2. PICK x \in T : m = N - x
  BY <1>1
<1>3. \A i \in T : i \in 0..N /\ N - i \in D
  OBVIOUS
<1>4. \A i \in T : x >= i
  <2> HIDE DEF D
  <2> QED
    BY <1>1, <1>2, <1>3
<1>5. Max(T) \in T /\ \A i \in T : Max(T) >= i
  BY <1>2, <1>4 DEF Max
<1> QED
  BY <1>3, <1>5

\* The nearest ancestor that exists.
Ancestor(t, p) == Max({i \in 0..Len(p) : Lstat(t, SubSeq(p, 1, i)) # "missing"})

\* It exists, and nothing longer does.
LEMMA AncestorFacts ==
    ASSUME NEW t \in FileTrees, NEW p \in Seq(Name), NEW n, n = Ancestor(t, p)
    PROVE  /\ n \in 0..Len(p) /\ Len(p) \in Nat
           /\ Lstat(t, SubSeq(p, 1, n)) # "missing"
           /\ \A i \in 0..Len(p) : Lstat(t, SubSeq(p, 1, i)) # "missing" => i <= n
<1> DEFINE T == {i \in 0..Len(p) : Lstat(t, SubSeq(p, 1, i)) # "missing"}
<1>1. Len(p) \in Nat
  BY LenProperties
<1>2. T # {}
  <2>1. SubSeq(p, 1, 0) = << >>
    BY SubSeqEmpty
  <2>2. Lstat(t, SubSeq(p, 1, 0)) = "dir"
    BY <2>1 DEF Lstat
  <2> QED
    BY <1>1, <2>2
<1>3. T \subseteq 0..Len(p)
  OBVIOUS
<1>4. n = Max(T)
  BY DEF Ancestor
<1>5. n \in T /\ \A i \in T : i <= n
  <2> HIDE DEF T
  <2> QED
    BY <1>1, <1>2, <1>3, <1>4, MaxFacts
<1> QED
  BY <1>1, <1>5

\* resolveViaExistingAncestor in terms of it.
LEMMA ResolveDef ==
    ASSUME NEW t, NEW p, NEW n, n = Ancestor(t, p),
           NEW cur, cur = SubSeq(p, 1, n), NEW to, to = EvalSymlinks(t, cur)
    PROVE  resolveViaExistingAncestor(t, p) =
              IF Lstat(t, cur) = "error" \/ to = Nowhere THEN Nowhere
              ELSE to \o SubSeq(p, n + 1, Len(p))
  BY DEF resolveViaExistingAncestor, Ancestor

\* Path r is a, or something is missing between a and the end of r.
Continues(a, r) ==
    r # << >> /\ (r = a \/ \E k \in 0..Len(Front(r)) : SubSeq(Front(r), 1, k) = a)

\* The missing names put back continue the ancestor by one name at least.
LEMMA RejoinFacts ==
    ASSUME NEW S, NEW to \in Seq(S), NEW rest \in Seq(S), rest # << >>
    PROVE  Continues(Append(to, rest[1]), to \o rest)
<1> PICK r : r = to \o rest
  OBVIOUS
<1> PICK m, n, a : m = Len(to) /\ n = Len(rest) /\ a = Append(to, rest[1])
  OBVIOUS
<1>1. m \in Nat /\ n \in Nat /\ n >= 1 /\ rest[1] \in S
  <2>1. m \in Nat /\ n \in Nat \ {0}
    BY LenProperties, EmptySeq
  <2>2. 1 \in 1..n
    BY <2>1
  <2> QED
    BY <2>1, <2>2, ElementOfSeq
<1>2. /\ r \in Seq(S) /\ Len(r) = m + n
      /\ \A i \in 1..(m + n) : r[i] = IF i <= m THEN to[i] ELSE rest[i - m]
  BY ConcatProperties
<1>3. /\ a \in Seq(S) /\ Len(a) = m + 1
      /\ \A i \in 1..m : a[i] = to[i]
      /\ a[m + 1] = rest[1]
  BY <1>1, AppendProperties
<1>4. m + 1 \in 0..(m + n) /\ \A i \in 1..(m + 1) : i \in 1..(m + n) /\ (i \in 1..m \/ i = m + 1)
  BY <1>1
<1>5. \A i \in 1..(m + 1) : r[i] = a[i]
  <2>1. \A i \in 1..m : r[i] = to[i]
    BY <1>1, <1>2
  <2>2. m + 1 \in 1..(m + n) /\ ~(m + 1 <= m) /\ (m + 1) - m = 1
    BY <1>1
  <2>3. r[m + 1] = rest[1]
    BY <1>2, <2>2
  <2> QED
    BY <1>3, <1>4, <2>1, <2>3
<1> PICK b : b = SubSeq(r, 1, m + 1)
  OBVIOUS
<1>6. b = a
  <2>1. b \in Seq(S) /\ Len(b) = m + 1 /\ \A i \in 1..(m + 1) : b[i] = r[i]
    BY <1>2, <1>4, PrefixFacts
  <2>2. \A i \in 1..Len(b) : b[i] = a[i]
    BY <1>5, <2>1
  <2> QED
    BY <1>3, <2>1, <2>2, SeqEqual
<1>7. r # << >>
  <2>1. Len(r) # 0
    BY <1>1, <1>2
  <2> QED
    BY <2>1, EmptySeq
<1>8. ASSUME n = 1 PROVE r = a
  BY <1>2, <1>6, <1>8, SubSeqFull
<1>9. ASSUME n # 1 PROVE \E k \in 0..Len(Front(r)) : SubSeq(Front(r), 1, k) = a
  <2>1. Len(Front(r)) = (m + n) - 1
    BY <1>2, <1>7, FrontFacts
  <2>2. m + 1 \in 0..((m + n) - 1) /\ (m + n) - 1 \in 0..(m + n)
    BY <1>1, <1>9
  <2>3. SubSeq(Front(r), 1, m + 1) = b
    BY <1>2, <2>2, PrefixOfPrefix DEF Front
  <2> QED
    BY <1>6, <2>1, <2>2, <2>3
<1>10. Continues(a, r)
  BY <1>7, <1>8, <1>9 DEF Continues
<1> QED
  BY <1>10

\* What a path resolves to is where a call on it goes: there is no link left
\* in it, or it is in no directory.
LEMMA ResolvedIsOpened ==
    ASSUME NEW t \in FileTrees, NEW p \in Seq(Name), NEW r,
           r = resolveViaExistingAncestor(t, p), r # Nowhere
    PROVE  r \in Seq(Name) /\ Opened(t, r) \in {Nowhere, r}
<1> PICK n, cur, to, rest : /\ n = Ancestor(t, p) /\ cur = SubSeq(p, 1, n)
                            /\ to = EvalSymlinks(t, cur) /\ rest = SubSeq(p, n + 1, Len(p))
  OBVIOUS
<1>1. /\ n \in 0..Len(p) /\ n \in Nat /\ Len(p) \in Nat
      /\ \A i \in 0..Len(p) : Lstat(t, SubSeq(p, 1, i)) # "missing" => i <= n
  BY AncestorFacts
<1>2. r = to \o rest /\ to # Nowhere
  BY ResolveDef
<1>3. cur \in Seq(Name)
  BY <1>1, PrefixFacts
<1>4. to \in Real(t) /\ to \in Seq(Name) /\ EvalSymlinks(t, to) = to /\ Len(to) \in Nat
  BY <1>2, <1>3, EvalStep, RealFacts, RealIsItself, LenProperties
<1>5. /\ rest \in Seq(Name) /\ Len(rest) = Len(p) - n
      /\ \A i \in 1..(Len(p) - n) : rest[i] = p[n + i]
  <2>1. \A i \in (n + 1)..Len(p) : p[i] \in Name
    BY <1>1, ElementOfSeq
  <2>2. /\ rest \in Seq(Name) /\ Len(rest) = (IF n + 1 <= Len(p) THEN Len(p) - (n + 1) + 1 ELSE 0)
        /\ \A i \in 1..(Len(p) - (n + 1) + 1) : rest[i] = p[(n + 1) + i - 1]
    BY <1>1, <2>1, SubSeqProperties
  <2> QED
    BY <1>1, <2>2
<1>6. r \in Seq(Name)
  BY <1>2, <1>4, <1>5, ConcatProperties
<1>7. CASE n = Len(p)
  <2>1. rest = << >>
    BY <1>1, <1>5, <1>7, EmptySeq
  <2>2. r = to
    BY <1>2, <1>4, <2>1, ConcatEmptySeq
  <2>3. Lstat(t, to) # "missing"
    BY <1>2, <1>4, EvalExists
  <2>4. Opened(t, to) = to
    BY <1>4, <2>3 DEF Opened
  <2> QED
    BY <1>6, <2>2, <2>4
<1>8. CASE n # Len(p)
  <2> PICK x, a, up : x = p[n + 1] /\ a = Append(to, x) /\ up = SubSeq(p, 1, n + 1)
    OBVIOUS
  <2>1. n + 1 \in 1..Len(p) /\ n + 1 \in 0..Len(p) /\ ~(n + 1 <= n) /\ (n + 1) - 1 = n
    BY <1>1, <1>8
  <2>2. x \in Name
    BY <2>1, ElementOfSeq
  <2>3. up \in Seq(Name) /\ up # << >> /\ Front(up) = cur /\ Last(up) = x /\ Lstat(t, up) = "missing"
    <3>1. up \in Seq(Name) /\ up # << >> /\ Front(up) = SubSeq(p, 1, (n + 1) - 1) /\ Last(up) = p[n + 1]
      BY <2>1, PrefixFacts, FrontOfPrefix
    <3>2. Lstat(t, up) = "missing"
      BY <1>1, <2>1
    <3> QED
      BY <2>1, <3>1, <3>2
  <2>4. IsDir(t, to) /\ a \notin DOMAIN t
    BY <1>2, <2>3, LstatFacts
  <2>5. a \in Seq(Name) /\ a # << >> /\ Front(a) = to /\ Last(a) = x
    BY <1>4, <2>2, AppendFacts
  <2>6. EvalSymlinks(t, a) = Nowhere /\ Lstat(t, a) = "missing"
    <3>1. EvalSymlinks(t, a) = Entry(t, EvalSymlinks(t, Front(a)), Last(a))
      BY <2>5, EvalStep
    <3>2. Entry(t, to, x) = Nowhere
      BY <2>4 DEF Entry
    <3>3. Lstat(t, a) = "missing"
      BY <1>2, <1>4, <2>4, <2>5, LstatFacts
    <3> QED
      BY <1>4, <2>5, <3>1, <3>2, <3>3
  <2>7. rest # << >> /\ rest[1] = x
    <3>1. 1 \in 1..(Len(p) - n) /\ Len(p) - n # 0
      BY <1>1, <1>8
    <3>2. Len(rest) # 0 /\ rest[1] = p[n + 1]
      BY <1>5, <3>1
    <3> QED
      BY <3>2, EmptySeq
  <2>8. Continues(a, r)
    <3>1. Continues(Append(to, rest[1]), to \o rest)
      BY <1>4, <1>5, <2>7, RejoinFacts
    <3> QED
      BY <1>2, <2>7, <3>1
  <2>9. CASE r = a
    <3>1. Opened(t, a) = Append(to, x)
      BY <1>2, <1>4, <2>5, <2>6 DEF Opened
    <3> QED
      BY <1>6, <2>9, <3>1
  <2>10. CASE r # a
    <3> PICK f : f = Front(r)
      OBVIOUS
    <3>1. r # << >>
      BY <2>8 DEF Continues
    <3>2. PICK k \in 0..Len(f) : SubSeq(f, 1, k) = a
      BY <2>8, <2>10 DEF Continues
    <3>3. f \in Seq(Name)
      BY <1>6, <3>1, FrontFacts
    <3>4. EvalSymlinks(t, SubSeq(f, 1, k)) = Nowhere
      BY <2>6, <3>2
    <3>5. EvalSymlinks(t, f) = Nowhere
      BY <3>2, <3>3, <3>4, NowhereStays
    <3>6. Lstat(t, r) = "missing"
      BY <1>6, <3>1, <3>5, LstatFacts
    <3>7. Opened(t, r) = Nowhere
      BY <3>5, <3>6 DEF Opened
    <3> QED
      BY <1>6, <3>7
  <2> QED
    BY <2>9, <2>10
<1> QED
  BY <1>7, <1>8

\* And a path a call can use is resolved to where the call goes.
LEMMA OpenedIsResolved ==
    ASSUME NEW t \in FileTrees, NEW p \in Seq(Name), Opened(t, p) # Nowhere
    PROVE  resolveViaExistingAncestor(t, p) = Opened(t, p)
<1> PICK n, cur, to, rest : /\ n = Ancestor(t, p) /\ cur = SubSeq(p, 1, n)
                            /\ to = EvalSymlinks(t, cur) /\ rest = SubSeq(p, n + 1, Len(p))
  OBVIOUS
<1>1. /\ n \in 0..Len(p) /\ n \in Nat /\ Len(p) \in Nat /\ Lstat(t, cur) # "missing"
      /\ \A i \in 0..Len(p) : Lstat(t, SubSeq(p, 1, i)) # "missing" => i <= n
  BY AncestorFacts
<1>2. SubSeq(p, 1, Len(p)) = p
  BY SubSeqFull
<1>2a. resolveViaExistingAncestor(t, p) =
          IF Lstat(t, cur) = "error" \/ to = Nowhere THEN Nowhere ELSE to \o rest
  BY DEF resolveViaExistingAncestor, Ancestor
<1>3. CASE Lstat(t, p) = "missing"
  <2>1. p # << >>
    BY <1>3 DEF Lstat
  <2> PICK d : d = EvalSymlinks(t, Front(p))
    OBVIOUS
  <2>2. d # Nowhere /\ Opened(t, p) = Append(d, Last(p))
    BY <1>3 DEF Opened
  <2>3. Len(p) >= 1 /\ Front(p) \in Seq(Name) /\ Last(p) \in Name /\ Last(p) = p[Len(p)]
    BY <2>1, FrontFacts
  <2>4. n = Len(p) - 1
    <3>1. n # Len(p)
      BY <1>1, <1>2, <1>3
    <3>2. Lstat(t, Front(p)) # "missing"
      BY <2>2, <2>3, EvalExists
    <3>3. Len(p) - 1 \in 0..Len(p) /\ Len(p) - 1 <= n
      BY <1>1, <2>3, <3>2 DEF Front
    <3> QED
      BY <1>1, <3>1, <3>3
  <2>5. cur = Front(p) /\ to = d
    BY <2>4 DEF Front
  <2>6. Lstat(t, cur) # "error"
    BY <2>2, <2>3, <2>5, EvalExists
  <2>7. rest = <<Last(p)>>
    <3>1. n + 1 = Len(p) /\ Len(p) \in Len(p)..Len(p) /\ Len(p) \in 1..Len(p) /\ Len(p) < Len(p) + 1 /\ Len(p) + 1 \in Int
      BY <1>1, <2>3, <2>4
    <3>2. SubSeq(p, Len(p), Len(p)) = << p[Len(p)] >> \o SubSeq(p, Len(p) + 1, Len(p))
      BY <3>1, SubSeqRecursiveFirst
    <3>3. SubSeq(p, Len(p) + 1, Len(p)) = << >>
      BY <1>1, <3>1, SubSeqEmpty
    <3>4. << p[Len(p)] >> \in Seq(Name)
      BY <2>3
    <3>5. << p[Len(p)] >> \o << >> = << p[Len(p)] >>
      BY <3>4, ConcatEmptySeq
    <3> QED
      BY <2>3, <3>1, <3>2, <3>3, <3>5
  <2>8. d \in Seq(Name)
    BY <2>2, <2>3, EvalStep, RealFacts
  <2>9. Append(d, Last(p)) = d \o <<Last(p)>>
    BY <2>3, <2>8, AppendIsConcat
  <2> QED
    BY <2>2, <2>5, <2>6, <2>7, <2>9, <1>2a
<1>4. CASE Lstat(t, p) # "missing"
  <2>1. n = Len(p)
    <3>1. Len(p) \in 0..Len(p)
      BY <1>1
    <3>2. Len(p) <= n
      BY <1>1, <1>2, <1>4, <3>1
    <3> QED
      BY <1>1, <3>2
  <2>2. cur = p /\ to = Opened(t, p)
    BY <1>2, <1>4, <2>1 DEF Opened
  <2>3. Lstat(t, cur) # "error" /\ to # Nowhere
    BY <2>2, EvalExists
  <2>4. rest = << >>
    BY <1>1, <2>1, SubSeqEmpty
  <2>5. to \in Seq(Name)
    BY <2>2, <2>3, EvalStep, RealFacts
  <2>6. to \o rest = to
    BY <2>4, <2>5, ConcatEmptySeq
  <2>7. resolveViaExistingAncestor(t, p) = to \o rest
    BY <2>3, <1>2a
  <2> QED
    BY <2>2, <2>6, <2>7
<1> QED
  BY <1>3, <1>4

\* An argument left out is no path.
LEMMA NoPathIsNoPath == NoPath \notin Seq(Name)
<1> SUFFICES ASSUME NoPath \in Seq(Name) PROVE FALSE
  OBVIOUS
<1>1. Len(NoPath) = 1
  BY DEF NoPath
<1>2. NoPath[1] = ""
  BY DEF NoPath
<1>3. 1 \in 1..Len(NoPath)
  BY <1>1
<1>4. NoPath[1] \in Name
  BY <1>3, ElementOfSeq
<1> QED
  BY <1>2, <1>4, NamesAssumption

\* A directory is canonical.
LEMMA DirFacts ==
    ASSUME NEW t \in FileTrees, NEW d, IsDir(t, d)
    PROVE  /\ d \in Real(t) /\ d \in Seq(Name) /\ d # Nowhere /\ d # NoPath
           /\ EvalSymlinks(t, d) = d /\ canonicalizeDir(t, d) = d
<1>1. d \in Real(t) /\ d \in Seq(Name) /\ d # Nowhere
  BY RealFacts
<1>2. EvalSymlinks(t, d) = d
  BY <1>1, RealIsItself
<1>3. d # NoPath
  BY <1>1, NoPathIsNoPath
<1> QED
  BY <1>1, <1>2, <1>3 DEF canonicalizeDir

\* What is resolved is a clean path.
LEMMA CandidateFacts ==
    ASSUME NEW base \in Seq(Name), NEW u \in UserPaths
    PROVE  Candidate(base, u) \in Seq(Name)
<1>1. u.names \in Seq(Name \cup {".."})
  BY DEF UserPaths
<1>2. base \in Seq(Name \cup {".."})
  BY SeqMonotonic
<1>3. base \o u.names \in Seq(Name \cup {".."})
  BY <1>1, <1>2, ConcatProperties
<1> QED
  BY <1>1, <1>3, CleanFacts DEF Candidate

\* What resolveUnderRoot returns is below the root, and a call on it goes
\* nowhere else.
LEMMA UnderRootIsSafe ==
    ASSUME NEW t \in FileTrees, NEW root, IsDir(t, root), NEW u \in UserPaths, NEW b \in BOOLEAN,
           NEW r, r = resolveUnderRoot(t, root, u, b), r # Nowhere
    PROVE  r \in Seq(Name) /\ IsPrefix(root, r) /\ Opened(t, r) \in {Nowhere, r} /\ (b => IsDir(t, r))
<1>1. root \in Seq(Name) /\ canonicalizeDir(t, root) = root
  BY DirFacts
<1> PICK c, v : c = Candidate(root, u) /\ v = resolveViaExistingAncestor(t, c)
  OBVIOUS
<1>2. r = v /\ v # Nowhere /\ isSubpath(root, v) /\ (b => IsDir(t, v))
  BY <1>1 DEF resolveUnderRoot
<1>3. c \in Seq(Name)
  BY <1>1, CandidateFacts
<1>4. v \in Seq(Name) /\ Opened(t, v) \in {Nowhere, v}
  BY <1>2, <1>3, ResolvedIsOpened
<1>5. IsPrefix(root, v)
  BY <1>1, <1>2, <1>4, SubpathIffUnder
<1> QED
  BY <1>2, <1>4, <1>5

\* And it returns where a call goes that stays below the root.
LEMMA UnderRootIsComplete ==
    ASSUME NEW t \in FileTrees, NEW root, IsDir(t, root), NEW u \in UserPaths, NEW b \in BOOLEAN,
           NEW o, o = Opened(t, Candidate(root, u)), o # Nowhere, IsPrefix(root, o), b => IsDir(t, o)
    PROVE  resolveUnderRoot(t, root, u, b) = o
<1>1. root \in Seq(Name) /\ root # Nowhere /\ canonicalizeDir(t, root) = root
  BY DirFacts
<1> PICK c : c = Candidate(root, u)
  OBVIOUS
<1>2. c \in Seq(Name)
  BY <1>1, CandidateFacts
<1>3. resolveViaExistingAncestor(t, c) = o
  BY <1>2, OpenedIsResolved
<1>4. o \in Seq(Name)
  BY <1>2, <1>3, ResolvedIsOpened
<1>5. isSubpath(root, o)
  BY <1>1, <1>4, SubpathIffUnder
<1> QED
  BY <1>1, <1>3, <1>5 DEF resolveUnderRoot

\* The approved root is a directory.
LEMMA RootFacts ==
    ASSUME NEW t \in FileTrees, NEW env \in Envs, approvedRoot(t, env) # Nowhere
    PROVE  IsDir(t, approvedRoot(t, env))
  BY DEF approvedRoot, canonicalizeDir

\* An accepted work directory is a directory below the root.
LEMMA WorkDirIsSafe ==
    ASSUME NEW t \in FileTrees, NEW root, IsDir(t, root), NEW w \in UserPaths,
           NEW dir, dir = requireBoundedWorkDir(t, root, w), dir # Nowhere
    PROVE  IsDir(t, dir) /\ IsPrefix(root, dir)
<1>1. CASE Blank(w)
  <2>1. dir = root
    BY <1>1 DEF requireBoundedWorkDir
  <2>2. IsPrefix(root, root)
    BY DirFacts, LenProperties DEF IsPrefix
  <2> QED
    BY <2>1, <2>2
<1>2. CASE ~Blank(w)
  <2>1. dir = resolveUnderRoot(t, root, w, TRUE)
    BY <1>2 DEF requireBoundedWorkDir
  <2> QED
    BY <2>1, UnderRootIsSafe
<1> QED
  BY <1>1, <1>2

\* And every such directory is accepted, whatever links name it.
LEMMA WorkDirIsComplete ==
    ASSUME NEW t \in FileTrees, NEW root, IsDir(t, root), NEW w \in UserPaths,
           NEW dir, dir = EvalSymlinks(t, Candidate(root, w)), IsDir(t, dir), IsPrefix(root, dir)
    PROVE  requireBoundedWorkDir(t, root, w) = dir
<1> PICK c : c = Candidate(root, w)
  OBVIOUS
<1>1. root \in Seq(Name) /\ root # Nowhere /\ dir # Nowhere /\ EvalSymlinks(t, root) = root
  BY DirFacts
<1>2. c \in Seq(Name)
  BY <1>1, CandidateFacts
<1>3. CASE Blank(w)
  <2>1. root \in Seq(Name \cup {".."})
    BY <1>1, SeqMonotonic
  <2>2. root \o << >> = root
    BY <1>1, ConcatEmptySeq
  <2>3. c = CleanPath(root)
    BY <1>3, <2>2 DEF Candidate, Blank
  <2>4. c = root
    BY <1>1, <2>1, <2>3, CleanFacts
  <2> QED
    BY <1>1, <1>3, <2>4 DEF requireBoundedWorkDir
<1>4. CASE ~Blank(w)
  <2>1. Lstat(t, c) # "missing"
    BY <1>1, <1>2, EvalExists
  <2>2. Opened(t, c) = dir
    BY <2>1 DEF Opened
  <2>3. resolveUnderRoot(t, root, w, TRUE) = dir
    BY <1>1, <2>2, UnderRootIsComplete
  <2> QED
    BY <1>4, <2>3 DEF requireBoundedWorkDir
<1> QED
  BY <1>3, <1>4

\* A work directory that was accepted is accepted again as it is.
LEMMA WorkDirAgain ==
    ASSUME NEW t \in FileTrees, NEW root, IsDir(t, root), NEW dir, IsDir(t, dir), IsPrefix(root, dir)
    PROVE  resolveUnderRoot(t, root, [abs |-> TRUE, names |-> dir], TRUE) = dir
<1> PICK u : u = [abs |-> TRUE, names |-> dir]
  OBVIOUS
<1>1. root \in Seq(Name) /\ dir \in Seq(Name) /\ dir # Nowhere /\ EvalSymlinks(t, dir) = dir
  BY DirFacts
<1>2. dir \in Seq(Name \cup {".."})
  BY <1>1, SeqMonotonic
<1>3. u \in UserPaths
  BY <1>2 DEF UserPaths
<1>4. Candidate(root, u) = dir
  BY <1>1, <1>2, CleanFacts DEF Candidate
<1>5. Lstat(t, dir) # "missing"
  BY <1>1, EvalExists
<1>6. Opened(t, Candidate(root, u)) = dir
  BY <1>1, <1>4, <1>5 DEF Opened
<1> QED
  BY <1>1, <1>3, <1>6, UnderRootIsComplete

\* What is in a directory below the root is below the root.
LEMMA UnderAppend ==
    ASSUME NEW root \in Seq(Name), NEW dir \in Seq(Name), IsPrefix(root, dir), NEW f \in Name
    PROVE  IsPrefix(root, Append(dir, f))
<1> PICK a : a = Append(dir, f)
  OBVIOUS
<1>1. Len(root) <= Len(dir) /\ \A i \in 1..Len(root) : root[i] = dir[i]
  BY PrefixIff
<1>2. Len(root) \in Nat /\ Len(dir) \in Nat
  BY LenProperties
<1>3. a \in Seq(Name) /\ Len(a) = Len(dir) + 1 /\ \A i \in 1..Len(dir) : a[i] = dir[i]
  BY AppendProperties
<1>4. Len(root) <= Len(a) /\ \A i \in 1..Len(root) : root[i] = a[i]
  BY <1>1, <1>2, <1>3
<1> QED
  BY <1>3, <1>4, PrefixIff

\* A database of the work directory that is accepted is opened there.
LEMMA LeafFacts ==
    ASSUME NEW t \in FileTrees, NEW root, IsDir(t, root), NEW dir, IsDir(t, dir), IsPrefix(root, dir),
           NEW f \in Databases, NEW leaf, leaf = Append(dir, f)
    PROVE  /\ requireNonSymlinkLeaf(t, root, leaf) => Opened(t, leaf) = leaf
           /\ Lstat(t, leaf) \in {"missing", "file"} => requireNonSymlinkLeaf(t, root, leaf)
           /\ IsPrefix(root, leaf) /\ IsPrefix(dir, leaf)
<1>1. f \in Name
  BY NamesAssumption
<1>2. /\ root \in Seq(Name) /\ dir \in Seq(Name) /\ dir # Nowhere
      /\ EvalSymlinks(t, dir) = dir
  BY DirFacts
<1>3. leaf \in Seq(Name) /\ leaf # << >> /\ Front(leaf) = dir /\ Last(leaf) = f
  BY <1>1, <1>2, AppendFacts
<1>4. IsPrefix(root, leaf) /\ IsPrefix(dir, leaf)
  <2>1. IsPrefix(dir, dir)
    BY <1>2, LenProperties DEF IsPrefix
  <2> QED
    BY <1>1, <1>2, <2>1, UnderAppend
<1>5. /\ leaf \in DOMAIN t => Lstat(t, leaf) = t[leaf].kind /\ t[leaf].kind \in {"dir", "file", "link"}
      /\ leaf \notin DOMAIN t => Lstat(t, leaf) = "missing"
  BY <1>2, <1>3, LstatFacts
<1>6. Lstat(t, leaf) \in {"dir", "file"} => EvalSymlinks(t, leaf) = leaf
  <2> SUFFICES ASSUME Lstat(t, leaf) \in {"dir", "file"} PROVE EvalSymlinks(t, leaf) = leaf
    OBVIOUS
  <2>1. leaf \in Real(t)
    BY <1>5 DEF Real
  <2> QED
    BY <2>1, RealIsItself
<1>7. Lstat(t, leaf) \in {"missing", "dir", "file"} => Opened(t, leaf) = leaf
  <2>1. Lstat(t, leaf) = "missing" => Opened(t, leaf) = leaf
    BY <1>2, <1>3 DEF Opened
  <2>2. Lstat(t, leaf) \in {"dir", "file"} => Opened(t, leaf) = leaf
    BY <1>6 DEF Opened
  <2> QED
    BY <2>1, <2>2
<1>8. requireNonSymlinkLeaf(t, root, leaf) => Lstat(t, leaf) \in {"missing", "dir", "file"}
  BY <1>5 DEF requireNonSymlinkLeaf
<1>9. Lstat(t, leaf) \in {"missing", "file"} => requireNonSymlinkLeaf(t, root, leaf)
  <2>1. Lstat(t, leaf) = "missing" => requireNonSymlinkLeaf(t, root, leaf)
    BY DEF requireNonSymlinkLeaf
  <2>2. ASSUME Lstat(t, leaf) = "file" PROVE requireNonSymlinkLeaf(t, root, leaf)
    <3>1. leaf # Nowhere
      BY <1>3, RealFacts
    <3>2. Opened(t, leaf) = leaf
      BY <1>7, <2>2
    <3>3. resolveViaExistingAncestor(t, leaf) = leaf
      BY <1>3, <3>1, <3>2, OpenedIsResolved
    <3>4. isSubpath(root, leaf)
      BY <1>2, <1>3, <1>4, SubpathIffUnder
    <3> QED
      BY <2>2, <3>1, <3>3, <3>4 DEF requireNonSymlinkLeaf
  <2> QED
    BY <2>1, <2>2
<1> QED
  BY <1>4, <1>7, <1>8, <1>9

----------------------------------------------------------------------------
(* The tools.                                                              *)

\* The tools that take one path.
LEMMA PathIsSafe ==
    ASSUME NEW t \in FileTrees, NEW env \in Envs, NEW d \in UserPaths, NEW p \in toolPath(t, env, d)
    PROVE  Lands(t, p, approvedRoot(t, env))
<1> PICK root : root = approvedRoot(t, env)
  OBVIOUS
<1>1. root # Nowhere /\ p = requireBoundedPath(t, root, d, NoPath) /\ p # Nowhere
  BY DEF toolPath
<1>2. IsDir(t, root)
  BY <1>1, RootFacts
<1>3. p = resolveUnderRoot(t, root, d, FALSE)
  BY <1>1 DEF requireBoundedPath
<1>4. IsPrefix(root, p) /\ Opened(t, p) \in {Nowhere, p}
  BY <1>1, <1>2, <1>3, UnderRootIsSafe
<1> QED
  BY <1>4 DEF Lands

\* The databases of an accepted work directory.
LEMMA DatabasesAreSafe ==
    ASSUME NEW t \in FileTrees, NEW root, IsDir(t, root), NEW work, IsDir(t, work), IsPrefix(root, work),
           NEW p \in workdirSQLitePaths(t, root, work)
    PROVE  Lands(t, p, root) /\ Lands(t, p, work)
<1>1. PICK f \in Databases : p = Append(work, f) /\ requireNonSymlinkLeaf(t, root, Append(work, f))
  BY DEF workdirSQLitePaths
<1>2. Opened(t, p) = p /\ IsPrefix(root, p) /\ IsPrefix(work, p)
  BY <1>1, LeafFacts
<1> QED
  BY <1>2 DEF Lands

\* The status tool opens one of them.
LEMMA StatusIsSafe ==
    ASSUME NEW t \in FileTrees, NEW env \in Envs, NEW w \in UserPaths, NEW p \in toolStatus(t, env, w)
    PROVE  Lands(t, p, approvedRoot(t, env))
<1> PICK root, work : root = approvedRoot(t, env) /\ work = requireBoundedWorkDir(t, root, w)
  OBVIOUS
<1>1. root # Nowhere /\ work # Nowhere /\ p \in workdirSQLitePaths(t, root, work)
  BY DEF toolStatus
<1>2. IsDir(t, root)
  BY <1>1, RootFacts
<1>3. IsDir(t, work) /\ IsPrefix(root, work)
  BY <1>1, <1>2, WorkDirIsSafe
<1> QED
  BY <1>1, <1>2, <1>3, DatabasesAreSafe

\* The export tool: package and databases are in the work directory.
LEMMA ExportIsSafe ==
    ASSUME NEW t \in FileTrees, NEW env \in Envs, NEW w \in UserPaths, NEW d \in UserPaths,
           NEW p \in toolExportTIR(t, env, w, d), NEW root, root = approvedRoot(t, env),
           NEW work, work = requireBoundedWorkDir(t, root, w)
    PROVE  Lands(t, p, work) /\ IsPrefix(root, work)
<1> PICK to, dbs : to = requireBoundedPath(t, root, d, work) /\ dbs = workdirSQLitePaths(t, root, work)
  OBVIOUS
<1>1. root # Nowhere /\ work # Nowhere /\ to # Nowhere /\ p \in {to} \cup dbs
  BY DEF toolExportTIR
<1>2. IsDir(t, root)
  BY <1>1, RootFacts
<1>3. IsDir(t, work) /\ IsPrefix(root, work)
  BY <1>1, <1>2, WorkDirIsSafe
<1>4. CASE p \in dbs
  BY <1>2, <1>3, <1>4, DatabasesAreSafe
<1>5. CASE p = to
  <2>1. work # NoPath
    BY <1>3, DirFacts
  <2>2. resolveUnderRoot(t, root, [abs |-> TRUE, names |-> work], TRUE) = work
    BY <1>2, <1>3, WorkDirAgain
  <2>3. to = resolveUnderRoot(t, work, d, FALSE)
    BY <1>1, <2>1, <2>2 DEF requireBoundedPath
  <2>4. IsPrefix(work, to) /\ Opened(t, to) \in {Nowhere, to}
    BY <1>1, <1>3, <2>3, UnderRootIsSafe
  <2> QED
    BY <1>3, <1>5, <2>4 DEF Lands
<1> QED
  BY <1>1, <1>4, <1>5

\* What is in bounds is not refused.
LEMMA GoodIsAccepted ==
    ASSUME NEW t \in FileTrees, NEW env \in Envs, NEW w \in UserPaths, NEW d \in UserPaths,
           NEW root, root = approvedRoot(t, env), NEW dir, dir = EvalSymlinks(t, Candidate(root, w)),
           GoodWorkDir(t, root, dir)
    PROVE  /\ toolStatus(t, env, w) # {}
           /\ \A dest : /\ dest = Opened(t, Candidate(dir, d)) /\ ~Blank(d)
                        /\ dest # Nowhere /\ IsPrefix(dir, dest)
                        => dest \in toolExportTIR(t, env, w, d)
<1>1. /\ root # Nowhere /\ dir # Nowhere /\ IsDir(t, dir) /\ IsPrefix(root, dir)
      /\ \A f \in Databases : Lstat(t, Append(dir, f)) \in {"missing", "file"}
  BY DEF GoodWorkDir
<1>2. IsDir(t, root)
  BY <1>1, RootFacts
<1>3. requireBoundedWorkDir(t, root, w) = dir
  BY <1>1, <1>2, WorkDirIsComplete
<1>4. \A f \in Databases : requireNonSymlinkLeaf(t, root, Append(dir, f))
  <2> SUFFICES ASSUME NEW f \in Databases PROVE requireNonSymlinkLeaf(t, root, Append(dir, f))
    OBVIOUS
  <2> PICK leaf : leaf = Append(dir, f)
    OBVIOUS
  <2>1. Lstat(t, leaf) \in {"missing", "file"}
    BY <1>1
  <2>2. requireNonSymlinkLeaf(t, root, leaf)
    BY <1>1, <1>2, <2>1, LeafFacts
  <2> QED
    BY <2>2
<1>5. workdirSQLitePaths(t, root, dir) = {Append(dir, f) : f \in Databases}
  BY <1>4 DEF workdirSQLitePaths
<1>6. toolStatus(t, env, w) # {} /\ workdirSQLitePaths(t, root, dir) # {}
  <2>1. Append(dir, "nodes.sqlite") \in workdirSQLitePaths(t, root, dir)
    BY <1>5 DEF Databases
  <2>2. Append(dir, "nodes.sqlite") \in toolStatus(t, env, w)
    BY <1>1, <1>3, <2>1 DEF toolStatus
  <2> QED
    BY <2>1, <2>2
<1>7. ASSUME NEW dest, dest = Opened(t, Candidate(dir, d)), ~Blank(d), dest # Nowhere, IsPrefix(dir, dest)
      PROVE  dest \in toolExportTIR(t, env, w, d)
  <2>1. dir # NoPath
    BY <1>1, DirFacts
  <2>2. resolveUnderRoot(t, root, [abs |-> TRUE, names |-> dir], TRUE) = dir
    BY <1>1, <1>2, WorkDirAgain
  <2>3. resolveUnderRoot(t, dir, d, FALSE) = dest
    BY <1>1, <1>7, UnderRootIsComplete
  <2>4. requireBoundedPath(t, root, d, dir) = dest
    BY <1>1, <1>7, <2>1, <2>2, <2>3 DEF requireBoundedPath
  <2> QED
    BY <1>1, <1>3, <1>6, <1>7, <2>4 DEF toolExportTIR
<1> QED
  BY <1>6, <1>7

\* What a tool answers is what it computes from the call.
WorkspaceInv ==
    /\ request \in Requests
    /\ answer # << >> =>
          answer = <<[status |-> toolStatus(request.tree, request.env, request.workDir),
                      export |-> toolExportTIR(request.tree, request.env, request.workDir, request.dest),
                      path   |-> toolPath(request.tree, request.env, request.dest)]>>

\* paths.go, "all MCP tool paths must resolve under this root", for every file
\* tree, every root and every argument: no file that a tool opens or creates
\* is outside, wherever the links in the tree lead, and what is inside is not
\* refused.
THEOREM ToolsStayUnderRoot == WorkspaceSpec => []PathsStayUnderRoot
<1>1. WorkspaceInit => WorkspaceInv
  BY DEF WorkspaceInit, WorkspaceInv
<1>2. WorkspaceInv /\ [CallTools]_workVars => WorkspaceInv'
  BY DEF WorkspaceInv, CallTools, workVars
<1>3. WorkspaceInv => PathsStayUnderRoot
  <2> SUFFICES ASSUME WorkspaceInv, answer # << >> PROVE PathsStayUnderRoot
    BY DEF PathsStayUnderRoot
  <2> PICK t, env, w, d : t = request.tree /\ env = request.env /\ w = request.workDir /\ d = request.dest
    OBVIOUS
  <2>1. t \in FileTrees /\ env \in Envs /\ w \in UserPaths /\ d \in UserPaths
    BY NamesAssumption DEF WorkspaceInv, Requests
  <2> PICK status, export, path :
         status = toolStatus(t, env, w) /\ export = toolExportTIR(t, env, w, d) /\ path = toolPath(t, env, d)
    OBVIOUS
  <2>2. Head(answer) = [status |-> status, export |-> export, path |-> path]
    BY DEF WorkspaceInv
  <2> PICK root, work, dir, dest :
         /\ root = approvedRoot(t, env) /\ work = requireBoundedWorkDir(t, root, w)
         /\ dir = EvalSymlinks(t, Candidate(root, w)) /\ dest = Opened(t, Candidate(dir, d))
    OBVIOUS
  <2>3. \A p \in status \cup path : Lands(t, p, root)
    BY <2>1, PathIsSafe, StatusIsSafe
  <2>4. \A p \in export : Lands(t, p, work) /\ IsPrefix(root, work)
    BY <2>1, ExportIsSafe
  <2>5. GoodWorkDir(t, root, dir) => status # {}
    BY <2>1, GoodIsAccepted
  <2>6. GoodWorkDir(t, root, dir) /\ ~Blank(d) /\ dest # Nowhere /\ IsPrefix(dir, dest) => dest \in export
    BY <2>1, GoodIsAccepted
  <2> QED
    BY <2>2, <2>3, <2>4, <2>5, <2>6 DEF PathsStayUnderRoot
<1> QED
  BY <1>1, <1>2, <1>3, PTL DEF WorkspaceSpec

==============================================================================
